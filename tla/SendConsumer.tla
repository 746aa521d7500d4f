----------------------------- MODULE SendConsumer -----------------------------
(***************************************************************************)
(* The ingestion worker's consumer of the "email.send" stream              *)
(* (ingestion/internal/nats/send_consumer.go) and the handler that also    *)
(* publishes to it (ingestion/internal/server/handler_send.go).            *)
(*                                                                         *)
(* JetStream is external: a work-queue stream with one durable pull        *)
(* consumer and its default settings.  A fetched job is redelivered when   *)
(* it is nak'd or when its AckWait (30 seconds) runs out, even though a    *)
(* worker may still be busy with it; it leaves the stream when an          *)
(* acknowledgement arrives.  Acks and naks can be lost.                    *)
(***************************************************************************)
EXTENDS Naturals, Sequences, FiniteSets

CONSTANTS
  Drafts, Bodies,
  Workers,      \* running worker processes
  FetchMax,     \* sub.Fetch(10)
  MaxAttempts,  \* attempts of one delivery (3)
  NoJob,        \* a worker that is between two jobs
  MaxStream,    \* bound: jobs published
  MaxSends      \* bound: deliveries of one text of one draft

ASSUME FetchAssumption == FetchMax \in Nat \ {0}
ASSUME AttemptsAssumption == MaxAttempts \in Nat \ {0}
ASSUME NoJobAssumption == NoJob \notin Nat
ASSUME MailBoundAssumption == MaxStream \in Nat /\ MaxSends \in Nat

VARIABLES
  stream,       \* jobs ever stored, in order; a job's id is its position
  outbox,       \* mails a provider has accepted, by draft and text
  acked,        \* jobs removed from the stream by an acknowledgement
  out,          \* jobs delivered and not yet due for redelivery
  worker,       \* [Workers -> Worker]
  accepted,     \* history: how often a provider accepted each job
  dropped,      \* history: jobs given up because of a non-retryable error
  confirmed     \* drafts for which "email.sent" was published

mvars == <<acked, out, worker, accepted, dropped, confirmed>>
svars == <<stream, outbox, mvars>>

Ids == 1..MaxStream
Job == [draft : Drafts, body : Bodies]
Worker == [at : {"fetch", "next", "try", "backoff", "ack", "nak"},
           batch : SUBSET Ids, job : Ids \cup {NoJob}, attempt : 0..MaxAttempts]
Free == [at |-> "fetch", batch |-> {}, job |-> NoJob, attempt |-> 0]

MailTypeOK ==
  /\ stream \in Seq(Job) /\ Len(stream) <= MaxStream
  /\ outbox \in [Drafts -> [Bodies -> Nat]]
  /\ acked \in SUBSET Ids
  /\ out \in SUBSET Ids
  /\ worker \in [Workers -> Worker]
  /\ accepted \in [Ids -> Nat]
  /\ dropped \in SUBSET Ids
  /\ confirmed \in SUBSET Drafts

MailInit ==
  /\ acked = {}
  /\ out = {}
  /\ worker = [w \in Workers |-> Free]
  /\ accepted = [i \in Ids |-> 0]
  /\ dropped = {}
  /\ confirmed = {}

Goto(w, from, to) ==
  /\ worker[w].at = from
  /\ worker' = [worker EXCEPT ![w].at = to]

\* A job is queued: by HandleSend (POST /api/v1/send) for the Intelligence
\* Layer, or by an approval of the sync service (module SendPipeline).
HandleSend(d, b) ==
  /\ Len(stream) < MaxStream
  /\ stream' = Append(stream, [draft |-> d, body |-> b])
  /\ UNCHANGED <<outbox, mvars>>

\* Subscribe: sub.Fetch hands over up to FetchMax jobs that are due.
Fetch(w) ==
  /\ worker[w].at = "fetch"
  /\ \E S \in SUBSET ((DOMAIN stream) \ (acked \cup out)) :
       /\ S # {} /\ Cardinality(S) <= FetchMax
       /\ worker' = [worker EXCEPT ![w] =
                       [at |-> "next", batch |-> S, job |-> NoJob, attempt |-> 0]]
       /\ out' = out \cup S
  /\ UNCHANGED <<stream, outbox, acked, accepted, dropped, confirmed>>

\* The batch is worked through one job at a time.
NextJob(w) ==
  /\ worker[w].at = "next"
  /\ \/ \E i \in worker[w].batch :
          worker' = [worker EXCEPT ![w] =
                      [at |-> "try", batch |-> worker[w].batch \ {i}, job |-> i, attempt |-> 1]]
     \/ worker[w].batch = {} /\ worker' = [worker EXCEPT ![w] = Free]
  /\ UNCHANGED <<stream, outbox, acked, out, accepted, dropped, confirmed>>

\* Plausible bugs: a job whose attempts are used up is acknowledged; one attempt
\* too many.
Retry_AcksExhausted(w) ==
  worker' = [worker EXCEPT ![w].at = IF worker[w].attempt < MaxAttempts
                                     THEN "backoff" ELSE "ack"]

\* After a retryable error: another attempt, or Nak once they are used up.
Retry(w) ==
  worker' = [worker EXCEPT ![w].at = IF worker[w].attempt < MaxAttempts
                                     THEN "backoff" ELSE "nak"]

\* Plausible bug: the loop variable of the batch is shared between jobs, so the
\* mail is built from another job of the stream.

\* The provider accepts job i (Gmail or Outlook SendEmail).
Deliver(i) ==
  LET d == stream[i].draft  b == stream[i].body IN
  /\ outbox[d][b] < MaxSends
  /\ outbox' = [outbox EXCEPT ![d][b] = @ + 1]
  /\ accepted' = [accepted EXCEPT ![i] = @ + 1]

\* trySend succeeds; publishing "email.sent" may fail, which is only logged.
TrySucceeds(w) ==
  LET i == worker[w].job IN
  /\ Goto(w, "try", "ack")
  /\ Deliver(i)
  /\ confirmed' \in {confirmed, confirmed \cup {stream[i].draft}}
  /\ UNCHANGED <<stream, acked, out, dropped>>

\* Plausible bug: "email.sent" is published before the provider is called.
TryFails_Confirms(w) ==
  /\ worker[w].at = "try"
  /\ Retry(w)
  /\ confirmed' = confirmed \cup {stream[worker[w].job].draft}
  /\ UNCHANGED <<stream, outbox, acked, out, accepted, dropped>>

\* trySend fails with a retryable error before the provider took the mail ...
TryFails(w) ==
  /\ worker[w].at = "try"
  /\ Retry(w)
  /\ UNCHANGED <<stream, outbox, acked, out, accepted, dropped, confirmed>>

\* ... or the provider took it and the answer was lost.
TryTimesOut(w) ==
  /\ worker[w].at = "try"
  /\ Deliver(worker[w].job)
  /\ Retry(w)
  /\ UNCHANGED <<stream, acked, out, dropped, confirmed>>

\* A non-retryable error (no active account, unsupported provider,
\* invalid_grant): the job is acknowledged to drop it.
TryGivesUp(w) ==
  /\ Goto(w, "try", "ack")
  /\ dropped' = dropped \cup {worker[w].job}
  /\ UNCHANGED <<stream, outbox, acked, out, accepted, confirmed>>

BackoffEnds(w) ==
  /\ worker[w].at = "backoff"
  /\ worker' = [worker EXCEPT ![w].at = "try", ![w].attempt = @ + 1]
  /\ UNCHANGED <<stream, outbox, acked, out, accepted, dropped, confirmed>>

\* Plausible bug: the last job of a batch is never acknowledged.
Ack_SkipsLast(w) ==
  LET i == worker[w].job IN
  /\ Goto(w, "ack", "next")
  /\ \/ worker[w].batch # {} /\ acked' = acked \cup {i} /\ out' = out \ {i}
     \/ UNCHANGED <<acked, out>>
  /\ UNCHANGED <<stream, outbox, accepted, dropped, confirmed>>

\* msg.Ack(): the job leaves the stream, unless the ack is lost.
Ack(w) ==
  LET i == worker[w].job IN
  /\ Goto(w, "ack", "next")
  /\ \/ acked' = acked \cup {i} /\ out' = out \ {i}
     \/ UNCHANGED <<acked, out>>
  /\ UNCHANGED <<stream, outbox, accepted, dropped, confirmed>>

\* msg.Nak(): the job is due again at once, unless the nak is lost.
Nak(w) ==
  LET i == worker[w].job IN
  /\ Goto(w, "nak", "next")
  /\ out' \in {out, out \ {i}}
  /\ UNCHANGED <<stream, outbox, acked, accepted, dropped, confirmed>>

\* The process stops: a crash, or the context is cancelled during a backoff
\* and the rest of the batch is left unacknowledged.
Stop(w) ==
  /\ worker[w].at # "fetch"
  /\ worker' = [worker EXCEPT ![w] = Free]
  /\ UNCHANGED <<stream, outbox, acked, out, accepted, dropped, confirmed>>

\* JetStream: AckWait runs out, the job is due again.
AckWaitExpires(i) ==
  /\ i \in out
  /\ out' = out \ {i}
  /\ UNCHANGED <<stream, outbox, acked, worker, accepted, dropped, confirmed>>

HandleSendMessage(w) ==
  \/ TrySucceeds(w) \/ TryFails(w) \/ TryTimesOut(w) \/ TryGivesUp(w)
  \/ BackoffEnds(w) \/ Ack(w) \/ Nak(w)

MailNext ==
  \/ \E w \in Workers : Fetch(w) \/ NextJob(w) \/ HandleSendMessage(w) \/ Stop(w)
  \/ \E i \in Ids : AckWaitExpires(i)

Init ==
  /\ stream = <<>>
  /\ outbox = [d \in Drafts |-> [b \in Bodies |-> 0]]
  /\ MailInit

Next == MailNext \/ \E d \in Drafts, b \in Bodies : HandleSend(d, b)

Spec == Init /\ [][Next]_svars

-------------------------------------------------------------------------------
(* Properties *)

\* A job leaves the stream only when a provider has accepted it or it has
\* failed for a reason no retry can mend; exhausted retries, crashes, lost acks
\* and expired deliveries never lose one (send_consumer.go:115-148).
NoJobLost == \A i \in acked : accepted[i] > 0 \/ i \in dropped

\* A confirmation is published only for a mail that was accepted
\* (send_consumer.go:250-268).
ConfirmedWasSent ==
  \A d \in confirmed : \E b \in Bodies : outbox[d][b] > 0

\* Every mail a provider has accepted belongs to a job of the stream, counted
\* once per acceptance: workers never mix up the jobs of a batch.
OnlyJobsAreSent ==
  \A d \in Drafts, b \in Bodies :
    outbox[d][b] > 0 => \E i \in DOMAIN stream :
                          /\ stream[i] = [draft |-> d, body |-> b]
                          /\ accepted[i] > 0

(***************************************************************************)
(* Fairness: a worker process runs (it is restarted when it stops) and     *)
(* JetStream honours AckWait.  Failures do not strike for ever at the same *)
(* point: a job that is due again and again is fetched, one that is        *)
(* fetched again and again is started, one that is tried again and again   *)
(* is accepted or given up, and not every ack of it is lost.               *)
(***************************************************************************)
Fetches(w, i) == Fetch(w) /\ i \in out'
Starts(w, i) == NextJob(w) /\ worker'[w].job = i
Settles(w, i) == worker[w].job = i /\ (TrySucceeds(w) \/ TryGivesUp(w))
AckArrives(w, i) == worker[w].job = i /\ Ack(w) /\ i \in acked'

MailFairness ==
  /\ \A w \in Workers :
       /\ WF_svars(NextJob(w)) /\ WF_svars(HandleSendMessage(w))
       /\ \A i \in Ids : /\ SF_svars(Fetches(w, i)) /\ SF_svars(Starts(w, i))
                         /\ SF_svars(Settles(w, i)) /\ SF_svars(AckArrives(w, i))
  /\ \A i \in Ids : WF_svars(AckWaitExpires(i))

\* A queued job stays queued until it is sent or given up, and nothing else is
\* sent, whatever acks are lost and however often it is delivered.
MailInv == MailTypeOK /\ NoJobLost /\ OnlyJobsAreSent
===============================================================================
