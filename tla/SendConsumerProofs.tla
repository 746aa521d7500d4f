-------------------------- MODULE SendConsumerProofs --------------------------
(***************************************************************************)
(* The safety properties of SendConsumer for all numbers of workers, jobs, *)
(* attempts and batch sizes.                                               *)
(*                                                                         *)
(* NoJobLost is not inductive: that a worker about to acknowledge has had  *)
(* its job accepted or given up is part of what its program counter says   *)
(* (WorkerOK), together with the fact that it works on stored jobs only.   *)
(***************************************************************************)
EXTENDS SendConsumer, TLAPS

Busy == {"try", "backoff", "ack", "nak"}

\* What the state of a worker says about its jobs.
WorkerOK(v) ==
  /\ v \in Worker
  /\ v.batch \subseteq DOMAIN stream
  /\ v.at \in Busy => v.job \in DOMAIN stream
  /\ v.at = "backoff" => v.attempt < MaxAttempts
  /\ v.at = "ack" => accepted[v.job] > 0 \/ v.job \in dropped

MInv ==
  /\ MailTypeOK
  /\ \A w \in Workers : WorkerOK(worker[w])
  /\ NoJobLost /\ ConfirmedWasSent /\ OnlyJobsAreSent

-------------------------------------------------------------------------------
(* What the steps do to the stream, to the outbox and to one worker. *)

\* A stored job has an id.
LEMMA StoredJobs == MailTypeOK => DOMAIN stream = 1..Len(stream) /\ DOMAIN stream \subseteq Ids
BY MailBoundAssumption DEF MailTypeOK, Ids

\* A job keeps its place in the stream.
LEMMA StreamGrows ==
  ASSUME MailTypeOK, NEW d \in Drafts, NEW b \in Bodies, HandleSend(d, b)
  PROVE  /\ stream' \in Seq(Job) /\ Len(stream') <= MaxStream
         /\ DOMAIN stream \subseteq DOMAIN stream'
         /\ \A i \in DOMAIN stream : stream'[i] = stream[i]
<1>1. [draft |-> d, body |-> b] \in Job
  BY DEF Job
<1>2. stream \in Seq(Job) /\ stream' = Append(stream, [draft |-> d, body |-> b])
  BY DEF MailTypeOK, HandleSend
<1>3. stream' \in Seq(Job) /\ Len(stream') = Len(stream) + 1
  BY <1>1, <1>2
<1>4. Len(stream) \in Nat /\ Len(stream) < MaxStream
  BY <1>2 DEF HandleSend
<1> QED BY <1>2, <1>3, <1>4, MailBoundAssumption

\* An accepted mail is counted for its job and for its text, and no other.
LEMMA Delivers ==
  ASSUME MailTypeOK, NEW i \in DOMAIN stream, Deliver(i)
  PROVE  /\ outbox' \in [Drafts -> [Bodies -> Nat]]
         /\ accepted' \in [Ids -> Nat]
         /\ accepted'[i] > 0
         /\ \A j \in Ids : accepted[j] > 0 => accepted'[j] > 0
         /\ \A d \in Drafts, b \in Bodies :
              /\ outbox[d][b] > 0 => outbox'[d][b] > 0
              /\ outbox'[d][b] > 0 => outbox[d][b] > 0 \/ stream[i] = [draft |-> d, body |-> b]
         /\ outbox'[stream[i].draft][stream[i].body] > 0
<1>1. i \in Ids
  BY StoredJobs
<1>2. stream[i] \in Job /\ stream[i].draft \in Drafts /\ stream[i].body \in Bodies
  <2>1. stream \in Seq(Job)
    BY DEF MailTypeOK
  <2>2. stream[i] \in Job
    BY <2>1
  <2> QED BY <2>2 DEF Job
<1>3. /\ outbox \in [Drafts -> [Bodies -> Nat]]
      /\ outbox' = [outbox EXCEPT ![stream[i].draft][stream[i].body] = @ + 1]
  BY DEF MailTypeOK, Deliver
<1>4. accepted \in [Ids -> Nat] /\ accepted' = [accepted EXCEPT ![i] = @ + 1]
  BY DEF MailTypeOK, Deliver
<1>5. accepted' \in [Ids -> Nat] /\ accepted'[i] > 0
      /\ \A j \in Ids : accepted[j] > 0 => accepted'[j] > 0
  BY <1>1, <1>4
<1>6. outbox' \in [Drafts -> [Bodies -> Nat]]
  BY <1>2, <1>3
<1>7. outbox'[stream[i].draft][stream[i].body] > 0
  BY <1>2, <1>3
<1>8. ASSUME NEW d \in Drafts, NEW b \in Bodies
      PROVE  /\ outbox[d][b] > 0 => outbox'[d][b] > 0
             /\ d # stream[i].draft \/ b # stream[i].body => outbox'[d][b] = outbox[d][b]
  BY <1>2, <1>3
<1>9. ASSUME NEW d \in Drafts, NEW b \in Bodies, d = stream[i].draft, b = stream[i].body
      PROVE  stream[i] = [draft |-> d, body |-> b]
  BY <1>2, <1>9 DEF Job
<1> QED BY <1>5, <1>6, <1>7, <1>8, <1>9

\* The records a step gives to its worker.
LEMMA WorkerTypes ==
  /\ Free \in Worker
  /\ \A S \in SUBSET Ids : [at |-> "next", batch |-> S, job |-> NoJob, attempt |-> 0] \in Worker
  /\ \A v \in Worker, i \in Ids :
       [at |-> "try", batch |-> v.batch \ {i}, job |-> i, attempt |-> 1] \in Worker
  /\ \A v \in Worker, to \in {"fetch", "next"} \cup Busy : [v EXCEPT !.at = to] \in Worker
  /\ \A v \in Worker : v.attempt < MaxAttempts =>
       [v EXCEPT !.at = "try", !.attempt = @ + 1] \in Worker
<1> USE DEF Worker, Busy
<1>1. Free \in Worker
  BY AttemptsAssumption DEF Free
<1>2. ASSUME NEW S \in SUBSET Ids
      PROVE  [at |-> "next", batch |-> S, job |-> NoJob, attempt |-> 0] \in Worker
  BY AttemptsAssumption
<1>3. \A v \in Worker, i \in Ids :
        [at |-> "try", batch |-> v.batch \ {i}, job |-> i, attempt |-> 1] \in Worker
  BY AttemptsAssumption
<1>4. \A v \in Worker, to \in {"fetch", "next"} \cup Busy : [v EXCEPT !.at = to] \in Worker
  OBVIOUS
<1>5. ASSUME NEW v \in Worker, v.attempt < MaxAttempts
      PROVE  [v EXCEPT !.at = "try", !.attempt = @ + 1] \in Worker
  <2>1. v.attempt + 1 \in 0..MaxAttempts
    BY <1>5, AttemptsAssumption
  <2> QED BY <2>1
<1> QED BY <1>1, <1>2, <1>3, <1>4, <1>5

\* A worker's record stays as good while the stream and the history grow.
LEMMA StillOK ==
  ASSUME NEW v, WorkerOK(v), MailTypeOK,
         DOMAIN stream \subseteq DOMAIN stream',
         \A j \in Ids : accepted[j] > 0 => accepted'[j] > 0,
         dropped \subseteq dropped'
  PROVE  WorkerOK(v)'
<1>1. v \in Worker /\ v.batch \subseteq DOMAIN stream'
  BY DEF WorkerOK
<1>2. v.at \in Busy => v.job \in DOMAIN stream' /\ v.job \in Ids
  BY StoredJobs DEF WorkerOK
<1>3. v.at = "ack" => accepted'[v.job] > 0 \/ v.job \in dropped'
  BY <1>2 DEF WorkerOK, Busy
<1> QED BY <1>1, <1>2, <1>3 DEF WorkerOK

-------------------------------------------------------------------------------
(* Every step preserves the invariant. *)

\* A step that changes neither the stream nor what was delivered, and gives its
\* worker a good record.
LEMMA QuietStep ==
  ASSUME MInv, NEW w \in Workers, NEW v,
         worker' = [worker EXCEPT ![w] = v], WorkerOK(v)',
         acked' \in SUBSET Ids, out' \in SUBSET Ids, dropped' \in SUBSET Ids,
         dropped \subseteq dropped',
         \A i \in acked' : accepted[i] > 0 \/ i \in dropped',
         UNCHANGED <<stream, outbox, accepted, confirmed>>
  PROVE  MInv'
<1>1. worker \in [Workers -> Worker]
  BY DEF MInv, MailTypeOK
<1>2. v \in Worker
  BY DEF WorkerOK
<1>3. MailTypeOK'
  BY <1>1, <1>2 DEF MInv, MailTypeOK
<1>4. ASSUME NEW u \in Workers PROVE WorkerOK(worker[u])'
  BY <1>1, StillOK DEF MInv
<1>5. (NoJobLost /\ ConfirmedWasSent /\ OnlyJobsAreSent)'
  BY DEF MInv, NoJobLost, ConfirmedWasSent, OnlyJobsAreSent
<1> QED BY <1>3, <1>4, <1>5 DEF MInv

\* A step that delivers the job of its worker.
LEMMA DeliveryStep ==
  ASSUME MInv, NEW w \in Workers, NEW v, NEW i \in DOMAIN stream, Deliver(i),
         worker' = [worker EXCEPT ![w] = v], WorkerOK(v)',
         confirmed' \in {confirmed, confirmed \cup {stream[i].draft}},
         UNCHANGED <<stream, acked, out, dropped>>
  PROVE  MInv'
<1>1. MailTypeOK /\ worker \in [Workers -> Worker] /\ i \in Ids
  BY StoredJobs DEF MInv, MailTypeOK
<1>2. stream[i].draft \in Drafts /\ stream[i].body \in Bodies
  <2>1. stream \in Seq(Job)
    BY <1>1 DEF MailTypeOK
  <2>2. stream[i] \in Job
    BY <2>1
  <2> QED BY <2>2 DEF Job
<1>3. MailTypeOK'
  <2>1. v \in Worker
    BY DEF WorkerOK
  <2>2. worker' \in [Workers -> Worker]
    BY <1>1, <2>1
  <2>3. confirmed' \in SUBSET Drafts
    BY <1>1, <1>2 DEF MailTypeOK
  <2> QED BY <1>1, <2>2, <2>3, Delivers DEF MailTypeOK
<1>4. ASSUME NEW u \in Workers PROVE WorkerOK(worker[u])'
  <2>1. CASE u = w
    BY <1>1, <2>1
  <2>2. CASE u # w
    <3>1. worker'[u] = worker[u] /\ WorkerOK(worker[u])
      BY <1>1, <2>2 DEF MInv
    <3> QED BY <1>1, <3>1, StillOK, Delivers DEF WorkerOK
  <2> QED BY <2>1, <2>2
<1>5. NoJobLost'
  BY <1>1, Delivers DEF MInv, MailTypeOK, NoJobLost
<1>6. ConfirmedWasSent'
  <2> SUFFICES ASSUME NEW d \in confirmed' PROVE \E b \in Bodies : outbox'[d][b] > 0
    BY DEF ConfirmedWasSent
  <2>1. CASE d \in confirmed
    BY <1>1, <2>1, Delivers DEF MInv, MailTypeOK, ConfirmedWasSent
  <2>2. CASE d = stream[i].draft
    BY <1>1, <1>2, <2>2, Delivers
  <2> QED BY <2>1, <2>2
<1>7. OnlyJobsAreSent'
  <2> SUFFICES ASSUME NEW d \in Drafts, NEW b \in Bodies, outbox'[d][b] > 0
               PROVE  \E j \in DOMAIN stream : /\ stream[j] = [draft |-> d, body |-> b]
                                               /\ accepted'[j] > 0
    BY DEF OnlyJobsAreSent
  <2>1. CASE outbox[d][b] > 0
    BY <1>1, <2>1, Delivers, StoredJobs DEF MInv, OnlyJobsAreSent
  <2>2. CASE stream[i] = [draft |-> d, body |-> b]
    BY <1>1, <2>2, Delivers
  <2> QED BY <1>1, <2>1, <2>2, Delivers
<1> QED BY <1>3, <1>4, <1>5, <1>6, <1>7 DEF MInv

\* The steps of a worker that do not deliver.
LEMMA WorkerStep ==
  ASSUME MInv, NEW w \in Workers,
         Fetch(w) \/ NextJob(w) \/ TryFails(w) \/ TryGivesUp(w) \/ BackoffEnds(w)
           \/ Ack(w) \/ Nak(w) \/ Stop(w)
  PROVE  MInv'
<1> DEFINE v == worker[w]
<1>1. v \in Worker /\ WorkerOK(v) /\ worker \in [Workers -> Worker]
  BY DEF MInv, MailTypeOK
<1>2. /\ acked \in SUBSET Ids /\ out \in SUBSET Ids /\ dropped \in SUBSET Ids
      /\ \A i \in acked : accepted[i] > 0 \/ i \in dropped
  BY DEF MInv, MailTypeOK, NoJobLost
<1>3. MailTypeOK /\ DOMAIN stream \subseteq Ids
  BY StoredJobs DEF MInv
<1>4. CASE Fetch(w)
  <2>1. PICK S \in SUBSET ((DOMAIN stream) \ (acked \cup out)) :
          /\ worker' = [worker EXCEPT ![w] =
                         [at |-> "next", batch |-> S, job |-> NoJob, attempt |-> 0]]
          /\ out' = out \cup S
    BY <1>4 DEF Fetch
  <2> DEFINE u == [at |-> "next", batch |-> S, job |-> NoJob, attempt |-> 0]
  <2>2. u \in Worker /\ u.batch = S /\ u.at = "next"
    BY <1>3, WorkerTypes
  <2>3. UNCHANGED <<stream, outbox, acked, accepted, dropped, confirmed>>
    BY <1>4 DEF Fetch
  <2>4. WorkerOK(u)'
    BY <2>2, <2>3 DEF WorkerOK, Busy
  <2> HIDE DEF u
  <2> QED BY <1>2, <1>3, <2>1, <2>3, <2>4, QuietStep DEF u
<1>5. CASE NextJob(w)
  <2>1. UNCHANGED <<stream, outbox, acked, out, accepted, dropped, confirmed>>
    BY <1>5 DEF NextJob
  <2>2. CASE worker' = [worker EXCEPT ![w] = Free]
    <3>1. WorkerOK(Free)'
      BY <2>1, WorkerTypes DEF WorkerOK, Busy, Free
    <3> QED BY <1>2, <2>1, <2>2, <3>1, QuietStep
  <2>3. ASSUME NEW i \in v.batch,
               worker' = [worker EXCEPT ![w] =
                           [at |-> "try", batch |-> v.batch \ {i}, job |-> i, attempt |-> 1]]
        PROVE  MInv'
    <3>0. PICK u : u = [at |-> "try", batch |-> v.batch \ {i}, job |-> i, attempt |-> 1]
      OBVIOUS
    <3>1. i \in DOMAIN stream /\ v.batch \subseteq DOMAIN stream
      BY <1>1, <2>3 DEF WorkerOK
    <3>2. u \in Worker
      BY <1>1, <1>3, <3>0, <3>1, WorkerTypes
    <3>3. WorkerOK(u)'
      BY <2>1, <3>0, <3>1, <3>2 DEF WorkerOK
    <3> QED BY <1>2, <2>1, <2>3, <3>0, <3>3, QuietStep
  <2> QED BY <1>5, <2>2, <2>3 DEF NextJob
<1>6. ASSUME NEW to \in {"fetch", "next"} \cup Busy,
             worker' = [worker EXCEPT ![w].at = to],
             to \in Busy => v.at \in Busy,
             to = "backoff" => v.attempt < MaxAttempts,
             to = "ack" => v.job \in dropped',
             acked' \in SUBSET Ids, out' \in SUBSET Ids, dropped' \in SUBSET Ids,
             dropped \subseteq dropped',
             \A i \in acked' : accepted[i] > 0 \/ i \in dropped',
             UNCHANGED <<stream, outbox, accepted, confirmed>>
      PROVE  MInv'
  <2>0. PICK u : u = [v EXCEPT !.at = to]
    OBVIOUS
  <2>1. /\ u \in Worker /\ u.at = to
        /\ u.batch = v.batch /\ u.job = v.job /\ u.attempt = v.attempt
    BY <1>1, <2>0, WorkerTypes DEF Worker
  <2>2. WorkerOK(u)'
    BY <1>1, <1>6, <2>1 DEF WorkerOK
  <2>3. worker' = [worker EXCEPT ![w] = u]
    BY <1>6, <2>0
  <2> QED BY <1>6, <2>2, <2>3, QuietStep
<1>7. CASE TryFails(w)
  BY <1>2, <1>6, <1>7 DEF TryFails, Retry, Busy
<1>8. CASE TryGivesUp(w)
  <2>1. v.job \in Ids
    BY <1>1, <1>3, <1>8 DEF TryGivesUp, Goto, WorkerOK, Busy
  <2> QED BY <1>2, <1>6, <1>8, <2>1 DEF TryGivesUp, Goto, Busy
<1>9. CASE BackoffEnds(w)
  <2>0. PICK u : u = [v EXCEPT !.at = "try", !.attempt = @ + 1]
    OBVIOUS
  <2>1. v.at = "backoff" /\ v.attempt < MaxAttempts
    BY <1>1, <1>9 DEF BackoffEnds, WorkerOK
  <2>2. u \in Worker /\ u.at = "try" /\ u.batch = v.batch /\ u.job = v.job
    BY <1>1, <2>0, <2>1, WorkerTypes DEF Worker
  <2>3. WorkerOK(u)'
    BY <1>1, <1>9, <2>1, <2>2 DEF WorkerOK, BackoffEnds, Busy
  <2>4. worker' = [worker EXCEPT ![w] = u]
    BY <1>1, <1>9, <2>0 DEF BackoffEnds
  <2> QED BY <1>2, <1>9, <2>3, <2>4, QuietStep DEF BackoffEnds
<1>10. CASE Ack(w)
  <2>1. v.job \in Ids /\ (accepted[v.job] > 0 \/ v.job \in dropped)
    BY <1>1, <1>3, <1>10 DEF Ack, Goto, WorkerOK, Busy
  <2> QED BY <1>2, <1>6, <1>10, <2>1 DEF Ack, Goto, Busy
<1>11. CASE Nak(w)
  BY <1>2, <1>6, <1>11 DEF Nak, Goto, Busy
<1>12. CASE Stop(w)
  <2>1. WorkerOK(Free)'
    BY <1>12, WorkerTypes DEF WorkerOK, Busy, Free, Stop
  <2> QED BY <1>2, <1>12, <2>1, QuietStep DEF Stop
<1> QED BY <1>4, <1>5, <1>7, <1>8, <1>9, <1>10, <1>11, <1>12

\* The attempts that a provider accepts, whether or not the answer arrives.
LEMMA AttemptStep ==
  ASSUME MInv, NEW w \in Workers, TrySucceeds(w) \/ TryTimesOut(w)
  PROVE  MInv'
<1> DEFINE v == worker[w]
<1>1. /\ v \in Worker /\ WorkerOK(v) /\ worker \in [Workers -> Worker]
      /\ v.at = "try" /\ v.job \in DOMAIN stream /\ MailTypeOK
  BY DEF MInv, MailTypeOK, WorkerOK, Busy, TrySucceeds, TryTimesOut, Goto
<1>2. /\ Deliver(v.job) /\ UNCHANGED <<stream, acked, out, dropped>>
      /\ confirmed' \in {confirmed, confirmed \cup {stream[v.job].draft}}
  BY DEF TrySucceeds, TryTimesOut
<1>3. PICK to \in {"backoff", "ack", "nak"} :
        /\ worker' = [worker EXCEPT ![w].at = to]
        /\ to = "backoff" => v.attempt < MaxAttempts
  BY DEF TrySucceeds, TryTimesOut, Goto, Retry
<1>4. PICK u : u = [v EXCEPT !.at = to]
  OBVIOUS
<1>5. /\ u \in Worker /\ u.at = to
      /\ u.batch = v.batch /\ u.job = v.job /\ u.attempt = v.attempt
  BY <1>1, <1>4, WorkerTypes DEF Worker, Busy
<1>6. accepted'[u.job] > 0
  BY <1>1, <1>2, <1>5, Delivers
<1>7. WorkerOK(u)'
  BY <1>1, <1>2, <1>3, <1>5, <1>6 DEF WorkerOK
<1>8. worker' = [worker EXCEPT ![w] = u]
  BY <1>3, <1>4
<1> QED BY <1>1, <1>2, <1>7, <1>8, DeliveryStep

\* A job that is queued disturbs no worker and no history.
LEMMA QueueStep ==
  ASSUME MInv, NEW d \in Drafts, NEW b \in Bodies, HandleSend(d, b)
  PROVE  MInv'
<1>1. MailTypeOK /\ worker \in [Workers -> Worker]
  BY DEF MInv, MailTypeOK
<1>2. UNCHANGED <<outbox, acked, out, worker, accepted, dropped, confirmed>>
  BY DEF HandleSend, mvars
<1>3. MailTypeOK'
  BY <1>1, <1>2, StreamGrows DEF MailTypeOK
<1>4. ASSUME NEW u \in Workers PROVE WorkerOK(worker[u])'
  <2>1. PICK v : v = worker[u]
    OBVIOUS
  <2>2. WorkerOK(v)'
    BY <1>1, <1>2, <2>1, StillOK, StreamGrows DEF MInv
  <2> QED BY <1>2, <2>1, <2>2
<1>5. (NoJobLost /\ ConfirmedWasSent)'
  BY <1>2 DEF MInv, NoJobLost, ConfirmedWasSent
<1>6. OnlyJobsAreSent'
  BY <1>1, <1>2, StreamGrows DEF MInv, OnlyJobsAreSent
<1> QED BY <1>3, <1>4, <1>5, <1>6 DEF MInv

\* A job that becomes due again.
LEMMA ExpiryStep ==
  ASSUME MInv, NEW i \in Ids, AckWaitExpires(i)
  PROVE  MInv'
<1>1. UNCHANGED <<stream, outbox, acked, worker, accepted, dropped, confirmed>>
      /\ out' = out \ {i}
  BY DEF AckWaitExpires
<1>2. MailTypeOK'
  BY <1>1 DEF MInv, MailTypeOK
<1>3. \A u \in Workers : WorkerOK(worker[u])'
  BY <1>1 DEF MInv, WorkerOK
<1> QED BY <1>1, <1>2, <1>3 DEF MInv, NoJobLost, ConfirmedWasSent, OnlyJobsAreSent

\* Nothing has happened yet.
LEMMA Initially == Init => MInv
<1> SUFFICES ASSUME Init PROVE MInv
  OBVIOUS
<1>1. /\ stream = <<>> /\ outbox = [d \in Drafts |-> [b \in Bodies |-> 0]]
      /\ acked = {} /\ out = {} /\ worker = [w \in Workers |-> Free]
      /\ accepted = [i \in Ids |-> 0] /\ dropped = {} /\ confirmed = {}
  BY DEF Init, MailInit
<1>2. Free \in Worker
  BY WorkerTypes
<1>3. stream \in Seq(Job) /\ Len(stream) <= MaxStream
  BY <1>1, MailBoundAssumption
<1>4. MailTypeOK
  BY <1>1, <1>2, <1>3 DEF MailTypeOK
<1>5. ASSUME NEW w \in Workers PROVE WorkerOK(worker[w])
  <2>1. worker[w] = Free
    BY <1>1
  <2> QED BY <1>2, <2>1 DEF WorkerOK, Free, Busy
<1>6. OnlyJobsAreSent
  BY <1>1 DEF OnlyJobsAreSent
<1> QED BY <1>1, <1>4, <1>5, <1>6 DEF MInv, NoJobLost, ConfirmedWasSent

-------------------------------------------------------------------------------
(* The theorems. *)

\* Whatever interleaving of workers, crashes, lost acknowledgements and
\* redeliveries occurs, the invariant holds.
THEOREM MailInvariance == Spec => []MInv
<1>1. ASSUME MInv, [Next]_svars PROVE MInv'
  <2>1. CASE UNCHANGED svars
    BY <1>1, <2>1 DEF svars, mvars, MInv, MailTypeOK, WorkerOK, NoJobLost,
                      ConfirmedWasSent, OnlyJobsAreSent
  <2>2. ASSUME NEW w \in Workers, Fetch(w) \/ NextJob(w) \/ HandleSendMessage(w) \/ Stop(w)
        PROVE  MInv'
    BY <1>1, <2>2, WorkerStep, AttemptStep DEF HandleSendMessage
  <2>3. ASSUME NEW i \in Ids, AckWaitExpires(i) PROVE MInv'
    BY <1>1, <2>3, ExpiryStep
  <2>4. ASSUME NEW d \in Drafts, NEW b \in Bodies, HandleSend(d, b) PROVE MInv'
    BY <1>1, <2>4, QueueStep
  <2> QED BY <1>1, <2>1, <2>2, <2>3, <2>4 DEF Next, MailNext
<1> QED BY <1>1, Initially, PTL DEF Spec

\* The state of the stream, the outbox and the workers is always well formed:
\* in particular no delivery of a job is tried more often than maxAttempts
\* (send_consumer.go:115-148).
THEOREM MailTypeCorrect == Spec => []MailTypeOK
<1>1. MInv => MailTypeOK
  BY DEF MInv
<1> QED BY <1>1, MailInvariance, PTL

\* No job leaves the stream unless it was accepted or cannot be delivered,
\* however many workers fetch it, stop, retry or lose its acknowledgement
\* (send_consumer.go:115-148).
THEOREM JobsAreKept == Spec => []NoJobLost
<1>1. MInv => NoJobLost
  BY DEF MInv
<1> QED BY <1>1, MailInvariance, PTL

\* "email.sent" is published only for a draft one of whose texts a provider has
\* accepted (send_consumer.go:250-268).
THEOREM ConfirmationsAreTrue == Spec => []ConfirmedWasSent
<1>1. MInv => ConfirmedWasSent
  BY DEF MInv
<1> QED BY <1>1, MailInvariance, PTL

\* What a provider has accepted is the text of a job of the stream, for the
\* draft of that job: workers that share a stream never mix up their jobs
\* (send_consumer.go:152-252).
THEOREM OnlyQueuedJobsLeave == Spec => []OnlyJobsAreSent
<1>1. MInv => OnlyJobsAreSent
  BY DEF MInv
<1> QED BY <1>1, MailInvariance, PTL

\* No job is lost and nothing else is sent, for any jobs and workers
\* (send_consumer.go:97-149).
THEOREM MailIsSound == Spec => []MailInv
<1>1. MailTypeOK /\ NoJobLost /\ OnlyJobsAreSent => MailInv
  BY DEF MailInv
<1> QED BY <1>1, MailTypeCorrect, JobsAreKept, OnlyQueuedJobsLeave, PTL
===============================================================================
