------------------------------- MODULE Backfill -------------------------------
(***************************************************************************)
(* The historical backfill of one user: the Redis list of jobs, one per    *)
(* mail account, the workers that fetch each message of the last 90 days,  *)
(* and the hourly counter that all jobs of the user share.  A job travels  *)
(* in the list with its retries; its status is in a hash of its own.      *)
(*                                                                         *)
(* Left out: the texts of messages, pages of a listing (a listing succeeds *)
(* or fails as a whole), and the numbers of messages found, processed and  *)
(* failed, which are only shown.                                           *)
(***************************************************************************)
EXTENDS Naturals, Sequences, FiniteSets, SequencesExt

CONSTANTS Job,          \* mail accounts of the user
          Consumer,     \* workers, in one process or several
          MailCount,    \* messages of an account in the last 90 days
          HourlyLimit,  \* RateLimitMaxEmailsPerHour
          MaxRetries,   \* as in the code
          MaxTriggers,  \* bound: logins that trigger a backfill
          MaxJobFailures \* bound: failing calls and crashes

ASSUME BackfillBounds ==
  MailCount \in Nat /\ HourlyLimit \in Nat \ {0} /\ MaxRetries \in Nat /\ MaxTriggers \in Nat /\ MaxJobFailures \in Nat

VARIABLES
  backlog,    \* the list; backlog enter on the left and leave on the right
  status,     \* the status in each job's hash
  count,      \* the counter: its value (0: no key), and whether it expires
  consumer,   \* what each worker does, with which job, and at which message
  mails,      \* messages in raw_emails
  events,     \* email.ingested events of each message
  dropped,    \* history: messages that failed or had vanished
  orphaned,   \* history: jobs whose worker died or whose last write failed
  stuckCount, \* history: the counter was left without an expiry
  triggers, jobFailures

backfillVars == <<backlog, status, count, consumer, mails, events, dropped, orphaned, stuckCount, triggers, jobFailures>>

Mail == Job \X (1 .. MailCount)
Task == [job : Job, retry : Nat]
IdleConsumer == [at |-> "idle", next |-> 1, task |-> <<>>]

BackfillInit ==
  /\ backlog = <<>> /\ status = [j \in Job |-> "none"] /\ count = [value |-> 0, expires |-> FALSE]
  /\ consumer = [w \in Consumer |-> IdleConsumer]
  /\ mails = {} /\ events = [m \in Mail |-> 0] /\ dropped = {} /\ orphaned = {}
  /\ stuckCount = FALSE /\ triggers = 0 /\ jobFailures = 0

JobFails == jobFailures < MaxJobFailures /\ jobFailures' = jobFailures + 1
Goto(w, at) == consumer' = [consumer EXCEPT ![w].at = at]
JobOf(w) == consumer[w].task.job
Current(w) == <<JobOf(w), consumer[w].next>>

-----------------------------------------------------------------------------
(* Scheduler: Enqueue and Dequeue                                           *)

Trigger(j) ==
  /\ triggers < MaxTriggers /\ triggers' = triggers + 1
  /\ backlog' = <<[job |-> j, retry |-> 0]>> \o backlog
  /\ status' = [status EXCEPT ![j] = "pending"]
  /\ UNCHANGED <<count, consumer, mails, events, dropped, orphaned, stuckCount, jobFailures>>

\* BRPOP; that the status could not be set to running is only logged.
Dequeue(w) ==
  /\ consumer[w].at = "idle" /\ backlog # <<>> /\ backlog' = Front(backlog)
  /\ consumer' = [consumer EXCEPT ![w] = [at |-> "list", next |-> 1, task |-> Last(backlog)]]
  /\ \/ status' = [status EXCEPT ![Last(backlog).job] = "running"] /\ UNCHANGED jobFailures
     \/ JobFails /\ UNCHANGED status
  /\ UNCHANGED <<count, mails, events, dropped, orphaned, stuckCount, triggers>>

\* Refreshing the token and listing the mailbox, before any message.
List(w) ==
  /\ consumer[w].at = "list"
  /\ \/ Goto(w, "check") /\ UNCHANGED jobFailures
     \/ JobFails /\ Goto(w, "backoff")
  /\ UNCHANGED <<backlog, status, count, mails, events, dropped, orphaned, stuckCount, triggers>>

-----------------------------------------------------------------------------
(* CanProcessEmail: INCR, and EXPIRE if the counter is new                  *)

Listed(w) == consumer[w].next <= MailCount

\* Over the limit the worker sleeps for an hour and asks once more; then the
\* job fails.  Each question counts, whatever the answer.
Ask(w, refused) ==
  /\ \/ /\ count' = [count EXCEPT !.value = @ + 1]
        /\ Goto(w, IF count.value = 0 THEN "expire" ELSE IF count.value < HourlyLimit THEN "handle" ELSE refused)
        /\ UNCHANGED jobFailures
     \/ JobFails /\ Goto(w, "backoff") /\ UNCHANGED count
  /\ UNCHANGED <<backlog, status, mails, events, dropped, orphaned, stuckCount, triggers>>

CanProcessEmail(w) == consumer[w].at = "check" /\ Listed(w) /\ Ask(w, "wait")
Recheck(w) == consumer[w].at = "woken" /\ Ask(w, "backoff")

\* The key may have been deleted since; the error of EXPIRE is not looked at.
Given == count.value > 0

SetExpiry(w) ==
  /\ consumer[w].at = "expire" /\ Goto(w, "handle")
  /\ \/ count' = [count EXCEPT !.expires = @ \/ Given] /\ UNCHANGED <<stuckCount, jobFailures>>
     \/ JobFails /\ stuckCount' = TRUE /\ UNCHANGED count
  /\ UNCHANGED <<backlog, status, mails, events, dropped, orphaned, triggers>>

\* An hour passes: the key, which is older than any sleep, expires.
HourPasses ==
  /\ ~\E w \in Consumer : consumer[w].at = "expire"
  /\ count.expires \/ \E w \in Consumer : consumer[w].at = "wait"
  /\ count' = IF count.expires THEN [value |-> 0, expires |-> FALSE] ELSE count
  /\ consumer' = [w \in Consumer |-> [consumer[w] EXCEPT !.at = IF @ = "wait" THEN "woken" ELSE @]]
  /\ UNCHANGED <<backlog, status, mails, events, dropped, orphaned, stuckCount, triggers, jobFailures>>

-----------------------------------------------------------------------------
(* One message: fetch, insert, publish                                      *)

NextMail(w) == consumer' = [consumer EXCEPT ![w].at = "check", ![w].next = @ + 1]

Insert_NoConflict(m) == "new"

\* ON CONFLICT (source_account_id, message_id) DO NOTHING, and the number of rows affected.
Insert(m) == IF m \in mails THEN "duplicate" ELSE "new"

\* A message that has vanished or is a draft is skipped, one that cannot be
\* fetched, parsed or inserted is counted as failed; the job goes on.
PersistAndPublish(w) ==
  LET m == Current(w) IN
  /\ consumer[w].at = "handle"
  /\ \/ /\ Insert(m) = "new" /\ mails' = mails \cup {m} /\ Goto(w, "publish")
        /\ UNCHANGED <<dropped, jobFailures>>
     \/ Insert(m) = "duplicate" /\ NextMail(w) /\ UNCHANGED <<mails, dropped, jobFailures>>
     \/ dropped' = dropped \cup {m} /\ NextMail(w) /\ UNCHANGED <<mails, jobFailures>>
  /\ UNCHANGED <<backlog, status, count, events, orphaned, stuckCount, triggers>>

\* A failing publish is only logged.
PublishIngested(w) ==
  /\ consumer[w].at = "publish" /\ NextMail(w)
  /\ \/ events' = [events EXCEPT ![Current(w)] = @ + 1] /\ UNCHANGED jobFailures
     \/ JobFails /\ UNCHANGED events
  /\ UNCHANGED <<backlog, status, count, mails, dropped, orphaned, stuckCount, triggers>>

\* The pollers store and announce the same messages.
IngestedElsewhere(m) ==
  /\ m \notin mails /\ mails' = mails \cup {m} /\ events' = [events EXCEPT ![m] = @ + 1]
  /\ UNCHANGED <<backlog, status, count, consumer, dropped, orphaned, stuckCount, triggers, jobFailures>>

-----------------------------------------------------------------------------
(* The end of a job                                                         *)

Exhausted(w) == consumer[w].next > MailCount

End(w) == consumer' = [consumer EXCEPT ![w] = IdleConsumer]

\* MarkComplete deletes the counter of the user, which other jobs use too.
MarkComplete(w) ==
  /\ consumer[w].at = "check" /\ Exhausted(w) /\ End(w)
  /\ \/ /\ status' = [status EXCEPT ![JobOf(w)] = "complete"]
        /\ count' = [value |-> 0, expires |-> FALSE] /\ UNCHANGED <<orphaned, jobFailures>>
     \/ JobFails /\ orphaned' = orphaned \cup {JobOf(w)} /\ UNCHANGED <<status, count>>
  /\ UNCHANGED <<backlog, mails, events, dropped, stuckCount, triggers>>

MayRetry(w) == consumer[w].task.retry < MaxRetries

Requeued_Nothing(task) == backlog

\* RequeueForRetry: the job keeps its counters and goes to the end of the line.
Requeued(task) == <<[task EXCEPT !.retry = @ + 1]>> \o backlog

RequeueForRetry(w) ==
  /\ consumer[w].at = "backoff" /\ MayRetry(w)
  /\ \/ backlog' = Requeued(consumer[w].task) /\ End(w) /\ UNCHANGED jobFailures
     \/ JobFails /\ Goto(w, "fail") /\ UNCHANGED backlog
  /\ UNCHANGED <<status, count, mails, events, dropped, orphaned, stuckCount, triggers>>

MarkFailed(w) ==
  /\ consumer[w].at = "fail" \/ (consumer[w].at = "backoff" /\ ~MayRetry(w))
  /\ End(w)
  /\ \/ status' = [status EXCEPT ![JobOf(w)] = "failed"] /\ UNCHANGED <<orphaned, jobFailures>>
     \/ JobFails /\ orphaned' = orphaned \cup {JobOf(w)} /\ UNCHANGED status
  /\ UNCHANGED <<backlog, count, mails, events, dropped, stuckCount, triggers>>

\* Also a stop: the context is cancelled, and with it every later write.
WorkerDies(w) ==
  /\ consumer[w].at # "idle" /\ JobFails /\ End(w)
  /\ orphaned' = orphaned \cup {JobOf(w)}
  /\ stuckCount' = (stuckCount \/ consumer[w].at = "expire")
  /\ UNCHANGED <<backlog, status, count, mails, events, dropped, triggers>>

ConsumerStep(w) ==
  \/ Dequeue(w) \/ List(w) \/ CanProcessEmail(w) \/ Recheck(w) \/ SetExpiry(w)
  \/ PersistAndPublish(w) \/ PublishIngested(w) \/ MarkComplete(w) \/ RequeueForRetry(w) \/ MarkFailed(w)

BackfillNext ==
  \/ HourPasses
  \/ \E j \in Job : Trigger(j)
  \/ \E m \in Mail : IngestedElsewhere(m)
  \/ \E w \in Consumer : ConsumerStep(w) \/ WorkerDies(w)

BackfillSpec ==
  /\ BackfillInit /\ [][BackfillNext]_backfillVars
  /\ WF_backfillVars(HourPasses) /\ \A w \in Consumer : WF_backfillVars(ConsumerStep(w))

-----------------------------------------------------------------------------

BackfillTypeOK ==
  /\ backlog \in Seq(Task) /\ status \in [Job -> {"none", "pending", "running", "complete", "failed"}]
  /\ count \in [value : Nat, expires : BOOLEAN] /\ (count.expires => count.value > 0)
  /\ mails \subseteq Mail /\ events \in [Mail -> Nat] /\ dropped \subseteq Mail /\ orphaned \subseteq Job
  /\ stuckCount \in BOOLEAN /\ triggers \in 0 .. MaxTriggers /\ jobFailures \in 0 .. MaxJobFailures
  /\ \A w \in Consumer : consumer[w].at # "idle" =>
       /\ consumer[w].task \in Task /\ consumer[w].task.retry <= MaxRetries
       /\ consumer[w].next \in 1 .. MailCount + 1

\* However often a backfill is triggered, retried, or overtaken by the pollers,
\* a message is announced once: only the insert that was the first publishes.
AnnouncedOnce == \A m \in Mail : events[m] <= 1

\* A job that reports itself complete has looked at every message of the
\* account: each is stored, or failed, or was no longer there.
CompleteIsHandled ==
  \A j \in Job : status[j] = "complete" => {j} \X (1 .. MailCount) \subseteq mails \cup dropped

\* A backfill that was triggered ends, complete or failed, through rate limits,
\* retries and competing jobs, unless its worker dies with the job (which is in
\* no list then) or the last write of its status fails.
JobEnds ==
  \A j \in Job : status[j] \in {"pending", "running"} ~> (status[j] \in {"complete", "failed"} \/ j \in orphaned)

\* The hourly counter goes back to zero again and again; a counter without an
\* expiry, which would fail every later job of the user, is left behind only
\* by a worker that dies between INCR and EXPIRE or an EXPIRE that fails.
CounterReturns == []<>(count.value = 0 \/ stuckCount)

\* Backfills that are retried, doubled or overtaken announce a message once, and
\* one that says it is complete has looked at every message.
BackfillInv == BackfillTypeOK /\ AnnouncedOnce /\ CompleteIsHandled

\* Backfills end and leave a quota for the next ones, but for the causes named.
BackfillEnds == JobEnds /\ CounterReturns
=============================================================================
