--------------------------- MODULE WebhookIntake ---------------------------
(***************************************************************************)
(* Push notifications of the mail providers: requests that carry one       *)
(* notification (Gmail) or several (Outlook), the dedup keys in Redis, and *)
(* the queue of fetch jobs.  A provider repeats a request until it is      *)
(* answered, and sometimes although it was.                                *)
(*                                                                         *)
(* Left out: parsing, the validation handshake, and the check of the token *)
(* (CertCache): a request that fails them is answered and changes nothing. *)
(***************************************************************************)
EXTENDS Naturals, Sequences, FiniteSets, SequencesExt

CONSTANTS Note,          \* notifications
          Request,       \* requests in progress at once
          MaxPosts,      \* bound: requests sent
          MaxErrors      \* bound: failing Redis calls, crashes and expiries

ASSUME IntakeBounds == IsFiniteSet(Note) /\ MaxPosts \in Nat /\ MaxErrors \in Nat

VARIABLES
  seen,       \* notifications whose dedup key is set
  request,    \* the requests: notifications left, and whether the first passed the check
  fetchQueue, \* the Redis list of jobs
  fetched,    \* notifications whose job was taken from the queue
  jobs,       \* history: jobs made for a notification
  unseen,     \* history: times the key of a notification was lost or not set
  answered,   \* notifications of requests that were answered
  lost,       \* history: notifications whose job was not queued or is gone
  posts, errors

intakeVars == <<seen, request, fetchQueue, fetched, jobs, unseen, answered, lost, posts, errors>>

NoRequest == [at |-> "none", all |-> {}, todo |-> <<>>]

IntakeInit ==
  /\ seen = {} /\ request = [r \in Request |-> NoRequest] /\ fetchQueue = <<>> /\ fetched = {}
  /\ jobs = [n \in Note |-> 0] /\ unseen = [n \in Note |-> 0]
  /\ answered = {} /\ lost = {} /\ posts = 0 /\ errors = 0

Err == errors < MaxErrors /\ errors' = errors + 1
Set(r, at, todo) == request' = [request EXCEPT ![r] = [@ EXCEPT !.at = at, !.todo = todo]]

Post(r) ==
  /\ request[r].at = "none" /\ posts < MaxPosts /\ posts' = posts + 1
  /\ \E ns \in SUBSET Note \ {{}} : \E todo \in SetToSeqs(ns) :
       request' = [request EXCEPT ![r] = [at |-> "check", all |-> ns, todo |-> todo]]
  /\ UNCHANGED <<seen, fetchQueue, fetched, jobs, unseen, answered, lost, errors>>

\* IsDuplicate: SET NX.  An error is logged and the notification handled.
Duplicate(n) == n \in seen
OnError(todo) == todo

CheckDuplicate(r) ==
  LET n == Head(request[r].todo) IN
  /\ request[r].at = "check" /\ request[r].todo # <<>>
  /\ \/ /\ Duplicate(n) /\ Set(r, "check", Tail(request[r].todo))
        /\ UNCHANGED <<seen, unseen, errors>>
     \/ /\ ~Duplicate(n) /\ seen' = seen \cup {n} /\ Set(r, "enqueue", request[r].todo)
        /\ UNCHANGED <<unseen, errors>>
     \/ /\ Err /\ Set(r, "enqueue", OnError(request[r].todo))
        /\ unseen' = [unseen EXCEPT ![n] = @ + 1] /\ UNCHANGED seen
  /\ UNCHANGED <<fetchQueue, fetched, jobs, answered, lost, posts>>

\* EnqueueFetchJob: RPUSH.  A failure is logged; the key stays set.
EnqueueFetchJob(r) ==
  LET n == Head(request[r].todo) IN
  /\ request[r].at = "enqueue" /\ Set(r, "check", Tail(request[r].todo))
  /\ \/ /\ fetchQueue' = Append(fetchQueue, n) /\ jobs' = [jobs EXCEPT ![n] = @ + 1]
        /\ UNCHANGED <<lost, errors>>
     \/ Err /\ lost' = lost \cup {n} /\ UNCHANGED <<fetchQueue, jobs>>
  /\ UNCHANGED <<seen, fetched, unseen, answered, posts>>

Answerable_AtOnce(r) == request[r].at = "check"
Answerable(r) == request[r].at = "check" /\ request[r].todo = <<>>

Answer(r) ==
  /\ Answerable(r) /\ answered' = answered \cup request[r].all
  /\ request' = [request EXCEPT ![r] = NoRequest]
  /\ UNCHANGED <<seen, fetchQueue, fetched, jobs, unseen, lost, posts, errors>>

\* The server dies: the key of the notification in progress may be set already.
ServerDies ==
  /\ Err /\ request' = [r \in Request |-> NoRequest]
  /\ lost' = lost \cup {Head(request[r].todo) : r \in {q \in Request : request[q].at = "enqueue"}}
  /\ UNCHANGED <<seen, fetchQueue, fetched, jobs, unseen, answered, posts>>

\* dedupTTL
KeyExpires(n) ==
  /\ n \in seen /\ Err /\ seen' = seen \ {n} /\ unseen' = [unseen EXCEPT ![n] = @ + 1]
  /\ UNCHANGED <<request, fetchQueue, fetched, jobs, answered, lost, posts>>

\* DequeueFetchJob, DequeueAnyFetchJob: BLPOP removes the job; a worker that
\* then dies has lost it.
DequeueFetchJob ==
  /\ fetchQueue # <<>> /\ fetchQueue' = Tail(fetchQueue)
  /\ \/ fetched' = fetched \cup {Head(fetchQueue)} /\ UNCHANGED <<lost, errors>>
     \/ Err /\ lost' = lost \cup {Head(fetchQueue)} /\ UNCHANGED fetched
  /\ UNCHANGED <<seen, request, jobs, unseen, answered, posts>>

\* jobTTL: the list expires as a whole.
QueueExpires ==
  /\ fetchQueue # <<>> /\ Err /\ fetchQueue' = <<>> /\ lost' = lost \cup ToSet(fetchQueue)
  /\ UNCHANGED <<seen, request, fetched, jobs, unseen, answered, posts>>

IntakeNext ==
  \/ ServerDies \/ DequeueFetchJob \/ QueueExpires
  \/ \E n \in Note : KeyExpires(n)
  \/ \E r \in Request : Post(r) \/ CheckDuplicate(r) \/ EnqueueFetchJob(r) \/ Answer(r)

IntakeSpec == IntakeInit /\ [][IntakeNext]_intakeVars

-----------------------------------------------------------------------------

IntakeTypeOK ==
  /\ seen \subseteq Note /\ fetched \subseteq Note /\ answered \subseteq Note /\ lost \subseteq Note
  /\ fetchQueue \in Seq(Note) /\ jobs \in [Note -> Nat] /\ unseen \in [Note -> Nat]
  /\ posts \in 0 .. MaxPosts /\ errors \in 0 .. MaxErrors
  /\ \A r \in Request : /\ request[r].at \in {"none", "check", "enqueue"} /\ request[r].todo \in Seq(request[r].all)
                        /\ request[r].at = "enqueue" => request[r].todo # <<>>

\* However often and however concurrently a notification is posted, it makes
\* one job, and one more for each time its key was not set or ran out.
OneJobPerKey == \A n \in Note : jobs[n] <= 1 + unseen[n]

\* What the provider was told has arrived (and will not be sent again) is in the
\* queue, was taken from it, is being handled by another request, or fell to a
\* failure: the key is set before the job is queued, so a repetition finds the
\* key of a job that was never made.
AnsweredIsKept ==
  \A n \in answered :
    \/ n \in ToSet(fetchQueue) \cup fetched \cup lost
    \/ \E r \in Request : request[r].at = "enqueue" /\ Head(request[r].todo) = n

\* A notification posted again and again makes one job, and is not forgotten once
\* the provider was told it arrived.
IntakeInv == IntakeTypeOK /\ OneJobPerKey /\ AnsweredIsKept
=============================================================================
