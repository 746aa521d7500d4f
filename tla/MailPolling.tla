---------------------------- MODULE MailPolling ----------------------------
(***************************************************************************)
(* Polling of one mailbox: the scheduler that finds the account due, the   *)
(* pool of workers, and the poll cycle of a worker, for a Gmail account    *)
(* (history ids) or an Outlook account (delta links).  Both keep a cursor  *)
(* in email_accounts; here it is the number of changes of the mailbox that *)
(* lie behind it.                                                          *)
(*                                                                         *)
(* Left out: labels, drafts, the text of a message, quotas (PollQuota),    *)
(* and the consecutive gap and silent-poll counters, which choose between  *)
(* a warning and a refusal: a refusal is one of the outcomes of a fetch.   *)
(***************************************************************************)
EXTENDS Naturals, Sequences, FiniteSets, SequencesExt

CONSTANTS Message,      \* messages that can arrive
          Worker,       \* goroutines of the pool
          QueueSize,    \* capacity of the channel of jobs
          MaxChanges,   \* bound: changes of the mailbox
          MaxFailures   \* bound: failing calls and crashes

ASSUME PollBounds == QueueSize \in Nat \ {0} /\ MaxChanges \in Nat /\ MaxFailures \in Nat

VARIABLES
  provider,   \* "gmail" or "outlook"
  mailbox,    \* the changes the provider recorded, oldest first
  expired,    \* the provider has forgotten the position of the cursor
  cursor,     \* email_accounts.history_id or delta_link
  due,        \* last_polled_at + poll_interval has passed
  queue,      \* jobs waiting in the channel
  worker,     \* what each worker is doing
  up,         \* the process runs
  rows,       \* raw_emails: "none", "stored", or marked "deleted"
  announced,  \* messages with an email.ingested event that names their row
  skipped,    \* history: changes the cursor passed because of an error
  failures,   \* failures so far
  died        \* history: the process has died

pollVars == <<provider, mailbox, expired, cursor, due, queue, worker, up, rows,
              announced, skipped, failures, died>>

NoCursor == MaxChanges + 1
Change == [kind : {"added", "deleted"}, msg : Message]
Idle == [at |-> "idle", from |-> 0, newest |-> 0, todo |-> <<>>]

\* A message the provider no longer returns: users.messages.get answers 404.
Vanished(m) == \E i \in DOMAIN mailbox : mailbox[i] = [kind |-> "deleted", msg |-> m]
Arrived(m) == \E i \in DOMAIN mailbox : mailbox[i] = [kind |-> "added", msg |-> m]

PollInit ==
  /\ provider \in {"gmail", "outlook"}
  /\ mailbox = <<>> /\ expired = FALSE /\ cursor = NoCursor
  /\ due = TRUE /\ queue = 0 /\ up = TRUE
  /\ worker = [w \in Worker |-> Idle]
  /\ rows = [m \in Message |-> "none"]
  /\ announced = {} /\ skipped = {} /\ failures = 0 /\ died = FALSE

-----------------------------------------------------------------------------
(* The mailbox, and the full sync the pollers expect somebody else to do.  *)

\* Messages differ in nothing: one that has not arrived yet is as good as another.
Arriving == CHOOSE m \in Message : ~Arrived(m)

MailboxChanges ==
  /\ Len(mailbox) < MaxChanges
  /\ \/ (\E m \in Message : ~Arrived(m)) /\ mailbox' = Append(mailbox, [kind |-> "added", msg |-> Arriving])
     \/ \E m \in Message : Arrived(m) /\ ~Vanished(m) /\ mailbox' = Append(mailbox, [kind |-> "deleted", msg |-> m])
  /\ UNCHANGED <<provider, expired, cursor, due, queue, worker, up, rows, announced, skipped, failures, died>>

CursorExpires ==
  /\ ~expired /\ cursor # NoCursor /\ expired' = TRUE
  /\ UNCHANGED <<provider, mailbox, cursor, due, queue, worker, up, rows, announced, skipped, failures, died>>

FullSync ==
  /\ cursor = NoCursor /\ mailbox = <<>> /\ cursor' = 0
  /\ UNCHANGED <<provider, mailbox, expired, due, queue, worker, up, rows, announced, skipped, failures, died>>

-----------------------------------------------------------------------------
(* Scheduler.tick: a job is submitted without waiting; last_polled_at is   *)
(* set when it was accepted, which is before it is done.                   *)

IntervalElapses ==
  /\ ~due /\ due' = TRUE
  /\ UNCHANGED <<provider, mailbox, expired, cursor, queue, worker, up, rows, announced, skipped, failures, died>>

Submit == IF queue < QueueSize THEN queue' = queue + 1 /\ due' = FALSE
                               ELSE UNCHANGED <<queue, due>>

Tick ==
  /\ up /\ due /\ Submit
  /\ UNCHANGED <<provider, mailbox, expired, cursor, worker, up, rows, announced, skipped, failures, died>>

-----------------------------------------------------------------------------
(* The poll cycle of worker w                                              *)

Fails == failures < MaxFailures /\ failures' = failures + 1

\* The changes between two positions that have not been handled yet.
Unhandled(i) == mailbox[i].kind = "added" /\ rows[mailbox[i].msg] = "none"
Pass(from, to) == skipped \cup {i \in from + 1 .. to : Unhandled(i)}

Rest(w) == worker' = [worker EXCEPT ![w] = Idle]

TakeJob(w) ==
  /\ up /\ queue > 0 /\ worker[w].at = "idle" /\ queue' = queue - 1
  /\ IF cursor = NoCursor THEN UNCHANGED worker   \* "full sync required"
     ELSE worker' = [worker EXCEPT ![w] = [Idle EXCEPT !.at = "fetching", !.from = cursor]]
  /\ UNCHANGED <<provider, mailbox, expired, cursor, due, up, rows, announced, skipped, failures, died>>

\* No token, rate limited, the call fails, a gap: the cursor stays.
FetchRefused(w) ==
  /\ worker[w].at = "fetching" /\ Rest(w)
  /\ IF expired THEN UNCHANGED failures ELSE Fails
  /\ UNCHANGED <<provider, mailbox, expired, cursor, due, queue, up, rows, announced, skipped, died>>

\* Gmail: a later page fails.  The first page already carried the newest
\* history id, and saveProgress stores it although nothing was processed.
PageFails(w) ==
  /\ worker[w].at = "fetching" /\ provider = "gmail" /\ ~expired
  /\ Len(mailbox) > worker[w].from + 1 /\ Fails
  /\ cursor' = Len(mailbox) /\ skipped' = Pass(worker[w].from, Len(mailbox))
  /\ Rest(w)
  /\ UNCHANGED <<provider, mailbox, expired, due, queue, up, rows, announced, died>>

\* Gmail handles every deletion of the batch before any addition; Outlook
\* reports a message once, by what became of it, in the order of the log.
Returned(i) == provider = "gmail" \/ mailbox[i].kind = "deleted" \/ ~Vanished(mailbox[i].msg)
Sooner(i, j) ==
  IF provider = "gmail" /\ mailbox[i].kind # mailbox[j].kind THEN mailbox[i].kind = "deleted" ELSE i < j

\* The changes an answer reports: there is one such sequence.
Batch(from) ==
  LET new == {i \in from + 1 .. Len(mailbox) : Returned(i)}
      InOrder(s) == \A a, b \in DOMAIN s : a < b => Sooner(s[a], s[b])
  IN  {[k \in DOMAIN s |-> mailbox[s[k]]] : s \in {t \in SetToSeqs(new) : InOrder(t)}}

\* The position the answer carries.
Newest_Start(w) == worker[w].from
Newest(w) == Len(mailbox)

Fetched(w) ==
  /\ worker[w].at = "fetching" /\ ~expired
  /\ \E todo \in Batch(worker[w].from) :
       worker' = [worker EXCEPT ![w] = [@ EXCEPT !.at = "working", !.newest = Newest(w), !.todo = todo]]
  /\ UNCHANGED <<provider, mailbox, expired, cursor, due, queue, up, rows, announced, skipped, failures, died>>

Fetch(w) == up /\ (FetchRefused(w) \/ PageFails(w) \/ Fetched(w))

-----------------------------------------------------------------------------

Next1(w) == Head(worker[w].todo)
Advance(w) == worker' = [worker EXCEPT ![w].todo = Tail(@)]

\* The table names a message by its Message-Id header, the providers' records
\* of changes name it by an id of their own.
StoredAs(m) == <<"Message-Id", m>>
NamedInChange(m) == <<"provider id", m>>

\* An UPDATE, which may match no row; errors are only logged.
MarkDeleted(m) ==
  [k \in Message |-> IF rows[k] = "stored" /\ StoredAs(k) = NamedInChange(m) THEN "deleted" ELSE rows[k]]

HandleMessageDeleted(w) ==
  /\ Next1(w).kind = "deleted"
  /\ \/ rows' = MarkDeleted(Next1(w).msg) /\ UNCHANGED <<skipped, failures>>
     \/ /\ Fails /\ UNCHANGED rows
        /\ skipped' = skipped \cup {i \in DOMAIN mailbox : mailbox[i] = Next1(w)}
  /\ Advance(w)
  /\ UNCHANGED <<cursor, up, queue, announced, died>>

Inserted(w) == worker' = [worker EXCEPT ![w].at = "publishing"]

\* The insert: ON CONFLICT DO NOTHING.  The event is published afterwards,
\* under an id that was only stored if the insert was the first.
Persist(w) ==
  /\ Next1(w).kind = "added"
  /\ provider = "gmail" => ~Vanished(Next1(w).msg)
  /\ LET m == Next1(w).msg IN
       IF rows[m] = "none"
       THEN /\ rows' = [rows EXCEPT ![m] = "stored"]
            /\ Inserted(w)
       ELSE UNCHANGED rows /\ Advance(w)
  /\ UNCHANGED <<cursor, up, queue, announced, skipped, failures, died>>

\* The event of a new row; a failing publish is only logged.
Publish(w) ==
  /\ up /\ worker[w].at = "publishing"
  /\ \/ announced' = announced \cup {Next1(w).msg} /\ UNCHANGED failures
     \/ Fails /\ UNCHANGED announced
  /\ worker' = [worker EXCEPT ![w].at = "working", ![w].todo = Tail(@)]
  /\ UNCHANGED <<provider, mailbox, expired, cursor, due, queue, up, rows, skipped, died>>

\* Any error of a message ends the cycle, after the newest position was saved.
MessageFails(w) ==
  /\ Next1(w).kind = "added" /\ Fails
  /\ \/ cursor' = worker[w].newest /\ skipped' = Pass(worker[w].from, worker[w].newest)
     \/ UNCHANGED <<cursor, skipped>>          \* saving fails too
  /\ Rest(w)
  /\ UNCHANGED <<up, queue, rows, announced, died>>

Die ==
  /\ up' = FALSE /\ queue' = 0 /\ worker' = [w \in Worker |-> Idle]
  /\ died' = TRUE

\* MessagesGet returns no message and no error; the poller reads its Raw.
NilMessage(w) ==
  /\ Next1(w).kind = "added" /\ provider = "gmail" /\ Vanished(Next1(w).msg)
  /\ Die /\ UNCHANGED <<cursor, rows, announced, skipped, failures>>

ProcessNext(w) ==
  /\ up /\ worker[w].at = "working" /\ worker[w].todo # <<>>
  /\ HandleMessageDeleted(w) \/ Persist(w) \/ MessageFails(w) \/ NilMessage(w)
  /\ UNCHANGED <<provider, mailbox, expired, due>>

Ready_Early(w) == worker[w].at = "working"

\* The last step writes the cursor, whatever it has become meanwhile.
Ready(w) == worker[w].at = "working" /\ worker[w].todo = <<>>

Finish(w) ==
  /\ up /\ Ready(w)
  /\ \/ cursor' = worker[w].newest /\ UNCHANGED failures
     \/ Fails /\ UNCHANGED cursor
  /\ Rest(w)
  /\ UNCHANGED <<provider, mailbox, expired, due, queue, up, rows, announced, skipped, died>>

\* Also a stop: the pool drains its queue, running jobs lose their context.
Crash ==
  /\ up /\ Fails /\ Die
  /\ UNCHANGED <<provider, mailbox, expired, cursor, due, rows, announced, skipped>>

Restart ==
  /\ ~up /\ up' = TRUE
  /\ UNCHANGED <<provider, mailbox, expired, cursor, due, queue, worker, rows, announced, skipped, failures, died>>

Work(w) == TakeJob(w) \/ Fetch(w) \/ ProcessNext(w) \/ Publish(w) \/ Finish(w)

PollNext ==
  \/ MailboxChanges \/ CursorExpires \/ FullSync
  \/ IntervalElapses \/ Tick \/ Crash \/ Restart
  \/ \E w \in Worker : Work(w)

PollFairness ==
  /\ WF_pollVars(IntervalElapses) /\ WF_pollVars(Tick) /\ WF_pollVars(Restart) /\ WF_pollVars(FullSync)
  /\ \A w \in Worker : WF_pollVars(Work(w))

PollSpec == PollInit /\ [][PollNext]_pollVars /\ PollFairness

-----------------------------------------------------------------------------

PollTypeOK ==
  /\ provider \in {"gmail", "outlook"}
  /\ mailbox \in Seq(Change) /\ Len(mailbox) <= MaxChanges
  /\ expired \in BOOLEAN /\ due \in BOOLEAN /\ up \in BOOLEAN
  /\ cursor \in 0 .. NoCursor /\ queue \in 0 .. QueueSize /\ failures \in 0 .. MaxFailures
  /\ rows \in [Message -> {"none", "stored", "deleted"}]
  /\ died \in BOOLEAN
  /\ announced \subseteq Message /\ skipped \subseteq 1 .. MaxChanges
  /\ \A w \in Worker :
       /\ worker[w].at \in {"idle", "fetching", "working", "publishing"}
       /\ worker[w].from \in 0 .. MaxChanges /\ worker[w].newest \in 0 .. MaxChanges
       /\ worker[w].todo \in Seq(Change)

Behind(i) == cursor # NoCursor /\ i <= cursor
Consumed == 1 .. (IF cursor = NoCursor THEN 0 ELSE cursor)

\* A change behind the cursor was handled, or an error was logged for the
\* cycle that passed over it: with two workers on the same account, crashes
\* between any two statements and cursors that move back, nothing else is
\* ever lost.  (A message Outlook no longer reports needs no row.)
CursorIsCovered ==
  \A i \in Consumed : Unhandled(i) => i \in skipped \/ Vanished(mailbox[i].msg)

\* An event announces a stored message: a message that was stored is announced
\* unless the publish failed, the process has died, or a worker is about to
\* publish it.  (A later cycle inserts nothing and its event names no row.)
StoredIsAnnounced ==
  failures = 0 /\ ~died =>
    \A m \in Message : rows[m] # "none" =>
      \/ m \in announced
      \/ \E w \in Worker : worker[w].at = "publishing" /\ Next1(w).msg = m

\* The cursor passes every message only after it was stored (the comments of
\* gmail.go, state.go and worker.go: no email is lost).
NoMailLost == \A i \in Consumed : ~Unhandled(i) \/ Vanished(mailbox[i].msg)

\* What stops a mailbox for good: a message ahead of the cursor that Gmail no
\* longer returns (each cycle ends in a nil pointer, and the process with it), and a position the provider has forgotten.
Poisoned == provider = "gmail" /\ \E i \in DOMAIN mailbox : ~Behind(i) /\ Vanished(mailbox[i].msg)

\* Once failures stop, the cursor reaches the end of the mailbox, whatever jobs
\* were dropped or lost in a crash, unless one of these two things stops it.
CatchesUp == <>[](cursor = Len(mailbox) \/ expired \/ Poisoned \/ cursor = NoCursor)

\* What is behind the cursor was handled or logged as failed, and what was stored
\* is announced, though cycles on one account overlap, fail and die.
PollInv == PollTypeOK /\ CursorIsCovered /\ StoredIsAnnounced
=============================================================================
