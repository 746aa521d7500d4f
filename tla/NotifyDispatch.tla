---------------------------- MODULE NotifyDispatch ----------------------------
(***************************************************************************)
(* The dispatch of notifications to a user: the row, the quiet hours, the  *)
(* preferences, the pushes to the phones and the mark, as separate         *)
(* statements; the pass over deferred notifications, which dispatches them *)
(* again; and push tokens that are replaced meanwhile.                     *)
(***************************************************************************)
EXTENDS Integers

CONSTANTS Notice, Interrupt,  \* notifications, each dispatched once by its caller; those with priority 8 or more
          Phone, Dispatcher,  \* devices with a push token; goroutines in Dispatch
          MaxTokens,          \* bound: tokens of a phone
          MaxBreaks           \* bound: failed statements, failed sends and crashes

ASSUME NotifyBounds == Interrupt \subseteq Notice /\ MaxTokens \in Nat \ {0} /\ MaxBreaks \in Nat

VARIABLES
  notice,     \* row of each notification: none, stored or sent
  deferred,   \* row of deferred_notifications of each: none, later, due or processed
  quiet, enabled, \* it is quiet hours; the types are enabled
  stored,     \* token of each phone in device_sessions, 0 for NULL
  valid,      \* token the push service knows for it
  job,        \* each goroutine: where it is, what it dispatches, what is left of the pushes
  pushes,     \* pushes of each notification that reached each phone
  breaks,
  registered, \* history: last token each phone registered
  crossed,    \* history: phones whose new token was cleared for an old one
  abandoned   \* history: notifications whose dispatch was broken

notifyVars == <<notice, deferred, quiet, enabled, stored, valid, job, pushes, breaks, registered, crossed, abandoned>>
outside == <<quiet, enabled, valid, registered>>

NoJob == [at |-> "idle", n |-> "none", again |-> FALSE, left |-> {}, token |-> [p \in Phone |-> 0], refused |-> {}]

NotifyInit ==
  /\ notice = [n \in Notice |-> "none"] /\ deferred = [n \in Notice |-> "none"]
  /\ quiet = FALSE /\ enabled = TRUE
  /\ stored = [p \in Phone |-> 1] /\ valid = [p \in Phone |-> 1] /\ registered = [p \in Phone |-> 1]
  /\ job = [j \in Dispatcher |-> NoJob]
  /\ pushes = [n \in Notice |-> [p \in Phone |-> 0]]
  /\ breaks = 0 /\ crossed = {} /\ abandoned = {}

Break(j) == breaks < MaxBreaks /\ breaks' = breaks + 1 /\ abandoned' = abandoned \cup {job[j].n}
Unbroken == UNCHANGED <<breaks, abandoned>>
Stands(j, at) == job[j].at = at
Goto(j, at) == job' = [job EXCEPT ![j].at = at]
Stop(j) == job' = [job EXCEPT ![j] = NoJob]

\* Dispatch returned nil: ProcessDeferred marks its row, ignoring a failure.
Return(j) ==
  /\ Stop(j)
  /\ \/ deferred' = IF job[j].again THEN [deferred EXCEPT ![job[j].n] = "processed"] ELSE deferred
     \/ job[j].again /\ deferred' = deferred

-----------------------------------------------------------------------------

Dispatch(j, n) ==
  /\ Stands(j, "idle") /\ notice[n] = "none" /\ n \notin abandoned /\ \A k \in Dispatcher : job[k].n # n
  /\ job' = [job EXCEPT ![j] = [NoJob EXCEPT !.at = "persist", !.n = n]]
  /\ UNCHANGED <<notice, deferred, outside, stored, pushes, breaks, crossed, abandoned>>

\* ProcessDeferred: a due notification, with the id it had, as often as it is
\* due and not processed.
ProcessDeferred(j, n) ==
  /\ Stands(j, "idle") /\ deferred[n] = "due"
  /\ job' = [job EXCEPT ![j] = [NoJob EXCEPT !.at = "persist", !.n = n, !.again = TRUE]]
  /\ UNCHANGED <<notice, deferred, outside, stored, pushes, breaks, crossed, abandoned>>

\* The id is the primary key.
Inserted(n) == notice[n] = "none"

InsertNotification(j) ==
  /\ Stands(j, "persist")
  /\ \/ Inserted(job[j].n) /\ notice' = [notice EXCEPT ![job[j].n] = "stored"] /\ Goto(j, "quiet") /\ Unbroken
     \/ ~Inserted(job[j].n) /\ Stop(j) /\ Unbroken /\ UNCHANGED notice
     \/ Break(j) /\ Stop(j) /\ UNCHANGED notice
  /\ UNCHANGED <<deferred, outside, stored, pushes, crossed>>

ShouldDefer_All(n) == quiet
ShouldDefer(n) == quiet /\ n \notin Interrupt

NotDeferred(j) ==
  /\ Stands(j, "quiet") /\ ~ShouldDefer(job[j].n) /\ Goto(j, "prefs")
  /\ UNCHANGED <<notice, deferred, outside, stored, pushes, breaks, crossed, abandoned>>

\* InsertDeferred: with an overnight window the time to resume may lie in the
\* past; a failure is logged, and the notification is gone.
InsertDeferred(j) ==
  /\ Stands(j, "quiet") /\ ShouldDefer(job[j].n) /\ Stop(j)
  /\ \/ \E when \in {"later", "due"} : deferred' = [deferred EXCEPT ![job[j].n] = when] /\ Unbroken
     \/ Break(j) /\ UNCHANGED deferred
  /\ UNCHANGED <<notice, outside, stored, pushes, crossed>>

\* IsTypeEnabled: a disabled type, or preferences that cannot be read, drop it.
IsTypeEnabled(j) ==
  /\ Stands(j, "prefs")
  /\ \/ enabled /\ Goto(j, "devices") /\ Unbroken /\ UNCHANGED <<notice, deferred>>
     \/ ~enabled /\ notice' = [notice EXCEPT ![job[j].n] = "sent"] /\ Return(j) /\ Unbroken
     \/ Break(j) /\ notice' = [notice EXCEPT ![job[j].n] = "sent"] /\ Return(j)
  /\ UNCHANGED <<outside, stored, pushes, crossed>>

GetDevices(j) ==
  /\ Stands(j, "devices")
  /\ \/ Unbroken /\ job' = [job EXCEPT ![j].at = "push", ![j].left = {p \in Phone : stored[p] # 0}, ![j].token = stored]
     \/ Break(j) /\ Stop(j)
  /\ UNCHANGED <<notice, deferred, outside, stored, pushes, crossed>>

\* Send of FCM or APNS, one goroutine for each phone.
Push(j, p) ==
  /\ Stands(j, "push") /\ p \in job[j].left /\ job[j].token[p] = valid[p]
  /\ pushes' = [pushes EXCEPT ![job[j].n][p] = @ + 1] /\ job' = [job EXCEPT ![j].left = @ \ {p}]
  /\ UNCHANGED <<notice, deferred, outside, stored, breaks, crossed, abandoned>>

Refused_Any(j, p) == {p}
\* Only the errors that say the token is invalid.
Refused(j, p) == IF job[j].token[p] = valid[p] THEN {} ELSE {p}

PushFails(j, p) ==
  /\ Stands(j, "push") /\ p \in job[j].left
  /\ job' = [job EXCEPT ![j].left = @ \ {p}, ![j].refused = @ \cup Refused(j, p)]
  /\ IF job[j].token[p] = valid[p] THEN Break(j) ELSE Unbroken
  /\ UNCHANGED <<notice, deferred, outside, stored, pushes, crossed>>

\* InvalidateFCMToken and InvalidateAPNSToken clear whatever is stored by now.
InvalidateToken(j, p) ==
  /\ Stands(j, "push") /\ p \in job[j].refused
  /\ job' = [job EXCEPT ![j].refused = @ \ {p}] /\ stored' = [stored EXCEPT ![p] = 0]
  /\ crossed' = IF stored[p] # job[j].token[p] THEN crossed \cup {p} ELSE crossed
  /\ UNCHANGED <<notice, deferred, outside, pushes, breaks, abandoned>>

\* The pushes are over; the WebSocket message keeps no state.  A mark that
\* fails is logged.
MarkSent(j) ==
  /\ Stands(j, "push") /\ job[j].left = {} /\ job[j].refused = {} /\ Return(j)
  /\ \/ notice' = [notice EXCEPT ![job[j].n] = "sent"] /\ Unbroken
     \/ Break(j) /\ UNCHANGED notice
  /\ UNCHANGED <<outside, stored, pushes, crossed>>

DispatcherDies(j) ==
  /\ ~Stands(j, "idle") /\ Break(j) /\ Stop(j)
  /\ UNCHANGED <<notice, deferred, outside, stored, pushes, crossed>>

-----------------------------------------------------------------------------
\* The world: time, preferences and tokens.

QuietHours ==
  /\ quiet' = ~quiet
  /\ UNCHANGED <<notice, deferred, enabled, stored, valid, job, pushes, breaks, registered, crossed, abandoned>>

ResumeTime(n) ==
  /\ deferred[n] = "later" /\ deferred' = [deferred EXCEPT ![n] = "due"]
  /\ UNCHANGED <<notice, outside, stored, job, pushes, breaks, crossed, abandoned>>

SetPreferences ==
  /\ enabled' = ~enabled
  /\ UNCHANGED <<notice, deferred, quiet, stored, valid, job, pushes, breaks, registered, crossed, abandoned>>

NewToken(p) ==
  /\ valid[p] < MaxTokens /\ valid' = [valid EXCEPT ![p] = @ + 1]
  /\ UNCHANGED <<notice, deferred, quiet, enabled, stored, job, pushes, breaks, registered, crossed, abandoned>>

RegisterToken(p) ==
  /\ registered[p] # valid[p]
  /\ registered' = [registered EXCEPT ![p] = valid[p]] /\ stored' = [stored EXCEPT ![p] = valid[p]]
  /\ crossed' = crossed \ {p}
  /\ UNCHANGED <<notice, deferred, quiet, enabled, valid, job, pushes, breaks, abandoned>>

NotifyNext ==
  \/ QuietHours \/ SetPreferences
  \/ \E n \in Notice : ResumeTime(n) \/ \E j \in Dispatcher : Dispatch(j, n) \/ ProcessDeferred(j, n)
  \/ \E p \in Phone : NewToken(p) \/ RegisterToken(p)
  \/ \E j \in Dispatcher : \/ InsertNotification(j) \/ NotDeferred(j) \/ InsertDeferred(j) \/ IsTypeEnabled(j)
                           \/ GetDevices(j) \/ MarkSent(j) \/ DispatcherDies(j)
                           \/ \E p \in Phone : Push(j, p) \/ PushFails(j, p) \/ InvalidateToken(j, p)

Working(j) ==
  \/ InsertNotification(j) \/ NotDeferred(j) \/ InsertDeferred(j) \/ IsTypeEnabled(j) \/ GetDevices(j) \/ MarkSent(j)
  \/ \E p \in Phone : Push(j, p) \/ PushFails(j, p) \/ InvalidateToken(j, p)

\* A goroutine goes on, the pass over deferred notifications runs again and
\* again, and the time to resume comes.
NotifyFairness ==
  /\ \A j \in Dispatcher : WF_notifyVars(Working(j))
  /\ \A n \in Notice : WF_notifyVars(\E j \in Dispatcher : ProcessDeferred(j, n)) /\ WF_notifyVars(ResumeTime(n))

NotifySpec == NotifyInit /\ [][NotifyNext]_notifyVars /\ NotifyFairness

-----------------------------------------------------------------------------

NotifyTypeOK ==
  /\ notice \in [Notice -> {"none", "stored", "sent"}]
  /\ deferred \in [Notice -> {"none", "later", "due", "processed"}] /\ {quiet, enabled} \subseteq BOOLEAN
  /\ stored \in [Phone -> 0 .. MaxTokens] /\ valid \in [Phone -> 1 .. MaxTokens] /\ registered \in [Phone -> 1 .. MaxTokens]
  /\ job \in [Dispatcher -> [at : {"idle", "persist", "quiet", "prefs", "devices", "push"}, n : Notice \cup {"none"},
                             again : BOOLEAN, left : SUBSET Phone, token : [Phone -> 0 .. MaxTokens], refused : SUBSET Phone]]
  /\ \A j \in Dispatcher : Stands(j, "idle") <=> job[j] = NoJob
  /\ pushes \in [Notice -> [Phone -> Nat]] /\ breaks \in 0 .. MaxBreaks
  /\ crossed \subseteq Phone /\ abandoned \subseteq Notice

\* No phone gets a notification twice, however often the deferred ones are
\* dispatched, by how many workers, and whatever dies in between.
PushedOnce == \A n \in Notice, p \in Phone : pushes[n][p] <= 1

\* A phone that registered the token the push service knows keeps it, unless a
\* send with an older token failed after the registration.
TokenKept == \A p \in Phone : registered[p] = valid[p] => stored[p] = valid[p] \/ p \in crossed

\* An interrupt that was stored is sent in the end, quiet hours or not, unless
\* something broke.
InterruptIsSent ==
  \A n \in Interrupt : notice[n] = "stored" ~> notice[n] = "sent" \/ n \in abandoned

\* No phone is notified twice and none loses the token it registered.
NotifyInv == NotifyTypeOK /\ PushedOnce /\ TokenKept
===============================================================================
