----------------------------- MODULE OfflineMerge -----------------------------
(***************************************************************************)
(* Offline decisions: each device of a user queues what the user decided,  *)
(* uploads the queue in one request and gets back the cards that changed   *)
(* since its cursor.  A card has a version of its own; the cursor is the   *)
(* version of the user's queue, which other code increments.  Requests     *)
(* overlap, are lost, and race with the sending of the card.               *)
(***************************************************************************)
EXTENDS Integers, FiniteSets

CONSTANTS Item,          \* cards of the user
          Device, Sync,  \* devices; slots of concurrent sync requests
          MaxIncrements, \* bound: increments of the queue's version
          MaxDecisions,  \* bound: times operations are queued
          MaxLosses      \* bound: lost requests and replies, failed statements

ASSUME MergeBounds == {MaxIncrements, MaxDecisions, MaxLosses} \subseteq Nat
ASSUME NoneIsNothing == "none" \notin Device /\ "none" \notin Item   \* no device, no card

VARIABLES
  state,      \* card_state of each card: pending, approved or sent
  v,          \* server_version of each card
  drafted,    \* cards with an approved draft
  queueVersion, \* server_version of the row of user_queues
  waiting,    \* sync_queue of each device: pairs of a card and a kind of operation
  cursor,     \* last_sync_version of each device
  copy,       \* cards table of each device: the state it shows, or "none"
  sync,       \* each request: where it is and what it carries
  decisions, losses,
  completed,  \* history: operations a device has completed
  applied,    \* history: cards approved by a sync
  raced,      \* history: cards sent between the check and the approval of a sync
  excused     \* history: device and card, after a change the cursor could not show

mergeVars == <<state, v, drafted, queueVersion, waiting, cursor, copy, sync, decisions, losses,
               completed, applied, raced, excused>>
server == <<state, v, drafted, queueVersion>>
client == <<waiting, cursor, copy>>
past == <<completed, applied, raced, excused>>

\* update_card carries the decision approve; approve_draft, the operation the
\* approval screen queues, carries none.
Kind == {"update_card", "approve_draft"}

IdleSync == [at |-> "idle", dev |-> "none", since |-> 0, pending |-> {}, todo |-> {}, item |-> "none",
             accepted |-> {}, found |-> {}, fresh |-> {}, shown |-> [i \in Item |-> "none"], version |-> 0]

MergeInit ==
  /\ state = [i \in Item |-> "pending"] /\ v = [i \in Item |-> 0]
  /\ drafted = {} /\ queueVersion = 0
  /\ waiting = [d \in Device |-> {}] /\ cursor = [d \in Device |-> 0]
  /\ copy = [d \in Device |-> [i \in Item |-> "none"]]
  /\ sync = [r \in Sync |-> IdleSync]
  /\ decisions = 0 /\ losses = 0
  /\ completed = {} /\ applied = {} /\ raced = {} /\ excused = {}

At(r, at) == sync[r].at = at
Loss == losses < MaxLosses /\ losses' = losses + 1
Active(d) == {r \in Sync : sync[r].dev = d}

\* Devices that hold a snapshot of the changes already, or whose cursor is not
\* below the new version of card i: the next filter may not show the change.
Blind(i, version) ==
  {<<d, i>> : d \in {e \in Device : version <= cursor[e] \/ \E r \in Active(e) : sync[r].at \notin {"apply", "approve"}}}

-----------------------------------------------------------------------------
\* What other components do to the cards.

\* The decision API and its store: the card and its version, not the queue's.
DecideOnline(i) ==
  /\ state[i] = "pending"
  /\ state' = [state EXCEPT ![i] = "approved"] /\ v' = [v EXCEPT ![i] = v[i] + 1]
  /\ excused' = excused \cup Blind(i, v[i] + 1)
  /\ UNCHANGED <<drafted, queueVersion, client, sync, decisions, losses, completed, applied, raced>>

\* MarkCardSent, of the decision store (the card's version) or of the card
\* queue (the queue's).
SendCard(i) ==
  /\ state[i] \in {"pending", "approved"} /\ state' = [state EXCEPT ![i] = "sent"]
  /\ raced' = IF \E r \in Sync : At(r, "approve") /\ sync[r].item = i THEN raced \cup {i} ELSE raced
  /\ \/ v' = [v EXCEPT ![i] = v[i] + 1] /\ UNCHANGED queueVersion
        /\ excused' = excused \cup Blind(i, v[i] + 1)
     \/ queueVersion' = queueVersion + 1 /\ UNCHANGED v
        /\ excused' = excused \cup {<<d, i>> : d \in Device}
  /\ UNCHANGED <<drafted, client, sync, decisions, losses, completed, applied>>

\* IncrementVersion, and the card queue counting a card.
IncrementVersion ==
  /\ queueVersion < MaxIncrements /\ queueVersion' = queueVersion + 1
  /\ UNCHANGED <<state, v, drafted, client, sync, decisions, losses, past>>

-----------------------------------------------------------------------------
\* SyncEngine of a device, up to the request.

\* Offline, operations on a card pile up.
Enqueue(d, i) ==
  /\ decisions < MaxDecisions /\ decisions' = decisions + 1
  /\ \E kinds \in SUBSET Kind \ {{}} : waiting' = [waiting EXCEPT ![d] = @ \cup ({i} \X kinds)]
  /\ UNCHANGED <<server, cursor, copy, sync, losses, past>>

\* buildLocalChangePayload: of the operations on a card only the one with the
\* highest version is uploaded.
Payloads(pending) == {p \in SUBSET pending : \A q \in pending : Cardinality({u \in p : u[1] = q[1]}) = 1}

\* uploadChanges: nothing is asked of the server while nothing is pending.
StartSync(r, d) ==
  /\ At(r, "idle") /\ waiting[d] # {}
  /\ \E todo \in Payloads(waiting[d]) :
       sync' = [sync EXCEPT ![r] = [IdleSync EXCEPT !.at = "apply", !.dev = d, !.since = cursor[d],
                                                    !.pending = waiting[d], !.todo = todo]]
  /\ excused' = IF Active(d) = {} THEN excused ELSE excused \cup {<<d, i>> : i \in Item}
  /\ UNCHANGED <<server, client, decisions, losses, completed, applied, raced>>

-----------------------------------------------------------------------------
\* SyncEngine.Process.

Finish(r, u, accept) ==
  sync' = [sync EXCEPT ![r].at = "apply", ![r].item = "none", ![r].todo = @ \ {u},
                       ![r].accepted = IF accept THEN @ \cup {u[1]} ELSE @]

IsTerminal_NotPending(s) == s # "pending"
IsTerminal_Never(s) == s = "none"
IsTerminal(s) == s = "sent"

\* applyChange reads the card outside any transaction; every failure of the
\* read is answered as card_not_found.
CheckChange(r) ==
  /\ At(r, "apply")
  /\ \E u \in sync[r].todo :
       \/ ~IsTerminal(state[u[1]]) /\ u[2] = "update_card"
          /\ sync' = [sync EXCEPT ![r].at = "approve", ![r].item = u[1]] /\ UNCHANGED losses
       \/ ~IsTerminal(state[u[1]]) /\ u[2] # "update_card" /\ Finish(r, u, TRUE) /\ UNCHANGED losses
       \/ IsTerminal(state[u[1]]) /\ Finish(r, u, FALSE) /\ UNCHANGED losses
       \/ Loss /\ Finish(r, u, FALSE)
  /\ UNCHANGED <<server, client, decisions, past>>

\* applyApprove: card, draft and log in one transaction, whatever the state of
\* the card is by now; no draft, or none that can be read, is no failure.
ApplyApprove(r) ==
  /\ At(r, "approve")
  /\ LET i == sync[r].item IN
       /\ state' = [state EXCEPT ![i] = "approved"] /\ v' = [v EXCEPT ![i] = v[i] + 1]
       /\ drafted' \in {drafted, drafted \cup {i}}
       /\ applied' = applied \cup {i} /\ excused' = excused \cup Blind(i, v[i] + 1)
       /\ Finish(r, <<i, "update_card">>, TRUE)
  /\ UNCHANGED <<queueVersion, client, decisions, losses, completed, raced>>

ApproveAccepted == FALSE

RolledBack(i) == drafted

ApproveFails(r) ==
  /\ At(r, "approve") /\ Loss
  /\ Finish(r, <<sync[r].item, "update_card">>, ApproveAccepted)
  /\ drafted' = RolledBack(sync[r].item)
  /\ UNCHANGED <<state, v, queueVersion, client, decisions, past>>

Changed(i, since) == v[i] > since

\* GetChangesSince: the cards whose own version is above the cursor.
GetChangesSince(r) ==
  /\ At(r, "apply") /\ sync[r].todo = {}
  /\ LET found == {i \in Item : Changed(i, sync[r].since)} IN
       sync' = [sync EXCEPT ![r].at = "version", ![r].since = 0, ![r].found = found,
                            ![r].fresh = {i \in found : v[i] = 1},
                            ![r].shown = [i \in Item |-> IF i \in found THEN state[i] ELSE "none"]]
  /\ UNCHANGED <<server, client, decisions, losses, past>>

\* GetCurrentVersion: the version of the queue, read in a second statement.
GetCurrentVersion(r) ==
  /\ At(r, "version")
  /\ sync' = [sync EXCEPT ![r].at = "reply", ![r].version = queueVersion]
  /\ UNCHANGED <<server, client, decisions, losses, past>>

\* The server fails, the client gives up, or the application is closed.
LoseSync(r) ==
  /\ ~At(r, "idle") /\ Loss
  /\ sync' = [sync EXCEPT ![r] = IdleSync]
  /\ excused' = IF At(r, "merge") THEN excused \cup {<<sync[r].dev, i>> : i \in sync[r].found} ELSE excused
  /\ UNCHANGED <<server, client, decisions, completed, applied, raced>>

-----------------------------------------------------------------------------
\* SyncEngine of a device, after the reply.

\* Every operation on an accepted card, the ones that were not uploaded too;
\* rejected ones stay and only count a retry.
Completed(r) == {q \in sync[r].pending : q[1] \in sync[r].accepted}

CompleteBatch(r) ==
  /\ At(r, "reply")
  /\ waiting' = [waiting EXCEPT ![sync[r].dev] = @ \ Completed(r)]
  /\ completed' = completed \cup Completed(r)
  /\ sync' = [sync EXCEPT ![r].at = "cursor", ![r].pending = {}, ![r].accepted = {}]
  /\ UNCHANGED <<server, cursor, copy, decisions, losses, applied, raced, excused>>

\* The cursor is saved before the cards are.
SaveCursor(r) ==
  /\ At(r, "cursor")
  /\ cursor' = [cursor EXCEPT ![sync[r].dev] = sync[r].version]
  /\ sync' = [sync EXCEPT ![r].at = "merge", ![r].version = 0]
  /\ UNCHANGED <<server, waiting, copy, decisions, losses, past>>

Merged_InsertOnly(r, i) ==
  LET old == copy[sync[r].dev][i] IN
  IF i \in sync[r].fresh /\ old = "none" /\ sync[r].shown[i] # "sent" THEN sync[r].shown[i] ELSE old

\* New cards are inserted, updated ones are updated if there, removed ones deleted.
Merged(r, i) ==
  LET s == sync[r].shown[i]  old == copy[sync[r].dev][i] IN
  CASE i \notin sync[r].found -> old
    [] s = "sent" -> "none"
    [] OTHER -> IF old = "none" /\ i \notin sync[r].fresh THEN "none" ELSE s

ApplyServerCards(r) ==
  /\ At(r, "merge")
  /\ copy' = [copy EXCEPT ![sync[r].dev] = [i \in Item |-> Merged(r, i)]]
  /\ sync' = [sync EXCEPT ![r] = IdleSync]
  /\ UNCHANGED <<server, waiting, cursor, decisions, losses, past>>

MergeNext ==
  \/ IncrementVersion
  \/ \E i \in Item : DecideOnline(i) \/ SendCard(i) \/ \E d \in Device : Enqueue(d, i)
  \/ \E r \in Sync : \/ CheckChange(r) \/ ApplyApprove(r) \/ ApproveFails(r) \/ GetChangesSince(r)
                     \/ GetCurrentVersion(r) \/ LoseSync(r) \/ CompleteBatch(r) \/ SaveCursor(r)
                     \/ ApplyServerCards(r) \/ \E d \in Device : StartSync(r, d)

SyncStep(r) ==
  \/ CheckChange(r) \/ ApplyApprove(r) \/ GetChangesSince(r) \/ GetCurrentVersion(r)
  \/ CompleteBatch(r) \/ SaveCursor(r) \/ ApplyServerCards(r)

\* The server answers what it began, and the background task syncs again.
MergeFairness ==
  /\ \A r \in Sync : WF_mergeVars(SyncStep(r))
  /\ \A d \in Device : WF_mergeVars(\E r \in Sync : StartSync(r, d))

MergeSpec == MergeInit /\ [][MergeNext]_mergeVars /\ MergeFairness

-----------------------------------------------------------------------------

SyncRequest ==
  [at : {"idle", "apply", "approve", "version", "reply", "cursor", "merge"}, dev : Device \cup {"none"}, since : Nat,
   pending : SUBSET (Item \X Kind), todo : SUBSET (Item \X Kind), item : Item \cup {"none"}, accepted : SUBSET Item,
   found : SUBSET Item, fresh : SUBSET Item, shown : [Item -> {"none", "pending", "approved", "sent"}], version : Nat]

MergeTypeOK ==
  /\ state \in [Item -> {"pending", "approved", "sent"}] /\ v \in [Item -> Nat]
  /\ drafted \cup applied \cup raced \subseteq Item /\ excused \subseteq Device \X Item
  /\ {queueVersion, decisions, losses} \subseteq Nat
  /\ waiting \in [Device -> SUBSET (Item \X Kind)] /\ completed \subseteq Item \X Kind
  /\ cursor \in [Device -> Nat] /\ copy \in [Device -> [Item -> {"none", "pending", "approved"}]]
  /\ sync \in [Sync -> SyncRequest]

\* A card that was sent is changed by a sync only when it was sent between the
\* check and the approval of that sync: terminal states are immutable otherwise.
SentStaysSent == [][\A i \in Item : state[i] = "sent" => state'[i] = "sent" \/ i \in raced]_mergeVars

\* A decision a device has completed was applied on the server, whatever was
\* lost, unless another operation on the same card was uploaded in its place.
CompletedIsApplied ==
  \A i \in Item : <<i, "update_card">> \in completed => i \in applied \/ <<i, "approve_draft">> \in completed

\* A draft is approved by a sync only together with its card.
ApprovedTogether == \A i \in drafted : state[i] # "pending"

\* A device that is not syncing and shows a state the card no longer has will
\* be told by its next sync, unless the change was below its cursor, fell
\* between the snapshot and the cursor, left the card's version alone, or the
\* application died between saving the cursor and the cards.
StaleHasACause ==
  \A d \in Device, i \in Item :
    Active(d) = {} /\ copy[d][i] \notin {"none", state[i]} => v[i] > cursor[d] \/ <<d, i>> \in excused

\* A queued decision is completed in the end, unless the card was sent.
DecisionsSettle ==
  \A d \in Device, i \in Item :
    <<i, "update_card">> \in waiting[d] ~> <<i, "update_card">> \notin waiting[d] \/ state[i] = "sent"

\* What the application says of its queue: an approval the user gave reaches
\* the card.  An approve_draft operation carries no decision, so the server
\* accepts it without acting and the device completes it.
ApprovalsArrive == \A i \in Item : <<i, "approve_draft">> \in completed => state[i] # "pending"

\* What a device has completed was applied, draft and card are approved together,
\* and a device with an old state will be told.
MergeInv == MergeTypeOK /\ CompletedIsApplied /\ ApprovedTogether /\ StaleHasACause
===============================================================================
