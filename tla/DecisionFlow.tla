----------------------------- MODULE DecisionFlow -----------------------------
(***************************************************************************)
(* The decision API of the sync service (sync/internal/decision): the      *)
(* handlers that turn a card into a draft, edit the draft, approve it and  *)
(* send it.  Every HTTP request runs in a goroutine of its own against     *)
(* PostgreSQL, the Intelligence Layer and NATS, so the steps of two        *)
(* requests interleave wherever one of them waits.                         *)
(*                                                                         *)
(* A transaction's writes are kept with the request until COMMIT.  The     *)
(* rows it has updated or selected FOR UPDATE stay locked until it ends; a *)
(* plain SELECT never waits and sees the committed row.  Any statement may *)
(* fail and the request context may expire (chi's 60 second Timeout); both *)
(* end the request with its transaction rolled back.                       *)
(***************************************************************************)
EXTENDS Naturals, Sequences, FiniteSets

CONSTANTS
  Cards, Drafts, Bodies,
  CardOf,       \* [Drafts -> Cards]: the card a draft answers
  Reqs,         \* requests in flight at the same time
  PoolSize,     \* connections in the service's pool (DB_MAX_OPEN)
  None,         \* the absent draft, card, body or lock owner
  MaxStream,    \* bound: jobs published to "email.send"
  MaxSends      \* bound: deliveries of one text of one draft

ASSUME CardOfAssumption == CardOf \in [Drafts -> Cards]
ASSUME NoneAssumption == None \notin Drafts \cup Cards \cup Bodies \cup Reqs
ASSUME BoundAssumption == MaxStream \in Nat /\ MaxSends \in Nat /\ PoolSize \in Nat

\* decision_cards.card_state; no handler of this service produces "archived"
\* or "expired", so the model leaves those two out.
CardStates == {"pending", "consulting", "drafting", "approved", "sent"}

VARIABLES
  cardState,    \* [Cards -> CardStates], committed
  drafts,       \* [Drafts -> DraftRow], committed; body None: no such row
  cardLock,     \* request whose transaction holds the card's row lock
  draftLock,    \* request whose transaction holds the draft's row lock
  req,          \* [Reqs -> Request], program counter and locals
  stream,       \* jobs ever stored in the "email.send" stream, in order
  texts,        \* history: bodies each draft has ever had
  gate,         \* history: drafts whose approval the user has requested
  commits,      \* history: committed approvals of each draft
  outbox        \* mails a provider has accepted, by draft and text

cvars == <<cardState, drafts>>
locks == <<cardLock, draftLock>>
history == <<texts, gate, commits>>
vars == <<cvars, locks, req, stream, history, outbox>>

DraftRow == [approved : BOOLEAN, sent : BOOLEAN, body : Bodies \cup {None}]
Job == [draft : Drafts, body : Bodies]

ApproveSteps == {"lockDraft", "fetch", "lockCard", "publish", "log", "commit"}
SentSteps == {"sentLockDraft", "sentFetch", "sentLockCard"}
DraftingSteps == {"setState", "calling", "revert"}
TxSteps == ApproveSteps \cup SentSteps
Locations == {"idle", "mesh", "sentBegin"} \cup TxSteps \cup DraftingSteps

\* `was` is the card state read at the start of a decision, `target` the one
\* it sets; `body` the draft body read for the job or the direct send.
Request == [at : Locations, draft : Drafts \cup {None}, card : Cards \cup {None},
            body : Bodies \cup {None}, was : CardStates, target : CardStates]

Idle == [at |-> "idle", draft |-> None, card |-> None, body |-> None,
         was |-> "pending", target |-> "pending"]

TypeOK ==
  /\ cardState \in [Cards -> CardStates]
  /\ drafts \in [Drafts -> DraftRow]
  /\ cardLock \in [Cards -> Reqs \cup {None}]
  /\ draftLock \in [Drafts -> Reqs \cup {None}]
  /\ req \in [Reqs -> Request]
  /\ stream \in Seq(Job)
  /\ texts \in [Drafts -> SUBSET Bodies]
  /\ gate \in SUBSET Drafts
  /\ commits \in [Drafts -> Nat]
  /\ outbox \in [Drafts -> [Bodies -> Nat]]

\* A batch of new cards, none of them decided, and no draft yet.
Init ==
  /\ cardState = [c \in Cards |-> "pending"]
  /\ drafts = [d \in Drafts |-> [approved |-> FALSE, sent |-> FALSE, body |-> None]]
  /\ cardLock = [c \in Cards |-> None]
  /\ draftLock = [d \in Drafts |-> None]
  /\ req = [r \in Reqs |-> Idle]
  /\ stream = <<>>
  /\ texts = [d \in Drafts |-> {}]
  /\ gate = {}
  /\ commits = [d \in Drafts |-> 0]
  /\ outbox = [d \in Drafts |-> [b \in Bodies |-> 0]]

Exists(d) == drafts[d].body # None

\* A transaction keeps its connection from BEGIN to its end.
InTx == {r \in Reqs : req[r].at \in TxSteps}
FreeConn == Cardinality(InTx) < PoolSize

Goto(r, from, to) ==
  /\ req[r].at = from
  /\ req' = [req EXCEPT ![r].at = to]

\* The locks a request holds are released when its transaction ends.
ReleaseLocks(r) ==
  /\ cardLock' = [c \in Cards |-> IF cardLock[c] = r THEN None ELSE cardLock[c]]
  /\ draftLock' = [d \in Drafts |-> IF draftLock[d] = r THEN None ELSE draftLock[d]]

-------------------------------------------------------------------------------
(* POST /cards/{id}/decide and POST /cards/{id}/draft: ProcessDecision and *)
(* ProcessDraftModification.  `target` is "drafting" for approve, edit and *)
(* a modification, "consulting" for consult.                               *)

\* GetCardOwnedBy remembers the state to go back to if the call fails.
ReadCard(r, c, target) ==
  /\ req[r].at = "idle"
  /\ req' = [req EXCEPT ![r] = [Idle EXCEPT !.at = "setState", !.card = c,
                                            !.was = cardState[c], !.target = target]]
  /\ UNCHANGED <<cvars, locks, stream, history, outbox>>

\* Plausible bug: the decision itself is stored as the card's state.

\* UpdateCardState: one statement, whatever state the card is in by now.
SetState(r) ==
  LET c == req[r].card IN
  /\ Goto(r, "setState", "calling")
  /\ cardLock[c] = None
  /\ cardState' = [cardState EXCEPT ![c] = req[r].target]
  /\ UNCHANGED <<drafts, locks, stream, history, outbox>>

\* GenerateDraft or ModifyDraft answers and CreateDraft inserts the row.
StoreDraft(r, d, b) ==
  /\ req[r].at = "calling"
  /\ req[r].target = "drafting"
  /\ CardOf[d] = req[r].card
  /\ ~Exists(d)
  /\ drafts' = [drafts EXCEPT ![d].body = b]
  /\ texts' = [texts EXCEPT ![d] = @ \cup {b}]
  /\ req' = [req EXCEPT ![r] = Idle]
  /\ UNCHANGED <<cardState, locks, stream, gate, commits, outbox>>

\* Ask answers; the card stays "consulting".
ConsultAnswered(r) ==
  /\ req[r].at = "calling"
  /\ req[r].target = "consulting"
  /\ req' = [req EXCEPT ![r] = Idle]
  /\ UNCHANGED <<cvars, locks, stream, history, outbox>>

\* The Intelligence Layer fails, or the breaker is open.
CallFails(r) ==
  /\ Goto(r, "calling", "revert")
  /\ UNCHANGED <<cvars, locks, stream, history, outbox>>

\* The rollback writes back the state read at the start.
Revert(r) ==
  LET c == req[r].card IN
  /\ req[r].at = "revert"
  /\ cardLock[c] = None
  /\ cardState' = [cardState EXCEPT ![c] = req[r].was]
  /\ req' = [req EXCEPT ![r] = Idle]
  /\ UNCHANGED <<drafts, locks, stream, history, outbox>>

-------------------------------------------------------------------------------
(* POST /drafts/{id}/edit: ProcessEdit.  The UPDATE waits for the row lock *)
(* and overwrites the body, approved and sent drafts included.             *)

\* Plausible bug: the update does not wait for an approval in progress.
EditDraft_IgnoresLock(d, b) ==
  /\ Exists(d)
  /\ drafts' = [drafts EXCEPT ![d].body = b]
  /\ texts' = [texts EXCEPT ![d] = @ \cup {b}]
  /\ UNCHANGED <<cardState, locks, req, stream, gate, commits, outbox>>

EditDraft(d, b) ==
  /\ Exists(d)
  /\ draftLock[d] = None
  /\ drafts' = [drafts EXCEPT ![d].body = b]
  /\ texts' = [texts EXCEPT ![d] = @ \cup {b}]
  /\ UNCHANGED <<cardState, locks, req, stream, gate, commits, outbox>>

-------------------------------------------------------------------------------
(* POST /drafts/{id}/approve: ApprovalFlow.Approve.                        *)

\* BEGIN: the user has asked, a connection is taken.
ApproveBegin(r, d) ==
  /\ req[r].at = "idle"
  /\ Exists(d)
  /\ FreeConn
  /\ req' = [req EXCEPT ![r] = [Idle EXCEPT !.at = "lockDraft", !.draft = d]]
  /\ gate' = gate \cup {d}
  /\ UNCHANGED <<cvars, locks, stream, texts, commits, outbox>>

\* Plausible bug: the lock is taken, the row is not looked at.
ApproveLockDraft_Unchecked(r) ==
  LET d == req[r].draft IN
  /\ Goto(r, "lockDraft", "fetch")
  /\ draftLock[d] = None
  /\ draftLock' = [draftLock EXCEPT ![d] = r]
  /\ UNCHANGED <<cvars, cardLock, stream, history, outbox>>

\* ApproveDraftTx: SELECT ... FOR UPDATE, then UPDATE inside the transaction.
\* A draft already approved or sent ends the request (RequestFails).
ApproveLockDraft(r) ==
  LET d == req[r].draft IN
  /\ Goto(r, "lockDraft", "fetch")
  /\ draftLock[d] = None
  /\ ~drafts[d].approved /\ ~drafts[d].sent
  /\ draftLock' = [draftLock EXCEPT ![d] = r]
  /\ UNCHANGED <<cvars, cardLock, stream, history, outbox>>

\* Plausible bug: the row is read without its body.
ApproveFetch_NoBody(r) ==
  /\ req[r].at = "fetch"
  /\ FreeConn
  /\ req' = [req EXCEPT ![r].at = "lockCard"]
  /\ UNCHANGED <<cvars, locks, stream, history, outbox>>

\* GetDraft reads the committed row on a second connection of the pool.
ApproveFetch(r) ==
  /\ req[r].at = "fetch"
  /\ FreeConn
  /\ req' = [req EXCEPT ![r].at = "lockCard", ![r].body = drafts[req[r].draft].body]
  /\ UNCHANGED <<cvars, locks, stream, history, outbox>>

\* UpdateCardStateTx.
ApproveLockCard(r) ==
  LET c == CardOf[req[r].draft] IN
  /\ Goto(r, "lockCard", "publish")
  /\ cardLock[c] = None
  /\ cardLock' = [cardLock EXCEPT ![c] = r]
  /\ UNCHANGED <<cvars, draftLock, stream, history, outbox>>

\* The job is stored in the stream.  If the acknowledgement is lost the
\* publish fails all the same: RequestFails may follow at "log".
ApprovePublish(r) ==
  /\ Len(stream) < MaxStream
  /\ Goto(r, "publish", "log")
  /\ stream' = Append(stream, [draft |-> req[r].draft, body |-> req[r].body])
  /\ UNCHANGED <<cvars, locks, history, outbox>>

\* LogDecisionTx; its error is swallowed, but a failed statement aborts the
\* transaction and then COMMIT fails (RequestFails).
ApproveLog(r) ==
  /\ Goto(r, "log", "commit")
  /\ UNCHANGED <<cvars, locks, stream, history, outbox>>

ApproveCommit(r) ==
  LET d == req[r].draft IN
  /\ req[r].at = "commit"
  /\ drafts' = [drafts EXCEPT ![d].approved = TRUE]
  /\ cardState' = [cardState EXCEPT ![CardOf[d]] = "approved"]
  /\ commits' = [commits EXCEPT ![d] = @ + 1]
  /\ ReleaseLocks(r)
  /\ req' = [req EXCEPT ![r] = Idle]
  /\ UNCHANGED <<stream, texts, gate, outbox>>

-------------------------------------------------------------------------------
(* POST /send: ApprovalFlow.ExecuteSend, then OnSendComplete.              *)

\* Plausible bug: the approval is not checked.
SendCheck_Unapproved(r, d) ==
  /\ req[r].at = "idle"
  /\ Exists(d)
  /\ ~drafts[d].sent
  /\ req' = [req EXCEPT ![r] = [Idle EXCEPT !.at = "mesh", !.draft = d,
                                            !.body = drafts[d].body]]
  /\ UNCHANGED <<cvars, locks, stream, history, outbox>>

\* GetDraftOwnedBy and the two checks, without a lock.
SendCheck(r, d) ==
  /\ req[r].at = "idle"
  /\ Exists(d)
  /\ drafts[d].approved /\ ~drafts[d].sent
  /\ req' = [req EXCEPT ![r] = [Idle EXCEPT !.at = "mesh", !.draft = d,
                                            !.body = drafts[d].body]]
  /\ UNCHANGED <<cvars, locks, stream, history, outbox>>

\* The provider accepts the mail; the caller may not learn it (RequestFails).
MeshSends(r) ==
  LET d == req[r].draft  b == req[r].body IN
  /\ Goto(r, "mesh", "sentBegin")
  /\ outbox[d][b] < MaxSends
  /\ outbox' = [outbox EXCEPT ![d][b] = @ + 1]
  /\ UNCHANGED <<cvars, locks, stream, history>>

SentBegin(r) ==
  /\ Goto(r, "sentBegin", "sentLockDraft")
  /\ FreeConn
  /\ UNCHANGED <<cvars, locks, stream, history, outbox>>

\* MarkDraftSentTx.
SentLockDraft(r) ==
  LET d == req[r].draft IN
  /\ Goto(r, "sentLockDraft", "sentFetch")
  /\ draftLock[d] = None
  /\ draftLock' = [draftLock EXCEPT ![d] = r]
  /\ UNCHANGED <<cvars, cardLock, stream, history, outbox>>

\* GetDraft on a second connection, for the card's id.
SentFetch(r) ==
  /\ Goto(r, "sentFetch", "sentLockCard")
  /\ FreeConn
  /\ UNCHANGED <<cvars, locks, stream, history, outbox>>

\* MarkCardSentTx and COMMIT.
SentCommit(r) ==
  LET d == req[r].draft IN
  /\ req[r].at = "sentLockCard"
  /\ cardLock[CardOf[d]] = None
  /\ drafts' = [drafts EXCEPT ![d].sent = TRUE]
  /\ cardState' = [cardState EXCEPT ![CardOf[d]] = "sent"]
  /\ ReleaseLocks(r)
  /\ req' = [req EXCEPT ![r] = Idle]
  /\ UNCHANGED <<stream, history, outbox>>

-------------------------------------------------------------------------------
\* Plausible bug: the transaction is left open.
RequestFails_KeepsLocks(r) ==
  /\ req[r].at # "idle"
  /\ req' = [req EXCEPT ![r] = Idle]
  /\ UNCHANGED <<cvars, locks, stream, history, outbox>>

\* A statement, a publish, a commit or the mesh fails, a check rejects the
\* request, its context expires or the process dies: PostgreSQL rolls the
\* transaction back (`defer tx.Rollback()`) and the request is over.
RequestFails(r) ==
  /\ req[r].at # "idle"
  /\ ReleaseLocks(r)
  /\ req' = [req EXCEPT ![r] = Idle]
  /\ UNCHANGED <<cvars, stream, history, outbox>>

Decide(r) ==
  \/ \E c \in Cards : \E t \in {"drafting", "consulting"} : ReadCard(r, c, t)
  \/ SetState(r) \/ ConsultAnswered(r) \/ CallFails(r) \/ Revert(r)
  \/ \E d \in Drafts, b \in Bodies : StoreDraft(r, d, b)

Approve(r) ==
  \/ \E d \in Drafts : ApproveBegin(r, d)
  \/ ApproveLockDraft(r) \/ ApproveFetch(r) \/ ApproveLockCard(r)
  \/ ApprovePublish(r) \/ ApproveLog(r) \/ ApproveCommit(r)

ExecuteSend(r) ==
  \/ \E d \in Drafts : SendCheck(r, d)
  \/ MeshSends(r) \/ SentBegin(r) \/ SentLockDraft(r) \/ SentFetch(r) \/ SentCommit(r)

Edit == \E d \in Drafts, b \in Bodies : EditDraft(d, b)

Next == Edit \/ \E r \in Reqs : Decide(r) \/ Approve(r) \/ ExecuteSend(r) \/ RequestFails(r)

Spec == Init /\ [][Next]_vars

\* Fairness: every request ends, at the latest when its context expires.
FairSpec == Spec /\ \A r \in Reqs : WF_vars(RequestFails(r))

-------------------------------------------------------------------------------
(* Properties *)

\* Whoever holds a row lock is inside the transaction that took it, so no
\* ended request leaves a row locked (approval.go:69, 147 `defer Rollback`).
HoldsDraft == {"fetch", "lockCard", "publish", "log", "commit", "sentFetch", "sentLockCard"}
HoldsCard == {"publish", "log", "commit"}
LocksOwned ==
  /\ \A d \in Drafts : draftLock[d] # None =>
       req[draftLock[d]].at \in HoldsDraft /\ req[draftLock[d]].draft = d
  /\ \A c \in Cards : cardLock[c] # None =>
       /\ req[cardLock[c]].at \in HoldsCard
       /\ req[cardLock[c]].draft \in Drafts /\ CardOf[req[cardLock[c]].draft] = c

\* However many approvals of one draft race, retry and fail, at most one of
\* them commits (store.go:286-308, the SELECT ... FOR UPDATE and its check).
ApprovedAtMostOnce == \A d \in Drafts : commits[d] <= 1

\* When an approval commits, the stream already holds a job with the very text
\* the draft has at that moment, whatever edits raced with the approval
\* (approval.go:71-128: the row is locked from the check to the COMMIT).
ApprovedTextIsQueued ==
  [][\A d \in Drafts : (~drafts[d].approved /\ drafts'[d].approved) =>
       \E i \in DOMAIN stream : stream[i] = [draft |-> d, body |-> drafts'[d].body]]_vars

\* A draft is recorded as sent only if it was approved and a provider has
\* accepted one of its texts (approval.go:203-227).
SentWasApprovedAndDelivered ==
  \A d \in Drafts : drafts[d].sent =>
    drafts[d].approved /\ \E b \in Bodies : outbox[d][b] > 0

\* No mail leaves before the user has asked for the draft to be sent, and only
\* texts of that draft leave (README.md:93, "never sends without human gate").
HG == INSTANCE HumanGate WITH texts <- texts, gate <- gate, outbox <- outbox
RefinesHumanGate == HG!GateSpec

\* A row lock is always given back: requests stuck on the second connection of
\* an exhausted pool, or on another row, end with their context.
LocksReleased ==
  \A d \in Drafts : (draftLock[d] # None) ~> (draftLock[d] = None)

\* Locks belong to the transactions that took them, and of all the requests on a
\* card one at most approves a draft.
ApprovalInv == TypeOK /\ LocksOwned /\ ApprovedAtMostOnce
===============================================================================
