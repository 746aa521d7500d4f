-------------------------- MODULE DecisionFlowProofs --------------------------
(***************************************************************************)
(* The safety properties of DecisionFlow for all sets of cards, drafts and *)
(* requests, any pool and any bounds.                                      *)
(*                                                                         *)
(* None of the properties is inductive alone.  They rest on the locking    *)
(* discipline (LockInv): a request between ApproveDraftTx and COMMIT holds *)
(* the draft's row lock, so nobody changes that row under it, and what it  *)
(* read of the row (ApproveInv, QueueInv) is still true when it commits.   *)
(***************************************************************************)
EXTENDS DecisionFlow, TLAPS

OnDraft == TxSteps \cup {"mesh", "sentBegin"}
PastCheck == {"fetch", "lockCard", "publish", "log", "commit"}
PastFetch == {"lockCard", "publish", "log", "commit"}

\* A request that works on a draft or a card names one that exists.
ReqInv ==
  \A r \in Reqs :
    /\ req[r].at \in OnDraft => req[r].draft \in Drafts /\ Exists(req[r].draft)
    /\ req[r].at \in DraftingSteps => req[r].card \in Cards
    /\ req[r].at \in PastFetch \cup {"mesh"} => req[r].body \in Bodies

\* Row locks and the requests that hold them agree.
LockInv ==
  /\ LocksOwned
  /\ \A r \in Reqs : req[r].at \in HoldsDraft => draftLock[req[r].draft] = r

\* What an approval found in the row it locked still holds.
ApproveInv ==
  /\ \A r \in Reqs : req[r].at \in PastCheck => ~drafts[req[r].draft].approved
  /\ \A r \in Reqs :
       req[r].at \in PastFetch => req[r].body = drafts[req[r].draft].body
  /\ \A d \in Drafts : commits[d] = IF drafts[d].approved THEN 1 ELSE 0

\* An approval that has published left its job in the stream.
QueueInv ==
  \A r \in Reqs : req[r].at \in {"log", "commit"} =>
    \E i \in DOMAIN stream : stream[i] = [draft |-> req[r].draft, body |-> req[r].body]

\* A direct send goes through only for an approved draft.
SentInv ==
  /\ SentWasApprovedAndDelivered
  /\ \A r \in Reqs : req[r].at \in {"mesh", "sentBegin"} \cup SentSteps =>
       drafts[req[r].draft].approved
  /\ \A r \in Reqs : req[r].at \in {"sentBegin"} \cup SentSteps =>
       \E b \in Bodies : outbox[req[r].draft][b] > 0

\* Whatever is on its way was asked for, with a text the draft has had.
AskedInv ==
  /\ \A d \in Drafts : drafts[d].approved => d \in gate
  /\ \A d \in Drafts : Exists(d) => drafts[d].body \in texts[d]
  /\ \A r \in Reqs : req[r].at \in ApproveSteps => req[r].draft \in gate
  /\ \A r \in Reqs : req[r].at = "mesh" => req[r].body \in texts[req[r].draft]

IInv == TypeOK /\ ReqInv /\ LockInv /\ ApproveInv /\ QueueInv /\ SentInv /\ AskedInv

-------------------------------------------------------------------------------
(* How the steps change a request. *)

\* The value a step gives to the request it belongs to.
LEMMA RequestTypes ==
  /\ Idle \in Request
  /\ \A q \in Request, to \in Locations : [q EXCEPT !.at = to] \in Request
  /\ \A q \in Request, b \in Bodies, to \in Locations :
       [q EXCEPT !.at = to, !.body = b] \in Request
  /\ \A d \in Drafts : [Idle EXCEPT !.at = "lockDraft", !.draft = d] \in Request
  /\ \A d \in Drafts, b \in Bodies :
       [Idle EXCEPT !.at = "mesh", !.draft = d, !.body = b] \in Request
  /\ \A c \in Cards, s \in CardStates, t \in CardStates :
       [Idle EXCEPT !.at = "setState", !.card = c, !.was = s, !.target = t] \in Request
<1> USE DEF Request, Idle, CardStates
<1>1. {"idle", "lockDraft", "mesh", "setState"} \subseteq Locations
  BY DEF Locations, TxSteps, ApproveSteps, SentSteps, DraftingSteps
<1>2. Idle \in Request
  BY <1>1
<1>3. \A q \in Request, to \in Locations : [q EXCEPT !.at = to] \in Request
  OBVIOUS
<1>4. \A q \in Request, b \in Bodies, to \in Locations :
        [q EXCEPT !.at = to, !.body = b] \in Request
  OBVIOUS
<1>5. \A d \in Drafts : [Idle EXCEPT !.at = "lockDraft", !.draft = d] \in Request
  BY <1>1
<1>6. \A d \in Drafts, b \in Bodies :
        [Idle EXCEPT !.at = "mesh", !.draft = d, !.body = b] \in Request
  BY <1>1
<1>7. \A c \in Cards, s \in CardStates, t \in CardStates :
        [Idle EXCEPT !.at = "setState", !.card = c, !.was = s, !.target = t] \in Request
  BY <1>1
<1> QED BY <1>2, <1>3, <1>4, <1>5, <1>6, <1>7

LEMMA LocationNames ==
  {"idle", "setState", "calling", "revert", "lockDraft", "fetch", "lockCard", "publish",
   "log", "commit", "mesh", "sentBegin", "sentLockDraft", "sentFetch", "sentLockCard"}
    \subseteq Locations
BY DEF Locations, TxSteps, ApproveSteps, SentSteps, DraftingSteps

LEMMA ReqTyped == TypeOK => req \in [Reqs -> Request]
BY DEF TypeOK

\* The rows of the tables and the fields of a request have their types.
LEMMA FieldTypes ==
  ASSUME TypeOK, ReqInv, NEW r \in Reqs
  PROVE  /\ req \in [Reqs -> Request] /\ req[r] \in Request
         /\ req[r].at \in OnDraft => drafts[req[r].draft].body \in Bodies
         /\ req[r].was \in CardStates /\ req[r].target \in CardStates
<1>1. req \in [Reqs -> Request] /\ req[r] \in Request
  BY DEF TypeOK
<1>2. ASSUME req[r].at \in OnDraft PROVE drafts[req[r].draft].body \in Bodies
  BY <1>2 DEF TypeOK, ReqInv, Exists, DraftRow
<1>3. req[r].was \in CardStates /\ req[r].target \in CardStates
  BY <1>1 DEF Request
<1> QED BY <1>1, <1>2, <1>3


\* Every step keeps requests well formed.
LEMMA RequestTypeStep == TypeOK /\ ReqInv /\ [Next]_vars => req' \in [Reqs -> Request]
<1> SUFFICES ASSUME TypeOK, ReqInv, [Next]_vars PROVE req' \in [Reqs -> Request]
  OBVIOUS
<1> USE RequestTypes, FieldTypes, LocationNames DEF Goto
<1>1. ASSUME NEW r \in Reqs, Decide(r) PROVE req' \in [Reqs -> Request]
  <2>1. ASSUME NEW c \in Cards, NEW t \in {"drafting", "consulting"}, ReadCard(r, c, t)
        PROVE  req' \in [Reqs -> Request]
    BY <2>1 DEF ReadCard, TypeOK, CardStates
  <2>2. CASE SetState(r)
    BY <2>2 DEF SetState
  <2>3. ASSUME NEW d \in Drafts, NEW b \in Bodies, StoreDraft(r, d, b)
        PROVE  req' \in [Reqs -> Request]
    BY <2>3 DEF StoreDraft
  <2>4. CASE ConsultAnswered(r)
    BY <2>4 DEF ConsultAnswered
  <2>5. CASE CallFails(r)
    BY <2>5 DEF CallFails
  <2>6. CASE Revert(r)
    BY <2>6 DEF Revert
  <2> QED BY <1>1, <2>1, <2>2, <2>3, <2>4, <2>5, <2>6 DEF Decide
<1>2. ASSUME NEW r \in Reqs, Approve(r) PROVE req' \in [Reqs -> Request]
  <2>1. ASSUME NEW d \in Drafts, ApproveBegin(r, d)
        PROVE  req' \in [Reqs -> Request]
    BY <2>1 DEF ApproveBegin
  <2>2. CASE ApproveLockDraft(r)
    BY <2>2 DEF ApproveLockDraft
  <2>3. CASE ApproveFetch(r)
    BY <2>3 DEF ApproveFetch, OnDraft, TxSteps, ApproveSteps
  <2>4. CASE ApproveLockCard(r)
    BY <2>4 DEF ApproveLockCard
  <2>5. CASE ApprovePublish(r)
    BY <2>5 DEF ApprovePublish
  <2>6. CASE ApproveLog(r)
    BY <2>6 DEF ApproveLog
  <2>7. CASE ApproveCommit(r)
    BY <2>7 DEF ApproveCommit
  <2> QED BY <1>2, <2>1, <2>2, <2>3, <2>4, <2>5, <2>6, <2>7 DEF Approve
<1>3. ASSUME NEW r \in Reqs, ExecuteSend(r) PROVE req' \in [Reqs -> Request]
  <2>1. ASSUME NEW d \in Drafts, SendCheck(r, d) PROVE req' \in [Reqs -> Request]
    BY <2>1 DEF SendCheck, TypeOK, Exists, DraftRow
  <2>2. CASE MeshSends(r)
    BY <2>2 DEF MeshSends
  <2>3. CASE SentBegin(r)
    BY <2>3 DEF SentBegin
  <2>4. CASE SentLockDraft(r)
    BY <2>4 DEF SentLockDraft
  <2>5. CASE SentFetch(r)
    BY <2>5 DEF SentFetch
  <2>6. CASE SentCommit(r)
    BY <2>6 DEF SentCommit
  <2> QED BY <1>3, <2>1, <2>2, <2>3, <2>4, <2>5, <2>6 DEF ExecuteSend
<1>4. ASSUME NEW r \in Reqs, RequestFails(r) PROVE req' \in [Reqs -> Request]
  BY <1>4 DEF RequestFails
<1>5. ASSUME NEW d \in Drafts, NEW b \in Bodies, EditDraft(d, b)
      PROVE  req' \in [Reqs -> Request]
  BY ReqTyped, <1>5 DEF EditDraft
<1>6. CASE UNCHANGED vars
  BY <1>6, ReqTyped DEF vars
<1> QED BY <1>1, <1>2, <1>3, <1>4, <1>5, <1>6 DEF Next, Edit

\* Updates of a row, of the lock tables and of the stream.
LEMMA RowTypes ==
  ASSUME NEW row \in DraftRow
  PROVE  /\ \A b \in Bodies : [row EXCEPT !.body = b] \in DraftRow
         /\ [row EXCEPT !.approved = TRUE] \in DraftRow
         /\ [row EXCEPT !.sent = TRUE] \in DraftRow
BY DEF DraftRow

LEMMA ReleaseTypes ==
  ASSUME TypeOK, NEW r, ReleaseLocks(r)
  PROVE  /\ cardLock' \in [Cards -> Reqs \cup {None}]
         /\ draftLock' \in [Drafts -> Reqs \cup {None}]
BY DEF TypeOK, ReleaseLocks

\* Every step keeps the variables in their types.
LEMMA TypeStep == TypeOK /\ ReqInv /\ [Next]_vars => TypeOK'
<1> SUFFICES ASSUME TypeOK, ReqInv, [Next]_vars PROVE TypeOK'
  OBVIOUS
<1>0. req' \in [Reqs -> Request]
  BY RequestTypeStep
<1> USE <1>0, CardOfAssumption, RowTypes, ReleaseTypes
  DEF TypeOK, cvars, locks, history
<1>1. ASSUME NEW r \in Reqs, Decide(r) PROVE TypeOK'
  <2>1. ASSUME NEW c \in Cards, NEW t \in {"drafting", "consulting"}, ReadCard(r, c, t)
        PROVE  TypeOK'
    BY <2>1 DEF ReadCard
  <2>2. CASE SetState(r)
    BY <2>2, FieldTypes DEF SetState, ReqInv, DraftingSteps, CardStates, Goto
  <2>3. ASSUME NEW d \in Drafts, NEW b \in Bodies, StoreDraft(r, d, b)
        PROVE  TypeOK'
    BY <2>3 DEF StoreDraft, Exists
  <2>4. CASE ConsultAnswered(r)
    BY <2>4 DEF ConsultAnswered
  <2>5. CASE CallFails(r)
    BY <2>5 DEF CallFails
  <2>6. CASE Revert(r)
    BY <2>6, FieldTypes DEF Revert, ReqInv, DraftingSteps, CardStates, Goto
  <2> QED BY <1>1, <2>1, <2>2, <2>3, <2>4, <2>5, <2>6 DEF Decide
<1>2. ASSUME NEW r \in Reqs, Approve(r) PROVE TypeOK'
  <2>1. ASSUME NEW d \in Drafts, ApproveBegin(r, d) PROVE TypeOK'
    BY <2>1 DEF ApproveBegin
  <2>2. CASE ApproveLockDraft(r)
    BY <2>2 DEF ApproveLockDraft
  <2>3. CASE ApproveFetch(r)
    BY <2>3 DEF ApproveFetch
  <2>4. CASE ApproveLockCard(r)
    BY <2>4 DEF ApproveLockCard
  <2>5. CASE ApprovePublish(r)
    BY <2>5 DEF ApprovePublish, ReqInv, OnDraft, PastFetch,
           TxSteps, ApproveSteps, SentSteps, CardStates, Job, Goto
  <2>6. CASE ApproveLog(r)
    BY <2>6 DEF ApproveLog
  <2>7. CASE ApproveCommit(r)
    <3>1. req[r].draft \in Drafts /\ CardOf[req[r].draft] \in Cards
      BY <2>7 DEF ApproveCommit, ReqInv, OnDraft, TxSteps, ApproveSteps
    <3>2. drafts' \in [Drafts -> DraftRow]
      BY <2>7, <3>1 DEF ApproveCommit
    <3>4. commits' \in [Drafts -> Nat]
      BY <2>7, <3>1 DEF ApproveCommit
    <3>3. cardState' \in [Cards -> CardStates]
      BY <2>7, <3>1 DEF ApproveCommit, CardStates
    <3> QED BY <2>7, <3>2, <3>3, <3>4 DEF ApproveCommit
  <2> QED BY <1>2, <2>1, <2>2, <2>3, <2>4, <2>5, <2>6, <2>7 DEF Approve
<1>3. ASSUME NEW r \in Reqs, ExecuteSend(r) PROVE TypeOK'
  <2>1. ASSUME NEW d \in Drafts, SendCheck(r, d) PROVE TypeOK'
    BY <2>1 DEF SendCheck
  <2>2. CASE MeshSends(r)
    <3>1. req[r].draft \in Drafts /\ req[r].body \in Bodies
      BY <2>2 DEF MeshSends, Goto, ReqInv, OnDraft, PastFetch
    <3>2. outbox' \in [Drafts -> [Bodies -> Nat]]
      BY <2>2, <3>1 DEF MeshSends
    <3> QED BY <2>2, <3>2 DEF MeshSends
  <2>3. CASE SentBegin(r)
    BY <2>3 DEF SentBegin
  <2>4. CASE SentLockDraft(r)
    BY <2>4 DEF SentLockDraft
  <2>5. CASE SentFetch(r)
    BY <2>5 DEF SentFetch
  <2>6. CASE SentCommit(r)
    BY <2>6 DEF SentCommit, ReqInv, OnDraft, PastFetch,
           TxSteps, ApproveSteps, SentSteps, CardStates, Job, Goto
  <2> QED BY <1>3, <2>1, <2>2, <2>3, <2>4, <2>5, <2>6 DEF ExecuteSend
<1>4. ASSUME NEW r \in Reqs, RequestFails(r) PROVE TypeOK'
  BY <1>4 DEF RequestFails, ReleaseLocks
<1>5. ASSUME NEW d \in Drafts, NEW b \in Bodies, EditDraft(d, b) PROVE TypeOK'
  BY <1>5 DEF EditDraft
<1>6. CASE UNCHANGED vars
  BY <1>6 DEF vars
<1> QED BY <1>1, <1>2, <1>3, <1>4, <1>5, <1>6 DEF Next, Edit
-------------------------------------------------------------------------------
(* What each kind of step does to the requests, request by request. *)

Keeps(r) == \A q \in Reqs : q # r => req'[q] = req[q]

LEMMA Moves ==
  ASSUME TypeOK, NEW r \in Reqs, NEW from, NEW to, Goto(r, from, to)
  PROVE  /\ Keeps(r) /\ req[r].at = from /\ req'[r].at = to
         /\ req'[r].draft = req[r].draft /\ req'[r].card = req[r].card
         /\ req'[r].body = req[r].body
BY ReqTyped DEF Goto, Keeps, Request

LEMMA Ends ==
  ASSUME TypeOK, NEW r \in Reqs, req' = [req EXCEPT ![r] = Idle]
  PROVE  Keeps(r) /\ req'[r].at = "idle"
BY ReqTyped DEF Keeps, Idle

LEMMA Starts ==
  ASSUME TypeOK, NEW r \in Reqs
  PROVE  /\ \A c \in Cards : \A t : ReadCard(r, c, t) =>
              Keeps(r) /\ req'[r].at = "setState" /\ req'[r].card = c
         /\ \A d \in Drafts : ApproveBegin(r, d) =>
              Keeps(r) /\ req'[r].at = "lockDraft" /\ req'[r].draft = d
         /\ \A d \in Drafts : SendCheck(r, d) =>
              /\ Keeps(r) /\ req'[r].at = "mesh" /\ req'[r].draft = d
              /\ req'[r].body = drafts[d].body
         /\ ApproveFetch(r) =>
              /\ Keeps(r) /\ req[r].at = "fetch" /\ req'[r].at = "lockCard"
              /\ req'[r].draft = req[r].draft
              /\ req'[r].body = drafts[req[r].draft].body
<1>1. req \in [Reqs -> Request]
  BY ReqTyped
<1>2. ASSUME NEW c \in Cards, NEW t, ReadCard(r, c, t)
      PROVE  Keeps(r) /\ req'[r].at = "setState" /\ req'[r].card = c
  BY <1>1, <1>2 DEF ReadCard, Keeps, Idle
<1>3. ASSUME NEW d \in Drafts, ApproveBegin(r, d)
      PROVE  Keeps(r) /\ req'[r].at = "lockDraft" /\ req'[r].draft = d
  BY <1>1, <1>3 DEF ApproveBegin, Keeps, Idle
<1>4. ASSUME NEW d \in Drafts, SendCheck(r, d)
      PROVE  /\ Keeps(r) /\ req'[r].at = "mesh" /\ req'[r].draft = d
             /\ req'[r].body = drafts[d].body
  BY <1>1, <1>4 DEF SendCheck, Keeps, Idle
<1>5. ASSUME ApproveFetch(r)
      PROVE  /\ Keeps(r) /\ req[r].at = "fetch" /\ req'[r].at = "lockCard"
             /\ req'[r].draft = req[r].draft
             /\ req'[r].body = drafts[req[r].draft].body
  BY <1>1, <1>5 DEF ApproveFetch, Keeps, Request
<1> QED BY <1>2, <1>3, <1>4, <1>5

\* No step removes a draft.
LEMMA DraftsStay == TypeOK /\ [Next]_vars => \A d \in Drafts : Exists(d) => Exists(d)'
<1> SUFFICES ASSUME TypeOK, [Next]_vars, NEW d \in Drafts, Exists(d) PROVE Exists(d)'
  OBVIOUS
<1>1. drafts \in [Drafts -> DraftRow]
  BY DEF TypeOK
<1>2. CASE UNCHANGED drafts
  BY <1>2 DEF Exists
<1>3. ASSUME NEW e \in Drafts, NEW b \in Bodies, drafts' = [drafts EXCEPT ![e].body = b]
      PROVE  Exists(d)'
  BY <1>1, <1>3, NoneAssumption DEF Exists, DraftRow
<1>4. ASSUME NEW r, ApproveCommit(r) \/ SentCommit(r) PROVE Exists(d)'
  BY <1>1, <1>4 DEF Exists, DraftRow, ApproveCommit, SentCommit
<1> QED
  BY <1>2, <1>3, <1>4
  DEF Next, vars, cvars, Edit, Decide, Approve, ExecuteSend, EditDraft, StoreDraft,
      ReadCard, SetState, ConsultAnswered, CallFails, Revert, ApproveBegin,
      ApproveLockDraft, ApproveFetch, ApproveLockCard, ApprovePublish, ApproveLog,
      SendCheck, MeshSends, SentBegin, SentLockDraft, SentFetch, RequestFails

-------------------------------------------------------------------------------
\* A request keeps naming rows that exist.
LEMMA ReqStep == TypeOK /\ ReqInv /\ [Next]_vars => ReqInv'
<1> SUFFICES ASSUME TypeOK, ReqInv, [Next]_vars PROVE ReqInv'
  OBVIOUS
<1> USE DraftsStay
  DEF ReqInv, Keeps, OnDraft, PastFetch, TxSteps, ApproveSteps, SentSteps, DraftingSteps
<1>1. ASSUME NEW r \in Reqs, Decide(r) PROVE ReqInv'
  <2>1. ASSUME NEW c \in Cards, NEW t \in {"drafting", "consulting"}, ReadCard(r, c, t)
        PROVE  ReqInv'
    <3>1. Keeps(r) /\ req'[r].at = "setState" /\ req'[r].card = c
      BY Starts, <2>1
    <3> QED BY <3>1, <2>1 DEF ReadCard
  <2>2. CASE SetState(r)
    BY Moves, <2>2 DEF SetState
  <2>3. ASSUME NEW d \in Drafts, NEW b \in Bodies, StoreDraft(r, d, b)
        PROVE  ReqInv'
    BY Ends, <2>3 DEF StoreDraft
  <2>4. CASE ConsultAnswered(r)
    BY Ends, <2>4 DEF ConsultAnswered
  <2>5. CASE CallFails(r)
    BY Moves, <2>5 DEF CallFails
  <2>6. CASE Revert(r)
    BY Ends, <2>6 DEF Revert
  <2> QED BY <1>1, <2>1, <2>2, <2>3, <2>4, <2>5, <2>6 DEF Decide
<1>2. ASSUME NEW r \in Reqs, Approve(r) PROVE ReqInv'
  <2>1. ASSUME NEW d \in Drafts, ApproveBegin(r, d) PROVE ReqInv'
    <3>1. Keeps(r) /\ req'[r].at = "lockDraft" /\ req'[r].draft = d
      BY Starts, <2>1
    <3> QED BY <3>1, <2>1 DEF ApproveBegin
  <2>2. CASE ApproveLockDraft(r)
    BY Moves, <2>2 DEF ApproveLockDraft
  <2>3. CASE ApproveFetch(r)
    BY Starts, FieldTypes, <2>3 DEF ApproveFetch
  <2>4. CASE ApproveLockCard(r)
    BY Moves, <2>4 DEF ApproveLockCard
  <2>5. CASE ApprovePublish(r)
    BY Moves, <2>5 DEF ApprovePublish
  <2>6. CASE ApproveLog(r)
    BY Moves, <2>6 DEF ApproveLog
  <2>7. CASE ApproveCommit(r)
    BY Ends, <2>7 DEF ApproveCommit
  <2> QED BY <1>2, <2>1, <2>2, <2>3, <2>4, <2>5, <2>6, <2>7 DEF Approve
<1>3. ASSUME NEW r \in Reqs, ExecuteSend(r) PROVE ReqInv'
  <2>1. ASSUME NEW d \in Drafts, SendCheck(r, d) PROVE ReqInv'
    <3>1. /\ Keeps(r) /\ req'[r].at = "mesh" /\ req'[r].draft = d
             /\ req'[r].body = drafts[d].body
      BY Starts, <2>1
    <3> QED BY <3>1, <2>1 DEF SendCheck, TypeOK, DraftRow, Exists
  <2>2. CASE MeshSends(r)
    BY Moves, <2>2 DEF MeshSends
  <2>3. CASE SentBegin(r)
    BY Moves, <2>3 DEF SentBegin
  <2>4. CASE SentLockDraft(r)
    BY Moves, <2>4 DEF SentLockDraft
  <2>5. CASE SentFetch(r)
    BY Moves, <2>5 DEF SentFetch
  <2>6. CASE SentCommit(r)
    BY Ends, <2>6 DEF SentCommit
  <2> QED BY <1>3, <2>1, <2>2, <2>3, <2>4, <2>5, <2>6 DEF ExecuteSend
<1>4. ASSUME NEW r \in Reqs, RequestFails(r) PROVE ReqInv'
  BY Ends, <1>4 DEF RequestFails
<1>5. ASSUME NEW d \in Drafts, NEW b \in Bodies, EditDraft(d, b) PROVE ReqInv'
  BY <1>5 DEF EditDraft
<1>6. CASE UNCHANGED vars
  BY <1>6 DEF vars
<1> QED BY <1>1, <1>2, <1>3, <1>4, <1>5, <1>6 DEF Next, Edit

-------------------------------------------------------------------------------
LEMMA LockTypes ==
  TypeOK => /\ cardLock \in [Cards -> Reqs \cup {None}]
            /\ draftLock \in [Drafts -> Reqs \cup {None}]
BY DEF TypeOK

\* The end of a request gives back its locks and no other.
LEMMA LockRelease ==
  ASSUME TypeOK, ReqInv, LockInv, NEW r \in Reqs,
         Keeps(r), req'[r].at = "idle", ReleaseLocks(r)
  PROVE  LockInv'
<1> USE DEF LockInv, LocksOwned, Keeps, ReleaseLocks
<1>1. ASSUME NEW d \in Drafts, draftLock'[d] # None
      PROVE  req'[draftLock'[d]].at \in HoldsDraft /\ req'[draftLock'[d]].draft = d
  <2>1. draftLock'[d] = draftLock[d] /\ draftLock[d] # r /\ draftLock[d] \in Reqs
    BY <1>1, LockTypes
  <2> QED BY <1>1, <2>1
<1>2. ASSUME NEW c \in Cards, cardLock'[c] # None
      PROVE  /\ req'[cardLock'[c]].at \in HoldsCard
             /\ req'[cardLock'[c]].draft \in Drafts /\ CardOf[req'[cardLock'[c]].draft] = c
  <2>1. cardLock'[c] = cardLock[c] /\ cardLock[c] # r /\ cardLock[c] \in Reqs
    BY <1>2, LockTypes
  <2> QED BY <1>2, <2>1
<1>3. ASSUME NEW q \in Reqs, req'[q].at \in HoldsDraft
      PROVE  draftLock'[req'[q].draft] = q
  <2>1. q # r /\ req'[q] = req[q]
    BY <1>3 DEF HoldsDraft
  <2>2. req[q].draft \in Drafts /\ draftLock[req[q].draft] = q
    BY <1>3, <2>1
      DEF ReqInv, HoldsDraft, OnDraft, TxSteps, ApproveSteps, SentSteps
  <2> QED BY <2>1, <2>2, NoneAssumption
<1> QED BY <1>1, <1>2, <1>3

\* A request that moves on inside its transaction keeps its locks.
LEMMA LockKeep ==
  ASSUME TypeOK, LockInv, NEW r \in Reqs, Keeps(r), UNCHANGED locks,
         req[r].at \in HoldsDraft, req'[r].at \in HoldsDraft,
         req[r].at \in HoldsCard => req'[r].at \in HoldsCard,
         req'[r].draft = req[r].draft
  PROVE  LockInv'
<1> USE DEF LockInv, LocksOwned, Keeps, locks
<1>1. \A q \in Reqs : /\ req'[q].draft = req[q].draft
                      /\ req[q].at \in HoldsDraft <=> req'[q].at \in HoldsDraft
                      /\ req[q].at \in HoldsCard => req'[q].at \in HoldsCard
  OBVIOUS
<1> QED BY <1>1, LockTypes

-------------------------------------------------------------------------------
\* Locks are taken by their owners only and given back when those end.
LEMMA LockStep == TypeOK /\ ReqInv /\ LockInv /\ [Next]_vars => LockInv'
<1> SUFFICES ASSUME TypeOK, ReqInv, LockInv, [Next]_vars PROVE LockInv'
  OBVIOUS
<1> USE NoneAssumption, CardOfAssumption, LockTypes
  DEF LockInv, LocksOwned, HoldsDraft, HoldsCard, Keeps, locks
<1>1. ASSUME NEW r \in Reqs, Decide(r) PROVE LockInv'
  <2>1. ASSUME NEW c \in Cards, NEW t \in {"drafting", "consulting"}, ReadCard(r, c, t)
        PROVE  LockInv'
    <3>1. Keeps(r) /\ req'[r].at = "setState" /\ req'[r].card = c
      BY Starts, <2>1
    <3> QED BY <3>1, <2>1 DEF ReadCard
  <2>2. CASE SetState(r)
    BY Moves, <2>2 DEF SetState
  <2>3. ASSUME NEW d \in Drafts, NEW b \in Bodies, StoreDraft(r, d, b)
        PROVE  LockInv'
    <3>1. Keeps(r) /\ req'[r].at = "idle"
      BY Ends, <2>3 DEF StoreDraft
    <3> QED BY <3>1, <2>3 DEF StoreDraft
  <2>4. CASE ConsultAnswered(r)
    <3>1. Keeps(r) /\ req'[r].at = "idle"
      BY Ends, <2>4 DEF ConsultAnswered
    <3> QED BY <3>1, <2>4 DEF ConsultAnswered
  <2>5. CASE CallFails(r)
    BY Moves, <2>5 DEF CallFails
  <2>6. CASE Revert(r)
    <3>1. Keeps(r) /\ req'[r].at = "idle"
      BY Ends, <2>6 DEF Revert
    <3> QED BY <3>1, <2>6 DEF Revert
  <2> QED BY <1>1, <2>1, <2>2, <2>3, <2>4, <2>5, <2>6 DEF Decide
<1>2. ASSUME NEW r \in Reqs, Approve(r) PROVE LockInv'
  <2>1. ASSUME NEW d \in Drafts, ApproveBegin(r, d) PROVE LockInv'
    <3>1. Keeps(r) /\ req'[r].at = "lockDraft" /\ req'[r].draft = d
      BY Starts, <2>1
    <3> QED BY <3>1, <2>1 DEF ApproveBegin
  <2>2. CASE ApproveLockDraft(r)
    BY Moves, <2>2
      DEF ApproveLockDraft, ReqInv, OnDraft, TxSteps, ApproveSteps, SentSteps
  <2>3. CASE ApproveFetch(r)
    <3>1. /\ Keeps(r) /\ req[r].at = "fetch" /\ req'[r].at = "lockCard"
             /\ req'[r].draft = req[r].draft
             /\ req'[r].body = drafts[req[r].draft].body
      BY Starts, <2>3
    <3> QED BY LockKeep, <3>1, <2>3 DEF ApproveFetch
  <2>4. CASE ApproveLockCard(r)
    BY Moves, <2>4
      DEF ApproveLockCard, ReqInv, OnDraft, TxSteps, ApproveSteps, SentSteps
  <2>5. CASE ApprovePublish(r)
    BY Moves, <2>5 DEF ApprovePublish
  <2>6. CASE ApproveLog(r)
    BY Moves, <2>6 DEF ApproveLog
  <2>7. CASE ApproveCommit(r)
    <3>1. Keeps(r) /\ req'[r].at = "idle"
      BY Ends, <2>7 DEF ApproveCommit
    <3> QED BY LockRelease, <3>1, <2>7 DEF ApproveCommit
  <2> QED BY <1>2, <2>1, <2>2, <2>3, <2>4, <2>5, <2>6, <2>7 DEF Approve
<1>3. ASSUME NEW r \in Reqs, ExecuteSend(r) PROVE LockInv'
  <2>1. ASSUME NEW d \in Drafts, SendCheck(r, d) PROVE LockInv'
    <3>1. /\ Keeps(r) /\ req'[r].at = "mesh" /\ req'[r].draft = d
             /\ req'[r].body = drafts[d].body
      BY Starts, <2>1
    <3> QED BY <3>1, <2>1 DEF SendCheck
  <2>2. CASE MeshSends(r)
    BY Moves, <2>2 DEF MeshSends
  <2>3. CASE SentBegin(r)
    BY Moves, <2>3 DEF SentBegin
  <2>4. CASE SentLockDraft(r)
    BY Moves, <2>4
      DEF SentLockDraft, ReqInv, OnDraft, TxSteps, ApproveSteps, SentSteps
  <2>5. CASE SentFetch(r)
    BY Moves, <2>5 DEF SentFetch
  <2>6. CASE SentCommit(r)
    <3>1. Keeps(r) /\ req'[r].at = "idle"
      BY Ends, <2>6 DEF SentCommit
    <3> QED BY LockRelease, <3>1, <2>6 DEF SentCommit
  <2> QED BY <1>3, <2>1, <2>2, <2>3, <2>4, <2>5, <2>6 DEF ExecuteSend
<1>4. ASSUME NEW r \in Reqs, RequestFails(r) PROVE LockInv'
  <2>1. Keeps(r) /\ req'[r].at = "idle"
      BY Ends, <1>4 DEF RequestFails
  <2> QED BY LockRelease, <2>1, <1>4 DEF RequestFails
<1>5. ASSUME NEW d \in Drafts, NEW b \in Bodies, EditDraft(d, b) PROVE LockInv'
  BY <1>5 DEF EditDraft
<1>6. CASE UNCHANGED vars
  BY <1>6 DEF vars
<1> QED BY <1>1, <1>2, <1>3, <1>4, <1>5, <1>6 DEF Next, Edit

-------------------------------------------------------------------------------
LEMMA RowsTyped ==
  TypeOK => /\ drafts \in [Drafts -> DraftRow] /\ commits \in [Drafts -> Nat]
            /\ outbox \in [Drafts -> [Bodies -> Nat]]
            /\ texts \in [Drafts -> SUBSET Bodies]
BY DEF TypeOK

\* The locations past the check are in the transaction, with the lock.
LEMMA PastCheckHolds ==
  /\ PastFetch \subseteq PastCheck /\ PastCheck \subseteq HoldsDraft
  /\ PastCheck \subseteq ApproveSteps /\ HoldsDraft \subseteq OnDraft
BY DEF PastFetch, PastCheck, HoldsDraft, ApproveSteps, OnDraft, TxSteps, SentSteps

\* At most one request is past the check of a draft.
LEMMA OneHolder ==
  ASSUME ReqInv, LockInv, NEW q \in Reqs, NEW r \in Reqs, req[q].at \in HoldsDraft,
         req[r].at \in HoldsDraft, req[q].draft = req[r].draft
  PROVE  q = r
BY DEF LockInv

-------------------------------------------------------------------------------
\* What an approval read under the lock stays true until it ends.
LEMMA ApproveStep ==
  TypeOK /\ ReqInv /\ LockInv /\ ApproveInv /\ [Next]_vars => ApproveInv'
<1> SUFFICES ASSUME TypeOK, ReqInv, LockInv, ApproveInv, [Next]_vars PROVE ApproveInv'
  OBVIOUS
<1> USE RowsTyped DEF ApproveInv, Keeps, cvars, history, PastFetch, PastCheck
<1>1. ASSUME NEW r \in Reqs, Decide(r) PROVE ApproveInv'
  <2>1. ASSUME NEW c \in Cards, NEW t \in {"drafting", "consulting"}, ReadCard(r, c, t)
        PROVE  ApproveInv'
    <3>1. Keeps(r) /\ req'[r].at = "setState" /\ req'[r].card = c
      BY Starts, <2>1
    <3> QED BY <3>1, <2>1 DEF ReadCard
  <2>2. CASE SetState(r)
    <3>1. /\ Keeps(r) /\ req[r].at = "setState" /\ req'[r].at = "calling"
          /\ req'[r].draft = req[r].draft /\ req'[r].body = req[r].body
      BY Moves, <2>2 DEF SetState
    <3> QED BY <3>1, <2>2 DEF SetState
  <2>3. ASSUME NEW d \in Drafts, NEW b \in Bodies, StoreDraft(r, d, b)
        PROVE  ApproveInv'
    <3>1. Keeps(r) /\ req'[r].at = "idle"
      BY Ends, <2>3 DEF StoreDraft
    <3>2. \A q \in Reqs : req[q].at \in PastCheck => req[q].draft # d
      BY <2>3, PastCheckHolds DEF StoreDraft, ReqInv
    <3> QED BY <3>1, <3>2, PastCheckHolds, <2>3 DEF StoreDraft, ReqInv
  <2>4. CASE ConsultAnswered(r)
    <3>1. Keeps(r) /\ req'[r].at = "idle"
      BY Ends, <2>4 DEF ConsultAnswered
    <3> QED BY <3>1, <2>4 DEF ConsultAnswered
  <2>5. CASE CallFails(r)
    <3>1. /\ Keeps(r) /\ req[r].at = "calling" /\ req'[r].at = "revert"
          /\ req'[r].draft = req[r].draft /\ req'[r].body = req[r].body
      BY Moves, <2>5 DEF CallFails
    <3> QED BY <3>1, <2>5 DEF CallFails
  <2>6. CASE Revert(r)
    <3>1. Keeps(r) /\ req'[r].at = "idle"
      BY Ends, <2>6 DEF Revert
    <3> QED BY <3>1, <2>6 DEF Revert
  <2> QED BY <1>1, <2>1, <2>2, <2>3, <2>4, <2>5, <2>6 DEF Decide
<1>2. ASSUME NEW r \in Reqs, Approve(r) PROVE ApproveInv'
  <2>1. ASSUME NEW d \in Drafts, ApproveBegin(r, d) PROVE ApproveInv'
    <3>1. Keeps(r) /\ req'[r].at = "lockDraft" /\ req'[r].draft = d
      BY Starts, <2>1
    <3> QED BY <3>1, <2>1 DEF ApproveBegin
  <2>2. CASE ApproveLockDraft(r)
    <3>1. /\ Keeps(r) /\ req[r].at = "lockDraft" /\ req'[r].at = "fetch"
          /\ req'[r].draft = req[r].draft /\ req'[r].body = req[r].body
      BY Moves, <2>2 DEF ApproveLockDraft
    <3> QED BY <3>1, <2>2 DEF ApproveLockDraft
  <2>3. CASE ApproveFetch(r)
    <3>1. /\ Keeps(r) /\ req[r].at = "fetch" /\ req'[r].at = "lockCard"
             /\ req'[r].draft = req[r].draft
             /\ req'[r].body = drafts[req[r].draft].body
      BY Starts, <2>3
    <3> QED BY <3>1, <2>3 DEF ApproveFetch
  <2>4. CASE ApproveLockCard(r)
    <3>1. /\ Keeps(r) /\ req[r].at = "lockCard" /\ req'[r].at = "publish"
          /\ req'[r].draft = req[r].draft /\ req'[r].body = req[r].body
      BY Moves, <2>4 DEF ApproveLockCard
    <3> QED BY <3>1, <2>4 DEF ApproveLockCard
  <2>5. CASE ApprovePublish(r)
    <3>1. /\ Keeps(r) /\ req[r].at = "publish" /\ req'[r].at = "log"
          /\ req'[r].draft = req[r].draft /\ req'[r].body = req[r].body
      BY Moves, <2>5 DEF ApprovePublish
    <3> QED BY <3>1, <2>5 DEF ApprovePublish
  <2>6. CASE ApproveLog(r)
    <3>1. /\ Keeps(r) /\ req[r].at = "log" /\ req'[r].at = "commit"
          /\ req'[r].draft = req[r].draft /\ req'[r].body = req[r].body
      BY Moves, <2>6 DEF ApproveLog
    <3> QED BY <3>1, <2>6 DEF ApproveLog
  <2>7. CASE ApproveCommit(r)
    <3>1. Keeps(r) /\ req'[r].at = "idle"
      BY Ends, <2>7 DEF ApproveCommit
    <3>2. req[r].draft \in Drafts /\ req[r].at \in PastCheck
      BY <2>7 DEF ApproveCommit, ReqInv, OnDraft, TxSteps, ApproveSteps
    <3>3. \A q \in Reqs : q # r /\ req[q].at \in PastCheck =>
            req[q].draft \in Drafts /\ req[q].draft # req[r].draft
      BY <3>2, OneHolder, PastCheckHolds DEF ReqInv
    <3>4. \A q \in Reqs : req'[q].at \in PastCheck =>
            /\ req'[q] = req[q] /\ req[q].at \in PastCheck
            /\ drafts'[req[q].draft] = drafts[req[q].draft]
      BY <3>1, <3>2, <3>3, <2>7 DEF ApproveCommit
    <3>5. ~drafts[req[r].draft].approved
      BY <3>2
    <3>6. \A d \in Drafts : commits'[d] = IF drafts'[d].approved THEN 1 ELSE 0
      BY <3>2, <3>5, <2>7 DEF ApproveCommit
    <3>7. \A q \in Reqs : req'[q].at \in PastFetch => req'[q].at \in PastCheck
      BY PastCheckHolds
    <3> QED BY <3>4, <3>6, <3>7
  <2> QED BY <1>2, <2>1, <2>2, <2>3, <2>4, <2>5, <2>6, <2>7 DEF Approve
<1>3. ASSUME NEW r \in Reqs, ExecuteSend(r) PROVE ApproveInv'
  <2>1. ASSUME NEW d \in Drafts, SendCheck(r, d) PROVE ApproveInv'
    <3>1. /\ Keeps(r) /\ req'[r].at = "mesh" /\ req'[r].draft = d
             /\ req'[r].body = drafts[d].body
      BY Starts, <2>1
    <3> QED BY <3>1, <2>1 DEF SendCheck
  <2>2. CASE MeshSends(r)
    <3>1. /\ Keeps(r) /\ req[r].at = "mesh" /\ req'[r].at = "sentBegin"
          /\ req'[r].draft = req[r].draft /\ req'[r].body = req[r].body
      BY Moves, <2>2 DEF MeshSends
    <3> QED BY <3>1, <2>2 DEF MeshSends
  <2>3. CASE SentBegin(r)
    <3>1. /\ Keeps(r) /\ req[r].at = "sentBegin" /\ req'[r].at = "sentLockDraft"
          /\ req'[r].draft = req[r].draft /\ req'[r].body = req[r].body
      BY Moves, <2>3 DEF SentBegin
    <3> QED BY <3>1, <2>3 DEF SentBegin
  <2>4. CASE SentLockDraft(r)
    <3>1. /\ Keeps(r) /\ req[r].at = "sentLockDraft" /\ req'[r].at = "sentFetch"
          /\ req'[r].draft = req[r].draft /\ req'[r].body = req[r].body
      BY Moves, <2>4 DEF SentLockDraft
    <3> QED BY <3>1, <2>4 DEF SentLockDraft
  <2>5. CASE SentFetch(r)
    <3>1. /\ Keeps(r) /\ req[r].at = "sentFetch" /\ req'[r].at = "sentLockCard"
          /\ req'[r].draft = req[r].draft /\ req'[r].body = req[r].body
      BY Moves, <2>5 DEF SentFetch
    <3> QED BY <3>1, <2>5 DEF SentFetch
  <2>6. CASE SentCommit(r)
    <3>1. Keeps(r) /\ req'[r].at = "idle"
      BY Ends, <2>6 DEF SentCommit
    <3> QED BY <3>1, <2>6 DEF SentCommit
  <2> QED BY <1>3, <2>1, <2>2, <2>3, <2>4, <2>5, <2>6 DEF ExecuteSend
<1>4. ASSUME NEW r \in Reqs, RequestFails(r) PROVE ApproveInv'
  <2>1. Keeps(r) /\ req'[r].at = "idle"
      BY Ends, <1>4 DEF RequestFails
  <2> QED BY <2>1, <1>4 DEF RequestFails
<1>5. ASSUME NEW d \in Drafts, NEW b \in Bodies, EditDraft(d, b) PROVE ApproveInv'
  <2>1. \A q \in Reqs : req[q].at \in PastCheck => req[q].draft \in Drafts \ {d}
      BY <1>5, PastCheckHolds, NoneAssumption DEF EditDraft, ReqInv, LockInv
  <2>2. \A q \in Reqs : req[q].at \in PastFetch => req[q].at \in PastCheck
      BY PastCheckHolds
  <2> QED BY <2>1, <2>2, <1>5 DEF EditDraft
<1>6. CASE UNCHANGED vars
  BY <1>6 DEF vars
<1> QED BY <1>1, <1>2, <1>3, <1>4, <1>5, <1>6 DEF Next, Edit

-------------------------------------------------------------------------------
\* A job that is queued stays queued.
LEMMA QueueGrows ==
  ASSUME TypeOK, NEW job \in Job, stream' = Append(stream, job)
  PROVE  /\ \A i \in DOMAIN stream : i \in DOMAIN stream' /\ stream'[i] = stream[i]
         /\ \E i \in DOMAIN stream' : stream'[i] = job
<1>1. stream \in Seq(Job)
  BY DEF TypeOK
<1>2. /\ DOMAIN stream = 1..Len(stream) /\ DOMAIN stream' = 1..(Len(stream) + 1)
      /\ Len(stream) \in Nat /\ stream'[Len(stream) + 1] = job
      /\ \A i \in 1..Len(stream) : stream'[i] = stream[i]
  BY <1>1
<1>3. Len(stream) + 1 \in DOMAIN stream'
  BY <1>2
<1>4. \A i \in DOMAIN stream : i \in DOMAIN stream'
  BY <1>2
<1> QED BY <1>2, <1>3, <1>4

-------------------------------------------------------------------------------
\* A published job stays in the stream.
LEMMA QueueStep == TypeOK /\ ReqInv /\ QueueInv /\ [Next]_vars => QueueInv'
<1> SUFFICES ASSUME TypeOK, ReqInv, QueueInv, [Next]_vars PROVE QueueInv'
  OBVIOUS
<1> USE DEF QueueInv, Keeps
<1>1. ASSUME NEW r \in Reqs, Decide(r) PROVE QueueInv'
  <2>1. ASSUME NEW c \in Cards, NEW t \in {"drafting", "consulting"}, ReadCard(r, c, t)
        PROVE  QueueInv'
    <3>1. Keeps(r) /\ req'[r].at = "setState" /\ req'[r].card = c
      BY Starts, <2>1
    <3> QED BY <3>1, <2>1 DEF ReadCard
  <2>2. CASE SetState(r)
    <3>1. /\ Keeps(r) /\ req[r].at = "setState" /\ req'[r].at = "calling"
          /\ req'[r].draft = req[r].draft /\ req'[r].body = req[r].body
      BY Moves, <2>2 DEF SetState
    <3> QED BY <3>1, <2>2 DEF SetState
  <2>3. ASSUME NEW d \in Drafts, NEW b \in Bodies, StoreDraft(r, d, b)
        PROVE  QueueInv'
    <3>1. Keeps(r) /\ req'[r].at = "idle"
      BY Ends, <2>3 DEF StoreDraft
    <3> QED BY <3>1, <2>3 DEF StoreDraft
  <2>4. CASE ConsultAnswered(r)
    <3>1. Keeps(r) /\ req'[r].at = "idle"
      BY Ends, <2>4 DEF ConsultAnswered
    <3> QED BY <3>1, <2>4 DEF ConsultAnswered
  <2>5. CASE CallFails(r)
    <3>1. /\ Keeps(r) /\ req[r].at = "calling" /\ req'[r].at = "revert"
          /\ req'[r].draft = req[r].draft /\ req'[r].body = req[r].body
      BY Moves, <2>5 DEF CallFails
    <3> QED BY <3>1, <2>5 DEF CallFails
  <2>6. CASE Revert(r)
    <3>1. Keeps(r) /\ req'[r].at = "idle"
      BY Ends, <2>6 DEF Revert
    <3> QED BY <3>1, <2>6 DEF Revert
  <2> QED BY <1>1, <2>1, <2>2, <2>3, <2>4, <2>5, <2>6 DEF Decide
<1>2. ASSUME NEW r \in Reqs, Approve(r) PROVE QueueInv'
  <2>1. ASSUME NEW d \in Drafts, ApproveBegin(r, d) PROVE QueueInv'
    <3>1. Keeps(r) /\ req'[r].at = "lockDraft" /\ req'[r].draft = d
      BY Starts, <2>1
    <3> QED BY <3>1, <2>1 DEF ApproveBegin
  <2>2. CASE ApproveLockDraft(r)
    <3>1. /\ Keeps(r) /\ req[r].at = "lockDraft" /\ req'[r].at = "fetch"
          /\ req'[r].draft = req[r].draft /\ req'[r].body = req[r].body
      BY Moves, <2>2 DEF ApproveLockDraft
    <3> QED BY <3>1, <2>2 DEF ApproveLockDraft
  <2>3. CASE ApproveFetch(r)
    <3>1. /\ Keeps(r) /\ req[r].at = "fetch" /\ req'[r].at = "lockCard"
             /\ req'[r].draft = req[r].draft
             /\ req'[r].body = drafts[req[r].draft].body
      BY Starts, <2>3
    <3> QED BY <3>1, <2>3 DEF ApproveFetch
  <2>4. CASE ApproveLockCard(r)
    <3>1. /\ Keeps(r) /\ req[r].at = "lockCard" /\ req'[r].at = "publish"
          /\ req'[r].draft = req[r].draft /\ req'[r].body = req[r].body
      BY Moves, <2>4 DEF ApproveLockCard
    <3> QED BY <3>1, <2>4 DEF ApproveLockCard
  <2>5. CASE ApprovePublish(r)
    <3>1. /\ Keeps(r) /\ req[r].at = "publish" /\ req'[r].at = "log"
          /\ req'[r].draft = req[r].draft /\ req'[r].body = req[r].body
      BY Moves, <2>5 DEF ApprovePublish
    <3> DEFINE job == [draft |-> req[r].draft, body |-> req[r].body]
    <3>2. job \in Job /\ stream' = Append(stream, job)
      BY <3>1, <2>5
        DEF ApprovePublish, ReqInv, OnDraft, TxSteps, ApproveSteps, PastFetch, Job
    <3>3. /\ \A i \in DOMAIN stream : i \in DOMAIN stream' /\ stream'[i] = stream[i]
          /\ \E i \in DOMAIN stream' : stream'[i] = job
      BY <3>2, QueueGrows
    <3> QED BY <3>1, <3>3
  <2>6. CASE ApproveLog(r)
    <3>1. /\ Keeps(r) /\ req[r].at = "log" /\ req'[r].at = "commit"
          /\ req'[r].draft = req[r].draft /\ req'[r].body = req[r].body
      BY Moves, <2>6 DEF ApproveLog
    <3> QED BY <3>1, <2>6 DEF ApproveLog
  <2>7. CASE ApproveCommit(r)
    <3>1. Keeps(r) /\ req'[r].at = "idle"
      BY Ends, <2>7 DEF ApproveCommit
    <3> QED BY <3>1, <2>7 DEF ApproveCommit
  <2> QED BY <1>2, <2>1, <2>2, <2>3, <2>4, <2>5, <2>6, <2>7 DEF Approve
<1>3. ASSUME NEW r \in Reqs, ExecuteSend(r) PROVE QueueInv'
  <2>1. ASSUME NEW d \in Drafts, SendCheck(r, d) PROVE QueueInv'
    <3>1. /\ Keeps(r) /\ req'[r].at = "mesh" /\ req'[r].draft = d
             /\ req'[r].body = drafts[d].body
      BY Starts, <2>1
    <3> QED BY <3>1, <2>1 DEF SendCheck
  <2>2. CASE MeshSends(r)
    <3>1. /\ Keeps(r) /\ req[r].at = "mesh" /\ req'[r].at = "sentBegin"
          /\ req'[r].draft = req[r].draft /\ req'[r].body = req[r].body
      BY Moves, <2>2 DEF MeshSends
    <3> QED BY <3>1, <2>2 DEF MeshSends
  <2>3. CASE SentBegin(r)
    <3>1. /\ Keeps(r) /\ req[r].at = "sentBegin" /\ req'[r].at = "sentLockDraft"
          /\ req'[r].draft = req[r].draft /\ req'[r].body = req[r].body
      BY Moves, <2>3 DEF SentBegin
    <3> QED BY <3>1, <2>3 DEF SentBegin
  <2>4. CASE SentLockDraft(r)
    <3>1. /\ Keeps(r) /\ req[r].at = "sentLockDraft" /\ req'[r].at = "sentFetch"
          /\ req'[r].draft = req[r].draft /\ req'[r].body = req[r].body
      BY Moves, <2>4 DEF SentLockDraft
    <3> QED BY <3>1, <2>4 DEF SentLockDraft
  <2>5. CASE SentFetch(r)
    <3>1. /\ Keeps(r) /\ req[r].at = "sentFetch" /\ req'[r].at = "sentLockCard"
          /\ req'[r].draft = req[r].draft /\ req'[r].body = req[r].body
      BY Moves, <2>5 DEF SentFetch
    <3> QED BY <3>1, <2>5 DEF SentFetch
  <2>6. CASE SentCommit(r)
    <3>1. Keeps(r) /\ req'[r].at = "idle"
      BY Ends, <2>6 DEF SentCommit
    <3> QED BY <3>1, <2>6 DEF SentCommit
  <2> QED BY <1>3, <2>1, <2>2, <2>3, <2>4, <2>5, <2>6 DEF ExecuteSend
<1>4. ASSUME NEW r \in Reqs, RequestFails(r) PROVE QueueInv'
  <2>1. Keeps(r) /\ req'[r].at = "idle"
      BY Ends, <1>4 DEF RequestFails
  <2> QED BY <2>1, <1>4 DEF RequestFails
<1>5. ASSUME NEW d \in Drafts, NEW b \in Bodies, EditDraft(d, b) PROVE QueueInv'
  BY <1>5 DEF EditDraft
<1>6. CASE UNCHANGED vars
  BY <1>6 DEF vars
<1> QED BY <1>1, <1>2, <1>3, <1>4, <1>5, <1>6 DEF Next, Edit

-------------------------------------------------------------------------------
\* A direct send rests on an approval and a delivery.
LEMMA SentStep == TypeOK /\ ReqInv /\ SentInv /\ [Next]_vars => SentInv'
<1> SUFFICES ASSUME TypeOK, ReqInv, SentInv, [Next]_vars PROVE SentInv'
  OBVIOUS
<1> USE RowsTyped
  DEF SentInv, SentWasApprovedAndDelivered, Keeps, cvars, history, SentSteps
<1>1. ASSUME NEW r \in Reqs, Decide(r) PROVE SentInv'
  <2>1. ASSUME NEW c \in Cards, NEW t \in {"drafting", "consulting"}, ReadCard(r, c, t)
        PROVE  SentInv'
    <3>1. Keeps(r) /\ req'[r].at = "setState" /\ req'[r].card = c
      BY Starts, <2>1
    <3> QED BY <3>1, <2>1 DEF ReadCard
  <2>2. CASE SetState(r)
    <3>1. /\ Keeps(r) /\ req[r].at = "setState" /\ req'[r].at = "calling"
          /\ req'[r].draft = req[r].draft /\ req'[r].body = req[r].body
      BY Moves, <2>2 DEF SetState
    <3> QED BY <3>1, <2>2 DEF SetState
  <2>3. ASSUME NEW d \in Drafts, NEW b \in Bodies, StoreDraft(r, d, b)
        PROVE  SentInv'
    <3>1. Keeps(r) /\ req'[r].at = "idle"
      BY Ends, <2>3 DEF StoreDraft
    <3> QED BY <3>1, <2>3 DEF StoreDraft
  <2>4. CASE ConsultAnswered(r)
    <3>1. Keeps(r) /\ req'[r].at = "idle"
      BY Ends, <2>4 DEF ConsultAnswered
    <3> QED BY <3>1, <2>4 DEF ConsultAnswered
  <2>5. CASE CallFails(r)
    <3>1. /\ Keeps(r) /\ req[r].at = "calling" /\ req'[r].at = "revert"
          /\ req'[r].draft = req[r].draft /\ req'[r].body = req[r].body
      BY Moves, <2>5 DEF CallFails
    <3> QED BY <3>1, <2>5 DEF CallFails
  <2>6. CASE Revert(r)
    <3>1. Keeps(r) /\ req'[r].at = "idle"
      BY Ends, <2>6 DEF Revert
    <3> QED BY <3>1, <2>6 DEF Revert
  <2> QED BY <1>1, <2>1, <2>2, <2>3, <2>4, <2>5, <2>6 DEF Decide
<1>2. ASSUME NEW r \in Reqs, Approve(r) PROVE SentInv'
  <2>1. ASSUME NEW d \in Drafts, ApproveBegin(r, d) PROVE SentInv'
    <3>1. Keeps(r) /\ req'[r].at = "lockDraft" /\ req'[r].draft = d
      BY Starts, <2>1
    <3> QED BY <3>1, <2>1 DEF ApproveBegin
  <2>2. CASE ApproveLockDraft(r)
    <3>1. /\ Keeps(r) /\ req[r].at = "lockDraft" /\ req'[r].at = "fetch"
          /\ req'[r].draft = req[r].draft /\ req'[r].body = req[r].body
      BY Moves, <2>2 DEF ApproveLockDraft
    <3> QED BY <3>1, <2>2 DEF ApproveLockDraft
  <2>3. CASE ApproveFetch(r)
    <3>1. /\ Keeps(r) /\ req[r].at = "fetch" /\ req'[r].at = "lockCard"
             /\ req'[r].draft = req[r].draft
             /\ req'[r].body = drafts[req[r].draft].body
      BY Starts, <2>3
    <3> QED BY <3>1, <2>3 DEF ApproveFetch
  <2>4. CASE ApproveLockCard(r)
    <3>1. /\ Keeps(r) /\ req[r].at = "lockCard" /\ req'[r].at = "publish"
          /\ req'[r].draft = req[r].draft /\ req'[r].body = req[r].body
      BY Moves, <2>4 DEF ApproveLockCard
    <3> QED BY <3>1, <2>4 DEF ApproveLockCard
  <2>5. CASE ApprovePublish(r)
    <3>1. /\ Keeps(r) /\ req[r].at = "publish" /\ req'[r].at = "log"
          /\ req'[r].draft = req[r].draft /\ req'[r].body = req[r].body
      BY Moves, <2>5 DEF ApprovePublish
    <3> QED BY <3>1, <2>5 DEF ApprovePublish
  <2>6. CASE ApproveLog(r)
    <3>1. /\ Keeps(r) /\ req[r].at = "log" /\ req'[r].at = "commit"
          /\ req'[r].draft = req[r].draft /\ req'[r].body = req[r].body
      BY Moves, <2>6 DEF ApproveLog
    <3> QED BY <3>1, <2>6 DEF ApproveLog
  <2>7. CASE ApproveCommit(r)
    <3>1. Keeps(r) /\ req'[r].at = "idle"
      BY Ends, <2>7 DEF ApproveCommit
    <3> QED BY <3>1, <2>7 DEF ApproveCommit
  <2> QED BY <1>2, <2>1, <2>2, <2>3, <2>4, <2>5, <2>6, <2>7 DEF Approve
<1>3. ASSUME NEW r \in Reqs, ExecuteSend(r) PROVE SentInv'
  <2>1. ASSUME NEW d \in Drafts, SendCheck(r, d) PROVE SentInv'
    <3>1. /\ Keeps(r) /\ req'[r].at = "mesh" /\ req'[r].draft = d
             /\ req'[r].body = drafts[d].body
      BY Starts, <2>1
    <3> QED BY <3>1, <2>1 DEF SendCheck
  <2>2. CASE MeshSends(r)
    <3>1. /\ Keeps(r) /\ req[r].at = "mesh" /\ req'[r].at = "sentBegin"
          /\ req'[r].draft = req[r].draft /\ req'[r].body = req[r].body
      BY Moves, <2>2 DEF MeshSends
    <3>2. req[r].draft \in Drafts /\ req[r].body \in Bodies
      BY <3>1 DEF ReqInv, OnDraft, PastFetch
    <3>3. \A d \in Drafts, b \in Bodies : outbox'[d][b] >= outbox[d][b]
      BY <3>2, <2>2 DEF MeshSends
    <3>4. outbox'[req[r].draft][req[r].body] > 0
      BY <3>2, <2>2 DEF MeshSends
    <3>5. \A d \in Drafts, b \in Bodies : outbox[d][b] > 0 => outbox'[d][b] > 0
      BY <3>2, <3>3, <2>2 DEF MeshSends
    <3>6. \A q \in Reqs : req'[q].at \in {"sentBegin"} \cup SentSteps =>
            q = r \/ (req'[q] = req[q] /\ req[q].draft \in Drafts)
      BY <3>1 DEF ReqInv, OnDraft, TxSteps
    <3>7. UNCHANGED drafts
      BY <2>2 DEF MeshSends
    <3>8. SentWasApprovedAndDelivered'
      BY <3>5, <3>7
    <3>9. \A q \in Reqs : req'[q].at \in {"mesh", "sentBegin"} \cup SentSteps =>
            drafts'[req'[q].draft].approved
      BY <3>1, <3>7
    <3>10. ASSUME NEW q \in Reqs, req'[q].at \in {"sentBegin"} \cup SentSteps
           PROVE  \E b \in Bodies : outbox'[req'[q].draft][b] > 0
      <4>1. CASE q = r
        BY <3>1, <3>2, <3>4, <4>1
      <4>2. CASE q # r
        <5>1. req'[q] = req[q] /\ req[q].draft \in Drafts
          BY <3>6, <3>10, <4>2
        <5>2. \E b \in Bodies : outbox[req[q].draft][b] > 0
          BY <3>10, <5>1
        <5> QED BY <3>5, <5>1, <5>2
      <4> QED BY <4>1, <4>2
    <3> QED BY <3>8, <3>9, <3>10
  <2>3. CASE SentBegin(r)
    <3>1. /\ Keeps(r) /\ req[r].at = "sentBegin" /\ req'[r].at = "sentLockDraft"
          /\ req'[r].draft = req[r].draft /\ req'[r].body = req[r].body
      BY Moves, <2>3 DEF SentBegin
    <3> QED BY <3>1, <2>3 DEF SentBegin
  <2>4. CASE SentLockDraft(r)
    <3>1. /\ Keeps(r) /\ req[r].at = "sentLockDraft" /\ req'[r].at = "sentFetch"
          /\ req'[r].draft = req[r].draft /\ req'[r].body = req[r].body
      BY Moves, <2>4 DEF SentLockDraft
    <3> QED BY <3>1, <2>4 DEF SentLockDraft
  <2>5. CASE SentFetch(r)
    <3>1. /\ Keeps(r) /\ req[r].at = "sentFetch" /\ req'[r].at = "sentLockCard"
          /\ req'[r].draft = req[r].draft /\ req'[r].body = req[r].body
      BY Moves, <2>5 DEF SentFetch
    <3> QED BY <3>1, <2>5 DEF SentFetch
  <2>6. CASE SentCommit(r)
    <3>1. Keeps(r) /\ req'[r].at = "idle"
      BY Ends, <2>6 DEF SentCommit
    <3> QED BY <3>1, <2>6 DEF SentCommit
  <2> QED BY <1>3, <2>1, <2>2, <2>3, <2>4, <2>5, <2>6 DEF ExecuteSend
<1>4. ASSUME NEW r \in Reqs, RequestFails(r) PROVE SentInv'
  <2>1. Keeps(r) /\ req'[r].at = "idle"
      BY Ends, <1>4 DEF RequestFails
  <2> QED BY <2>1, <1>4 DEF RequestFails
<1>5. ASSUME NEW d \in Drafts, NEW b \in Bodies, EditDraft(d, b) PROVE SentInv'
  BY <1>5 DEF EditDraft
<1>6. CASE UNCHANGED vars
  BY <1>6 DEF vars
<1> QED BY <1>1, <1>2, <1>3, <1>4, <1>5, <1>6 DEF Next, Edit

-------------------------------------------------------------------------------
\* Nothing is on its way that was not asked for.
LEMMA AskedStep == TypeOK /\ ReqInv /\ AskedInv /\ [Next]_vars => AskedInv'
<1> SUFFICES ASSUME TypeOK, ReqInv, AskedInv, [Next]_vars PROVE AskedInv'
  OBVIOUS
<1> USE RowsTyped DEF AskedInv, Keeps, cvars, history, ApproveSteps, Exists
<1>1. ASSUME NEW r \in Reqs, Decide(r) PROVE AskedInv'
  <2>1. ASSUME NEW c \in Cards, NEW t \in {"drafting", "consulting"}, ReadCard(r, c, t)
        PROVE  AskedInv'
    <3>1. Keeps(r) /\ req'[r].at = "setState" /\ req'[r].card = c
      BY Starts, <2>1
    <3> QED BY <3>1, <2>1 DEF ReadCard
  <2>2. CASE SetState(r)
    <3>1. /\ Keeps(r) /\ req[r].at = "setState" /\ req'[r].at = "calling"
          /\ req'[r].draft = req[r].draft /\ req'[r].body = req[r].body
      BY Moves, <2>2 DEF SetState
    <3> QED BY <3>1, <2>2 DEF SetState
  <2>3. ASSUME NEW d \in Drafts, NEW b \in Bodies, StoreDraft(r, d, b)
        PROVE  AskedInv'
    <3>1. Keeps(r) /\ req'[r].at = "idle"
      BY Ends, <2>3 DEF StoreDraft
    <3> QED BY <3>1, <2>3 DEF StoreDraft
  <2>4. CASE ConsultAnswered(r)
    <3>1. Keeps(r) /\ req'[r].at = "idle"
      BY Ends, <2>4 DEF ConsultAnswered
    <3> QED BY <3>1, <2>4 DEF ConsultAnswered
  <2>5. CASE CallFails(r)
    <3>1. /\ Keeps(r) /\ req[r].at = "calling" /\ req'[r].at = "revert"
          /\ req'[r].draft = req[r].draft /\ req'[r].body = req[r].body
      BY Moves, <2>5 DEF CallFails
    <3> QED BY <3>1, <2>5 DEF CallFails
  <2>6. CASE Revert(r)
    <3>1. Keeps(r) /\ req'[r].at = "idle"
      BY Ends, <2>6 DEF Revert
    <3> QED BY <3>1, <2>6 DEF Revert
  <2> QED BY <1>1, <2>1, <2>2, <2>3, <2>4, <2>5, <2>6 DEF Decide
<1>2. ASSUME NEW r \in Reqs, Approve(r) PROVE AskedInv'
  <2>1. ASSUME NEW d \in Drafts, ApproveBegin(r, d) PROVE AskedInv'
    <3>1. Keeps(r) /\ req'[r].at = "lockDraft" /\ req'[r].draft = d
      BY Starts, <2>1
    <3> QED BY <3>1, <2>1 DEF ApproveBegin
  <2>2. CASE ApproveLockDraft(r)
    <3>1. /\ Keeps(r) /\ req[r].at = "lockDraft" /\ req'[r].at = "fetch"
          /\ req'[r].draft = req[r].draft /\ req'[r].body = req[r].body
      BY Moves, <2>2 DEF ApproveLockDraft
    <3> QED BY <3>1, <2>2 DEF ApproveLockDraft
  <2>3. CASE ApproveFetch(r)
    <3>1. /\ Keeps(r) /\ req[r].at = "fetch" /\ req'[r].at = "lockCard"
          /\ req'[r].draft = req[r].draft
      BY Starts, <2>3
    <3>2. UNCHANGED <<drafts, gate, texts>>
      BY <2>3 DEF ApproveFetch
    <3> QED BY <3>1, <3>2
  <2>4. CASE ApproveLockCard(r)
    <3>1. /\ Keeps(r) /\ req[r].at = "lockCard" /\ req'[r].at = "publish"
          /\ req'[r].draft = req[r].draft /\ req'[r].body = req[r].body
      BY Moves, <2>4 DEF ApproveLockCard
    <3> QED BY <3>1, <2>4 DEF ApproveLockCard
  <2>5. CASE ApprovePublish(r)
    <3>1. /\ Keeps(r) /\ req[r].at = "publish" /\ req'[r].at = "log"
          /\ req'[r].draft = req[r].draft /\ req'[r].body = req[r].body
      BY Moves, <2>5 DEF ApprovePublish
    <3> QED BY <3>1, <2>5 DEF ApprovePublish
  <2>6. CASE ApproveLog(r)
    <3>1. /\ Keeps(r) /\ req[r].at = "log" /\ req'[r].at = "commit"
          /\ req'[r].draft = req[r].draft /\ req'[r].body = req[r].body
      BY Moves, <2>6 DEF ApproveLog
    <3> QED BY <3>1, <2>6 DEF ApproveLog
  <2>7. CASE ApproveCommit(r)
    <3>1. Keeps(r) /\ req'[r].at = "idle"
      BY Ends, <2>7 DEF ApproveCommit
    <3> QED BY <3>1, <2>7 DEF ApproveCommit
  <2> QED BY <1>2, <2>1, <2>2, <2>3, <2>4, <2>5, <2>6, <2>7 DEF Approve
<1>3. ASSUME NEW r \in Reqs, ExecuteSend(r) PROVE AskedInv'
  <2>1. ASSUME NEW d \in Drafts, SendCheck(r, d) PROVE AskedInv'
    <3>1. /\ Keeps(r) /\ req'[r].at = "mesh" /\ req'[r].draft = d
             /\ req'[r].body = drafts[d].body
      BY Starts, <2>1
    <3> QED BY <3>1, <2>1 DEF SendCheck
  <2>2. CASE MeshSends(r)
    <3>1. /\ Keeps(r) /\ req[r].at = "mesh" /\ req'[r].at = "sentBegin"
          /\ req'[r].draft = req[r].draft /\ req'[r].body = req[r].body
      BY Moves, <2>2 DEF MeshSends
    <3> QED BY <3>1, <2>2 DEF MeshSends
  <2>3. CASE SentBegin(r)
    <3>1. /\ Keeps(r) /\ req[r].at = "sentBegin" /\ req'[r].at = "sentLockDraft"
          /\ req'[r].draft = req[r].draft /\ req'[r].body = req[r].body
      BY Moves, <2>3 DEF SentBegin
    <3> QED BY <3>1, <2>3 DEF SentBegin
  <2>4. CASE SentLockDraft(r)
    <3>1. /\ Keeps(r) /\ req[r].at = "sentLockDraft" /\ req'[r].at = "sentFetch"
          /\ req'[r].draft = req[r].draft /\ req'[r].body = req[r].body
      BY Moves, <2>4 DEF SentLockDraft
    <3> QED BY <3>1, <2>4 DEF SentLockDraft
  <2>5. CASE SentFetch(r)
    <3>1. /\ Keeps(r) /\ req[r].at = "sentFetch" /\ req'[r].at = "sentLockCard"
          /\ req'[r].draft = req[r].draft /\ req'[r].body = req[r].body
      BY Moves, <2>5 DEF SentFetch
    <3> QED BY <3>1, <2>5 DEF SentFetch
  <2>6. CASE SentCommit(r)
    <3>1. Keeps(r) /\ req'[r].at = "idle"
      BY Ends, <2>6 DEF SentCommit
    <3> QED BY <3>1, <2>6 DEF SentCommit
  <2> QED BY <1>3, <2>1, <2>2, <2>3, <2>4, <2>5, <2>6 DEF ExecuteSend
<1>4. ASSUME NEW r \in Reqs, RequestFails(r) PROVE AskedInv'
  <2>1. Keeps(r) /\ req'[r].at = "idle"
      BY Ends, <1>4 DEF RequestFails
  <2> QED BY <2>1, <1>4 DEF RequestFails
<1>5. ASSUME NEW d \in Drafts, NEW b \in Bodies, EditDraft(d, b) PROVE AskedInv'
  BY <1>5 DEF EditDraft
<1>6. CASE UNCHANGED vars
  BY <1>6 DEF vars
<1> QED BY <1>1, <1>2, <1>3, <1>4, <1>5, <1>6 DEF Next, Edit

-------------------------------------------------------------------------------
LEMMA InitInv == Init => IInv
<1> SUFFICES ASSUME Init PROVE IInv
  OBVIOUS
<1>1. TypeOK
  <2>2. drafts \in [Drafts -> DraftRow]
    BY DEF Init, DraftRow
  <2>3. cardState \in [Cards -> CardStates] /\ stream \in Seq(Job)
    BY DEF Init, CardStates
  <2>4. req \in [Reqs -> Request]
    BY RequestTypes DEF Init
  <2> QED BY <2>2, <2>3, <2>4 DEF Init, TypeOK
<1>2. /\ \A r \in Reqs : req[r].at = "idle"
      /\ \A d \in Drafts : ~drafts[d].approved /\ ~drafts[d].sent /\ ~Exists(d)
  BY DEF Init, Idle, Exists
<1>3. ReqInv /\ LockInv /\ QueueInv
  BY <1>2 DEF Init, ReqInv, LockInv, LocksOwned, QueueInv, OnDraft, PastFetch,
              DraftingSteps, HoldsDraft, TxSteps, ApproveSteps, SentSteps
<1>4. ApproveInv /\ SentInv /\ AskedInv
  BY <1>2 DEF Init, ApproveInv, SentInv, AskedInv, SentWasApprovedAndDelivered,
              PastCheck, PastFetch, ApproveSteps, SentSteps
<1> QED BY <1>1, <1>3, <1>4 DEF IInv

\* Every step of the decision API preserves the invariant.
LEMMA NextInv == IInv /\ [Next]_vars => IInv'
BY TypeStep, ReqStep, LockStep, ApproveStep, QueueStep, SentStep, AskedStep DEF IInv

\* The strengthened invariant holds of every behaviour of the decision API.
THEOREM Invariance == Spec => []IInv
<1> QED BY NextInv, InitInv, PTL DEF Spec

-------------------------------------------------------------------------------
\* Type correctness.
THEOREM TypeCorrect == Spec => []TypeOK
<1>1. IInv => TypeOK
  BY DEF IInv
<1> QED BY <1>1, Invariance, PTL

\* Every locked row is locked by the transaction of a request that is still
\* running on it: no path through Approve or OnSendComplete leaks a lock.
THEOREM LocksAreOwned == Spec => []LocksOwned
<1>1. IInv => LocksOwned
  BY DEF IInv, LockInv
<1> QED BY <1>1, Invariance, PTL

\* However many requests race, a draft's approval commits at most once
\* (store.go:286-308).
THEOREM ApprovalIsUnique == Spec => []ApprovedAtMostOnce
<1>1. IInv => ApprovedAtMostOnce
  BY DEF IInv, ApproveInv, ApprovedAtMostOnce
<1> QED BY <1>1, Invariance, PTL

\* No draft is recorded as sent without an approval and a delivery
\* (approval.go:203-227).
THEOREM SentIsJustified == Spec => []SentWasApprovedAndDelivered
<1>1. IInv => SentWasApprovedAndDelivered
  BY DEF IInv, SentInv
<1> QED BY <1>1, Invariance, PTL

\* Only ApproveCommit approves a draft.
LEMMA OnlyCommitApproves ==
  ASSUME TypeOK, ReqInv, [Next]_vars, NEW d \in Drafts,
         ~drafts[d].approved, drafts'[d].approved
  PROVE  \E r \in Reqs : ApproveCommit(r) /\ req[r].draft = d
<1>1. drafts \in [Drafts -> DraftRow]
  BY RowsTyped
<1>2. drafts' # drafts
  OBVIOUS
<1>3. ASSUME NEW e \in Drafts, NEW b \in Bodies, drafts' = [drafts EXCEPT ![e].body = b]
      PROVE  FALSE
  BY <1>1, <1>3 DEF DraftRow
<1>4. ASSUME NEW r \in Reqs, SentCommit(r) PROVE FALSE
  <2>1. drafts' = [drafts EXCEPT ![req[r].draft].sent = TRUE]
    BY <1>4 DEF SentCommit
  <2> QED BY <1>1, <2>1 DEF DraftRow
<1>5. \E r \in Reqs : ApproveCommit(r)
  BY <1>2, <1>3, <1>4
  DEF Next, vars, cvars, Edit, Decide, Approve, ExecuteSend, EditDraft, StoreDraft,
      ReadCard, SetState, ConsultAnswered, CallFails, Revert, ApproveBegin,
      ApproveLockDraft, ApproveFetch, ApproveLockCard, ApprovePublish, ApproveLog,
      SendCheck, MeshSends, SentBegin, SentLockDraft, SentFetch, RequestFails
<1>6. PICK r \in Reqs : ApproveCommit(r)
  BY <1>5
<1>7. drafts' = [drafts EXCEPT ![req[r].draft].approved = TRUE]
  BY <1>6 DEF ApproveCommit
<1>8. req[r].draft = d
  BY <1>1, <1>7
<1> QED BY <1>6, <1>8

\* A draft becomes approved only when the stream holds a job with the text it
\* has at that moment (approval.go:71-128), whatever edits raced with it.
THEOREM ApprovalQueuesTheText == Spec => ApprovedTextIsQueued
<1> DEFINE Queued(d) ==
      \E i \in DOMAIN stream : stream[i] = [draft |-> d, body |-> drafts'[d].body]
<1>1. ASSUME IInv, [Next]_vars, NEW d \in Drafts, ~drafts[d].approved, drafts'[d].approved
      PROVE  Queued(d)
  <2>1. PICK r \in Reqs : ApproveCommit(r) /\ req[r].draft = d
    BY <1>1, OnlyCommitApproves DEF IInv
  <2>2. req[r].at = "commit"
    BY <2>1 DEF ApproveCommit
  <2>3. \E i \in DOMAIN stream : stream[i] = [draft |-> d, body |-> drafts[d].body]
    BY <1>1, <2>1, <2>2 DEF IInv, QueueInv, ApproveInv, PastFetch
  <2>4. drafts'[d].body = drafts[d].body
    BY <1>1, <2>1, RowsTyped DEF ApproveCommit, IInv, DraftRow
  <2> QED BY <2>3, <2>4
<1>2. IInv /\ [Next]_vars =>
        [\A d \in Drafts : (~drafts[d].approved /\ drafts'[d].approved) => Queued(d)]_vars
  BY <1>1
<1> QED BY <1>2, Invariance, PTL DEF Spec, ApprovedTextIsQueued

-------------------------------------------------------------------------------
(* The decision API implements HumanGate. *)

LEMMA GateStart == Init => HG!GateInit
BY DEF Init, HG!GateInit

\* Every step is a write, a request to send, a delivery that both allow, or
\* invisible to HumanGate.
LEMMA GateStep == IInv /\ [Next]_vars => [HG!GateNext]_HG!gvars
<1> SUFFICES ASSUME IInv, [Next]_vars PROVE [HG!GateNext]_HG!gvars
  OBVIOUS
<1> USE DEF HG!GateNext, HG!gvars
<1>1. ASSUME NEW d \in Drafts, NEW b \in Bodies, texts' = [texts EXCEPT ![d] = @ \cup {b}],
             UNCHANGED <<gate, outbox>>
      PROVE  HG!GateNext
  BY <1>1 DEF HG!Write
<1>2. ASSUME NEW r \in Reqs, NEW d \in Drafts, ApproveBegin(r, d)
      PROVE  HG!GateNext
  BY <1>2 DEF ApproveBegin, HG!Ask
<1>3. ASSUME NEW r \in Reqs, MeshSends(r) PROVE HG!GateNext
  <2>1. req[r].draft \in Drafts /\ req[r].body \in Bodies
    BY <1>3 DEF MeshSends, Goto, IInv, ReqInv, OnDraft, PastFetch
  <2>2. req[r].draft \in gate
    BY <1>3, <2>1 DEF MeshSends, Goto, IInv, SentInv, AskedInv
  <2>3. req[r].body \in texts[req[r].draft]
    BY <1>3 DEF MeshSends, Goto, IInv, AskedInv
  <2>4. HG!Deliver(req[r].draft, req[r].body)
    BY <1>3, <2>2, <2>3 DEF MeshSends, history, HG!Deliver
  <2> QED BY <2>1, <2>4
<1>4. ASSUME NEW r \in Reqs, NEW d \in Drafts, NEW b \in Bodies, StoreDraft(r, d, b)
      PROVE  HG!GateNext
  BY <1>1, <1>4 DEF StoreDraft
<1>5. ASSUME NEW d \in Drafts, NEW b \in Bodies, EditDraft(d, b) PROVE HG!GateNext
  BY <1>1, <1>5 DEF EditDraft
<1>6. CASE UNCHANGED <<texts, gate, outbox>>
  BY <1>6
<1> QED
  BY <1>2, <1>3, <1>4, <1>5, <1>6
  DEF Next, vars, history, Edit, Decide, Approve, ExecuteSend, ReadCard, SetState,
      ConsultAnswered, CallFails, Revert, ApproveLockDraft, ApproveFetch,
      ApproveLockCard, ApprovePublish, ApproveLog, ApproveCommit, SendCheck, SentBegin,
      SentLockDraft, SentFetch, SentCommit, RequestFails

\* No mail leaves through the decision API before the user has asked for the
\* draft to be sent, and only the draft's own texts leave (README.md:93).
THEOREM ImplementsHumanGate == Spec => RefinesHumanGate
<1> QED BY GateStart, GateStep, Invariance, PTL DEF Spec, RefinesHumanGate, HG!GateSpec

\* Locks are owned and approval is given once, for any cards, drafts and
\* requests (approval.go:40-130).
THEOREM ApprovalIsSound == Spec => []ApprovalInv
<1>1. TypeOK /\ LocksOwned /\ ApprovedAtMostOnce => ApprovalInv
  BY DEF ApprovalInv
<1> QED BY <1>1, TypeCorrect, LocksAreOwned, ApprovalIsUnique, PTL
===============================================================================
