------------------------------ MODULE MCDevices ------------------------------
(* What a device relies on: the keys its access tokens are signed with, its  *)
(* session, the merge of the decisions it took offline, and notifications.   *)
(* These parts share no variable: in a behaviour one of them moves and the   *)
(* others stay in their initial state, so TLC explores the sum of their      *)
(* state spaces and not the product.  An action is fair if its part is the   *)
(* one that moves.                                                           *)
EXTENDS KeyRotation, DeviceSessions, OfflineMerge, NotifyDispatch

VARIABLE part   \* the part that moves

devices == <<part, kvars, dvars, mergeVars, notifyVars>>

FirstKey == CHOOSE k \in Keys : TRUE
Init ==
  /\ part \in {"keys", "sessions", "merge", "notify"}
  /\ KeyInit /\ currentID = FirstKey
  /\ SessionInit /\ MergeInit /\ NotifyInit

KeysMove == part = "keys" /\ UNCHANGED <<part, dvars, mergeVars, notifyVars>>
SessionsMove == part = "sessions" /\ UNCHANGED <<part, kvars, mergeVars, notifyVars>>
MergeMoves == part = "merge" /\ UNCHANGED <<part, kvars, dvars, notifyVars>>
NotifyMoves == part = "notify" /\ UNCHANGED <<part, kvars, dvars, mergeVars>>

Next ==
  \/ KeysMove /\ KeyNext
  \/ SessionsMove /\ SessionNext
  \/ MergeMoves /\ MergeNext
  \/ NotifyMoves /\ NotifyNext

Fairness ==
  /\ KeyFairness   \* enabled only after a rotation
  /\ \A r \in Sync : WF_devices(MergeMoves /\ SyncStep(r))
  /\ \A d \in Device : WF_devices(MergeMoves /\ \E r \in Sync : StartSync(r, d))
  /\ \A j \in Dispatcher : WF_devices(NotifyMoves /\ Working(j))
  /\ \A n \in Notice : /\ WF_devices(NotifyMoves /\ \E j \in Dispatcher : ProcessDeferred(j, n))
                       /\ WF_devices(NotifyMoves /\ ResumeTime(n))

Spec == Init /\ [][Next]_devices /\ Fairness
==============================================================================
