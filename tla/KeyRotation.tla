----------------------------- MODULE KeyRotation -----------------------------
(***************************************************************************)
(* Rotation of the key that signs the admin tokens of the sync service     *)
(* (sync/internal/auth/rotation.go with MultiKeyValidator of tokens.go,    *)
(* started by sync/cmd/server/bootstrap.go).                               *)
(*                                                                         *)
(* Every operation runs under kr.mu, so each is one step.  The timer's     *)
(* callback waits for the same mutex: it may run long after it has fired.  *)
(* Secrets Manager is external: writing it may fail, and so may reading.   *)
(***************************************************************************)
EXTENDS Naturals, FiniteSets

CONSTANTS
  Keys,         \* signing keys that can be generated
  NoKey,        \* the empty key id
  MaxRestarts   \* bound: restarts of the process

ASSUME NoKeyAssumption == NoKey \notin Keys
ASSUME RestartAssumption == MaxRestarts \in Nat

VARIABLES
  keys,         \* validator.keys
  currentID,    \* validator.currentID
  previousID,   \* validator.previousID
  grace,        \* gracePeriodActive, and whether gracePeriodEnd has passed
  record,       \* kr.record
  secret,       \* the record Secrets Manager holds; none before the first write
  timer,        \* rotationTimer is set and has not fired
  fired,        \* callbacks that have fired and wait for kr.mu
  used,         \* keys generated so far
  restarts

kvars == <<keys, currentID, previousID, grace, record, secret, timer, fired, used, restarts>>
memory == <<keys, currentID, previousID, grace, timer, fired>>

Record == [current : Keys, previous : Keys \cup {NoKey}, state : {"idle", "grace_period"}]
NoRecord == [current |-> NoKey, previous |-> NoKey, state |-> "idle"]
Idle(k) == [current |-> k, previous |-> NoKey, state |-> "idle"]

KeyTypeOK ==
  /\ keys \in SUBSET Keys
  /\ currentID \in Keys
  /\ previousID \in Keys \cup {NoKey}
  /\ grace \in {"off", "on", "over"}
  /\ record \in Record
  /\ secret \in Record \cup {NoRecord}
  /\ timer \in BOOLEAN
  /\ fired \in Nat
  /\ used \in SUBSET Keys
  /\ restarts \in 0..MaxRestarts

(* Validate: the key is looked up by its id, and a token of the previous   *)
(* key is turned away once the grace period is over.                       *)
Accepts(k) == k \in keys /\ ~(grace = "over" /\ k = previousID)

(* NewKeyRotator, and InitializeAuth when nothing can be loaded: the key   *)
(* that is generated is not written to Secrets Manager.                    *)
FreshKey(k) ==
  /\ keys' = {k} /\ currentID' = k /\ previousID' = NoKey /\ grace' = "off"
  /\ record' = Idle(k)
  /\ used' = used \cup {k}

KeyInit ==
  \E k \in Keys :
    /\ keys = {k} /\ currentID = k /\ previousID = NoKey /\ grace = "off"
    /\ record = Idle(k) /\ secret = NoRecord
    /\ timer = FALSE /\ fired = 0 /\ used = {k} /\ restarts = 0

-----------------------------------------------------------------------------
(* persistRecordLocked: the write may fail; an error may also be the      *)
(* answer to a write that was done.                                        *)
Persist(r) == secret' \in {r, secret}

(* rollbackLocked, given the two keys and the record it finds: the record  *)
(* loses the previous key, but keeps the key that is rolled back as its    *)
(* current one.                                                            *)
RollbackTo(previous, accepted, found) ==
  /\ currentID' = previous /\ previousID' = NoKey /\ grace' = "off"
  /\ keys' = accepted
  /\ timer' = FALSE
  /\ record' = Idle(found)

(* Rotate: the previous key of an unfinished rotation is removed, the      *)
(* current key becomes the previous one.  If the record cannot be written  *)
(* the rotation is rolled back; the removed key does not return.           *)
Rotated(new) == [current |-> new, previous |-> currentID, state |-> "grace_period"]
\* Mutant: the previous key of an unfinished rotation is not removed.
RotateSucceeds_KeepsAll(new) ==
  /\ keys' = keys \cup {new}
  /\ currentID' = new /\ previousID' = currentID /\ grace' = "on"
  /\ record' = Rotated(new) /\ secret' = record' /\ timer' = TRUE
RotateSucceeds(new) ==
  /\ keys' = (keys \ {previousID}) \cup {new}
  /\ currentID' = new /\ previousID' = currentID /\ grace' = "on"
  /\ record' = Rotated(new)
  /\ secret' = record'
  /\ timer' = TRUE
RotateFails(new) ==
  /\ RollbackTo(currentID, keys \ {previousID}, new)
  /\ Persist(record') \/ secret' = Rotated(new)
Rotate ==
  \E new \in Keys \ used :
    /\ used' = used \cup {new}
    /\ RotateSucceeds(new) \/ RotateFails(new)
    /\ UNCHANGED <<fired, restarts>>

Rollback ==
  /\ grace # "off" /\ previousID # NoKey
  /\ RollbackTo(previousID, keys \ {currentID}, record.current)
  /\ Persist(record')
  /\ UNCHANGED <<fired, used, restarts>>

(* completeGracePeriodLocked. *)
EndGrace ==
  IF grace = "off" THEN UNCHANGED <<keys, previousID, grace, record, secret, currentID, timer>>
  ELSE /\ keys' = keys \ {previousID}
       /\ previousID' = NoKey /\ grace' = "off" /\ timer' = FALSE
       /\ record' = Idle(record.current)
       /\ Persist(record')
       /\ UNCHANGED currentID

CompleteGracePeriod == grace # "off" /\ EndGrace /\ UNCHANGED <<fired, used, restarts>>

(* The callback of scheduleCleanupLocked.  It only tests that some grace   *)
(* period is active, not that it is the one it was started for.            *)
Cleanup ==
  /\ fired > 0
  /\ fired' = fired - 1
  /\ EndGrace
  /\ UNCHANGED <<used, restarts>>

(* gracePeriodEnd passes; then the timer fires. *)
GraceRunsOut ==
  /\ grace = "on" /\ grace' = "over"
  /\ UNCHANGED <<keys, currentID, previousID, record, secret, timer, fired, used, restarts>>
TimerFires ==
  /\ timer /\ grace = "over"
  /\ timer' = FALSE /\ fired' = fired + 1
  /\ UNCHANGED <<keys, currentID, previousID, grace, record, secret, used, restarts>>

-----------------------------------------------------------------------------
(* LoadFromSecretManager after a restart.  The grace period in the secret  *)
(* may have run out meanwhile; then it is completed, which writes a fresh  *)
(* record, and the loaded record is put back in memory.                    *)
InGrace == secret.state = "grace_period" /\ secret.previous # NoKey
LoadKeys ==
  /\ keys' = {secret.current} /\ previousID' = NoKey /\ grace' = "off" /\ timer' = FALSE
  /\ UNCHANGED secret
(* Mutant: no cleanup is scheduled after a restart. *)
LoadGrace_NoTimer ==
  /\ keys' = {secret.current, secret.previous} /\ previousID' = secret.previous
  /\ grace' = "on" /\ timer' = FALSE /\ UNCHANGED secret
LoadGrace ==
  /\ keys' = {secret.current, secret.previous} /\ previousID' = secret.previous
  /\ grace' = "on" /\ timer' = TRUE
  /\ UNCHANGED secret
LoadExpired ==
  /\ keys' = {secret.current} /\ previousID' = NoKey /\ grace' = "off" /\ timer' = FALSE
  /\ Persist(Idle(secret.current))
LoadFromSecretManager ==
  /\ secret # NoRecord
  /\ \/ ~InGrace /\ LoadKeys
     \/ InGrace /\ grace # "over" /\ LoadGrace
     \/ InGrace /\ LoadExpired
  /\ currentID' = secret.current
  /\ record' = secret
  /\ UNCHANGED used

(* InitializeAuth: a secret that cannot be read is replaced by a new key.  *)
InitializeAuth ==
  \E k \in Keys \ used :
    FreshKey(k) /\ timer' = FALSE /\ UNCHANGED secret

Restart ==
  /\ restarts < MaxRestarts /\ restarts' = restarts + 1
  /\ fired' = 0
  /\ LoadFromSecretManager \/ InitializeAuth

KeyNext ==
  \/ Rotate \/ Rollback \/ CompleteGracePeriod \/ Cleanup
  \/ GraceRunsOut \/ TimerFires \/ Restart

KeyFairness == WF_kvars(GraceRunsOut) /\ WF_kvars(TimerFires) /\ WF_kvars(Cleanup)
KeySpec == KeyInit /\ [][KeyNext]_kvars /\ KeyFairness

-----------------------------------------------------------------------------
(* The validator holds the current key and, exactly while a rotation is in *)
(* its grace period, the previous one: whatever order rotations, rollbacks,*)
(* late timers, failed writes and restarts come in, no third key stays     *)
(* behind and no key that signs is missing (KeyCount: "1 or 2").           *)
OnlyTwoKeys ==
  /\ keys = IF grace = "off" THEN {currentID} ELSE {currentID, previousID}
  /\ (grace = "off") <=> (previousID = NoKey)
  /\ previousID # currentID

(* The record in memory names the current key or, after a rollback, a key  *)
(* that no token is accepted with: a restart never goes on signing with    *)
(* the previous key of an unfinished rotation.                             *)
RecordNamesCurrent ==
  record.current = currentID \/ record.current \notin keys

(* Tokens signed with the current key stay valid through a rotation, its   *)
(* completion, a late cleanup and the passing of the grace period: only a  *)
(* rollback or a restart can end them.                                     *)
KeepsCurrentTokens ==
  \A k \in Keys :
    k = currentID /\ (Rotate \/ CompleteGracePeriod \/ Cleanup \/ GraceRunsOut) => Accepts(k)'
\* A token of the current key is accepted after each of those steps.
CurrentTokensSurvive == [][KeepsCurrentTokens]_kvars

(* Every previous key is dropped in the end, also if the process restarts  *)
(* in the grace period.                                                    *)
GraceEnds == \A k \in Keys : (previousID = k) ~> (previousID # k)

\* Memory never holds more than the current and the previous key, and the record
\* a restart reads names the current one or a key that is gone.
KeysInv == KeyTypeOK /\ OnlyTwoKeys /\ RecordNamesCurrent

\* A key accepts tokens for as long as it was promised, and no longer.
KeysLive == CurrentTokensSurvive /\ GraceEnds
=============================================================================
