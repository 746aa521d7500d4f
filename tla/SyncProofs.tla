------------------------------- MODULE SyncProofs -------------------------------
(***************************************************************************)
(* Theorems about the parts of the sync service that share no variable:    *)
(* the rotation of keys, the sessions of devices, the dispatch of          *)
(* notifications, the queue of cards and the merge of offline decisions.   *)
(* Each part has its inductive invariant (KInv, SInv, NInv, QInv, MInv) in *)
(* a section of its own.                                                   *)
(***************************************************************************)
EXTENDS KeyRotation, DeviceSessions, CardQueue, NotifyDispatch, OfflineMerge,
        FiniteSetTheorems, TLAPS

-------------------------------------------------------------------------------
(* KeyRotation.  A key is generated once, so one that was rolled back or   *)
(* dropped never returns; and the stored record names two different keys,  *)
(* which a restart will accept tokens with.                                *)

KeyTypes ==
  /\ keys \in SUBSET Keys /\ used \in SUBSET Keys
  /\ currentID \in Keys /\ previousID \in Keys \cup {NoKey}
  /\ grace \in {"off", "on", "over"}
  /\ record \in Record /\ secret \in Record \cup {NoRecord}
  /\ fired \in Nat /\ restarts \in 0 .. MaxRestarts
GeneratedOnce == keys \subseteq used /\ record.current \in used
SecretNamesTwo ==
  secret # NoRecord => /\ secret.current # secret.previous
                       /\ secret.current \in used /\ secret.previous \in used \cup {NoKey}

\* What is known of everything but the flag timer.
KeysAgree == KeyTypes /\ OnlyTwoKeys /\ RecordNamesCurrent /\ GeneratedOnce /\ SecretNamesTwo
KInv == timer \in BOOLEAN /\ KeysAgree

LEMMA KeysInitially == KeyInit => KInv
<1> SUFFICES ASSUME NEW k \in Keys, keys = {k}, currentID = k, previousID = NoKey, grace = "off",
                    record = Idle(k), secret = NoRecord, timer = FALSE, fired = 0, used = {k}, restarts = 0
             PROVE  KInv
  BY DEF KeyInit
<1>1. timer \in BOOLEAN
  OBVIOUS
<1>2. KeysAgree
  BY NoKeyAssumption, RestartAssumption
  DEF KeysAgree, KeyTypes, OnlyTwoKeys, RecordNamesCurrent, GeneratedOnce, SecretNamesTwo, Idle, Record
<1> QED BY <1>1, <1>2 DEF KInv

LEMMA RotateAgrees ==
  ASSUME KeysAgree, NEW new \in Keys \ used, used' = used \cup {new},
         RotateSucceeds(new) \/ RotateFails(new), UNCHANGED <<fired, restarts>>
  PROVE  KeysAgree'
<1> USE NoKeyAssumption DEF KeysAgree, KeyTypes, OnlyTwoKeys, RecordNamesCurrent, GeneratedOnce, SecretNamesTwo, Record
<1>1. CASE RotateSucceeds(new)
  BY <1>1 DEF RotateSucceeds, Rotated
<1>2. CASE RotateFails(new)
  BY <1>2 DEF RotateFails, RollbackTo, Persist, Rotated, Idle
<1> QED BY <1>1, <1>2

LEMMA RollbackAgrees == KeysAgree /\ Rollback => KeysAgree'
BY NoKeyAssumption
DEF KeysAgree, KeyTypes, OnlyTwoKeys, RecordNamesCurrent, GeneratedOnce, SecretNamesTwo, Record, Rollback, RollbackTo,
    Persist, Idle

\* The end of a grace period, whether asked for or by the timer.
LEMMA EndGraceAgrees ==
  ASSUME KeysAgree, EndGrace, fired' \in Nat, UNCHANGED <<used, restarts>>
  PROVE  KeysAgree'
<1> USE NoKeyAssumption DEF KeysAgree, KeyTypes, OnlyTwoKeys, RecordNamesCurrent, GeneratedOnce, SecretNamesTwo, Record
<1>1. CASE grace = "off"
  BY <1>1 DEF EndGrace
<1>2. CASE grace # "off"
  BY <1>2 DEF EndGrace, Persist, Idle
<1> QED BY <1>1, <1>2

LEMMA LoadAgrees ==
  ASSUME KeysAgree, LoadFromSecretManager, fired' = 0, restarts' \in 0 .. MaxRestarts
  PROVE  KeysAgree'
<1> USE NoKeyAssumption DEF KeysAgree, KeyTypes, OnlyTwoKeys, RecordNamesCurrent, GeneratedOnce, SecretNamesTwo, Record
<1>1. secret \in Record /\ secret.current # secret.previous
  BY DEF LoadFromSecretManager
<1>2. CASE ~InGrace /\ LoadKeys
  BY <1>1, <1>2 DEF LoadFromSecretManager, LoadKeys
<1>3. CASE InGrace /\ LoadGrace
  BY <1>1, <1>3 DEF LoadFromSecretManager, LoadGrace, InGrace
<1>4. CASE InGrace /\ LoadExpired
  BY <1>1, <1>4 DEF LoadFromSecretManager, LoadExpired, Persist, Idle
<1> QED BY <1>2, <1>3, <1>4 DEF LoadFromSecretManager

LEMMA RestartAgrees == KeysAgree /\ Restart => KeysAgree'
<1> SUFFICES ASSUME KeysAgree, Restart PROVE KeysAgree'
  OBVIOUS
<1>1. restarts' \in 0 .. MaxRestarts /\ fired' = 0
  BY RestartAssumption DEF Restart, KeysAgree, KeyTypes
<1>2. CASE LoadFromSecretManager
  BY <1>1, <1>2, LoadAgrees
<1>3. ASSUME NEW k \in Keys \ used, FreshKey(k), UNCHANGED secret PROVE KeysAgree'
  BY <1>1, <1>3, NoKeyAssumption
  DEF FreshKey, KeysAgree, KeyTypes, OnlyTwoKeys, RecordNamesCurrent, GeneratedOnce, SecretNamesTwo, Record, Idle
<1> QED BY <1>2, <1>3 DEF Restart, InitializeAuth

\* The timer is set or not, whatever happens.
LEMMA TimerIsFlag == timer \in BOOLEAN /\ [KeyNext]_kvars => timer' \in BOOLEAN
<1> SUFFICES ASSUME timer \in BOOLEAN, [KeyNext]_kvars PROVE timer' \in BOOLEAN
  OBVIOUS
<1>1. timer' = timer \/ timer' = TRUE \/ timer' = FALSE
  BY DEF KeyNext, Rotate, RotateSucceeds, RotateFails, RollbackTo, Rollback, CompleteGracePeriod, Cleanup, EndGrace,
         GraceRunsOut, TimerFires, Restart, LoadFromSecretManager, LoadKeys, LoadGrace, LoadExpired, InitializeAuth, kvars
<1> QED BY <1>1

LEMMA KeysInductive == KInv /\ [KeyNext]_kvars => KInv'
<1> SUFFICES ASSUME KInv, [KeyNext]_kvars PROVE KeysAgree'
  BY TimerIsFlag DEF KInv
<1>0. KeysAgree
  BY DEF KInv
<1>1. CASE Rotate
  BY <1>0, <1>1, RotateAgrees DEF Rotate
<1>2. CASE Rollback
  BY <1>0, <1>2, RollbackAgrees
<1>3. CASE CompleteGracePeriod
  BY <1>0, <1>3, EndGraceAgrees DEF CompleteGracePeriod, KeysAgree, KeyTypes
<1>4. CASE Cleanup
  <2>1. fired' \in Nat
    BY <1>0, <1>4 DEF Cleanup, KeysAgree, KeyTypes
  <2> QED BY <1>0, <1>4, <2>1, EndGraceAgrees DEF Cleanup
<1>5. CASE GraceRunsOut
  BY <1>0, <1>5
  DEF GraceRunsOut, KeysAgree, KeyTypes, OnlyTwoKeys, RecordNamesCurrent, GeneratedOnce, SecretNamesTwo
<1>6. CASE TimerFires
  BY <1>0, <1>6
  DEF TimerFires, KeysAgree, KeyTypes, OnlyTwoKeys, RecordNamesCurrent, GeneratedOnce, SecretNamesTwo
<1>7. CASE Restart
  BY <1>0, <1>7, RestartAgrees
<1>8. CASE UNCHANGED kvars
  BY <1>0, <1>8
  DEF kvars, KeysAgree, KeyTypes, OnlyTwoKeys, RecordNamesCurrent, GeneratedOnce, SecretNamesTwo
<1> QED BY <1>1, <1>2, <1>3, <1>4, <1>5, <1>6, <1>7, <1>8 DEF KeyNext

LEMMA KInvIsSound == KInv => KeysInv
BY DEF KInv, KeysAgree, KeyTypes, KeysInv, KeyTypeOK

\* Whatever order rotations, rollbacks, late timers, failed writes and restarts
\* come in, memory holds the current key and in a grace period the previous one,
\* and the record names the current key or one that is gone: for every number of
\* keys and restarts.
THEOREM KeysAreSound == KeySpec => []KeysInv
<1>1. KeyInit => KInv
  BY KeysInitially
<1>2. KInv /\ [KeyNext]_kvars => KInv'
  BY KeysInductive
<1>3. KInv => KeysInv
  BY KInvIsSound
<1> QED BY <1>1, <1>2, <1>3, PTL DEF KeySpec

LEMMA CurrentStays == KInv /\ [KeyNext]_kvars => [KeepsCurrentTokens]_kvars
<1> SUFFICES ASSUME KInv, NEW k \in Keys, k = currentID, Rotate \/ CompleteGracePeriod \/ Cleanup \/ GraceRunsOut
             PROVE  k \in keys' /\ ~(grace' = "over" /\ k = previousID')
  BY DEF Accepts, KeepsCurrentTokens
<1> USE NoKeyAssumption DEF KInv, KeysAgree, KeyTypes, OnlyTwoKeys
<1>1. CASE Rotate
  BY <1>1 DEF Rotate, RotateSucceeds, RotateFails, RollbackTo
<1>2. CASE EndGrace
  BY <1>2 DEF EndGrace
<1>3. CASE GraceRunsOut
  BY <1>3 DEF GraceRunsOut
<1> QED BY <1>1, <1>2, <1>3 DEF CompleteGracePeriod, Cleanup

\* No rotation, completion or late cleanup of a rotation, and no passing of a
\* grace period, ends the tokens that were signed with the current key.
THEOREM CurrentKeySurvives == KeySpec => CurrentTokensSurvive
<1>1. KeyInit => KInv
  BY KeysInitially
<1>2. KInv /\ [KeyNext]_kvars => KInv'
  BY KeysInductive
<1>3. KInv /\ [KeyNext]_kvars => [KeepsCurrentTokens]_kvars
  BY CurrentStays
<1> QED BY <1>1, <1>2, <1>3, PTL DEF KeySpec, CurrentTokensSurvive

-------------------------------------------------------------------------------
(* DeviceSessions.  Each token is stored for the device it was issued to,  *)
(* so a revocation kills no other device's token; and no stored token is a *)
(* revoked one, because every upsert stores one that is new.               *)

ActiveHasDevice ==
  \A c \in Calls : /\ call[c].at # "idle" => call[c].device \in Devices
                   /\ call[c].at = "register" => call[c].token = None
StoredForOwner == \A d \in Devices : refresh[d] # None => issued[refresh[d]] = d
NoneStoredIsRevoked == \A d \in Devices : refresh[d] \notin revoked
BornBefore == \A c \in Calls : call[c].born \subseteq revoked
CheckedWasAlive ==
  \A c \in Calls : call[c].at \in {"lookup", "store"} => call[c].token \notin call[c].born
SessionIsSeen ==
  \A c \in Calls :
    /\ call[c].at # "idle" /\ session[call[c].device] = TRUE => call[c].seen = TRUE
    /\ call[c].at = "store" => call[c].seen = TRUE

SInv == /\ SessionTypeOK /\ ActiveHasDevice /\ StoredForOwner /\ NoneStoredIsRevoked
        /\ BornBefore /\ CheckedWasAlive /\ SessionIsSeen

LEMMA SessionsInitially == SessionInit => SInv
BY NoneAssumption, TokenBoundAssumption
DEF SessionInit, SInv, SessionTypeOK, Call, NoCall, ActiveHasDevice, StoredForOwner, NoneStoredIsRevoked, BornBefore,
    CheckedWasAlive, SessionIsSeen

\* One call changes, the others stay.
LEMMA OneCall ==
  ASSUME SInv, NEW c \in Calls, NEW w \in Call, call' = [call EXCEPT ![c] = w]
  PROVE  call' \in [Calls -> Call] /\ call'[c] = w /\ \A e \in Calls : e # c => call'[e] = call[e]
BY DEF SInv, SessionTypeOK

\* A call begins.
LEMMA BeginPreserves ==
  ASSUME SInv, NEW c \in Calls, NEW d \in Devices, NEW at \in {"register", "check", "revoke"},
         NEW t \in Tokens \cup {None}, at = "register" => t = None, Begin(c, at, d, t)
  PROVE  SInv'
<1> DEFINE w == [at |-> at, device |-> d, token |-> t, born |-> revoked, seen |-> session[d]]
<1>0. session[d] \in BOOLEAN /\ revoked \in SUBSET Tokens
  BY TokenBoundAssumption DEF SInv, SessionTypeOK, Tokens
<1>1. w \in Call
  BY <1>0 DEF Call
<1>2. call' \in [Calls -> Call] /\ call'[c] = w /\ \A e \in Calls : e # c => call'[e] = call[e]
  BY <1>1, OneCall DEF Begin
<1> QED BY <1>1, <1>2
  DEF Begin, SInv, SessionTypeOK, ActiveHasDevice, StoredForOwner, NoneStoredIsRevoked, BornBefore,
      CheckedWasAlive, SessionIsSeen

\* A token that is none of the tokens issued was never revoked.
LEMMA NoneIsNotBorn == SInv => \A c \in Calls : None \notin call[c].born /\ call[c] \in Call
BY NoneAssumption DEF SInv, SessionTypeOK, BornBefore

LEMMA RegisterPreserves ==
  ASSUME SInv, NEW c \in Calls, Register(c)
  PROVE  SInv'
<1> DEFINE d == call[c].device
<1>1. /\ d \in Devices /\ call[c].token = None /\ call[c] \in Call
      /\ session' = [session EXCEPT ![d] = TRUE] /\ UNCHANGED <<refresh, issued, revoked>>
  BY DEF Register, SInv, ActiveHasDevice, SessionTypeOK
<1>2. \A e \in Calls : call[e] \in Call
  BY DEF SInv, SessionTypeOK
<1>3. /\ Witness(c, d) \in [Calls -> Call] /\ Witness(c, d)[c] = call[c]
      /\ \A e \in Calls : e # c /\ call[e].at # "idle" /\ call[e].device = d =>
           Witness(c, d)[e] = [call[e] EXCEPT !.seen = TRUE]
      /\ \A e \in Calls : e # c /\ ~(call[e].at # "idle" /\ call[e].device = d) => Witness(c, d)[e] = call[e]
  BY <1>2 DEF Witness, Call
<1>4. /\ call' \in [Calls -> Call] /\ call'[c] = [call[c] EXCEPT !.at = "store", !.seen = TRUE]
      /\ \A e \in Calls : e # c /\ call[e].at # "idle" /\ call[e].device = d => call'[e] = [call[e] EXCEPT !.seen = TRUE]
      /\ \A e \in Calls : e # c /\ ~(call[e].at # "idle" /\ call[e].device = d) => call'[e] = call[e]
  BY <1>1, <1>3 DEF Register, Call
<1> HIDE DEF d
<1>5. ASSUME NEW e \in Calls
      PROVE  /\ call'[e].device = call[e].device /\ call'[e].token = call[e].token /\ call'[e].born = call[e].born
             /\ e # c => call'[e].at = call[e].at
             /\ call'[e].seen = TRUE \/ (call'[e].seen = call[e].seen /\ ~(call[e].at # "idle" /\ call[e].device = d))
  <2>0. call[e] = [at |-> call[e].at, device |-> call[e].device, token |-> call[e].token,
                   born |-> call[e].born, seen |-> call[e].seen]
    BY <1>2 DEF Call
  <2>1. CASE e = c
    BY <1>4, <2>0, <2>1
  <2>2. CASE e # c /\ call[e].at # "idle" /\ call[e].device = d
    <3>1. call'[e] = [call[e] EXCEPT !.seen = TRUE]
      BY <1>4, <2>2
    <3> QED BY <2>0, <2>2, <3>1
  <2>3. CASE e # c /\ ~(call[e].at # "idle" /\ call[e].device = d)
    BY <1>4, <2>3
  <2> QED BY <2>1, <2>2, <2>3
<1>6. call'[c].at = "store" /\ call'[c].seen = TRUE
  BY <1>1, <1>4 DEF Call
<1>8. CheckedWasAlive'
  BY <1>1, <1>5, <1>6, NoneIsNotBorn DEF CheckedWasAlive, SInv
<1>9. SessionIsSeen'
  <2> SUFFICES ASSUME NEW e \in Calls, call'[e].seen # TRUE
               PROVE  ~(call'[e].at # "idle" /\ session'[call'[e].device] = TRUE) /\ call'[e].at # "store"
    BY DEF SessionIsSeen
  <2>1. e # c /\ call'[e].at = call[e].at /\ call[e].seen # TRUE /\ ~(call[e].at # "idle" /\ call[e].device = d)
    BY <1>5, <1>6
  <2>2. call[e].at # "idle" => session'[call[e].device] = session[call[e].device]
    BY <1>1, <2>1 DEF SInv, ActiveHasDevice, SessionTypeOK
  <2> QED BY <1>5, <2>1, <2>2 DEF SInv, SessionIsSeen
<1>10. SessionTypeOK'
  BY <1>1, <1>4 DEF SInv, SessionTypeOK
<1>11. ActiveHasDevice' /\ StoredForOwner' /\ NoneStoredIsRevoked' /\ BornBefore'
  BY <1>1, <1>5, <1>6 DEF SInv, ActiveHasDevice, StoredForOwner, NoneStoredIsRevoked, BornBefore, d
<1> QED BY <1>8, <1>9, <1>10, <1>11 DEF SInv

LEMMA StorePreserves ==
  ASSUME SInv, NEW c \in Calls, StoreRefreshToken(c)
  PROVE  SInv'
<1> DEFINE d == call[c].device
           t == Len(issued) + 1
<1>1. /\ d \in Devices /\ issued' = Append(issued, d) /\ t \in Tokens
      /\ refresh' = [refresh EXCEPT ![d] = t] /\ UNCHANGED <<session, revoked>>
      /\ issued' \in Seq(Devices) /\ Len(issued') = t /\ DOMAIN issued' = DOMAIN issued \cup {t}
      /\ t \notin DOMAIN issued /\ issued'[t] = d /\ \A k \in DOMAIN issued : issued'[k] = issued[k]
  BY TokenBoundAssumption
  DEF StoreRefreshToken, GenerateRefreshToken, SInv, ActiveHasDevice, SessionTypeOK, Tokens
<1>2. NoCall \in Call
  BY DEF NoCall, Call
<1>3. call' \in [Calls -> Call] /\ call'[c] = NoCall /\ \A e \in Calls : e # c => call'[e] = call[e]
  BY <1>2, OneCall DEF StoreRefreshToken, Respond
<1> HIDE DEF d, t
<1>4. SessionTypeOK'
  BY <1>1, <1>3 DEF SInv, SessionTypeOK, Tokens
<1>5. StoredForOwner'
  BY <1>1 DEF SInv, SessionTypeOK, StoredForOwner
<1>6. NoneStoredIsRevoked'
  BY <1>1 DEF SInv, SessionTypeOK, NoneStoredIsRevoked
<1>7. ActiveHasDevice' /\ BornBefore' /\ CheckedWasAlive' /\ SessionIsSeen'
  BY <1>1, <1>3 DEF SInv, ActiveHasDevice, BornBefore, CheckedWasAlive, SessionIsSeen, NoCall
<1> QED BY <1>4, <1>5, <1>6, <1>7 DEF SInv

LEMMA LookupsPreserve ==
  ASSUME SInv, NEW c \in Calls, GetRefreshToken(c) \/ GetByDeviceID(c) \/ GiveUp(c)
  PROVE  SInv'
<1> USE DEF SInv, SessionTypeOK, ActiveHasDevice, StoredForOwner, NoneStoredIsRevoked, BornBefore,
            CheckedWasAlive, SessionIsSeen
<1>1. UNCHANGED <<session, refresh, issued, revoked>> /\ call[c] \in Call
  BY DEF GetRefreshToken, GetByDeviceID, GiveUp
<1>2. CASE Respond(c)
  <2>1. NoCall \in Call
    BY DEF NoCall, Call
  <2>2. call' \in [Calls -> Call] /\ call'[c] = NoCall /\ \A e \in Calls : e # c => call'[e] = call[e]
    BY <1>2, <2>1, OneCall DEF Respond
  <2> QED BY <1>1, <2>2 DEF NoCall
<1>3. ASSUME NEW at \in {"lookup", "store"}, Move(c, at), call[c].at # "idle",
             call[c].token \notin call[c].born, at = "store" => call[c].seen = TRUE
      PROVE  SInv'
  <2> DEFINE w == [call[c] EXCEPT !.at = at]
  <2>1. /\ w \in Call /\ w.at = at /\ w.device = call[c].device /\ w.token = call[c].token
        /\ w.born = call[c].born /\ w.seen = call[c].seen
    BY <1>1 DEF Call
  <2>2. call' \in [Calls -> Call] /\ call'[c] = w /\ \A e \in Calls : e # c => call'[e] = call[e]
    BY <1>3, <2>1, OneCall DEF Move
  <2> HIDE DEF w
  <2> QED BY <1>1, <1>3, <2>1, <2>2
<1>4. CASE GetRefreshToken(c)
  BY <1>2, <1>3, <1>4 DEF GetRefreshToken
<1>5. CASE GetByDeviceID(c)
  BY <1>2, <1>3, <1>5 DEF GetByDeviceID
<1> QED BY <1>2, <1>4, <1>5 DEF GiveUp

LEMMA RevokePreserves ==
  ASSUME SInv, NEW c \in Calls, DeleteDeviceSession(c)
  PROVE  SInv'
BY NoneAssumption DEF DeleteDeviceSession, Respond, NoCall, SInv, SessionTypeOK, Call, ActiveHasDevice, StoredForOwner, NoneStoredIsRevoked, BornBefore,
       CheckedWasAlive, SessionIsSeen

LEMMA ExpirePreserves ==
  ASSUME SInv, NEW d \in Devices, Expire(d)
  PROVE  SInv'
BY NoneAssumption DEF Expire, SInv, SessionTypeOK, Call, ActiveHasDevice, StoredForOwner, NoneStoredIsRevoked, BornBefore,
       CheckedWasAlive, SessionIsSeen

LEMMA SessionsInductive == SInv /\ [SessionNext]_dvars => SInv'
<1> SUFFICES ASSUME SInv, [SessionNext]_dvars PROVE SInv'
  OBVIOUS
<1>1. ASSUME NEW c \in Calls, NEW d \in Devices,
             RegisterDevice(c, d) \/ RefreshToken(c, d) \/ RevokeSession(c, d)
      PROVE  SInv'
  BY <1>1, BeginPreserves DEF RegisterDevice, RefreshToken, RevokeSession
<1>2. ASSUME NEW c \in Calls, CallStep(c) PROVE SInv'
  BY <1>1, <1>2, RegisterPreserves, StorePreserves, LookupsPreserve, RevokePreserves DEF CallStep
<1>3. CASE UNCHANGED dvars
  BY <1>3 DEF dvars, SInv, SessionTypeOK, ActiveHasDevice, StoredForOwner, NoneStoredIsRevoked, BornBefore,
              CheckedWasAlive, SessionIsSeen
<1> QED BY <1>2, <1>3, ExpirePreserves DEF SessionNext

LEMMA SInvIsSound == SInv => SessionsInv
BY DEF SInv, SessionsInv, RevokedTokensStayDead, RefreshNeedsSession, Granted, CheckedWasAlive, SessionIsSeen

\* A token revoked before a refresh began is not exchanged, and a refresh is
\* granted only to a device that had a session meanwhile, however many calls
\* interleave and for any number of devices and tokens.
THEOREM SessionsAreSound == SessionSpec => []SessionsInv
<1>1. SessionInit => SInv
  BY SessionsInitially
<1>2. SInv /\ [SessionNext]_dvars => SInv'
  BY SessionsInductive
<1>3. SInv => SessionsInv
  BY SInvIsSound
<1> QED BY <1>1, <1>2, <1>3, PTL DEF SessionSpec

-------------------------------------------------------------------------------
(* NotifyDispatch.  The primary key lets one goroutine at a time deliver a *)
(* notification (OneDelivers), and what that one has not pushed yet nobody *)
(* has (JobOK).  Tokens only grow, so a token the push service refused     *)
(* stays older than the one it knows (TokensAge, JobOK).                   *)

JobRecord == [at : {"idle", "persist", "quiet", "prefs", "devices", "push"}, n : Notice \cup {"none"},
              again : BOOLEAN, left : SUBSET Phone, token : [Phone -> 0 .. MaxTokens], refused : SUBSET Phone]
Delivering == {"quiet", "prefs", "devices", "push"}

NotifyTypes ==
  /\ notice \in [Notice -> {"none", "stored", "sent"}]
  /\ deferred \in [Notice -> {"none", "later", "due", "processed"}]
  /\ stored \in [Phone -> 0 .. MaxTokens] /\ valid \in [Phone -> 1 .. MaxTokens] /\ registered \in [Phone -> 1 .. MaxTokens]
  /\ job \in [Dispatcher -> JobRecord]
  /\ \A j \in Dispatcher : job[j].at = "idle" <=> job[j] = NoJob
  /\ pushes \in [Notice -> [Phone -> Nat]] /\ breaks \in 0 .. MaxBreaks
  /\ crossed \subseteq Phone /\ abandoned \subseteq Notice
Flags == quiet \in BOOLEAN /\ enabled \in BOOLEAN

JobOK(w) ==
  w.at # "idle" =>
    /\ w.n \in Notice /\ (w.at # "push" => w.refused = {})
    /\ w.at \in Delivering => notice[w.n] # "none"
    /\ w.at \in {"quiet", "prefs", "devices"} => \A p \in Phone : pushes[w.n][p] = 0
    /\ w.at = "push" => \A p \in Phone : /\ p \in w.left => pushes[w.n][p] = 0
                                         /\ w.token[p] <= valid[p]
                                         /\ p \in w.refused => w.token[p] < valid[p]
JobsOK == \A j \in Dispatcher : JobOK(job[j])
OneDelivers ==
  \A j, k \in Dispatcher :
    job[j].at \in Delivering /\ job[k].at \in Delivering /\ job[j].n = job[k].n => j = k
NotStoredNotPushed == \A n \in Notice, p \in Phone : notice[n] = "none" => pushes[n][p] = 0
TokensAge == \A p \in Phone : stored[p] <= valid[p] /\ registered[p] <= valid[p]

\* What is known of everything but the two flags.
NotifyCore == /\ NotifyTypes /\ JobsOK /\ OneDelivers /\ NotStoredNotPushed /\ TokensAge
              /\ PushedOnce /\ TokenKept
NInv == Flags /\ NotifyCore

LEMMA NoJobIsIdle == NoJob \in JobRecord /\ NoJob.at = "idle" /\ (NotifyCore => JobOK(NoJob))
BY NotifyBounds DEF NoJob, JobRecord, JobOK

LEMMA NotifyInitially == NotifyInit => NInv
<1> SUFFICES ASSUME NotifyInit PROVE NotifyCore
  BY DEF NInv, Flags, NotifyInit
<1>1. NotifyTypes
  BY NotifyBounds, NoJobIsIdle DEF NotifyInit, NotifyTypes
<1> QED BY <1>1, NoJobIsIdle
  DEF NotifyInit, NotifyCore, JobsOK, JobOK, OneDelivers, Delivering, NotStoredNotPushed, TokensAge, PushedOnce, TokenKept

\* One job changes, the others stay.
LEMMA OneJob ==
  ASSUME NotifyTypes, NEW j \in Dispatcher, NEW w \in JobRecord, w.at = "idle" <=> w = NoJob,
         job' = [job EXCEPT ![j] = w]
  PROVE  /\ job' \in [Dispatcher -> JobRecord] /\ job'[j] = w
         /\ \A k \in Dispatcher : k # j => job'[k] = job[k]
         /\ \A k \in Dispatcher : job'[k].at = "idle" <=> job'[k] = NoJob
BY DEF NotifyTypes

\* A goroutine moves on, stops or dies: no push, no token, and no row but that
\* of a notification stored before.
LEMMA JobStep ==
  ASSUME NotifyCore, NEW j \in Dispatcher, NEW w \in JobRecord, w.at = "idle" <=> w = NoJob,
         job' = [job EXCEPT ![j] = w], JobOK(w),
         w.at \in Delivering => job[j].at \in Delivering /\ w.n = job[j].n,
         notice' \in [Notice -> {"none", "stored", "sent"}],
         \A n \in Notice : notice'[n] = "none" <=> notice[n] = "none",
         deferred' \in [Notice -> {"none", "later", "due", "processed"}],
         breaks' \in 0 .. MaxBreaks, abandoned' \subseteq Notice,
         UNCHANGED <<valid, registered, stored, pushes, crossed>>
  PROVE  NotifyCore'
<1>1. /\ job' \in [Dispatcher -> JobRecord] /\ job'[j] = w
      /\ \A k \in Dispatcher : k # j => job'[k] = job[k]
      /\ \A k \in Dispatcher : job'[k].at = "idle" <=> job'[k] = NoJob
  BY OneJob DEF NotifyCore
<1>2. NotifyTypes'
  BY <1>1 DEF NotifyCore, NotifyTypes
<1>3. JobsOK'
  <2> SUFFICES ASSUME NEW k \in Dispatcher PROVE JobOK(job[k])'
    BY DEF JobsOK
  <2>1. JobOK(job'[k])
    BY <1>1 DEF NotifyCore, JobsOK
  <2> QED BY <2>1 DEF JobOK
<1>4. OneDelivers'
  BY <1>1 DEF NotifyCore, OneDelivers
<1>5. NotStoredNotPushed' /\ TokensAge' /\ PushedOnce' /\ TokenKept'
  BY DEF NotifyCore, NotStoredNotPushed, TokensAge, PushedOnce, TokenKept
<1> QED BY <1>2, <1>3, <1>4, <1>5 DEF NotifyCore

\* The fields of a job that moves on.
LEMMA MovedJob ==
  ASSUME NotifyTypes, NEW j \in Dispatcher, job[j].at # "idle",
         NEW at \in {"quiet", "prefs", "devices"}
  PROVE  /\ [job[j] EXCEPT !.at = at] \in JobRecord
         /\ [job[j] EXCEPT !.at = at].at = at /\ [job[j] EXCEPT !.at = at].n = job[j].n
         /\ [job[j] EXCEPT !.at = at] # NoJob /\ [job[j] EXCEPT !.at = at].refused = job[j].refused
BY DEF NotifyTypes, JobRecord, NoJob

\* A goroutine stops, or dies, whether or not something broke.
LEMMA StopPreserves ==
  ASSUME NotifyCore, NEW j \in Dispatcher, job[j].at # "idle", Stop(j), Unbroken \/ Break(j),
         notice' = notice \/ (job[j].at \in Delivering /\ notice' = [notice EXCEPT ![job[j].n] = "sent"]),
         deferred' \in [Notice -> {"none", "later", "due", "processed"}],
         UNCHANGED <<valid, registered, stored, pushes, crossed>>
  PROVE  NotifyCore'
<1>1. job[j].n \in Notice /\ (job[j].at \in Delivering => notice[job[j].n] # "none")
  BY DEF NotifyCore, JobsOK, JobOK
<1>2. breaks' \in 0 .. MaxBreaks /\ abandoned' \subseteq Notice
  BY <1>1, NotifyBounds DEF Unbroken, Break, NotifyCore, NotifyTypes
<1>3. notice' \in [Notice -> {"none", "stored", "sent"}] /\ \A n \in Notice : notice'[n] = "none" <=> notice[n] = "none"
  BY <1>1 DEF NotifyCore, NotifyTypes
<1> QED BY <1>2, <1>3, NoJobIsIdle, JobStep DEF Stop, Delivering

LEMMA ReturnTypes ==
  ASSUME NotifyCore, NEW j \in Dispatcher, job[j].at # "idle", Return(j)
  PROVE  Stop(j) /\ deferred' \in [Notice -> {"none", "later", "due", "processed"}]
BY DEF Return, NotifyCore, NotifyTypes, JobsOK, JobOK

\* Dispatch and ProcessDeferred: nothing is stored or pushed yet.
LEMMA BeginsPreserve ==
  ASSUME NotifyCore, NEW j \in Dispatcher, NEW n \in Notice, Dispatch(j, n) \/ ProcessDeferred(j, n)
  PROVE  NotifyCore'
<1>1. ASSUME NEW w \in JobRecord, w.at = "persist", w.n = n, w.refused = {}, job' = [job EXCEPT ![j] = w],
             UNCHANGED <<notice, deferred, valid, registered, stored, pushes, crossed, breaks, abandoned>>
      PROVE  NotifyCore'
  <2>1. JobOK(w) /\ w # NoJob /\ w.at \notin Delivering
    BY <1>1 DEF JobOK, Delivering, NoJob
  <2> QED BY <1>1, <2>1, JobStep DEF NotifyCore, NotifyTypes
<1>2. /\ [NoJob EXCEPT !.at = "persist", !.n = n] \in JobRecord
      /\ [NoJob EXCEPT !.at = "persist", !.n = n, !.again = TRUE] \in JobRecord
  BY NoJobIsIdle DEF NoJob, JobRecord
<1>3. CASE Dispatch(j, n)
  BY <1>1, <1>2, <1>3 DEF Dispatch, outside, NoJob
<1>4. CASE ProcessDeferred(j, n)
  BY <1>1, <1>2, <1>4 DEF ProcessDeferred, outside, NoJob
<1> QED BY <1>3, <1>4

\* The row: the one step after which a goroutine delivers.
LEMMA InsertPreserves ==
  ASSUME NotifyCore, NEW j \in Dispatcher, InsertNotification(j)
  PROVE  NotifyCore'
<1> DEFINE n == job[j].n
           w == [job[j] EXCEPT !.at = "quiet"]
<1>1. /\ job[j].at = "persist" /\ n \in Notice
      /\ UNCHANGED <<deferred, valid, registered, stored, pushes, crossed>>
  BY DEF InsertNotification, Stands, outside, NotifyCore, JobsOK, JobOK
<1>2. CASE Stop(j) /\ UNCHANGED notice /\ (Unbroken \/ Break(j))
  BY <1>1, <1>2, StopPreserves DEF NotifyCore, NotifyTypes
<1>3. CASE Inserted(n) /\ notice' = [notice EXCEPT ![n] = "stored"] /\ Goto(j, "quiet") /\ Unbroken
  <2>1. w \in JobRecord /\ w.at = "quiet" /\ w.n = n /\ w # NoJob /\ w.refused = job[j].refused
    BY <1>1, MovedJob DEF NotifyCore
  <2>2. job' = [job EXCEPT ![j] = w]
    BY <1>3 DEF Goto, NotifyCore, NotifyTypes
  <2> HIDE DEF w, n
  <2>3. /\ job' \in [Dispatcher -> JobRecord] /\ job'[j] = w
        /\ \A k \in Dispatcher : k # j => job'[k] = job[k]
        /\ \A k \in Dispatcher : job'[k].at = "idle" <=> job'[k] = NoJob
    BY <2>1, <2>2, OneJob, NoJobIsIdle DEF NotifyCore
  <2>4. notice[n] = "none" /\ notice' = [notice EXCEPT ![n] = "stored"] /\ UNCHANGED <<breaks, abandoned>>
    BY <1>3 DEF Inserted, Unbroken
  <2>5. NotifyTypes'
    BY <1>1, <2>3, <2>4 DEF NotifyCore, NotifyTypes
  <2>6. (\A p \in Phone : pushes[n][p] = 0) /\ job[j].refused = {}
    BY <1>1, <2>4 DEF NotifyCore, NotStoredNotPushed, JobsOK, JobOK
  <2>7. notice'[n] = "stored" /\ \A m \in Notice : m # n => notice'[m] = notice[m]
    BY <1>1, <2>4 DEF NotifyCore, NotifyTypes
  <2>8. \A k \in Dispatcher : job[k].at \in Delivering => job[k].n # n
    BY <2>4 DEF NotifyCore, JobsOK, JobOK, Delivering
  <2>9. JobsOK'
    <3> SUFFICES ASSUME NEW k \in Dispatcher PROVE JobOK(job[k])'
      BY DEF JobsOK
    <3>1. CASE k = j
      BY <1>1, <2>1, <2>3, <2>6, <2>7, <3>1 DEF JobOK
    <3>2. CASE k # j
      <4>1. job'[k] = job[k] /\ JobOK(job[k])
        BY <2>3, <3>2 DEF NotifyCore, JobsOK
      <4> QED BY <1>1, <2>7, <4>1 DEF JobOK
    <3> QED BY <3>1, <3>2
  <2>10. OneDelivers'
    BY <2>1, <2>3, <2>8 DEF NotifyCore, OneDelivers
  <2>11. NotStoredNotPushed' /\ TokensAge' /\ PushedOnce' /\ TokenKept'
    BY <1>1, <2>7 DEF NotifyCore, NotStoredNotPushed, TokensAge, PushedOnce, TokenKept
  <2> QED BY <2>5, <2>9, <2>10, <2>11 DEF NotifyCore
<1> QED BY <1>2, <1>3 DEF InsertNotification

\* Quiet hours and preferences: the goroutine moves on, or its notification is
\* deferred or dropped.
LEMMA MovesPreserve ==
  ASSUME NotifyCore, NEW j \in Dispatcher, NEW at \in {"prefs", "devices"},
         job[j].at \in {"quiet", "prefs"}, Goto(j, at),
         UNCHANGED <<notice, deferred, valid, registered, stored, pushes, crossed, breaks, abandoned>>
  PROVE  NotifyCore'
<1> DEFINE w == [job[j] EXCEPT !.at = at]
<1>1. w \in JobRecord /\ w.at = at /\ w.n = job[j].n /\ w # NoJob /\ w.refused = job[j].refused
  BY MovedJob DEF NotifyCore
<1>2. job' = [job EXCEPT ![j] = w]
  BY DEF Goto, NotifyCore, NotifyTypes
<1> HIDE DEF w
<1>3. JobOK(w)
  BY <1>1 DEF NotifyCore, JobsOK, JobOK, Delivering
<1> QED BY <1>1, <1>2, <1>3, JobStep DEF NotifyCore, NotifyTypes, Delivering

LEMMA DecidesPreserve ==
  ASSUME NotifyCore, NEW j \in Dispatcher, NotDeferred(j) \/ InsertDeferred(j) \/ IsTypeEnabled(j) \/ DispatcherDies(j)
  PROVE  NotifyCore'
<1>1. job[j].at # "idle" /\ job[j].n \in Notice /\ UNCHANGED <<valid, registered, stored, pushes, crossed>>
  BY DEF NotDeferred, InsertDeferred, IsTypeEnabled, DispatcherDies, Stands, outside, NotifyCore, JobsOK, JobOK
<1>2. CASE NotDeferred(j)
  BY <1>2, MovesPreserve DEF NotDeferred, Stands, outside
<1>3. CASE InsertDeferred(j)
  <2>1. deferred' \in [Notice -> {"none", "later", "due", "processed"}]
    BY <1>1, <1>3 DEF InsertDeferred, NotifyCore, NotifyTypes
  <2> QED BY <1>1, <1>3, <2>1, StopPreserves DEF InsertDeferred
<1>4. CASE IsTypeEnabled(j)
  <2>1. job[j].at = "prefs"
    BY <1>4 DEF IsTypeEnabled, Stands
  <2>2. CASE Goto(j, "devices") /\ Unbroken /\ UNCHANGED <<notice, deferred>>
    BY <1>1, <2>1, <2>2, MovesPreserve DEF Unbroken
  <2>3. CASE notice' = [notice EXCEPT ![job[j].n] = "sent"] /\ Return(j) /\ (Unbroken \/ Break(j))
    BY <1>1, <2>1, <2>3, ReturnTypes, StopPreserves DEF Delivering
  <2> QED BY <1>4, <2>2, <2>3 DEF IsTypeEnabled
<1>5. CASE DispatcherDies(j)
  BY <1>1, <1>5, StopPreserves DEF DispatcherDies, NotifyCore, NotifyTypes
<1> QED BY <1>2, <1>3, <1>4, <1>5

\* The phones and their tokens are read: none was pushed to, no token is younger
\* than the valid one.
LEMMA GetDevicesPreserves ==
  ASSUME NotifyCore, NEW j \in Dispatcher, GetDevices(j)
  PROVE  NotifyCore'
<1> DEFINE w == [job[j] EXCEPT !.at = "push", !.left = {p \in Phone : stored[p] # 0}, !.token = stored]
<1>1. /\ job[j].at = "devices" /\ UNCHANGED <<notice, deferred, valid, registered, stored, pushes, crossed>>
      /\ job[j] \in JobRecord
  BY DEF GetDevices, Stands, outside, NotifyCore, NotifyTypes
<1>2. CASE Stop(j) /\ Break(j)
  BY <1>1, <1>2, StopPreserves DEF NotifyCore, NotifyTypes
<1>3. CASE Unbroken /\ job' = [job EXCEPT ![j] = w]
  <2>1. w \in JobRecord /\ w.at = "push" /\ w.n = job[j].n /\ w # NoJob /\ w.token = stored /\ w.refused = job[j].refused
    BY <1>1 DEF JobRecord, NoJob, NotifyCore, NotifyTypes
  <2> HIDE DEF w
  <2>2. job[j].refused = {}
    BY <1>1 DEF NotifyCore, JobsOK, JobOK
  <2>3. JobOK(w)
    BY <1>1, <2>1, <2>2 DEF NotifyCore, JobsOK, JobOK, TokensAge, Delivering
  <2> QED BY <1>1, <1>3, <2>1, <2>3, JobStep DEF NotifyCore, NotifyTypes, Delivering, Unbroken
<1> QED BY <1>2, <1>3 DEF GetDevices, NotifyCore, NotifyTypes

\* A push arrives: the goroutine that delivers is the only one, and had not
\* pushed to this phone.
LEMMA PushPreserves ==
  ASSUME NotifyCore, NEW j \in Dispatcher, NEW p \in Phone, Push(j, p)
  PROVE  NotifyCore'
<1> DEFINE n == job[j].n
           w == [job[j] EXCEPT !.left = job[j].left \ {p}, !.refused = job[j].refused]
<1>1. /\ job[j].at = "push" /\ p \in job[j].left /\ n \in Notice /\ notice[n] # "none" /\ job[j] \in JobRecord
      /\ UNCHANGED <<notice, deferred, valid, registered, stored, crossed, breaks, abandoned>>
      /\ pushes' = [pushes EXCEPT ![n][p] = @ + 1] /\ pushes[n][p] = 0
  BY DEF Push, Stands, outside, NotifyCore, NotifyTypes, JobsOK, JobOK, Delivering
<1>2. w \in JobRecord /\ w.at = "push" /\ w.n = n /\ w # NoJob /\ w.left = job[j].left \ {p}
      /\ w.refused = job[j].refused /\ w.token = job[j].token
  BY <1>1 DEF JobRecord, NoJob
<1>3. job' = [job EXCEPT ![j] = w]
  BY <1>1 DEF Push, JobRecord, NotifyCore, NotifyTypes
<1> HIDE DEF w, n
<1>4. /\ job' \in [Dispatcher -> JobRecord] /\ job'[j] = w
      /\ \A k \in Dispatcher : k # j => job'[k] = job[k]
      /\ \A k \in Dispatcher : job'[k].at = "idle" <=> job'[k] = NoJob
  BY <1>2, <1>3, OneJob, NoJobIsIdle DEF NotifyCore
<1>5. /\ pushes' \in [Notice -> [Phone -> Nat]] /\ pushes'[n][p] = 1
      /\ \A m \in Notice, q \in Phone : m # n \/ q # p => pushes'[m][q] = pushes[m][q]
  BY <1>1 DEF NotifyCore, NotifyTypes
<1>6. NotifyTypes'
  BY <1>1, <1>4, <1>5 DEF NotifyCore, NotifyTypes
<1>7. JobsOK'
  <2> SUFFICES ASSUME NEW k \in Dispatcher PROVE JobOK(job[k])'
    BY DEF JobsOK
  <2>1. CASE k = j
    <3>1. JobOK(job[j])
      BY DEF NotifyCore, JobsOK
    <3> QED BY <1>1, <1>2, <1>4, <1>5, <2>1, <3>1 DEF JobOK, Delivering, n
  <2>2. CASE k # j
    <3>1. job'[k] = job[k] /\ JobOK(job[k])
      BY <1>4, <2>2 DEF NotifyCore, JobsOK
    <3>2. job[k].at \in Delivering => job[k].n # n
      BY <1>1, <2>2 DEF NotifyCore, OneDelivers, Delivering, n
    <3> QED BY <1>1, <1>5, <3>1, <3>2 DEF JobOK, Delivering
  <2> QED BY <2>1, <2>2
<1>8. OneDelivers'
  BY <1>1, <1>2, <1>4 DEF NotifyCore, OneDelivers, n
<1>9. NotStoredNotPushed' /\ TokensAge' /\ PushedOnce' /\ TokenKept'
  BY <1>1, <1>5 DEF NotifyCore, NotifyTypes, NotStoredNotPushed, TokensAge, PushedOnce, TokenKept
<1> QED BY <1>6, <1>7, <1>8, <1>9 DEF NotifyCore

\* A push is refused, for the token or for another reason.
LEMMA PushFailsPreserves ==
  ASSUME NotifyCore, NEW j \in Dispatcher, NEW p \in Phone, PushFails(j, p)
  PROVE  NotifyCore'
<1> DEFINE refused == job[j].refused \cup Refused(j, p)
           w == [job[j] EXCEPT !.left = job[j].left \ {p}, !.refused = refused]
<1>1. /\ job[j].at = "push" /\ p \in job[j].left /\ job[j].n \in Notice /\ job[j] \in JobRecord
      /\ UNCHANGED <<notice, deferred, valid, registered, stored, pushes, crossed>>
  BY DEF PushFails, Stands, outside, NotifyCore, NotifyTypes, JobsOK, JobOK
<1>2. refused \in SUBSET Phone /\ \A q \in refused : q \in job[j].refused \/ (q = p /\ job[j].token[p] # valid[p])
  BY <1>1 DEF Refused, JobRecord
<1>3. w \in JobRecord /\ w.at = "push" /\ w.n = job[j].n /\ w # NoJob /\ w.left = job[j].left \ {p}
      /\ w.refused = refused /\ w.token = job[j].token
  BY <1>1, <1>2 DEF JobRecord, NoJob
<1>4. job' = [job EXCEPT ![j] = w]
  BY <1>1 DEF PushFails, JobRecord, NotifyCore, NotifyTypes
<1>5. breaks' \in 0 .. MaxBreaks /\ abandoned' \subseteq Notice
  BY <1>1, NotifyBounds DEF PushFails, Unbroken, Break, NotifyCore, NotifyTypes
<1> HIDE DEF w, refused
<1>6. job[j].token \in [Phone -> 0 .. MaxTokens] /\ valid \in [Phone -> 1 .. MaxTokens]
  BY <1>1 DEF JobRecord, NotifyCore, NotifyTypes
<1>7. JobOK(w)
  <2>1. JobOK(job[j])
    BY DEF NotifyCore, JobsOK
  <2>2. \A q \in Phone : q \in refused => job[j].token[q] < valid[q]
    BY <1>1, <1>2, <1>6, <2>1, NotifyBounds DEF JobOK
  <2> QED BY <1>1, <1>3, <2>1, <2>2 DEF JobOK, Delivering
<1> QED BY <1>1, <1>3, <1>4, <1>5, <1>7, JobStep, NoJobIsIdle DEF NotifyCore, NotifyTypes, Delivering

LEMMA MarkSentPreserves ==
  ASSUME NotifyCore, NEW j \in Dispatcher, MarkSent(j)
  PROVE  NotifyCore'
<1>1. /\ job[j].at = "push" /\ job[j].n \in Notice /\ Stop(j)
      /\ deferred' \in [Notice -> {"none", "later", "due", "processed"}]
      /\ UNCHANGED <<valid, registered, stored, pushes, crossed>>
  BY ReturnTypes DEF MarkSent, Stands, outside, NotifyCore, JobsOK, JobOK
<1> QED BY <1>1, StopPreserves DEF MarkSent, Delivering

\* The token of a phone is cleared: an older one than the valid one was stored,
\* or the phone is crossed.
LEMMA InvalidatePreserves ==
  ASSUME NotifyCore, NEW j \in Dispatcher, NEW p \in Phone, InvalidateToken(j, p)
  PROVE  NotifyCore'
<1> DEFINE w == [job[j] EXCEPT !.refused = job[j].refused \ {p}]
<1>1. /\ job[j].at = "push" /\ p \in job[j].refused /\ job[j].n \in Notice /\ job[j] \in JobRecord
      /\ stored' = [stored EXCEPT ![p] = 0]
      /\ UNCHANGED <<notice, deferred, valid, registered, pushes, breaks, abandoned>>
  BY DEF InvalidateToken, Stands, outside, NotifyCore, NotifyTypes, JobsOK, JobOK
<1>2. w \in JobRecord /\ w.at = "push" /\ w.n = job[j].n /\ w # NoJob /\ w.left = job[j].left
      /\ w.refused = job[j].refused \ {p} /\ w.token = job[j].token
  BY <1>1 DEF JobRecord, NoJob
<1>3. job' = [job EXCEPT ![j] = w]
  BY <1>1 DEF InvalidateToken, JobRecord, NotifyCore, NotifyTypes
<1> HIDE DEF w
<1>4. /\ job' \in [Dispatcher -> JobRecord] /\ job'[j] = w
      /\ \A k \in Dispatcher : k # j => job'[k] = job[k]
      /\ \A k \in Dispatcher : job'[k].at = "idle" <=> job'[k] = NoJob
  BY <1>2, <1>3, OneJob, NoJobIsIdle DEF NotifyCore
<1>5. stored' \in [Phone -> 0 .. MaxTokens] /\ stored'[p] = 0 /\ \A q \in Phone : q # p => stored'[q] = stored[q]
  BY <1>1, NotifyBounds DEF NotifyCore, NotifyTypes
<1>6. crossed' = crossed \/ crossed' = crossed \cup {p}
  BY DEF InvalidateToken
<1>7. NotifyTypes'
  BY <1>1, <1>4, <1>5, <1>6 DEF NotifyCore, NotifyTypes
<1>8. JobsOK'
  <2> SUFFICES ASSUME NEW k \in Dispatcher PROVE JobOK(job[k])'
    BY DEF JobsOK
  <2>1. JobOK(job'[k])
    BY <1>1, <1>2, <1>4 DEF NotifyCore, JobsOK, JobOK, Delivering
  <2> QED BY <1>1, <2>1 DEF JobOK
<1>9. OneDelivers'
  BY <1>1, <1>2, <1>4 DEF NotifyCore, OneDelivers
<1>10. TokenKept'
  <2> SUFFICES ASSUME NEW q \in Phone, registered[q] = valid[q], q \notin crossed'
               PROVE  stored'[q] = valid[q]
    BY <1>1 DEF TokenKept
  <2>1. stored[q] = valid[q]
    BY <1>6 DEF NotifyCore, TokenKept
  <2>2. CASE q = p
    <3>1. job[j].token[p] < valid[p] /\ job[j].token[p] \in 0 .. MaxTokens /\ valid[p] \in 1 .. MaxTokens
      BY <1>1 DEF NotifyCore, NotifyTypes, JobsOK, JobOK, JobRecord
    <3>2. stored[p] # job[j].token[p]
      BY <2>1, <2>2, <3>1, NotifyBounds
    <3> QED BY <2>2, <3>2 DEF InvalidateToken
  <2> QED BY <1>5, <2>1, <2>2
<1>11. NotStoredNotPushed' /\ TokensAge' /\ PushedOnce'
  BY <1>1, <1>5, NotifyBounds DEF NotifyCore, NotifyTypes, NotStoredNotPushed, TokensAge, PushedOnce
<1> QED BY <1>7, <1>8, <1>9, <1>10, <1>11 DEF NotifyCore

\* The push service issues a new token.
LEMMA NewTokenPreserves ==
  ASSUME NotifyCore, NEW p \in Phone, NewToken(p)
  PROVE  NotifyCore'
<1>1. /\ valid' \in [Phone -> 1 .. MaxTokens] /\ valid'[p] = valid[p] + 1
      /\ \A q \in Phone : q # p => valid'[q] = valid[q]
      /\ UNCHANGED <<notice, deferred, stored, job, pushes, breaks, registered, crossed, abandoned>>
  BY NotifyBounds DEF NewToken, NotifyCore, NotifyTypes
<1>2. /\ \A q \in Phone : stored[q] \in Int /\ registered[q] \in Int /\ valid[q] \in Int
      /\ \A q \in Phone : stored[q] <= valid[q] /\ registered[q] <= valid[q]
      /\ \A q \in Phone : valid[q] <= valid'[q]
  BY <1>1, NotifyBounds DEF NotifyCore, NotifyTypes, TokensAge
<1>3. JobsOK'
  <2> SUFFICES ASSUME NEW k \in Dispatcher PROVE JobOK(job[k])'
    BY DEF JobsOK
  <2>1. JobOK(job[k]) /\ \A q \in Phone : job[k].token[q] \in Int /\ valid[q] \in Int /\ valid'[q] \in Int
    BY <1>1, NotifyBounds DEF NotifyCore, NotifyTypes, JobsOK, JobRecord
  <2> QED BY <1>1, <1>2, <2>1 DEF JobOK
<1>4. TokenKept' /\ TokensAge'
  BY <1>1, <1>2 DEF NotifyCore, TokenKept, TokensAge
<1> QED BY <1>1, <1>3, <1>4 DEF NotifyCore, NotifyTypes, OneDelivers, NotStoredNotPushed, PushedOnce

\* A phone registers the token it was given.
LEMMA RegisterTokenPreserves ==
  ASSUME NotifyCore, NEW p \in Phone, RegisterToken(p)
  PROVE  NotifyCore'
<1>1. /\ registered' = [registered EXCEPT ![p] = valid[p]] /\ stored' = [stored EXCEPT ![p] = valid[p]]
      /\ crossed' = crossed \ {p}
      /\ UNCHANGED <<notice, deferred, valid, job, pushes, breaks, abandoned>>
  BY DEF RegisterToken
<1>2. NotifyTypes'
  BY <1>1, NotifyBounds DEF NotifyCore, NotifyTypes
<1>3. JobsOK'
  BY <1>1 DEF NotifyCore, JobsOK, JobOK
<1>4. TokenKept' /\ TokensAge'
  BY <1>1, NotifyBounds DEF NotifyCore, NotifyTypes, TokenKept, TokensAge
<1> QED BY <1>1, <1>2, <1>3, <1>4 DEF NotifyCore, OneDelivers, NotStoredNotPushed, PushedOnce

\* Time passes, preferences change.
LEMMA TimePreserves ==
  ASSUME NotifyCore, QuietHours \/ SetPreferences \/ (\E n \in Notice : ResumeTime(n)) \/ UNCHANGED notifyVars
  PROVE  NotifyCore'
<1>1. /\ UNCHANGED <<notice, stored, valid, job, pushes, breaks, registered, crossed, abandoned>>
      /\ deferred' \in [Notice -> {"none", "later", "due", "processed"}]
  BY DEF QuietHours, SetPreferences, ResumeTime, outside, notifyVars, NotifyCore, NotifyTypes
<1> QED BY <1>1
  DEF NotifyCore, NotifyTypes, JobsOK, JobOK, OneDelivers, NotStoredNotPushed, TokensAge, PushedOnce, TokenKept

LEMMA FlagsStay == Flags /\ [NotifyNext]_notifyVars => Flags'
<1> SUFFICES ASSUME Flags, [NotifyNext]_notifyVars PROVE Flags'
  OBVIOUS
<1>1. (quiet' = quiet \/ quiet' = ~quiet) /\ (enabled' = enabled \/ enabled' = ~enabled)
  BY DEF NotifyNext, QuietHours, SetPreferences, ResumeTime, Dispatch, ProcessDeferred, NewToken, RegisterToken,
         InsertNotification, NotDeferred, InsertDeferred, IsTypeEnabled, GetDevices, MarkSent, DispatcherDies,
         Push, PushFails, InvalidateToken, outside, notifyVars
<1> QED BY <1>1 DEF Flags

LEMMA NotifyInductive == NInv /\ [NotifyNext]_notifyVars => NInv'
<1> SUFFICES ASSUME NotifyCore, [NotifyNext]_notifyVars PROVE NotifyCore'
  BY FlagsStay DEF NInv
<1>1. ASSUME NEW j \in Dispatcher, NEW n \in Notice, Dispatch(j, n) \/ ProcessDeferred(j, n) PROVE NotifyCore'
  BY <1>1, BeginsPreserve
<1>2. ASSUME NEW j \in Dispatcher,
             \/ InsertNotification(j) \/ NotDeferred(j) \/ InsertDeferred(j) \/ IsTypeEnabled(j)
             \/ GetDevices(j) \/ MarkSent(j) \/ DispatcherDies(j)
      PROVE  NotifyCore'
  BY <1>2, InsertPreserves, DecidesPreserve, GetDevicesPreserves, MarkSentPreserves
<1>3. ASSUME NEW j \in Dispatcher, NEW p \in Phone, Push(j, p) \/ PushFails(j, p) \/ InvalidateToken(j, p)
      PROVE  NotifyCore'
  BY <1>3, PushPreserves, PushFailsPreserves, InvalidatePreserves
<1>4. ASSUME NEW p \in Phone, NewToken(p) \/ RegisterToken(p) PROVE NotifyCore'
  BY <1>4, NewTokenPreserves, RegisterTokenPreserves
<1> QED BY <1>1, <1>2, <1>3, <1>4, TimePreserves DEF NotifyNext

LEMMA NInvIsSound == NInv => NotifyInv
<1> SUFFICES ASSUME NInv PROVE NotifyTypeOK /\ PushedOnce /\ TokenKept
  BY DEF NotifyInv
<1>1. {quiet, enabled} \subseteq BOOLEAN
  BY DEF NInv, Flags
<1> QED BY <1>1 DEF NInv, NotifyCore, NotifyTypes, NotifyTypeOK, JobRecord, Stands

\* No phone is notified twice of anything, and none loses the token it registered
\* last but by the race named: for any number of notifications, phones, dispatchers,
\* failures and crashes.
THEOREM NotifyIsSound == NotifySpec => []NotifyInv
<1>1. NotifyInit => NInv
  BY NotifyInitially
<1>2. NInv /\ [NotifyNext]_notifyVars => NInv'
  BY NotifyInductive
<1>3. NInv => NotifyInv
  BY NInvIsSound
<1> QED BY <1>1, <1>2, <1>3, PTL DEF NotifySpec

-------------------------------------------------------------------------------
(* CardQueue.  Each of the four facts needs to be known of the steps under *)
(* way: sets that are counted are finite (CountOK); while nothing is       *)
(* muddled one copier at most is on its way, with the newest version       *)
(* (CacheOK); a card not in its place in the sorted set has a step under   *)
(* way that puts it there (ListOK); and who is about to record a           *)
(* notification is alone and has found the quarter free (NoticeOK).        *)

CreatorRecord == [at : {"new", "inserted", "set", "zadd", "counts", "throttle", "record", "done"}, v : Nat]
RequestRecord == [at : {"idle", "version", "set", "bumped", "zrem"}, card : Card \cup {"none"}, v : Nat]

QueueTypes ==
  /\ card \in [Card -> {"none", "pending", "approved", "sent"}]
  /\ count \in Nat /\ version \in Nat /\ cached \in Nat /\ notices \in Nat /\ requests \in Nat /\ faults \in Nat
  /\ listed \subseteq Card
  /\ creator \in [Card -> CreatorRecord]
  /\ request \in [Request -> RequestRecord]
QueueFlags ==
  /\ recent \in BOOLEAN /\ miscounted \in BOOLEAN /\ muddled \in BOOLEAN /\ mislisted \in BOOLEAN /\ waived \in BOOLEAN

NewIsUnknown == \A c \in Card : card[c] = "none" <=> creator[c].at = "new"

CountOK == IsFiniteSet(Unsent) /\ IsFiniteSet(Uncounted) /\ CountIsRight

Setting(c) == creator[c].at = "set"
Bringing(r) == request[r].at \in {"version", "set", "bumped"}
Holding(r) == request[r].at \in {"set", "bumped"}

CacheOK ==
  /\ cached <= version
  /\ \A c \in Card : Setting(c) => creator[c].v <= version
  /\ \A r \in Request : Holding(r) => request[r].v <= version
  /\ ~muddled =>
       /\ \A c, d \in Card : Setting(c) /\ Setting(d) => c = d
       /\ \A r, q \in Request : Bringing(r) /\ Bringing(q) => r = q
       /\ \A c \in Card, r \in Request : ~(Setting(c) /\ Bringing(r))
       /\ \A c \in Card : Setting(c) => creator[c].v = version
       /\ \A r \in Request : Holding(r) => request[r].v = version
       /\ ~Copying => cached = version

Adding(c) == creator[c].at \in {"inserted", "set", "zadd"}
Clearing(r, c) == request[r].at \in {"version", "set", "zrem"} /\ request[r].card = c

ListOK ==
  /\ \A r \in Request : request[r].at \in {"version", "set", "zrem"} =>
       request[r].card \in Card /\ card[request[r].card] = "sent"
  /\ ~mislisted => \A c \in Card :
       IF Adding(c) THEN c \in Unsent \/ \E r \in Request : Clearing(r, c)
                    ELSE (c \in listed <=> c \in Unsent) \/ \E r \in Request : Clearing(r, c)

NoticeOK ==
  /\ ~recent => notices = 0
  /\ ~waived => /\ notices <= 1
                /\ \A c, d \in Card : creator[c].at = "record" /\ creator[d].at = "record" => c = d
                /\ \A c \in Card : creator[c].at = "record" => ~recent

QueueCore == QueueTypes /\ NewIsUnknown /\ CountOK /\ CacheOK /\ ListOK /\ NoticeOK
QInv == QueueFlags /\ QueueCore

LEMMA QueueInitially == QueueInit => QInv
<1> SUFFICES ASSUME QueueInit PROVE QueueCore
  BY DEF QInv, QueueFlags, QueueInit
<1>1. Unsent = {} /\ Uncounted = {}
  BY DEF QueueInit, Unsent, Uncounted
<1>2. QueueTypes /\ NewIsUnknown
  BY DEF QueueInit, QueueTypes, NewIsUnknown, CreatorRecord, RequestRecord, IdleRequest
<1>3. CountOK
  BY <1>1, FS_EmptySet DEF QueueInit, CountOK, CountIsRight
<1>4. CacheOK /\ ListOK /\ NoticeOK
  BY <1>1 DEF QueueInit, CacheOK, Setting, Bringing, Holding, ListOK, Adding, Clearing, NoticeOK, IdleRequest
<1> QED BY <1>2, <1>3, <1>4 DEF QueueCore

\* One creation, or one call, moves and the others stay.
LEMMA CreatorMoves ==
  ASSUME QueueTypes, NEW c \in Card, NEW at, Go(c, at),
         at \in {"new", "inserted", "set", "zadd", "counts", "throttle", "record", "done"}
  PROVE  /\ creator' \in [Card -> CreatorRecord] /\ creator'[c].at = at
         /\ \A d \in Card : d # c => creator'[d] = creator[d]
BY DEF Go, QueueTypes, CreatorRecord

LEMMA RequestMoves ==
  ASSUME QueueTypes, NEW r \in Request, NEW w \in RequestRecord, request' = [request EXCEPT ![r] = w]
  PROVE  /\ request' \in [Request -> RequestRecord] /\ request'[r] = w
         /\ \A q \in Request : q # r => request'[q] = request[q]
BY DEF QueueTypes

\* What the steps that neither insert, count nor clear leave alone.
LEMMA CountStays ==
  ASSUME CountOK, UNCHANGED <<count, miscounted>>, Unsent' = Unsent, Uncounted' = Uncounted
  PROVE  CountOK'
BY DEF CountOK, CountIsRight

\* A card is inserted: not sent, and not counted yet.
LEMMA InsertCard ==
  ASSUME QueueCore, NEW c \in Card, Insert(c)
  PROVE  QueueCore'
<1> USE DEF QueueCore
<1>1. /\ creator[c].at = "new" /\ card[c] = "none" /\ Go(c, "inserted")
      /\ card' = [card EXCEPT ![c] = "pending"]
      /\ UNCHANGED <<count, version, cached, listed, request, recent, notices, waived, requests, faults>>
      /\ UNCHANGED <<miscounted, muddled, mislisted>>
  BY DEF Insert, NewIsUnknown, copies, throttle, causes
<1>2. /\ creator' \in [Card -> CreatorRecord] /\ creator'[c].at = "inserted"
      /\ \A d \in Card : d # c => creator'[d] = creator[d]
  BY <1>1, CreatorMoves
<1>3. /\ card' \in [Card -> {"none", "pending", "approved", "sent"}] /\ card'[c] = "pending"
      /\ \A d \in Card : d # c => card'[d] = card[d]
  BY <1>1 DEF QueueTypes
<1>4. /\ c \notin Unsent /\ Unsent' = Unsent \cup {c}
      /\ c \notin Uncounted /\ Uncounted' = Uncounted \cup {c}
  BY <1>1, <1>2, <1>3 DEF Unsent, Uncounted
<1>5. QueueTypes' /\ NewIsUnknown'
  BY <1>1, <1>2, <1>3 DEF QueueTypes, NewIsUnknown
<1>6. CountOK'
  <2>1. /\ IsFiniteSet(Unsent') /\ Cardinality(Unsent') = Cardinality(Unsent) + 1
        /\ IsFiniteSet(Uncounted') /\ Cardinality(Uncounted') = Cardinality(Uncounted) + 1
    BY <1>4, FS_AddElement DEF CountOK
  <2>2. Cardinality(Unsent) \in Nat /\ Cardinality(Uncounted) \in Nat
    BY FS_CardinalityType DEF CountOK
  <2> QED BY <1>1, <2>1, <2>2 DEF CountOK, CountIsRight, QueueTypes
<1>7. CacheOK'
  BY <1>1, <1>2 DEF CacheOK, Setting, Bringing, Holding, Copying
<1>8. ListOK'
  <2>1. \A r \in Request : request[r].at \in {"version", "set", "zrem"} => request[r].card # c
    BY <1>1 DEF ListOK
  <2> QED BY <1>1, <1>2, <1>3, <1>4, <2>1 DEF ListOK, Adding, Clearing
<1>9. NoticeOK'
  BY <1>1, <1>2 DEF NoticeOK
<1> QED BY <1>5, <1>6, <1>7, <1>8, <1>9

\* The second transaction: the card is counted, and its version is the newest.
LEMMA CountingPreserves ==
  ASSUME QueueCore, NEW c \in Card, CountCard(c)
  PROVE  QueueCore'
<1> USE DEF QueueCore
<1>1. /\ creator[c].at = "inserted" /\ count' = count + 1 /\ version' = version + 1
      /\ creator' = [creator EXCEPT ![c] = [at |-> "set", v |-> version + 1]]
      /\ UNCHANGED <<card, cached, listed, request, recent, notices, waived, requests, faults>>
      /\ UNCHANGED <<miscounted, mislisted>>
  BY DEF CountCard, VersionRead, copies, throttle
<1>2. /\ creator' \in [Card -> CreatorRecord] /\ creator'[c].at = "set" /\ creator'[c].v = version + 1
      /\ \A d \in Card : d # c => creator'[d] = creator[d]
  BY <1>1 DEF QueueTypes, CreatorRecord
<1>3. c \in Uncounted /\ Uncounted' = Uncounted \ {c} /\ Unsent' = Unsent
  BY <1>1, <1>2 DEF Uncounted, Unsent
<1>4. QueueTypes' /\ NewIsUnknown'
  BY <1>1, <1>2 DEF QueueTypes, NewIsUnknown
<1>5. CountOK'
  <2>1. IsFiniteSet(Uncounted') /\ Cardinality(Uncounted') = Cardinality(Uncounted) - 1
    BY <1>3, FS_RemoveElement DEF CountOK
  <2>2. Cardinality(Unsent) \in Nat /\ Cardinality(Uncounted) \in Nat
    BY FS_CardinalityType DEF CountOK
  <2> QED BY <1>1, <1>3, <2>1, <2>2 DEF CountOK, CountIsRight, QueueTypes
<1>6. CacheOK'
  <2>1. /\ \A d \in Card : creator[d].v \in Nat
        /\ \A r \in Request : request[r].v \in Nat
    BY DEF QueueTypes, CreatorRecord, RequestRecord
  <2>2. /\ cached' <= version' /\ \A d \in Card : Setting(d)' => creator'[d].v <= version'
        /\ \A r \in Request : Holding(r)' => request'[r].v <= version'
    BY <1>1, <1>2, <2>1 DEF CacheOK, Setting, Holding, QueueTypes
  <2>3. ASSUME ~muddled'
        PROVE  /\ \A d \in Card : ~Setting(d)
               /\ \A r \in Request : ~Bringing(r)
               /\ Copying'
    BY <1>2, <2>3 DEF CountCard, Copying, Setting, Bringing
  <2> QED BY <1>1, <1>2, <2>2, <2>3 DEF CacheOK, Setting, Bringing, Holding
<1>7. ListOK'
  BY <1>1, <1>2, <1>3 DEF ListOK, Adding, Clearing
<1>8. NoticeOK'
  BY <1>1, <1>2 DEF NoticeOK
<1> QED BY <1>4, <1>5, <1>6, <1>7, <1>8

LEMMA CountFailsPreserves ==
  ASSUME QueueCore, NEW c \in Card, CountFails(c)
  PROVE  QueueCore'
<1> USE DEF QueueCore
<1>1. /\ creator[c].at = "inserted" /\ miscounted' = TRUE /\ mislisted' = TRUE /\ faults' = faults + 1
      /\ UNCHANGED <<card, count, version, cached, listed, request, recent, notices, waived, requests, muddled>>
  BY DEF CountFails, Fault, rows, copies, throttle
<1>2. /\ creator' \in [Card -> CreatorRecord] /\ creator'[c].at = "done"
      /\ \A d \in Card : d # c => creator'[d] = creator[d]
  BY CreatorMoves DEF CountFails
<1>3. QueueTypes' /\ NewIsUnknown'
  BY <1>1, <1>2 DEF QueueTypes, NewIsUnknown
<1>4. CountOK'
  <2>1. Unsent' = Unsent /\ Uncounted' \subseteq Uncounted
    BY <1>1, <1>2 DEF Unsent, Uncounted
  <2> QED BY <1>1, <2>1, FS_Subset DEF CountOK, CountIsRight
<1>5. CacheOK'
  BY <1>1, <1>2 DEF CacheOK, Setting, Bringing, Holding, Copying
<1>6. ListOK' /\ NoticeOK'
  BY <1>1, <1>2 DEF ListOK, NoticeOK
<1> QED BY <1>3, <1>4, <1>5, <1>6

\* The version is copied: the copier, alone if nothing is muddled, has the newest.
LEMMA SetVersionPreserves ==
  ASSUME QueueCore, NEW c \in Card, SetVersion(c)
  PROVE  QueueCore'
<1> USE DEF QueueCore
<1>1. /\ creator[c].at = "set" /\ UNCHANGED <<card, count, version, listed, request, recent, notices, waived, requests>>
      /\ UNCHANGED <<miscounted, mislisted>>
      /\ \/ cached' = creator[c].v /\ UNCHANGED <<faults, muddled>>
         \/ faults' = faults + 1 /\ muddled' = TRUE /\ UNCHANGED cached
  BY DEF SetVersion, Fault, rows, throttle
<1>2. /\ creator' \in [Card -> CreatorRecord] /\ creator'[c].at = "zadd"
      /\ \A d \in Card : d # c => creator'[d] = creator[d]
  BY CreatorMoves DEF SetVersion
<1>3. creator[c].v \in Nat
  BY DEF QueueTypes, CreatorRecord
<1>4. QueueTypes' /\ NewIsUnknown'
  BY <1>1, <1>2, <1>3 DEF QueueTypes, NewIsUnknown
<1>5. CountOK'
  <2>1. Unsent' = Unsent /\ Uncounted' = Uncounted
    BY <1>1, <1>2 DEF Unsent, Uncounted
  <2> QED BY <1>1, <2>1, CountStays
<1>6. CacheOK'
  BY <1>1, <1>2 DEF CacheOK, Setting, Bringing, Holding, Copying
<1>7. ListOK'
  BY <1>1, <1>2 DEF ListOK, Adding, Clearing, Unsent
<1>8. NoticeOK'
  BY <1>1, <1>2 DEF NoticeOK
<1> QED BY <1>4, <1>5, <1>6, <1>7, <1>8

LEMMA ZAddPreserves ==
  ASSUME QueueCore, NEW c \in Card, ZAdd(c)
  PROVE  QueueCore'
<1> USE DEF QueueCore
<1>1. /\ creator[c].at = "zadd" /\ UNCHANGED <<card, count, version, cached, request, recent, notices, waived, requests>>
      /\ UNCHANGED <<miscounted, muddled>>
      /\ \/ listed' = listed \cup {c} /\ UNCHANGED <<faults, mislisted>>
         \/ faults' = faults + 1 /\ mislisted' = TRUE /\ UNCHANGED listed
  BY DEF ZAdd, Fault, rows, throttle
<1>2. /\ creator' \in [Card -> CreatorRecord] /\ creator'[c].at = "counts"
      /\ \A d \in Card : d # c => creator'[d] = creator[d]
  BY CreatorMoves DEF ZAdd
<1>3. QueueTypes' /\ NewIsUnknown'
  BY <1>1, <1>2 DEF QueueTypes, NewIsUnknown
<1>4. Unsent' = Unsent /\ Uncounted' = Uncounted
  BY <1>1, <1>2 DEF Unsent, Uncounted
<1>5. CountOK'
  BY <1>1, <1>4, CountStays
<1>6. CacheOK'
  BY <1>1, <1>2 DEF CacheOK, Setting, Bringing, Holding, Copying
<1>7. ListOK'
  BY <1>1, <1>2, <1>4 DEF ListOK, Adding, Clearing
<1>8. NoticeOK'
  BY <1>1, <1>2 DEF NoticeOK
<1> QED BY <1>3, <1>5, <1>6, <1>7, <1>8

LEMMA CreatorDiesPreserves ==
  ASSUME QueueCore, NEW c \in Card, CreatorDies(c)
  PROVE  QueueCore'
<1> USE DEF QueueCore
<1>1. /\ creator[c].at \in {"set", "zadd"} /\ faults' = faults + 1
      /\ UNCHANGED <<card, count, version, cached, listed, request, recent, notices, waived, requests, miscounted>>
      /\ mislisted' = TRUE
      /\ ~muddled' => ~muddled /\ creator[c].at # "set"
  BY DEF CreatorDies, Fault, rows, copies, throttle
<1>2. /\ creator' \in [Card -> CreatorRecord] /\ creator'[c].at = "done"
      /\ \A d \in Card : d # c => creator'[d] = creator[d]
  BY CreatorMoves DEF CreatorDies
<1>3. QueueTypes' /\ NewIsUnknown'
  BY <1>1, <1>2 DEF QueueTypes, NewIsUnknown
<1>4. CountOK'
  <2>1. Unsent' = Unsent /\ Uncounted' = Uncounted
    BY <1>1, <1>2 DEF Unsent, Uncounted
  <2> QED BY <1>1, <2>1, CountStays
<1>5. CacheOK'
  BY <1>1, <1>2 DEF CacheOK, Setting, Bringing, Holding, Copying
<1>6. ListOK' /\ NoticeOK'
  BY <1>1, <1>2 DEF ListOK, NoticeOK
<1> QED BY <1>3, <1>4, <1>5, <1>6

\* A creation that is not about to record leaves the throttle right.
LEMMA NobodyRecords ==
  ASSUME NoticeOK, NEW c \in Card, creator'[c].at # "record", UNCHANGED <<recent, notices, waived>>,
         \A d \in Card : d # c => creator'[d] = creator[d]
  PROVE  NoticeOK'
BY DEF NoticeOK

\* The throttle is tested and written after everything else.
LEMMA NotifyingPreserves ==
  ASSUME QueueCore, NEW c \in Card,
         CheckThreshold(c) \/ NotNow(c) \/ CheckThrottle(c) \/ RecordNotification(c)
  PROVE  QueueCore'
<1> USE DEF QueueCore
<1>1. /\ UNCHANGED <<card, count, version, cached, listed, request, requests, miscounted, muddled, mislisted>>
      /\ creator[c].at \in {"counts", "throttle", "record"} /\ faults' \in Nat /\ notices' \in Nat
  BY DEF CheckThreshold, NotNow, CheckThrottle, RecordNotification, Fault, rows, copies, throttle, causes, QueueTypes
<1>2. PICK at \in {"throttle", "record", "done"} : Go(c, at)
  BY DEF CheckThreshold, NotNow, CheckThrottle, RecordNotification
<1>3. /\ creator' \in [Card -> CreatorRecord] /\ creator'[c].at \in {"throttle", "record", "done"}
      /\ \A d \in Card : d # c => creator'[d] = creator[d]
  BY <1>2, CreatorMoves
<1>4. QueueTypes' /\ NewIsUnknown'
  BY <1>1, <1>3 DEF QueueTypes, NewIsUnknown
<1>5. CountOK'
  <2>1. Unsent' = Unsent /\ Uncounted' = Uncounted
    BY <1>1, <1>3 DEF Unsent, Uncounted
  <2> QED BY <1>1, <2>1, CountStays
<1>6. CacheOK'
  BY <1>1, <1>3 DEF CacheOK, Setting, Bringing, Holding, Copying
<1>7. ListOK'
  BY <1>1, <1>3 DEF ListOK, Adding, Clearing, Unsent
<1> SUFFICES NoticeOK'
  BY <1>4, <1>5, <1>6, <1>7
<1>8. CASE CheckThreshold(c) \/ NotNow(c)
  <2>1. UNCHANGED <<recent, notices, waived>> /\ creator'[c].at # "record"
    BY <1>8, CreatorMoves DEF CheckThreshold, NotNow, throttle
  <2> QED BY <1>3, <2>1, NobodyRecords
<1>9. CASE CheckThrottle(c)
  <2>1. UNCHANGED <<recent, notices>>
    BY <1>9 DEF CheckThrottle
  <2>2. CASE Go(c, "done") /\ UNCHANGED waived
    <3>1. creator'[c].at # "record"
      BY <2>2, CreatorMoves
    <3> QED BY <1>3, <2>1, <2>2, <3>1, NobodyRecords
  <2>3. CASE ~recent /\ waived' = (waived \/ \E d \in Card : creator[d].at = "record")
    <3>1. ~waived' => ~waived /\ \A d \in Card : creator[d].at # "record"
      BY <2>3, Zenon
    <3>2. ~recent' /\ notices' = 0
      BY <2>1, <2>3 DEF NoticeOK
    <3>3. ~waived' => \A d, e \in Card : creator'[d].at = "record" /\ creator'[e].at = "record" => d = e
      BY <1>3, <3>1
    <3> QED BY <3>2, <3>3 DEF NoticeOK
  <2>4. CASE waived' = TRUE
    BY <2>1, <2>4 DEF NoticeOK
  <2> QED BY <1>9, <2>2, <2>3, <2>4 DEF CheckThrottle, Throttled
<1>10. CASE RecordNotification(c)
  <2>1. creator[c].at = "record" /\ creator'[c].at = "done" /\ UNCHANGED waived
    BY <1>10, CreatorMoves DEF RecordNotification
  <2>2. CASE recent' = TRUE /\ notices' = notices + 1
    <3>1. ~waived => notices = 0 /\ \A d \in Card : creator'[d].at # "record"
      BY <1>3, <2>1 DEF NoticeOK
    <3>2. ~waived' => notices' = 1 /\ \A d \in Card : creator'[d].at # "record"
      BY <2>1, <2>2, <3>1 DEF QueueTypes
    <3> QED BY <2>2, <3>2 DEF NoticeOK
  <2>3. CASE UNCHANGED <<recent, notices>>
    BY <1>3, <2>1, <2>3, NobodyRecords
  <2> QED BY <1>10, <2>2, <2>3 DEF RecordNotification
<1> QED BY <1>8, <1>9, <1>10

LEMMA QuarterPreserves == QueueCore /\ QuarterPasses => QueueCore'
<1> SUFFICES ASSUME QueueCore, QuarterPasses PROVE QueueCore'
  OBVIOUS
<1> USE DEF QueueCore
<1>1. /\ UNCHANGED <<card, count, version, cached, listed, creator, request, requests, faults>>
      /\ UNCHANGED <<miscounted, muddled, mislisted>>
      /\ recent' = FALSE /\ notices' = 0 /\ waived' = \E c \in Card : creator[c].at = "record"
  BY DEF QuarterPasses, rows, copies, causes
<1>2. QueueTypes' /\ NewIsUnknown'
  BY <1>1 DEF QueueTypes, NewIsUnknown
<1>3. CountOK' /\ CacheOK' /\ ListOK'
  BY <1>1 DEF CountOK, CountIsRight, Uncounted, CacheOK, Setting, Bringing, Holding, Copying, ListOK, Adding, Clearing,
              Unsent
<1>4. NoticeOK'
  <2>1. ~waived' => \A c \in Card : creator'[c].at # "record"
    BY <1>1, Zenon
  <2>2. ~recent' /\ notices' <= 1
    BY <1>1
  <2> QED BY <1>1, <2>1, <2>2 DEF NoticeOK
<1> QED BY <1>2, <1>3, <1>4

LEMMA DecideElsewherePreserves ==
  ASSUME QueueCore, NEW c \in Card, DecideElsewhere(c)
  PROVE  QueueCore'
<1> USE DEF QueueCore
<1>1. /\ UNCHANGED <<count, version, cached, listed, creator, request, recent, notices, waived, requests, faults>>
      /\ UNCHANGED <<miscounted, muddled, mislisted>>
      /\ card[c] = "pending" /\ card' = [card EXCEPT ![c] = "approved"]
  BY DEF DecideElsewhere, copies, throttle, causes
<1>2. /\ card' \in [Card -> {"none", "pending", "approved", "sent"}] /\ card'[c] = "approved"
      /\ \A d \in Card : d # c => card'[d] = card[d]
  BY <1>1 DEF QueueTypes
<1>3. Unsent' = Unsent /\ Uncounted' = Uncounted
  BY <1>1, <1>2 DEF Unsent, Uncounted
<1>4. QueueTypes' /\ NewIsUnknown'
  BY <1>1, <1>2 DEF QueueTypes, NewIsUnknown
<1>5. CountOK'
  BY <1>1, <1>3, CountStays
<1>6. CacheOK' /\ NoticeOK'
  BY <1>1 DEF CacheOK, Setting, Bringing, Holding, Copying, NoticeOK
<1>7. ListOK'
  BY <1>1, <1>2, <1>3 DEF ListOK, Adding, Clearing
<1> QED BY <1>4, <1>5, <1>6, <1>7

\* A call that changes the version while nobody copies it is the only copier.
LEMMA VersionMoves ==
  ASSUME QueueTypes, CacheOK, NEW r \in Request, request[r].at = "idle", version' = version + 1,
         UNCHANGED <<cached, creator>>, ~muddled' => ~Copying,
         request'[r].at = "version" \/ (request'[r].at = "bumped" /\ request'[r].v = version + 1),
         \A q \in Request : q # r => request'[q] = request[q]
  PROVE  CacheOK'
<1>1. /\ \A d \in Card : creator[d].v \in Nat
      /\ \A q \in Request : request[q].v \in Nat
  BY DEF QueueTypes, CreatorRecord, RequestRecord
<1>2. /\ cached' <= version' /\ \A d \in Card : Setting(d)' => creator'[d].v <= version'
      /\ \A q \in Request : Holding(q)' => request'[q].v <= version'
  BY <1>1 DEF CacheOK, Setting, Holding, QueueTypes
<1>3. ASSUME ~muddled'
      PROVE  /\ \A d \in Card : ~Setting(d)
             /\ \A q \in Request : ~Bringing(q)
             /\ Copying'
  BY <1>3 DEF Copying, Setting, Bringing
<1> QED BY <1>2, <1>3 DEF CacheOK, Setting, Bringing, Holding

\* A card is cleared: it leaves the cards not sent, and the count if it is right.
LEMMA MarkCardSentPreserves ==
  ASSUME QueueCore, NEW c \in Card, NEW r \in Request, MarkCardSent(r, c)
  PROVE  QueueCore'
<1> USE DEF QueueCore
<1>1. /\ request[r].at = "idle" /\ card[c] # "none" /\ version' = version + 1 /\ requests' = requests + 1
      /\ request' = [request EXCEPT ![r] = [at |-> "version", card |-> c, v |-> 0]]
      /\ card' = [card EXCEPT ![c] = "sent"]
      /\ UNCHANGED <<cached, listed, creator, recent, notices, waived, faults, mislisted>>
  BY DEF MarkCardSent, copies, throttle
<1>2. /\ request' \in [Request -> RequestRecord] /\ request'[r].at = "version" /\ request'[r].card = c
      /\ \A q \in Request : q # r => request'[q] = request[q]
  BY <1>1 DEF QueueTypes, RequestRecord
<1>3. /\ card' \in [Card -> {"none", "pending", "approved", "sent"}] /\ card'[c] = "sent"
      /\ \A d \in Card : d # c => card'[d] = card[d]
  BY <1>1 DEF QueueTypes
<1>4. Unsent' = Unsent \ {c} /\ Uncounted' = Uncounted
  BY <1>1, <1>3 DEF Unsent, Uncounted
<1>5. count' = IF count > 0 THEN count - 1 ELSE 0
  BY DEF MarkCardSent, Decremented
<1>6. QueueTypes' /\ NewIsUnknown'
  BY <1>1, <1>2, <1>3, <1>5 DEF QueueTypes, NewIsUnknown
<1>7. CountOK'
  <2>1. Cardinality(Unsent) \in Nat /\ Cardinality(Uncounted) \in Nat
    BY FS_CardinalityType DEF CountOK
  <2>2. /\ IsFiniteSet(Unsent') /\ IsFiniteSet(Uncounted')
        /\ c \in Unsent => Cardinality(Unsent') = Cardinality(Unsent) - 1
    BY <1>4, FS_RemoveElement DEF CountOK
  <2>3. ~miscounted' => ~miscounted /\ c \in Unsent /\ count # 0
    BY Zenon DEF MarkCardSent
  <2>4. ASSUME ~miscounted' PROVE count' + Cardinality(Uncounted)' = Cardinality(Unsent)'
    <3>1. count + Cardinality(Uncounted) = Cardinality(Unsent)
      BY <2>3, <2>4 DEF CountOK, CountIsRight
    <3>2. count' = count - 1 /\ Cardinality(Unsent') = Cardinality(Unsent) - 1
      BY <1>5, <2>2, <2>3, <2>4 DEF QueueTypes
    <3> QED BY <1>4, <2>1, <3>1, <3>2 DEF QueueTypes
  <2> QED BY <2>2, <2>4 DEF CountOK, CountIsRight
<1>8. CacheOK'
  <2>1. ~muddled' => ~Copying
    BY Zenon DEF MarkCardSent
  <2> QED BY <1>1, <1>2, <2>1, VersionMoves
<1>9. ListOK'
  BY <1>1, <1>2, <1>3, <1>4 DEF ListOK, Adding, Clearing
<1>10. NoticeOK'
  BY <1>1 DEF NoticeOK
<1> QED BY <1>6, <1>7, <1>8, <1>9, <1>10

LEMMA IncrementPreserves ==
  ASSUME QueueCore, NEW r \in Request, IncrementServerVersion(r)
  PROVE  QueueCore'
<1> USE DEF QueueCore
<1>1. /\ request[r].at = "idle" /\ version' = version + 1 /\ requests' = requests + 1
      /\ request' = [request EXCEPT ![r] = [at |-> "bumped", card |-> "none", v |-> version + 1]]
      /\ UNCHANGED <<card, count, cached, listed, creator, recent, notices, waived, faults, miscounted, mislisted>>
  BY DEF IncrementServerVersion, copies, throttle
<1>2. /\ request' \in [Request -> RequestRecord] /\ request'[r].at = "bumped" /\ request'[r].v = version + 1
      /\ \A q \in Request : q # r => request'[q] = request[q]
  BY <1>1 DEF QueueTypes, RequestRecord
<1>3. Unsent' = Unsent /\ Uncounted' = Uncounted
  BY <1>1 DEF Unsent, Uncounted
<1>4. QueueTypes' /\ NewIsUnknown'
  BY <1>1, <1>2 DEF QueueTypes, NewIsUnknown
<1>5. CountOK'
  BY <1>1, <1>3, CountStays
<1>6. CacheOK'
  <2>1. ~muddled' => ~Copying
    BY Zenon DEF IncrementServerVersion
  <2> QED BY <1>1, <1>2, <2>1, VersionMoves
<1>7. ListOK' /\ NoticeOK'
  BY <1>1, <1>2, <1>3 DEF ListOK, Adding, Clearing, NoticeOK
<1> QED BY <1>4, <1>5, <1>6, <1>7

LEMMA GetServerVersionPreserves ==
  ASSUME QueueCore, NEW r \in Request, GetServerVersion(r)
  PROVE  QueueCore'
<1> USE DEF QueueCore
<1>1. /\ request[r].at = "version"
      /\ UNCHANGED <<card, count, version, cached, listed, creator, recent, notices, waived, requests>>
      /\ UNCHANGED <<miscounted, mislisted>>
  BY DEF GetServerVersion, rows, copies, throttle
<1>2. /\ request' \in [Request -> RequestRecord] /\ request'[r].at = "set" /\ request'[r].card = request[r].card
      /\ \A q \in Request : q # r => request'[q] = request[q]
      /\ (request'[r].v = version /\ UNCHANGED <<faults, muddled>>)
           \/ (request'[r].v = 0 /\ faults' = faults + 1 /\ muddled' = TRUE)
  BY DEF GetServerVersion, Fault, QueueTypes, RequestRecord
<1>3. QueueTypes' /\ NewIsUnknown'
  BY <1>1, <1>2 DEF QueueTypes, NewIsUnknown
<1>4. Unsent' = Unsent /\ Uncounted' = Uncounted
  BY <1>1 DEF Unsent, Uncounted
<1>5. CountOK'
  BY <1>1, <1>4, CountStays
<1>6. CacheOK'
  BY <1>1, <1>2 DEF CacheOK, Setting, Bringing, Holding, Copying, QueueTypes
<1>7. ListOK' /\ NoticeOK'
  BY <1>1, <1>2, <1>4 DEF ListOK, Adding, Clearing, NoticeOK
<1> QED BY <1>3, <1>5, <1>6, <1>7

LEMMA CopyVersionPreserves ==
  ASSUME QueueCore, NEW r \in Request, CopyVersion(r)
  PROVE  QueueCore'
<1> USE DEF QueueCore
<1>1. /\ request[r].at \in {"set", "bumped"}
      /\ UNCHANGED <<card, count, version, listed, creator, recent, notices, waived, requests>>
      /\ UNCHANGED <<miscounted, mislisted>>
      /\ \/ cached' = request[r].v /\ UNCHANGED <<faults, muddled>>
         \/ faults' = faults + 1 /\ muddled' = TRUE /\ UNCHANGED cached
  BY DEF CopyVersion, Fault, rows, throttle
<1>2. /\ request' \in [Request -> RequestRecord]
      /\ \/ request[r].at = "set" /\ request'[r].at = "zrem" /\ request'[r].card = request[r].card
         \/ request[r].at = "bumped" /\ request'[r].at = "idle"
      /\ \A q \in Request : q # r => request'[q] = request[q]
  BY <1>1 DEF CopyVersion, Reach, Answer, IdleRequest, QueueTypes, RequestRecord
<1>3. request[r].v \in Nat
  BY DEF QueueTypes, RequestRecord
<1>4. QueueTypes' /\ NewIsUnknown'
  BY <1>1, <1>2, <1>3 DEF QueueTypes, NewIsUnknown
<1>5. Unsent' = Unsent /\ Uncounted' = Uncounted
  BY <1>1 DEF Unsent, Uncounted
<1>6. CountOK'
  BY <1>1, <1>5, CountStays
<1>7. CacheOK'
  BY <1>1, <1>2 DEF CacheOK, Setting, Bringing, Holding, Copying
<1>8. ListOK' /\ NoticeOK'
  BY <1>1, <1>2, <1>5 DEF ListOK, Adding, Clearing, NoticeOK
<1> QED BY <1>4, <1>6, <1>7, <1>8

\* The card leaves the sorted set, unless its creation is about to add it.
LEMMA ZRemPreserves ==
  ASSUME QueueCore, NEW r \in Request, ZRem(r)
  PROVE  QueueCore'
<1> USE DEF QueueCore
<1>1. /\ request[r].at = "zrem"
      /\ UNCHANGED <<card, count, version, cached, creator, recent, notices, waived, requests>>
      /\ UNCHANGED <<miscounted, muddled>>
      /\ faults' \in Nat
  BY DEF ZRem, Fault, rows, throttle, QueueTypes
<1>2. /\ request' \in [Request -> RequestRecord] /\ request'[r].at = "idle"
      /\ \A q \in Request : q # r => request'[q] = request[q]
  BY DEF ZRem, Answer, IdleRequest, QueueTypes, RequestRecord
<1>3. request[r].card \in Card /\ card[request[r].card] = "sent"
  BY <1>1 DEF ListOK
<1>4. /\ listed' \subseteq Card
      /\ ~mislisted' => ~mislisted /\ listed' = listed \ {request[r].card} /\ ~Adding(request[r].card)
  <2>1. CASE Fault /\ mislisted' = TRUE /\ UNCHANGED listed
    BY <2>1 DEF QueueTypes
  <2>2. CASE /\ listed' = listed \ Found(r)
             /\ mislisted' = (mislisted \/ creator[request[r].card].at \in {"inserted", "set", "zadd"})
    <3>1. ~mislisted' => ~mislisted /\ ~Adding(request[r].card)
      BY <2>2, Zenon DEF Adding
    <3>2. listed' = listed \ {request[r].card}
      BY <2>2 DEF Found
    <3> QED BY <3>1, <3>2 DEF QueueTypes
  <2> QED BY <2>1, <2>2 DEF ZRem
<1>5. QueueTypes' /\ NewIsUnknown'
  BY <1>1, <1>2, <1>4 DEF QueueTypes, NewIsUnknown
<1>6. Unsent' = Unsent /\ Uncounted' = Uncounted
  BY <1>1 DEF Unsent, Uncounted
<1>7. CountOK'
  BY <1>1, <1>6, CountStays
<1>8. CacheOK' /\ NoticeOK'
  BY <1>1, <1>2 DEF CacheOK, Setting, Bringing, Holding, Copying, NoticeOK
<1>9. ListOK'
  <2>1. request[r].card \notin Unsent
    BY <1>3 DEF Unsent
  <2> QED BY <1>1, <1>2, <1>3, <1>4, <1>6, <2>1 DEF ListOK, Adding, Clearing
<1> QED BY <1>5, <1>7, <1>8, <1>9

LEMMA RequestDiesPreserves ==
  ASSUME QueueCore, NEW r \in Request, RequestDies(r)
  PROVE  QueueCore'
<1> USE DEF QueueCore
<1>1. /\ request[r].at # "idle" /\ faults' = faults + 1
      /\ UNCHANGED <<card, count, version, cached, listed, creator, recent, notices, waived, requests, miscounted>>
  BY DEF RequestDies, Fault, rows, copies, throttle
<1>2. /\ ~muddled' => ~muddled /\ request[r].at = "zrem"
      /\ ~mislisted' => ~mislisted /\ request[r].at = "bumped"
  BY Zenon DEF RequestDies
<1>3. /\ request' \in [Request -> RequestRecord] /\ request'[r].at = "idle"
      /\ \A q \in Request : q # r => request'[q] = request[q]
  BY DEF RequestDies, Answer, IdleRequest, QueueTypes, RequestRecord
<1>4. QueueTypes' /\ NewIsUnknown'
  BY <1>1, <1>3 DEF QueueTypes, NewIsUnknown
<1>5. Unsent' = Unsent /\ Uncounted' = Uncounted
  BY <1>1 DEF Unsent, Uncounted
<1>6. CountOK'
  BY <1>1, <1>5, CountStays
<1>7. CacheOK'
  BY <1>1, <1>2, <1>3 DEF CacheOK, Setting, Bringing, Holding, Copying
<1>8. ListOK' /\ NoticeOK'
  BY <1>1, <1>2, <1>3, <1>5 DEF ListOK, Adding, Clearing, NoticeOK
<1> QED BY <1>4, <1>6, <1>7, <1>8

\* The flags stay flags: a step keeps each, sets it or computes it.
LEMMA QueueFlagsStay == QueueFlags /\ [QueueNext]_queueVars => QueueFlags'
<1> SUFFICES ASSUME QueueFlags, [QueueNext]_queueVars PROVE QueueFlags'
  OBVIOUS
<1> USE DEF QueueFlags
<1>1. ASSUME NEW c \in Card,
             \/ Insert(c) \/ CountCard(c) \/ CountFails(c) \/ SetVersion(c) \/ ZAdd(c) \/ CreatorDies(c)
             \/ CheckThreshold(c) \/ NotNow(c) \/ CheckThrottle(c) \/ RecordNotification(c) \/ DecideElsewhere(c)
      PROVE  QueueFlags'
  BY <1>1, Zenon DEF Insert, CountCard, CountFails, SetVersion, ZAdd, CreatorDies, CheckThreshold, NotNow,
     CheckThrottle, RecordNotification, DecideElsewhere, throttle, causes, Copying
<1>2. ASSUME NEW r \in Request,
             \/ \E c \in Card : MarkCardSent(r, c)
             \/ GetServerVersion(r) \/ IncrementServerVersion(r) \/ CopyVersion(r) \/ ZRem(r) \/ RequestDies(r)
      PROVE  QueueFlags'
  BY <1>2, Zenon DEF MarkCardSent, GetServerVersion, IncrementServerVersion, CopyVersion, ZRem, RequestDies,
     throttle, causes, Copying
<1>3. ASSUME QuarterPasses \/ UNCHANGED queueVars PROVE QueueFlags'
  BY <1>3, Zenon DEF QuarterPasses, causes, queueVars
<1> QED BY <1>1, <1>2, <1>3 DEF QueueNext

LEMMA QueueInductive == QInv /\ [QueueNext]_queueVars => QInv'
<1> SUFFICES ASSUME QueueCore, [QueueNext]_queueVars PROVE QueueCore'
  BY QueueFlagsStay DEF QInv
<1>1. ASSUME NEW c \in Card,
             Insert(c) \/ CountCard(c) \/ CountFails(c) \/ SetVersion(c) \/ ZAdd(c) \/ CreatorDies(c)
      PROVE  QueueCore'
  BY <1>1, InsertCard, CountingPreserves, CountFailsPreserves, SetVersionPreserves, ZAddPreserves, CreatorDiesPreserves
<1>2. ASSUME NEW c \in Card,
             \/ CheckThreshold(c) \/ NotNow(c) \/ CheckThrottle(c) \/ RecordNotification(c) \/ DecideElsewhere(c)
      PROVE  QueueCore'
  BY <1>2, NotifyingPreserves, DecideElsewherePreserves
<1>3. ASSUME NEW r \in Request, NEW c \in Card, MarkCardSent(r, c) PROVE QueueCore'
  BY <1>3, MarkCardSentPreserves
<1>4. ASSUME NEW r \in Request,
             GetServerVersion(r) \/ IncrementServerVersion(r) \/ CopyVersion(r) \/ ZRem(r) \/ RequestDies(r)
      PROVE  QueueCore'
  BY <1>4, GetServerVersionPreserves, IncrementPreserves, CopyVersionPreserves, ZRemPreserves, RequestDiesPreserves
<1>5. ASSUME UNCHANGED queueVars PROVE QueueCore'
  BY <1>5 DEF queueVars, QueueCore, QueueTypes, NewIsUnknown, CountOK, CountIsRight, Uncounted, Unsent, CacheOK,
     Setting, Bringing, Holding, Copying, ListOK, Adding, Clearing, NoticeOK
<1> QED BY <1>1, <1>2, <1>3, <1>4, <1>5, QuarterPreserves DEF QueueNext

LEMMA QInvIsSound == QInv => QueueInv
<1> SUFFICES ASSUME QInv PROVE QueueInv
  OBVIOUS
<1>1. QueueTypeOK
  <2>1. {recent, miscounted, muddled, mislisted, waived} \subseteq BOOLEAN
    BY DEF QInv, QueueFlags
  <2> QED BY <2>1 DEF QInv, QueueCore, QueueTypes, QueueTypeOK, CreatorRecord, RequestRecord
<1>2. CountIsRight /\ CacheIsRight
  BY DEF QInv, QueueCore, CountOK, CacheOK, CacheIsRight
<1>3. ListIsRight
  <2> SUFFICES ASSUME ~Listing, ~mislisted PROVE listed = Unsent
    BY DEF ListIsRight
  <2>1. \A c \in Card : c \in listed <=> c \in Unsent
    BY DEF QInv, QueueCore, ListOK, Listing, Adding, Clearing
  <2> QED BY <2>1 DEF QInv, QueueCore, QueueTypes, Unsent
<1>4. NotifiedOnce
  BY DEF QInv, QueueCore, NoticeOK, NotifiedOnce, QueueTypes
<1> QED BY <1>1, <1>2, <1>3, <1>4 DEF QueueInv

\* Count, cached version, sorted set and throttle of a queue agree with its cards
\* but for the causes named: for any number of cards, calls, failures and crashes.
THEOREM QueueIsSound == QueueSpec => []QueueInv
<1>1. QueueInit => QInv
  BY QueueInitially
<1>2. QInv /\ [QueueNext]_queueVars => QInv'
  BY QueueInductive
<1>3. QInv => QueueInv
  BY QInvIsSound
<1> QED BY <1>1, <1>2, <1>3, PTL DEF QueueSpec

-------------------------------------------------------------------------------
(* OfflineMerge.  StaleHasACause speaks of devices that are not syncing, so *)
(* more must be known of a request under way: before its snapshot the       *)
(* filter is still the cursor of the device (BeforeOK); after it the        *)
(* snapshot shows the states of now, and what it does not show the device   *)
(* has right (AfterOK); two requests of one device excuse everything        *)
(* (AloneOK).                                                               *)

Before == {"apply", "approve"}
After == {"version", "reply", "cursor", "merge"}

RequestsOK ==
  \A r \in Sync :
    /\ sync[r].at = "idle" <=> sync[r].dev = "none"
    /\ sync[r].todo \subseteq sync[r].pending
    /\ sync[r].at \in After => sync[r].todo = {}
    /\ sync[r].at = "approve" =>
         sync[r].item \in Item /\ (state[sync[r].item] = "sent" => sync[r].item \in raced)
    /\ \A i \in sync[r].accepted : i \in applied \/ <<i, "approve_draft">> \in sync[r].pending

AloneOK ==
  \A r, q \in Sync : r # q /\ sync[r].dev = sync[q].dev /\ sync[r].dev # "none" =>
    \A i \in Item : <<sync[r].dev, i>> \in excused

BeforeOK ==
  \A r \in Sync, i \in Item :
    sync[r].at \in Before /\ <<sync[r].dev, i>> \notin excused => sync[r].since = cursor[sync[r].dev]

AfterOK ==
  \A r \in Sync, i \in Item :
    sync[r].at \in After /\ <<sync[r].dev, i>> \notin excused =>
      /\ i \in sync[r].found => sync[r].shown[i] = state[i]
      /\ i \notin sync[r].found => copy[sync[r].dev][i] \in {"none", state[i]}
      /\ i \in sync[r].found /\ sync[r].at # "merge" => v[i] > cursor[sync[r].dev]

ViewOK ==
  \A d \in Device, i \in Item :
    <<d, i>> \notin excused /\ (\A r \in Sync : sync[r].dev = d => sync[r].at \in Before) =>
      copy[d][i] \in {"none", state[i]} \/ v[i] > cursor[d]

MInv == MergeTypeOK /\ RequestsOK /\ AloneOK /\ BeforeOK /\ AfterOK /\ ViewOK /\ CompletedIsApplied /\ ApprovedTogether

-------------------------------------------------------------------------------
(* A step of request r. *)

\* One request changes, the others stay.
LEMMA OneRequest ==
  ASSUME MergeTypeOK, NEW r \in Sync, NEW w \in SyncRequest, sync' = [sync EXCEPT ![r] = w]
  PROVE  /\ sync' \in [Sync -> SyncRequest] /\ sync'[r] = w
         /\ \A q \in Sync : q # r => sync'[q] = sync[q]
BY DEF MergeTypeOK

\* A request is a record with these fields.
LEMMA RequestFields ==
  ASSUME MergeTypeOK, NEW r \in Sync
  PROVE  /\ sync[r] \in SyncRequest
         /\ sync[r].dev \in Device \cup {"none"} /\ sync[r].since \in Nat
         /\ sync[r].pending \subseteq Item \X Kind /\ sync[r].todo \subseteq Item \X Kind
         /\ sync[r].item \in Item \cup {"none"} /\ sync[r].accepted \subseteq Item
         /\ sync[r].found \subseteq Item /\ sync[r].fresh \subseteq Item
         /\ sync[r].shown \in [Item -> {"none", "pending", "approved", "sent"}]
BY DEF MergeTypeOK, SyncRequest

LEMMA IdleIsRequest == IdleSync \in SyncRequest
BY DEF IdleSync, SyncRequest

LEMMA MergeInitially == MergeInit => MInv
<1> SUFFICES ASSUME MergeInit PROVE MInv
  OBVIOUS
<1> USE DEF MergeInit
<1>1. MergeTypeOK
  BY IdleIsRequest DEF MergeTypeOK
<1>2. \A r \in Sync : sync[r].at = "idle" /\ sync[r].dev = "none" /\ sync[r].todo = {} /\ sync[r].accepted = {}
  BY DEF IdleSync
<1>3. RequestsOK /\ AloneOK /\ BeforeOK /\ AfterOK
  BY <1>2, NoneIsNothing DEF RequestsOK, AloneOK, BeforeOK, AfterOK, Before, After
<1>4. ViewOK /\ CompletedIsApplied /\ ApprovedTogether
  BY DEF ViewOK, CompletedIsApplied, ApprovedTogether
<1> QED BY <1>1, <1>3, <1>4 DEF MInv

-------------------------------------------------------------------------------
(* Each action preserves MInv. *)

LEMMA IncrementKeeps == MInv /\ IncrementVersion => MInv'
<1> SUFFICES ASSUME MInv, IncrementVersion PROVE MInv'
  OBVIOUS
<1> USE DEF IncrementVersion, server, client, past
<1>1. MergeTypeOK' BY DEF MInv, MergeTypeOK
<1>2. RequestsOK' /\ AloneOK' /\ BeforeOK' /\ AfterOK' BY DEF MInv, RequestsOK, AloneOK, BeforeOK, AfterOK
<1>3. ViewOK' /\ CompletedIsApplied' /\ ApprovedTogether' BY DEF MInv, ViewOK, CompletedIsApplied, ApprovedTogether
<1> QED BY <1>1, <1>2, <1>3 DEF MInv

LEMMA Enqueues == ASSUME NEW d \in Device, NEW i \in Item PROVE MInv /\ Enqueue(d, i) => MInv'
<1> SUFFICES ASSUME MInv, Enqueue(d, i) PROVE MInv'
  OBVIOUS
<1> USE DEF Enqueue, server, past
<1>1. MergeTypeOK'
  <2>1. PICK kinds \in SUBSET Kind : waiting' = [waiting EXCEPT ![d] = @ \cup ({i} \X kinds)]
    OBVIOUS
  <2>2. waiting[d] \cup ({i} \X kinds) \in SUBSET (Item \X Kind)
    BY DEF MInv, MergeTypeOK
  <2>3. waiting' \in [Device -> SUBSET (Item \X Kind)]
    BY <2>1, <2>2 DEF MInv, MergeTypeOK
  <2> QED BY <2>3 DEF MInv, MergeTypeOK
<1>2. RequestsOK' /\ AloneOK' /\ BeforeOK' /\ AfterOK' BY DEF MInv, RequestsOK, AloneOK, BeforeOK, AfterOK
<1>3. ViewOK' /\ CompletedIsApplied' /\ ApprovedTogether' BY DEF MInv, ViewOK, CompletedIsApplied, ApprovedTogether
<1> QED BY <1>1, <1>2, <1>3 DEF MInv

\* A new version of card i excuses a device, or the next filter shows it.
LEMMA BlindOrShown ==
  ASSUME MergeTypeOK, RequestsOK, NEW i \in Item, NEW x \in Nat, NEW d \in Device
  PROVE  /\ Blind(i, x) \subseteq Device \X Item
         /\ <<d, i>> \in Blind(i, x) \/ x > cursor[d]
         /\ \A r \in Sync : sync[r].dev = d /\ sync[r].at \in After => <<d, i>> \in Blind(i, x)
<1>1. Blind(i, x) \subseteq Device \X Item
  BY DEF Blind
<1>2. <<d, i>> \in Blind(i, x) \/ x > cursor[d]
  BY DEF Blind, MergeTypeOK
<1>3. ASSUME NEW r \in Sync, sync[r].dev = d, sync[r].at \in After PROVE <<d, i>> \in Blind(i, x)
  BY <1>3 DEF Blind, Active, After
<1> QED BY <1>1, <1>2, <1>3

\* The state of one card changes with its version, or with every device excused.
LEMMA CardChanges ==
  ASSUME MInv, NEW i \in Item, NEW s \in {"approved", "sent"}, NEW more \in SUBSET (Device \X Item),
         state' = [state EXCEPT ![i] = s], excused' = excused \cup more,
         \/ v' = [v EXCEPT ![i] = v[i] + 1] /\ more = Blind(i, v[i] + 1)
         \/ v' = v /\ more = {<<d, i>> : d \in Device},
         UNCHANGED <<cursor, copy>>,
         \A r \in Sync : /\ sync'[r].dev = sync[r].dev /\ sync'[r].since = sync[r].since
                         /\ sync'[r].at \in After <=> sync[r].at \in After
                         /\ sync'[r].at \in Before <=> sync[r].at \in Before
                         /\ sync'[r].at = "merge" <=> sync[r].at = "merge"
                         /\ sync'[r].found = sync[r].found /\ sync'[r].shown = sync[r].shown
  PROVE  AloneOK' /\ BeforeOK' /\ AfterOK' /\ ViewOK'
<1> USE DEF MInv
<1>1. /\ v[i] + 1 \in Nat /\ state'[i] = s /\ \A j \in Item : j # i => state'[j] = state[j] /\ v'[j] = v[j]
      /\ \A d \in Device : <<d, i>> \in excused' \/ v'[i] > cursor[d]
      /\ \A d \in Device, r \in Sync : sync[r].dev = d /\ sync[r].at \in After => <<d, i>> \in excused'
  BY BlindOrShown DEF MergeTypeOK
<1>2. AloneOK' /\ BeforeOK'
  BY DEF AloneOK, BeforeOK
<1>3. ASSUME NEW r \in Sync, NEW j \in Item, sync'[r].at \in After, <<sync[r].dev, j>> \notin excused'
      PROVE  /\ j \in sync[r].found => sync[r].shown[j] = state'[j]
             /\ j \notin sync[r].found => copy[sync[r].dev][j] \in {"none", state'[j]}
             /\ j \in sync[r].found /\ sync[r].at # "merge" => v'[j] > cursor[sync[r].dev]
  <2>1. sync[r].dev \in Device
    BY <1>3, RequestFields DEF After, RequestsOK
  <2>2. j # i
    BY <1>1, <1>3, <2>1
  <2> QED BY <1>1, <1>3, <2>2 DEF AfterOK
<1>4. AfterOK'
  BY <1>3 DEF AfterOK
<1>5. ViewOK'
  BY <1>1 DEF ViewOK
<1> QED BY <1>2, <1>4, <1>5

LEMMA Decides == ASSUME NEW i \in Item PROVE MInv /\ DecideOnline(i) => MInv'
<1> SUFFICES ASSUME MInv, DecideOnline(i) PROVE MInv'
  OBVIOUS
<1> USE DEF DecideOnline, client
<1>1. Blind(i, v[i] + 1) \in SUBSET (Device \X Item)
  BY DEF Blind
<1>2. AloneOK' /\ BeforeOK' /\ AfterOK' /\ ViewOK'
  BY <1>1, CardChanges
<1>3. MergeTypeOK'
  BY <1>1 DEF MInv, MergeTypeOK
<1>4. RequestsOK' /\ CompletedIsApplied' /\ ApprovedTogether'
  BY DEF MInv, MergeTypeOK, RequestsOK, CompletedIsApplied, ApprovedTogether
<1> QED BY <1>2, <1>3, <1>4 DEF MInv

LEMMA Sends == ASSUME NEW i \in Item PROVE MInv /\ SendCard(i) => MInv'
<1> SUFFICES ASSUME MInv, SendCard(i) PROVE MInv'
  OBVIOUS
<1> USE DEF SendCard, client
<1> DEFINE all == {<<d, i>> : d \in Device}
<1>1. Blind(i, v[i] + 1) \in SUBSET (Device \X Item) /\ all \in SUBSET (Device \X Item)
  BY DEF Blind
<1>2. AloneOK' /\ BeforeOK' /\ AfterOK' /\ ViewOK'
  <2>1. CASE v' = [v EXCEPT ![i] = v[i] + 1] /\ excused' = excused \cup Blind(i, v[i] + 1)
    BY <1>1, <2>1, CardChanges
  <2>2. CASE v' = v /\ excused' = excused \cup all
    BY <1>1, <2>2, CardChanges
  <2> QED BY <2>1, <2>2
<1>3. MergeTypeOK'
  BY <1>1 DEF MInv, MergeTypeOK
<1>4. RequestsOK'
  <2> SUFFICES ASSUME NEW r \in Sync, sync[r].at = "approve", state'[sync[r].item] = "sent"
               PROVE  sync[r].item \in raced'
    BY DEF MInv, RequestsOK
  <2> QED BY DEF MInv, MergeTypeOK, RequestsOK, At
<1>5. CompletedIsApplied' /\ ApprovedTogether'
  BY DEF MInv, MergeTypeOK, CompletedIsApplied, ApprovedTogether
<1> QED BY <1>2, <1>3, <1>4, <1>5 DEF MInv

LEMMA Starts == ASSUME NEW r \in Sync, NEW d \in Device PROVE MInv /\ StartSync(r, d) => MInv'
<1> SUFFICES ASSUME MInv, StartSync(r, d) PROVE MInv'
  OBVIOUS
<1>0. /\ sync[r].at = "idle"
      /\ excused' = IF Active(d) = {} THEN excused ELSE excused \cup {<<d, i>> : i \in Item}
      /\ UNCHANGED <<state, v, drafted, queueVersion, waiting, cursor, copy, decisions, losses, completed, applied, raced>>
  BY DEF StartSync, At, server, client
<1>1. PICK todo \in Payloads(waiting[d]) :
        sync' = [sync EXCEPT ![r] = [IdleSync EXCEPT !.at = "apply", !.dev = d, !.since = cursor[d],
                                                     !.pending = waiting[d], !.todo = todo]]
  BY DEF StartSync
<1>2. PICK w : w = [IdleSync EXCEPT !.at = "apply", !.dev = d, !.since = cursor[d],
                                    !.pending = waiting[d], !.todo = todo]
  OBVIOUS
<1>3. /\ w \in SyncRequest /\ w.at = "apply" /\ w.dev = d /\ w.since = cursor[d]
      /\ w.pending = waiting[d] /\ w.todo = todo /\ todo \subseteq w.pending /\ w.accepted = {}
  <2>1. waiting[d] \in SUBSET (Item \X Kind) /\ cursor[d] \in Nat
    BY DEF MInv, MergeTypeOK
  <2>2. todo \subseteq waiting[d]
    BY <1>1 DEF Payloads
  <2> QED BY <1>2, <2>1, <2>2 DEF IdleSync, SyncRequest
<1>4. sync' \in [Sync -> SyncRequest] /\ sync'[r] = w /\ \A q \in Sync : q # r => sync'[q] = sync[q]
  BY <1>1, <1>2, <1>3, OneRequest DEF MInv
<1>5. /\ excused \subseteq excused' /\ excused' \subseteq Device \X Item
      /\ \A q \in Sync, i \in Item : q # r /\ sync[q].dev = d => <<d, i>> \in excused'
  BY <1>0 DEF MInv, MergeTypeOK, Active
<1>6. sync[r].dev = "none" /\ sync[r].at = "idle" /\ d # "none"
  BY <1>0, NoneIsNothing DEF MInv, RequestsOK
<1>7. MergeTypeOK'
  BY <1>0, <1>4, <1>5 DEF MInv, MergeTypeOK
<1>8. RequestsOK'
  BY <1>0, <1>3, <1>4, <1>6 DEF MInv, RequestsOK, Before, After
<1>9. AloneOK'
  <2> SUFFICES ASSUME NEW p \in Sync, NEW q \in Sync, p # q, sync'[p].dev = sync'[q].dev, sync'[p].dev # "none",
                      NEW i \in Item
               PROVE  <<sync'[p].dev, i>> \in excused'
    BY DEF AloneOK
  <2>1. CASE p = r \/ q = r
    BY <1>3, <1>4, <1>5, <2>1
  <2>2. CASE p # r /\ q # r
    BY <1>4, <1>5, <2>2 DEF MInv, AloneOK
  <2> QED BY <2>1, <2>2
<1>10. BeforeOK' /\ AfterOK'
  BY <1>0, <1>3, <1>4, <1>5 DEF MInv, BeforeOK, AfterOK, Before, After
<1>11. ViewOK'
  <2> SUFFICES ASSUME NEW e \in Device, NEW i \in Item, <<e, i>> \notin excused',
                      \A q \in Sync : sync'[q].dev = e => sync'[q].at \in Before
               PROVE  copy[e][i] \in {"none", state[i]} \/ v[i] > cursor[e]
    BY <1>0 DEF ViewOK
  <2>1. \A q \in Sync : sync[q].dev = e => sync[q].at \in Before
    BY <1>4, <1>6, NoneIsNothing
  <2> QED BY <1>5, <2>1 DEF MInv, ViewOK
<1>12. CompletedIsApplied' /\ ApprovedTogether'
  BY <1>0 DEF MInv, CompletedIsApplied, ApprovedTogether
<1> QED BY <1>7, <1>8, <1>9, <1>10, <1>11, <1>12 DEF MInv

\* A request that has no snapshot yet stays without one and keeps its filter.
LEMMA StaysBefore ==
  ASSUME MInv, NEW r \in Sync, NEW w \in SyncRequest, sync' = [sync EXCEPT ![r] = w],
         sync[r].at \in Before, w.at \in Before, w.dev = sync[r].dev, w.since = sync[r].since,
         UNCHANGED <<state, v, cursor, copy, excused>>
  PROVE  sync' \in [Sync -> SyncRequest] /\ AloneOK' /\ BeforeOK' /\ AfterOK' /\ ViewOK'
<1> USE DEF MInv
<1>1. sync' \in [Sync -> SyncRequest] /\ sync'[r] = w /\ \A q \in Sync : q # r => sync'[q] = sync[q]
  BY OneRequest
<1>2. AloneOK' /\ BeforeOK'
  BY <1>1 DEF AloneOK, BeforeOK
<1>3. AfterOK'
  BY <1>1 DEF AfterOK, Before, After
<1>4. ViewOK'
  BY <1>1 DEF ViewOK
<1> QED BY <1>1, <1>2, <1>3, <1>4

\* Request r after Finish, with A the cards it has accepted then.
Finished(r, u, A) == [sync[r] EXCEPT !.at = "apply", !.item = "none", !.todo = @ \ {u}, !.accepted = A]

LEMMA FinishedRequest ==
  ASSUME MInv, NEW r \in Sync, NEW u, NEW A \in SUBSET Item
  PROVE  LET w == Finished(r, u, A) IN
           /\ w \in SyncRequest
           /\ w.at = "apply" /\ w.dev = sync[r].dev /\ w.since = sync[r].since /\ w.pending = sync[r].pending
           /\ w.found = sync[r].found /\ w.shown = sync[r].shown /\ w.todo \subseteq sync[r].todo
           /\ w.accepted = A
<1>1. PICK w : w = [sync[r] EXCEPT !.at = "apply", !.item = "none", !.todo = @ \ {u}, !.accepted = A]
  OBVIOUS
<1>2. sync[r] \in SyncRequest
  BY RequestFields DEF MInv
<1>3. /\ w.at = "apply" /\ w.dev = sync[r].dev /\ w.since = sync[r].since /\ w.pending = sync[r].pending
      /\ w.found = sync[r].found /\ w.shown = sync[r].shown /\ w.todo = sync[r].todo \ {u}
      /\ w.accepted = A
  BY <1>1, <1>2 DEF SyncRequest
<1>4. w \in SyncRequest
  BY <1>1, <1>2 DEF SyncRequest
<1>5. Finished(r, u, A) = w
  BY <1>1 DEF Finished
<1> QED BY <1>3, <1>4, <1>5

LEMMA Checks == ASSUME NEW r \in Sync PROVE MInv /\ CheckChange(r) => MInv'
<1> SUFFICES ASSUME MInv, CheckChange(r) PROVE MInv'
  OBVIOUS
<1>1. /\ sync[r].at = "apply" /\ sync[r].at \in Before
      /\ UNCHANGED <<state, v, drafted, queueVersion, waiting, cursor, copy, decisions, completed, applied, raced, excused>>
  BY DEF CheckChange, At, server, client, past, Before
<1>2. losses' \in Nat
  <2>1. losses' = losses \/ losses' = losses + 1
    BY DEF CheckChange, Loss
  <2> QED BY <2>1 DEF MInv, MergeTypeOK
<1>3. PICK u \in sync[r].todo :
        \/ ~IsTerminal(state[u[1]]) /\ u[2] = "update_card"
           /\ sync' = [sync EXCEPT ![r].at = "approve", ![r].item = u[1]]
        \/ u[2] # "update_card" /\ Finish(r, u, TRUE)
        \/ Finish(r, u, FALSE)
  BY DEF CheckChange
<1>4. u \in Item \X Kind /\ u \in sync[r].pending
  BY RequestFields DEF MInv, RequestsOK
<1>5. \E w \in SyncRequest :
        /\ sync' = [sync EXCEPT ![r] = w]
        /\ w.at \in Before /\ w.dev = sync[r].dev /\ w.since = sync[r].since /\ w.pending = sync[r].pending
        /\ w.todo \subseteq w.pending
        /\ w.at = "approve" => w.item \in Item /\ state[w.item] # "sent"
        /\ w.accepted # sync[r].accepted => w.accepted = sync[r].accepted \cup {u[1]} /\ u[2] # "update_card"
  <2>1. sync[r].todo \subseteq sync[r].pending /\ sync[r].accepted \subseteq Item /\ u[1] \in Item
    BY <1>4, RequestFields DEF MInv, RequestsOK
  <2>2. CASE u[2] # "update_card" /\ Finish(r, u, TRUE)
    <3>1. \E w \in SyncRequest :
            /\ sync' = [sync EXCEPT ![r] = w]
            /\ w.at = "apply" /\ w.dev = sync[r].dev /\ w.since = sync[r].since /\ w.pending = sync[r].pending
            /\ w.todo \subseteq sync[r].todo /\ w.accepted = sync[r].accepted \cup {u[1]}
      <4>1. PICK w : w = Finished(r, u, sync[r].accepted \cup {u[1]})
        OBVIOUS
      <4>2. sync' = [sync EXCEPT ![r] = w]
        BY <2>2, <4>1 DEF Finish, Finished
      <4>3. sync[r].accepted \cup {u[1]} \in SUBSET Item
        BY <2>1, RequestFields DEF MInv
      <4>4. /\ w \in SyncRequest
           /\ w.at = "apply" /\ w.dev = sync[r].dev /\ w.since = sync[r].since /\ w.pending = sync[r].pending
           /\ w.found = sync[r].found /\ w.shown = sync[r].shown /\ w.todo \subseteq sync[r].todo
           /\ w.accepted = sync[r].accepted \cup {u[1]}
        BY <4>1, <4>3, FinishedRequest
      <4> QED BY <4>2, <4>4
    <3> QED BY <2>1, <2>2, <3>1 DEF Before
  <2>3. CASE Finish(r, u, FALSE)
    <3>1. \E w \in SyncRequest :
            /\ sync' = [sync EXCEPT ![r] = w]
            /\ w.at = "apply" /\ w.dev = sync[r].dev /\ w.since = sync[r].since /\ w.pending = sync[r].pending
            /\ w.todo \subseteq sync[r].todo /\ w.accepted = sync[r].accepted
      <4>1. PICK w : w = Finished(r, u, sync[r].accepted)
        OBVIOUS
      <4>2. sync' = [sync EXCEPT ![r] = w]
        BY <2>3, <4>1 DEF Finish, Finished
      <4>3. sync[r].accepted \in SUBSET Item
        BY <2>1, RequestFields DEF MInv
      <4>4. /\ w \in SyncRequest
           /\ w.at = "apply" /\ w.dev = sync[r].dev /\ w.since = sync[r].since /\ w.pending = sync[r].pending
           /\ w.found = sync[r].found /\ w.shown = sync[r].shown /\ w.todo \subseteq sync[r].todo
           /\ w.accepted = sync[r].accepted
        BY <4>1, <4>3, FinishedRequest
      <4> QED BY <4>2, <4>4
    <3> QED BY <2>1, <2>3, <3>1 DEF Before
  <2>4. CASE ~IsTerminal(state[u[1]]) /\ u[2] = "update_card"
             /\ sync' = [sync EXCEPT ![r].at = "approve", ![r].item = u[1]]
    <3>1. PICK w : w = [sync[r] EXCEPT !.at = "approve", !.item = u[1]]
      OBVIOUS
    <3>2. sync[r] \in SyncRequest /\ u[1] \in Item
      BY <1>4, RequestFields DEF MInv
    <3>3. sync' = [sync EXCEPT ![r] = w]
      BY <2>4, <3>1
    <3>4. w \in SyncRequest /\ w.at = "approve" /\ w.item = u[1] /\ w.dev = sync[r].dev /\ w.since = sync[r].since
          /\ w.pending = sync[r].pending /\ w.todo = sync[r].todo /\ w.accepted = sync[r].accepted
      BY <3>1, <3>2 DEF SyncRequest
    <3>5. w.at \in Before /\ state[w.item] # "sent" /\ w.item \in Item
      BY <2>4, <3>2, <3>4 DEF Before, IsTerminal
    <3> QED BY <2>1, <3>3, <3>4, <3>5
  <2> QED BY <1>3, <2>2, <2>3, <2>4
<1>6. PICK w \in SyncRequest :
        /\ sync' = [sync EXCEPT ![r] = w]
        /\ w.at \in Before /\ w.dev = sync[r].dev /\ w.since = sync[r].since /\ w.pending = sync[r].pending
        /\ w.todo \subseteq w.pending
        /\ w.at = "approve" => w.item \in Item /\ state[w.item] # "sent"
        /\ w.accepted # sync[r].accepted => w.accepted = sync[r].accepted \cup {u[1]} /\ u[2] # "update_card"
  BY <1>5
<1>7. sync' \in [Sync -> SyncRequest] /\ AloneOK' /\ BeforeOK' /\ AfterOK' /\ ViewOK'
  BY <1>1, <1>6, StaysBefore
<1>8. sync'[r] = w /\ \A q \in Sync : q # r => sync'[q] = sync[q]
  BY <1>6, OneRequest DEF MInv
<1>9. MergeTypeOK'
  BY <1>1, <1>2, <1>7 DEF MInv, MergeTypeOK
<1>10. RequestsOK'
  <2>1. u[2] # "update_card" => <<u[1], "approve_draft">> \in sync[r].pending
    BY <1>4 DEF Kind
  <2>2. \A i \in w.accepted : i \in applied \/ <<i, "approve_draft">> \in w.pending
    BY <1>6, <2>1 DEF MInv, RequestsOK
  <2>3. w.at # "idle" /\ w.dev # "none"
    BY <1>1, <1>6 DEF MInv, RequestsOK, Before
  <2> QED BY <1>1, <1>6, <1>8, <2>2, <2>3 DEF MInv, RequestsOK, Before, After
<1>11. CompletedIsApplied' /\ ApprovedTogether'
  BY <1>1 DEF MInv, CompletedIsApplied, ApprovedTogether
<1> QED BY <1>7, <1>9, <1>10, <1>11 DEF MInv

LEMMA Applies == ASSUME NEW r \in Sync PROVE MInv /\ ApplyApprove(r) => MInv'
<1> SUFFICES ASSUME MInv, ApplyApprove(r) PROVE MInv'
  OBVIOUS
<1> DEFINE i == sync[r].item
<1>1. sync[r].at = "approve" /\ sync[r].at \in Before /\ i \in Item
  BY DEF ApplyApprove, At, MInv, RequestsOK, Before
<1>2. /\ state' = [state EXCEPT ![i] = "approved"] /\ v' = [v EXCEPT ![i] = v[i] + 1]
      /\ drafted' \in {drafted, drafted \cup {i}}
      /\ applied' = applied \cup {i} /\ excused' = excused \cup Blind(i, v[i] + 1)
      /\ Finish(r, <<i, "update_card">>, TRUE)
      /\ UNCHANGED <<queueVersion, waiting, cursor, copy, decisions, losses, completed, raced>>
  BY DEF ApplyApprove, client
<1>3. <<i, "update_card">> \in Item \X Kind
  BY <1>1 DEF Kind
<1>4. PICK w \in SyncRequest :
        /\ sync' = [sync EXCEPT ![r] = w]
        /\ w.at = "apply" /\ w.dev = sync[r].dev /\ w.since = sync[r].since /\ w.pending = sync[r].pending
        /\ w.found = sync[r].found /\ w.shown = sync[r].shown /\ w.todo \subseteq sync[r].todo
        /\ w.accepted = sync[r].accepted \cup {i}
  <2>1. PICK w : w = Finished(r, <<i, "update_card">>, sync[r].accepted \cup {i})
    OBVIOUS
  <2>2. sync' = [sync EXCEPT ![r] = w]
    BY <1>2, <2>1 DEF Finish, Finished
  <2>3. sync[r].accepted \cup {i} \in SUBSET Item
    BY <1>1, RequestFields DEF MInv
  <2>4. /\ w \in SyncRequest
       /\ w.at = "apply" /\ w.dev = sync[r].dev /\ w.since = sync[r].since /\ w.pending = sync[r].pending
       /\ w.found = sync[r].found /\ w.shown = sync[r].shown /\ w.todo \subseteq sync[r].todo
       /\ w.accepted = sync[r].accepted \cup {i}
    BY <2>1, <2>3, FinishedRequest
  <2> QED BY <2>2, <2>4
<1>5. sync' \in [Sync -> SyncRequest] /\ sync'[r] = w /\ \A q \in Sync : q # r => sync'[q] = sync[q]
  BY <1>4, OneRequest DEF MInv
<1>6. Blind(i, v[i] + 1) \in SUBSET (Device \X Item)
  BY <1>1 DEF Blind
<1>7. MergeTypeOK'
  BY <1>1, <1>2, <1>5, <1>6 DEF MInv, MergeTypeOK
<1>8. RequestsOK'
  <2>1. \A q \in Sync : q # r /\ sync'[q].at = "approve" => (state'[sync'[q].item] = "sent" => sync'[q].item \in raced')
    BY <1>1, <1>2, <1>5 DEF MInv, MergeTypeOK, RequestsOK
  <2>2. w.at # "idle" /\ w.dev # "none" /\ w.at # "approve" /\ w.todo \subseteq w.pending
    BY <1>1, <1>4 DEF MInv, RequestsOK
  <2>3. \A j \in w.accepted : j \in applied' \/ <<j, "approve_draft">> \in w.pending
    BY <1>2, <1>4 DEF MInv, RequestsOK
  <2> QED BY <1>2, <1>4, <1>5, <2>1, <2>2, <2>3 DEF MInv, RequestsOK, Before, After
<1>9. AloneOK' /\ BeforeOK' /\ AfterOK' /\ ViewOK'
  <2>1. \A q \in Sync :
          /\ sync'[q].dev = sync[q].dev /\ sync'[q].since = sync[q].since
          /\ sync'[q].at \in After <=> sync[q].at \in After
          /\ sync'[q].at \in Before <=> sync[q].at \in Before
          /\ sync'[q].at = "merge" <=> sync[q].at = "merge"
          /\ sync'[q].found = sync[q].found /\ sync'[q].shown = sync[q].shown
    BY <1>1, <1>4, <1>5 DEF After, Before
  <2> QED BY <1>1, <1>2, <1>6, <2>1, CardChanges
<1>10. CompletedIsApplied' /\ ApprovedTogether'
  BY <1>1, <1>2 DEF MInv, MergeTypeOK, CompletedIsApplied, ApprovedTogether
<1> QED BY <1>7, <1>8, <1>9, <1>10 DEF MInv

LEMMA ApprovalFails == ASSUME NEW r \in Sync PROVE MInv /\ ApproveFails(r) => MInv'
<1> SUFFICES ASSUME MInv, ApproveFails(r) PROVE MInv'
  OBVIOUS
<1> DEFINE u == <<sync[r].item, "update_card">>
<1>1. /\ sync[r].at = "approve" /\ sync[r].at \in Before
      /\ losses' = losses + 1 /\ drafted' = drafted
      /\ UNCHANGED <<state, v, queueVersion, waiting, cursor, copy, decisions, completed, applied, raced, excused>>
  BY DEF ApproveFails, At, Loss, client, past, Before, RolledBack
<1>2. PICK w : w = Finished(r, u, sync[r].accepted)
  OBVIOUS
<1>3. sync' = [sync EXCEPT ![r] = w]
  BY <1>2 DEF ApproveFails, Finish, Finished, ApproveAccepted
<1>4. /\ w \in SyncRequest
      /\ w.at = "apply" /\ w.dev = sync[r].dev /\ w.since = sync[r].since /\ w.pending = sync[r].pending
      /\ w.todo \subseteq sync[r].todo /\ w.accepted = sync[r].accepted
  <2>1. sync[r].accepted \in SUBSET Item
    BY RequestFields DEF MInv
  <2> QED BY <1>2, <2>1, FinishedRequest
<1>5. sync' \in [Sync -> SyncRequest] /\ AloneOK' /\ BeforeOK' /\ AfterOK' /\ ViewOK'
  BY <1>1, <1>3, <1>4, StaysBefore DEF Before
<1>6. sync'[r] = w /\ \A q \in Sync : q # r => sync'[q] = sync[q]
  BY <1>3, <1>4, OneRequest DEF MInv
<1>7. MergeTypeOK'
  BY <1>1, <1>5 DEF MInv, MergeTypeOK
<1>8. RequestsOK'
  BY <1>1, <1>4, <1>6 DEF MInv, RequestsOK, Before, After
<1>9. CompletedIsApplied' /\ ApprovedTogether'
  BY <1>1 DEF MInv, CompletedIsApplied, ApprovedTogether
<1> QED BY <1>5, <1>7, <1>8, <1>9 DEF MInv

\* The snapshot: what it does not find, the filter of the device has right.
LEMMA Snapshots == ASSUME NEW r \in Sync PROVE MInv /\ GetChangesSince(r) => MInv'
<1> SUFFICES ASSUME MInv, GetChangesSince(r) PROVE MInv'
  OBVIOUS
<1> DEFINE seen == {i \in Item : v[i] > sync[r].since}
<1>1. /\ sync[r].at = "apply" /\ sync[r].todo = {}
      /\ UNCHANGED <<state, v, drafted, queueVersion, waiting, cursor, copy, decisions, losses, completed, applied, raced, excused>>
  BY DEF GetChangesSince, At, server, client, past
<1>2. PICK w : w = [sync[r] EXCEPT !.at = "version", !.since = 0, !.found = seen, !.fresh = {i \in seen : v[i] = 1},
                                   !.shown = [i \in Item |-> IF i \in seen THEN state[i] ELSE "none"]]
  OBVIOUS
<1>3. sync' = [sync EXCEPT ![r] = w]
  BY <1>2 DEF GetChangesSince, Changed
<1>4. sync[r] \in SyncRequest /\ state \in [Item -> {"pending", "approved", "sent"}]
  BY RequestFields DEF MInv, MergeTypeOK
<1>5. /\ w.at = "version" /\ w.dev = sync[r].dev /\ w.pending = sync[r].pending /\ w.todo = sync[r].todo
      /\ w.accepted = sync[r].accepted /\ w.found = seen
      /\ \A i \in Item : w.shown[i] = IF i \in seen THEN state[i] ELSE "none"
  BY <1>2, <1>4 DEF SyncRequest
<1>6. w \in SyncRequest
  BY <1>2, <1>4 DEF SyncRequest
<1>7. sync' \in [Sync -> SyncRequest] /\ sync'[r] = w /\ \A q \in Sync : q # r => sync'[q] = sync[q]
  BY <1>3, <1>6, OneRequest DEF MInv
<1>8. sync[r].dev \in Device
  BY <1>1, RequestFields DEF MInv, RequestsOK
<1>9. \A i \in Item : <<sync[r].dev, i>> \notin excused =>
        /\ sync[r].since = cursor[sync[r].dev]
        /\ i \notin seen => copy[sync[r].dev][i] \in {"none", state[i]}
  <2> SUFFICES ASSUME NEW i \in Item, <<sync[r].dev, i>> \notin excused
               PROVE  /\ sync[r].since = cursor[sync[r].dev]
                      /\ i \notin seen => copy[sync[r].dev][i] \in {"none", state[i]}
    OBVIOUS
  <2>1. sync[r].since = cursor[sync[r].dev]
    BY <1>1 DEF MInv, BeforeOK, Before
  <2>2. \A q \in Sync : sync[q].dev = sync[r].dev => sync[q].at \in Before
    BY <1>1, <1>8, NoneIsNothing DEF MInv, AloneOK, Before
  <2> QED BY <1>8, <2>1, <2>2 DEF MInv, ViewOK
<1>10. MergeTypeOK'
  BY <1>1, <1>7 DEF MInv, MergeTypeOK
<1>11. RequestsOK' /\ AloneOK' /\ BeforeOK'
  BY <1>1, <1>5, <1>7 DEF MInv, RequestsOK, AloneOK, BeforeOK, Before
<1>12. AfterOK'
  BY <1>1, <1>5, <1>7, <1>9 DEF MInv, AfterOK
<1>13. ViewOK'
  <2> SUFFICES ASSUME NEW e \in Device, NEW i \in Item, <<e, i>> \notin excused,
                      \A q \in Sync : sync'[q].dev = e => sync'[q].at \in Before
               PROVE  copy[e][i] \in {"none", state[i]} \/ v[i] > cursor[e]
    BY <1>1 DEF ViewOK
  <2>1. \A q \in Sync : sync[q].dev = e => sync[q].at \in Before
    BY <1>5, <1>7 DEF Before
  <2> QED BY <2>1 DEF MInv, ViewOK
<1>14. CompletedIsApplied' /\ ApprovedTogether'
  BY <1>1 DEF MInv, CompletedIsApplied, ApprovedTogether
<1> QED BY <1>10, <1>11, <1>12, <1>13, <1>14 DEF MInv

\* A request that has its snapshot goes on with it.
LEMMA StaysAfter ==
  ASSUME MInv, NEW r \in Sync, NEW w \in SyncRequest, sync' = [sync EXCEPT ![r] = w],
         sync[r].at \in After \ {"merge"}, w.at \in After, w.dev = sync[r].dev,
         w.found = sync[r].found, w.shown = sync[r].shown, w.todo = sync[r].todo,
         \/ w.pending = sync[r].pending /\ w.accepted = sync[r].accepted
         \/ w.accepted = {} /\ sync[r].todo \subseteq w.pending,
         UNCHANGED <<state, v, copy, excused, applied, raced>>,
         \/ cursor' = cursor
         \/ w.at = "merge" /\ \A d \in Device : d # sync[r].dev => cursor'[d] = cursor[d]
  PROVE  sync' \in [Sync -> SyncRequest] /\ RequestsOK' /\ AloneOK' /\ BeforeOK' /\ AfterOK' /\ ViewOK'
<1> USE DEF MInv
<1>1. sync' \in [Sync -> SyncRequest] /\ sync'[r] = w /\ \A q \in Sync : q # r => sync'[q] = sync[q]
  BY OneRequest
<1>2. sync[r].dev \in Device
  BY RequestFields DEF RequestsOK, After
<1>3. \A q \in Sync, i \in Item : q # r /\ sync[q].dev = sync[r].dev => <<sync[r].dev, i>> \in excused
  BY <1>2, NoneIsNothing DEF AloneOK
<1>4. AloneOK'
  BY <1>1 DEF AloneOK
<1>5. RequestsOK'
  BY <1>1 DEF RequestsOK, After
<1>6. BeforeOK'
  <2> SUFFICES ASSUME NEW q \in Sync, NEW i \in Item, sync'[q].at \in Before, <<sync'[q].dev, i>> \notin excused
               PROVE  sync'[q].since = cursor'[sync'[q].dev]
    BY DEF BeforeOK
  <2>1. q # r /\ sync'[q] = sync[q]
    BY <1>1 DEF Before, After
  <2>2. sync[q].dev \in Device /\ sync[q].dev # sync[r].dev
    BY <1>3, <2>1, RequestFields DEF RequestsOK, Before
  <2> QED BY <2>1, <2>2 DEF BeforeOK
<1>7. AfterOK'
  <2> SUFFICES ASSUME NEW q \in Sync, NEW i \in Item, sync'[q].at \in After, <<sync'[q].dev, i>> \notin excused
               PROVE  /\ i \in sync'[q].found => sync'[q].shown[i] = state[i]
                      /\ i \notin sync'[q].found => copy[sync'[q].dev][i] \in {"none", state[i]}
                      /\ i \in sync'[q].found /\ sync'[q].at # "merge" => v[i] > cursor'[sync'[q].dev]
    BY DEF AfterOK
  <2>1. CASE q = r
    BY <1>1, <2>1 DEF AfterOK
  <2>2. CASE q # r
    <3>1. sync[q].dev \in Device /\ sync[q].dev # sync[r].dev
      BY <1>1, <1>3, <2>2, RequestFields DEF RequestsOK, After
    <3> QED BY <1>1, <2>2, <3>1 DEF AfterOK
  <2> QED BY <2>1, <2>2
<1>8. ViewOK'
  <2> SUFFICES ASSUME NEW e \in Device, NEW i \in Item, <<e, i>> \notin excused,
                      \A q \in Sync : sync'[q].dev = e => sync'[q].at \in Before
               PROVE  copy[e][i] \in {"none", state[i]} \/ v[i] > cursor'[e]
    BY DEF ViewOK
  <2>1. e # sync[r].dev
    BY <1>1 DEF Before, After
  <2>2. \A q \in Sync : sync[q].dev = e => sync[q].at \in Before
    BY <1>1, <2>1
  <2> QED BY <2>1, <2>2 DEF ViewOK
<1> QED BY <1>1, <1>4, <1>5, <1>6, <1>7, <1>8

LEMMA Versions == ASSUME NEW r \in Sync PROVE MInv /\ GetCurrentVersion(r) => MInv'
<1> SUFFICES ASSUME MInv, GetCurrentVersion(r) PROVE MInv'
  OBVIOUS
<1>1. /\ sync[r].at = "version"
      /\ UNCHANGED <<state, v, drafted, queueVersion, waiting, cursor, copy, decisions, losses, completed, applied, raced, excused>>
  BY DEF GetCurrentVersion, At, server, client, past
<1>2. PICK w : w = [sync[r] EXCEPT !.at = "reply", !.version = queueVersion]
  OBVIOUS
<1>3. sync' = [sync EXCEPT ![r] = w]
  BY <1>2 DEF GetCurrentVersion
<1>4. sync[r] \in SyncRequest /\ queueVersion \in Nat
  BY RequestFields DEF MInv, MergeTypeOK
<1>5. /\ w.at = "reply" /\ w.dev = sync[r].dev /\ w.found = sync[r].found /\ w.shown = sync[r].shown
      /\ w.todo = sync[r].todo /\ w.pending = sync[r].pending /\ w.accepted = sync[r].accepted
  BY <1>2, <1>4 DEF SyncRequest
<1>6. w \in SyncRequest
  BY <1>2, <1>4 DEF SyncRequest
<1>7. sync' \in [Sync -> SyncRequest] /\ RequestsOK' /\ AloneOK' /\ BeforeOK' /\ AfterOK' /\ ViewOK'
  BY <1>1, <1>3, <1>5, <1>6, StaysAfter DEF After
<1>8. MergeTypeOK'
  BY <1>1, <1>7 DEF MInv, MergeTypeOK
<1>9. CompletedIsApplied' /\ ApprovedTogether'
  BY <1>1 DEF MInv, CompletedIsApplied, ApprovedTogether
<1> QED BY <1>7, <1>8, <1>9 DEF MInv

LEMMA Completes == ASSUME NEW r \in Sync PROVE MInv /\ CompleteBatch(r) => MInv'
<1> SUFFICES ASSUME MInv, CompleteBatch(r) PROVE MInv'
  OBVIOUS
<1>1. /\ sync[r].at = "reply"
      /\ waiting' = [waiting EXCEPT ![sync[r].dev] = @ \ Completed(r)]
      /\ completed' = completed \cup Completed(r)
      /\ UNCHANGED <<state, v, drafted, queueVersion, cursor, copy, decisions, losses, applied, raced, excused>>
  BY DEF CompleteBatch, At, server
<1>2. PICK w : w = [sync[r] EXCEPT !.at = "cursor", !.pending = {}, !.accepted = {}]
  OBVIOUS
<1>3. sync' = [sync EXCEPT ![r] = w]
  BY <1>2 DEF CompleteBatch
<1>4. sync[r] \in SyncRequest
  BY RequestFields DEF MInv
<1>5. /\ w.at = "cursor" /\ w.dev = sync[r].dev /\ w.found = sync[r].found /\ w.shown = sync[r].shown
      /\ w.todo = sync[r].todo /\ w.pending = {} /\ w.accepted = {}
  BY <1>2, <1>4 DEF SyncRequest
<1>6. w \in SyncRequest
  BY <1>2, <1>4 DEF SyncRequest
<1>7. sync' \in [Sync -> SyncRequest] /\ RequestsOK' /\ AloneOK' /\ BeforeOK' /\ AfterOK' /\ ViewOK'
  BY <1>1, <1>3, <1>5, <1>6, StaysAfter DEF MInv, RequestsOK, After
<1>8. Completed(r) \subseteq Item \X Kind
  BY RequestFields DEF MInv, Completed
<1>9. MergeTypeOK'
  <2>1. waiting' \in [Device -> SUBSET (Item \X Kind)]
    BY <1>1 DEF MInv, MergeTypeOK
  <2> QED BY <1>1, <1>7, <1>8, <2>1 DEF MInv, MergeTypeOK
<1>10. CompletedIsApplied'
  <2> SUFFICES ASSUME NEW i \in Item, <<i, "update_card">> \in completed'
               PROVE  i \in applied \/ <<i, "approve_draft">> \in completed'
    BY <1>1 DEF CompletedIsApplied
  <2>1. CASE <<i, "update_card">> \in completed
    BY <1>1, <2>1 DEF MInv, CompletedIsApplied
  <2>2. CASE <<i, "update_card">> \in Completed(r)
    <3>1. i \in sync[r].accepted
      BY <2>2 DEF Completed
    <3>2. i \in applied \/ <<i, "approve_draft">> \in sync[r].pending
      BY <3>1 DEF MInv, RequestsOK
    <3> QED BY <1>1, <3>1, <3>2 DEF Completed
  <2> QED BY <1>1, <2>1, <2>2
<1>11. ApprovedTogether'
  BY <1>1 DEF MInv, ApprovedTogether
<1> QED BY <1>7, <1>9, <1>10, <1>11 DEF MInv

LEMMA Saves == ASSUME NEW r \in Sync PROVE MInv /\ SaveCursor(r) => MInv'
<1> SUFFICES ASSUME MInv, SaveCursor(r) PROVE MInv'
  OBVIOUS
<1>1. /\ sync[r].at = "cursor" /\ cursor' = [cursor EXCEPT ![sync[r].dev] = sync[r].version]
      /\ UNCHANGED <<state, v, drafted, queueVersion, waiting, copy, decisions, losses, completed, applied, raced, excused>>
  BY DEF SaveCursor, At, server, past
<1>2. PICK w : w = [sync[r] EXCEPT !.at = "merge", !.version = 0]
  OBVIOUS
<1>3. sync' = [sync EXCEPT ![r] = w]
  BY <1>2 DEF SaveCursor
<1>4. sync[r] \in SyncRequest /\ sync[r].version \in Nat
  BY RequestFields DEF MInv, SyncRequest
<1>5. /\ w.at = "merge" /\ w.dev = sync[r].dev /\ w.found = sync[r].found /\ w.shown = sync[r].shown
      /\ w.todo = sync[r].todo /\ w.pending = sync[r].pending /\ w.accepted = sync[r].accepted
  BY <1>2, <1>4 DEF SyncRequest
<1>6. w \in SyncRequest
  BY <1>2, <1>4 DEF SyncRequest
<1>7. cursor' \in [Device -> Nat] /\ \A d \in Device : d # sync[r].dev => cursor'[d] = cursor[d]
  BY <1>1, <1>4 DEF MInv, MergeTypeOK
<1>8. sync' \in [Sync -> SyncRequest] /\ RequestsOK' /\ AloneOK' /\ BeforeOK' /\ AfterOK' /\ ViewOK'
  BY <1>1, <1>3, <1>5, <1>6, <1>7, StaysAfter DEF After
<1>9. MergeTypeOK'
  BY <1>1, <1>7, <1>8 DEF MInv, MergeTypeOK
<1>10. CompletedIsApplied' /\ ApprovedTogether'
  BY <1>1 DEF MInv, CompletedIsApplied, ApprovedTogether
<1> QED BY <1>8, <1>9, <1>10 DEF MInv

\* A request ends: its device has right what is not excused.
LEMMA Ends ==
  ASSUME MInv, NEW r \in Sync, sync[r].at # "idle", sync' = [sync EXCEPT ![r] = IdleSync],
         UNCHANGED <<state, v, cursor, applied, raced>>,
         excused \subseteq excused',
         \A d \in Device : d # sync[r].dev => copy'[d] = copy[d],
         \A i \in Item : <<sync[r].dev, i>> \notin excused' =>
            \/ sync[r].at \in Before /\ copy'[sync[r].dev][i] = copy[sync[r].dev][i]
            \/ copy'[sync[r].dev][i] \in {"none", state[i]} \/ v[i] > cursor[sync[r].dev]
  PROVE  sync' \in [Sync -> SyncRequest] /\ RequestsOK' /\ AloneOK' /\ BeforeOK' /\ AfterOK' /\ ViewOK'
<1> USE DEF MInv
<1>1. sync' \in [Sync -> SyncRequest] /\ sync'[r] = IdleSync /\ \A q \in Sync : q # r => sync'[q] = sync[q]
  BY IdleIsRequest, OneRequest
<1>2. /\ IdleSync.at = "idle" /\ IdleSync.dev = "none" /\ IdleSync.todo = {} /\ IdleSync.accepted = {}
  BY DEF IdleSync
<1>3. sync[r].dev \in Device
  BY RequestFields DEF RequestsOK
<1>4. \A q \in Sync, i \in Item : q # r /\ sync[q].dev = sync[r].dev => <<sync[r].dev, i>> \in excused
  BY <1>3, NoneIsNothing DEF AloneOK
<1>5. RequestsOK'
  BY <1>1, <1>2 DEF RequestsOK, After
<1>6. AloneOK' /\ BeforeOK'
  BY <1>1, <1>2 DEF AloneOK, BeforeOK, Before
<1>7. AfterOK'
  <2> SUFFICES ASSUME NEW q \in Sync, NEW i \in Item, sync'[q].at \in After, <<sync'[q].dev, i>> \notin excused'
               PROVE  /\ i \in sync'[q].found => sync'[q].shown[i] = state[i]
                      /\ i \notin sync'[q].found => copy'[sync'[q].dev][i] \in {"none", state[i]}
                      /\ i \in sync'[q].found /\ sync'[q].at # "merge" => v[i] > cursor[sync'[q].dev]
    BY DEF AfterOK
  <2>1. q # r /\ sync'[q] = sync[q]
    BY <1>1, <1>2 DEF After
  <2>2. sync[q].dev \in Device /\ sync[q].dev # sync[r].dev
    BY <1>4, <2>1, RequestFields DEF RequestsOK, After
  <2> QED BY <2>1, <2>2 DEF AfterOK
<1>8. ViewOK'
  <2> SUFFICES ASSUME NEW e \in Device, NEW i \in Item, <<e, i>> \notin excused',
                      \A q \in Sync : sync'[q].dev = e => sync'[q].at \in Before
               PROVE  copy'[e][i] \in {"none", state[i]} \/ v[i] > cursor[e]
    BY DEF ViewOK
  <2>1. CASE e # sync[r].dev
    BY <1>1, <2>1 DEF ViewOK
  <2>2. CASE e = sync[r].dev /\ sync[r].at \in Before
    BY <1>1, <2>2 DEF ViewOK
  <2>3. CASE e = sync[r].dev /\ sync[r].at \notin Before
    BY <2>3
  <2> QED BY <2>1, <2>2, <2>3
<1> QED BY <1>1, <1>5, <1>6, <1>7, <1>8

LEMMA Loses == ASSUME NEW r \in Sync PROVE MInv /\ LoseSync(r) => MInv'
<1> SUFFICES ASSUME MInv, LoseSync(r) PROVE MInv'
  OBVIOUS
<1>1. /\ sync[r].at # "idle" /\ losses' = losses + 1 /\ sync' = [sync EXCEPT ![r] = IdleSync]
      /\ excused' = IF sync[r].at = "merge" THEN excused \cup {<<sync[r].dev, i>> : i \in sync[r].found} ELSE excused
      /\ UNCHANGED <<state, v, drafted, queueVersion, waiting, cursor, copy, decisions, completed, applied, raced>>
  BY DEF LoseSync, At, Loss, server, client
<1>2. sync[r].dev \in Device /\ sync[r].found \subseteq Item
  BY <1>1, RequestFields DEF MInv, RequestsOK
<1>3. \A i \in Item : <<sync[r].dev, i>> \notin excused' =>
        \/ sync[r].at \in Before
        \/ copy[sync[r].dev][i] \in {"none", state[i]} \/ v[i] > cursor[sync[r].dev]
  <2> SUFFICES ASSUME NEW i \in Item, <<sync[r].dev, i>> \notin excused', sync[r].at \notin Before
               PROVE  copy[sync[r].dev][i] \in {"none", state[i]} \/ v[i] > cursor[sync[r].dev]
    OBVIOUS
  <2>1. sync[r].at \in After
    BY <1>1, RequestFields DEF MInv, Before, After, SyncRequest
  <2>2. <<sync[r].dev, i>> \notin excused /\ (sync[r].at = "merge" => i \notin sync[r].found)
    BY <1>1
  <2> QED BY <2>1, <2>2 DEF MInv, AfterOK
<1>4. sync' \in [Sync -> SyncRequest] /\ RequestsOK' /\ AloneOK' /\ BeforeOK' /\ AfterOK' /\ ViewOK'
  BY <1>1, <1>3, Ends
<1>5. MergeTypeOK'
  <2>1. excused' \subseteq Device \X Item
    BY <1>1, <1>2 DEF MInv, MergeTypeOK
  <2> QED BY <1>1, <1>4, <2>1 DEF MInv, MergeTypeOK
<1>6. CompletedIsApplied' /\ ApprovedTogether'
  BY <1>1 DEF MInv, CompletedIsApplied, ApprovedTogether
<1> QED BY <1>4, <1>5, <1>6 DEF MInv

LEMMA MergesCards == ASSUME NEW r \in Sync PROVE MInv /\ ApplyServerCards(r) => MInv'
<1> SUFFICES ASSUME MInv, ApplyServerCards(r) PROVE MInv'
  OBVIOUS
<1>1. /\ sync[r].at = "merge" /\ sync' = [sync EXCEPT ![r] = IdleSync]
      /\ copy' = [copy EXCEPT ![sync[r].dev] = [i \in Item |-> Merged(r, i)]]
      /\ UNCHANGED <<state, v, drafted, queueVersion, waiting, cursor, decisions, losses, completed, applied, raced, excused>>
  BY DEF ApplyServerCards, At, server, past
<1>2. sync[r].dev \in Device
  BY <1>1, RequestFields DEF MInv, RequestsOK
<1>3. copy \in [Device -> [Item -> {"none", "pending", "approved"}]]
  BY DEF MInv, MergeTypeOK
<1>4. /\ \A i \in Item : copy'[sync[r].dev][i] = Merged(r, i)
      /\ \A d \in Device : d # sync[r].dev => copy'[d] = copy[d]
  BY <1>1, <1>2, <1>3
<1>5. \A i \in Item : Merged(r, i) \in {"none", "pending", "approved"}
  BY <1>2, <1>3, RequestFields DEF MInv, Merged
<1>6. \A i \in Item : <<sync[r].dev, i>> \notin excused => Merged(r, i) \in {"none", state[i]}
  <2> SUFFICES ASSUME NEW i \in Item, <<sync[r].dev, i>> \notin excused
               PROVE  Merged(r, i) \in {"none", state[i]}
    OBVIOUS
  <2>1. /\ i \in sync[r].found => sync[r].shown[i] = state[i]
        /\ i \notin sync[r].found => copy[sync[r].dev][i] \in {"none", state[i]}
    BY <1>1 DEF MInv, AfterOK, After
  <2> QED BY <2>1 DEF Merged
<1>7. sync' \in [Sync -> SyncRequest] /\ RequestsOK' /\ AloneOK' /\ BeforeOK' /\ AfterOK' /\ ViewOK'
  BY <1>1, <1>4, <1>6, Ends DEF Before
<1>8. copy' \in [Device -> [Item -> {"none", "pending", "approved"}]]
  BY <1>1, <1>3, <1>5
<1>9. MergeTypeOK'
  BY <1>1, <1>7, <1>8 DEF MInv, MergeTypeOK
<1>10. CompletedIsApplied' /\ ApprovedTogether'
  BY <1>1 DEF MInv, CompletedIsApplied, ApprovedTogether
<1> QED BY <1>7, <1>9, <1>10 DEF MInv

-------------------------------------------------------------------------------

LEMMA MergeInductive == MInv /\ [MergeNext]_mergeVars => MInv'
<1> SUFFICES ASSUME MInv, [MergeNext]_mergeVars PROVE MInv'
  OBVIOUS
<1>1. CASE IncrementVersion
  BY <1>1, IncrementKeeps
<1>2. ASSUME NEW i \in Item, DecideOnline(i) PROVE MInv'
  BY <1>2, Decides
<1>3. ASSUME NEW i \in Item, SendCard(i) PROVE MInv'
  BY <1>3, Sends
<1>4. ASSUME NEW i \in Item, NEW d \in Device, Enqueue(d, i) PROVE MInv'
  BY <1>4, Enqueues
<1>5. ASSUME NEW r \in Sync, CheckChange(r) PROVE MInv'
  BY <1>5, Checks
<1>6. ASSUME NEW r \in Sync, ApplyApprove(r) PROVE MInv'
  BY <1>6, Applies
<1>7. ASSUME NEW r \in Sync, ApproveFails(r) PROVE MInv'
  BY <1>7, ApprovalFails
<1>8. ASSUME NEW r \in Sync, GetChangesSince(r) PROVE MInv'
  BY <1>8, Snapshots
<1>9. ASSUME NEW r \in Sync, GetCurrentVersion(r) PROVE MInv'
  BY <1>9, Versions
<1>10. ASSUME NEW r \in Sync, LoseSync(r) PROVE MInv'
  BY <1>10, Loses
<1>11. ASSUME NEW r \in Sync, CompleteBatch(r) PROVE MInv'
  BY <1>11, Completes
<1>12. ASSUME NEW r \in Sync, SaveCursor(r) PROVE MInv'
  BY <1>12, Saves
<1>13. ASSUME NEW r \in Sync, ApplyServerCards(r) PROVE MInv'
  BY <1>13, MergesCards
<1>14. ASSUME NEW r \in Sync, NEW d \in Device, StartSync(r, d) PROVE MInv'
  BY <1>14, Starts
<1>15. CASE UNCHANGED mergeVars
  <2> USE <1>15 DEF mergeVars
  <2>1. MergeTypeOK' BY DEF MInv, MergeTypeOK
  <2>2. RequestsOK' /\ AloneOK' /\ BeforeOK' /\ AfterOK' BY DEF MInv, RequestsOK, AloneOK, BeforeOK, AfterOK
  <2>3. ViewOK' /\ CompletedIsApplied' /\ ApprovedTogether' BY DEF MInv, ViewOK, CompletedIsApplied, ApprovedTogether
  <2> QED BY <2>1, <2>2, <2>3 DEF MInv
<1> QED BY <1>1, <1>2, <1>3, <1>4, <1>5, <1>6, <1>7, <1>8, <1>9, <1>10, <1>11, <1>12, <1>13, <1>14, <1>15 DEF MergeNext

LEMMA MInvIsSound == MInv => MergeInv
<1> SUFFICES ASSUME MInv PROVE StaleHasACause
  BY DEF MInv, MergeInv
<1> SUFFICES ASSUME NEW d \in Device, NEW i \in Item, Active(d) = {}, copy[d][i] \notin {"none", state[i]}
             PROVE  v[i] > cursor[d] \/ <<d, i>> \in excused
  BY DEF StaleHasACause
<1>1. \A r \in Sync : sync[r].dev # d
  BY DEF Active
<1> QED BY <1>1 DEF MInv, ViewOK

\* The invariants of the offline merge hold for every number of cards, devices
\* and overlapping requests: what a device has completed was applied, draft and
\* card are approved together, a device with an old state will be told.
THEOREM MergeIsSound == MergeSpec => []MergeInv
<1>1. MergeInit => MInv
  BY MergeInitially
<1>2. MInv /\ [MergeNext]_mergeVars => MInv'
  BY MergeInductive
<1>3. MInv => MergeInv
  BY MInvIsSound
<1> QED BY <1>1, <1>2, <1>3, PTL DEF MergeSpec

LEMMA SentStep == MInv /\ [MergeNext]_mergeVars => [\A i \in Item : state[i] = "sent" => state'[i] = "sent" \/ i \in raced]_mergeVars
<1> SUFFICES ASSUME MInv, MergeNext, NEW i \in Item, state[i] = "sent"
             PROVE  state'[i] = "sent" \/ i \in raced
  OBVIOUS
<1> USE DEF MInv, MergeTypeOK
<1>1. CASE UNCHANGED state
  BY <1>1
<1>2. ASSUME NEW j \in Item, DecideOnline(j) PROVE state'[i] = "sent"
  BY <1>2 DEF DecideOnline
<1>3. ASSUME NEW j \in Item, SendCard(j) PROVE state'[i] = "sent"
  BY <1>3 DEF SendCard
<1>4. ASSUME NEW r \in Sync, ApplyApprove(r) PROVE state'[i] = "sent" \/ i \in raced
  BY <1>4 DEF ApplyApprove, At, RequestsOK
<1>5. ASSUME NEW r \in Sync, NEW d \in Device, StartSync(r, d) PROVE UNCHANGED state
  BY <1>5 DEF StartSync, server
<1>6. ASSUME NEW d \in Device, NEW j \in Item, Enqueue(d, j) PROVE UNCHANGED state
  BY <1>6 DEF Enqueue, server
<1>7. ASSUME NEW r \in Sync,
             \/ CheckChange(r) \/ ApproveFails(r) \/ GetChangesSince(r) \/ GetCurrentVersion(r) \/ LoseSync(r)
             \/ CompleteBatch(r) \/ SaveCursor(r) \/ ApplyServerCards(r)
      PROVE  UNCHANGED state
  BY <1>7 DEF CheckChange, ApproveFails, GetChangesSince, GetCurrentVersion, LoseSync, CompleteBatch, SaveCursor,
              ApplyServerCards, server
<1>8. CASE IncrementVersion
  BY <1>8 DEF IncrementVersion
<1> QED BY <1>1, <1>2, <1>3, <1>4, <1>5, <1>6, <1>7, <1>8 DEF MergeNext

\* A sync changes a card that was sent only if it was sent between the check and
\* the approval of that sync, for every number of cards, devices and requests.
THEOREM SentIsFinal == MergeSpec => SentStaysSent
<1>1. MergeInit => MInv
  BY MergeInitially
<1>2. MInv /\ [MergeNext]_mergeVars => MInv'
  BY MergeInductive
<1>3. MInv /\ [MergeNext]_mergeVars => [\A i \in Item : state[i] = "sent" => state'[i] = "sent" \/ i \in raced]_mergeVars
  BY SentStep
<1> QED BY <1>1, <1>2, <1>3, PTL DEF MergeSpec, SentStaysSent
===============================================================================
