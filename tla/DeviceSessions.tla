--------------------------- MODULE DeviceSessions ---------------------------
(***************************************************************************)
(* Device sessions and refresh tokens of the sync service                  *)
(* (sync/internal/auth/handler.go, device.go, store.go and the token       *)
(* manager of tokens.go).                                                  *)
(*                                                                         *)
(* The tables device_sessions and refresh_tokens hold at most one row for  *)
(* a device.  A request executes its statements one by one, each in a      *)
(* transaction of its own, so requests for a device interleave.            *)
(***************************************************************************)
EXTENDS Naturals, Sequences, FiniteSets

CONSTANTS
  Devices, Calls,   \* devices, and requests that can be in progress at once
  None,             \* no row, no device
  MaxRefresh        \* bound: refresh tokens generated

ASSUME NoneAssumption == None \notin Nat /\ None \notin Devices
ASSUME TokenBoundAssumption == MaxRefresh \in Nat

VARIABLES
  session,    \* [Devices -> BOOLEAN]: the row of device_sessions exists
  refresh,    \* [Devices -> Token]: the hash in refresh_tokens
  issued,     \* devices of the refresh tokens generated; a token is its place here
  call,       \* [Calls -> Call]
  revoked     \* history: tokens that were stored when their device was revoked

dvars == <<session, refresh, issued, call, revoked>>

Tokens == 1..MaxRefresh
Call == [at : {"idle", "register", "store", "check", "revoke", "lookup"}, device : Devices \cup {None},
         token : Tokens \cup {None}, born : SUBSET Tokens, seen : BOOLEAN]

SessionTypeOK ==
  /\ session \in [Devices -> BOOLEAN]
  /\ issued \in Seq(Devices) /\ Len(issued) <= MaxRefresh
  /\ refresh \in [Devices -> DOMAIN issued \cup {None}]
  /\ call \in [Calls -> Call]
  /\ revoked \in SUBSET DOMAIN issued

NoCall == [at |-> "idle", device |-> None, token |-> None, born |-> {}, seen |-> FALSE]

SessionInit ==
  /\ session = [d \in Devices |-> FALSE]
  /\ refresh = [d \in Devices |-> None]
  /\ issued = <<>>
  /\ call = [c \in Calls |-> NoCall]
  /\ revoked = {}

(* A request begins.  "born" and "seen" are history: the tokens that were  *)
(* revoked already, and whether the device has had a session meanwhile.    *)
Begin(c, at, d, t) ==
  /\ call[c].at = "idle"
  /\ call' = [call EXCEPT ![c] = [at |-> at, device |-> d, token |-> t,
                                  born |-> revoked, seen |-> session[d]]]
  /\ UNCHANGED <<session, refresh, issued, revoked>>
Move(c, at) == call' = [call EXCEPT ![c].at = at]
Respond(c) == call' = [call EXCEPT ![c] = NoCall]

(* Every other request for the device learns that it has a session. *)
Witness(c, d) ==
  [e \in Calls |-> IF e # c /\ call[e].at # "idle" /\ call[e].device = d
                   THEN [call[e] EXCEPT !.seen = TRUE] ELSE call[e]]

-----------------------------------------------------------------------------
(* RegisterDevice: the session is written first, then the refresh token;   *)
(* both writes replace what was there.                                     *)
RegisterDevice(c, d) == Begin(c, "register", d, None)
Register(c) ==
  LET d == call[c].device IN
  /\ call[c].at = "register"
  /\ session' = [session EXCEPT ![d] = TRUE]
  /\ call' = [Witness(c, d) EXCEPT ![c].at = "store", ![c].seen = TRUE]
  /\ UNCHANGED <<refresh, issued, revoked>>

(* The token manager signs the device into the token and checks it again.  *)
GenerateRefreshToken(d) == Len(issued) < MaxRefresh /\ issued' = Append(issued, d)
ValidateRefreshToken(t, d) == t \in DOMAIN issued /\ issued[t] = d

(* StoreRefreshToken, for a registration or a refresh: an unconditional    *)
(* upsert of the token that has just been generated.                       *)
StoreRefreshToken(c) ==
  /\ call[c].at = "store"
  /\ GenerateRefreshToken(call[c].device)
  /\ refresh' = [refresh EXCEPT ![call[c].device] = Len(issued')]
  /\ Respond(c)
  /\ UNCHANGED <<session, revoked>>

(* RefreshToken: a token whose envelope is valid is compared with the      *)
(* stored one (GetRefreshToken), then the session is looked up.            *)
RefreshToken(c, d) ==
  \E t \in Tokens : ValidateRefreshToken(t, d) /\ Begin(c, "check", d, t)
GetRefreshToken(c) ==
  /\ call[c].at = "check"
  /\ IF refresh[call[c].device] = call[c].token THEN Move(c, "lookup") ELSE Respond(c)
  /\ UNCHANGED <<session, refresh, issued, revoked>>

GetByDeviceID(c) ==
  /\ call[c].at = "lookup"
  /\ IF session[call[c].device] THEN Move(c, "store") ELSE Respond(c)
  /\ UNCHANGED <<session, refresh, issued, revoked>>

(* RevokeSession: DeleteDeviceSession removes both rows in a transaction.  *)
RevokeSession(c, d) == session[d] /\ Begin(c, "revoke", d, None)
(* Mutant: only the session is deleted. *)
DeleteDeviceSession_KeepsToken(c) ==
  LET d == call[c].device IN
  /\ call[c].at = "revoke"
  /\ session' = [session EXCEPT ![d] = FALSE]
  /\ revoked' = revoked \cup ({refresh[d]} \ {None})
  /\ Respond(c) /\ UNCHANGED <<issued, refresh>>
DeleteDeviceSession(c) ==
  LET d == call[c].device IN
  /\ call[c].at = "revoke"
  /\ session' = [session EXCEPT ![d] = FALSE]
  /\ refresh' = [refresh EXCEPT ![d] = None]
  /\ revoked' = revoked \cup ({refresh[d]} \ {None})
  /\ Respond(c)
  /\ UNCHANGED issued

(* Any statement may fail, and the client or the server may stop: what has *)
(* been written stays.  A refresh token also expires (30 days).            *)
GiveUp(c) == call[c].at # "idle" /\ Respond(c) /\ UNCHANGED <<session, refresh, issued, revoked>>
Expire(d) ==
  /\ refresh[d] # None
  /\ refresh' = [refresh EXCEPT ![d] = None]
  /\ UNCHANGED <<session, issued, call, revoked>>

CallStep(c) ==
  \/ \E d \in Devices : RegisterDevice(c, d) \/ RefreshToken(c, d) \/ RevokeSession(c, d)
  \/ Register(c) \/ StoreRefreshToken(c) \/ GetRefreshToken(c) \/ GetByDeviceID(c)
  \/ DeleteDeviceSession(c) \/ GiveUp(c)

SessionNext == (\E c \in Calls : CallStep(c)) \/ (\E d \in Devices : Expire(d))
SessionSpec == SessionInit /\ [][SessionNext]_dvars

-----------------------------------------------------------------------------
(* A refresh that will be answered with a new token. *)
Granted(c) == call[c].at = "store" /\ call[c].token # None

(* "Deletes the device session and invalidates all tokens for that         *)
(* device": a token that was revoked before a refresh began is not         *)
(* exchanged for a new one, even when registrations, other refreshes and   *)
(* revocations of the device run at the same time.                         *)
RevokedTokensStayDead ==
  \A c \in Calls : Granted(c) => call[c].token \notin call[c].born

(* A refresh is granted only if the device had a session at some moment    *)
(* after the request came in; a token stored by a refresh that was         *)
(* overtaken by a revocation is of no use until the device registers.      *)
RefreshNeedsSession ==
  \A c \in Calls : Granted(c) => call[c].seen

\* No refresh succeeds with a token that was revoked before it began, or for a
\* device that had no session when it was looked up.
SessionsInv == SessionTypeOK /\ RevokedTokensStayDead /\ RefreshNeedsSession
=============================================================================
