---------------------------- MODULE OAuthTokens ----------------------------
(***************************************************************************)
(* The OAuth tokens of one mail account: logins with their state in Redis, *)
(* callbacks that exchange a code and store the tokens, and the refresh    *)
(* that pollers and the send consumer run before they use the account.     *)
(* A grant is what the user gave in one login; the provider's refresh      *)
(* tokens are named by their grant.                                        *)
(*                                                                         *)
(* Left out: encryption, scopes, the user's profile, and the providers'    *)
(* requests, which are the outcomes of the steps that make them.           *)
(***************************************************************************)
EXTENDS Naturals, FiniteSets

CONSTANTS State,       \* values of the login state
          Callback,    \* callback requests
          Refresher,   \* goroutines that refresh
          MaxGrants    \* bound: logins completed

ASSUME GrantBound == MaxGrants \in Nat

VARIABLES
  login,      \* login states in Redis: the provider, or "none"
  callback,   \* the callbacks
  refresher,  \* the refreshes
  account,    \* the email_accounts row
  grants,     \* grants the provider has issued; the last is the newest
  revoked,    \* grants the user has withdrawn
  exchanged,  \* history: provider and number of exchanges of each state
  crossed     \* history: a login was stored while a refresh was in progress

oauthVars == <<login, callback, refresher, account, grants, revoked, exchanged, crossed>>

Provider == {"google", "microsoft"}
NoCallback == [at |-> "none", state |-> "", as |-> "", grant |-> 0]
NoRefresh == [at |-> "none", grant |-> 0]

OAuthInit ==
  /\ login = [s \in State |-> "none"]
  /\ callback = [b \in Callback |-> NoCallback]
  /\ refresher = [c \in Refresher |-> NoRefresh]
  /\ account = [active |-> FALSE, refresh |-> 0, access |-> 0, fresh |-> FALSE]
  /\ grants = 0 /\ revoked = {}
  /\ exchanged = [s \in State |-> [p \in Provider |-> 0]] /\ crossed = FALSE

-----------------------------------------------------------------------------
(* HandleGoogleLogin, HandleMicrosoftLogin: the state is random, never reused *)

Login(s) ==
  /\ login[s] = "none"
  /\ \A b \in Callback : callback[b].state # s
  /\ \A p \in Provider : exchanged[s][p] = 0
  /\ \E p \in Provider : login' = [login EXCEPT ![s] = p]
  /\ UNCHANGED <<callback, refresher, account, grants, revoked, exchanged, crossed>>

LoginExpires(s) ==
  /\ login[s] # "none" /\ login' = [login EXCEPT ![s] = "none"]
  /\ UNCHANGED <<callback, refresher, account, grants, revoked, exchanged, crossed>>

-----------------------------------------------------------------------------
(* HandleGoogleCallback, HandleMicrosoftCallback                            *)

\* validateAndConsumeState: GETDEL, so the state is gone even if it was stored
\* for the other provider.
Consume(s) == [login EXCEPT ![s] = "none"]
Matches(s, p) == login[s] = p

ValidateState(b, s, p) ==
  /\ callback[b].at = "none" /\ login' = Consume(s)
  /\ callback' = [callback EXCEPT ![b] =
       IF Matches(s, p) THEN [at |-> "exchange", state |-> s, as |-> p, grant |-> 0] ELSE NoCallback]
  /\ UNCHANGED <<refresher, account, grants, revoked, exchanged, crossed>>

Exchange(b) ==
  /\ callback[b].at = "exchange"
  /\ \/ /\ grants < MaxGrants /\ grants' = grants + 1
        /\ callback' = [callback EXCEPT ![b] = [@ EXCEPT !.at = "store", !.grant = grants + 1]]
        /\ exchanged' = [exchanged EXCEPT ![callback[b].state][callback[b].as] = @ + 1]
     \/ callback' = [callback EXCEPT ![b] = NoCallback] /\ UNCHANGED <<grants, exchanged>>
  /\ UNCHANGED <<login, refresher, account, revoked, crossed>>

\* UpsertAccountWithTokens; profile, user or row may fail first.
UpsertAccountWithTokens(b) ==
  /\ callback[b].at = "store" /\ callback' = [callback EXCEPT ![b] = NoCallback]
  /\ LET g == callback[b].grant IN
       \/ /\ account' = [active |-> TRUE, refresh |-> g, access |-> g, fresh |-> TRUE]
          /\ crossed' = (crossed \/ \E c \in Refresher : refresher[c].at # "none")
       \/ UNCHANGED <<account, crossed>>
  /\ UNCHANGED <<login, refresher, grants, revoked, exchanged>>

-----------------------------------------------------------------------------
(* RefreshIfNeeded                                                         *)

\* LoadTokens: a deactivated account or a token that is still good ends it.
LoadTokens(c) ==
  /\ refresher[c].at = "none" /\ account.active /\ ~account.fresh
  /\ refresher' = [refresher EXCEPT ![c].at = "loaded"]
  /\ UNCHANGED <<login, callback, account, grants, revoked, exchanged, crossed>>

\* DecryptRefreshToken reads the row a second time.
DecryptRefreshToken(c) ==
  /\ refresher[c].at = "loaded"
  /\ refresher' = [refresher EXCEPT ![c] =
       IF account.active THEN [at |-> "ask", grant |-> account.refresh] ELSE NoRefresh]
  /\ UNCHANGED <<login, callback, account, grants, revoked, exchanged, crossed>>

Judge_AnyError(g) == {"deactivate", "save", "none"}

\* provider.Refresh: new tokens of the same grant, invalid_grant, or an error.
Judge(g) == IF g \in revoked THEN {"deactivate", "none"} ELSE {"save", "none"}

Refresh(c) ==
  /\ refresher[c].at = "ask"
  /\ \E next \in Judge(refresher[c].grant) :
       refresher' = [refresher EXCEPT ![c] = IF next = "none" THEN NoRefresh ELSE [@ EXCEPT !.at = next]]
  /\ UNCHANGED <<login, callback, account, grants, revoked, exchanged, crossed>>

DeactivateAccount(c) ==
  /\ refresher[c].at = "deactivate"
  /\ account' \in {[account EXCEPT !.active = FALSE], account}
  /\ refresher' = [refresher EXCEPT ![c] = NoRefresh]
  /\ UNCHANGED <<login, callback, grants, revoked, exchanged, crossed>>

\* Both providers return a refresh token (the old one, if it was not replaced).
Saved(g) == [account EXCEPT !.access = g, !.refresh = g, !.fresh = TRUE]

UpdateAccessToken(c) ==
  /\ refresher[c].at = "save"
  /\ account' \in {Saved(refresher[c].grant), account}
  /\ refresher' = [refresher EXCEPT ![c] = NoRefresh]
  /\ UNCHANGED <<login, callback, grants, revoked, exchanged, crossed>>

-----------------------------------------------------------------------------

AccessTokenExpires ==
  /\ account.fresh /\ account' = [account EXCEPT !.fresh = FALSE]
  /\ UNCHANGED <<login, callback, refresher, grants, revoked, exchanged, crossed>>

UserWithdraws(g) ==
  /\ g \notin revoked /\ revoked' = revoked \cup {g}
  /\ UNCHANGED <<login, callback, refresher, account, grants, exchanged, crossed>>

OAuthNext ==
  \/ AccessTokenExpires
  \/ \E g \in 1 .. grants : UserWithdraws(g)
  \/ \E s \in State : Login(s) \/ LoginExpires(s)
  \/ \E b \in Callback :
       \/ Exchange(b) \/ UpsertAccountWithTokens(b)
       \/ \E s \in State, p \in Provider : ValidateState(b, s, p)
  \/ \E c \in Refresher :
       \/ LoadTokens(c) \/ DecryptRefreshToken(c) \/ Refresh(c)
       \/ DeactivateAccount(c) \/ UpdateAccessToken(c)

OAuthSpec == OAuthInit /\ [][OAuthNext]_oauthVars

-----------------------------------------------------------------------------

OAuthTypeOK ==
  /\ login \in [State -> Provider \cup {"none"}]
  /\ \A b \in Callback : callback[b].at \in {"none", "exchange", "store"} /\ callback[b].grant \in 0 .. grants
  /\ \A c \in Refresher : /\ refresher[c].at \in {"none", "loaded", "ask", "deactivate", "save"}
                          /\ refresher[c].grant \in 0 .. grants
  /\ account \in [active : BOOLEAN, refresh : 0 .. grants, access : 0 .. grants, fresh : BOOLEAN]
  /\ account.active => account.refresh # 0
  /\ grants \in 0 .. MaxGrants /\ revoked \subseteq 1 .. grants /\ crossed \in BOOLEAN

\* A login state is exchanged once, and by the provider it was issued for, even
\* if the callback is requested twice at the same time.
StateUsedOnce ==
  \A s \in State :
    /\ exchanged[s]["google"] + exchanged[s]["microsoft"] <= 1
    /\ Cardinality({b \in Callback : callback[b].at = "exchange" /\ callback[b].state = s}) <= 1
    /\ login[s] # "none" => exchanged[s]["google"] + exchanged[s]["microsoft"] = 0

\* The stored access token and refresh token belong to the same grant, whatever
\* logins and refreshes overlap; otherwise a withdrawal of the one would leave
\* the other working.
PairOfOneGrant == account.access = account.refresh

\* An account is switched off only if its grant was withdrawn.  The exception is
\* the user who connects again while a refresh with the old grant is in flight:
\* the refresh deactivates the account by its id, and with it the new grant.
WorkingAccountStays ==
  ~account.active /\ account.refresh # 0 => account.refresh \in revoked \/ crossed

\* Logins and refreshes of one account may overlap: a state is spent once, the
\* stored tokens are of one grant, and a working grant stays in use.
OAuthInv == OAuthTypeOK /\ StateUsedOnce /\ PairOfOneGrant /\ WorkingAccountStays
=============================================================================
