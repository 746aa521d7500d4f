----------------------------- MODULE CertCache -----------------------------
(***************************************************************************)
(* Verifier: the cached signing keys of Google, against which the token of *)
(* a push request is checked.  Verifications run concurrently; the cache   *)
(* is read under a read lock, and filled under the write lock, held while  *)
(* the keys are fetched.                                                   *)
(***************************************************************************)
EXTENDS Naturals, FiniteSets

CONSTANTS Verification,   \* concurrent verifications
          MaxRotations    \* bound: rotations of the provider's key

ASSUME RotationBound == MaxRotations \in Nat

VARIABLES
  published,  \* the key the provider signs with and publishes
  cache,      \* the cached key; 0 when there is none or it has expired
  lock,       \* verifications that hold the write lock
  verify      \* each verification: where it is, the key its token names, what it read

certVars == <<published, cache, lock, verify>>

NotVerifying == [at |-> "idle", kid |-> 0, got |-> 0, retried |-> FALSE]

CertInit ==
  /\ published = 1 /\ cache = 0 /\ lock = {}
  /\ verify = [v \in Verification |-> NotVerifying]

Put(v, new) == verify' = [verify EXCEPT ![v] = new]
With(v, at) == [verify[v] EXCEPT !.at = at]

Rotate ==
  /\ published <= MaxRotations /\ published' = published + 1
  /\ UNCHANGED <<cache, lock, verify>>

CacheExpires ==
  /\ cache # 0 /\ lock = {} /\ cache' = 0
  /\ UNCHANGED <<published, lock, verify>>

VerifyGmailJWT(v) ==
  /\ verify[v].at = "idle" /\ Put(v, [NotVerifying EXCEPT !.at = "read", !.kid = published])
  /\ UNCHANGED <<published, cache, lock>>

ReadCache(v) ==
  /\ verify[v].at = "read" /\ lock = {}
  /\ IF cache # 0 THEN Put(v, [verify[v] EXCEPT !.at = "match", !.got = cache])
                  ELSE Put(v, With(v, "lock"))
  /\ UNCHANGED <<published, cache, lock>>

Free == lock = {}

\* Double-checked: whoever waited for the lock may find the cache filled.
LockCache(v) ==
  /\ verify[v].at = "lock" /\ Free
  /\ IF cache # 0 THEN /\ Put(v, [verify[v] EXCEPT !.at = "match", !.got = cache])
                       /\ UNCHANGED lock
                  ELSE /\ Put(v, With(v, "request")) /\ lock' = lock \cup {v}
  /\ UNCHANGED <<published, cache>>

\* The provider answers with what it publishes at this moment; the answer is
\* stored later, and may be out of date by then.
FetchJWKS(v) ==
  /\ verify[v].at = "request"
  /\ \/ Put(v, [verify[v] EXCEPT !.at = "store", !.got = published]) /\ UNCHANGED lock
     \/ Put(v, With(v, "failed")) /\ lock' = {}
  /\ UNCHANGED <<published, cache>>

StoreCerts(v) ==
  /\ verify[v].at = "store" /\ cache' = verify[v].got /\ lock' = {}
  /\ Put(v, With(v, "match"))
  /\ UNCHANGED published

\* A key id that is not cached: the entry is dropped, once, and fetched again.
DropEntry == 0

MatchKey(v) ==
  /\ verify[v].at = "match"
  /\ IF verify[v].got = verify[v].kid
     THEN Put(v, With(v, "accepted")) /\ UNCHANGED cache
     ELSE IF verify[v].retried
          THEN Put(v, With(v, "rejected")) /\ UNCHANGED cache
          ELSE /\ lock = {} /\ cache' = DropEntry
               /\ Put(v, [verify[v] EXCEPT !.at = "read", !.retried = TRUE])
  /\ UNCHANGED <<published, lock>>

Done(v) ==
  /\ verify[v].at \in {"accepted", "rejected", "failed"} /\ Put(v, NotVerifying)
  /\ UNCHANGED <<published, cache, lock>>

CertNext ==
  \/ Rotate \/ CacheExpires
  \/ \E v \in Verification :
       \/ VerifyGmailJWT(v) \/ ReadCache(v) \/ LockCache(v) \/ FetchJWKS(v)
       \/ StoreCerts(v) \/ MatchKey(v) \/ Done(v)

CertSpec == CertInit /\ [][CertNext]_certVars

-----------------------------------------------------------------------------

CertTypeOK ==
  /\ published \in 1 .. MaxRotations + 1 /\ cache \in 0 .. published
  /\ lock \subseteq Verification /\ Cardinality(lock) <= 1
  /\ \A v \in Verification : verify[v].kid <= published /\ verify[v].got <= published

\* A token signed with the key that is published is not rejected because the
\* cache is old: the key is fetched again, even while other verifications fill
\* the cache with an older answer.  (The provider publishes one key at a time
\* here, so a token is rejected only if its key was replaced meanwhile.)
CurrentKeyAccepted ==
  \A v \in Verification : verify[v].at = "rejected" => verify[v].kid < published

\* The cache of certificates rejects no token of the published key.
CertInv == CertTypeOK /\ CurrentKeyAccepted
=============================================================================
