---------------------------- MODULE IngestProofs ----------------------------
(***************************************************************************)
(* Theorems about the way of mail into the system: the certificates that   *)
(* push notifications are checked against, the notifications, the OAuth    *)
(* tokens of the accounts, the backfill, and the archive.  For each        *)
(* component an inductive invariant that says more than the property,      *)
(* preserved by every action.                                              *)
(***************************************************************************)
EXTENDS MCIngest, FiniteSetTheorems, SequenceTheorems, WellFoundedInduction, TLAPS

-------------------------------------------------------------------------------
(* CertCache.  A verification that has dropped the cache once reads, or     *)
(* fetches, a key no older than the one its token names: whoever fetches    *)
(* after the drop holds the lock that was free at the drop.                 *)

VerifyRecord == [at : {"idle", "read", "lock", "request", "store", "match", "accepted", "rejected", "failed"},
                 kid : Nat, got : Nat, retried : BOOLEAN]

CertTypes ==
  /\ published \in 1 .. MaxRotations + 1 /\ cache \in 0 .. published
  /\ verify \in [Verification -> VerifyRecord] /\ lock \subseteq Verification
Filling(v) == verify[v].at \in {"request", "store"}
LockHeld ==
  /\ \A v \in Verification : Filling(v) <=> v \in lock
  /\ \A u, v \in lock : u = v
KeysPublished == \A v \in Verification : verify[v].kid <= published /\ verify[v].got <= published
Searching(v) == verify[v].retried /\ verify[v].at \in {"read", "lock", "request", "store", "match"}
DropIsFollowed ==
  \A v \in Verification : Searching(v) =>
    /\ cache # 0 => verify[v].kid <= cache
    /\ \A u \in Verification : verify[u].at = "store" => verify[v].kid <= verify[u].got
    /\ verify[v].at = "match" => verify[v].kid <= verify[v].got

CInv == CertTypes /\ LockHeld /\ KeysPublished /\ DropIsFollowed /\ CurrentKeyAccepted

LEMMA CertInitially == CertInit => CInv
BY RotationBound DEF CertInit, NotVerifying, CInv, CertTypes, VerifyRecord, LockHeld, Filling, KeysPublished,
   DropIsFollowed, Searching, CurrentKeyAccepted

\* A verification moves on without the lock or the cache changing.
LEMMA VerifyMoves ==
  ASSUME CInv, NEW v \in Verification, NEW w \in VerifyRecord, verify' = [verify EXCEPT ![v] = w],
         UNCHANGED <<published, cache, lock>>, ~Filling(v), w.at \notin {"request", "store"},
         w.kid <= published, w.got <= published,
         w.retried => verify[v].retried /\ w.kid = verify[v].kid /\ Searching(v),
         (w.retried /\ w.at = "match") => w.kid <= w.got,
         w.at = "rejected" => w.kid < published
  PROVE  CInv'
<1> USE DEF CInv
<1>1. /\ verify' \in [Verification -> VerifyRecord] /\ verify'[v] = w
      /\ \A u \in Verification : u # v => verify'[u] = verify[u]
  BY DEF CertTypes
<1>2. CertTypes' /\ KeysPublished' /\ CurrentKeyAccepted'
  BY <1>1 DEF CertTypes, KeysPublished, CurrentKeyAccepted
<1>3. LockHeld'
  BY <1>1 DEF LockHeld, Filling
<1>4. DropIsFollowed'
  BY <1>1 DEF DropIsFollowed, Searching
<1> QED BY <1>2, <1>3, <1>4

LEMMA OneVerification ==
  ASSUME CertTypes, NEW v \in Verification, NEW w \in VerifyRecord, Put(v, w)
  PROVE  /\ verify' \in [Verification -> VerifyRecord] /\ verify'[v] = w
         /\ \A u \in Verification : u # v => verify'[u] = verify[u]
BY DEF CertTypes, Put

LEMMA ReadsPreserve ==
  ASSUME CInv, NEW v \in Verification,
         VerifyGmailJWT(v) \/ ReadCache(v) \/ (LockCache(v) /\ cache # 0) \/ Done(v)
  PROVE  CInv'
<1> USE DEF CInv
<1>1. /\ verify[v] \in VerifyRecord /\ NotVerifying \in VerifyRecord /\ published \in Nat /\ cache \in Nat
      /\ cache <= published
  BY RotationBound DEF CertTypes, VerifyRecord, NotVerifying
<1>2. CASE VerifyGmailJWT(v)
  <2> DEFINE w == [NotVerifying EXCEPT !.at = "read", !.kid = published]
  <2>1. /\ w \in VerifyRecord /\ w.at = "read" /\ w.kid = published /\ w.got = 0 /\ ~w.retried
        /\ verify' = [verify EXCEPT ![v] = w] /\ ~Filling(v) /\ UNCHANGED <<published, cache, lock>>
    BY <1>1, <1>2 DEF VerifyRecord, NotVerifying, VerifyGmailJWT, Put, Filling
  <2> HIDE DEF w
  <2>2. w.kid <= published /\ w.got <= published
    BY <1>1, <2>1
  <2> QED BY <2>1, <2>2, VerifyMoves
<1>3. CASE (ReadCache(v) \/ LockCache(v)) /\ cache # 0
  <2> DEFINE w == [verify[v] EXCEPT !.at = "match", !.got = cache]
  <2>1. /\ w \in VerifyRecord /\ w.at = "match" /\ w.kid = verify[v].kid /\ w.got = cache
        /\ w.retried = verify[v].retried
        /\ verify' = [verify EXCEPT ![v] = w] /\ verify[v].at \in {"read", "lock"}
        /\ UNCHANGED <<published, cache, lock>>
    BY <1>1, <1>3 DEF VerifyRecord, ReadCache, LockCache, Put
  <2> HIDE DEF w
  <2>2. w.kid <= published /\ (w.retried => Searching(v) /\ w.kid <= w.got)
    BY <1>3, <2>1 DEF KeysPublished, DropIsFollowed, Searching
  <2> QED BY <1>1, <2>1, <2>2, VerifyMoves DEF Filling
<1>4. CASE ReadCache(v) /\ ~(cache # 0)
  <2> DEFINE w == [verify[v] EXCEPT !.at = "lock"]
  <2>1. /\ w \in VerifyRecord /\ w.at = "lock" /\ w.kid = verify[v].kid /\ w.got = verify[v].got
        /\ w.retried = verify[v].retried
        /\ verify' = [verify EXCEPT ![v] = w] /\ verify[v].at = "read"
        /\ UNCHANGED <<published, cache, lock>>
    BY <1>1, <1>4 DEF VerifyRecord, ReadCache, Put, With
  <2> HIDE DEF w
  <2>2. w.kid <= published /\ w.got <= published /\ ~Filling(v) /\ (w.retried => Searching(v))
    BY <2>1 DEF KeysPublished, Searching, Filling
  <2> QED BY <2>1, <2>2, VerifyMoves
<1>5. CASE Done(v)
  <2>1. /\ NotVerifying.at = "idle" /\ NotVerifying.kid = 0 /\ NotVerifying.got = 0 /\ ~NotVerifying.retried
        /\ verify' = [verify EXCEPT ![v] = NotVerifying] /\ ~Filling(v) /\ UNCHANGED <<published, cache, lock>>
    BY <1>5 DEF NotVerifying, Done, Put, Filling
  <2>2. NotVerifying.kid <= published /\ NotVerifying.got <= published
    BY <1>1, <2>1
  <2> QED BY <1>1, <2>1, <2>2, VerifyMoves
<1> QED BY <1>2, <1>3, <1>4, <1>5

\* The lock is taken when nobody fills the cache.
LEMMA LockCachePreserves ==
  ASSUME CInv, NEW v \in Verification, LockCache(v), cache = 0
  PROVE  CInv'
<1> USE DEF CInv
<1> DEFINE w == [verify[v] EXCEPT !.at = "request"]
<1>1. /\ w \in VerifyRecord /\ w.at = "request" /\ w.kid = verify[v].kid /\ w.got = verify[v].got
      /\ w.retried = verify[v].retried /\ Put(v, w) /\ verify[v].at = "lock" /\ lock = {} /\ lock' = {v}
      /\ UNCHANGED <<published, cache>>
  BY DEF CertTypes, VerifyRecord, LockCache, Put, With, Free
<1> HIDE DEF w
<1>2. /\ verify' \in [Verification -> VerifyRecord] /\ verify'[v] = w
      /\ \A u \in Verification : u # v => verify'[u] = verify[u]
  BY <1>1, OneVerification
<1>3. CertTypes' /\ KeysPublished' /\ CurrentKeyAccepted' /\ LockHeld'
  BY <1>1, <1>2 DEF CertTypes, KeysPublished, CurrentKeyAccepted, LockHeld, Filling
<1>4. DropIsFollowed'
  BY <1>1, <1>2 DEF DropIsFollowed, Searching
<1> QED BY <1>3, <1>4

\* The holder of the lock asks for the key that is published, which no token
\* that was seen so far is newer than, and stores it.
LEMMA FetchPreserves ==
  ASSUME CInv, NEW v \in Verification, FetchJWKS(v)
  PROVE  CInv'
<1> USE DEF CInv
<1>1. verify[v] \in VerifyRecord /\ verify[v].at = "request" /\ lock = {v} /\ UNCHANGED <<published, cache>>
      /\ published \in Nat
  BY RotationBound DEF CertTypes, FetchJWKS, LockHeld, Filling
<1>2. CASE Put(v, [verify[v] EXCEPT !.at = "store", !.got = published]) /\ UNCHANGED lock
  <2> DEFINE w == [verify[v] EXCEPT !.at = "store", !.got = published]
  <2>1. /\ w \in VerifyRecord /\ w.at = "store" /\ w.kid = verify[v].kid /\ w.got = published
        /\ w.retried = verify[v].retried
    BY <1>1 DEF VerifyRecord
  <2>2. Put(v, w)
    BY <1>2
  <2> HIDE DEF w
  <2>3. /\ verify' \in [Verification -> VerifyRecord] /\ verify'[v] = w
        /\ \A u \in Verification : u # v => verify'[u] = verify[u]
    BY <2>1, <2>2, OneVerification
  <2>4. CertTypes' /\ KeysPublished' /\ CurrentKeyAccepted' /\ LockHeld'
    BY <1>1, <1>2, <2>1, <2>3 DEF CertTypes, KeysPublished, CurrentKeyAccepted, LockHeld, Filling
  <2>5. DropIsFollowed'
    BY <1>1, <2>1, <2>3 DEF DropIsFollowed, Searching, KeysPublished
  <2> QED BY <2>4, <2>5
<1>3. CASE Put(v, With(v, "failed")) /\ lock' = {}
  <2> DEFINE w == [verify[v] EXCEPT !.at = "failed"]
  <2>1. /\ w \in VerifyRecord /\ w.at = "failed" /\ w.kid = verify[v].kid /\ w.got = verify[v].got
    BY <1>1 DEF VerifyRecord
  <2>2. Put(v, w)
    BY <1>3 DEF With
  <2> HIDE DEF w
  <2>3. /\ verify' \in [Verification -> VerifyRecord] /\ verify'[v] = w
        /\ \A u \in Verification : u # v => verify'[u] = verify[u]
    BY <2>1, <2>2, OneVerification
  <2>4. CertTypes' /\ KeysPublished' /\ CurrentKeyAccepted' /\ LockHeld'
    BY <1>1, <1>3, <2>1, <2>3 DEF CertTypes, KeysPublished, CurrentKeyAccepted, LockHeld, Filling
  <2>5. DropIsFollowed'
    BY <1>1, <2>1, <2>3 DEF DropIsFollowed, Searching
  <2> QED BY <2>4, <2>5
<1> QED BY <1>2, <1>3 DEF FetchJWKS

LEMMA StorePreserves ==
  ASSUME CInv, NEW v \in Verification, StoreCerts(v)
  PROVE  CInv'
<1> USE DEF CInv
<1> DEFINE w == [verify[v] EXCEPT !.at = "match"]
<1>1. /\ w \in VerifyRecord /\ w.at = "match" /\ w.kid = verify[v].kid /\ w.got = verify[v].got
      /\ w.retried = verify[v].retried /\ Put(v, w) /\ verify[v].at = "store" /\ lock' = {}
      /\ cache' = verify[v].got /\ UNCHANGED published
  BY DEF CertTypes, VerifyRecord, StoreCerts, Put, With
<1> HIDE DEF w
<1>2. /\ verify' \in [Verification -> VerifyRecord] /\ verify'[v] = w
      /\ \A u \in Verification : u # v => verify'[u] = verify[u]
  BY <1>1, OneVerification
<1>3. lock = {v} /\ verify[v].got \in Nat
  BY <1>1 DEF LockHeld, Filling, CertTypes, VerifyRecord
<1>4. CertTypes' /\ KeysPublished' /\ CurrentKeyAccepted' /\ LockHeld'
  BY RotationBound, <1>1, <1>2, <1>3 DEF CertTypes, KeysPublished, CurrentKeyAccepted, LockHeld, Filling
<1>5. DropIsFollowed'
  BY <1>1, <1>2 DEF DropIsFollowed, Searching
<1> QED BY <1>4, <1>5

\* A key that was found in spite of the drop and does not match is a newer one.
LEMMA MatchPreserves ==
  ASSUME CInv, NEW v \in Verification, MatchKey(v)
  PROVE  CInv'
<1> USE DEF CInv
<1>1. /\ verify[v] \in VerifyRecord /\ verify[v].at = "match" /\ UNCHANGED <<published, lock>> /\ published \in Nat
      /\ verify[v].kid <= published /\ verify[v].got <= published /\ ~Filling(v)
  BY RotationBound DEF CertTypes, MatchKey, KeysPublished, Filling
<1>2. CASE verify[v].got = verify[v].kid
  <2> DEFINE w == [verify[v] EXCEPT !.at = "accepted"]
  <2>1. /\ w \in VerifyRecord /\ w.at = "accepted" /\ w.kid = verify[v].kid /\ w.got = verify[v].got
        /\ w.retried = verify[v].retried /\ verify' = [verify EXCEPT ![v] = w] /\ UNCHANGED cache
    BY <1>1, <1>2 DEF VerifyRecord, MatchKey, Put, With
  <2> HIDE DEF w
  <2> QED BY <1>1, <2>1, VerifyMoves DEF Searching
<1>3. CASE verify[v].got # verify[v].kid /\ verify[v].retried
  <2> DEFINE w == [verify[v] EXCEPT !.at = "rejected"]
  <2>1. /\ w \in VerifyRecord /\ w.at = "rejected" /\ w.kid = verify[v].kid /\ w.got = verify[v].got
        /\ w.retried = verify[v].retried /\ verify' = [verify EXCEPT ![v] = w] /\ UNCHANGED cache
    BY <1>1, <1>3 DEF VerifyRecord, MatchKey, Put, With
  <2> HIDE DEF w
  <2>2. Searching(v) /\ w.kid <= w.got /\ w.kid < published
    BY <1>1, <1>3, <2>1 DEF Searching, DropIsFollowed, VerifyRecord
  <2> QED BY <1>1, <2>1, <2>2, VerifyMoves
<1>4. CASE verify[v].got # verify[v].kid /\ ~verify[v].retried
  <2> DEFINE w == [verify[v] EXCEPT !.at = "read", !.retried = TRUE]
  <2>1. /\ w \in VerifyRecord /\ w.at = "read" /\ w.kid = verify[v].kid /\ w.got = verify[v].got
        /\ Put(v, w) /\ lock = {} /\ cache' = 0
    BY <1>1, <1>4 DEF VerifyRecord, MatchKey, DropEntry
  <2> HIDE DEF w
  <2>2. /\ verify' \in [Verification -> VerifyRecord] /\ verify'[v] = w
        /\ \A u \in Verification : u # v => verify'[u] = verify[u]
    BY <2>1, OneVerification
  <2>3. CertTypes' /\ KeysPublished' /\ CurrentKeyAccepted' /\ LockHeld'
    BY <1>1, <2>1, <2>2 DEF CertTypes, KeysPublished, CurrentKeyAccepted, LockHeld, Filling
  <2>4. DropIsFollowed'
    BY <1>1, <2>1, <2>2 DEF DropIsFollowed, Searching, LockHeld, Filling
  <2> QED BY <2>3, <2>4
<1> QED BY <1>2, <1>3, <1>4

LEMMA CertInductive == CInv /\ [CertNext]_certVars => CInv'
<1> SUFFICES ASSUME CInv, [CertNext]_certVars PROVE CInv'
  OBVIOUS
<1>1. CASE Rotate
  BY <1>1, RotationBound DEF CInv, CertTypes, VerifyRecord, LockHeld, Filling, KeysPublished, DropIsFollowed, Searching,
     CurrentKeyAccepted, Rotate
<1>2. CASE CacheExpires \/ UNCHANGED certVars
  <2>1. UNCHANGED <<published, lock, verify>> /\ (cache' = cache \/ cache' = 0) /\ published \in Nat
    BY <1>2, RotationBound DEF CInv, CertTypes, CacheExpires, certVars
  <2> QED BY <2>1 DEF CInv, CertTypes, LockHeld, Filling, KeysPublished, DropIsFollowed, Searching,
     CurrentKeyAccepted
<1>3. ASSUME NEW v \in Verification, VerifyGmailJWT(v) \/ ReadCache(v) \/ (LockCache(v) /\ cache # 0) \/ Done(v)
      PROVE  CInv'
  BY <1>3, ReadsPreserve
<1>4. ASSUME NEW v \in Verification, (LockCache(v) /\ cache = 0) \/ FetchJWKS(v) \/ StoreCerts(v) \/ MatchKey(v)
      PROVE  CInv'
  BY <1>4, LockCachePreserves, FetchPreserves, StorePreserves, MatchPreserves
<1> QED BY <1>1, <1>2, <1>3, <1>4 DEF CertNext

LEMMA CInvIsSound == CInv => CertInv
<1> SUFFICES ASSUME CInv PROVE CertInv
  OBVIOUS
<1>1. Cardinality(lock) <= 1
  <2>1. lock = {} \/ \E v \in lock : lock = {v}
    BY DEF CInv, LockHeld
  <2>2. CASE lock = {}
    BY <2>2, FS_EmptySet
  <2>3. ASSUME NEW v \in lock, lock = {v} PROVE Cardinality(lock) = 1
    BY <2>3, FS_Singleton, Zenon
  <2> QED BY <2>1, <2>2, <2>3
<1> QED BY <1>1 DEF CInv, CertTypes, KeysPublished, CertTypeOK, CertInv

\* No token of the published key is rejected: for any number of verifications
\* and rotations of the key.
THEOREM CertIsSound == CertSpec => []CertInv
<1>1. CertInit => CInv
  BY CertInitially
<1>2. CInv /\ [CertNext]_certVars => CInv'
  BY CertInductive
<1>3. CInv => CertInv
  BY CInvIsSound
<1> QED BY <1>1, <1>2, <1>3, PTL DEF CertSpec

-------------------------------------------------------------------------------
(* WebhookIntake.  Jobs and requests about to make one are paid for by the *)
(* key that is set or by the time it was not; and whatever has a key, or   *)
(* has left a request, is kept somewhere.                                   *)

RequestOfNotes == [at : {"none", "check", "enqueue"}, all : SUBSET Note, todo : Seq(Note)]
Enqueuing == [n \in Note |-> {r \in Request : request[r].at = "enqueue" /\ Head(request[r].todo) = n}]
Kept == {n \in Note : n \in ToSet(fetchQueue) \cup fetched \cup lost \/ Enqueuing[n] # {}}

IntakeTypes ==
  /\ seen \subseteq Note /\ fetched \subseteq Note /\ answered \subseteq Note /\ lost \subseteq Note
  /\ fetchQueue \in Seq(Note) /\ jobs \in [Note -> Nat] /\ unseen \in [Note -> Nat]
  /\ posts \in 0 .. MaxPosts /\ errors \in 0 .. MaxErrors
  /\ request \in [Request -> RequestOfNotes]
RequestFits(w) == w.todo \in Seq(w.all) /\ (w.at = "enqueue" => w.todo # <<>>)
RequestsFit == \A r \in Request : RequestFits(request[r])
JobsPaid ==
  \A n \in Note : /\ IsFiniteSet(Enqueuing[n])
                  /\ jobs[n] + Cardinality(Enqueuing[n]) <= unseen[n] + (IF n \in seen THEN 1 ELSE 0)
SeenIsKept == \A n \in seen \cup answered : n \in Kept
HandledIsKept == \A r \in Request : \A n \in request[r].all : n \in ToSet(request[r].todo) \/ n \in Kept

IInv == IntakeTypes /\ RequestsFit /\ JobsPaid /\ SeenIsKept /\ HandledIsKept

\* The elements of a sequence that grows at its end or loses its head.
LEMMA ToSetOfSeq ==
  ASSUME NEW S, NEW s \in Seq(S)
  PROVE  /\ ToSet(s) \subseteq S /\ ToSet(<<>>) = {}
         /\ \A x \in S : Append(s, x) \in Seq(S) /\ ToSet(Append(s, x)) = ToSet(s) \cup {x}
         /\ s # <<>> => /\ Head(s) \in S /\ Tail(s) \in Seq(S)
                        /\ ToSet(s) = {Head(s)} \cup ToSet(Tail(s))
<1>1. ToSet(s) \subseteq S /\ ToSet(<<>>) = {}
  BY DEF ToSet
<1>2. ASSUME NEW x \in S PROVE Append(s, x) \in Seq(S) /\ ToSet(Append(s, x)) = ToSet(s) \cup {x}
  <2>1. /\ Append(s, x) \in Seq(S) /\ Len(Append(s, x)) = Len(s) + 1 /\ Len(s) \in Nat
        /\ \A i \in 1 .. Len(s) : Append(s, x)[i] = s[i]
        /\ Append(s, x)[Len(s) + 1] = x
    BY AppendProperties, LenProperties
  <2>2. DOMAIN s = 1 .. Len(s) /\ DOMAIN Append(s, x) = 1 .. (Len(s) + 1)
    BY <2>1, LenProperties
  <2> QED BY <2>1, <2>2 DEF ToSet
<1>3. ASSUME s # <<>>
      PROVE  Head(s) \in S /\ Tail(s) \in Seq(S) /\ ToSet(s) = {Head(s)} \cup ToSet(Tail(s))
  <2>1. /\ Head(s) \in S /\ Tail(s) \in Seq(S) /\ Len(Tail(s)) = Len(s) - 1 /\ Len(s) \in Nat \ {0}
        /\ \A i \in 1 .. Len(Tail(s)) : Tail(s)[i] = s[i + 1]
    BY <1>3, HeadTailProperties, EmptySeq
  <2>2. DOMAIN s = 1 .. Len(s) /\ DOMAIN Tail(s) = 1 .. (Len(s) - 1) /\ Head(s) = s[1]
    BY <2>1, LenProperties
  <2>3. ToSet(s) \subseteq {Head(s)} \cup ToSet(Tail(s))
    <3> SUFFICES ASSUME NEW i \in 1 .. Len(s) PROVE s[i] = s[1] \/ \E j \in 1 .. (Len(s) - 1) : Tail(s)[j] = s[i]
      BY <2>2 DEF ToSet
    <3>1. CASE i > 1
      <4>1. i - 1 \in 1 .. (Len(s) - 1) /\ (i - 1) + 1 = i
        BY <2>1, <3>1
      <4> QED BY <2>1, <4>1
    <3> QED BY <3>1
  <2>4. {Head(s)} \cup ToSet(Tail(s)) \subseteq ToSet(s)
    BY <2>1, <2>2 DEF ToSet
  <2> QED BY <2>1, <2>3, <2>4
<1> QED BY <1>1, <1>2, <1>3

\* A sequence of all elements of a finite set names each of them.
LEMMA SeqsOfSet ==
  ASSUME NEW S, IsFiniteSet(S), NEW s \in SetToSeqs(S)
  PROVE  s \in Seq(S) /\ ToSet(s) = S
<1> DEFINE n == Cardinality(S)
<1>1. n \in Nat /\ s \in [1 .. n -> S] /\ \A i, j \in 1 .. n : i # j => s[i] # s[j]
  BY FS_CardinalityType DEF SetToSeqs
<1>2. IsFiniteSet(1 .. n) /\ Cardinality(1 .. n) = n
  BY <1>1, FS_Interval
<1>3. s \in Injection(1 .. n, S)
  BY <1>1 DEF Injection, IsInjective
<1>4. s \in Surjection(1 .. n, S)
  BY <1>2, <1>3, FS_Injection
<1>5. s \in Seq(S) /\ DOMAIN s = 1 .. n
  BY <1>1
<1> QED BY <1>4, <1>5 DEF Surjection, ToSet

LEMMA OneRequest ==
  ASSUME IntakeTypes, RequestsFit, NEW r \in Request, NEW w \in RequestOfNotes, request' = [request EXCEPT ![r] = w],
         w.todo \in Seq(w.all), w.at = "enqueue" => w.todo # <<>>
  PROVE  /\ RequestsFit' /\ request' \in [Request -> RequestOfNotes] /\ request'[r] = w
         /\ \A q \in Request : q # r => request'[q] = request[q]
         /\ \A n \in Note : Enqueuing'[n] =
              IF w.at = "enqueue" /\ Head(w.todo) = n THEN Enqueuing[n] \cup {r} ELSE Enqueuing[n] \ {r}
<1>1. /\ request' \in [Request -> RequestOfNotes] /\ request'[r] = w
      /\ \A q \in Request : q # r => request'[q] = request[q]
  BY DEF IntakeTypes
<1>2. RequestsFit'
  <2> SUFFICES ASSUME NEW q \in Request PROVE RequestFits(request'[q])
    BY DEF RequestsFit
  <2>1. RequestFits(w)
    BY DEF RequestFits
  <2>2. RequestFits(request[q])
    BY DEF RequestsFit
  <2>3. request'[q] = w \/ request'[q] = request[q]
    BY <1>1
  <2> QED BY <2>1, <2>2, <2>3
<1> QED BY <1>1, <1>2 DEF Enqueuing

\* The notification a request is about to handle.
LEMMA NotificationInHand ==
  ASSUME IntakeTypes, RequestsFit, NEW r \in Request, request[r].todo # <<>>
  PROVE  /\ request[r] \in RequestOfNotes /\ request[r].all \subseteq Note
         /\ Head(request[r].todo) \in request[r].all /\ Head(request[r].todo) \in Note
         /\ Tail(request[r].todo) \in Seq(request[r].all) /\ Tail(request[r].todo) \in Seq(Note)
         /\ ToSet(request[r].todo) = {Head(request[r].todo)} \cup ToSet(Tail(request[r].todo))
<1>1. request[r] \in RequestOfNotes /\ request[r].all \subseteq Note /\ request[r].todo \in Seq(request[r].all)
  BY DEF IntakeTypes, RequestOfNotes, RequestsFit, RequestFits
<1>2. \A s \in Seq(request[r].all) : s # <<>> =>
        Head(s) \in request[r].all /\ Tail(s) \in Seq(request[r].all) /\ ToSet(s) = {Head(s)} \cup ToSet(Tail(s))
  BY ToSetOfSeq
<1>3. Tail(request[r].todo) \in Seq(request[r].all)
  BY <1>1, <1>2
<1>4. Tail(request[r].todo) \in Seq(Note)
  BY <1>1, <1>3, SeqMonotonic
<1> QED BY <1>1, <1>2, <1>3, <1>4

LEMMA IntakeInitially == IntakeInit => IInv
<1> SUFFICES ASSUME IntakeInit PROVE IInv
  OBVIOUS
<1>1. \A n \in Note : Enqueuing[n] = {}
  BY DEF IntakeInit, Enqueuing, NoRequest
<1>2. JobsPaid
  <2>1. IsFiniteSet({}) /\ Cardinality({}) = 0
    BY FS_EmptySet
  <2>2. \A n \in Note : jobs[n] = 0 /\ unseen[n] = 0 /\ n \notin seen
    BY DEF IntakeInit
  <2> QED BY <1>1, <2>1, <2>2 DEF JobsPaid
<1>3. IntakeTypes
  BY IntakeBounds DEF IntakeInit, IntakeTypes, RequestOfNotes, NoRequest
<1>4. \A r \in Request : request[r].at = "none" /\ request[r].all = {} /\ request[r].todo = <<>>
  BY DEF IntakeInit, NoRequest
<1>5. RequestsFit
  BY <1>4, EmptySeq DEF RequestsFit, RequestFits
<1>6. SeenIsKept /\ HandledIsKept
  BY <1>4 DEF SeenIsKept, HandledIsKept, IntakeInit
<1> QED BY <1>2, <1>3, <1>5, <1>6 DEF IInv

\* A request arrives: nothing of it has been handled.
LEMMA PostPreserves ==
  ASSUME IInv, NEW r \in Request, Post(r)
  PROVE  IInv'
<1> USE DEF IInv
<1>1. PICK ns \in SUBSET Note : \E todo \in SetToSeqs(ns) :
        request' = [request EXCEPT ![r] = [at |-> "check", all |-> ns, todo |-> todo]]
  BY DEF Post
<1>2. PICK todo \in SetToSeqs(ns) : request' = [request EXCEPT ![r] = [at |-> "check", all |-> ns, todo |-> todo]]
  BY <1>1
<1>3. todo \in Seq(ns) /\ todo \in Seq(Note) /\ ToSet(todo) = ns
  BY IntakeBounds, FS_Subset, SeqsOfSet, SeqMonotonic
<1> DEFINE w == [at |-> "check", all |-> ns, todo |-> todo]
<1>4. /\ request[r].at = "none" /\ posts' \in 0 .. MaxPosts
      /\ UNCHANGED <<seen, fetchQueue, fetched, jobs, unseen, answered, lost, errors>>
  BY IntakeBounds DEF Post, IntakeTypes
<1>41. /\ w \in RequestOfNotes /\ w.at = "check" /\ w.all = ns /\ w.todo = todo
       /\ request' = [request EXCEPT ![r] = w]
  BY <1>2, <1>3 DEF RequestOfNotes
<1> HIDE DEF w
<1>5. /\ RequestsFit' /\ request' \in [Request -> RequestOfNotes] /\ request'[r] = w
      /\ \A q \in Request : q # r => request'[q] = request[q]
      /\ \A n \in Note : Enqueuing'[n] = Enqueuing[n]
  BY <1>3, <1>4, <1>41, OneRequest DEF Enqueuing
<1>6. IntakeTypes'
  BY <1>4, <1>5 DEF IntakeTypes
<1>7. JobsPaid'
  BY <1>4, <1>5 DEF JobsPaid
<1>8. Kept' = Kept
  BY <1>4, <1>5 DEF Kept
<1>9. SeenIsKept'
  BY <1>4, <1>8 DEF SeenIsKept, IntakeTypes
<1>10. HandledIsKept'
  BY <1>3, <1>4, <1>41, <1>5, <1>8 DEF HandledIsKept, IntakeTypes, RequestOfNotes
<1> QED BY <1>5, <1>6, <1>7, <1>9, <1>10

\* A notification is checked: its key was set, is set now, or was not looked at.
LEMMA CheckPreserves ==
  ASSUME IInv, NEW r \in Request, CheckDuplicate(r)
  PROVE  IInv'
<1> USE DEF IInv
<1> DEFINE n == Head(request[r].todo)
<1>1. /\ request[r] \in RequestOfNotes /\ request[r].at = "check" /\ request[r].todo # <<>>
      /\ request[r].todo \in Seq(request[r].all) /\ request[r].all \subseteq Note /\ request[r].todo \in Seq(Note)
      /\ UNCHANGED <<fetchQueue, fetched, jobs, answered, lost, posts>>
  BY DEF IntakeTypes, RequestOfNotes, RequestsFit, RequestFits, CheckDuplicate
<1>2. /\ n \in request[r].all /\ n \in Note /\ Tail(request[r].todo) \in Seq(request[r].all)
      /\ Tail(request[r].todo) \in Seq(Note)
      /\ ToSet(request[r].todo) = {n} \cup ToSet(Tail(request[r].todo))
  BY <1>1, NotificationInHand
<1>3. \A m \in Note : r \notin Enqueuing[m]
  BY <1>1 DEF Enqueuing
<1> HIDE DEF n
<1>4. CASE n \in seen /\ Set(r, "check", Tail(request[r].todo)) /\ UNCHANGED <<seen, unseen, errors>>
  <2> DEFINE w == [request[r] EXCEPT !.at = "check", !.todo = Tail(request[r].todo)]
  <2>1. /\ w \in RequestOfNotes /\ w.at = "check" /\ w.all = request[r].all /\ w.todo = Tail(request[r].todo)
        /\ request' = [request EXCEPT ![r] = w]
    BY <1>1, <1>2, <1>4 DEF RequestOfNotes, Set
  <2> HIDE DEF w
  <2>2. /\ RequestsFit' /\ request' \in [Request -> RequestOfNotes] /\ request'[r] = w
        /\ \A q \in Request : q # r => request'[q] = request[q]
        /\ \A m \in Note : Enqueuing'[m] = Enqueuing[m]
    <3>1. RequestsFit' /\ \A m \in Note : Enqueuing'[m] = Enqueuing[m] \ {r}
      BY <1>2, <2>1, OneRequest
    <3>2. \A m \in Note : Enqueuing[m] \ {r} = Enqueuing[m]
      BY <1>3
    <3> QED BY <1>2, <2>1, <3>1, <3>2, OneRequest
  <2>3. IntakeTypes'
    BY <1>1, <1>4, <2>2 DEF IntakeTypes
  <2>4. JobsPaid' /\ Kept' = Kept
    BY <1>1, <1>4, <2>2 DEF JobsPaid, Kept
  <2>5. SeenIsKept' /\ n \in Kept
    BY <1>1, <1>4, <2>4 DEF SeenIsKept, IntakeTypes
  <2>6. HandledIsKept'
    BY <1>1, <1>2, <2>1, <2>2, <2>4, <2>5 DEF HandledIsKept, IntakeTypes, RequestOfNotes
  <2> QED BY <2>2, <2>3, <2>4, <2>5, <2>6
<1>5. CASE /\ Set(r, "enqueue", request[r].todo)
           /\ \/ n \notin seen /\ seen' = seen \cup {n} /\ UNCHANGED <<unseen, errors>>
              \/ Err /\ unseen' = [unseen EXCEPT ![n] = @ + 1] /\ UNCHANGED seen
  <2> DEFINE w == [request[r] EXCEPT !.at = "enqueue", !.todo = request[r].todo]
  <2>1. /\ w \in RequestOfNotes /\ w.at = "enqueue" /\ w.all = request[r].all /\ w.todo = request[r].todo
        /\ Head(w.todo) = n /\ request' = [request EXCEPT ![r] = w]
    BY <1>1, <1>5 DEF RequestOfNotes, Set, n
  <2> HIDE DEF w
  <2>2. /\ RequestsFit' /\ request' \in [Request -> RequestOfNotes] /\ request'[r] = w
        /\ \A q \in Request : q # r => request'[q] = request[q]
        /\ \A m \in Note : Enqueuing'[m] = IF m = n THEN Enqueuing[m] \cup {r} ELSE Enqueuing[m]
    <3>1. /\ RequestsFit'
          /\ \A m \in Note : Enqueuing'[m] = IF n = m THEN Enqueuing[m] \cup {r} ELSE Enqueuing[m] \ {r}
      BY <1>1, <2>1, OneRequest
    <3>2. \A m \in Note : Enqueuing[m] \ {r} = Enqueuing[m]
      BY <1>3
    <3> QED BY <1>1, <2>1, <3>1, <3>2, OneRequest
  <2>3. IntakeTypes'
    <3>1. seen' \subseteq Note /\ unseen' \in [Note -> Nat]
      BY <1>2, <1>5 DEF IntakeTypes
    <3>2. errors' \in 0 .. MaxErrors
      BY <1>5, IntakeBounds DEF IntakeTypes, Err
    <3> QED BY <1>1, <2>2, <3>1, <3>2 DEF IntakeTypes
  <2>4. JobsPaid'
    <3>1. \A m \in Note : IsFiniteSet(Enqueuing[m]) /\ Cardinality(Enqueuing[m]) \in Nat
      BY FS_CardinalityType DEF JobsPaid
    <3>2. /\ IsFiniteSet(Enqueuing[n] \cup {r})
          /\ Cardinality(Enqueuing[n] \cup {r}) = Cardinality(Enqueuing[n]) + 1
      BY <1>2, <1>3, <3>1, FS_AddElement
    <3> SUFFICES ASSUME NEW m \in Note
                 PROVE  /\ IsFiniteSet(Enqueuing'[m])
                        /\ jobs'[m] + Cardinality(Enqueuing'[m]) <= unseen'[m] + (IF m \in seen' THEN 1 ELSE 0)
      BY DEF JobsPaid
    <3>3. /\ jobs'[m] = jobs[m] /\ jobs[m] \in Nat /\ unseen[m] \in Nat
          /\ jobs[m] + Cardinality(Enqueuing[m]) <= unseen[m] + (IF m \in seen THEN 1 ELSE 0)
      BY <1>1 DEF JobsPaid, IntakeTypes
    <3>4. CASE m # n
      <4>1. Enqueuing'[m] = Enqueuing[m] /\ unseen'[m] = unseen[m] /\ (m \in seen' <=> m \in seen)
        BY <1>5, <2>2, <3>4 DEF IntakeTypes
      <4> QED BY <3>1, <3>3, <4>1
    <3>5. CASE m = n
      <4>1. Enqueuing'[m] = Enqueuing[n] \cup {r}
        BY <2>2, <3>5
      <4>2. \/ n \notin seen /\ n \in seen' /\ unseen'[n] = unseen[n]
            \/ (n \in seen' <=> n \in seen) /\ unseen'[n] = unseen[n] + 1
        BY <1>2, <1>5 DEF IntakeTypes
      <4> QED BY <3>1, <3>2, <3>3, <3>5, <4>1, <4>2
    <3> QED BY <3>4, <3>5
  <2>5. /\ Kept \subseteq Kept'
        /\ n \in Kept'
    BY <1>1, <1>2, <2>2 DEF Kept
  <2>6. SeenIsKept'
    BY <1>1, <1>5, <2>5 DEF SeenIsKept, IntakeTypes
  <2>7. HandledIsKept'
    BY <1>1, <2>1, <2>2, <2>5 DEF HandledIsKept, IntakeTypes, RequestOfNotes
  <2> QED BY <2>2, <2>3, <2>4, <2>6, <2>7
<1> QED BY <1>4, <1>5 DEF CheckDuplicate, Duplicate, OnError, n

\* The job is queued, or lost.
LEMMA EnqueuePreserves ==
  ASSUME IInv, NEW r \in Request, EnqueueFetchJob(r)
  PROVE  IInv'
<1> USE DEF IInv
<1> DEFINE n == Head(request[r].todo)
           w == [request[r] EXCEPT !.at = "check", !.todo = Tail(request[r].todo)]
<1>1. /\ request[r] \in RequestOfNotes /\ request[r].at = "enqueue" /\ request[r].todo # <<>>
      /\ request[r].todo \in Seq(request[r].all) /\ request[r].all \subseteq Note /\ request[r].todo \in Seq(Note)
      /\ UNCHANGED <<seen, fetched, unseen, answered, posts>>
  BY DEF IntakeTypes, RequestOfNotes, RequestsFit, RequestFits, EnqueueFetchJob
<1>2. /\ n \in Note /\ n \in request[r].all /\ Tail(request[r].todo) \in Seq(request[r].all) /\ Tail(request[r].todo) \in Seq(Note)
      /\ ToSet(request[r].todo) = {n} \cup ToSet(Tail(request[r].todo))
  BY <1>1, NotificationInHand
<1>3. /\ w \in RequestOfNotes /\ w.at = "check" /\ w.all = request[r].all /\ w.todo = Tail(request[r].todo)
      /\ request' = [request EXCEPT ![r] = w]
  BY <1>1, <1>2 DEF RequestOfNotes, EnqueueFetchJob, Set
<1>4. \A m \in Note : r \in Enqueuing[m] <=> m = n
  BY <1>1 DEF Enqueuing
<1>5. \/ /\ fetchQueue' = Append(fetchQueue, n) /\ jobs' = [jobs EXCEPT ![n] = @ + 1]
         /\ UNCHANGED <<lost, errors>>
      \/ Err /\ lost' = lost \cup {n} /\ UNCHANGED <<fetchQueue, jobs>>
  BY DEF EnqueueFetchJob
<1> HIDE DEF n, w
<1>6. /\ RequestsFit' /\ request' \in [Request -> RequestOfNotes] /\ request'[r] = w
      /\ \A q \in Request : q # r => request'[q] = request[q]
      /\ \A m \in Note : Enqueuing'[m] = Enqueuing[m] \ {r}
  BY <1>2, <1>3, OneRequest
<1>7. fetchQueue' \in Seq(Note) /\ ToSet(fetchQueue) \subseteq ToSet(fetchQueue')
      /\ n \in ToSet(fetchQueue') \cup lost' /\ lost \subseteq lost'
  <2>1. \A x \in Note : /\ Append(fetchQueue, x) \in Seq(Note)
                        /\ ToSet(Append(fetchQueue, x)) = ToSet(fetchQueue) \cup {x}
    BY ToSetOfSeq DEF IntakeTypes
  <2> QED BY <1>2, <1>5, <2>1 DEF IntakeTypes
<1>8. IntakeTypes'
  <2>0. jobs \in [Note -> Nat] /\ lost \subseteq Note
    BY DEF IntakeTypes
  <2>1. jobs' \in [Note -> Nat] /\ lost' \subseteq Note
    BY <1>2, <1>5, <2>0
  <2>2. errors' \in 0 .. MaxErrors
    BY <1>5, IntakeBounds DEF IntakeTypes, Err
  <2> QED BY <1>1, <1>6, <1>7, <2>1, <2>2 DEF IntakeTypes
<1>9. JobsPaid'
  <2> SUFFICES ASSUME NEW m \in Note
               PROVE  /\ IsFiniteSet(Enqueuing'[m])
                      /\ jobs'[m] + Cardinality(Enqueuing'[m]) <= unseen'[m] + (IF m \in seen' THEN 1 ELSE 0)
    BY DEF JobsPaid
  <2>1. /\ jobs[m] \in Nat /\ unseen[m] \in Nat /\ IsFiniteSet(Enqueuing[m]) /\ Cardinality(Enqueuing[m]) \in Nat
        /\ jobs[m] + Cardinality(Enqueuing[m]) <= unseen[m] + (IF m \in seen THEN 1 ELSE 0)
    BY FS_CardinalityType DEF JobsPaid, IntakeTypes
  <2>2. /\ IsFiniteSet(Enqueuing[m] \ {r})
        /\ Cardinality(Enqueuing[m] \ {r}) = IF m = n THEN Cardinality(Enqueuing[m]) - 1 ELSE Cardinality(Enqueuing[m])
    BY <1>4, <2>1, FS_RemoveElement
  <2>3. jobs'[m] <= IF m = n THEN jobs[m] + 1 ELSE jobs[m]
    BY <1>5, <2>1 DEF IntakeTypes
  <2>4. jobs'[m] \in Nat /\ Enqueuing'[m] = Enqueuing[m] \ {r} /\ UNCHANGED <<unseen, seen>>
    BY <1>1, <1>6, <1>8 DEF IntakeTypes
  <2> QED BY <2>1, <2>2, <2>3, <2>4
<1>10. Kept \subseteq Kept'
  BY <1>1, <1>4, <1>6, <1>7 DEF Kept
<1>11. SeenIsKept'
  BY <1>1, <1>10 DEF SeenIsKept, IntakeTypes
<1>12. n \in Kept'
  BY <1>2, <1>7 DEF Kept
<1>13. HandledIsKept'
  BY <1>1, <1>2, <1>3, <1>6, <1>10, <1>12 DEF HandledIsKept, IntakeTypes, RequestOfNotes
<1> QED BY <1>6, <1>8, <1>9, <1>11, <1>13

\* The provider is answered when nothing of the request is left to handle.
LEMMA AnswerPreserves ==
  ASSUME IInv, NEW r \in Request, Answer(r)
  PROVE  IInv'
<1> USE DEF IInv
<1>1. /\ request[r] \in RequestOfNotes /\ request[r].at = "check" /\ request[r].todo = <<>>
      /\ answered' = answered \cup request[r].all /\ request' = [request EXCEPT ![r] = NoRequest]
      /\ UNCHANGED <<seen, fetchQueue, fetched, jobs, unseen, lost, posts, errors>>
  BY DEF IntakeTypes, Answer, Answerable
<1>2. NoRequest \in RequestOfNotes /\ NoRequest.at = "none" /\ NoRequest.all = {} /\ NoRequest.todo \in Seq(NoRequest.all)
  BY EmptySeq DEF RequestOfNotes, NoRequest
<1>3. /\ RequestsFit' /\ request' \in [Request -> RequestOfNotes] /\ request'[r] = NoRequest
      /\ \A q \in Request : q # r => request'[q] = request[q]
      /\ \A m \in Note : Enqueuing'[m] = Enqueuing[m] \ {r}
  BY <1>1, <1>2, OneRequest
<1>4. \A m \in Note : Enqueuing'[m] = Enqueuing[m]
  BY <1>1, <1>3 DEF Enqueuing
<1>5. IntakeTypes'
  BY <1>1, <1>3 DEF IntakeTypes, RequestOfNotes
<1>6. JobsPaid' /\ Kept' = Kept
  BY <1>1, <1>4 DEF JobsPaid, Kept
<1>7. request[r].all \subseteq Kept
  BY <1>1 DEF HandledIsKept, ToSet
<1>8. SeenIsKept'
  BY <1>1, <1>6, <1>7 DEF SeenIsKept
<1>9. HandledIsKept'
  BY <1>2, <1>3, <1>6 DEF HandledIsKept
<1> QED BY <1>3, <1>5, <1>6, <1>8, <1>9

\* The server dies: what it was about to queue is lost.
LEMMA DeathPreserves ==
  ASSUME IInv, ServerDies
  PROVE  IInv'
<1> USE DEF IInv
<1>1. /\ request' = [r \in Request |-> NoRequest]
      /\ lost' = lost \cup {Head(request[r].todo) : r \in {q \in Request : request[q].at = "enqueue"}}
      /\ errors' = errors + 1 /\ errors < MaxErrors
      /\ UNCHANGED <<seen, fetchQueue, fetched, jobs, unseen, answered, posts>>
  BY DEF ServerDies, Err
<1>2. NoRequest \in RequestOfNotes /\ NoRequest.at = "none" /\ NoRequest.all = {} /\ NoRequest.todo \in Seq(NoRequest.all)
  BY EmptySeq DEF RequestOfNotes, NoRequest
<1>3. \A r \in Request : request[r].at = "enqueue" => Head(request[r].todo) \in Note
  BY NotificationInHand DEF RequestsFit, RequestFits
<1>4. IntakeTypes'
  <2>1. lost' \subseteq Note
    BY <1>1, <1>3 DEF IntakeTypes
  <2>2. errors' \in 0 .. MaxErrors
    BY <1>1, IntakeBounds DEF IntakeTypes
  <2> QED BY <1>1, <1>2, <2>1, <2>2 DEF IntakeTypes
<1>5. RequestsFit'
  BY <1>1, <1>2 DEF RequestsFit, RequestFits
<1>6. \A m \in Note : Enqueuing'[m] = {}
  BY <1>1, <1>2 DEF Enqueuing
<1>7. JobsPaid'
  <2> SUFFICES ASSUME NEW m \in Note
               PROVE  /\ IsFiniteSet(Enqueuing'[m])
                      /\ jobs'[m] + Cardinality(Enqueuing'[m]) <= unseen'[m] + (IF m \in seen' THEN 1 ELSE 0)
    BY DEF JobsPaid
  <2>1. IsFiniteSet(Enqueuing'[m]) /\ Cardinality(Enqueuing'[m]) = 0
    BY <1>6, FS_EmptySet
  <2>2. /\ jobs[m] \in Nat /\ unseen[m] \in Nat /\ Cardinality(Enqueuing[m]) \in Nat
        /\ jobs[m] + Cardinality(Enqueuing[m]) <= unseen[m] + (IF m \in seen THEN 1 ELSE 0)
    BY FS_CardinalityType DEF JobsPaid, IntakeTypes
  <2> QED BY <1>1, <2>1, <2>2
<1>8. Kept \subseteq Kept'
  <2> SUFFICES ASSUME NEW m \in Kept PROVE m \in Kept'
    OBVIOUS
  <2>1. CASE m \in ToSet(fetchQueue) \cup fetched \cup lost
    BY <1>1, <2>1 DEF Kept
  <2>2. CASE Enqueuing[m] # {}
    <3>1. m \in lost'
      BY <1>1, <2>2 DEF Enqueuing, Kept
    <3> QED BY <3>1 DEF Kept
  <2> QED BY <2>1, <2>2 DEF Kept
<1>9. SeenIsKept' /\ HandledIsKept'
  BY <1>1, <1>2, <1>8 DEF SeenIsKept, HandledIsKept
<1> QED BY <1>4, <1>5, <1>7, <1>9

\* A key runs out, and is counted as one more job the notification may make.
LEMMA ExpiryPreserves ==
  ASSUME IInv, NEW n \in Note, KeyExpires(n)
  PROVE  IInv'
<1> USE DEF IInv
<1>1. /\ n \in seen /\ seen' = seen \ {n} /\ unseen' = [unseen EXCEPT ![n] = @ + 1]
      /\ errors' = errors + 1 /\ errors < MaxErrors
      /\ UNCHANGED <<request, fetchQueue, fetched, jobs, answered, lost, posts>>
  BY DEF KeyExpires, Err
<1>2. IntakeTypes'
  BY <1>1, IntakeBounds DEF IntakeTypes
<1>3. RequestsFit' /\ Enqueuing' = Enqueuing
  BY <1>1 DEF RequestsFit, Enqueuing
<1>4. Kept' = Kept
  BY <1>1, <1>3 DEF Kept
<1>5. JobsPaid'
  <2> SUFFICES ASSUME NEW m \in Note
               PROVE  /\ IsFiniteSet(Enqueuing'[m])
                      /\ jobs'[m] + Cardinality(Enqueuing'[m]) <= unseen'[m] + (IF m \in seen' THEN 1 ELSE 0)
    BY DEF JobsPaid
  <2>1. /\ jobs[m] \in Nat /\ unseen[m] \in Nat /\ IsFiniteSet(Enqueuing[m]) /\ Cardinality(Enqueuing[m]) \in Nat
        /\ jobs[m] + Cardinality(Enqueuing[m]) <= unseen[m] + (IF m \in seen THEN 1 ELSE 0)
    BY FS_CardinalityType DEF JobsPaid, IntakeTypes
  <2>2. /\ unseen'[m] = (IF m = n THEN unseen[m] + 1 ELSE unseen[m])
        /\ m \in seen' <=> m \in seen /\ m # n
    BY <1>1 DEF IntakeTypes
  <2> QED BY <1>1, <1>3, <2>1, <2>2
<1>6. SeenIsKept' /\ HandledIsKept'
  BY <1>1, <1>4 DEF SeenIsKept, HandledIsKept
<1> QED BY <1>2, <1>3, <1>5, <1>6

\* Jobs leave the queue, to a worker or to a failure.
LEMMA QueuePreserves ==
  ASSUME IInv, DequeueFetchJob \/ QueueExpires
  PROVE  IInv'
<1> USE DEF IInv
<1>1. UNCHANGED <<seen, request, jobs, unseen, answered, posts>>
  BY DEF DequeueFetchJob, QueueExpires
<1>2. /\ fetchQueue \in Seq(Note) /\ fetchQueue # <<>>
      /\ Head(fetchQueue) \in Note /\ Tail(fetchQueue) \in Seq(Note) /\ ToSet(fetchQueue) \subseteq Note
      /\ ToSet(fetchQueue) = {Head(fetchQueue)} \cup ToSet(Tail(fetchQueue))
  <2>1. fetchQueue \in Seq(Note) /\ fetchQueue # <<>>
    BY DEF IntakeTypes, DequeueFetchJob, QueueExpires
  <2> QED BY <2>1, ToSetOfSeq
<1>3. /\ fetchQueue' \in Seq(Note) /\ fetched \subseteq fetched' /\ lost \subseteq lost'
      /\ fetched' \subseteq Note /\ lost' \subseteq Note
      /\ ToSet(fetchQueue) \subseteq ToSet(fetchQueue') \cup fetched' \cup lost'
  <2>1. CASE DequeueFetchJob
    BY <1>2, <2>1 DEF DequeueFetchJob, IntakeTypes
  <2>2. CASE QueueExpires
    BY <1>2, <2>2, EmptySeq DEF QueueExpires, IntakeTypes
  <2> QED BY <2>1, <2>2
<1>4. errors' \in 0 .. MaxErrors
  BY IntakeBounds DEF DequeueFetchJob, QueueExpires, Err, IntakeTypes
<1>5. IntakeTypes' /\ RequestsFit' /\ Enqueuing' = Enqueuing
  BY <1>1, <1>3, <1>4 DEF IntakeTypes, RequestsFit, Enqueuing
<1>6. JobsPaid'
  BY <1>1, <1>5 DEF JobsPaid
<1>7. Kept \subseteq Kept'
  BY <1>3, <1>5 DEF Kept
<1>8. SeenIsKept' /\ HandledIsKept'
  BY <1>1, <1>7 DEF SeenIsKept, HandledIsKept
<1> QED BY <1>5, <1>6, <1>8

LEMMA IntakeInductive == IInv /\ [IntakeNext]_intakeVars => IInv'
<1> SUFFICES ASSUME IInv, [IntakeNext]_intakeVars PROVE IInv'
  OBVIOUS
<1>1. CASE UNCHANGED intakeVars
  BY <1>1 DEF IInv, IntakeTypes, RequestsFit, JobsPaid, SeenIsKept, HandledIsKept, Kept, Enqueuing, intakeVars
<1>2. CASE ServerDies \/ DequeueFetchJob \/ QueueExpires \/ \E n \in Note : KeyExpires(n)
  BY <1>2, DeathPreserves, QueuePreserves, ExpiryPreserves
<1>3. CASE \E r \in Request : Post(r) \/ CheckDuplicate(r) \/ EnqueueFetchJob(r) \/ Answer(r)
  BY <1>3, PostPreserves, CheckPreserves, EnqueuePreserves, AnswerPreserves
<1> QED BY <1>1, <1>2, <1>3 DEF IntakeNext

LEMMA IInvIsSound == IInv => IntakeInv
<1> SUFFICES ASSUME IInv PROVE IntakeInv
  OBVIOUS
<1> USE DEF IInv
<1>1. IntakeTypeOK
  BY DEF IntakeTypes, RequestOfNotes, RequestsFit, RequestFits, IntakeTypeOK
<1>2. OneJobPerKey
  <2> SUFFICES ASSUME NEW n \in Note PROVE jobs[n] <= 1 + unseen[n]
    BY DEF OneJobPerKey
  <2>1. /\ jobs[n] \in Nat /\ unseen[n] \in Nat /\ Cardinality(Enqueuing[n]) \in Nat
        /\ jobs[n] + Cardinality(Enqueuing[n]) <= unseen[n] + (IF n \in seen THEN 1 ELSE 0)
    BY FS_CardinalityType DEF JobsPaid, IntakeTypes
  <2> QED BY <2>1
<1>3. AnsweredIsKept
  BY DEF SeenIsKept, Kept, Enqueuing, AnsweredIsKept
<1> QED BY <1>1, <1>2, <1>3 DEF IntakeInv

\* A notification makes one job for each time it has no key, and is not
\* forgotten once the provider was told it arrived.
THEOREM IntakeIsSound == IntakeSpec => []IntakeInv
<1>1. IntakeInit => IInv
  BY IntakeInitially
<1>2. IInv /\ [IntakeNext]_intakeVars => IInv'
  BY IntakeInductive
<1>3. IInv => IntakeInv
  BY IInvIsSound
<1> QED BY <1>1, <1>2, <1>3, PTL DEF IntakeSpec

\* Every step of the whole is a step of a part, and a stutter of the others.
LEMMA PartsMove ==
  [Next]_ingest => [CertNext]_certVars /\ [IntakeNext]_intakeVars
BY DEF Next, ingest, PollMoves, QuotaMoves, IntakeMoves, CertMoves, OAuthMoves, BackfillMoves, ArchiveMoves

\* A genuine notification is let in, and makes one job that is not forgotten:
\* the checks and the intake beside all the other parts.
THEOREM NotificationsAreSound == Spec => []NotificationsInv
<1>1. Init => CertInit /\ IntakeInit
  BY DEF Init
<1>2. CertInv /\ IntakeInv => NotificationsInv
  BY DEF NotificationsInv
<1>3. Spec => CertSpec /\ IntakeSpec
  BY <1>1, PartsMove, PTL DEF Spec, CertSpec, IntakeSpec
<1> QED BY <1>2, <1>3, CertIsSound, IntakeIsSound, PTL

-------------------------------------------------------------------------------
(* ArchiveJob.  First, what a limited query returns.                        *)

\* A set of naturals that is not empty has a least element.
LEMMA LeastElement ==
  ASSUME NEW S \in SUBSET Nat, S # {}
  PROVE  \E x \in S : \A y \in S : x <= y
<1>1. PICK x \in S : \A y \in S : <<y, x>> \notin OpToRel(<, Nat)
  BY NatLessThanWellFounded, WFMin, Zenon
<1>2. \A y \in S : ~(y < x)
  BY <1>1 DEF OpToRel
<1> QED BY <1>2

LEMMA MinOfRows ==
  ASSUME NEW S \in SUBSET Nat, S # {}
  PROVE  Min(S) \in S /\ \A y \in S : Min(S) <= y
BY LeastElement DEF Min

Before(r, S) == {q \in S : q < r}

LEMMA BeforeIsFinite ==
  ASSUME NEW S \in SUBSET Nat, NEW r \in Nat
  PROVE  IsFiniteSet(Before(r, S)) /\ Cardinality(Before(r, S)) \in Nat
<1>1. Before(r, S) \in SUBSET Nat
  BY DEF Before
<1>2. \A s \in Before(r, S) : s <= r
  <2> SUFFICES ASSUME NEW s \in S, s < r PROVE s <= r
    BY DEF Before
  <2> QED OBVIOUS
<1>3. IsFiniteSet(Before(r, S))
  BY <1>1, <1>2, FS_BoundedSetOfNaturals
<1> QED BY <1>3, FS_CardinalityType

\* A later row has more rows before it.
LEMMA BeforeGrows ==
  ASSUME NEW S \in SUBSET Nat, NEW q \in S, NEW r \in S, q < r
  PROVE  Cardinality(Before(q, S)) < Cardinality(Before(r, S))
<1>1. /\ IsFiniteSet(Before(r, S)) /\ Cardinality(Before(r, S)) \in Nat
      /\ IsFiniteSet(Before(q, S)) /\ Cardinality(Before(q, S)) \in Nat
  BY BeforeIsFinite
<1>2. Before(q, S) \subseteq Before(r, S) /\ q \in Before(r, S) /\ q \notin Before(q, S)
  <2>1. \A p \in S : p < q => p < r
    OBVIOUS
  <2>2. ~(q < q)
    OBVIOUS
  <2> QED BY <2>1, <2>2 DEF Before
<1>3. Cardinality(Before(q, S)) <= Cardinality(Before(r, S)) /\ Cardinality(Before(q, S)) # Cardinality(Before(r, S))
  BY <1>1, <1>2, FS_Subset
<1> QED BY <1>1, <1>3

\* A query with a limit returns at most that many rows.
LEMMA FirstIsLimited ==
  ASSUME NEW S \in SUBSET Nat, NEW n \in Nat
  PROVE  /\ First(n, S) \subseteq S /\ IsFiniteSet(First(n, S))
         /\ Cardinality(First(n, S)) \in Nat /\ Cardinality(First(n, S)) <= n
<1> DEFINE f == [r \in First(n, S) |-> Cardinality(Before(r, S))]
<1>1. First(n, S) \subseteq S /\ \A r \in First(n, S) : r \in S /\ Cardinality(Before(r, S)) < n
  BY DEF First, Before
<1>2. f \in [First(n, S) -> 0 .. n - 1]
  <2>1. \A r \in First(n, S) : Cardinality(Before(r, S)) \in Nat
    BY <1>1, BeforeIsFinite
  <2>2. \A r \in First(n, S) : Cardinality(Before(r, S)) \in 0 .. n - 1
    BY <1>1, <2>1
  <2> QED BY <2>2
<1>3. ASSUME NEW q \in First(n, S), NEW r \in First(n, S), f[q] = f[r] PROVE q = r
  <2>1. q \in S /\ r \in S /\ Cardinality(Before(q, S)) = Cardinality(Before(r, S))
    BY <1>1, <1>3
  <2>2. ~(q < r) /\ ~(r < q)
    BY <2>1, BeforeGrows, BeforeIsFinite
  <2> QED BY <2>1, <2>2
<1>4. f \in Injection(First(n, S), 0 .. n - 1)
  BY <1>2, <1>3 DEF Injection, IsInjective
<1>5. IsFiniteSet(0 .. n - 1) /\ Cardinality(0 .. n - 1) = n
  BY FS_Interval
<1>6. IsFiniteSet(First(n, S)) /\ Cardinality(First(n, S)) <= n
  BY <1>4, <1>5, FS_Injection
<1> QED BY <1>1, <1>6, FS_CardinalityType

\* If a query returns less than its limit, it has returned everything.
LEMMA FirstIsComplete ==
  ASSUME NEW S \in SUBSET Nat, NEW n \in Nat, Cardinality(First(n + 1, S)) <= n
  PROVE  First(n + 1, S) = S
<1>1. /\ First(n + 1, S) \subseteq S /\ IsFiniteSet(First(n + 1, S)) /\ Cardinality(First(n + 1, S)) \in Nat
  BY FirstIsLimited
<1> SUFFICES ASSUME S \ First(n + 1, S) # {} PROVE FALSE
  BY <1>1
<1>2. PICK x \in S \ First(n + 1, S) : \A y \in S \ First(n + 1, S) : x <= y
  BY LeastElement
<1>3. Before(x, S) \subseteq First(n + 1, S)
  <2> SUFFICES ASSUME NEW q \in S, q < x PROVE q \in First(n + 1, S)
    BY DEF Before
  <2>1. ~(x <= q)
    BY <1>2
  <2> QED BY <1>2, <2>1
<1>4. Cardinality(Before(x, S)) <= Cardinality(First(n + 1, S)) /\ Cardinality(Before(x, S)) \in Nat
  BY <1>1, <1>2, <1>3, FS_Subset, BeforeIsFinite
<1>5. ~(Cardinality(Before(x, S)) < n + 1)
  BY <1>2 DEF First, Before
<1> QED BY <1>1, <1>4, <1>5

\* A set that is not larger than the limit is returned whole.
LEMMA FirstOfFew ==
  ASSUME NEW S \in SUBSET Nat, IsFiniteSet(S), NEW n \in Nat, Cardinality(S) <= n
  PROVE  First(n, S) = S
<1> SUFFICES ASSUME NEW r \in S PROVE Cardinality(Before(r, S)) < n
  BY DEF First, Before
<1>1. Before(r, S) \subseteq S /\ r \notin Before(r, S)
  BY DEF Before
<1>2. /\ Cardinality(Before(r, S)) \in Nat /\ Cardinality(S) \in Nat
      /\ Cardinality(Before(r, S)) <= Cardinality(S) /\ Cardinality(Before(r, S)) # Cardinality(S)
  BY <1>1, FS_Subset, FS_CardinalityType
<1> QED BY <1>2

(* A run that has fetched holds, for each row it will delete, the state the *)
(* row has now, or the row was overtaken; and what it has uploaded is in a  *)
(* file.  A run that saw no further rows holds all that is left of those    *)
(* that were old when it began.                                             *)

Version == 0 .. MaxRowChanges
RunRecord == [at : {"none", "fetch", "upload", "delete"}, batch : SUBSET (Row \X Version),
              todo : SUBSET Row, more : BOOLEAN, began : SUBSET Row]
Archived == {r \in Row : \E f \in files : f[1] = r /\ (f[2] = version[r] \/ r \in overtaken)}

ArchiveTypes ==
  /\ present \subseteq Row /\ overtaken \subseteq Row /\ old \subseteq Row /\ finished \subseteq old
  /\ changes \in Version /\ archiveErrors \in 0 .. MaxArchiveErrors
  /\ version \in [Row -> Nat] /\ \A r \in Row : version[r] <= changes
  /\ files \subseteq Row \X Version
  /\ run \in [Run -> RunRecord]
RunsFit ==
  \A n \in Run : /\ run[n].todo \subseteq old /\ run[n].began \subseteq old
                 /\ Cardinality(run[n].batch) <= BatchSize
BatchIsCurrent ==
  \A n \in Run : run[n].at = "upload" =>
    \A r \in run[n].todo : \E f \in run[n].batch : f[1] = r /\ (f[2] = version[r] \/ r \in overtaken)
TodoIsArchived == \A n \in Run : run[n].at = "delete" => run[n].todo \subseteq Archived
LastBatchClears ==
  \A n \in Run : run[n].at \in {"upload", "delete"} /\ ~run[n].more =>
    run[n].began \cap present \subseteq run[n].todo
GoneIsArchived == Row \ present \subseteq Archived

AInv ==
  /\ ArchiveTypes /\ RunsFit /\ BatchIsCurrent /\ TodoIsArchived /\ LastBatchClears
  /\ GoneIsArchived /\ RunClearsOldRows

LEMMA OneRun ==
  ASSUME ArchiveTypes, NEW n \in Run, NEW w \in RunRecord, run' = [run EXCEPT ![n] = w]
  PROVE  /\ run' \in [Run -> RunRecord] /\ run'[n] = w
         /\ \A m \in Run : m # n => run'[m] = run[m]
BY DEF ArchiveTypes

LEMMA ArchiveInitially == ArchiveInit => AInv
<1> SUFFICES ASSUME ArchiveInit PROVE AInv
  OBVIOUS
<1>1. NotRunning \in RunRecord
  BY DEF NotRunning, RunRecord
<1>2. \A n \in Run : run[n].at = "none" /\ run[n].batch = {} /\ run[n].todo = {} /\ run[n].began = {}
  BY DEF ArchiveInit, NotRunning
<1>3. ArchiveTypes
  BY <1>1, ArchiveBounds DEF ArchiveInit, ArchiveTypes, Version
<1>4. RunsFit
  <2>1. 0 <= BatchSize
    BY ArchiveBounds
  <2> QED BY <1>2, <2>1, FS_EmptySet DEF RunsFit
<1>5. BatchIsCurrent /\ TodoIsArchived /\ LastBatchClears
  BY <1>2 DEF BatchIsCurrent, TodoIsArchived, LastBatchClears
<1>6. GoneIsArchived /\ RunClearsOldRows
  BY DEF ArchiveInit, GoneIsArchived, RunClearsOldRows
<1> QED BY <1>3, <1>4, <1>5, <1>6 DEF AInv

\* Rows grow old in the order they were received.
LEMMA AgesPreserves ==
  ASSUME AInv, Ages
  PROVE  AInv'
<1> USE DEF AInv
<1>1. UNCHANGED <<present, version, overtaken, files, run, finished, changes, archiveErrors>>
  BY DEF Ages
<1>2. old \subseteq old' /\ old' \subseteq Row
  <2>1. Row \ old \in SUBSET Nat /\ Row \ old # {} /\ old' = old \cup {Min(Row \ old)} /\ old \subseteq Row
    BY ArchiveBounds DEF Ages, ArchiveTypes
  <2>2. Min(Row \ old) \in Row \ old
    BY <2>1, MinOfRows
  <2> QED BY <2>1, <2>2
<1>3. ArchiveTypes' /\ RunsFit'
  BY <1>1, <1>2 DEF ArchiveTypes, RunsFit
<1>4. Archived' = Archived /\ BatchIsCurrent' /\ LastBatchClears' /\ RunClearsOldRows'
  BY <1>1 DEF Archived, BatchIsCurrent, LastBatchClears, RunClearsOldRows
<1>5. TodoIsArchived' /\ GoneIsArchived'
  BY <1>1, <1>4 DEF TodoIsArchived, GoneIsArchived
<1> QED BY <1>3, <1>4, <1>5

\* A row that changes is in the database; if a run has fetched it, it is overtaken.
LEMMA ChangePreserves ==
  ASSUME AInv, NEW r \in Row, RowChanges(r)
  PROVE  AInv'
<1> USE DEF AInv
<1>1. /\ r \in present /\ changes < MaxRowChanges /\ changes' = changes + 1
      /\ version' = [version EXCEPT ![r] = @ + 1]
      /\ UNCHANGED <<present, old, files, run, finished, archiveErrors>>
  BY DEF RowChanges
<1>2. /\ overtaken \subseteq overtaken' /\ overtaken' \subseteq overtaken \cup {r}
      /\ \A n \in Run : r \in run[n].todo => r \in overtaken'
  BY DEF RowChanges
<1>3. /\ version' \in [Row -> Nat] /\ version'[r] = version[r] + 1
      /\ \A q \in Row : q # r => version'[q] = version[q]
  BY <1>1 DEF ArchiveTypes
<1>4. ArchiveTypes'
  <2>1. changes' \in Version /\ changes \in Nat
    BY <1>1, ArchiveBounds DEF ArchiveTypes, Version
  <2>2. \A q \in Row : version'[q] <= changes'
    BY <1>1, <1>3, <2>1 DEF ArchiveTypes
  <2> QED BY <1>1, <1>2, <1>3, <2>1, <2>2 DEF ArchiveTypes
<1>5. RunsFit' /\ LastBatchClears' /\ RunClearsOldRows'
  BY <1>1 DEF RunsFit, LastBatchClears, RunClearsOldRows
<1>6. \A q \in Archived : q # r \/ r \in overtaken' => q \in Archived'
  BY <1>1, <1>2, <1>3 DEF Archived
<1>7. GoneIsArchived'
  BY <1>1, <1>6 DEF GoneIsArchived
<1>8. TodoIsArchived'
  BY <1>1, <1>2, <1>6 DEF TodoIsArchived
<1>9. BatchIsCurrent'
  <2> SUFFICES ASSUME NEW n \in Run, run[n].at = "upload", NEW q \in run[n].todo
               PROVE  \E f \in run[n].batch : f[1] = q /\ (f[2] = version'[q] \/ q \in overtaken')
    BY <1>1 DEF BatchIsCurrent
  <2>1. q \in Row
    BY DEF ArchiveTypes, RunRecord
  <2>2. PICK f \in run[n].batch : f[1] = q /\ (f[2] = version[q] \/ q \in overtaken)
    BY DEF BatchIsCurrent
  <2>3. q \in overtaken' \/ version'[q] = version[q]
    BY <1>2, <1>3, <2>1
  <2> QED BY <1>2, <2>2, <2>3
<1> QED BY <1>4, <1>5, <1>7, <1>8, <1>9

LEMMA BeginPreserves ==
  ASSUME AInv, NEW n \in Run, Begin(n)
  PROVE  AInv'
<1> USE DEF AInv
<1> DEFINE w == [NotRunning EXCEPT !.at = "fetch", !.began = old]
<1>1. /\ w \in RunRecord /\ w.at = "fetch" /\ w.began = old /\ w.todo = {} /\ w.batch = {}
      /\ run' = [run EXCEPT ![n] = w]
      /\ UNCHANGED <<present, version, overtaken, old, files, finished, changes, archiveErrors>>
  BY DEF Begin, NotRunning, RunRecord, ArchiveTypes
<1> HIDE DEF w
<1>2. /\ run' \in [Run -> RunRecord] /\ run'[n] = w
      /\ \A m \in Run : m # n => run'[m] = run[m]
  BY <1>1, OneRun
<1>3. ArchiveTypes' /\ Archived' = Archived
  BY <1>1, <1>2 DEF ArchiveTypes, Archived
<1>4. Cardinality(w.batch) = 0 /\ 0 <= BatchSize
  BY <1>1, FS_EmptySet, ArchiveBounds
<1>5. RunsFit'
  BY <1>1, <1>2, <1>4 DEF RunsFit
<1>6. BatchIsCurrent' /\ TodoIsArchived' /\ LastBatchClears'
  BY <1>1, <1>2, <1>3 DEF BatchIsCurrent, TodoIsArchived, LastBatchClears
<1>7. GoneIsArchived' /\ RunClearsOldRows'
  BY <1>1, <1>3 DEF GoneIsArchived, RunClearsOldRows
<1> QED BY <1>3, <1>5, <1>6, <1>7

\* A batch holds the present state of its rows; if there are no more rows than
\* it holds, it holds all that is old.
LEMMA FetchBatchPreserves ==
  ASSUME AInv, NEW n \in Run, FetchBatch(n)
  PROVE  AInv'
<1> USE DEF AInv
<1> DEFINE taken == First(BatchSize, Found)
           batch == {<<r, version[r]>> : r \in taken}
           more == Cardinality(Found) > BatchSize
           w == [run[n] EXCEPT !.at = "upload", !.batch = batch, !.todo = taken, !.more = more]
<1>1. /\ old \cap present \in SUBSET Nat /\ old \cap present \subseteq Row
      /\ BatchSize \in Nat /\ BatchSize + 1 \in Nat
  BY ArchiveBounds DEF ArchiveTypes
<1>2. /\ Found \subseteq old \cap present /\ IsFiniteSet(Found) /\ Cardinality(Found) \in Nat
      /\ Found \in SUBSET Nat
  BY <1>1, FirstIsLimited DEF Found
<1>3. /\ taken \subseteq Found /\ IsFiniteSet(taken) /\ Cardinality(taken) <= BatchSize /\ Cardinality(taken) \in Nat
  BY <1>1, <1>2, FirstIsLimited
<1>4. ~more => taken = old \cap present
  <2> SUFFICES ASSUME ~more PROVE taken = old \cap present
    OBVIOUS
  <2>1. Cardinality(Found) <= BatchSize
    BY <1>1, <1>2
  <2>2. taken = Found
    BY <1>1, <1>2, <2>1, FirstOfFew
  <2>3. Found = old \cap present
    BY <1>1, <2>1, FirstIsComplete DEF Found
  <2> QED BY <2>2, <2>3
<1>5. batch \subseteq Row \X Version
  <2> SUFFICES ASSUME NEW r \in taken PROVE r \in Row /\ version[r] \in Version
    OBVIOUS
  <2>1. r \in Row
    BY <1>1, <1>2, <1>3
  <2>2. version[r] \in Nat /\ version[r] <= changes /\ changes \in 0 .. MaxRowChanges
    BY <2>1 DEF ArchiveTypes, Version
  <2> QED BY <2>1, <2>2, ArchiveBounds DEF Version
<1>6. Cardinality(batch) <= BatchSize
  <2> DEFINE f == [r \in taken |-> <<r, version[r]>>]
  <2>1. f \in Surjection(taken, batch)
    BY DEF Surjection
  <2>2. IsFiniteSet(batch) /\ Cardinality(batch) <= Cardinality(taken)
    BY <1>3, <2>1, FS_Surjection
  <2> QED BY <1>1, <1>3, <2>2, FS_CardinalityType
<1>7. \A r \in taken : \E f \in batch : f[1] = r /\ (f[2] = version[r] \/ r \in overtaken)
  <2> SUFFICES ASSUME NEW r \in taken PROVE \E f \in batch : f[1] = r /\ (f[2] = version[r] \/ r \in overtaken)
    OBVIOUS
  <2> WITNESS <<r, version[r]>> \in batch
  <2> QED OBVIOUS
<1>8. run[n] \in RunRecord /\ run' = [run EXCEPT ![n] = w]
      /\ UNCHANGED <<present, version, overtaken, old, files, finished, changes, archiveErrors>>
  BY DEF FetchBatch, ArchiveTypes
<1>81. more \in BOOLEAN
  OBVIOUS
<1> HIDE DEF taken, batch, more
<1>9. /\ w \in RunRecord /\ w.at = "upload" /\ w.batch = batch /\ w.todo = taken /\ w.began = run[n].began
      /\ w.more = more
  BY <1>1, <1>2, <1>3, <1>5, <1>8, <1>81 DEF RunRecord
<1> HIDE DEF w
<1>10. /\ run' \in [Run -> RunRecord] /\ run'[n] = w
       /\ \A m \in Run : m # n => run'[m] = run[m]
  BY <1>8, <1>9, OneRun
<1>11. ArchiveTypes' /\ Archived' = Archived
  BY <1>8, <1>10 DEF ArchiveTypes, Archived
<1>12. RunsFit'
  BY <1>2, <1>3, <1>6, <1>8, <1>9, <1>10 DEF RunsFit
<1>13. BatchIsCurrent'
  BY <1>7, <1>8, <1>9, <1>10 DEF BatchIsCurrent
<1>14. TodoIsArchived' /\ GoneIsArchived' /\ RunClearsOldRows'
  BY <1>8, <1>9, <1>10, <1>11 DEF TodoIsArchived, GoneIsArchived, RunClearsOldRows
<1>15. LastBatchClears'
  <2>1. ~w.more => w.began \cap present \subseteq w.todo
    BY <1>4, <1>9 DEF RunsFit
  <2> QED BY <1>8, <1>9, <1>10, <2>1 DEF LastBatchClears
<1> QED BY <1>11, <1>12, <1>13, <1>14, <1>15

\* The upload makes the batch part of the files.
LEMMA UploadPreserves ==
  ASSUME AInv, NEW n \in Run, UploadToS3(n)
  PROVE  AInv'
<1> USE DEF AInv
<1> DEFINE w == [run[n] EXCEPT !.at = "delete", !.batch = {}]
<1>1. /\ run[n] \in RunRecord /\ run[n].at = "upload" /\ files' = files \cup run[n].batch
      /\ UNCHANGED <<present, version, overtaken, old, finished, changes, archiveErrors>>
  BY DEF UploadToS3, Uploaded, ArchiveTypes
<1>2. run' = [run EXCEPT ![n] = w]
  BY <1>1 DEF UploadToS3, RunRecord
<1>3. /\ w \in RunRecord /\ w.at = "delete" /\ w.batch = {} /\ w.todo = run[n].todo /\ w.began = run[n].began
      /\ w.more = run[n].more
  BY <1>1 DEF RunRecord
<1> HIDE DEF w
<1>4. /\ run' \in [Run -> RunRecord] /\ run'[n] = w
      /\ \A m \in Run : m # n => run'[m] = run[m]
  BY <1>2, <1>3, OneRun
<1>5. ArchiveTypes'
  BY <1>1, <1>4 DEF ArchiveTypes, RunRecord
<1>6. Archived \subseteq Archived' /\ w.todo \subseteq Archived'
  <2>1. w.todo \subseteq Row
    BY <1>3 DEF RunRecord
  <2>2. \A r \in w.todo : \E f \in run[n].batch : f[1] = r /\ (f[2] = version[r] \/ r \in overtaken)
    BY <1>1, <1>3 DEF BatchIsCurrent
  <2> QED BY <1>1, <2>1, <2>2 DEF Archived
<1>7. RunsFit'
  <2>1. Cardinality(w.batch) = 0 /\ 0 <= BatchSize
    BY <1>3, FS_EmptySet, ArchiveBounds
  <2> QED BY <1>1, <1>3, <1>4, <2>1 DEF RunsFit
<1>8. BatchIsCurrent' /\ TodoIsArchived'
  BY <1>1, <1>3, <1>4, <1>6 DEF BatchIsCurrent, TodoIsArchived
<1>9. LastBatchClears' /\ GoneIsArchived' /\ RunClearsOldRows'
  BY <1>1, <1>3, <1>4, <1>6 DEF LastBatchClears, GoneIsArchived, RunClearsOldRows
<1> QED BY <1>5, <1>7, <1>8, <1>9

\* What is deleted was archived.
LEMMA DeleteBatchPreserves ==
  ASSUME AInv, NEW n \in Run, DeleteBatch(n)
  PROVE  AInv'
<1> USE DEF AInv
<1> DEFINE chunk == First(ChunkSize, run[n].todo)
           w == [run[n] EXCEPT !.todo = @ \ chunk]
<1>1. /\ run[n] \in RunRecord /\ run[n].at = "delete" /\ present' = present \ chunk
      /\ run' = [run EXCEPT ![n] = w]
      /\ UNCHANGED <<version, overtaken, old, files, finished, changes, archiveErrors>>
  BY DEF DeleteBatch, ArchiveTypes, RunRecord
<1>2. chunk \subseteq run[n].todo
  BY DEF First
<1>3. /\ w \in RunRecord /\ w.at = "delete" /\ w.batch = run[n].batch /\ w.began = run[n].began
      /\ w.todo = run[n].todo \ chunk /\ w.more = run[n].more
  BY <1>1 DEF RunRecord
<1> HIDE DEF w, chunk
<1>4. /\ run' \in [Run -> RunRecord] /\ run'[n] = w
      /\ \A m \in Run : m # n => run'[m] = run[m]
  BY <1>1, <1>3, OneRun
<1>5. ArchiveTypes' /\ Archived' = Archived
  BY <1>1, <1>4 DEF ArchiveTypes, Archived
<1>6. chunk \subseteq Archived
  BY <1>1, <1>2 DEF TodoIsArchived
<1>7. RunsFit'
  BY <1>1, <1>3, <1>4 DEF RunsFit
<1>8. BatchIsCurrent' /\ TodoIsArchived'
  BY <1>1, <1>3, <1>4, <1>5 DEF BatchIsCurrent, TodoIsArchived
<1>9. LastBatchClears'
  BY <1>1, <1>3, <1>4 DEF LastBatchClears
<1>10. GoneIsArchived' /\ RunClearsOldRows'
  BY <1>1, <1>5, <1>6 DEF GoneIsArchived, RunClearsOldRows
<1> QED BY <1>5, <1>7, <1>8, <1>9, <1>10

LEMMA ContinuePreserves ==
  ASSUME AInv, NEW n \in Run, Continue(n)
  PROVE  AInv'
<1> USE DEF AInv
<1> DEFINE w == [run[n] EXCEPT !.at = "fetch", !.more = FALSE]
<1>1. /\ run[n] \in RunRecord
      /\ UNCHANGED <<present, version, overtaken, old, files, finished, changes, archiveErrors>>
  BY DEF Continue, ArchiveTypes
<1>2. run' = [run EXCEPT ![n] = w]
  BY <1>1 DEF Continue, RunRecord
<1>3. w \in RunRecord /\ w.at = "fetch" /\ w.batch = run[n].batch /\ w.todo = run[n].todo /\ w.began = run[n].began
  BY <1>1 DEF RunRecord
<1> HIDE DEF w
<1>4. /\ run' \in [Run -> RunRecord] /\ run'[n] = w
      /\ \A m \in Run : m # n => run'[m] = run[m]
  BY <1>2, <1>3, OneRun
<1>5. ArchiveTypes' /\ Archived' = Archived
  BY <1>1, <1>4 DEF ArchiveTypes, Archived
<1>6. RunsFit' /\ BatchIsCurrent' /\ TodoIsArchived' /\ LastBatchClears'
  BY <1>1, <1>3, <1>4, <1>5 DEF RunsFit, BatchIsCurrent, TodoIsArchived, LastBatchClears
<1>7. GoneIsArchived' /\ RunClearsOldRows'
  BY <1>1, <1>5 DEF GoneIsArchived, RunClearsOldRows
<1> QED BY <1>5, <1>6, <1>7

\* A run ends, well or not; only one that ends well says so.
LEMMA EndPreserves ==
  ASSUME AInv, NEW n \in Run, EndRun(n) \/ Abort(n)
  PROVE  AInv'
<1> USE DEF AInv
<1>1. /\ run' = [run EXCEPT ![n] = NotRunning] /\ run[n] \in RunRecord
      /\ UNCHANGED <<present, version, overtaken, old, changes>>
  BY DEF EndRun, Abort, ArchiveTypes
<1>2. /\ NotRunning \in RunRecord /\ NotRunning.at = "none" /\ NotRunning.todo = {} /\ NotRunning.began = {}
      /\ NotRunning.batch = {}
  BY DEF NotRunning, RunRecord
<1>3. /\ run' \in [Run -> RunRecord] /\ run'[n] = NotRunning
      /\ \A m \in Run : m # n => run'[m] = run[m]
  BY <1>1, <1>2, OneRun
<1>4. /\ files \subseteq files' /\ files' \subseteq Row \X Version
      /\ archiveErrors' \in 0 .. MaxArchiveErrors
  BY <1>1, ArchiveBounds DEF EndRun, Abort, Errs, ArchiveTypes, RunRecord
<1>5. finished' \subseteq old /\ finished' \cap present = {}
  <2>1. CASE Abort(n)
    BY <2>1 DEF Abort, ArchiveTypes, RunClearsOldRows
  <2>2. CASE EndRun(n)
    <3>1. run[n].began \cap present = {}
      <4>1. CASE run[n].at = "delete" /\ run[n].todo = {} /\ ~run[n].more
        BY <4>1 DEF LastBatchClears
      <4>2. CASE Found = {}
        <5>1. old \cap present \in SUBSET Nat /\ BatchSize \in Nat /\ 0 <= BatchSize
          BY ArchiveBounds DEF ArchiveTypes
        <5>2. Found = old \cap present
          BY <4>2, <5>1, FirstIsComplete, FS_EmptySet DEF Found
        <5> QED BY <4>2, <5>2 DEF RunsFit
      <4> QED BY <2>2, <4>1, <4>2 DEF EndRun
    <3>2. finished' = finished \cup run[n].began
      BY <2>2 DEF EndRun
    <3> QED BY <3>1, <3>2 DEF ArchiveTypes, RunsFit, RunClearsOldRows
  <2> QED BY <2>1, <2>2
<1>6. ArchiveTypes' /\ RunClearsOldRows'
  BY <1>1, <1>3, <1>4, <1>5 DEF ArchiveTypes, RunClearsOldRows
<1>7. Archived \subseteq Archived'
  BY <1>1, <1>4 DEF Archived
<1>8. RunsFit'
  <2>1. Cardinality(NotRunning.batch) = 0 /\ 0 <= BatchSize
    BY <1>2, FS_EmptySet, ArchiveBounds
  <2> QED BY <1>1, <1>2, <1>3, <2>1 DEF RunsFit
<1>9. BatchIsCurrent' /\ TodoIsArchived' /\ LastBatchClears'
  BY <1>1, <1>2, <1>3, <1>7 DEF BatchIsCurrent, TodoIsArchived, LastBatchClears
<1>10. GoneIsArchived'
  BY <1>1, <1>7 DEF GoneIsArchived
<1> QED BY <1>6, <1>8, <1>9, <1>10

LEMMA ArchiveInductive == AInv /\ [ArchiveNext]_archiveVars => AInv'
<1> SUFFICES ASSUME AInv, [ArchiveNext]_archiveVars PROVE AInv'
  OBVIOUS
<1>1. CASE UNCHANGED archiveVars
  BY <1>1 DEF AInv, ArchiveTypes, RunsFit, BatchIsCurrent, TodoIsArchived, LastBatchClears, GoneIsArchived,
     Archived, RunClearsOldRows, archiveVars
<1>2. CASE Ages \/ \E r \in Row : RowChanges(r)
  BY <1>2, AgesPreserves, ChangePreserves
<1>3. ASSUME NEW n \in Run, Begin(n) \/ FetchBatch(n) \/ UploadToS3(n) \/ DeleteBatch(n) \/ Continue(n) \/ EndRun(n) \/ Abort(n)
      PROVE  AInv'
  BY <1>3, BeginPreserves, FetchBatchPreserves, UploadPreserves, DeleteBatchPreserves, ContinuePreserves, EndPreserves
<1> QED BY <1>1, <1>2, <1>3 DEF ArchiveNext

LEMMA AInvIsSound == AInv => ArchiveInv
<1> SUFFICES ASSUME AInv PROVE ArchiveInv
  OBVIOUS
<1> USE DEF AInv
<1>1. version \in [Row -> 0 .. MaxRowChanges]
  BY ArchiveBounds DEF ArchiveTypes, Version
<1>2. \A n \in Run : run[n].at \in {"none", "fetch", "upload", "delete"}
  BY DEF ArchiveTypes, RunRecord
<1>3. ArchiveTypeOK
  BY <1>1, <1>2 DEF ArchiveTypes, Version, RunsFit, ArchiveTypeOK
<1>4. DeletedIsArchived
  BY DEF GoneIsArchived, Archived, DeletedIsArchived
<1> QED BY <1>3, <1>4 DEF ArchiveInv

\* No row is deleted before a file with its last state was stored, and a run
\* that ends well has cleared what was old: for any rows, batch and chunk
\* sizes, and any number of runs that overlap and fail.
THEOREM ArchiveIsSound == ArchiveSpec => []ArchiveInv
<1>1. ArchiveInit => AInv
  BY ArchiveInitially
<1>2. AInv /\ [ArchiveNext]_archiveVars => AInv'
  BY ArchiveInductive
<1>3. AInv => ArchiveInv
  BY AInvIsSound
<1> QED BY <1>1, <1>2, <1>3, PTL DEF ArchiveSpec

-------------------------------------------------------------------------------
(* OAuthTokens.  A state is held by the login or by one callback, and was   *)
(* not spent while it is held; a refresh works for the grant of the         *)
(* account, unless a login has crossed it.                                  *)

CallbackRecord == [at : {"none", "exchange", "store"}, state : State \cup {""}, as : Provider \cup {""}, grant : Nat]
RefreshRecord == [at : {"none", "loaded", "ask", "deactivate", "save"}, grant : Nat]
AccountRecord == [active : BOOLEAN, refresh : Nat, access : Nat, fresh : BOOLEAN]
Unspent == {s \in State : \A p \in Provider : exchanged[s][p] = 0}

OTypes ==
  /\ login \in [State -> Provider \cup {"none"}] /\ callback \in [Callback -> CallbackRecord]
  /\ refresher \in [Refresher -> RefreshRecord] /\ account \in AccountRecord
  /\ grants \in 0 .. MaxGrants /\ revoked \subseteq 1 .. grants
  /\ exchanged \in [State -> [Provider -> Nat]]
GrantsIssued ==
  /\ account.refresh <= grants /\ account.access = account.refresh
  /\ account.active => account.refresh # 0
  /\ \A b \in Callback : callback[b].grant <= grants /\ (callback[b].at = "store" => callback[b].grant # 0)
  /\ \A c \in Refresher : refresher[c].grant <= grants
LoginsUnspent ==
  \A s \in State : login[s] # "none" =>
    /\ s \in Unspent
    /\ \A b \in Callback : callback[b].at = "exchange" => callback[b].state # s
ExchangesUnspent ==
  \A b \in Callback : callback[b].at = "exchange" =>
    /\ callback[b].state \in Unspent /\ callback[b].as \in Provider
    /\ \A d \in Callback : callback[d].at = "exchange" /\ callback[d].state = callback[b].state => d = b
SpentOnce == \A s \in State : exchanged[s]["google"] + exchanged[s]["microsoft"] <= 1
Asking(c) == refresher[c].at \in {"ask", "deactivate", "save"}
RefreshesSound ==
  \A c \in Refresher : Asking(c) =>
    /\ refresher[c].grant # 0 /\ (refresher[c].grant = account.refresh \/ crossed)
    /\ refresher[c].at = "deactivate" => refresher[c].grant \in revoked

OInv ==
  /\ OTypes /\ crossed \in BOOLEAN /\ GrantsIssued /\ LoginsUnspent /\ ExchangesUnspent /\ SpentOnce
  /\ RefreshesSound /\ WorkingAccountStays

LEMMA OAuthInitially == OAuthInit => OInv
<1> SUFFICES ASSUME OAuthInit PROVE OInv
  OBVIOUS
<1>1. /\ NoCallback \in CallbackRecord /\ NoCallback.at = "none" /\ NoCallback.grant = 0
      /\ NoRefresh \in RefreshRecord /\ NoRefresh.at = "none" /\ NoRefresh.grant = 0
  BY DEF NoCallback, NoRefresh, CallbackRecord, RefreshRecord
<1>2. account \in AccountRecord /\ ~account.active /\ account.refresh = 0 /\ account.access = 0
  BY DEF OAuthInit, AccountRecord
<1>21. exchanged \in [State -> [Provider -> Nat]]
  BY DEF OAuthInit
<1>22. /\ callback \in [Callback -> CallbackRecord] /\ refresher \in [Refresher -> RefreshRecord]
       /\ \A b \in Callback : callback[b].at = "none" /\ callback[b].grant = 0
       /\ \A c \in Refresher : refresher[c].at = "none" /\ refresher[c].grant = 0
  BY <1>1 DEF OAuthInit
<1>23. /\ login \in [State -> Provider \cup {"none"}] /\ \A s \in State : login[s] = "none"
       /\ grants = 0 /\ grants \in 0 .. MaxGrants /\ revoked = {} /\ crossed = FALSE
  BY GrantBound DEF OAuthInit
<1>24. OTypes
  BY <1>2, <1>21, <1>22, <1>23 DEF OTypes
<1>25. GrantsIssued
  BY <1>2, <1>22, <1>23 DEF GrantsIssued
<1>26. LoginsUnspent /\ ExchangesUnspent /\ RefreshesSound
  BY <1>22, <1>23 DEF LoginsUnspent, ExchangesUnspent, RefreshesSound, Asking
<1>27. WorkingAccountStays
  BY <1>2 DEF WorkingAccountStays
<1>3. SpentOnce
  BY DEF OAuthInit, SpentOnce, Provider
<1> QED BY <1>23, <1>24, <1>25, <1>26, <1>27, <1>3 DEF OInv

LEMMA OneCallback ==
  ASSUME OTypes, NEW b \in Callback, NEW w \in CallbackRecord, callback' = [callback EXCEPT ![b] = w]
  PROVE  /\ callback' \in [Callback -> CallbackRecord] /\ callback'[b] = w
         /\ \A d \in Callback : d # b => callback'[d] = callback[d]
BY DEF OTypes

LEMMA OneRefresh ==
  ASSUME OTypes, NEW c \in Refresher, NEW w \in RefreshRecord, refresher' = [refresher EXCEPT ![c] = w]
  PROVE  /\ refresher' \in [Refresher -> RefreshRecord] /\ refresher'[c] = w
         /\ \A d \in Refresher : d # c => refresher'[d] = refresher[d]
BY DEF OTypes

\* A new state is random: nobody holds it, and it was not spent.
LEMMA LoginPreserves ==
  ASSUME OInv, NEW s \in State, Login(s) \/ LoginExpires(s)
  PROVE  OInv'
<1> USE DEF OInv
<1>1. UNCHANGED <<callback, refresher, account, grants, revoked, exchanged, crossed>>
  BY DEF Login, LoginExpires
<1>2. /\ login' \in [State -> Provider \cup {"none"}]
      /\ \A r \in State : r # s => login'[r] = login[r]
      /\ login'[s] # "none" => Login(s)
  BY DEF Login, LoginExpires, OTypes
<1>3. OTypes' /\ Unspent' = Unspent
  BY <1>1, <1>2 DEF OTypes, Unspent
<1>4. GrantsIssued' /\ SpentOnce' /\ RefreshesSound' /\ WorkingAccountStays' /\ crossed' \in BOOLEAN
  BY <1>1 DEF GrantsIssued, SpentOnce, RefreshesSound, Asking, WorkingAccountStays
<1>5. ExchangesUnspent'
  BY <1>1, <1>3 DEF ExchangesUnspent
<1>6. LoginsUnspent'
  <2>1. Login(s) => s \in Unspent /\ \A b \in Callback : callback[b].state # s
    BY DEF Login, Unspent
  <2> QED BY <1>1, <1>2, <1>3, <2>1 DEF LoginsUnspent
<1> QED BY <1>3, <1>4, <1>5, <1>6

\* The state leaves the login in the step that hands it to a callback.
LEMMA ValidatePreserves ==
  ASSUME OInv, NEW b \in Callback, NEW s \in State, NEW p \in Provider, ValidateState(b, s, p)
  PROVE  OInv'
<1> USE DEF OInv
<1>1. /\ login' = [login EXCEPT ![s] = "none"] /\ UNCHANGED <<refresher, account, grants, revoked, exchanged, crossed>>
      /\ p # "none"
  BY DEF ValidateState, Consume, Provider
<1>2. PICK w \in CallbackRecord :
        /\ callback' = [callback EXCEPT ![b] = w] /\ w.grant = 0
        /\ \/ w.at = "exchange" /\ w.state = s /\ w.as = p /\ login[s] = p
           \/ w.at = "none"
  <2>1. CASE login[s] = p
    <3> DEFINE u == [at |-> "exchange", state |-> s, as |-> p, grant |-> 0]
    <3>1. u \in CallbackRecord /\ u.at = "exchange" /\ u.state = s /\ u.as = p /\ u.grant = 0
      BY DEF CallbackRecord
    <3>2. callback' = [callback EXCEPT ![b] = u]
      BY <2>1 DEF ValidateState, Matches
    <3> HIDE DEF u
    <3> QED BY <2>1, <3>1, <3>2
  <2>2. CASE login[s] # p
    <3>1. NoCallback \in CallbackRecord /\ NoCallback.at = "none" /\ NoCallback.grant = 0
      BY DEF NoCallback, CallbackRecord
    <3> QED BY <2>2, <3>1 DEF ValidateState, Matches
  <2> QED BY <2>1, <2>2
<1>3. /\ callback' \in [Callback -> CallbackRecord] /\ callback'[b] = w
      /\ \A d \in Callback : d # b => callback'[d] = callback[d]
  BY <1>2, OneCallback
<1>4. /\ login' \in [State -> Provider \cup {"none"}] /\ login'[s] = "none"
      /\ \A r \in State : r # s => login'[r] = login[r]
  BY <1>1 DEF OTypes
<1>5. OTypes' /\ Unspent' = Unspent /\ crossed' \in BOOLEAN
  BY <1>1, <1>3, <1>4 DEF OTypes, Unspent
<1>6. GrantsIssued'
  <2>1. 0 <= grants
    BY DEF OTypes
  <2> QED BY <1>1, <1>2, <1>3, <2>1 DEF GrantsIssued
<1>7. SpentOnce' /\ RefreshesSound' /\ WorkingAccountStays'
  BY <1>1 DEF SpentOnce, RefreshesSound, Asking, WorkingAccountStays
<1>8. LoginsUnspent'
  BY <1>2, <1>3, <1>4, <1>5 DEF LoginsUnspent
<1>9. ExchangesUnspent'
  <2>1. w.at = "exchange" =>
          /\ w.state = s /\ w.as \in Provider /\ s \in Unspent
          /\ \A d \in Callback : callback[d].at = "exchange" => callback[d].state # s
    BY <1>1, <1>2 DEF LoginsUnspent
  <2> QED BY <1>2, <1>3, <1>5, <2>1 DEF ExchangesUnspent
<1> QED BY <1>5, <1>6, <1>7, <1>8, <1>9

\* The code is exchanged, with the callback that alone holds its state.
LEMMA ExchangePreserves ==
  ASSUME OInv, NEW b \in Callback, Exchange(b)
  PROVE  OInv'
<1> USE DEF OInv
<1> DEFINE s == callback[b].state
           p == callback[b].as
<1>1. /\ callback[b].at = "exchange" /\ callback[b] \in CallbackRecord /\ s \in Unspent /\ s \in State /\ p \in Provider
      /\ UNCHANGED <<login, refresher, account, revoked, crossed>>
      /\ \A d \in Callback : callback[d].at = "exchange" /\ callback[d].state = s => d = b
      /\ login[s] = "none"
  BY DEF Exchange, ExchangesUnspent, OTypes, LoginsUnspent, Unspent
<1> HIDE DEF s, p
<1>2. PICK w \in CallbackRecord :
        /\ callback' = [callback EXCEPT ![b] = w] /\ w.at # "exchange"
        /\ \/ /\ grants < MaxGrants /\ grants' = grants + 1 /\ w.at = "store" /\ w.grant = grants + 1
              /\ exchanged' = [exchanged EXCEPT ![s][p] = @ + 1]
           \/ w.at = "none" /\ w.grant = 0 /\ UNCHANGED <<grants, exchanged>>
  <2>1. CASE UNCHANGED <<grants, exchanged>> /\ callback' = [callback EXCEPT ![b] = NoCallback]
    <3>1. NoCallback \in CallbackRecord /\ NoCallback.at = "none" /\ NoCallback.grant = 0
      BY DEF NoCallback, CallbackRecord
    <3> QED BY <2>1, <3>1
  <2>2. CASE /\ grants < MaxGrants /\ grants' = grants + 1
             /\ callback' = [callback EXCEPT ![b] = [@ EXCEPT !.at = "store", !.grant = grants + 1]]
             /\ exchanged' = [exchanged EXCEPT ![s][p] = @ + 1]
    <3> DEFINE u == [callback[b] EXCEPT !.at = "store", !.grant = grants + 1]
    <3>1. grants + 1 \in Nat
      BY DEF OTypes
    <3>2. u \in CallbackRecord /\ u.at = "store" /\ u.grant = grants + 1
      BY <1>1, <3>1 DEF CallbackRecord
    <3> HIDE DEF u
    <3>3. callback' = [callback EXCEPT ![b] = u]
      BY <2>2 DEF u
    <3> QED BY <2>2, <3>2, <3>3
  <2> QED BY <2>1, <2>2 DEF Exchange, s, p
<1>3. /\ callback' \in [Callback -> CallbackRecord] /\ callback'[b] = w
      /\ \A d \in Callback : d # b => callback'[d] = callback[d]
  BY <1>2, OneCallback
<1>4. /\ exchanged' \in [State -> [Provider -> Nat]]
      /\ \A r \in State : r # s => exchanged'[r] = exchanged[r]
      /\ exchanged'[s]["google"] + exchanged'[s]["microsoft"] <= 1
  <2>1. /\ exchanged \in [State -> [Provider -> Nat]]
        /\ exchanged[s]["google"] = 0 /\ exchanged[s]["microsoft"] = 0
    BY <1>1 DEF OTypes, Unspent, Provider
  <2>2. CASE UNCHANGED exchanged
    BY <2>1, <2>2
  <2>3. CASE exchanged' = [exchanged EXCEPT ![s][p] = @ + 1]
    BY <1>1, <2>1, <2>3 DEF Provider
  <2> QED BY <1>2, <2>2, <2>3
<1>5. grants' \in 0 .. MaxGrants /\ grants <= grants' /\ w.grant <= grants' /\ (w.at = "store" => w.grant # 0)
  BY <1>2, GrantBound DEF OTypes
<1>6. OTypes' /\ crossed' \in BOOLEAN
  BY <1>1, <1>3, <1>4, <1>5 DEF OTypes
<1>7. GrantsIssued'
  <2>1. /\ account.refresh \in Nat /\ grants \in Nat /\ grants' \in Nat
        /\ \A d \in Callback : callback[d].grant \in Nat
        /\ \A c \in Refresher : refresher[c].grant \in Nat
    <3>1. /\ account \in AccountRecord /\ callback \in [Callback -> CallbackRecord]
          /\ refresher \in [Refresher -> RefreshRecord] /\ grants \in Nat /\ grants' \in Nat
      BY <1>5 DEF OTypes
    <3> QED BY <3>1 DEF AccountRecord, CallbackRecord, RefreshRecord
  <2>2. \A d \in Callback : callback'[d].grant <= grants' /\ (callback'[d].at = "store" => callback'[d].grant # 0)
    BY <1>3, <1>5, <2>1 DEF GrantsIssued
  <2>3. account.refresh <= grants' /\ \A c \in Refresher : refresher[c].grant <= grants'
    BY <1>5, <2>1 DEF GrantsIssued
  <2> QED BY <1>1, <2>2, <2>3 DEF GrantsIssued
<1>8. SpentOnce'
  BY <1>4 DEF SpentOnce
<1>9. Unspent \ {s} \subseteq Unspent'
  BY <1>4 DEF Unspent
<1>10. LoginsUnspent'
  BY <1>1, <1>2, <1>3, <1>9 DEF LoginsUnspent
<1>11. ExchangesUnspent'
  BY <1>1, <1>2, <1>3, <1>9 DEF ExchangesUnspent
<1>12. RefreshesSound' /\ WorkingAccountStays'
  BY <1>1 DEF RefreshesSound, Asking, WorkingAccountStays
<1> QED BY <1>6, <1>7, <1>8, <1>10, <1>11, <1>12

\* A login that is stored while a refresh is in progress crosses it; otherwise
\* no refresh holds a grant.
LEMMA UpsertPreserves ==
  ASSUME OInv, NEW b \in Callback, UpsertAccountWithTokens(b)
  PROVE  OInv'
<1> USE DEF OInv
<1> DEFINE g == callback[b].grant
           fresh == [active |-> TRUE, refresh |-> g, access |-> g, fresh |-> TRUE]
<1>1. /\ callback[b].at = "store" /\ callback' = [callback EXCEPT ![b] = NoCallback]
      /\ \/ /\ account' = fresh
            /\ crossed' = (crossed \/ \E c \in Refresher : refresher[c].at # "none")
         \/ UNCHANGED <<account, crossed>>
      /\ UNCHANGED <<login, refresher, grants, revoked, exchanged>>
  BY DEF UpsertAccountWithTokens
<1>2. g \in Nat /\ g <= grants /\ g # 0
  BY <1>1 DEF GrantsIssued, OTypes, CallbackRecord
<1>3. NoCallback \in CallbackRecord /\ NoCallback.at = "none" /\ NoCallback.grant = 0
  BY DEF NoCallback, CallbackRecord
<1>4. /\ callback' \in [Callback -> CallbackRecord] /\ callback'[b] = NoCallback
      /\ \A d \in Callback : d # b => callback'[d] = callback[d]
  BY <1>1, <1>3, OneCallback
<1>5. fresh \in AccountRecord /\ fresh.active /\ fresh.refresh = g /\ fresh.access = g
  BY <1>2 DEF AccountRecord
<1> HIDE DEF fresh, g
<1>6. account' \in AccountRecord /\ crossed' \in BOOLEAN
  BY <1>1, <1>5 DEF OTypes
<1>7. OTypes' /\ Unspent' = Unspent
  BY <1>1, <1>4, <1>6 DEF OTypes, Unspent
<1>8. LoginsUnspent' /\ ExchangesUnspent' /\ SpentOnce'
  BY <1>1, <1>3, <1>4, <1>7 DEF LoginsUnspent, ExchangesUnspent, SpentOnce
<1>9. GrantsIssued'
  <2>1. 0 <= grants
    BY DEF OTypes
  <2>2. \A d \in Callback : callback'[d].grant <= grants /\ (callback'[d].at = "store" => callback'[d].grant # 0)
    BY <1>3, <1>4, <2>1 DEF GrantsIssued
  <2>3. CASE UNCHANGED account
    BY <1>1, <2>2, <2>3 DEF GrantsIssued
  <2>4. CASE account' = fresh
    BY <1>1, <1>2, <1>5, <2>2, <2>4 DEF GrantsIssued
  <2> QED BY <1>1, <2>3, <2>4
<1>10. CASE UNCHANGED <<account, crossed>>
  BY <1>1, <1>7, <1>8, <1>9, <1>6, <1>10 DEF RefreshesSound, Asking, WorkingAccountStays
<1>11. CASE account' = fresh /\ crossed' = (crossed \/ \E c \in Refresher : refresher[c].at # "none")
  <2>1. WorkingAccountStays'
    BY <1>5, <1>11 DEF WorkingAccountStays
  <2>2. \A c \in Refresher : refresher[c].at # "none" => crossed'
    BY <1>11, Zenon
  <2>3. \A c \in Refresher : Asking(c) => refresher[c].at # "none"
    BY DEF Asking
  <2>4. RefreshesSound'
    <3> SUFFICES ASSUME NEW c \in Refresher, Asking(c)
                 PROVE  /\ refresher[c].grant # 0 /\ crossed'
                        /\ refresher[c].at = "deactivate" => refresher[c].grant \in revoked
      BY <1>1 DEF RefreshesSound, Asking
    <3> QED BY <2>2, <2>3 DEF RefreshesSound
  <2> QED BY <1>6, <1>7, <1>8, <1>9, <2>1, <2>4
<1> QED BY <1>1, <1>10, <1>11

\* The steps of a refresh before it writes.
LEMMA AskingPreserves ==
  ASSUME OInv, NEW c \in Refresher, LoadTokens(c) \/ DecryptRefreshToken(c) \/ Refresh(c)
  PROVE  OInv'
<1> USE DEF OInv
<1>1. UNCHANGED <<login, callback, account, grants, revoked, exchanged, crossed>>
  BY DEF LoadTokens, DecryptRefreshToken, Refresh
<1>2. /\ refresher[c] \in RefreshRecord /\ account.refresh \in Nat
      /\ NoRefresh \in RefreshRecord /\ NoRefresh.at = "none" /\ NoRefresh.grant = 0
  BY DEF OTypes, NoRefresh, RefreshRecord, AccountRecord
<1>3. PICK w \in RefreshRecord :
        /\ refresher' = [refresher EXCEPT ![c] = w]
        /\ \/ w.at = "none" /\ w.grant = 0
           \/ w.at = "loaded" /\ w.grant = refresher[c].grant
           \/ w.at = "ask" /\ w.grant = account.refresh /\ account.active
           \/ /\ refresher[c].at = "ask" /\ w.at \in {"deactivate", "save"} /\ w.grant = refresher[c].grant
              /\ w.at = "deactivate" => w.grant \in revoked
  <2>1. CASE refresher' = [refresher EXCEPT ![c] = NoRefresh]
    BY <1>2, <2>1
  <2>2. CASE LoadTokens(c)
    <3> DEFINE u == [refresher[c] EXCEPT !.at = "loaded"]
    <3>1. u \in RefreshRecord /\ u.at = "loaded" /\ u.grant = refresher[c].grant
      BY <1>2 DEF RefreshRecord
    <3>2. refresher' = [refresher EXCEPT ![c] = u]
      BY <1>2, <2>2 DEF LoadTokens, RefreshRecord
    <3> HIDE DEF u
    <3> QED BY <3>1, <3>2
  <2>3. CASE DecryptRefreshToken(c) /\ account.active
    <3> DEFINE u == [at |-> "ask", grant |-> account.refresh]
    <3>1. u \in RefreshRecord /\ u.at = "ask" /\ u.grant = account.refresh
      BY <1>2 DEF RefreshRecord
    <3>2. refresher' = [refresher EXCEPT ![c] = u]
      BY <2>3 DEF DecryptRefreshToken
    <3> HIDE DEF u
    <3> QED BY <2>3, <3>1, <3>2
  <2>4. CASE Refresh(c)
    <3>1. PICK next \in Judge(refresher[c].grant) :
            refresher' = [refresher EXCEPT ![c] = IF next = "none" THEN NoRefresh ELSE [@ EXCEPT !.at = next]]
      BY <2>4 DEF Refresh
    <3>2. /\ next \in {"deactivate", "save", "none"} /\ refresher[c].at = "ask"
          /\ next = "deactivate" => refresher[c].grant \in revoked
      BY <2>4 DEF Judge, Refresh
    <3>3. CASE next # "none"
      <4> DEFINE u == [refresher[c] EXCEPT !.at = next]
      <4>1. u \in RefreshRecord /\ u.at = next /\ u.grant = refresher[c].grant
        BY <1>2, <3>2, <3>3 DEF RefreshRecord
      <4>2. refresher' = [refresher EXCEPT ![c] = u]
        BY <3>1, <3>3
      <4> HIDE DEF u
      <4> QED BY <3>2, <3>3, <4>1, <4>2
    <3> QED BY <2>1, <3>1, <3>3
  <2>5. CASE DecryptRefreshToken(c) /\ ~account.active
    BY <2>1, <2>5 DEF DecryptRefreshToken
  <2> QED BY <2>2, <2>3, <2>4, <2>5
<1>4. /\ refresher' \in [Refresher -> RefreshRecord] /\ refresher'[c] = w
      /\ \A d \in Refresher : d # c => refresher'[d] = refresher[d]
  BY <1>3, OneRefresh
<1>5. OTypes' /\ Unspent' = Unspent /\ crossed' \in BOOLEAN
  BY <1>1, <1>4 DEF OTypes, Unspent
<1>6. LoginsUnspent' /\ ExchangesUnspent' /\ SpentOnce' /\ WorkingAccountStays'
  BY <1>1, <1>5 DEF LoginsUnspent, ExchangesUnspent, SpentOnce, WorkingAccountStays
<1>7. GrantsIssued'
  <2>1. 0 <= grants
    BY DEF OTypes
  <2> QED BY <1>1, <1>3, <1>4, <2>1 DEF GrantsIssued
<1>8. RefreshesSound'
  <2>1. w.at \in {"ask", "deactivate", "save"} =>
          /\ w.grant # 0 /\ (w.grant = account.refresh \/ crossed)
          /\ w.at = "deactivate" => w.grant \in revoked
    BY <1>3 DEF RefreshesSound, Asking, GrantsIssued
  <2> QED BY <1>1, <1>4, <2>1 DEF RefreshesSound, Asking
<1> QED BY <1>5, <1>6, <1>7, <1>8

\* A refresh that was refused switches the account off: its grant was withdrawn,
\* and is that of the account unless a login crossed it.
LEMMA DeactivatePreserves ==
  ASSUME OInv, NEW c \in Refresher, DeactivateAccount(c)
  PROVE  OInv'
<1> USE DEF OInv
<1> DEFINE off == [account EXCEPT !.active = FALSE]
<1>1. /\ refresher[c].at = "deactivate" /\ refresher' = [refresher EXCEPT ![c] = NoRefresh]
      /\ account' = off \/ account' = account
      /\ UNCHANGED <<login, callback, grants, revoked, exchanged, crossed>>
  BY DEF DeactivateAccount
<1>2. /\ refresher[c].grant \in revoked /\ (refresher[c].grant = account.refresh \/ crossed)
      /\ NoRefresh \in RefreshRecord /\ NoRefresh.at = "none" /\ NoRefresh.grant = 0
  BY <1>1 DEF RefreshesSound, Asking, NoRefresh, RefreshRecord
<1>3. off \in AccountRecord /\ ~off.active /\ off.refresh = account.refresh /\ off.access = account.access
  BY DEF OTypes, AccountRecord
<1> HIDE DEF off
<1>4. /\ refresher' \in [Refresher -> RefreshRecord] /\ refresher'[c] = NoRefresh
      /\ \A d \in Refresher : d # c => refresher'[d] = refresher[d]
  BY <1>1, <1>2, OneRefresh
<1>5. /\ account' \in AccountRecord /\ account'.refresh = account.refresh /\ account'.access = account.access
      /\ account'.active => account.active
  BY <1>1, <1>3 DEF OTypes
<1>6. OTypes' /\ Unspent' = Unspent /\ crossed' \in BOOLEAN
  BY <1>1, <1>4, <1>5 DEF OTypes, Unspent
<1>7. LoginsUnspent' /\ ExchangesUnspent' /\ SpentOnce'
  BY <1>1, <1>6 DEF LoginsUnspent, ExchangesUnspent, SpentOnce
<1>8. GrantsIssued'
  <2>1. 0 <= grants
    BY DEF OTypes
  <2> QED BY <1>1, <1>2, <1>4, <1>5, <2>1 DEF GrantsIssued
<1>9. RefreshesSound'
  BY <1>1, <1>2, <1>4, <1>5 DEF RefreshesSound, Asking
<1>10. WorkingAccountStays'
  BY <1>1, <1>2, <1>5 DEF WorkingAccountStays
<1> QED BY <1>6, <1>7, <1>8, <1>9, <1>10

\* A refresh writes the tokens of its grant: that of the account already, unless
\* a login crossed it.
LEMMA UpdatePreserves ==
  ASSUME OInv, NEW c \in Refresher, UpdateAccessToken(c)
  PROVE  OInv'
<1> USE DEF OInv
<1> DEFINE g == refresher[c].grant
           saved == [account EXCEPT !.access = g, !.refresh = g, !.fresh = TRUE]
<1>1. /\ refresher[c].at = "save" /\ refresher' = [refresher EXCEPT ![c] = NoRefresh]
      /\ account' = saved \/ account' = account
      /\ UNCHANGED <<login, callback, grants, revoked, exchanged, crossed>>
  BY DEF UpdateAccessToken, Saved
<1>2. /\ g \in Nat /\ g # 0 /\ g <= grants /\ (g = account.refresh \/ crossed)
      /\ NoRefresh \in RefreshRecord /\ NoRefresh.at = "none" /\ NoRefresh.grant = 0
  BY <1>1 DEF RefreshesSound, Asking, NoRefresh, RefreshRecord, GrantsIssued, OTypes
<1>3. saved \in AccountRecord /\ saved.active = account.active /\ saved.refresh = g /\ saved.access = g
  BY <1>2 DEF OTypes, AccountRecord
<1> HIDE DEF saved, g
<1>4. /\ refresher' \in [Refresher -> RefreshRecord] /\ refresher'[c] = NoRefresh
      /\ \A d \in Refresher : d # c => refresher'[d] = refresher[d]
  BY <1>1, <1>2, OneRefresh
<1>5. /\ account' \in AccountRecord /\ (account'.active <=> account.active) /\ account'.access = account'.refresh
      /\ account'.refresh = account.refresh \/ (account'.refresh = g /\ crossed)
  BY <1>1, <1>2, <1>3 DEF OTypes, GrantsIssued
<1>6. OTypes' /\ Unspent' = Unspent /\ crossed' \in BOOLEAN
  BY <1>1, <1>4, <1>5 DEF OTypes, Unspent
<1>7. LoginsUnspent' /\ ExchangesUnspent' /\ SpentOnce'
  BY <1>1, <1>6 DEF LoginsUnspent, ExchangesUnspent, SpentOnce
<1>8. GrantsIssued'
  <2>1. 0 <= grants
    BY DEF OTypes
  <2> QED BY <1>1, <1>2, <1>4, <1>5, <2>1 DEF GrantsIssued
<1>9. CASE account'.refresh = account.refresh
  BY <1>1, <1>2, <1>4, <1>5, <1>6, <1>7, <1>8, <1>9 DEF RefreshesSound, Asking, WorkingAccountStays
<1>10. CASE crossed
  BY <1>1, <1>2, <1>4, <1>6, <1>7, <1>8, <1>10 DEF RefreshesSound, Asking, WorkingAccountStays
<1> QED BY <1>5, <1>9, <1>10

\* What the user and the provider do.
LEMMA OutsidePreserves ==
  ASSUME OInv, AccessTokenExpires \/ \E g \in 1 .. grants : UserWithdraws(g)
  PROVE  OInv'
<1> USE DEF OInv
<1>1. /\ UNCHANGED <<login, callback, refresher, grants, exchanged, crossed>>
      /\ revoked \subseteq revoked' /\ revoked' \subseteq 1 .. grants
  BY DEF AccessTokenExpires, UserWithdraws, OTypes
<1>2. /\ account' \in AccountRecord /\ account'.refresh = account.refresh /\ account'.access = account.access
      /\ account'.active <=> account.active
  <2> DEFINE off == [account EXCEPT !.fresh = FALSE]
  <2>1. account' = account \/ account' = off
    BY DEF AccessTokenExpires, UserWithdraws
  <2>2. off \in AccountRecord /\ off.refresh = account.refresh /\ off.access = account.access /\ (off.active <=> account.active)
    BY DEF OTypes, AccountRecord
  <2> HIDE DEF off
  <2> QED BY <2>1, <2>2 DEF OTypes
<1>3. OTypes' /\ Unspent' = Unspent /\ crossed' \in BOOLEAN
  BY <1>1, <1>2 DEF OTypes, Unspent
<1>4. LoginsUnspent' /\ ExchangesUnspent' /\ SpentOnce' /\ GrantsIssued'
  BY <1>1, <1>2, <1>3 DEF LoginsUnspent, ExchangesUnspent, SpentOnce, GrantsIssued
<1>5. RefreshesSound' /\ WorkingAccountStays'
  BY <1>1, <1>2 DEF RefreshesSound, Asking, WorkingAccountStays
<1> QED BY <1>3, <1>4, <1>5

LEMMA OAuthInductive == OInv /\ [OAuthNext]_oauthVars => OInv'
<1> SUFFICES ASSUME OInv, [OAuthNext]_oauthVars PROVE OInv'
  OBVIOUS
<1>1. CASE UNCHANGED oauthVars
  BY <1>1 DEF OInv, OTypes, GrantsIssued, LoginsUnspent, ExchangesUnspent, SpentOnce, RefreshesSound, Asking,
     WorkingAccountStays, Unspent, oauthVars
<1>2. CASE AccessTokenExpires \/ \E g \in 1 .. grants : UserWithdraws(g)
  BY <1>2, OutsidePreserves
<1>3. ASSUME NEW s \in State, Login(s) \/ LoginExpires(s) PROVE OInv'
  BY <1>3, LoginPreserves
<1>4. ASSUME NEW b \in Callback,
             Exchange(b) \/ UpsertAccountWithTokens(b) \/ \E s \in State, p \in Provider : ValidateState(b, s, p)
      PROVE  OInv'
  BY <1>4, ExchangePreserves, UpsertPreserves, ValidatePreserves
<1>5. ASSUME NEW c \in Refresher,
             LoadTokens(c) \/ DecryptRefreshToken(c) \/ Refresh(c) \/ DeactivateAccount(c) \/ UpdateAccessToken(c)
      PROVE  OInv'
  BY <1>5, AskingPreserves, DeactivatePreserves, UpdatePreserves
<1> QED BY <1>1, <1>2, <1>3, <1>4, <1>5 DEF OAuthNext

LEMMA OInvIsSound == OInv => OAuthInv
<1> SUFFICES ASSUME OInv PROVE OAuthInv
  OBVIOUS
<1> USE DEF OInv
<1>1. /\ account \in AccountRecord /\ account.refresh \in 0 .. grants /\ account.access \in 0 .. grants
      /\ \A b \in Callback : callback[b].at \in {"none", "exchange", "store"} /\ callback[b].grant \in 0 .. grants
      /\ \A c \in Refresher : /\ refresher[c].at \in {"none", "loaded", "ask", "deactivate", "save"}
                              /\ refresher[c].grant \in 0 .. grants
  <2>1. /\ account \in AccountRecord /\ callback \in [Callback -> CallbackRecord] /\ grants \in Nat
        /\ refresher \in [Refresher -> RefreshRecord]
    BY DEF OTypes
  <2>2. /\ account.refresh \in Nat /\ account.access \in Nat
        /\ \A b \in Callback : callback[b].at \in {"none", "exchange", "store"} /\ callback[b].grant \in Nat
        /\ \A c \in Refresher : /\ refresher[c].at \in {"none", "loaded", "ask", "deactivate", "save"}
                                /\ refresher[c].grant \in Nat
    BY <2>1 DEF AccountRecord, CallbackRecord, RefreshRecord
  <2> QED BY <2>1, <2>2 DEF GrantsIssued
<1>2. account \in [active : BOOLEAN, refresh : 0 .. grants, access : 0 .. grants, fresh : BOOLEAN]
  BY <1>1 DEF AccountRecord
<1>3. OAuthTypeOK
  BY <1>1, <1>2 DEF OTypes, GrantsIssued, OAuthTypeOK
<1>4. StateUsedOnce
  <2> SUFFICES ASSUME NEW s \in State
               PROVE  /\ exchanged[s]["google"] + exchanged[s]["microsoft"] <= 1
                      /\ Cardinality({b \in Callback : callback[b].at = "exchange" /\ callback[b].state = s}) <= 1
                      /\ login[s] # "none" => exchanged[s]["google"] + exchanged[s]["microsoft"] = 0
    BY DEF StateUsedOnce
  <2> DEFINE H == {b \in Callback : callback[b].at = "exchange" /\ callback[b].state = s}
  <2>1. H = {} \/ \E b \in H : H = {b}
    BY DEF ExchangesUnspent
  <2>2. Cardinality(H) <= 1
    <3> HIDE DEF H
    <3>1. CASE H = {}
      BY <3>1, FS_EmptySet
    <3>2. ASSUME NEW b \in H, H = {b} PROVE Cardinality(H) = 1
      BY <3>2, FS_Singleton, Zenon
    <3> QED BY <2>1, <3>1, <3>2
  <2>3. login[s] # "none" => exchanged[s]["google"] = 0 /\ exchanged[s]["microsoft"] = 0
    BY DEF LoginsUnspent, Unspent, Provider
  <2> QED BY <2>2, <2>3 DEF SpentOnce
<1>5. PairOfOneGrant
  BY DEF GrantsIssued, PairOfOneGrant
<1> QED BY <1>3, <1>4, <1>5 DEF OAuthInv

\* A state is spent once, the stored tokens are of one grant, and a working
\* grant stays in use: for any number of logins, callbacks and refreshes.
THEOREM OAuthIsSound == OAuthSpec => []OAuthInv
<1>1. OAuthInit => OInv
  BY OAuthInitially
<1>2. OInv /\ [OAuthNext]_oauthVars => OInv'
  BY OAuthInductive
<1>3. OInv => OAuthInv
  BY OInvIsSound
<1> QED BY <1>1, <1>2, <1>3, PTL DEF OAuthSpec

-------------------------------------------------------------------------------
(* Backfill.  A worker has handled every message below the one it is at, and *)
(* the worker that is about to announce a message is the one that stored it. *)

LegalTask == [job : Job, retry : 0 .. MaxRetries]
OnMail == {"wait", "woken", "expire", "handle", "publish"}
ConsumerRecord == [at : OnMail \cup {"idle", "list", "check", "backoff", "fail"}, next : Nat, task : LegalTask \cup {<<>>}]
CountRecord == [value : Nat, expires : BOOLEAN]
MailNumbers == 1 .. MailCount
Handled == mails \cup dropped

BTypes ==
  /\ backlog \in Seq(LegalTask) /\ status \in [Job -> {"none", "pending", "running", "complete", "failed"}]
  /\ count \in CountRecord /\ (count.expires => count.value > 0)
  /\ mails \subseteq Mail /\ events \in [Mail -> Nat] /\ dropped \subseteq Mail /\ orphaned \subseteq Job
  /\ triggers \in 0 .. MaxTriggers /\ jobFailures \in 0 .. MaxJobFailures
  /\ consumer \in [Consumer -> ConsumerRecord]
Fits(x) ==
  x.at # "idle" => x.task \in LegalTask /\ x.next \in 1 .. MailCount + 1 /\ (x.at \in OnMail => x.next \in MailNumbers)
Passed(x) == {x.task.job} \X {i \in MailNumbers : i < x.next}
WorkersFit == \A w \in Consumer : Fits(consumer[w])
PassedHandled == \A w \in Consumer : consumer[w].at # "idle" => Passed(consumer[w]) \subseteq Handled
EventOfNew == \A m \in Mail : events[m] <= 1 /\ (m \notin mails => events[m] = 0)
At(x) == <<x.task.job, x.next>>
PublishersSound ==
  \A w \in Consumer : consumer[w].at = "publish" =>
    /\ At(consumer[w]) \in mails /\ events[At(consumer[w])] = 0
    /\ \A v \in Consumer : consumer[v].at = "publish" /\ At(consumer[v]) = At(consumer[w]) => v = w

BInv ==
  /\ BTypes /\ stuckCount \in BOOLEAN /\ WorkersFit /\ PassedHandled /\ EventOfNew /\ PublishersSound
  /\ CompleteIsHandled

LEMMA BackfillInitially == BackfillInit => BInv
<1> SUFFICES ASSUME BackfillInit PROVE BInv
  OBVIOUS
<1>1. IdleConsumer \in ConsumerRecord /\ IdleConsumer.at = "idle"
  BY DEF IdleConsumer, ConsumerRecord
<1>2. consumer \in [Consumer -> ConsumerRecord] /\ \A w \in Consumer : consumer[w].at = "idle"
  BY <1>1 DEF BackfillInit
<1>3. count \in CountRecord /\ ~count.expires
  BY DEF BackfillInit, CountRecord
<1>4. backlog \in Seq(LegalTask)
  BY EmptySeq DEF BackfillInit
<1>5. BTypes
  BY <1>2, <1>3, <1>4, BackfillBounds DEF BackfillInit, BTypes
<1>6. WorkersFit /\ PassedHandled /\ EventOfNew /\ PublishersSound
  BY <1>2 DEF BackfillInit, WorkersFit, Fits, PassedHandled, EventOfNew, PublishersSound
<1>7. CompleteIsHandled /\ stuckCount \in BOOLEAN
  BY DEF BackfillInit, CompleteIsHandled
<1> QED BY <1>5, <1>6, <1>7 DEF BInv

\* A worker goes where it announces nothing.
LEMMA WorkerMoves ==
  ASSUME BInv, NEW w \in Consumer, NEW u \in ConsumerRecord, consumer' = [consumer EXCEPT ![w] = u],
         u.at # "publish", Fits(u), u.at # "idle" => Passed(u) \subseteq Handled',
         mails' = mails, dropped \subseteq dropped', events' = events
  PROVE  /\ consumer' \in [Consumer -> ConsumerRecord]
         /\ WorkersFit' /\ PassedHandled' /\ EventOfNew' /\ PublishersSound'
<1> USE DEF BInv
<1>1. /\ consumer' \in [Consumer -> ConsumerRecord] /\ consumer'[w] = u
      /\ \A v \in Consumer : v # w => consumer'[v] = consumer[v]
  BY DEF BTypes
<1>2. WorkersFit'
  <2> SUFFICES ASSUME NEW v \in Consumer PROVE Fits(consumer'[v])
    BY DEF WorkersFit, Fits
  <2>1. Fits(consumer[v])
    BY DEF WorkersFit
  <2>2. consumer'[v] = u \/ consumer'[v] = consumer[v]
    BY <1>1
  <2> QED BY <2>1, <2>2
<1>3. PassedHandled'
  <2> SUFFICES ASSUME NEW v \in Consumer, consumer'[v].at # "idle" PROVE Passed(consumer'[v]) \subseteq Handled'
    BY DEF PassedHandled, Passed
  <2>1. Handled \subseteq Handled'
    BY DEF Handled
  <2>2. CASE v = w
    BY <1>1, <2>2
  <2>3. CASE v # w
    BY <1>1, <2>1, <2>3 DEF PassedHandled
  <2> QED BY <2>2, <2>3
<1>4. EventOfNew'
  BY DEF EventOfNew
<1>5. PublishersSound'
  BY <1>1 DEF PublishersSound, At
<1> QED BY <1>1, <1>2, <1>3, <1>4, <1>5

\* The same, for a worker that stays at its message.
LEMMA WorkerGoes ==
  ASSUME BInv, NEW w \in Consumer, NEW at \in OnMail \cup {"check", "backoff", "fail"}, Goto(w, at),
         consumer[w].at # "idle", at # "publish", at \in OnMail => consumer[w].next \in MailNumbers,
         mails' = mails, dropped \subseteq dropped', events' = events
  PROVE  /\ consumer' \in [Consumer -> ConsumerRecord]
         /\ WorkersFit' /\ PassedHandled' /\ EventOfNew' /\ PublishersSound'
<1> USE DEF BInv
<1> DEFINE u == [consumer[w] EXCEPT !.at = at]
<1>1. /\ consumer[w] \in ConsumerRecord /\ Fits(consumer[w]) /\ Passed(consumer[w]) \subseteq Handled
  BY DEF BTypes, WorkersFit, PassedHandled
<1>2. u \in ConsumerRecord /\ u.at = at /\ u.task = consumer[w].task /\ u.next = consumer[w].next
  BY <1>1 DEF ConsumerRecord
<1>3. consumer' = [consumer EXCEPT ![w] = u]
  BY DEF Goto
<1> HIDE DEF u
<1>4. Fits(u)
  BY <1>1, <1>2 DEF Fits
<1>5. Passed(u) \subseteq Handled'
  BY <1>1, <1>2 DEF Passed, Handled
<1> QED BY <1>2, <1>3, <1>4, <1>5, WorkerMoves

\* The reports of completion stay true: what was handled stays handled.
LEMMA CompletionKept ==
  ASSUME BInv, mails \subseteq mails', dropped \subseteq dropped',
         \A j \in Job : status'[j] = "complete" => status[j] = "complete"
  PROVE  CompleteIsHandled'
BY DEF BInv, CompleteIsHandled

LEMMA TriggerPreserves ==
  ASSUME BInv, NEW j \in Job, Trigger(j)
  PROVE  BInv'
<1> USE DEF BInv
<1> DEFINE task == [job |-> j, retry |-> 0]
<1>1. /\ triggers' = triggers + 1 /\ triggers < MaxTriggers /\ backlog' = <<task>> \o backlog
      /\ status' = [status EXCEPT ![j] = "pending"]
      /\ UNCHANGED <<count, consumer, mails, events, dropped, orphaned, stuckCount, jobFailures>>
  BY DEF Trigger
<1>2. task \in LegalTask
  BY BackfillBounds DEF LegalTask
<1> HIDE DEF task
<1>3. <<task>> \in Seq(LegalTask) /\ backlog \in Seq(LegalTask)
  BY <1>2 DEF BTypes
<1>4. backlog' \in Seq(LegalTask)
  BY <1>1, <1>3, ConcatProperties
<1>5. triggers' \in 0 .. MaxTriggers
  BY <1>1, BackfillBounds DEF BTypes
<1>6. BTypes' /\ stuckCount' \in BOOLEAN
  BY <1>1, <1>4, <1>5 DEF BTypes
<1>7. WorkersFit' /\ PassedHandled' /\ EventOfNew' /\ PublishersSound'
  BY <1>1 DEF WorkersFit, Fits, PassedHandled, Passed, Handled, EventOfNew, PublishersSound, At
<1>8. CompleteIsHandled'
  BY <1>1, CompletionKept DEF BTypes
<1> QED BY <1>6, <1>7, <1>8

\* A worker takes the oldest job.
LEMMA DequeuePreserves ==
  ASSUME BInv, NEW w \in Consumer, Dequeue(w)
  PROVE  BInv'
<1> USE DEF BInv
<1> DEFINE u == [at |-> "list", next |-> 1, task |-> Last(backlog)]
<1>1. /\ backlog # <<>> /\ backlog' = Front(backlog) /\ consumer' = [consumer EXCEPT ![w] = u]
      /\ \/ status' = [status EXCEPT ![Last(backlog).job] = "running"] /\ UNCHANGED jobFailures
         \/ JobFails /\ UNCHANGED status
      /\ UNCHANGED <<count, mails, events, dropped, orphaned, stuckCount, triggers>>
  BY DEF Dequeue
<1>2. Last(backlog) \in LegalTask /\ backlog' \in Seq(LegalTask)
  <2>1. backlog \in Seq(LegalTask) /\ Len(backlog) \in Nat \ {0}
    BY <1>1, EmptySeq, LenProperties DEF BTypes
  <2>2. \A i \in 1 .. Len(backlog) : backlog[i] \in LegalTask
    BY <2>1, ElementOfSeq
  <2>3. SubSeq(backlog, 1, Len(backlog) - 1) \in Seq(LegalTask)
    <3>1. Len(backlog) - 1 \in Int /\ \A i \in 1 .. Len(backlog) - 1 : backlog[i] \in LegalTask
      BY <2>1, <2>2
    <3> QED BY <3>1, SubSeqProperties
  <2> QED BY <1>1, <2>1, <2>2, <2>3 DEF Front, Last
<1>3. /\ u \in ConsumerRecord /\ u.at = "list" /\ u.next = 1 /\ u.task = Last(backlog)
  BY <1>2 DEF ConsumerRecord
<1> HIDE DEF u
<1>4. Fits(u) /\ Passed(u) \subseteq Handled'
  <2>1. 1 \in 1 .. MailCount + 1 /\ "list" \notin OnMail /\ \A i \in MailNumbers : ~(i < 1)
    BY BackfillBounds DEF OnMail, MailNumbers
  <2> QED BY <1>2, <1>3, <2>1 DEF Fits, Passed
<1>5. /\ consumer' \in [Consumer -> ConsumerRecord]
      /\ WorkersFit' /\ PassedHandled' /\ EventOfNew' /\ PublishersSound'
  BY <1>1, <1>3, <1>4, WorkerMoves
<1>6. status' \in [Job -> {"none", "pending", "running", "complete", "failed"}] /\ jobFailures' \in 0 .. MaxJobFailures
  BY <1>1, BackfillBounds DEF BTypes, JobFails
<1>7. BTypes' /\ stuckCount' \in BOOLEAN
  BY <1>1, <1>2, <1>5, <1>6 DEF BTypes
<1>8. CompleteIsHandled'
  BY <1>1, CompletionKept DEF BTypes
<1> QED BY <1>5, <1>7, <1>8

\* The steps that ask whether a message may be processed, and the listing.
LEMMA AskPreserves ==
  ASSUME BInv, NEW w \in Consumer, List(w) \/ CanProcessEmail(w) \/ Recheck(w)
  PROVE  BInv'
<1> USE DEF BInv
<1>1. /\ consumer[w].at # "idle" /\ UNCHANGED <<backlog, status, mails, events, dropped, orphaned, stuckCount, triggers>>
      /\ Fits(consumer[w])
  BY DEF List, CanProcessEmail, Recheck, Ask, WorkersFit
<1>2. /\ count' = count \/ count' = [count EXCEPT !.value = @ + 1]
      /\ jobFailures' \in 0 .. MaxJobFailures
  BY BackfillBounds DEF List, CanProcessEmail, Recheck, Ask, JobFails, BTypes
<1>3. count' \in CountRecord /\ (count'.expires => count'.value > 0)
  <2>1. count \in CountRecord /\ (count.expires => count.value > 0)
    BY DEF BTypes
  <2> DEFINE c == [count EXCEPT !.value = @ + 1]
  <2>2. count.value \in Nat /\ c \in CountRecord /\ c.value = count.value + 1
    BY <2>1 DEF CountRecord
  <2> HIDE DEF c
  <2>3. CASE count' = count
    BY <2>1, <2>3
  <2>4. CASE count' = c
    BY <2>2, <2>4
  <2> QED BY <1>2, <2>3, <2>4 DEF c
<1>4. PICK at \in {"check", "backoff", "expire", "handle", "wait"} :
        Goto(w, at) /\ (at \in OnMail => consumer[w].next \in MailNumbers)
  <2>1. CASE List(w)
    BY <2>1 DEF List, OnMail
  <2>2. CASE CanProcessEmail(w)
    <3>1. consumer[w].next \in MailNumbers
      BY <1>1, <2>2, BackfillBounds DEF CanProcessEmail, Listed, Fits, MailNumbers
    <3> QED BY <2>2, <3>1 DEF CanProcessEmail, Ask
  <2>3. CASE Recheck(w)
    <3>1. consumer[w].next \in MailNumbers
      BY <1>1, <2>3 DEF Recheck, Fits, OnMail
    <3> QED BY <2>3, <3>1 DEF Recheck, Ask
  <2> QED BY <2>1, <2>2, <2>3
<1>5. /\ consumer' \in [Consumer -> ConsumerRecord]
      /\ WorkersFit' /\ PassedHandled' /\ EventOfNew' /\ PublishersSound'
  <2>1. at \in OnMail \cup {"check", "backoff", "fail"} /\ at # "publish"
    BY DEF OnMail
  <2> QED BY <1>1, <1>4, <2>1, WorkerGoes
<1>6. BTypes' /\ stuckCount' \in BOOLEAN
  BY <1>1, <1>2, <1>3, <1>5 DEF BTypes
<1>7. CompleteIsHandled'
  BY <1>1, CompletionKept
<1> QED BY <1>5, <1>6, <1>7

\* The expiry is set, if there is a counter.
LEMMA ExpirySetPreserves ==
  ASSUME BInv, NEW w \in Consumer, SetExpiry(w)
  PROVE  BInv'
<1> USE DEF BInv
<1>1. /\ consumer[w].at = "expire" /\ Goto(w, "handle") /\ Fits(consumer[w])
      /\ UNCHANGED <<backlog, status, mails, events, dropped, orphaned, triggers>>
  BY DEF SetExpiry, WorkersFit
<1>2. jobFailures' \in 0 .. MaxJobFailures
  BY BackfillBounds DEF SetExpiry, JobFails, BTypes
<1>3. stuckCount' \in BOOLEAN
  BY DEF SetExpiry
<1>4. count' \in CountRecord /\ (count'.expires => count'.value > 0)
  <2>1. count \in CountRecord /\ (count.expires => count.value > 0)
    BY DEF BTypes
  <2>2. CASE count' = count
    BY <2>1, <2>2
  <2>3. CASE count' = [count EXCEPT !.expires = @ \/ Given]
    <3> DEFINE e == count.expires \/ Given
               c == [count EXCEPT !.expires = e]
    <3>1. e \in BOOLEAN
      OBVIOUS
    <3>2. e => count.value > 0
      BY <2>1 DEF Given
    <3>3. count' = c
      BY <2>3
    <3> HIDE DEF e
    <3>4. c \in CountRecord /\ c.value = count.value /\ c.expires = e
      BY <2>1, <3>1 DEF CountRecord
    <3> HIDE DEF c
    <3> QED BY <3>2, <3>3, <3>4
  <2> QED BY <2>2, <2>3 DEF SetExpiry
<1>5. /\ consumer' \in [Consumer -> ConsumerRecord]
      /\ WorkersFit' /\ PassedHandled' /\ EventOfNew' /\ PublishersSound'
  <2>1. consumer[w].next \in MailNumbers
    BY <1>1 DEF Fits, OnMail
  <2>2. "handle" \in OnMail \cup {"check", "backoff", "fail"} /\ "handle" # "publish" /\ consumer[w].at # "idle"
    BY <1>1 DEF OnMail
  <2> QED BY <1>1, <2>1, <2>2, WorkerGoes
<1>6. BTypes'
  BY <1>1, <1>2, <1>4, <1>5 DEF BTypes
<1>7. CompleteIsHandled'
  BY <1>1, CompletionKept
<1> QED BY <1>3, <1>5, <1>6, <1>7

LEMMA HourPreserves ==
  ASSUME BInv, HourPasses
  PROVE  BInv'
<1> USE DEF BInv
<1> DEFINE woken(v) == [consumer[v] EXCEPT !.at = IF @ = "wait" THEN "woken" ELSE @]
<1>1. /\ consumer' = [v \in Consumer |-> woken(v)]
      /\ count' = IF count.expires THEN [value |-> 0, expires |-> FALSE] ELSE count
      /\ UNCHANGED <<backlog, status, mails, events, dropped, orphaned, stuckCount, triggers, jobFailures>>
  BY DEF HourPasses
<1>2. ASSUME NEW v \in Consumer
      PROVE  /\ consumer'[v] \in ConsumerRecord /\ consumer'[v].task = consumer[v].task
             /\ consumer'[v].next = consumer[v].next
             /\ consumer'[v].at = IF consumer[v].at = "wait" THEN "woken" ELSE consumer[v].at
  <2>1. consumer[v] \in ConsumerRecord
    BY DEF BTypes
  <2>2. consumer'[v] = woken(v)
    BY <1>1
  <2> QED BY <2>1, <2>2 DEF ConsumerRecord, OnMail
<1>3. consumer' \in [Consumer -> ConsumerRecord]
  BY <1>1, <1>2
<1>4. count' \in CountRecord /\ (count'.expires => count'.value > 0)
  BY <1>1 DEF BTypes, CountRecord
<1>5. BTypes' /\ stuckCount' \in BOOLEAN
  BY <1>1, <1>3, <1>4 DEF BTypes
<1>6. WorkersFit'
  <2> SUFFICES ASSUME NEW v \in Consumer PROVE Fits(consumer'[v])
    BY DEF WorkersFit, Fits
  <2>1. Fits(consumer[v])
    BY DEF WorkersFit
  <2> QED BY <1>2, <2>1 DEF Fits, OnMail
<1>7. PassedHandled'
  <2> SUFFICES ASSUME NEW v \in Consumer, consumer'[v].at # "idle" PROVE Passed(consumer'[v]) \subseteq Handled
    BY <1>1 DEF PassedHandled, Passed, Handled
  <2>1. Passed(consumer'[v]) = Passed(consumer[v]) /\ consumer[v].at # "idle"
    BY <1>2 DEF Passed
  <2> QED BY <2>1 DEF PassedHandled
<1>8. EventOfNew'
  BY <1>1 DEF EventOfNew
<1>9. PublishersSound'
  <2>1. \A v \in Consumer : consumer'[v].at = "publish" => consumer[v].at = "publish"
    BY <1>2
  <2>2. \A v \in Consumer : At(consumer'[v]) = At(consumer[v])
    BY <1>2 DEF At
  <2> SUFFICES ASSUME NEW w \in Consumer, consumer'[w].at = "publish"
               PROVE  /\ At(consumer'[w]) \in mails /\ events[At(consumer'[w])] = 0
                      /\ \A v \in Consumer : consumer'[v].at = "publish" /\ At(consumer'[v]) = At(consumer'[w]) => v = w
    BY <1>1 DEF PublishersSound, At
  <2>3. At(consumer[w]) \in mails /\ events[At(consumer[w])] = 0
    BY <2>1 DEF PublishersSound
  <2>4. \A v \in Consumer : consumer[v].at = "publish" /\ At(consumer[v]) = At(consumer[w]) => v = w
    BY <2>1 DEF PublishersSound
  <2> QED BY <2>1, <2>2, <2>3, <2>4
<1>10. CompleteIsHandled'
  BY <1>1, CompletionKept
<1> QED BY <1>5, <1>6, <1>7, <1>8, <1>9, <1>10

\* The message a worker is at.
LEMMA MailInHand ==
  ASSUME BTypes, NEW w \in Consumer, Fits(consumer[w]), consumer[w].at \in OnMail
  PROVE  /\ consumer[w] \in ConsumerRecord /\ consumer[w].task \in LegalTask /\ consumer[w].at # "idle"
         /\ consumer[w].next \in MailNumbers /\ consumer[w].next \in Nat /\ consumer[w].next + 1 \in 1 .. MailCount + 1
         /\ Current(w) = At(consumer[w]) /\ Current(w) \in Mail
         /\ Passed([consumer[w] EXCEPT !.at = "check", !.next = @ + 1]) = Passed(consumer[w]) \cup {Current(w)}
<1>1. /\ consumer[w] \in ConsumerRecord /\ consumer[w].task \in LegalTask /\ consumer[w].at # "idle"
      /\ consumer[w].next \in MailNumbers /\ consumer[w].task.job \in Job
  BY DEF BTypes, Fits, OnMail, LegalTask
<1>2. /\ consumer[w].next \in Nat /\ consumer[w].next + 1 \in 1 .. MailCount + 1
      /\ {i \in MailNumbers : i < consumer[w].next + 1} = {i \in MailNumbers : i < consumer[w].next} \cup {consumer[w].next}
  BY <1>1, BackfillBounds DEF MailNumbers
<1>3. Current(w) = At(consumer[w]) /\ Current(w) \in Mail
  BY <1>1 DEF Current, JobOf, At, Mail, MailNumbers
<1> DEFINE u == [consumer[w] EXCEPT !.at = "check", !.next = @ + 1]
<1>4. u.task = consumer[w].task /\ u.next = consumer[w].next + 1
  BY <1>1 DEF ConsumerRecord
<1> HIDE DEF u
<1>5. Passed(u) = Passed(consumer[w]) \cup {Current(w)}
  BY <1>2, <1>3, <1>4 DEF Passed, At
<1> QED BY <1>1, <1>2, <1>3, <1>5 DEF u

\* A worker that has handled its message goes to the next.
LEMMA NextMailMoves ==
  ASSUME BInv, NEW w \in Consumer, consumer[w].at \in OnMail, NextMail(w),
         mails' = mails, dropped \subseteq dropped', Current(w) \in Handled'
  PROVE  /\ consumer' \in [Consumer -> ConsumerRecord] /\ WorkersFit' /\ PassedHandled'
         /\ consumer'[w].at = "check" /\ \A v \in Consumer : v # w => consumer'[v] = consumer[v]
         /\ events' = events => EventOfNew' /\ PublishersSound'
<1> USE DEF BInv
<1> DEFINE u == [consumer[w] EXCEPT !.at = "check", !.next = @ + 1]
<1>1. Fits(consumer[w]) /\ Passed(consumer[w]) \subseteq Handled
  BY DEF WorkersFit, PassedHandled, OnMail
<1>2. /\ consumer[w] \in ConsumerRecord /\ consumer[w].task \in LegalTask /\ consumer[w].next \in Nat
      /\ consumer[w].next + 1 \in 1 .. MailCount + 1 /\ Passed(u) = Passed(consumer[w]) \cup {Current(w)}
  BY <1>1, MailInHand
<1>3. consumer' = [consumer EXCEPT ![w] = u]
  BY <1>2 DEF NextMail, ConsumerRecord
<1>4. u \in ConsumerRecord /\ u.at = "check" /\ u.task = consumer[w].task /\ u.next = consumer[w].next + 1
  <2>1. consumer[w].next + 1 \in Nat
    BY <1>2
  <2> QED BY <1>2, <2>1 DEF ConsumerRecord
<1> HIDE DEF u
<1>5. Fits(u)
  BY <1>2, <1>4 DEF Fits, OnMail
<1>6. Passed(u) \subseteq Handled' /\ Handled \subseteq Handled'
  BY <1>1, <1>2 DEF Handled
<1>7. /\ consumer' \in [Consumer -> ConsumerRecord] /\ consumer'[w] = u
      /\ \A v \in Consumer : v # w => consumer'[v] = consumer[v]
  BY <1>3, <1>4 DEF BTypes
<1>8. WorkersFit'
  <2> SUFFICES ASSUME NEW v \in Consumer PROVE Fits(consumer'[v])
    BY DEF WorkersFit, Fits
  <2>1. Fits(consumer[v])
    BY DEF WorkersFit
  <2>2. consumer'[v] = u \/ consumer'[v] = consumer[v]
    BY <1>7
  <2> QED BY <1>5, <2>1, <2>2
<1>9. PassedHandled'
  <2> SUFFICES ASSUME NEW v \in Consumer, consumer'[v].at # "idle" PROVE Passed(consumer'[v]) \subseteq Handled'
    BY DEF PassedHandled, Passed
  <2> QED BY <1>6, <1>7 DEF PassedHandled
<1>10. events' = events => EventOfNew' /\ PublishersSound'
  BY <1>3, <1>4, <1>5, <1>6, WorkerMoves
<1> QED BY <1>4, <1>7, <1>8, <1>9, <1>10

\* A message is handled: stored by this worker, which then announces it; stored
\* already; or dropped.
LEMMA PersistPreserves ==
  ASSUME BInv, NEW w \in Consumer, PersistAndPublish(w)
  PROVE  BInv'
<1> USE DEF BInv
<1>1. /\ consumer[w].at = "handle" /\ Fits(consumer[w]) /\ Passed(consumer[w]) \subseteq Handled
      /\ UNCHANGED <<backlog, status, count, events, orphaned, stuckCount, triggers>>
  BY DEF PersistAndPublish, WorkersFit, PassedHandled
<1>2. consumer[w].at \in OnMail
  BY <1>1 DEF OnMail
<1>3. /\ consumer[w] \in ConsumerRecord /\ consumer[w].task \in LegalTask /\ consumer[w].next \in MailNumbers
      /\ consumer[w].next \in Nat
      /\ Current(w) = At(consumer[w]) /\ Current(w) \in Mail
  BY <1>1, <1>2, MailInHand
<1>4. mails \subseteq mails' /\ dropped \subseteq dropped' /\ mails' \subseteq Mail /\ dropped' \subseteq Mail
      /\ UNCHANGED jobFailures
  BY <1>3 DEF PersistAndPublish, BTypes
<1>5. CompleteIsHandled'
  BY <1>1, <1>4, CompletionKept
<1>6. CASE NextMail(w) /\ mails' = mails /\ Current(w) \in Handled'
  <2>1. /\ consumer' \in [Consumer -> ConsumerRecord]
        /\ WorkersFit' /\ PassedHandled' /\ EventOfNew' /\ PublishersSound'
    BY <1>1, <1>2, <1>4, <1>6, NextMailMoves
  <2>2. BTypes'
    BY <1>1, <1>4, <2>1 DEF BTypes
  <2> QED BY <1>1, <1>5, <2>1, <2>2
<1>7. CASE /\ Current(w) \notin mails /\ mails' = mails \cup {Current(w)} /\ Goto(w, "publish")
           /\ dropped' = dropped
  <2> DEFINE u == [consumer[w] EXCEPT !.at = "publish"]
  <2>1. u \in ConsumerRecord /\ u.at = "publish" /\ u.task = consumer[w].task /\ u.next = consumer[w].next
    BY <1>3 DEF ConsumerRecord, OnMail
  <2>2. consumer' = [consumer EXCEPT ![w] = u]
    BY <1>7 DEF Goto
  <2> HIDE DEF u
  <2>3. /\ consumer' \in [Consumer -> ConsumerRecord] /\ consumer'[w] = u
        /\ \A v \in Consumer : v # w => consumer'[v] = consumer[v]
    BY <2>1, <2>2 DEF BTypes
  <2>4. BTypes'
    BY <1>1, <1>4, <2>3 DEF BTypes
  <2>5. Fits(u) /\ Passed(u) = Passed(consumer[w]) /\ At(u) = Current(w)
    BY <1>1, <1>3, <2>1 DEF Fits, OnMail, Passed, At
  <2>6. WorkersFit'
    <3> SUFFICES ASSUME NEW v \in Consumer PROVE Fits(consumer'[v])
      BY DEF WorkersFit, Fits
    <3>1. Fits(consumer[v])
      BY DEF WorkersFit
    <3>2. consumer'[v] = u \/ consumer'[v] = consumer[v]
      BY <2>3
    <3> QED BY <2>5, <3>1, <3>2
  <2>7. PassedHandled'
    <3> SUFFICES ASSUME NEW v \in Consumer, consumer'[v].at # "idle" PROVE Passed(consumer'[v]) \subseteq Handled'
      BY DEF PassedHandled, Passed
    <3>1. Handled \subseteq Handled'
      BY <1>4 DEF Handled
    <3> QED BY <1>1, <2>3, <2>5, <3>1 DEF PassedHandled
  <2>8. EventOfNew'
    BY <1>1, <1>7 DEF EventOfNew
  <2>9. PublishersSound'
    <3> SUFFICES ASSUME NEW x \in Consumer, consumer'[x].at = "publish"
                 PROVE  /\ At(consumer'[x]) \in mails' /\ events[At(consumer'[x])] = 0
                        /\ \A v \in Consumer : consumer'[v].at = "publish" /\ At(consumer'[v]) = At(consumer'[x]) => v = x
      BY <1>1 DEF PublishersSound, At
    <3>1. events[Current(w)] = 0
      BY <1>3, <1>7 DEF EventOfNew
    <3>2. \A v \in Consumer : v # w /\ consumer'[v].at = "publish" =>
            /\ At(consumer'[v]) \in mails /\ events[At(consumer'[v])] = 0
            /\ \A z \in Consumer : z # w /\ consumer'[z].at = "publish" /\ At(consumer'[z]) = At(consumer'[v]) => z = v
      BY <2>3 DEF PublishersSound
    <3>3. At(consumer'[w]) = Current(w)
      BY <2>3, <2>5
    <3>4. CASE x = w
      BY <1>7, <3>1, <3>2, <3>3, <3>4
    <3>5. CASE x # w
      BY <1>7, <3>2, <3>3, <3>5
    <3> QED BY <3>4, <3>5
  <2> QED BY <1>1, <1>5, <2>4, <2>6, <2>7, <2>8, <2>9
<1> QED BY <1>6, <1>7 DEF PersistAndPublish, Insert, Handled

\* Only the worker that stored the message announces it.
LEMMA PublishPreserves ==
  ASSUME BInv, NEW w \in Consumer, PublishIngested(w)
  PROVE  BInv'
<1> USE DEF BInv
<1>1. /\ consumer[w].at = "publish" /\ Fits(consumer[w]) /\ NextMail(w)
      /\ UNCHANGED <<backlog, status, count, mails, dropped, orphaned, stuckCount, triggers>>
      /\ events' = events \/ events' = [events EXCEPT ![Current(w)] = @ + 1]
  BY DEF PublishIngested, WorkersFit
<1>2. consumer[w].at \in OnMail
  BY <1>1 DEF OnMail
<1>3. Current(w) = At(consumer[w]) /\ Current(w) \in Mail
  BY <1>1, <1>2, MailInHand
<1>4. Current(w) \in mails /\ events[Current(w)] = 0
  BY <1>1, <1>3 DEF PublishersSound
<1>5. /\ consumer' \in [Consumer -> ConsumerRecord] /\ WorkersFit' /\ PassedHandled'
      /\ consumer'[w].at = "check" /\ \A v \in Consumer : v # w => consumer'[v] = consumer[v]
  BY <1>1, <1>2, <1>4, NextMailMoves DEF Handled
<1>6. /\ events' \in [Mail -> Nat] /\ events'[Current(w)] <= 1
      /\ \A m \in Mail : m # Current(w) => events'[m] = events[m]
  BY <1>1, <1>3, <1>4 DEF BTypes
<1>7. jobFailures' \in 0 .. MaxJobFailures
  BY BackfillBounds DEF PublishIngested, JobFails, BTypes
<1>8. BTypes'
  BY <1>1, <1>5, <1>6, <1>7 DEF BTypes
<1>9. EventOfNew'
  BY <1>1, <1>4, <1>6 DEF EventOfNew
<1>10. PublishersSound'
  <2> SUFFICES ASSUME NEW x \in Consumer, consumer'[x].at = "publish"
               PROVE  /\ At(consumer'[x]) \in mails /\ events'[At(consumer'[x])] = 0
                      /\ \A v \in Consumer : consumer'[v].at = "publish" /\ At(consumer'[v]) = At(consumer'[x]) => v = x
    BY <1>1 DEF PublishersSound, At
  <2>1. x # w /\ consumer'[x] = consumer[x] /\ consumer[x].at = "publish"
    BY <1>5
  <2>2. /\ At(consumer[x]) \in mails /\ events[At(consumer[x])] = 0
        /\ \A v \in Consumer : consumer[v].at = "publish" /\ At(consumer[v]) = At(consumer[x]) => v = x
    BY <2>1 DEF PublishersSound
  <2>3. At(consumer[x]) # Current(w)
    BY <1>1, <1>3, <2>1, <2>2
  <2>4. At(consumer[x]) \in Mail
    BY <2>2 DEF BTypes
  <2>5. \A v \in Consumer : consumer'[v].at = "publish" => consumer'[v] = consumer[v]
    BY <1>5
  <2> QED BY <1>6, <2>1, <2>2, <2>3, <2>4, <2>5
<1>11. CompleteIsHandled'
  BY <1>1, CompletionKept
<1> QED BY <1>1, <1>5, <1>8, <1>9, <1>10, <1>11

\* A poller stores and announces a message no worker has stored.
LEMMA ElsewherePreserves ==
  ASSUME BInv, NEW m \in Mail, IngestedElsewhere(m)
  PROVE  BInv'
<1> USE DEF BInv
<1>1. /\ m \notin mails /\ mails' = mails \cup {m} /\ events' = [events EXCEPT ![m] = @ + 1]
      /\ UNCHANGED <<backlog, status, count, consumer, dropped, orphaned, stuckCount, triggers, jobFailures>>
  BY DEF IngestedElsewhere
<1>2. events[m] = 0
  BY <1>1 DEF EventOfNew
<1>3. /\ events' \in [Mail -> Nat] /\ events'[m] = 1
      /\ \A n \in Mail : n # m => events'[n] = events[n]
  BY <1>1, <1>2 DEF BTypes
<1>4. BTypes' /\ stuckCount' \in BOOLEAN
  BY <1>1, <1>3 DEF BTypes
<1>5. WorkersFit' /\ PassedHandled' /\ EventOfNew'
  BY <1>1, <1>3 DEF WorkersFit, Fits, PassedHandled, Passed, Handled, EventOfNew
<1>6. PublishersSound'
  <2>1. \A w \in Consumer : consumer[w].at = "publish" =>
          At(consumer[w]) \in Mail /\ At(consumer[w]) \in mails /\ At(consumer[w]) # m
    BY <1>1 DEF PublishersSound, BTypes
  <2>2. \A w \in Consumer : consumer[w].at = "publish" =>
          At(consumer[w]) \in mails' /\ events'[At(consumer[w])] = 0
    BY <1>1, <1>3, <2>1 DEF PublishersSound
  <2> QED BY <1>1, <2>2 DEF PublishersSound, At
<1>7. CompleteIsHandled'
  BY <1>1, CompletionKept
<1> QED BY <1>4, <1>5, <1>6, <1>7

\* A worker becomes idle.
LEMMA WorkerEnds ==
  ASSUME BInv, NEW w \in Consumer, End(w), mails' = mails, dropped' = dropped, events' = events
  PROVE  /\ consumer' \in [Consumer -> ConsumerRecord]
         /\ WorkersFit' /\ PassedHandled' /\ EventOfNew' /\ PublishersSound'
<1>1. IdleConsumer \in ConsumerRecord /\ IdleConsumer.at = "idle"
  BY DEF IdleConsumer, ConsumerRecord
<1>2. Fits(IdleConsumer)
  BY <1>1 DEF Fits
<1> QED BY <1>1, <1>2, WorkerMoves DEF End

\* A job is reported complete by a worker that has no message left.
LEMMA CompletePreserves ==
  ASSUME BInv, NEW w \in Consumer, MarkComplete(w)
  PROVE  BInv'
<1> USE DEF BInv
<1>1. /\ consumer[w].at = "check" /\ consumer[w].next > MailCount /\ End(w) /\ Fits(consumer[w])
      /\ Passed(consumer[w]) \subseteq Handled /\ consumer[w].task \in LegalTask /\ consumer[w].next \in Nat
      /\ UNCHANGED <<backlog, mails, events, dropped, stuckCount, triggers>>
  BY DEF MarkComplete, Exhausted, WorkersFit, PassedHandled, Fits
<1>2. JobOf(w) \in Job
  BY <1>1 DEF JobOf, LegalTask
<1>3. {JobOf(w)} \X (1 .. MailCount) \subseteq Handled
  <2>1. {i \in MailNumbers : i < consumer[w].next} = 1 .. MailCount
    BY <1>1, BackfillBounds DEF MailNumbers
  <2> QED BY <1>1, <2>1 DEF Passed, JobOf
<1>4. /\ status' = status \/ status' = [status EXCEPT ![JobOf(w)] = "complete"]
      /\ count' = count \/ count' = [value |-> 0, expires |-> FALSE]
      /\ orphaned' \subseteq Job /\ jobFailures' \in 0 .. MaxJobFailures
  BY <1>2, BackfillBounds DEF MarkComplete, JobFails, BTypes
<1>5. count' \in CountRecord /\ (count'.expires => count'.value > 0)
  <2>1. count \in CountRecord /\ (count.expires => count.value > 0)
    BY DEF BTypes
  <2> DEFINE c == [value |-> 0, expires |-> FALSE]
  <2>2. c \in CountRecord /\ ~c.expires
    BY DEF CountRecord
  <2>3. CASE count' = count
    BY <2>1, <2>3
  <2>4. CASE count' = c
    BY <2>2, <2>4
  <2> QED BY <1>4, <2>3, <2>4
<1>6. /\ consumer' \in [Consumer -> ConsumerRecord]
      /\ WorkersFit' /\ PassedHandled' /\ EventOfNew' /\ PublishersSound'
  BY <1>1, WorkerEnds
<1>7. BTypes' /\ stuckCount' \in BOOLEAN
  BY <1>1, <1>4, <1>5, <1>6 DEF BTypes
<1>8. CompleteIsHandled'
  <2> SUFFICES ASSUME NEW j \in Job, status'[j] = "complete"
               PROVE  {j} \X (1 .. MailCount) \subseteq Handled
    BY <1>1 DEF CompleteIsHandled, Handled
  <2>1. CASE j = JobOf(w)
    BY <1>3, <2>1
  <2>2. CASE j # JobOf(w)
    <3>1. status[j] = "complete"
      BY <1>4, <2>2 DEF BTypes
    <3> QED BY <3>1 DEF CompleteIsHandled, Handled
  <2> QED BY <2>1, <2>2
<1> QED BY <1>6, <1>7, <1>8

\* A job goes back to the list, or is given up; a worker may die with it.
LEMMA GiveUpPreserves ==
  ASSUME BInv, NEW w \in Consumer, MarkFailed(w) \/ WorkerDies(w)
  PROVE  BInv'
<1> USE DEF BInv
<1>1. /\ consumer[w].at # "idle" /\ End(w) /\ UNCHANGED <<backlog, count, mails, events, dropped, triggers>>
      /\ consumer[w].task \in LegalTask
  BY DEF MarkFailed, WorkerDies, WorkersFit, Fits
<1>2. JobOf(w) \in Job
  BY <1>1 DEF JobOf, LegalTask
<1>3. /\ status' = status \/ status' = [status EXCEPT ![JobOf(w)] = "failed"]
      /\ orphaned' \subseteq Job
  BY <1>2 DEF MarkFailed, WorkerDies, BTypes
<1>4. jobFailures' \in 0 .. MaxJobFailures
  BY BackfillBounds DEF MarkFailed, WorkerDies, JobFails, BTypes
<1>5. stuckCount' \in BOOLEAN
  <2>1. CASE UNCHANGED stuckCount
    BY <2>1
  <2>2. CASE WorkerDies(w)
    BY <2>2 DEF WorkerDies
  <2> QED BY <2>1, <2>2 DEF MarkFailed
<1>6. /\ consumer' \in [Consumer -> ConsumerRecord]
      /\ WorkersFit' /\ PassedHandled' /\ EventOfNew' /\ PublishersSound'
  BY <1>1, WorkerEnds
<1>7. BTypes'
  BY <1>1, <1>3, <1>4, <1>6 DEF BTypes
<1>8. CompleteIsHandled'
  BY <1>1, <1>3, CompletionKept DEF BTypes
<1> QED BY <1>5, <1>6, <1>7, <1>8

LEMMA RequeuePreserves ==
  ASSUME BInv, NEW w \in Consumer, RequeueForRetry(w)
  PROVE  BInv'
<1> USE DEF BInv
<1> DEFINE task == [consumer[w].task EXCEPT !.retry = @ + 1]
<1>1. /\ consumer[w].at = "backoff" /\ MayRetry(w) /\ consumer[w].task \in LegalTask
      /\ UNCHANGED <<status, count, mails, events, dropped, orphaned, stuckCount, triggers>>
      /\ \/ backlog' = <<task>> \o backlog /\ End(w)
         \/ backlog' = backlog /\ Goto(w, "fail")
  BY DEF RequeueForRetry, Requeued, WorkersFit, Fits
<1>2. task \in LegalTask
  BY <1>1, BackfillBounds DEF MayRetry, LegalTask
<1> HIDE DEF task
<1>3. backlog' \in Seq(LegalTask)
  <2>1. <<task>> \in Seq(LegalTask) /\ backlog \in Seq(LegalTask)
    BY <1>2 DEF BTypes
  <2>2. <<task>> \o backlog \in Seq(LegalTask)
    BY <2>1, ConcatProperties
  <2> QED BY <1>1, <2>1, <2>2
<1>4. jobFailures' \in 0 .. MaxJobFailures
  BY BackfillBounds DEF RequeueForRetry, JobFails, BTypes
<1>5. /\ consumer' \in [Consumer -> ConsumerRecord]
      /\ WorkersFit' /\ PassedHandled' /\ EventOfNew' /\ PublishersSound'
  <2>1. CASE End(w)
    BY <1>1, <2>1, WorkerEnds
  <2>2. CASE Goto(w, "fail")
    <3>1. "fail" \in OnMail \cup {"check", "backoff", "fail"} /\ "fail" # "publish" /\ "fail" \notin OnMail
          /\ consumer[w].at # "idle"
      BY <1>1 DEF OnMail
    <3> QED BY <1>1, <2>2, <3>1, WorkerGoes
  <2> QED BY <1>1, <2>1, <2>2
<1>6. BTypes' /\ stuckCount' \in BOOLEAN
  BY <1>1, <1>3, <1>4, <1>5 DEF BTypes
<1>7. CompleteIsHandled'
  BY <1>1, CompletionKept
<1> QED BY <1>5, <1>6, <1>7

LEMMA BackfillInductive == BInv /\ [BackfillNext]_backfillVars => BInv'
<1> SUFFICES ASSUME BInv, [BackfillNext]_backfillVars PROVE BInv'
  OBVIOUS
<1>1. CASE UNCHANGED backfillVars
  <2>1. UNCHANGED <<backlog, status, count, consumer, mails, events, dropped, orphaned, stuckCount, triggers, jobFailures>>
    BY <1>1 DEF backfillVars
  <2> QED BY <2>1 DEF BInv, BTypes, WorkersFit, Fits, PassedHandled, Passed, Handled, EventOfNew, PublishersSound, At,
      CompleteIsHandled
<1>2. CASE HourPasses \/ (\E j \in Job : Trigger(j)) \/ \E m \in Mail : IngestedElsewhere(m)
  BY <1>2, HourPreserves, TriggerPreserves, ElsewherePreserves
<1>3. ASSUME NEW w \in Consumer, ConsumerStep(w) \/ WorkerDies(w) PROVE BInv'
  <2>1. CASE List(w) \/ CanProcessEmail(w) \/ Recheck(w)
    BY <2>1, AskPreserves
  <2>2. CASE Dequeue(w) \/ SetExpiry(w) \/ PersistAndPublish(w) \/ PublishIngested(w)
    BY <2>2, DequeuePreserves, ExpirySetPreserves, PersistPreserves, PublishPreserves
  <2>3. CASE MarkComplete(w) \/ RequeueForRetry(w) \/ MarkFailed(w) \/ WorkerDies(w)
    BY <2>3, CompletePreserves, RequeuePreserves, GiveUpPreserves
  <2> QED BY <1>3, <2>1, <2>2, <2>3 DEF ConsumerStep
<1> QED BY <1>1, <1>2, <1>3 DEF BackfillNext

LEMMA BInvIsSound == BInv => BackfillInv
<1> SUFFICES ASSUME BInv PROVE BackfillInv
  OBVIOUS
<1> USE DEF BInv
<1>1. LegalTask \subseteq Task /\ \A t \in LegalTask : t.retry <= MaxRetries
  BY BackfillBounds DEF LegalTask, Task
<1>2. backlog \in Seq(Task)
  BY <1>1, SeqMonotonic DEF BTypes
<1>3. \A w \in Consumer : consumer[w].at # "idle" =>
        /\ consumer[w].task \in Task /\ consumer[w].task.retry <= MaxRetries
        /\ consumer[w].next \in 1 .. MailCount + 1
  BY <1>1 DEF WorkersFit, Fits
<1>4. BackfillTypeOK
  BY <1>2, <1>3 DEF BTypes, CountRecord, BackfillTypeOK
<1>5. AnnouncedOnce
  BY DEF EventOfNew, AnnouncedOnce
<1> QED BY <1>4, <1>5 DEF BackfillInv

\* A message is announced once, and a job that reports itself complete has
\* looked at every message: for any jobs, workers, messages, limits and retries.
THEOREM BackfillIsSound == BackfillSpec => []BackfillInv
<1>1. BackfillInit => BInv
  BY BackfillInitially
<1>2. BInv /\ [BackfillNext]_backfillVars => BInv'
  BY BackfillInductive
<1>3. BInv => BackfillInv
  BY BInvIsSound
<1> QED BY <1>1, <1>2, <1>3, PTL DEF BackfillSpec

-------------------------------------------------------------------------------
(* PollQuota.  The units of the calls in progress are counted as a set of    *)
(* pairs, so that what a refund takes back was spent in the window.          *)

KeyRecord == [present : BOOLEAN, remaining : Nat, expires : BOOLEAN]
PollRecord == [at : {"idle", "calling", "expiring"}, cost : 0 .. Limit, old : BOOLEAN]
Units(p) == {p} \X (1 .. poll[p].cost)
Charged == {p \in Poll : poll[p].at = "calling" /\ ~poll[p].old}
Outstanding == {u \in Poll \X (1 .. Limit) : u[1] \in Charged /\ u[2] <= poll[u[1]].cost}

QTypes ==
  /\ key \in KeyRecord /\ poll \in [Poll -> PollRecord] /\ spent \in Nat /\ late \in Nat
NoKeyNoCharge == ~key.present => spent = 0 /\ late = 0 /\ Charged = {}
OutstandingPaid == IsFiniteSet(Outstanding) /\ Cardinality(Outstanding) <= spent

QInv == QTypes /\ stuck \in BOOLEAN /\ WindowWithinLimit /\ NoKeyNoCharge /\ OutstandingPaid

LEMMA UnitsOfCall ==
  ASSUME QTypes, NEW p \in Poll, NEW c \in 0 .. Limit
  PROVE  IsFiniteSet({p} \X (1 .. c)) /\ Cardinality({p} \X (1 .. c)) = c
<1>1. IsFiniteSet(1 .. c) /\ Cardinality(1 .. c) = c
  BY QuotaBounds, FS_Interval
<1> DEFINE f == [i \in 1 .. c |-> <<p, i>>]
<1>2. f \in Bijection(1 .. c, {p} \X (1 .. c))
  <2>1. f \in [1 .. c -> {p} \X (1 .. c)] /\ \A i \in 1 .. c : f[i] = <<p, i>>
    OBVIOUS
  <2>2. \A i, j \in 1 .. c : f[i] = f[j] => i = j
    BY <2>1
  <2>3. \A u \in {p} \X (1 .. c) : \E i \in 1 .. c : f[i] = u
    BY <2>1
  <2> HIDE DEF f
  <2>4. f \in Injection(1 .. c, {p} \X (1 .. c))
    BY <2>1, <2>2 DEF Injection, IsInjective
  <2>5. f \in Surjection(1 .. c, {p} \X (1 .. c))
    BY <2>1, <2>3 DEF Surjection
  <2> QED BY <2>4, <2>5 DEF Bijection
<1>3. ExistsBijection(1 .. c, {p} \X (1 .. c))
  BY <1>2 DEF ExistsBijection
<1> QED BY <1>1, <1>3, FS_Bijection

LEMMA OnePoll ==
  ASSUME QTypes, NEW p \in Poll, NEW x \in PollRecord, poll' = [poll EXCEPT ![p] = x]
  PROVE  /\ poll' \in [Poll -> PollRecord] /\ poll'[p] = x
         /\ \A q \in Poll : q # p => poll'[q] = poll[q]
         /\ Outstanding' \ ({p} \X (1 .. Limit)) = Outstanding \ ({p} \X (1 .. Limit))
         /\ Charged' \ {p} = Charged \ {p}
<1>1. /\ poll' \in [Poll -> PollRecord] /\ poll'[p] = x
      /\ \A q \in Poll : q # p => poll'[q] = poll[q]
  BY DEF QTypes
<1>2. Charged' \ {p} = Charged \ {p}
  BY <1>1 DEF Charged
<1>3. ASSUME NEW u \in Poll \X (1 .. Limit), u[1] # p
      PROVE  u \in Outstanding' <=> u \in Outstanding
  BY <1>1, <1>2, <1>3 DEF Outstanding
<1>4. \A u \in Poll \X (1 .. Limit) : u \notin {p} \X (1 .. Limit) => u[1] # p
  OBVIOUS
<1>5. Outstanding \subseteq Poll \X (1 .. Limit) /\ Outstanding' \subseteq Poll \X (1 .. Limit)
  BY DEF Outstanding
<1> QED BY <1>1, <1>2, <1>3, <1>4, <1>5

LEMMA QuotaInitially == QuotaInit => QInv
<1> SUFFICES ASSUME QuotaInit PROVE QInv
  OBVIOUS
<1>1. Gone \in KeyRecord /\ ~Gone.present /\ Asleep \in PollRecord /\ Asleep.at = "idle"
  BY QuotaBounds DEF Gone, KeyRecord, Asleep, PollRecord
<1>2. QTypes
  BY <1>1 DEF QuotaInit, QTypes
<1>3. Charged = {} /\ Outstanding = {}
  BY <1>1 DEF QuotaInit, Charged, Outstanding
<1>4. WindowWithinLimit /\ NoKeyNoCharge /\ stuck \in BOOLEAN
  BY <1>1, <1>3 DEF QuotaInit, WindowWithinLimit, NoKeyNoCharge
<1>5. OutstandingPaid
  BY <1>3, FS_EmptySet DEF OutstandingPaid, QuotaInit
<1> QED BY <1>2, <1>4, <1>5 DEF QInv

\* A call that ends is charged no longer.
LEMMA ChargeEnds ==
  ASSUME QInv, NEW p \in Poll, NEW x \in PollRecord, poll' = [poll EXCEPT ![p] = x], x.at # "calling"
  PROVE  /\ poll' \in [Poll -> PollRecord]
         /\ Charged' = Charged \ {p} /\ Outstanding' = Outstanding \ ({p} \X (1 .. Limit))
<1> USE DEF QInv
<1>1. /\ poll' \in [Poll -> PollRecord] /\ poll'[p] = x
      /\ Outstanding' \ ({p} \X (1 .. Limit)) = Outstanding \ ({p} \X (1 .. Limit))
      /\ Charged' \ {p} = Charged \ {p}
  BY OnePoll
<1>2. p \notin Charged'
  BY <1>1 DEF Charged
<1>3. Outstanding' \cap ({p} \X (1 .. Limit)) = {}
  BY <1>2 DEF Outstanding
<1> QED BY <1>1, <1>2, <1>3

\* A call is admitted: what it costs is spent and charged.
LEMMA AllowPreserves ==
  ASSUME QInv, NEW p \in Poll, Allow(p)
  PROVE  QInv'
<1> USE DEF QInv
<1>1. PICK c \in Costs :
        /\ Enough(c) /\ Take(c) /\ poll' = [poll EXCEPT ![p] = [at |-> "calling", cost |-> c, old |-> FALSE]]
        /\ spent' = spent + c
  BY DEF Allow
<1>2. poll[p].at = "idle" /\ UNCHANGED <<late, stuck>> /\ c \in 0 .. Limit /\ c \in Nat /\ Limit \in Nat
  BY QuotaBounds DEF Allow
<1> DEFINE x == [at |-> "calling", cost |-> c, old |-> FALSE]
           e == IF key.present THEN key.expires ELSE TRUE
           k == [present |-> TRUE, remaining |-> Remaining - c, expires |-> e]
<1>3. x \in PollRecord /\ x.at = "calling" /\ x.cost = c /\ ~x.old
  BY <1>2 DEF PollRecord
<1>4. e \in BOOLEAN
  BY DEF QTypes, KeyRecord
<1>5. /\ Remaining \in Nat /\ Remaining - c \in Nat
      /\ key.present => Remaining = key.remaining
      /\ ~key.present => Remaining = Limit
  BY <1>1, <1>2 DEF Remaining, Enough, QTypes, KeyRecord
<1>6. poll' = [poll EXCEPT ![p] = x] /\ key' = k
  BY <1>1 DEF Take
<1> HIDE DEF x, e
<1>7. k \in KeyRecord /\ k.present /\ k.remaining = Remaining - c
  BY <1>4, <1>5 DEF KeyRecord
<1> HIDE DEF k
<1>8. /\ poll' \in [Poll -> PollRecord] /\ poll'[p] = x
      /\ Outstanding' \ ({p} \X (1 .. Limit)) = Outstanding \ ({p} \X (1 .. Limit))
  BY <1>3, <1>6, OnePoll
<1>9. QTypes' /\ stuck' \in BOOLEAN
  BY <1>1, <1>2, <1>6, <1>7, <1>8 DEF QTypes
<1>10. WindowWithinLimit' /\ NoKeyNoCharge'
  <2>1. CASE key.present
    BY <1>1, <1>2, <1>5, <1>6, <1>7, <2>1 DEF WindowWithinLimit, NoKeyNoCharge, QTypes, KeyRecord
  <2>2. CASE ~key.present
    BY <1>1, <1>2, <1>5, <1>6, <1>7, <2>2 DEF WindowWithinLimit, NoKeyNoCharge
  <2> QED BY <2>1, <2>2
<1>11. OutstandingPaid'
  <2>1. p \notin Charged /\ p \in Charged'
    BY <1>2, <1>3, <1>8 DEF Charged
  <2>2. Outstanding \cap ({p} \X (1 .. Limit)) = {}
    BY <2>1 DEF Outstanding
  <2>3. Outstanding' \cap ({p} \X (1 .. Limit)) = {p} \X (1 .. c)
    BY <1>2, <1>3, <1>8, <2>1 DEF Outstanding
  <2>4. Outstanding' = Outstanding \cup ({p} \X (1 .. c)) /\ Outstanding \cap ({p} \X (1 .. c)) = {}
    BY <1>2, <1>8, <2>2, <2>3
  <2>5. IsFiniteSet({p} \X (1 .. c)) /\ Cardinality({p} \X (1 .. c)) = c
    BY <1>2, UnitsOfCall
  <2>6. /\ IsFiniteSet(Outstanding')
        /\ Cardinality(Outstanding') = Cardinality(Outstanding) + c - Cardinality({})
    BY <2>4, <2>5, FS_Union DEF OutstandingPaid
  <2>7. Cardinality({}) = 0 /\ Cardinality(Outstanding) \in Nat
    BY FS_EmptySet, FS_CardinalityType DEF OutstandingPaid
  <2> QED BY <1>1, <1>2, <2>6, <2>7 DEF OutstandingPaid, QTypes
<1> QED BY <1>9, <1>10, <1>11

\* The call succeeded, or its refund was followed by an EXPIRE.
LEMMA CallEndsPreserves ==
  ASSUME QInv, NEW p \in Poll, CallSucceeds(p) \/ Expire(p)
  PROVE  QInv'
<1> USE DEF QInv
<1>1. Asleep \in PollRecord /\ Asleep.at = "idle"
  BY QuotaBounds DEF Asleep, PollRecord
<1>2. poll' = [poll EXCEPT ![p] = Asleep] /\ UNCHANGED <<spent, late>>
  BY DEF CallSucceeds, Expire
<1>3. /\ poll' \in [Poll -> PollRecord] /\ Charged' = Charged \ {p}
      /\ Outstanding' = Outstanding \ ({p} \X (1 .. Limit))
  BY <1>1, <1>2, ChargeEnds
<1>4. /\ key' \in KeyRecord /\ key'.remaining = key.remaining /\ (key'.present <=> key.present)
      /\ stuck' \in BOOLEAN
  <2>1. CASE UNCHANGED key
    BY <2>1 DEF QTypes, CallSucceeds, Expire
  <2>2. CASE key' = [key EXCEPT !.expires = key.present] /\ UNCHANGED stuck
    <3> DEFINE e == key.present
               k == [key EXCEPT !.expires = e]
    <3>1. e \in BOOLEAN /\ key \in KeyRecord /\ key' = k
      BY <2>2 DEF QTypes, KeyRecord
    <3> HIDE DEF e
    <3>2. k \in KeyRecord /\ k.remaining = key.remaining /\ k.present = key.present
      BY <3>1 DEF KeyRecord
    <3> HIDE DEF k
    <3> QED BY <2>2, <3>1, <3>2
  <2> QED BY <2>1, <2>2 DEF CallSucceeds, Expire
<1>5. QTypes'
  BY <1>2, <1>3, <1>4 DEF QTypes
<1>6. WindowWithinLimit' /\ NoKeyNoCharge'
  BY <1>2, <1>3, <1>4 DEF WindowWithinLimit, NoKeyNoCharge
<1>7. OutstandingPaid'
  <2>1. /\ IsFiniteSet(Outstanding') /\ Cardinality(Outstanding') <= Cardinality(Outstanding)
        /\ Cardinality(Outstanding') \in Nat /\ Cardinality(Outstanding) \in Nat
    BY <1>3, FS_Subset, FS_CardinalityType DEF OutstandingPaid
  <2> QED BY <1>2, <2>1 DEF OutstandingPaid, QTypes
<1> QED BY <1>4, <1>5, <1>6, <1>7

\* A refund gives back what the call was charged, or adds to a later window.
LEMMA RefundPreserves ==
  ASSUME QInv, NEW p \in Poll, Refund(p)
  PROVE  QInv'
<1> USE DEF QInv
<1> DEFINE c == poll[p].cost
           x == [Asleep EXCEPT !.at = AfterRefund]
           e == key.present /\ key.expires
           k == [present |-> TRUE, expires |-> e, remaining |-> c + (IF key.present THEN key.remaining ELSE 0)]
<1>1. /\ poll[p].at = "calling" /\ poll[p] \in PollRecord /\ c \in 0 .. Limit /\ c \in Nat /\ UNCHANGED stuck
      /\ poll' = [poll EXCEPT ![p] = x] /\ key' = k
      /\ spent' = IF poll[p].old THEN spent ELSE spent - c
      /\ late' = IF poll[p].old THEN late + c ELSE late
  <2>1. poll[p] \in PollRecord /\ Limit \in Nat
    BY QuotaBounds DEF QTypes
  <2>2. c \in 0 .. Limit /\ c \in Nat
    BY <2>1 DEF PollRecord
  <2> QED BY <2>1, <2>2 DEF Refund
<1>2. x \in PollRecord /\ x.at # "calling"
  <2>1. AfterRefund \in {"idle", "expiring"} /\ 0 \in 0 .. Limit
    BY QuotaBounds DEF AfterRefund
  <2>2. ASSUME NEW a \in {"idle", "expiring"}
        PROVE  [Asleep EXCEPT !.at = a] \in PollRecord /\ [Asleep EXCEPT !.at = a].at = a
    BY <2>1 DEF Asleep, PollRecord
  <2> HIDE DEF c, e, k
  <2> QED BY <2>1, <2>2
<1>3. e \in BOOLEAN
  BY DEF QTypes, KeyRecord
<1> HIDE DEF c, x, e
<1>4. key.remaining \in Nat
  BY DEF QTypes, KeyRecord
<1>5. k \in KeyRecord /\ k.present /\ k.remaining = c + (IF key.present THEN key.remaining ELSE 0)
  BY <1>1, <1>3, <1>4 DEF KeyRecord
<1> HIDE DEF k
<1>6. /\ poll' \in [Poll -> PollRecord] /\ Charged' = Charged \ {p}
      /\ Outstanding' = Outstanding \ ({p} \X (1 .. Limit))
  BY <1>1, <1>2, ChargeEnds
<1>7. CASE poll[p].old
  <2>1. p \notin Charged /\ spent' = spent /\ late' = late + c
    BY <1>1, <1>7 DEF Charged
  <2>2. Outstanding' = Outstanding
    BY <1>6, <2>1 DEF Outstanding
  <2>3. QTypes' /\ stuck' \in BOOLEAN
    BY <1>1, <1>5, <1>6, <2>1 DEF QTypes
  <2>4. OutstandingPaid' /\ NoKeyNoCharge'
    BY <1>1, <1>5, <2>1, <2>2 DEF OutstandingPaid, NoKeyNoCharge
  <2>5. WindowWithinLimit'
    BY <1>1, <1>4, <1>5, <2>1, QuotaBounds DEF WindowWithinLimit, NoKeyNoCharge, QTypes
  <2> QED BY <2>3, <2>4, <2>5
<1>8. CASE ~poll[p].old
  <2>1. p \in Charged /\ spent' = spent - c /\ late' = late
    BY <1>1, <1>8 DEF Charged
  <2>2. key.present
    BY <2>1 DEF NoKeyNoCharge
  <2>3. Outstanding \cap ({p} \X (1 .. Limit)) = {p} \X (1 .. c)
    <3>1. Outstanding \cap ({p} \X (1 .. Limit)) \subseteq {p} \X (1 .. c)
      BY <1>1, QuotaBounds DEF Outstanding, c
    <3>2. ASSUME NEW i \in 1 .. c PROVE <<p, i>> \in Outstanding /\ i \in 1 .. Limit
      BY <1>1, <2>1, QuotaBounds DEF Outstanding, c
    <3> QED BY <3>1, <3>2
  <2>4. Outstanding = Outstanding' \cup ({p} \X (1 .. c)) /\ Outstanding' \cap ({p} \X (1 .. c)) = {}
    BY <1>6, <2>3
  <2>5. IsFiniteSet({p} \X (1 .. c)) /\ Cardinality({p} \X (1 .. c)) = c
    BY <1>1, UnitsOfCall
  <2>6. IsFiniteSet(Outstanding') /\ Cardinality(Outstanding') \in Nat
    BY <1>6, FS_Subset, FS_CardinalityType DEF OutstandingPaid
  <2>7. Cardinality(Outstanding) = Cardinality(Outstanding') + c - Cardinality({})
    BY <2>4, <2>5, <2>6, FS_Union
  <2>8. Cardinality(Outstanding') + c <= spent /\ Cardinality(Outstanding') <= spent - c /\ spent - c \in Nat
    BY <1>1, <2>6, <2>7, FS_EmptySet DEF OutstandingPaid, QTypes
  <2>9. QTypes' /\ stuck' \in BOOLEAN /\ OutstandingPaid' /\ NoKeyNoCharge'
    BY <1>1, <1>5, <1>6, <2>1, <2>6, <2>8 DEF QTypes, OutstandingPaid, NoKeyNoCharge
  <2>10. WindowWithinLimit'
    BY <1>1, <1>4, <1>5, <2>1, <2>2, QuotaBounds DEF WindowWithinLimit, QTypes
  <2> QED BY <2>9, <2>10
<1> QED BY <1>7, <1>8

\* Nothing is charged after the process dies, and nothing in a new window.
LEMMA WindowPreserves ==
  ASSUME QInv, PollerDies \/ WindowEnds
  PROVE  QInv'
<1> USE DEF QInv
<1>1. poll' \in [Poll -> PollRecord] /\ Charged' = {}
  <2>1. CASE PollerDies
    <3>1. Asleep \in PollRecord /\ Asleep.at = "idle"
      BY QuotaBounds DEF Asleep, PollRecord
    <3> QED BY <2>1, <3>1 DEF PollerDies, Charged
  <2>2. CASE WindowEnds
    <3>1. \A p \in Poll : poll[p] \in PollRecord /\ (poll[p].at = "calling") \in BOOLEAN
      BY DEF QTypes
    <3>2. ASSUME NEW p \in Poll
          PROVE  poll'[p] \in PollRecord /\ poll'[p].at = poll[p].at /\ (poll[p].at = "calling" => poll'[p].old)
      <4> DEFINE o == poll[p].at = "calling"
                 x == [poll[p] EXCEPT !.old = o]
      <4>1. o \in BOOLEAN /\ poll[p] \in PollRecord /\ poll'[p] = x
        BY <2>2, <3>1 DEF WindowEnds
      <4>2. poll[p].at = "calling" => o = TRUE
        OBVIOUS
      <4> HIDE DEF o
      <4>3. x \in PollRecord /\ x.at = poll[p].at /\ x.old = o
        BY <4>1 DEF PollRecord
      <4> HIDE DEF x
      <4> QED BY <4>1, <4>2, <4>3
    <3>3. poll' \in [Poll -> PollRecord]
      BY <2>2, <3>2 DEF WindowEnds
    <3> QED BY <3>2, <3>3 DEF Charged
  <2> QED BY <2>1, <2>2
<1>2. Outstanding' = {}
  BY <1>1 DEF Outstanding
<1>3. stuck' \in BOOLEAN
  BY DEF PollerDies, WindowEnds
<1>4. CASE PollerDies
  <2>1. UNCHANGED <<key, spent, late>>
    BY <1>4 DEF PollerDies
  <2>2. QTypes' /\ WindowWithinLimit' /\ NoKeyNoCharge'
    BY <1>1, <2>1 DEF QTypes, WindowWithinLimit, NoKeyNoCharge
  <2>3. OutstandingPaid'
    BY <1>2, <2>1, FS_EmptySet DEF OutstandingPaid, QTypes
  <2> QED BY <1>3, <2>2, <2>3
<1>5. CASE WindowEnds
  <2>1. key' = Gone /\ spent' = 0 /\ late' = 0 /\ Gone \in KeyRecord /\ ~Gone.present
    BY <1>5 DEF WindowEnds, Gone, KeyRecord
  <2>2. QTypes' /\ WindowWithinLimit' /\ NoKeyNoCharge'
    BY <1>1, <2>1 DEF QTypes, WindowWithinLimit, NoKeyNoCharge
  <2>3. OutstandingPaid'
    BY <1>2, <2>1, FS_EmptySet DEF OutstandingPaid
  <2> QED BY <1>3, <2>2, <2>3
<1> QED BY <1>4, <1>5

LEMMA QuotaInductive == QInv /\ [QuotaNext]_quotaVars => QInv'
<1> SUFFICES ASSUME QInv, [QuotaNext]_quotaVars PROVE QInv'
  OBVIOUS
<1>1. CASE UNCHANGED quotaVars
  BY <1>1 DEF QInv, QTypes, WindowWithinLimit, NoKeyNoCharge, Charged, OutstandingPaid, Outstanding, quotaVars
<1>2. CASE PollerDies \/ WindowEnds
  BY <1>2, WindowPreserves
<1>3. ASSUME NEW p \in Poll, Allow(p) \/ CallSucceeds(p) \/ Refund(p) \/ Expire(p) PROVE QInv'
  BY <1>3, AllowPreserves, CallEndsPreserves, RefundPreserves
<1> QED BY <1>1, <1>2, <1>3 DEF QuotaNext

LEMMA QInvIsSound == QInv => QuotaInv
BY DEF QInv, QTypes, KeyRecord, PollRecord, QuotaTypeOK, QuotaInv

\* What is admitted in a window and what remains of it stay within the limit:
\* for any limit, costs and number of polls.
THEOREM QuotaIsSound == QuotaSpec => []QuotaInv
<1>1. QuotaInit => QInv
  BY QuotaInitially
<1>2. QInv /\ [QuotaNext]_quotaVars => QInv'
  BY QuotaInductive
<1>3. QInv => QuotaInv
  BY QInvIsSound
<1> QED BY <1>1, <1>2, <1>3, PTL DEF QuotaSpec

-------------------------------------------------------------------------------
(* MailPolling.  A worker's cycle starts where everything is handled: what   *)
(* it took from the mailbox is handled, or still on its list.  So whatever   *)
(* position it writes at its end, nothing unhandled lies behind it, though   *)
(* the position may by then be older than the one it overwrites.             *)

WorkerRecord == [at : {"idle", "fetching", "working", "publishing"}, from : 0 .. MaxChanges,
                 newest : 0 .. MaxChanges, todo : Seq(Change)]

\* The changes that need no work any more.
Settled == {i \in DOMAIN mailbox : Unhandled(i) => i \in skipped \/ Vanished(mailbox[i].msg)}

\* What the cycle w took from the mailbox box is in the set s, or on its list.
CycleCovers(w, box, s) ==
  w.at # "idle" =>
    /\ w.from <= Len(box) /\ 1 .. w.from \subseteq s
    /\ w.at \in {"working", "publishing"} =>
         /\ w.newest <= Len(box)
         /\ \A i \in w.from + 1 .. w.newest : i \in s \/ \E k \in DOMAIN w.todo : w.todo[k] = box[i]

PollTypes ==
  /\ provider \in {"gmail", "outlook"}
  /\ mailbox \in Seq(Change) /\ Len(mailbox) <= MaxChanges
  /\ cursor \in 0 .. NoCursor /\ queue \in 0 .. QueueSize /\ failures \in 0 .. MaxFailures
  /\ rows \in [Message -> {"none", "stored", "deleted"}]
  /\ announced \subseteq Message /\ skipped \subseteq 1 .. MaxChanges
  /\ worker \in [Worker -> WorkerRecord]
PollFlags == expired \in BOOLEAN /\ due \in BOOLEAN /\ up \in BOOLEAN /\ died \in BOOLEAN
CyclesCover == \A w \in Worker : CycleCovers(worker[w], mailbox, Settled)
CursorSettled == cursor # NoCursor => cursor <= Len(mailbox) /\ 1 .. cursor \subseteq Settled
PublishingStored ==
  \A w \in Worker : worker[w].at = "publishing" =>
    /\ worker[w].todo # <<>> /\ Head(worker[w].todo).kind = "added"
    /\ rows[Head(worker[w].todo).msg] # "none"
\* The messages about to be announced.
Announcing == {m \in Message : \E w \in Worker : worker[w].at = "publishing" /\ Head(worker[w].todo).msg = m}
NewsGoesOut == failures = 0 /\ ~died => \A m \in Message : rows[m] # "none" => m \in announced \cup Announcing

PInv == PollTypes /\ PollFlags /\ CyclesCover /\ CursorSettled /\ PublishingStored /\ NewsGoesOut

LEMMA PollInitially == PollInit => PInv
<1> SUFFICES ASSUME PollInit PROVE PInv
  OBVIOUS
<1>1. Idle \in WorkerRecord /\ Idle.at = "idle"
  BY PollBounds DEF Idle, WorkerRecord
<1>2. PollTypes
  <2>1. mailbox = <<>> /\ Len(mailbox) = 0 /\ mailbox \in Seq(Change)
    BY DEF PollInit
  <2>2. NoCursor \in 0 .. NoCursor /\ 0 \in 0 .. QueueSize /\ 0 \in 0 .. MaxFailures /\ 0 <= MaxChanges
    BY PollBounds DEF NoCursor
  <2> QED BY <1>1, <2>1, <2>2 DEF PollInit, PollTypes
<1>4. PollFlags
  BY DEF PollInit, PollFlags
<1>3. CyclesCover /\ CursorSettled /\ PublishingStored /\ NewsGoesOut
  BY <1>1 DEF PollInit, CyclesCover, CycleCovers, CursorSettled, PublishingStored, NewsGoesOut
<1> QED BY <1>2, <1>3, <1>4 DEF PInv

\* What is settled stays settled: rows are never taken away, changes only
\* added to the mailbox.
LEMMA SettledStays ==
  ASSUME PollTypes, rows' \in [Message -> {"none", "stored", "deleted"}],
         \A m \in Message : rows'[m] = "none" => rows[m] = "none",
         mailbox' \in Seq(Change), Len(mailbox) <= Len(mailbox'),
         \A i \in 1 .. Len(mailbox) : mailbox'[i] = mailbox[i],
         skipped \subseteq skipped'
  PROVE  Settled \subseteq Settled'
<1>1. DOMAIN mailbox = 1 .. Len(mailbox) /\ DOMAIN mailbox' = 1 .. Len(mailbox') /\ Len(mailbox) \in Nat /\ Len(mailbox') \in Nat
  BY DEF PollTypes
<1>2. ASSUME NEW i \in Settled PROVE i \in Settled'
  <2>1. i \in DOMAIN mailbox /\ i \in DOMAIN mailbox' /\ mailbox'[i] = mailbox[i]
    BY <1>1, <1>2 DEF Settled
  <2>2. mailbox[i].msg \in Message /\ mailbox[i] \in Change
    <3>1. mailbox[i] \in Change
      BY <2>1, <1>1 DEF PollTypes
    <3> QED BY <3>1 DEF Change
  <2>3. Vanished(mailbox[i].msg) => Vanished(mailbox[i].msg)'
    <3>1. ASSUME NEW j \in DOMAIN mailbox, mailbox[j] = [kind |-> "deleted", msg |-> mailbox[i].msg]
          PROVE  j \in DOMAIN mailbox' /\ mailbox'[j] = [kind |-> "deleted", msg |-> mailbox'[i].msg]
      BY <1>1, <2>1, <3>1
    <3> QED BY <3>1 DEF Vanished
  <2> QED BY <1>2, <2>1, <2>2, <2>3 DEF Settled, Unhandled
<1> QED BY <1>2

\* A cycle covers what it covered when more is settled and the mailbox grows.
LEMMA CoversStill ==
  ASSUME NEW w \in WorkerRecord, NEW box \in Seq(Change), NEW larger \in Seq(Change), NEW s, NEW t,
         CycleCovers(w, box, s), s \subseteq t, Len(box) <= Len(larger),
         \A i \in 1 .. Len(box) : larger[i] = box[i]
  PROVE  CycleCovers(w, larger, t)
<1>1. w.from \in Nat /\ w.newest \in Nat /\ Len(box) \in Nat /\ Len(larger) \in Nat
  BY PollBounds DEF WorkerRecord
<1>2. CASE w.at \in {"working", "publishing"}
  <2>1. w.newest <= Len(box)
    BY <1>2 DEF CycleCovers
  <2>2. \A i \in w.from + 1 .. w.newest : i \in 1 .. Len(box)
    BY <1>1, <2>1
  <2> QED BY <1>1, <1>2, <2>1, <2>2 DEF CycleCovers
<1>3. CASE w.at \notin {"working", "publishing"}
  BY <1>1, <1>3 DEF CycleCovers
<1> QED BY <1>2, <1>3

\* The mailbox is left alone and no worker forgets what it is doing.
LEMMA CyclesGoOn ==
  ASSUME PInv, worker' \in [Worker -> WorkerRecord], mailbox' = mailbox, Settled \subseteq Settled',
         \A w \in Worker : worker'[w] = worker[w] \/ CycleCovers(worker'[w], mailbox, Settled')
  PROVE  CyclesCover'
<1>1. ASSUME NEW w \in Worker PROVE CycleCovers(worker'[w], mailbox', Settled')
  <2>1. CASE worker'[w] = worker[w]
    <3>1. worker[w] \in WorkerRecord /\ CycleCovers(worker[w], mailbox, Settled) /\ mailbox \in Seq(Change)
      BY DEF PInv, PollTypes, CyclesCover
    <3> QED BY <2>1, <3>1, CoversStill
  <2> QED BY <2>1
<1> QED BY <1>1 DEF CyclesCover

\* The steps that touch no worker.
LEMMA NoWorkerPreserves ==
  ASSUME PInv, CursorExpires \/ FullSync \/ IntervalElapses \/ Tick \/ Restart
  PROVE  PInv'
<1> USE DEF PInv
<1>1. UNCHANGED <<mailbox, worker, rows, announced, skipped, failures, died>>
  BY DEF CursorExpires, FullSync, IntervalElapses, Tick, Restart
<1>2. PollTypes'
  <2>1. UNCHANGED provider /\ cursor' \in 0 .. NoCursor /\ queue' \in 0 .. QueueSize
    BY PollBounds DEF PollTypes, CursorExpires, FullSync, IntervalElapses, Tick, Restart, Submit, NoCursor
  <2> QED BY <1>1, <2>1 DEF PollTypes, NoCursor
<1>6. PollFlags'
  BY <1>1 DEF PollFlags, CursorExpires, FullSync, IntervalElapses, Tick, Restart, Submit
<1>3. Settled' = Settled /\ Announcing' = Announcing
  BY <1>1 DEF Settled, Unhandled, Vanished, Announcing
<1>4. CyclesCover' /\ PublishingStored' /\ NewsGoesOut'
  BY <1>1, <1>3 DEF CyclesCover, PublishingStored, NewsGoesOut
<1>5. CursorSettled'
  <2>1. CASE FullSync
    BY <1>1, <2>1 DEF FullSync, CursorSettled
  <2>2. CASE ~FullSync
    BY <1>1, <1>3, <2>2 DEF CursorSettled, NoCursor, CursorExpires, IntervalElapses, Tick, Restart
  <2> QED BY <2>1, <2>2
<1> QED BY <1>2, <1>4, <1>5, <1>6

LEMMA MailboxPreserves ==
  ASSUME PInv, MailboxChanges
  PROVE  PInv'
<1> USE DEF PInv
<1>1. PICK c \in Change : mailbox' = Append(mailbox, c)
  <2>1. CASE \E m \in Message : ~Arrived(m)
    <3>1. Arriving \in Message
      BY <2>1 DEF Arriving
    <3> QED BY <3>1 DEF MailboxChanges, Change
  <2> QED BY <2>1 DEF MailboxChanges, Change
<1>2. /\ UNCHANGED <<provider, expired, cursor, due, queue, worker, up, rows, announced, skipped, failures, died>>
      /\ Len(mailbox) < MaxChanges
  BY DEF MailboxChanges
<1>3. /\ mailbox' \in Seq(Change) /\ Len(mailbox') = Len(mailbox) + 1 /\ mailbox \in Seq(Change)
      /\ \A i \in 1 .. Len(mailbox) : mailbox'[i] = mailbox[i]
      /\ Len(mailbox) \in Nat
  BY <1>1 DEF PollTypes
<1>4. PollTypes'
  BY <1>2, <1>3, PollBounds DEF PollTypes, NoCursor
<1>5. Settled \subseteq Settled'
  BY <1>2, <1>3, SettledStays DEF PollTypes
<1>9. PollFlags'
  BY <1>2 DEF PollFlags
<1>6. ASSUME NEW w \in Worker PROVE CycleCovers(worker'[w], mailbox', Settled')
  <2>1. worker[w] \in WorkerRecord /\ CycleCovers(worker[w], mailbox, Settled) /\ Len(mailbox) <= Len(mailbox')
    BY <1>3 DEF PollTypes, CyclesCover
  <2> QED BY <1>2, <1>3, <1>5, <2>1, CoversStill
<1>7. PublishingStored' /\ NewsGoesOut'
  BY <1>2 DEF PublishingStored, NewsGoesOut, Announcing
<1>8. CursorSettled'
  BY <1>2, <1>3, <1>5 DEF CursorSettled, PollTypes, NoCursor
<1> QED BY <1>4, <1>6, <1>7, <1>8, <1>9 DEF CyclesCover

\* The process dies: no worker is left.
LEMMA DiePreserves ==
  ASSUME PInv, Die, UNCHANGED <<provider, mailbox, expired, cursor, due, rows, announced, skipped>>,
         failures' \in 0 .. MaxFailures
  PROVE  PInv'
<1> USE DEF PInv
<1>1. Idle \in WorkerRecord /\ Idle.at = "idle"
  BY PollBounds DEF Idle, WorkerRecord
<1>2. /\ worker' \in [Worker -> WorkerRecord] /\ \A w \in Worker : worker'[w].at = "idle"
      /\ died' = TRUE /\ up' = FALSE /\ queue' = 0
  BY <1>1 DEF Die
<1>3. PollTypes'
  BY <1>2, PollBounds DEF PollTypes, NoCursor
<1>4. Settled' = Settled
  BY DEF Settled, Unhandled, Vanished
<1>5. PollFlags'
  BY <1>2 DEF PollFlags
<1>6. CyclesCover' /\ PublishingStored' /\ NewsGoesOut'
  BY <1>2 DEF CyclesCover, CycleCovers, PublishingStored, NewsGoesOut
<1>7. CursorSettled'
  BY <1>4 DEF CursorSettled, NoCursor
<1> QED BY <1>3, <1>5, <1>6, <1>7

\* A worker that is not publishing takes a step after which it is not either.
LEMMA PollWorkerMoves ==
  ASSUME PInv, NEW w \in Worker, NEW x \in WorkerRecord, worker' = [worker EXCEPT ![w] = x],
         worker[w].at # "publishing", x.at # "publishing",
         UNCHANGED <<mailbox, announced, died>>, failures' = 0 => failures = 0,
         rows' \in [Message -> {"none", "stored", "deleted"}],
         \A m \in Message : rows'[m] = "none" <=> rows[m] = "none",
         skipped \subseteq skipped', CycleCovers(x, mailbox, Settled')
  PROVE  worker' \in [Worker -> WorkerRecord] /\ CyclesCover' /\ PublishingStored' /\ NewsGoesOut'
<1> USE DEF PInv
<1>1. /\ worker' \in [Worker -> WorkerRecord] /\ worker'[w] = x
      /\ \A v \in Worker : v # w => worker'[v] = worker[v]
  BY DEF PollTypes
<1>2. Settled \subseteq Settled'
  BY SettledStays DEF PollTypes
<1>3. CyclesCover'
  BY <1>1, <1>2, CyclesGoOn
<1>4. PublishingStored'
  <2>1. ASSUME NEW v \in Worker, worker'[v].at = "publishing"
        PROVE  /\ worker'[v].todo # <<>> /\ Head(worker'[v].todo).kind = "added"
               /\ rows'[Head(worker'[v].todo).msg] # "none"
    <3>1. worker'[v] = worker[v] /\ worker[v].at = "publishing"
      BY <1>1, <2>1
    <3>2. worker[v].todo # <<>> /\ worker[v].todo \in Seq(Change)
      BY <3>1 DEF PublishingStored, PollTypes, WorkerRecord
    <3>3. Head(worker[v].todo) \in Change
      BY <3>2
    <3>4. Head(worker[v].todo).msg \in Message
      BY <3>3 DEF Change
    <3> QED BY <3>1, <3>4 DEF PublishingStored
  <2> QED BY <2>1 DEF PublishingStored
<1>5. Announcing \subseteq Announcing'
  BY <1>1 DEF Announcing
<1>6. NewsGoesOut'
  BY <1>5 DEF NewsGoesOut
<1> QED BY <1>1, <1>3, <1>4, <1>6

\* The head of a list is settled: the rest of the list is enough.
LEMMA TailCovers ==
  ASSUME NEW x \in WorkerRecord, x.at \in {"working", "publishing"}, x.todo # <<>>,
         NEW y \in WorkerRecord, y.at = "working", y.from = x.from, y.newest = x.newest, y.todo = Tail(x.todo),
         NEW box \in Seq(Change), NEW s, NEW t, CycleCovers(x, box, s), s \subseteq t,
         \A i \in 1 .. Len(box) : box[i] = Head(x.todo) => i \in t
  PROVE  CycleCovers(y, box, t)
<1>1. /\ x.from <= Len(box) /\ 1 .. x.from \subseteq s /\ x.newest <= Len(box)
      /\ \A i \in x.from + 1 .. x.newest : i \in s \/ \E k \in DOMAIN x.todo : x.todo[k] = box[i]
  BY DEF CycleCovers
<1>2. x.from \in Nat /\ x.newest \in Nat /\ x.todo \in Seq(Change) /\ Len(box) \in Nat
  BY PollBounds DEF WorkerRecord
<1>3. ASSUME NEW i \in x.from + 1 .. x.newest, i \notin t PROVE \E k \in DOMAIN y.todo : y.todo[k] = box[i]
  <2>1. PICK k \in DOMAIN x.todo : x.todo[k] = box[i]
    BY <1>1, <1>3
  <2>2. i \in 1 .. Len(box)
    BY <1>1, <1>2
  <2>3. k # 1
    BY <1>2, <1>3, <2>1, <2>2
  <2>4. k - 1 \in DOMAIN Tail(x.todo) /\ Tail(x.todo)[k - 1] = x.todo[k]
    BY <1>2, <2>1, <2>3
  <2> QED BY <2>1, <2>4
<1> QED BY <1>1, <1>3 DEF CycleCovers

LEMMA TakeJobPreserves ==
  ASSUME PInv, NEW w \in Worker, TakeJob(w)
  PROVE  PInv'
<1> USE DEF PInv
<1>1. /\ worker[w].at = "idle" /\ queue > 0 /\ queue' = queue - 1 /\ worker[w] \in WorkerRecord
      /\ UNCHANGED <<provider, mailbox, expired, cursor, due, up, rows, announced, skipped, failures, died>>
  BY DEF TakeJob, PollTypes
<1>2. Settled' = Settled
  BY <1>1 DEF Settled, Unhandled, Vanished
<1>3. queue' \in 0 .. QueueSize /\ PollFlags' /\ CursorSettled'
  BY <1>1, <1>2, PollBounds DEF PollTypes, PollFlags, CursorSettled, NoCursor
<1>4. worker' \in [Worker -> WorkerRecord] /\ CyclesCover' /\ PublishingStored' /\ NewsGoesOut'
  <2>1. CASE cursor = NoCursor
    <3>1. worker' = worker
      BY <2>1 DEF TakeJob
    <3> QED BY <1>1, <1>2, <3>1 DEF CyclesCover, PublishingStored, NewsGoesOut, Announcing, PollTypes
  <2>2. CASE cursor # NoCursor
    <3> DEFINE x == [Idle EXCEPT !.at = "fetching", !.from = cursor]
    <3>1. worker' = [worker EXCEPT ![w] = x] /\ cursor <= Len(mailbox) /\ 1 .. cursor \subseteq Settled
      BY <2>2 DEF TakeJob, CursorSettled
    <3>2. cursor \in 0 .. MaxChanges /\ 0 \in 0 .. MaxChanges
      BY <2>2, PollBounds DEF PollTypes, NoCursor
    <3>3. x \in WorkerRecord /\ x.at = "fetching" /\ x.from = cursor
      <4>1. <<>> \in Seq(Change)
        OBVIOUS
      <4>2. ASSUME NEW c \in 0 .. MaxChanges, NEW e \in Seq(Change), Idle = [at |-> "idle", from |-> 0, newest |-> 0, todo |-> e]
            PROVE  LET y == [Idle EXCEPT !.at = "fetching", !.from = c]
                   IN  y \in WorkerRecord /\ y.at = "fetching" /\ y.from = c
        BY <3>2, <4>2 DEF WorkerRecord
      <4> QED BY <3>2, <4>1, <4>2 DEF Idle
    <3> HIDE DEF x
    <3>4. CycleCovers(x, mailbox, Settled')
      BY <1>2, <3>1, <3>3 DEF CycleCovers
    <3> QED BY <1>1, <3>1, <3>3, <3>4, PollWorkerMoves DEF PollTypes
  <2> QED BY <2>1, <2>2
<1>5. PollTypes'
  BY <1>1, <1>3, <1>4 DEF PollTypes, NoCursor
<1> QED BY <1>3, <1>4, <1>5

\* A position is written and every change up to it that is not handled logged.
LEMMA PassSettles ==
  ASSUME PInv, NEW from \in 0 .. MaxChanges, NEW to \in 0 .. MaxChanges, to <= Len(mailbox), 1 .. from \subseteq Settled,
         UNCHANGED <<mailbox, rows>>, skipped' = Pass(from, to)
  PROVE  skipped \subseteq skipped' /\ skipped' \subseteq 1 .. MaxChanges /\ 1 .. to \subseteq Settled'
<1> USE DEF PInv
<1>1. skipped \subseteq skipped' /\ skipped' \subseteq 1 .. MaxChanges
  <2>1. \A i \in from + 1 .. to : i \in 1 .. MaxChanges
    BY PollBounds
  <2> QED BY <2>1 DEF Pass, PollTypes
<1>2. Settled \subseteq Settled'
  BY <1>1, SettledStays DEF PollTypes
<1>3. ASSUME NEW i \in 1 .. to, i \notin 1 .. from PROVE i \in Settled'
  <2>1. i \in from + 1 .. to /\ i \in DOMAIN mailbox
    BY <1>3, PollBounds DEF PollTypes
  <2>2. Unhandled(i)' => i \in skipped'
    BY <2>1 DEF Unhandled, Pass
  <2> QED BY <2>1, <2>2 DEF Settled
<1> QED BY <1>1, <1>2, <1>3

\* A cycle ends: refused, or with a position written, or not written.
LEMMA RestPreserves ==
  ASSUME PInv, NEW w \in Worker, Rest(w), worker[w].at # "publishing",
         UNCHANGED <<provider, mailbox, expired, due, queue, up, rows, announced, died>>,
         failures' = 0 => failures = 0, failures' \in 0 .. MaxFailures,
         skipped \subseteq skipped', skipped' \subseteq 1 .. MaxChanges,
         cursor' = cursor \/ (cursor' \in 0 .. MaxChanges /\ cursor' <= Len(mailbox) /\ 1 .. cursor' \subseteq Settled')
  PROVE  PInv'
<1> USE DEF PInv
<1>1. Idle \in WorkerRecord /\ Idle.at = "idle"
  BY PollBounds DEF Idle, WorkerRecord
<1>2. Settled \subseteq Settled'
  BY SettledStays DEF PollTypes
<1>3. CycleCovers(Idle, mailbox, Settled')
  BY <1>1 DEF CycleCovers
<1>4. worker' \in [Worker -> WorkerRecord] /\ CyclesCover' /\ PublishingStored' /\ NewsGoesOut'
  BY <1>1, <1>3, PollWorkerMoves DEF PollTypes, Rest
<1>5. cursor' \in 0 .. NoCursor /\ CursorSettled'
  BY <1>2, PollBounds DEF PollTypes, CursorSettled, NoCursor
<1>6. PollTypes' /\ PollFlags'
  BY <1>4, <1>5 DEF PollTypes, PollFlags, NoCursor
<1> QED BY <1>4, <1>5, <1>6

LEMMA FetchEndsPreserves ==
  ASSUME PInv, NEW w \in Worker, FetchRefused(w) \/ PageFails(w)
  PROVE  PInv'
<1> USE DEF PInv
<1>1. /\ worker[w].at = "fetching" /\ worker[w] \in WorkerRecord /\ CycleCovers(worker[w], mailbox, Settled)
      /\ UNCHANGED <<provider, mailbox, expired, due, queue, up, rows, announced, died>> /\ Rest(w)
  BY DEF FetchRefused, PageFails, PollTypes, CyclesCover
<1>2. failures' \in 0 .. MaxFailures /\ (failures' = 0 => failures = 0)
  BY PollBounds DEF FetchRefused, PageFails, Fails, PollTypes
<1>3. CASE FetchRefused(w)
  <2>1. UNCHANGED <<cursor, skipped>>
    BY <1>3 DEF FetchRefused
  <2> QED BY <1>1, <1>2, <2>1, RestPreserves DEF PollTypes
<1>4. CASE PageFails(w)
  <2>1. cursor' = Len(mailbox) /\ skipped' = Pass(worker[w].from, Len(mailbox)) /\ Len(mailbox) \in 0 .. MaxChanges
    BY <1>4 DEF PageFails, PollTypes
  <2>2. worker[w].from \in 0 .. MaxChanges /\ 1 .. worker[w].from \subseteq Settled
    BY <1>1 DEF CycleCovers, WorkerRecord
  <2>3. skipped \subseteq skipped' /\ skipped' \subseteq 1 .. MaxChanges /\ 1 .. cursor' \subseteq Settled'
    BY <1>1, <2>1, <2>2, PassSettles
  <2> QED BY <1>1, <1>2, <2>1, <2>3, RestPreserves
<1> QED BY <1>3, <1>4

\* An answer reports every change after the position, except those of messages
\* that are gone by now.
LEMMA BatchIsComplete ==
  ASSUME PollTypes, NEW from \in 0 .. MaxChanges, NEW todo \in Batch(from)
  PROVE  /\ todo \in Seq(Change)
         /\ \A i \in from + 1 .. Len(mailbox) : i \in Settled \/ \E k \in DOMAIN todo : todo[k] = mailbox[i]
<1> DEFINE new == {i \in from + 1 .. Len(mailbox) : Returned(i)}
<1>1. Len(mailbox) \in Nat /\ DOMAIN mailbox = 1 .. Len(mailbox) /\ mailbox \in Seq(Change)
      /\ provider \in {"gmail", "outlook"} /\ from + 1 \in Nat
  BY PollBounds DEF PollTypes
<1>2. IsFiniteSet(new)
  <2>1. IsFiniteSet(from + 1 .. Len(mailbox)) /\ new \subseteq from + 1 .. Len(mailbox)
    BY <1>1, FS_Interval
  <2> HIDE DEF new
  <2> QED BY <2>1, FS_Subset
<1>3. PICK s \in SetToSeqs(new) : todo = [k \in DOMAIN s |-> mailbox[s[k]]]
  BY DEF Batch
<1>4. s \in Seq(new) /\ ToSet(s) = new
  BY <1>2, <1>3, SeqsOfSet
<1>5. \A i \in new : i \in DOMAIN mailbox /\ mailbox[i] \in Change
  BY <1>1
<1>6. todo \in Seq(Change) /\ DOMAIN todo = DOMAIN s
  <2>1. DOMAIN s = 1 .. Len(s) /\ Len(s) \in Nat /\ \A k \in DOMAIN s : s[k] \in new
    BY <1>4
  <2> HIDE DEF new
  <2>2. \A k \in 1 .. Len(s) : mailbox[s[k]] \in Change
    BY <1>5, <2>1
  <2> QED BY <1>3, <2>1, <2>2
<1>7. ASSUME NEW i \in from + 1 .. Len(mailbox), i \notin Settled PROVE \E k \in DOMAIN todo : todo[k] = mailbox[i]
  <2>1. i \in new
    <3>1. i \in DOMAIN mailbox
      BY <1>1
    <3> QED BY <1>1, <1>7, <3>1 DEF Settled, Unhandled, Returned
  <2>2. PICK k \in DOMAIN s : s[k] = i
    BY <1>4, <2>1 DEF ToSet
  <2> QED BY <1>3, <1>6, <2>2
<1> QED BY <1>6, <1>7

LEMMA FetchedPreserves ==
  ASSUME PInv, NEW w \in Worker, Fetched(w)
  PROVE  PInv'
<1> USE DEF PInv
<1>1. /\ worker[w].at = "fetching" /\ worker[w] \in WorkerRecord /\ CycleCovers(worker[w], mailbox, Settled)
      /\ UNCHANGED <<provider, mailbox, expired, cursor, due, queue, up, rows, announced, skipped, failures, died>>
  BY DEF Fetched, PollTypes, CyclesCover
<1>2. PICK todo \in Batch(worker[w].from) :
        worker' = [worker EXCEPT ![w] = [@ EXCEPT !.at = "working", !.newest = Newest(w), !.todo = todo]]
  BY DEF Fetched
<1> DEFINE x == [worker[w] EXCEPT !.at = "working", !.newest = Len(mailbox), !.todo = todo]
<1>3. worker' = [worker EXCEPT ![w] = x]
  BY <1>2 DEF Newest
<1>4. worker[w].from \in 0 .. MaxChanges /\ Len(mailbox) \in 0 .. MaxChanges
  BY <1>1 DEF WorkerRecord, PollTypes
<1>5. /\ todo \in Seq(Change)
      /\ \A i \in worker[w].from + 1 .. Len(mailbox) : i \in Settled \/ \E k \in DOMAIN todo : todo[k] = mailbox[i]
  BY <1>2, <1>4, BatchIsComplete
<1>6. /\ x \in WorkerRecord /\ x.at = "working" /\ x.from = worker[w].from /\ x.newest = Len(mailbox)
      /\ x.todo = todo
  BY <1>1, <1>4, <1>5 DEF WorkerRecord
<1> HIDE DEF x
<1>7. Settled' = Settled
  BY <1>1 DEF Settled, Unhandled, Vanished
<1>8. CycleCovers(x, mailbox, Settled')
  BY <1>1, <1>4, <1>5, <1>6, <1>7 DEF CycleCovers
<1>9. worker' \in [Worker -> WorkerRecord] /\ CyclesCover' /\ PublishingStored' /\ NewsGoesOut'
  BY <1>1, <1>3, <1>6, <1>8, PollWorkerMoves DEF PollTypes
<1>10. PollTypes' /\ PollFlags' /\ CursorSettled'
  BY <1>1, <1>7, <1>9 DEF PollTypes, PollFlags, CursorSettled, NoCursor
<1> QED BY <1>9, <1>10

\* A worker crosses a settled change off its list.
LEMMA AdvancePreserves ==
  ASSUME PInv, NEW w \in Worker, worker[w].at = "working", worker[w].todo # <<>>, Advance(w),
         UNCHANGED <<provider, mailbox, expired, cursor, due, queue, up, announced, died>>,
         failures' = 0 => failures = 0, failures' \in 0 .. MaxFailures,
         rows' \in [Message -> {"none", "stored", "deleted"}],
         \A m \in Message : rows'[m] = "none" <=> rows[m] = "none",
         skipped \subseteq skipped', skipped' \subseteq 1 .. MaxChanges,
         \A i \in 1 .. Len(mailbox) : mailbox[i] = Next1(w) => i \in Settled'
  PROVE  PInv'
<1> USE DEF PInv
<1> DEFINE x == [worker[w] EXCEPT !.todo = Tail(worker[w].todo)]
<1>1. worker[w] \in WorkerRecord /\ CycleCovers(worker[w], mailbox, Settled) /\ mailbox \in Seq(Change)
  BY DEF PollTypes, CyclesCover
<1>2. worker[w].todo \in Seq(Change) /\ Tail(worker[w].todo) \in Seq(Change)
  BY <1>1 DEF WorkerRecord
<1>3. worker' = [worker EXCEPT ![w] = x]
  BY DEF Advance
<1>4. /\ x \in WorkerRecord /\ x.at = "working" /\ x.from = worker[w].from /\ x.newest = worker[w].newest
      /\ x.todo = Tail(worker[w].todo)
  BY <1>1, <1>2 DEF WorkerRecord
<1> HIDE DEF x
<1>5. Settled \subseteq Settled'
  BY SettledStays DEF PollTypes
<1>6. CycleCovers(x, mailbox, Settled')
  BY <1>1, <1>4, <1>5, TailCovers DEF Next1
<1>7. worker' \in [Worker -> WorkerRecord] /\ CyclesCover' /\ PublishingStored' /\ NewsGoesOut'
  BY <1>3, <1>4, <1>6, PollWorkerMoves
<1>8. PollTypes' /\ PollFlags' /\ CursorSettled'
  BY <1>5, <1>7 DEF PollTypes, PollFlags, CursorSettled, NoCursor
<1> QED BY <1>7, <1>8

LEMMA DeletedPreserves ==
  ASSUME PInv, NEW w \in Worker, worker[w].at = "working", worker[w].todo # <<>>, HandleMessageDeleted(w),
         UNCHANGED <<provider, mailbox, expired, due>>
  PROVE  PInv'
<1> USE DEF PInv
<1>1. /\ Next1(w).kind = "deleted" /\ Advance(w) /\ UNCHANGED <<cursor, up, queue, announced, died>>
      /\ \/ rows' = MarkDeleted(Next1(w).msg) /\ UNCHANGED <<skipped, failures>>
         \/ /\ Fails /\ UNCHANGED rows
            /\ skipped' = skipped \cup {i \in DOMAIN mailbox : mailbox[i] = Next1(w)}
  BY DEF HandleMessageDeleted
<1>2. \A m \in Message : rows[m] \in {"none", "stored", "deleted"}
  BY DEF PollTypes
<1>3. rows' \in [Message -> {"none", "stored", "deleted"}] /\ \A m \in Message : rows'[m] = "none" <=> rows[m] = "none"
  <2>1. CASE rows' = MarkDeleted(Next1(w).msg)
    <3>1. ASSUME NEW m \in Message
          PROVE  (rows'[m] = "deleted" /\ rows[m] = "stored") \/ rows'[m] = rows[m]
      BY <2>1 DEF MarkDeleted
    <3> QED BY <1>2, <2>1, <3>1 DEF MarkDeleted
  <2>2. CASE UNCHANGED rows
    BY <2>2 DEF PollTypes
  <2> QED BY <1>1, <2>1, <2>2
<1>4. /\ skipped \subseteq skipped' /\ skipped' \subseteq 1 .. MaxChanges
      /\ (failures' = 0 => failures = 0) /\ failures' \in 0 .. MaxFailures
  <2>1. (failures' = 0 => failures = 0) /\ failures' \in 0 .. MaxFailures
    BY <1>1, PollBounds DEF PollTypes, Fails
  <2>2. \A i \in DOMAIN mailbox : i \in 1 .. MaxChanges
    BY PollBounds DEF PollTypes
  <2>3. skipped \subseteq skipped' /\ skipped' \subseteq 1 .. MaxChanges
    BY <1>1, <2>2 DEF PollTypes
  <2> QED BY <2>1, <2>3
<1>5. ASSUME NEW i \in 1 .. Len(mailbox), mailbox[i] = Next1(w) PROVE i \in Settled'
  <2>1. i \in DOMAIN mailbox' /\ mailbox'[i].kind = "deleted"
    BY <1>1, <1>5 DEF PollTypes
  <2> QED BY <2>1 DEF Settled, Unhandled
<1> QED BY <1>1, <1>3, <1>4, <1>5, AdvancePreserves

LEMMA PollPersistPreserves ==
  ASSUME PInv, NEW w \in Worker, worker[w].at = "working", worker[w].todo # <<>>, Persist(w),
         UNCHANGED <<provider, mailbox, expired, due>>
  PROVE  PInv'
<1> USE DEF PInv
<1> DEFINE m == Head(worker[w].todo).msg
<1>1. /\ Head(worker[w].todo).kind = "added" /\ UNCHANGED <<cursor, up, queue, announced, skipped, failures, died>>
      /\ IF rows[m] = "none" THEN rows' = [rows EXCEPT ![m] = "stored"] /\ Inserted(w)
                             ELSE UNCHANGED rows /\ Advance(w)
  BY DEF Persist, Next1
<1>2. /\ worker[w] \in WorkerRecord /\ worker[w].todo \in Seq(Change) /\ m \in Message
      /\ CycleCovers(worker[w], mailbox, Settled)
  <2>1. worker[w] \in WorkerRecord /\ CycleCovers(worker[w], mailbox, Settled)
    BY DEF PollTypes, CyclesCover
  <2>2. worker[w].todo \in Seq(Change)
    BY <2>1 DEF WorkerRecord
  <2>3. Head(worker[w].todo) \in Change
    BY <2>2
  <2> QED BY <2>1, <2>2, <2>3 DEF Change
<1>3. CASE rows[m] # "none"
  <2>1. ASSUME NEW i \in 1 .. Len(mailbox), mailbox[i] = Next1(w) PROVE i \in Settled'
    <3>1. i \in DOMAIN mailbox' /\ mailbox'[i].msg = m /\ rows'[m] # "none"
      BY <1>1, <1>3, <2>1 DEF PollTypes, Next1
    <3> QED BY <3>1 DEF Settled, Unhandled
  <2> QED BY <1>1, <1>3, <2>1, AdvancePreserves DEF PollTypes
<1>4. CASE rows[m] = "none"
  <2> DEFINE x == [worker[w] EXCEPT !.at = "publishing"]
  <2>1. worker' = [worker EXCEPT ![w] = x] /\ rows' = [rows EXCEPT ![m] = "stored"]
    BY <1>1, <1>4 DEF Inserted
  <2>2. /\ x \in WorkerRecord /\ x.at = "publishing" /\ x.todo = worker[w].todo
        /\ x.from = worker[w].from /\ x.newest = worker[w].newest
    BY <1>2 DEF WorkerRecord
  <2> HIDE DEF x, m
  <2>3. /\ worker' \in [Worker -> WorkerRecord] /\ worker'[w] = x
        /\ \A v \in Worker : v # w => worker'[v] = worker[v]
    BY <2>1, <2>2 DEF PollTypes
  <2>4. /\ rows' \in [Message -> {"none", "stored", "deleted"}] /\ rows'[m] = "stored"
        /\ \A k \in Message : k # m => rows'[k] = rows[k]
    BY <1>2, <2>1 DEF PollTypes
  <2>5. Settled \subseteq Settled'
    <3>1. \A k \in Message : rows'[k] = "none" => rows[k] = "none"
      BY <2>4
    <3> QED BY <1>1, <2>4, <3>1, SettledStays DEF PollTypes
  <2>6. CycleCovers(x, mailbox, Settled')
    BY <1>2, <2>2, <2>5 DEF CycleCovers
  <2>7. CyclesCover'
    BY <2>3, <2>5, <2>6, CyclesGoOn
  <2>8. PublishingStored'
    <3>1. ASSUME NEW v \in Worker, worker'[v].at = "publishing"
          PROVE  /\ worker'[v].todo # <<>> /\ Head(worker'[v].todo).kind = "added"
                 /\ rows'[Head(worker'[v].todo).msg] # "none"
      <4>1. CASE v = w
        BY <1>1, <2>2, <2>3, <2>4, <4>1 DEF m
      <4>2. CASE v # w
        <5>1. worker'[v] = worker[v] /\ worker[v].todo # <<>> /\ worker[v].todo \in Seq(Change)
          BY <2>3, <3>1, <4>2 DEF PublishingStored, PollTypes, WorkerRecord
        <5>2. Head(worker[v].todo) \in Change
          BY <5>1
        <5>3. Head(worker[v].todo).msg \in Message
          BY <5>2 DEF Change
        <5>4. rows[Head(worker[v].todo).msg] # "none" /\ Head(worker[v].todo).kind = "added"
          BY <3>1, <5>1 DEF PublishingStored
        <5> QED BY <2>4, <5>1, <5>3, <5>4
      <4> QED BY <4>1, <4>2
    <3> QED BY <3>1 DEF PublishingStored
  <2>9. NewsGoesOut'
    <3>1. Announcing \cup {m} \subseteq Announcing'
      BY <1>2, <2>2, <2>3 DEF Announcing, m
    <3> QED BY <1>1, <2>4, <3>1 DEF NewsGoesOut
  <2>10. PollTypes' /\ PollFlags' /\ CursorSettled'
    BY <1>1, <2>3, <2>4, <2>5 DEF PollTypes, PollFlags, CursorSettled, NoCursor
  <2> QED BY <2>7, <2>8, <2>9, <2>10
<1> QED BY <1>3, <1>4

LEMMA PollPublishPreserves ==
  ASSUME PInv, NEW w \in Worker, Publish(w)
  PROVE  PInv'
<1> USE DEF PInv
<1> DEFINE m == Head(worker[w].todo).msg
           x == [worker[w] EXCEPT !.at = "working", !.todo = Tail(worker[w].todo)]
<1>1. /\ worker[w].at = "publishing" /\ worker' = [worker EXCEPT ![w] = x]
      /\ \/ announced' = announced \cup {m} /\ UNCHANGED failures
         \/ Fails /\ UNCHANGED announced
      /\ UNCHANGED <<provider, mailbox, expired, cursor, due, queue, up, rows, skipped, died>>
  <2>1. /\ worker[w].at = "publishing"
        /\ \/ announced' = announced \cup {m} /\ UNCHANGED failures
           \/ Fails /\ UNCHANGED announced
        /\ UNCHANGED <<provider, mailbox, expired, cursor, due, queue, up, rows, skipped, died>>
    BY DEF Publish, Next1
  <2>2. worker[w] \in WorkerRecord /\ worker' = [worker EXCEPT ![w] = x]
    BY DEF Publish, PollTypes, WorkerRecord
  <2> QED BY <2>1, <2>2
<1>2. /\ worker[w] \in WorkerRecord /\ worker[w].todo \in Seq(Change) /\ worker[w].todo # <<>>
      /\ CycleCovers(worker[w], mailbox, Settled) /\ rows[m] # "none"
  BY <1>1 DEF PollTypes, CyclesCover, WorkerRecord, PublishingStored
<1>3. m \in Message
  <2>1. Head(worker[w].todo) \in Change
    BY <1>2
  <2> QED BY <2>1 DEF Change
<1>4. Tail(worker[w].todo) \in Seq(Change)
  BY <1>2
<1>5. /\ x \in WorkerRecord /\ x.at = "working" /\ x.from = worker[w].from /\ x.newest = worker[w].newest
      /\ x.todo = Tail(worker[w].todo)
  BY <1>2, <1>4 DEF WorkerRecord
<1> HIDE DEF x
<1>6. /\ worker' \in [Worker -> WorkerRecord] /\ worker'[w] = x
      /\ \A v \in Worker : v # w => worker'[v] = worker[v]
  BY <1>1, <1>5 DEF PollTypes
<1>7. Settled' = Settled
  BY <1>1 DEF Settled, Unhandled, Vanished
<1>8. CyclesCover'
  <2>1. ASSUME NEW i \in 1 .. Len(mailbox), mailbox[i] = Head(worker[w].todo) PROVE i \in Settled
    <3>1. i \in DOMAIN mailbox /\ mailbox[i].msg = m
      BY <2>1 DEF PollTypes
    <3> QED BY <1>2, <3>1 DEF Settled, Unhandled
  <2>2. CycleCovers(x, mailbox, Settled')
    BY <1>1, <1>2, <1>5, <1>7, <2>1, TailCovers DEF PollTypes
  <2> QED BY <1>1, <1>6, <1>7, <2>2, CyclesGoOn
<1>9. PublishingStored'
  BY <1>1, <1>5, <1>6 DEF PublishingStored
<1>10. failures' \in 0 .. MaxFailures /\ announced' \subseteq Message
  BY <1>1, <1>3, PollBounds DEF PollTypes, Fails
<1>11. NewsGoesOut'
  <2>1. CASE Fails
    <3>1. failures' # 0
      BY <2>1 DEF Fails, PollTypes
    <3> QED BY <3>1 DEF NewsGoesOut
  <2>2. CASE announced' = announced \cup {m} /\ UNCHANGED failures
    <3>1. Announcing \subseteq Announcing' \cup {m}
      BY <1>6 DEF Announcing
    <3> QED BY <1>1, <2>2, <3>1 DEF NewsGoesOut
  <2> QED BY <1>1, <2>1, <2>2
<1>12. PollTypes' /\ PollFlags' /\ CursorSettled'
  BY <1>1, <1>6, <1>7, <1>10 DEF PollTypes, PollFlags, CursorSettled, NoCursor
<1> QED BY <1>8, <1>9, <1>11, <1>12

LEMMA MessageFailsPreserves ==
  ASSUME PInv, NEW w \in Worker, worker[w].at = "working", MessageFails(w),
         UNCHANGED <<provider, mailbox, expired, due>>
  PROVE  PInv'
<1> USE DEF PInv
<1>1. /\ Fails /\ Rest(w) /\ UNCHANGED <<up, queue, rows, announced, died>>
      /\ \/ cursor' = worker[w].newest /\ skipped' = Pass(worker[w].from, worker[w].newest)
         \/ UNCHANGED <<cursor, skipped>>
  BY DEF MessageFails
<1>2. failures' \in 0 .. MaxFailures /\ (failures' = 0 => failures = 0)
  BY <1>1, PollBounds DEF Fails, PollTypes
<1>3. /\ worker[w].from \in 0 .. MaxChanges /\ worker[w].newest \in 0 .. MaxChanges
      /\ worker[w].newest <= Len(mailbox) /\ 1 .. worker[w].from \subseteq Settled
  BY DEF PollTypes, WorkerRecord, CyclesCover, CycleCovers
<1>4. CASE cursor' = worker[w].newest /\ skipped' = Pass(worker[w].from, worker[w].newest)
  <2>1. skipped \subseteq skipped' /\ skipped' \subseteq 1 .. MaxChanges /\ 1 .. worker[w].newest \subseteq Settled'
    BY <1>1, <1>3, <1>4, PassSettles
  <2> QED BY <1>1, <1>2, <1>3, <1>4, <2>1, RestPreserves
<1>5. CASE UNCHANGED <<cursor, skipped>>
  BY <1>1, <1>2, <1>5, RestPreserves DEF PollTypes
<1> QED BY <1>1, <1>4, <1>5

\* The list is empty: everything up to the position the answer carried is settled.
LEMMA FinishPreserves ==
  ASSUME PInv, NEW w \in Worker, Finish(w)
  PROVE  PInv'
<1> USE DEF PInv
<1>1. /\ worker[w].at = "working" /\ worker[w].todo = <<>> /\ Rest(w)
      /\ \/ cursor' = worker[w].newest /\ UNCHANGED failures
         \/ Fails /\ UNCHANGED cursor
      /\ UNCHANGED <<provider, mailbox, expired, due, queue, up, rows, announced, skipped, died>>
  BY DEF Finish, Ready
<1>2. failures' \in 0 .. MaxFailures /\ (failures' = 0 => failures = 0)
  BY <1>1, PollBounds DEF Fails, PollTypes
<1>3. worker[w] \in WorkerRecord /\ CycleCovers(worker[w], mailbox, Settled)
  BY DEF PollTypes, CyclesCover
<1>4. /\ worker[w].from \in 0 .. MaxChanges /\ worker[w].newest \in 0 .. MaxChanges
      /\ worker[w].newest <= Len(mailbox) /\ 1 .. worker[w].from \subseteq Settled
      /\ worker[w].from + 1 .. worker[w].newest \subseteq Settled
  BY <1>1, <1>3 DEF WorkerRecord, CycleCovers
<1>5. 1 .. worker[w].newest \subseteq Settled
  <2>1. ASSUME NEW i \in 1 .. worker[w].newest PROVE i \in 1 .. worker[w].from \/ i \in worker[w].from + 1 .. worker[w].newest
    BY <1>4, PollBounds
  <2> QED BY <1>4, <2>1
<1>6. Settled' = Settled
  BY <1>1 DEF Settled, Unhandled, Vanished
<1> QED BY <1>1, <1>2, <1>4, <1>5, <1>6, RestPreserves DEF PollTypes

LEMMA ProcessNextPreserves ==
  ASSUME PInv, NEW w \in Worker, ProcessNext(w)
  PROVE  PInv'
<1>1. /\ worker[w].at = "working" /\ worker[w].todo # <<>> /\ UNCHANGED <<provider, mailbox, expired, due>>
      /\ HandleMessageDeleted(w) \/ Persist(w) \/ MessageFails(w) \/ NilMessage(w)
  BY DEF ProcessNext
<1>2. CASE NilMessage(w)
  <2>1. Die /\ UNCHANGED <<cursor, rows, announced, skipped, failures>> /\ failures \in 0 .. MaxFailures
    BY <1>2 DEF NilMessage, PInv, PollTypes
  <2> QED BY <1>1, <2>1, DiePreserves
<1> QED BY <1>1, <1>2, DeletedPreserves, PollPersistPreserves, MessageFailsPreserves

LEMMA CrashPreserves == PInv /\ Crash => PInv'
<1> SUFFICES ASSUME PInv, Crash PROVE PInv'
  OBVIOUS
<1>1. Die /\ UNCHANGED <<provider, mailbox, expired, cursor, due, rows, announced, skipped>>
  BY DEF Crash
<1>2. failures' \in 0 .. MaxFailures
  BY PollBounds DEF Crash, Fails, PInv, PollTypes
<1> QED BY <1>1, <1>2, DiePreserves

LEMMA PollInductive == PInv /\ [PollNext]_pollVars => PInv'
<1> SUFFICES ASSUME PInv, [PollNext]_pollVars PROVE PInv'
  OBVIOUS
<1>1. CASE UNCHANGED pollVars
  <2>1. Settled' = Settled /\ Announcing' = Announcing
    BY <1>1 DEF pollVars, Settled, Unhandled, Vanished, Announcing
  <2>2. PollTypes' /\ PollFlags'
    BY <1>1 DEF pollVars, PInv, PollTypes, PollFlags, NoCursor
  <2>3. CyclesCover' /\ CursorSettled' /\ PublishingStored' /\ NewsGoesOut'
    BY <1>1, <2>1 DEF pollVars, PInv, CyclesCover, CursorSettled, PublishingStored, NewsGoesOut, NoCursor
  <2> QED BY <2>2, <2>3 DEF PInv
<1>2. CASE CursorExpires \/ FullSync \/ IntervalElapses \/ Tick \/ Restart
  BY <1>2, NoWorkerPreserves
<1>3. CASE MailboxChanges
  BY <1>3, MailboxPreserves
<1>4. CASE Crash
  BY <1>4, CrashPreserves
<1>5. ASSUME NEW w \in Worker, Work(w) PROVE PInv'
  <2>1. CASE Fetch(w)
    BY <2>1, FetchEndsPreserves, FetchedPreserves DEF Fetch
  <2> QED BY <1>5, <2>1, TakeJobPreserves, ProcessNextPreserves, PollPublishPreserves, FinishPreserves DEF Work
<1> QED BY <1>1, <1>2, <1>3, <1>4, <1>5 DEF PollNext

LEMMA PInvIsSound == PInv => PollInv
<1> SUFFICES ASSUME PInv PROVE PollInv
  OBVIOUS
<1> USE DEF PInv
<1>1. PollTypeOK
  <2>1. ASSUME NEW w \in Worker PROVE worker[w] \in WorkerRecord
    BY DEF PollTypes
  <2>2. \A w \in Worker :
          /\ worker[w].at \in {"idle", "fetching", "working", "publishing"}
          /\ worker[w].from \in 0 .. MaxChanges /\ worker[w].newest \in 0 .. MaxChanges
          /\ worker[w].todo \in Seq(Change)
    BY <2>1 DEF WorkerRecord
  <2> QED BY <2>2 DEF PollTypes, PollFlags, PollTypeOK
<1>2. CursorIsCovered
  <2>1. ASSUME NEW i \in Consumed PROVE i \in Settled
    <3>1. CASE cursor = NoCursor
      BY <2>1, <3>1 DEF Consumed
    <3>2. CASE cursor # NoCursor
      BY <2>1, <3>2 DEF Consumed, CursorSettled
    <3> QED BY <3>1, <3>2
  <2> QED BY <2>1 DEF CursorIsCovered, Settled
<1>3. StoredIsAnnounced
  BY DEF NewsGoesOut, StoredIsAnnounced, Announcing, Next1
<1> QED BY <1>1, <1>2, <1>3 DEF PollInv

\* What lies behind the cursor of a mailbox was handled, or logged as failed,
\* and what was stored is announced, for any number of workers and changes.
THEOREM PollingIsSound == PollSpec => []PollInv
<1>1. PollInit => PInv
  BY PollInitially
<1>2. PInv /\ [PollNext]_pollVars => PInv'
  BY PollInductive
<1>3. PInv => PollInv
  BY PInvIsSound
<1> QED BY <1>1, <1>2, <1>3, PTL DEF PollSpec

-------------------------------------------------------------------------------
(* MCIngest.  Every step of the whole is a step of one part and a stutter of *)
(* the others, so what each part keeps, the whole keeps.                     *)

LEMMA OthersMove ==
  [Next]_ingest => /\ [PollNext]_pollVars /\ [QuotaNext]_quotaVars /\ [OAuthNext]_oauthVars
                   /\ [BackfillNext]_backfillVars /\ [ArchiveNext]_archiveVars
BY DEF Next, ingest, PollMoves, QuotaMoves, IntakeMoves, CertMoves, OAuthMoves, BackfillMoves, ArchiveMoves

\* Mail gets in and out soundly: the polls and their quota, the notifications, the tokens,
\* the backfill and the archive keep their invariants side by side.
THEOREM IngestIsSound ==
  Spec => [](PollInv /\ QuotaInv /\ NotificationsInv /\ OAuthInv /\ BackfillInv /\ ArchiveInv)
<1>1. Init => (PInv /\ QInv /\ OInv /\ BInv /\ AInv)
  BY PollInitially, QuotaInitially, OAuthInitially, BackfillInitially, ArchiveInitially DEF Init
<1>2. (PInv /\ QInv /\ OInv /\ BInv /\ AInv) /\ [Next]_ingest => (PInv /\ QInv /\ OInv /\ BInv /\ AInv)'
  BY OthersMove, PollInductive, QuotaInductive, OAuthInductive, BackfillInductive, ArchiveInductive
<1>3. (PInv /\ QInv /\ OInv /\ BInv /\ AInv) => (PollInv /\ QuotaInv /\ OAuthInv /\ BackfillInv /\ ArchiveInv)
  BY PInvIsSound, QInvIsSound, OInvIsSound, BInvIsSound, AInvIsSound
<1> QED BY <1>1, <1>2, <1>3, NotificationsAreSound, PTL DEF Spec

===============================================================================
