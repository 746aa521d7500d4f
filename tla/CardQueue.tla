------------------------------ MODULE CardQueue ------------------------------
(***************************************************************************)
(* The queue of one user: the cards and the row of user_queues in          *)
(* PostgreSQL, the version and the sorted set copied to Redis, and the     *)
(* batch notification.  A card is inserted in one transaction and counted  *)
(* in a second, the copies follow the commit one by one, and the throttle  *)
(* of the notification is read, tested and written in separate statements. *)
(***************************************************************************)
EXTENDS Integers, FiniteSets

CONSTANTS Card, Urgent,   \* cards, each created once; those above UrgentThreshold
          BatchThreshold,
          Request,        \* concurrent calls of OnCardCleared and IncrementServerVersion
          MaxRequests,    \* bound: such calls
          MaxFaults       \* bound: failed statements and crashes

ASSUME CardQueueBounds ==
  Urgent \subseteq Card /\ {BatchThreshold, MaxRequests, MaxFaults} \subseteq Nat /\ BatchThreshold > 0

VARIABLES
  card,        \* card_state of each card
  count,       \* pending_count of the row
  version,     \* server_version of the row
  cached,      \* version:<user> in Redis
  listed,      \* cards in queue:<user>
  creator,     \* OnCardCreated of each card: where it is, the version it committed
  request,     \* each call: where it is, its card, the version it holds
  recent,      \* last_notification_at is less than 15 minutes ago
  notices,     \* notifications recorded in this window
  requests, faults,
  miscounted,  \* history: a card was never counted, or a clear took off what was not counted
  muddled,     \* history: copies of the version overlapped or failed
  mislisted,   \* history: a change of the sorted set failed or overlapped the creation
  waived      \* history: two checks of the throttle overlapped, or one could not read it

queueVars == <<card, count, version, cached, listed, creator, request, recent, notices, requests, faults,
               miscounted, muddled, mislisted, waived>>
rows == <<card, count, version>>
copies == <<cached, listed>>
throttle == <<recent, notices, waived>>
causes == <<miscounted, muddled, mislisted>>

IdleRequest == [at |-> "idle", card |-> "none", v |-> 0]

QueueInit ==
  /\ card = [c \in Card |-> "none"] /\ count = 0 /\ version = 0
  /\ cached = 0 /\ listed = {}
  /\ creator = [c \in Card |-> [at |-> "new", v |-> 0]]
  /\ request = [r \in Request |-> IdleRequest]
  /\ recent = FALSE /\ notices = 0 /\ requests = 0 /\ faults = 0
  /\ miscounted = FALSE /\ muddled = FALSE /\ mislisted = FALSE /\ waived = FALSE

Fault == faults < MaxFaults /\ faults' = faults + 1
Unsent == {c \in Card : card[c] \notin {"none", "sent"}}
Uncounted == {c \in Card : creator[c].at = "inserted"}
Copying == \/ \E c \in Card : creator[c].at = "set"
           \/ \E r \in Request : request[r].at \in {"version", "set", "bumped"}
Listing == \/ \E c \in Card : creator[c].at \in {"inserted", "set", "zadd"}
           \/ \E r \in Request : request[r].at \in {"version", "set", "zrem"}
Go(c, at) == creator' = [creator EXCEPT ![c].at = at, ![c].v = 0]
Reach(r, at) == request' = [request EXCEPT ![r].at = at, ![r].v = 0]
Answer(r) == request' = [request EXCEPT ![r] = IdleRequest]

-----------------------------------------------------------------------------
\* OnCardCreated.

\* CardStore.Insert: the card and, if need be, the row, in one transaction.
Insert(c) ==
  /\ creator[c].at = "new" /\ Go(c, "inserted")
  /\ card' = [card EXCEPT ![c] = "pending"]
  /\ UNCHANGED <<count, version, copies, request, throttle, requests, faults, causes>>

VersionRead == version + 1

\* The second transaction: count, increment, read the version.
CountCard(c) ==
  /\ creator[c].at = "inserted"
  /\ creator' = [creator EXCEPT ![c] = [at |-> "set", v |-> VersionRead]]
  /\ count' = count + 1 /\ version' = version + 1 /\ muddled' = Copying
  /\ UNCHANGED <<card, copies, request, throttle, requests, faults, miscounted, mislisted>>

\* It fails, or the process dies before it: nothing counts the card later.
CountFails(c) ==
  /\ creator[c].at = "inserted" /\ Fault /\ Go(c, "done")
  /\ miscounted' = TRUE /\ mislisted' = TRUE
  /\ UNCHANGED <<rows, copies, request, throttle, requests, muddled>>

SetVersion(c) ==
  /\ creator[c].at = "set" /\ Go(c, "zadd")
  /\ \/ cached' = creator[c].v /\ UNCHANGED <<faults, muddled>>
     \/ Fault /\ muddled' = TRUE /\ UNCHANGED cached
  /\ UNCHANGED <<rows, listed, request, throttle, requests, miscounted, mislisted>>

ZAdd(c) ==
  /\ creator[c].at = "zadd" /\ Go(c, "counts")
  /\ \/ listed' = listed \cup {c} /\ UNCHANGED <<faults, mislisted>>
     \/ Fault /\ mislisted' = TRUE /\ UNCHANGED listed
  /\ UNCHANGED <<rows, cached, request, throttle, requests, miscounted, muddled>>

CreatorDies(c) ==
  /\ creator[c].at \in {"set", "zadd"} /\ Fault /\ Go(c, "done")
  /\ muddled' = (muddled \/ creator[c].at = "set")
  /\ mislisted' = (mislisted \/ creator[c].at \in {"set", "zadd"})
  /\ UNCHANGED <<rows, copies, request, throttle, requests, miscounted>>

\* GetCounts: enough cards, or an urgent one.
Pending == {p \in Card : card[p] = "pending"}
CheckThreshold(c) ==
  /\ creator[c].at = "counts"
  /\ Cardinality(Pending) >= BatchThreshold \/ Pending \cap Urgent # {}
  /\ Go(c, "throttle")
  /\ UNCHANGED <<rows, copies, request, throttle, requests, faults, causes>>

\* Not enough, quiet hours between 22 and 8, or counts that cannot be read.
NotNow(c) ==
  /\ creator[c].at = "counts" /\ Go(c, "done")
  /\ UNCHANGED <<rows, copies, request, throttle, requests, faults, causes>>

Throttled == recent

\* A last_notification_at that cannot be read throttles nothing.
CheckThrottle(c) ==
  /\ creator[c].at = "throttle"
  /\ \/ Throttled /\ Go(c, "done") /\ UNCHANGED <<waived, faults>>
     \/ ~Throttled /\ Go(c, "record") /\ UNCHANGED faults
        /\ waived' = (waived \/ \E d \in Card : creator[d].at = "record")
     \/ Fault /\ Go(c, "record") /\ waived' = TRUE
  /\ UNCHANGED <<rows, copies, request, recent, notices, requests, causes>>

\* triggerNotification: the timestamp; the publication that follows keeps no
\* state, and its failure is returned after the timestamp has been written.
RecordNotification(c) ==
  /\ creator[c].at = "record"
  /\ Go(c, "done")
  /\ \/ recent' = TRUE /\ notices' = notices + 1 /\ UNCHANGED faults
     \/ Fault /\ UNCHANGED <<recent, notices>>
  /\ UNCHANGED <<rows, copies, request, waived, requests, causes>>

QuarterPasses ==
  /\ recent /\ recent' = FALSE /\ notices' = 0
  /\ waived' = \E c \in Card : creator[c].at = "record"
  /\ UNCHANGED <<rows, copies, creator, request, requests, faults, causes>>

-----------------------------------------------------------------------------
\* OnCardCleared, OnCardClearedWithTiming and IncrementServerVersion.

\* Cards are decided elsewhere, without a change of the row.
DecideElsewhere(c) ==
  /\ card[c] = "pending" /\ card' = [card EXCEPT ![c] = "approved"]
  /\ UNCHANGED <<count, version, copies, creator, request, throttle, requests, faults, causes>>

Decremented_PendingOnly(c) == IF card[c] = "pending" /\ count > 0 THEN count - 1 ELSE count
\* GREATEST(pending_count - 1, 0), whatever the state of the card.
Decremented(c) == IF count > 0 THEN count - 1 ELSE 0

\* MarkCardSent: one transaction, with no condition on the state of the card, so
\* a repeated call takes off one more.
MarkCardSent(r, c) ==
  /\ request[r].at = "idle" /\ requests < MaxRequests /\ requests' = requests + 1
  /\ card[c] # "none"
  /\ request' = [request EXCEPT ![r] = [at |-> "version", card |-> c, v |-> 0]]
  /\ card' = [card EXCEPT ![c] = "sent"] /\ count' = Decremented(c) /\ version' = version + 1
  /\ miscounted' = (miscounted \/ c \notin Unsent \/ count = 0)
  /\ muddled' = Copying
  /\ UNCHANGED <<copies, creator, throttle, faults, mislisted>>

\* The version is read after the commit; when that fails, 0 is copied.
GetServerVersion(r) ==
  /\ request[r].at = "version"
  /\ \/ request' = [request EXCEPT ![r].at = "set", ![r].v = version] /\ UNCHANGED <<faults, muddled>>
     \/ Fault /\ request' = [request EXCEPT ![r].at = "set", ![r].v = 0] /\ muddled' = TRUE
  /\ UNCHANGED <<rows, copies, creator, throttle, requests, miscounted, mislisted>>

IncrementServerVersion(r) ==
  /\ request[r].at = "idle" /\ requests < MaxRequests /\ requests' = requests + 1
  /\ request' = [request EXCEPT ![r] = [at |-> "bumped", card |-> "none", v |-> version + 1]]
  /\ version' = version + 1 /\ muddled' = Copying
  /\ UNCHANGED <<card, count, copies, creator, throttle, faults, miscounted, mislisted>>

CopyVersion(r) ==
  /\ request[r].at \in {"set", "bumped"}
  /\ IF request[r].at = "set" THEN Reach(r, "zrem") ELSE Answer(r)
  /\ \/ cached' = request[r].v /\ UNCHANGED <<faults, muddled>>
     \/ Fault /\ muddled' = TRUE /\ UNCHANGED cached
  /\ UNCHANGED <<rows, listed, creator, throttle, requests, miscounted, mislisted>>

\* The member whose text contains the id of the card.
Found(r) == listed \cap {request[r].card}

ZRem(r) ==
  /\ request[r].at = "zrem" /\ Answer(r)
  /\ \/ listed' = listed \ Found(r) /\ UNCHANGED faults
        /\ mislisted' = (mislisted \/ creator[request[r].card].at \in {"inserted", "set", "zadd"})
     \/ Fault /\ mislisted' = TRUE /\ UNCHANGED listed
  /\ UNCHANGED <<rows, cached, creator, throttle, requests, miscounted, muddled>>

RequestDies(r) ==
  /\ request[r].at # "idle" /\ Fault /\ Answer(r)
  /\ muddled' = (muddled \/ request[r].at # "zrem")
  /\ mislisted' = (mislisted \/ request[r].at # "bumped")
  /\ UNCHANGED <<rows, copies, creator, throttle, requests, miscounted>>

QueueNext ==
  \/ \E c \in Card :
       \/ Insert(c) \/ CountCard(c) \/ CountFails(c) \/ SetVersion(c) \/ ZAdd(c) \/ CreatorDies(c)
       \/ CheckThreshold(c) \/ NotNow(c) \/ CheckThrottle(c) \/ RecordNotification(c)
       \/ DecideElsewhere(c) \/ \E r \in Request : MarkCardSent(r, c)
  \/ \E r \in Request : GetServerVersion(r) \/ IncrementServerVersion(r) \/ CopyVersion(r) \/ ZRem(r) \/ RequestDies(r)
  \/ QuarterPasses

QueueSpec == QueueInit /\ [][QueueNext]_queueVars

-----------------------------------------------------------------------------

QueueTypeOK ==
  /\ card \in [Card -> {"none", "pending", "approved", "sent"}]
  /\ {count, version, cached, notices, requests, faults} \subseteq Nat /\ listed \subseteq Card
  /\ creator \in [Card -> [at : {"new", "inserted", "set", "zadd", "counts", "throttle", "record", "done"}, v : Nat]]
  /\ request \in [Request -> [at : {"idle", "version", "set", "bumped", "zrem"}, card : Card \cup {"none"}, v : Nat]]
  /\ {recent, miscounted, muddled, mislisted, waived} \subseteq BOOLEAN

\* pending_count is the number of cards not sent, less those inserted and not
\* yet counted, unless a second transaction failed, a card was cleared twice, or
\* one was cleared before it was counted while the count was 0.
CountIsRight == ~miscounted => count + Cardinality(Uncounted) = Cardinality(Unsent)

\* The version in Redis is that of the row once nobody is copying it, unless
\* copies overlapped (the older one may arrive last), failed, or the version
\* could not be read; it is never ahead.
CacheIsRight == cached <= version /\ (~Copying /\ ~muddled => cached = version)

\* The sorted set holds the cards not sent once nobody is changing it, unless a
\* change failed or the card was cleared before its creation had added it.
ListIsRight == ~Listing /\ ~mislisted => listed = Unsent

\* At most one notification in 15 minutes, unless two creations tested the
\* throttle before either had recorded, or one could not read it.
NotifiedOnce == notices > 1 => waived

\* Count, version and list of a queue are copies of what the cards say, and drift
\* apart only for the causes named; the throttle holds but for a race.
QueueInv == QueueTypeOK /\ CountIsRight /\ CacheIsRight /\ ListIsRight /\ NotifiedOnce
=============================================================================
