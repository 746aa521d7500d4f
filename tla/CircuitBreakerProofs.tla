------------------------- MODULE CircuitBreakerProofs -------------------------
(***************************************************************************)
(* The safety properties of CircuitBreaker for every number of callers and *)
(* every threshold.                                                        *)
(*                                                                         *)
(* CountedFailuresHappened is not inductive: between the load and the      *)
(* store of failures++ the counter must leave room for the failures that   *)
(* other callers are still to count.  CounterInv says how much room.       *)
(***************************************************************************)
EXTENDS MCCircuitBreaker, FiniteSetTheorems, TLAPS

CounterInv ==
  /\ failures + Cardinality(Uncounted) <= failed
  /\ \A c \in Callers :
       pc[c] = "failStore" => read[c] + Cardinality(Uncounted) <= failed

TripInv ==
  /\ state # "Closed" => failed >= Threshold
  /\ \A c \in Callers : pc[c] = "failTrip" => failed >= Threshold

IInv == TypeOK /\ CounterInv /\ TripInv

-------------------------------------------------------------------------------
\* The number of uncounted failures is a natural number.
LEMMA UncountedFinite == IsFiniteSet(Uncounted) /\ Cardinality(Uncounted) \in Nat
BY CallersAssumption, FS_Subset, FS_CardinalityType DEF Uncounted

\* A step of caller c that starts or ends its count changes that number by
\* one; a step elsewhere in Call leaves it alone.
LEMMA UncountedMoves ==
  ASSUME TypeOK, NEW c \in Callers, NEW from \in Locations, NEW to \in Locations,
         Move(c, from, to)
  PROVE  Cardinality(Uncounted)' =
           Cardinality(Uncounted)
             + (IF to \in {"failLoad", "failStore"} THEN 1 ELSE 0)
             - (IF from \in {"failLoad", "failStore"} THEN 1 ELSE 0)
<1> DEFINE counting(l) == l \in {"failLoad", "failStore"}
<1>1. pc' = [pc EXCEPT ![c] = to] /\ pc \in [Callers -> Locations] /\ pc[c] = from
  BY DEF Move, TypeOK
<1>2. c \in Uncounted <=> counting(from)
  BY <1>1 DEF Uncounted
<1>3. CASE counting(from) /\ counting(to)
  <2>1. Uncounted' = Uncounted
    BY <1>1, <1>3 DEF Uncounted
  <2> QED BY <2>1, <1>3, UncountedFinite
<1>4. CASE counting(from) /\ ~counting(to)
  <2>1. Uncounted' = Uncounted \ {c}
    BY <1>1, <1>4 DEF Uncounted
  <2>2. Cardinality(Uncounted \ {c}) = Cardinality(Uncounted) - 1
    BY <1>2, <1>4, UncountedFinite, FS_RemoveElement
  <2> QED BY <2>1, <2>2, <1>4, UncountedFinite
<1>5. CASE ~counting(from) /\ counting(to)
  <2>1. Uncounted' = Uncounted \cup {c}
    BY <1>1, <1>5 DEF Uncounted
  <2>2. Cardinality(Uncounted \cup {c}) = Cardinality(Uncounted) + 1
    BY <1>2, <1>5, UncountedFinite, FS_AddElement
  <2> QED BY <2>1, <2>2, <1>5, UncountedFinite
<1>6. CASE ~counting(from) /\ ~counting(to)
  <2>1. Uncounted' = Uncounted
    BY <1>1, <1>6 DEF Uncounted
  <2> QED BY <2>1, <1>6, UncountedFinite
<1> QED BY <1>3, <1>4, <1>5, <1>6

-------------------------------------------------------------------------------
LEMMA InitInv == Init => IInv
<1> SUFFICES ASSUME Init PROVE IInv
  OBVIOUS
<1>1. TypeOK
  BY DEF Init, TypeOK, States, Locations
<1>2. Uncounted = {}
  BY DEF Init, Uncounted
<1>3. CounterInv
  BY <1>2, FS_EmptySet DEF Init, CounterInv
<1>4. TripInv
  BY DEF Init, TripInv
<1> QED BY <1>1, <1>3, <1>4 DEF IInv

LEMMA TypeStep == TypeOK /\ [Next]_vars => TypeOK'
<1> SUFFICES ASSUME TypeOK, [Next]_vars PROVE TypeOK'
  OBVIOUS
<1> USE DEF TypeOK, States, Locations, CurrentState, Move
<1>1. CASE ObserveState \/ TimeoutElapses
  BY <1>1 DEF ObserveState, TimeoutElapses
<1>2. CASE UNCHANGED vars
  BY <1>2 DEF vars
<1>3. ASSUME NEW c \in Callers, Call(c) PROVE TypeOK'
  <2>1. CASE Admit(c)
    BY <2>1 DEF Admit
  <2>2. CASE CallFails(c) \/ CallSucceeds(c)
    BY <2>2 DEF CallFails, CallSucceeds
  <2>3. CASE FailLoad(c) \/ FailStore(c)
    BY <2>3 DEF FailLoad, FailStore
  <2>4. CASE FailStampBegin(c) \/ FailStampEnd(c)
    BY <2>4 DEF FailStampBegin, FailStampEnd
  <2>5. CASE FailTest(c) \/ FailTrip(c)
    BY <2>5 DEF FailTest, FailTrip
  <2>6. CASE OkReset(c) \/ OkClose(c)
    BY <2>6 DEF OkReset, OkClose
  <2> QED BY <1>3, <2>1, <2>2, <2>3, <2>4, <2>5, <2>6
        DEF Call, RecordFailure, RecordSuccess
<1> QED BY <1>1, <1>2, <1>3 DEF Next

\* The counter never overtakes the failures that happened.
LEMMA CounterStep == TypeOK /\ CounterInv /\ [Next]_vars => CounterInv'
<1> SUFFICES ASSUME TypeOK, CounterInv, [Next]_vars PROVE CounterInv'
  OBVIOUS
<1> DEFINE n == Cardinality(Uncounted)
<1>1. n \in Nat /\ failures \in Nat /\ failed \in Nat /\ read \in [Callers -> Nat]
  BY UncountedFinite DEF TypeOK
<1>2. ASSUME UNCHANGED <<failures, pc, read, failed>> PROVE CounterInv'
  BY <1>2 DEF CounterInv, Uncounted
<1>3. ASSUME NEW c \in Callers, Call(c) PROVE CounterInv'
  \* Steps that leave the counter, the loads and the failures alone and
  \* neither start nor end a count.
  <2>1. ASSUME NEW from \in Locations \ {"failLoad", "failStore"},
               NEW to \in Locations \ {"failLoad", "failStore"},
               Move(c, from, to), UNCHANGED <<read, failed>>,
               failures' = failures \/ failures' = 0
        PROVE  CounterInv'
    <3>1. n' = n
      BY <2>1, <1>1, UncountedMoves
    <3>2. \A d \in Callers : pc'[d] = "failStore" => pc[d] = "failStore"
      BY <2>1 DEF Move, TypeOK
    <3> QED BY <3>1, <3>2, <2>1, <1>1 DEF CounterInv
  <2>2. CASE Admit(c)
    BY <2>1, <2>2 DEF Admit, Locations
  <2>3. CASE CallFails(c)
    <3>1. n' = n + 1
      BY <2>3, <1>1, UncountedMoves DEF CallFails, Locations
    <3>2. \A d \in Callers : pc'[d] = "failStore" => pc[d] = "failStore"
      BY <2>3 DEF CallFails, Move, TypeOK
    <3> QED BY <3>1, <3>2, <2>3, <1>1 DEF CounterInv, CallFails
  <2>4. CASE CallSucceeds(c)
    BY <2>1, <2>4 DEF CallSucceeds, Locations
  <2>5. CASE FailLoad(c)
    <3>1. n' = n
      BY <2>5, <1>1, UncountedMoves DEF FailLoad, Locations
    <3>2. \A d \in Callers : pc'[d] = "failStore" =>
            d = c \/ (pc[d] = "failStore" /\ read'[d] = read[d])
      BY <2>5 DEF FailLoad, Move, TypeOK
    <3>3. read'[c] = failures
      BY <2>5, <1>1 DEF FailLoad
    <3> QED BY <3>1, <3>2, <3>3, <2>5, <1>1 DEF CounterInv, FailLoad
  <2>6. CASE FailStore(c)
    <3>1. n' = n - 1
      BY <2>6, <1>1, UncountedMoves DEF FailStore, Locations
    <3>2. \A d \in Callers : pc'[d] = "failStore" => pc[d] = "failStore"
      BY <2>6 DEF FailStore, Move, TypeOK
    <3>3. failures' = read[c] + 1 /\ read[c] + n <= failed /\ read[c] \in Nat
      BY <2>6, <1>1 DEF FailStore, Move, CounterInv
    <3>4. failures' + n' <= failed'
      BY <3>1, <3>3, <2>6, <1>1 DEF FailStore
    <3>5. ASSUME NEW d \in Callers, pc'[d] = "failStore"
          PROVE  read'[d] + n' <= failed'
      BY <3>1, <3>2, <3>5, <2>6, <1>1 DEF FailStore, CounterInv
    <3> QED BY <3>4, <3>5 DEF CounterInv
  <2>7. CASE FailStampBegin(c) \/ FailStampEnd(c)
    BY <2>1, <2>7 DEF FailStampBegin, FailStampEnd, Locations
  <2>8. CASE FailTest(c)
    BY <2>1, <2>8 DEF FailTest, Locations
  <2>9. CASE FailTrip(c)
    BY <2>1, <2>9 DEF FailTrip, Locations
  <2>10. CASE OkReset(c) \/ OkClose(c)
    BY <2>1, <2>10 DEF OkReset, OkClose, Locations
  <2> QED BY <1>3, <2>2, <2>3, <2>4, <2>5, <2>6, <2>7, <2>8, <2>9, <2>10
        DEF Call, RecordFailure, RecordSuccess
<1>4. CASE ObserveState \/ TimeoutElapses \/ UNCHANGED vars
  BY <1>2, <1>4 DEF ObserveState, TimeoutElapses, vars
<1> QED BY <1>3, <1>4 DEF Next

\* A trip needs the counter at the threshold, and the counter is backed by
\* failures that happened.
LEMMA TripStep == IInv /\ [Next]_vars => TripInv'
<1> SUFFICES ASSUME IInv, [Next]_vars PROVE TripInv'
  OBVIOUS
<1> USE DEF IInv
<1>1. failures <= failed /\ failures \in Nat /\ failed \in Nat /\ Threshold \in Nat
  BY UncountedFinite, ThresholdAssumption DEF TypeOK, CounterInv
\* The steps that neither open the breaker nor decide to open it.
<1>2. ASSUME state' # "Closed" => state # "Closed",
             \A d \in Callers : pc'[d] = "failTrip" => pc[d] = "failTrip",
             failed' = failed \/ failed' = failed + 1
      PROVE  TripInv'
  BY <1>1, <1>2 DEF TripInv
<1>3. ASSUME NEW c \in Callers, Call(c) PROVE TripInv'
  <2>1. CASE Admit(c)
    <3>1. state' # "Closed" => state # "Closed"
      BY <2>1 DEF Admit, CurrentState
    <3> QED BY <3>1, <1>2, <2>1 DEF Admit, Move, TypeOK
  <2>2. CASE CallFails(c) \/ CallSucceeds(c)
    BY <1>2, <2>2 DEF CallFails, CallSucceeds, Move, TypeOK
  <2>3. CASE FailLoad(c) \/ FailStore(c)
    BY <1>2, <2>3 DEF FailLoad, FailStore, Move, TypeOK
  <2>4. CASE FailStampBegin(c) \/ FailStampEnd(c)
    BY <1>2, <2>4 DEF FailStampBegin, FailStampEnd, Move, TypeOK
  <2>5. CASE FailTest(c)
    <3>1. \A d \in Callers : pc'[d] = "failTrip" =>
            pc[d] = "failTrip" \/ failures >= Threshold
      BY <2>5 DEF FailTest, Move, TypeOK
    <3> QED BY <3>1, <1>1, <2>5 DEF FailTest, TripInv
  <2>6. CASE FailTrip(c)
    <3>1. failed >= Threshold
      BY <2>6 DEF FailTrip, Move, TripInv
    <3> QED BY <3>1, <2>6 DEF FailTrip, TripInv
  <2>7. CASE OkReset(c) \/ OkClose(c)
    BY <1>2, <2>7 DEF OkReset, OkClose, Move, TypeOK
  <2> QED BY <1>3, <2>1, <2>2, <2>3, <2>4, <2>5, <2>6, <2>7
        DEF Call, RecordFailure, RecordSuccess
<1>4. CASE ObserveState
  BY <1>2, <1>4 DEF ObserveState, CurrentState
<1>5. CASE TimeoutElapses \/ UNCHANGED vars
  BY <1>2, <1>5 DEF TimeoutElapses, vars
<1> QED BY <1>3, <1>4, <1>5 DEF Next

\* The strengthened invariant holds of every behaviour of the breaker.
THEOREM Invariance == Spec => []IInv
<1>1. IInv /\ [Next]_vars => IInv'
  BY TypeStep, CounterStep, TripStep DEF IInv
<1> QED BY <1>1, InitInv, PTL DEF Spec

-------------------------------------------------------------------------------
\* Type correctness, for any number of goroutines.
THEOREM TypeCorrect == Spec => []TypeOK
<1>1. IInv => TypeOK
  BY DEF IInv
<1> QED BY <1>1, Invariance, PTL

\* The unsynchronised failures++ (breaker.go:170-176) can lose failures but
\* never counts one that did not happen.
THEOREM CountingIsSound == Spec => []CountedFailuresHappened
<1>1. IInv => CountedFailuresHappened
  <2> SUFFICES ASSUME IInv PROVE CountedFailuresHappened
    OBVIOUS
  <2>1. Cardinality(Uncounted) \in Nat
    BY UncountedFinite
  <2>2. failures <= failed
    BY <2>1 DEF IInv, TypeOK, CounterInv
  <2>3. ASSUME NEW c \in Callers, pc[c] = "failStore" PROVE read[c] < failed
    <3>1. c \in Uncounted
      BY <2>3 DEF Uncounted
    <3>2. Cardinality(Uncounted) # 0
      BY <3>1, UncountedFinite, FS_EmptySet
    <3>3. read[c] + Cardinality(Uncounted) <= failed
      BY <2>3 DEF IInv, CounterInv
    <3> QED BY <3>2, <3>3, <2>1 DEF IInv, TypeOK
  <2> QED BY <2>2, <2>3 DEF CountedFailuresHappened
<1> QED BY <1>1, Invariance, PTL

\* The breaker leaves "Closed" only after Threshold failures really happened
\* (breaker.go:173-175), whatever the interleaving of its callers.
THEOREM TripsAreJustified == Spec => []TripsOnlyOnThreshold
<1>1. IInv => TripsOnlyOnThreshold
  BY DEF IInv, TripInv, TripsOnlyOnThreshold
<1> QED BY <1>1, Invariance, PTL

\* The racy counting neither invents failures nor opens the breaker early
\* (breaker.go:170-182), whatever the number of callers and the threshold.
THEOREM BreakerIsSound == Spec => []BreakerInv
<1>1. TypeOK /\ CountedFailuresHappened /\ TripsOnlyOnThreshold => BreakerInv
  BY DEF BreakerInv
<1> QED BY <1>1, TypeCorrect, CountingIsSound, TripsAreJustified, PTL


-------------------------------------------------------------------------------
(* A caller that is alone.  Nobody else resets the counter between its load   *)
(* and its store, or between its test and its trip; so until its success is   *)
(* about to close the breaker, one that is not closed holds its threshold.    *)

AloneInv ==
  alone =>
    /\ \A c \in Callers : c # only => pc[c] = "idle"
    /\ \A c \in Callers : pc[c] = "failStore" => read[c] = failures
    /\ \A c \in Callers : pc[c] = "failTrip" => failures >= Threshold
    /\ state # "Closed" /\ (\A c \in Callers : pc[c] # "okClose") => failures >= Threshold

LEMMA AloneStep == TypeOK /\ AloneInv /\ [MCNext]_mcvars => AloneInv'
<1> SUFFICES ASSUME TypeOK, AloneInv, [MCNext]_mcvars, alone' PROVE AloneInv'
  BY DEF AloneInv
<1>1. alone
  BY DEF MCNext, Turn, mcvars
<1>2. /\ \A c \in Callers : c # only => pc[c] = "idle"
      /\ \A c \in Callers : pc[c] = "failStore" => read[c] = failures
      /\ \A c \in Callers : pc[c] = "failTrip" => failures >= Threshold
      /\ state # "Closed" /\ (\A c \in Callers : pc[c] # "okClose") => failures >= Threshold
  BY <1>1 DEF AloneInv
<1>3. failures \in Nat /\ Threshold \in Nat \ {0} /\ pc \in [Callers -> Locations] /\ read \in [Callers -> Nat]
  BY ThresholdAssumption DEF TypeOK
<1>4. ASSUME UNCHANGED <<failures, pc, read>>, state' # "Closed" => state # "Closed" PROVE AloneInv'
  BY <1>2, <1>4 DEF AloneInv
<1>5. CASE (ObserveState \/ TimeoutElapses) \/ UNCHANGED mcvars
  BY <1>4, <1>5 DEF ObserveState, TimeoutElapses, CurrentState, mcvars, vars
<1>6. ASSUME NEW c \in Callers, Turn(c), Call(c) PROVE AloneInv'
  <2>1. c = only /\ \A d \in Callers : d # c => pc[d] = "idle"
    BY <1>1, <1>2, <1>6 DEF Turn
  \* Wherever c goes, the others stay idle; so only what c knows matters.
  <2>2. ASSUME NEW from, NEW to, Move(c, from, to),
               to = "failStore" => read'[c] = failures',
               to = "failTrip" => failures' >= Threshold,
               state' # "Closed" /\ to # "okClose" => failures' >= Threshold
        PROVE  AloneInv'
    <3>1. pc'[c] = to /\ \A d \in Callers : d # c => pc'[d] = "idle"
      BY <1>3, <2>1, <2>2 DEF Move
    <3> QED BY <2>1, <2>2, <3>1 DEF AloneInv
  <2>3. ASSUME pc[c] # "okClose", state # "Closed" PROVE failures >= Threshold
    <3>1. \A d \in Callers : pc[d] # "okClose"
      BY <2>1, <2>3
    <3> QED BY <1>2, <2>3, <3>1
  <2>4. CASE Admit(c)
    <3>1. pc[c] = "idle" /\ (state' # "Closed" => state # "Closed")
      BY <2>4 DEF Admit, Move, CurrentState
    <3> QED BY <2>2, <2>3, <2>4, <3>1 DEF Admit
  <2>5. CASE CallFails(c)
    BY <2>2, <2>3, <2>5 DEF CallFails, Move
  <2>6. CASE CallSucceeds(c)
    BY <2>2, <2>3, <2>6 DEF CallSucceeds, Move
  <2>7. CASE FailLoad(c)
    <3>1. read'[c] = failures /\ pc[c] = "failLoad"
      BY <1>3, <2>7 DEF FailLoad, Move
    <3> QED BY <2>2, <2>3, <2>7, <3>1 DEF FailLoad
  <2>8. CASE FailStore(c)
    <3>1. pc[c] = "failStore" /\ failures' = failures + 1
      BY <1>2, <2>8 DEF FailStore, Move
    <3>2. state' # "Closed" => failures' >= Threshold
      BY <1>3, <2>3, <2>8, <3>1 DEF FailStore
    <3> QED BY <2>2, <2>8, <3>2 DEF FailStore
  <2>9. CASE FailStampBegin(c)
    BY <2>2, <2>3, <2>9 DEF FailStampBegin, Move
  <2>10. CASE FailStampEnd(c)
    BY <2>2, <2>3, <2>10 DEF FailStampEnd, Move
  <2>11. CASE FailTest(c)
    <3>1. (Move(c, "failTest", "failTrip") /\ failures >= Threshold) \/ Move(c, "failTest", "idle")
      BY <2>11 DEF FailTest
    <3>2. UNCHANGED <<state, failures, read>> /\ pc[c] = "failTest"
      BY <2>11 DEF FailTest, Move
    <3> QED BY <2>2, <2>3, <3>1, <3>2
  <2>12. CASE FailTrip(c)
    <3>1. failures >= Threshold
      BY <1>2, <2>12 DEF FailTrip, Move
    <3> QED BY <2>2, <2>12, <3>1 DEF FailTrip
  <2>13. CASE OkReset(c)
    BY <2>2, <2>13 DEF OkReset
  <2>14. CASE OkClose(c)
    BY <2>2, <2>14 DEF OkClose
  <2> QED BY <1>6, <2>4, <2>5, <2>6, <2>7, <2>8, <2>9, <2>10, <2>11, <2>12, <2>13, <2>14
          DEF Call, RecordFailure, RecordSuccess
<1> QED BY <1>5, <1>6 DEF MCNext

\* A caller that is alone finds the breaker reopened by a failed trial
\* (breaker.go:162-176), for every threshold.
THEOREM LoneTrialReopens == MCSpec => []FailedTrialReopens
<1>1. MCInit => TypeOK /\ AloneInv
  BY ThresholdAssumption DEF MCInit, Init, TypeOK, States, Locations, AloneInv
<1>2. TypeOK /\ AloneInv /\ [MCNext]_mcvars => (TypeOK /\ AloneInv)'
  <2>1. [MCNext]_mcvars => [Next]_vars
    BY DEF MCNext, mcvars, Next
  <2> QED BY <2>1, TypeStep, AloneStep
<1>3. AloneInv => FailedTrialReopens
  BY DEF AloneInv, FailedTrialReopens
<1> QED BY <1>1, <1>2, <1>3, PTL DEF MCSpec
===============================================================================
