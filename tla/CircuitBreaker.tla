---------------------------- MODULE CircuitBreaker ----------------------------
(***************************************************************************)
(* The circuit breaker of the sync service                                 *)
(* (sync/internal/circuitbreaker/breaker.go), shared by every goroutine    *)
(* that calls the Intelligence Layer or publishes through NATS.            *)
(*                                                                         *)
(* IsOpen runs under the mutex; recordFailure and recordSuccess do not     *)
(* take it.  Each of their reads and writes is therefore a step of its own *)
(* and the steps of different callers interleave: `failures++` can lose an *)
(* update, and the threshold test of one caller can act on a counter that  *)
(* another caller has reset.  `lastFailure` is a multi-word time.Time, so  *)
(* while it is being written a reader may see the timeout elapsed or not.  *)
(***************************************************************************)
EXTENDS Integers, FiniteSets

CONSTANTS
  Callers,      \* goroutines that share one breaker
  Threshold,    \* failures that trip the breaker (breaker.threshold)
  MaxFailed     \* bound: failed calls explored in one behaviour

ASSUME CallersAssumption == IsFiniteSet(Callers)
ASSUME ThresholdAssumption == Threshold \in Nat \ {0}
ASSUME MaxFailedAssumption == MaxFailed \in Nat

States == {"Closed", "Open", "HalfOpen"}

VARIABLES
  state,        \* breaker.state
  failures,     \* breaker.failures
  elapsed,      \* time.Since(lastFailure) > timeout
  pc,           \* where each caller stands in Call
  read,         \* value of `failures` loaded by the caller's failures++
  failed        \* history: calls that have returned an error

vars == <<state, failures, elapsed, pc, read, failed>>

Locations == {"idle", "calling", "failLoad", "failStore", "failStamp",
              "failStamped", "failTest", "failTrip", "okReset", "okClose"}

TypeOK ==
  /\ state \in States
  /\ failures \in Nat
  /\ elapsed \in BOOLEAN
  /\ pc \in [Callers -> Locations]
  /\ read \in [Callers -> Nat]
  /\ failed \in Nat

Init ==
  /\ state = "Closed"
  /\ failures = 0
  /\ elapsed = TRUE          \* lastFailure is the zero time
  /\ pc = [c \in Callers |-> "idle"]
  /\ read = [c \in Callers |-> 0]
  /\ failed = 0

Move(c, from, to) ==
  /\ pc[c] = from
  /\ pc' = [pc EXCEPT ![c] = to]

\* Plausible bugs, for the mutation of the definitions that follow them.
CurrentState_StaysOpen == state
FailTest_OffByOne(c) ==
  /\ Move(c, "failTest", IF failures + 1 >= Threshold THEN "failTrip" ELSE "idle")
  /\ UNCHANGED <<state, failures, elapsed, read, failed>>

\* currentState: an open breaker whose timeout has elapsed becomes half-open.
CurrentState == IF state = "Open" /\ elapsed THEN "HalfOpen" ELSE state

\* A breaker that forgets its failures when it lets a trial through.
Admit_ForgetsFailures(c) ==
  /\ CurrentState # "Open"
  /\ Move(c, "idle", "calling")
  /\ state' = CurrentState
  /\ failures' = IF CurrentState = "HalfOpen" THEN 0 ELSE failures
  /\ UNCHANGED <<elapsed, read, failed>>

\* Call, first half: IsOpen under the mutex lets the call through ...
Admit(c) ==
  /\ CurrentState # "Open"
  /\ Move(c, "idle", "calling")
  /\ state' = CurrentState
  /\ UNCHANGED <<failures, elapsed, read, failed>>

\* ... and fn() runs without it.  A rejected call changes nothing.
CallFails(c) ==
  /\ failed < MaxFailed
  /\ Move(c, "calling", "failLoad")
  /\ failed' = failed + 1
  /\ UNCHANGED <<state, failures, elapsed, read>>

CallSucceeds(c) ==
  /\ Move(c, "calling", "okReset")
  /\ UNCHANGED <<state, failures, elapsed, read, failed>>

\* recordFailure, one step per access to shared memory.
FailLoad(c) ==
  /\ Move(c, "failLoad", "failStore")
  /\ read' = [read EXCEPT ![c] = failures]
  /\ UNCHANGED <<state, failures, elapsed, failed>>

FailStore(c) ==
  /\ Move(c, "failStore", "failStamp")
  /\ failures' = read[c] + 1
  /\ UNCHANGED <<state, elapsed, read, failed>>

FailStampBegin(c) ==
  /\ Move(c, "failStamp", "failStamped")
  /\ elapsed' \in BOOLEAN
  /\ UNCHANGED <<state, failures, read, failed>>

FailStampEnd(c) ==
  /\ Move(c, "failStamped", "failTest")
  /\ elapsed' = FALSE
  /\ UNCHANGED <<state, failures, read, failed>>

FailTest(c) ==
  /\ Move(c, "failTest", IF failures >= Threshold THEN "failTrip" ELSE "idle")
  /\ UNCHANGED <<state, failures, elapsed, read, failed>>

FailTrip(c) ==
  /\ Move(c, "failTrip", "idle")
  /\ state' = "Open"
  /\ UNCHANGED <<failures, elapsed, read, failed>>

\* recordSuccess.
OkReset(c) ==
  /\ Move(c, "okReset", "okClose")
  /\ failures' = 0
  /\ UNCHANGED <<state, elapsed, read, failed>>

OkClose(c) ==
  /\ Move(c, "okClose", "idle")
  /\ state' = "Closed"
  /\ UNCHANGED <<failures, elapsed, read, failed>>

\* State() shares currentState with IsOpen and so may also open the trial
\* window; callers use it to render the error of a rejected call.
ObserveState ==
  /\ state # CurrentState
  /\ state' = CurrentState
  /\ UNCHANGED <<failures, elapsed, pc, read, failed>>

\* The reset timeout passes.
TimeoutElapses ==
  /\ ~elapsed
  /\ elapsed' = TRUE
  /\ UNCHANGED <<state, failures, pc, read, failed>>

RecordFailure(c) ==
  FailLoad(c) \/ FailStore(c) \/ FailStampBegin(c) \/ FailStampEnd(c)
    \/ FailTest(c) \/ FailTrip(c)

RecordSuccess(c) == OkReset(c) \/ OkClose(c)

Call(c) ==
  Admit(c) \/ CallFails(c) \/ CallSucceeds(c) \/ RecordFailure(c) \/ RecordSuccess(c)

Next == (\E c \in Callers : Call(c)) \/ ObserveState \/ TimeoutElapses

Spec == Init /\ [][Next]_vars

(***************************************************************************)
(* Fairness: an admitted call returns (the HTTP clients carry a 30 second  *)
(* timeout), goroutines are scheduled, time passes, and some caller keeps  *)
(* asking (the last is an assumption on the environment).                  *)
(***************************************************************************)
Returns(c) == CallFails(c) \/ CallSucceeds(c) \/ RecordFailure(c) \/ RecordSuccess(c)

FairSpec ==
  /\ Spec
  /\ \A c \in Callers : WF_vars(Returns(c)) /\ WF_vars(Admit(c))
  /\ WF_vars(TimeoutElapses)

-------------------------------------------------------------------------------
(* Properties *)

\* Calls that have failed and that `failures` does not count yet.
Uncounted == {c \in Callers : pc[c] \in {"failLoad", "failStore"}}

\* The counter never runs ahead of the failures that happened: the races of
\* recordFailure can lose a failure but never invent one (breaker.go:170-176).
CountedFailuresHappened ==
  /\ failures <= failed
  /\ \A c \in Callers : pc[c] = "failStore" => read[c] < failed

\* A breaker is only ever open, or on trial after having been open, once the
\* dependency has really failed Threshold times (breaker.go:173-175).
TripsOnlyOnThreshold == state # "Closed" => failed >= Threshold

\* An open breaker does not stay open for ever: once the calls in flight have
\* returned, the timeout elapses and the next caller gets its trial.
TrialEventuallyAllowed == (state = "Open") ~> (state # "Open")

\* What the lost updates of the counter cannot do, in any interleaving: count a
\* failure that did not happen, or open the breaker before its threshold.
BreakerInv == TypeOK /\ CountedFailuresHappened /\ TripsOnlyOnThreshold
===============================================================================
