--------------------------- MODULE MCCircuitBreaker ---------------------------
(* Instances of CircuitBreaker for TLC: the callers race, or one of them is  *)
(* the only one to call.                                                     *)
EXTENDS CircuitBreaker

CONSTANT only   \* the caller that is alone

VARIABLE alone

mcvars == <<vars, alone>>

MCInit == Init /\ alone \in BOOLEAN

Turn(c) == (alone => c = only) /\ UNCHANGED alone

MCNext ==
  \/ \E c \in Callers : Turn(c) /\ Call(c)
  \/ (ObserveState \/ TimeoutElapses) /\ UNCHANGED alone

\* The fairness of FairSpec, for the callers that take part.
MCSpec ==
  /\ MCInit /\ [][MCNext]_mcvars
  /\ \A c \in Callers : WF_mcvars(Turn(c) /\ Returns(c)) /\ WF_mcvars(Turn(c) /\ Admit(c))
  /\ WF_mcvars(TimeoutElapses /\ UNCHANGED alone)

\* With one caller at a time, a breaker that is not closed still holds the
\* count that tripped it, so a failed trial opens it again at once
\* (breaker.go:162-176).  It is false of concurrent callers, whose successes
\* can reset the counter between the threshold test and the trip.
FailedTrialReopens ==
  (alone /\ state # "Closed" /\ \A c \in Callers : pc[c] = "idle") => failures >= Threshold
===============================================================================
