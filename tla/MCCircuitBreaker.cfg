CONSTANTS
  Callers = {c1, c2, c3}
  only = c1
  Threshold = 2
  MaxFailed = 4
SPECIFICATION MCSpec
INVARIANTS BreakerInv FailedTrialReopens
PROPERTY TrialEventuallyAllowed
