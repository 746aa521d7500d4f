SPECIFICATION Spec
CONSTANTS
  k1 = k1
  Card = {k1}
  Urgent = {k1}
  BatchThreshold = 2
  q1 = q1
  Request = {q1}
  MaxRequests = 0
  MaxFaults = 0
  i1 = i1
  Item = {i1}
  d1 = d1
  Device = {d1}
  r1 = r1
  Sync = {r1}
  MaxIncrements = 1
  MaxDecisions = 1
  MaxLosses = 1
  n1 = n1
  Notice = {n1}
  Interrupt = {n1}
  p1 = p1
  Phone = {p1}
  j1 = j1
  Dispatcher = {j1}
  MaxTokens = 1
  MaxBreaks = 0
INVARIANTS
  ApprovalsArrive
CHECK_DEADLOCK FALSE
