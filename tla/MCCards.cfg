SPECIFICATION Spec
CONSTANTS
  k1 = k1
  k2 = k2
  Card = {k1, k2}
  Urgent = {k2}
  BatchThreshold = 2
  q1 = q1
  Request = {q1}
  MaxRequests = 2
  MaxFaults = 1
  i1 = i1
  Item = {i1}
  d1 = d1
  d2 = d2
  Device = {d1, d2}
  r1 = r1
  r2 = r2
  Sync = {r1, r2}
  MaxIncrements = 2
  MaxDecisions = 1
  MaxLosses = 1
  n1 = n1
  n2 = n2
  Notice = {n1, n2}
  Interrupt = {n1}
  p1 = p1
  Phone = {p1}
  j1 = j1
  j2 = j2
  Dispatcher = {j1, j2}
  MaxTokens = 3
  MaxBreaks = 2
INVARIANTS QueueInv  
PROPERTY SentStaysSent
CHECK_DEADLOCK FALSE
