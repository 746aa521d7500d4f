SPECIFICATION Spec
CONSTANTS
  Keys = {k1, k2, k3, k4}
  NoKey = NoKey
  MaxRestarts = 2
  Devices = {d1}
  Calls = {c1, c2, c3}
  None = None
  MaxRefresh = 3
  Item = {i1}
  Device = {d1}
  Sync = {s1}
  MaxIncrements = 1
  MaxDecisions = 2
  MaxLosses = 1
  Notice = {n1, n2}
  Interrupt = {n1}
  Phone = {p1}
  Dispatcher = {j1, j2}
  MaxTokens = 3
  MaxBreaks = 2
INVARIANTS KeysInv SessionsInv
PROPERTIES   InterruptIsSent
CHECK_DEADLOCK FALSE
