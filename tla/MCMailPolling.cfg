SPECIFICATION PollSpec
CONSTANTS
  Message = {m1, m2}
  Worker = {w1, w2}
  QueueSize = 1
  MaxChanges = 2
  MaxFailures = 1
INVARIANT NoMailLost
CHECK_DEADLOCK FALSE
