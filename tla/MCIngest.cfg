SPECIFICATION Spec
CONSTANTS
  Message = {m1, m2}
  Worker = {w1, w2}
  QueueSize = 1
  MaxChanges = 2
  MaxFailures = 1
  Poll = {p1, p2}
  Limit = 4
  Costs = {1, 3}
  Note = {n1, n2}
  Request = {r1, r2}
  MaxPosts = 3
  MaxErrors = 2
  Verification = {v1, v2}
  MaxRotations = 2
  State = {s1, s2}
  Callback = {b1, b2}
  Refresher = {c1, c2}
  MaxGrants = 2
  Job = {j1}
  Consumer = {w1, w2}
  MailCount = 2
  HourlyLimit = 1
  MaxRetries = 1
  MaxTriggers = 2
  MaxJobFailures = 2
  Row = {1, 2, 3}
  Run = {x1, x2}
  BatchSize = 2
  ChunkSize = 1
  MaxRowChanges = 1
  MaxArchiveErrors = 1
INVARIANTS PollInv QuotaInv    ArchiveInv
PROPERTIES  BackfillEnds
CHECK_DEADLOCK FALSE
