CONSTANTS
  c1 = c1
  d1 = d1
  Cards = {c1}
  Drafts = {d1}
  Bodies = {b1, b2}
  CardOf <- OneDraft
  Reqs = {r1}
  PoolSize = 2
  None = None
  Workers = {w1}
  FetchMax = 1
  MaxAttempts = 2
  NoJob = NoJob
  MaxStream = 1
  MaxSends = 1
SPECIFICATION FairPipelineSpec
INVARIANT JobsWereAskedFor
PROPERTY ApprovedDraftSettles
CHECK_DEADLOCK FALSE
