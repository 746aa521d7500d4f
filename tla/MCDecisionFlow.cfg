CONSTANTS
  c1 = c1
  d1 = d1
  Cards = {c1}
  Drafts = {d1}
  Bodies = {b1, b2}
  CardOf <- OneDraft
  Reqs = {r1, r2}
  PoolSize = 2
  None = None
  MaxStream = 2
  MaxSends = 2
SPECIFICATION FairSpec
INVARIANTS ApprovalInv SentWasApprovedAndDelivered
PROPERTIES ApprovedTextIsQueued RefinesHumanGate LocksReleased
CHECK_DEADLOCK FALSE
