CONSTANTS
  Drafts = {d1, d2}
  Bodies = {b1}
  Workers = {w1, w2}
  FetchMax = 2
  MaxAttempts = 3
  NoJob = NoJob
  MaxStream = 2
  MaxSends = 2
SPECIFICATION Spec
SYMMETRY WorkerSymmetry
INVARIANTS MailInv ConfirmedWasSent
CHECK_DEADLOCK FALSE
