SPECIFICATION Spec
CONSTANTS
  m1 = m1
  m2 = m2
  Msg = {m1, m2}
  Malformed = {m2}
  w1 = w1
  w2 = w2
  Classifier = {w1, w2}
  Batch = 2
  MaxDeliver = 2
  Attempts = 2
  Threshold = 2
  HalfOpenMax = 1
  MaxStops = 1
  l1 = l1
  l2 = l2
  Letter = {l1, l2}
  Garbled = {l2}
  MaxDeliveries = 2
  MaxOutages = 2
  Email <- SampleEmail
  Header <- SampleHeader
  Assembler = {a1, a2}
  Today = 9
  MaxAssemblies = 3
  MaxUpsets = 1
  Event = {e1, e2}
  Unreadable = {e2}
  NATSMaxDeliver = 2
  MaxEnds = 1
INVARIANTS ClassifyInv 
PROPERTY MessagesEnd
CHECK_DEADLOCK FALSE
