SPECIFICATION Spec
CONSTANTS
  HubDevices = {h1}
  NoClient = NoClient
  Events = {e1}
  MaxConnects = 2
  RequestCap = 1
  SendCap = 1
  Connections = {n1, n2}
  Paragraphs = {p1}
  MaxSpawns = 1
INVARIANTS HubInv DraftInv
PROPERTY PumpsEnd
CHECK_DEADLOCK FALSE
