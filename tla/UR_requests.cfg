SPECIFICATION Spec
CONSTANTS
  None = None
  From = 0
  EndTime = 5
  Starts <- FromTheStart
  LastEpoch = 2
  Delays = {0, 1, 2}
  MaxPackets = 2
  MaxTime = 6
INVARIANTS
  TypeOK
  RequestsDoNotOverlap
  PacketsInTime
  NoRequestLeftBehind
PROPERTIES
  UpdatesInOrder
CHECK_DEADLOCK FALSE
