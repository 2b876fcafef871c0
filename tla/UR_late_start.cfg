SPECIFICATION Spec
CONSTANTS
  None = None
  From = 0
  EndTime = 4
  Starts <- LateStart
  LastEpoch = 2
  Delays = {0, 1, 2}
  MaxPackets = 2
  MaxTime = 5
INVARIANTS
  NoRequestLeftBehind
CHECK_DEADLOCK FALSE
