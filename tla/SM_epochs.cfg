SPECIFICATION Spec
CONSTANTS
  x1 = x1
  x2 = x2
  None = None
  Relay = {x1, x2}
  Inputs <- AllInputs
  DaysIn <- Calendar
  Hours = 2
  Minutes = 2
  Seconds = 2
  Scale = 10000
  EpochLimit = 6
  MaxByte = 5
INVARIANTS
  TypeOK
  RightConsensuses
  EpochsTile
  SuccessIsWhole
  WeightsAreShares
  WeightsAreOptimal
PROPERTIES
  NumbersForLife
CHECK_DEADLOCK FALSE
