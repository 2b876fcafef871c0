SPECIFICATION Spec
CONSTANTS
  g1 = g1
  g2 = g2
  g3 = g3
  None = None
  Guard = {g1, g2, g3}
  Consensuses <- Churn
  GuardLifetime = 2
  AddedJitter = 2
  RemoveUnlistedAfter = 1
  UnlistedJitter = 1
  ConfirmedMinLifetime = 1
  MinFilteredSample = 2
  MaxSampleSize = 2
  SampleOneOf = 1
  NPrimaryGuards = 2
  CircuitLifetime = 1
  MaxTime = 3
SYMMETRY AlikeSymmetry
INVARIANTS
  TypeOK
  NoDuplicates
  PrimaryUsable
  GuardsRetire
  AlwaysAGuard
PROPERTIES
  GuardRuns
  GuardsKept
  GuardSticks
CHECK_DEADLOCK FALSE
