SPECIFICATION Spec
CONSTANTS
  g1 = g1
  g2 = g2
  m = m
  x1 = x1
  x2 = x2
  http = http
  https = https
  None = None
  Relay = {g1, g2, m, x1, x2}
  Port = {http, https}
  InitialPort = http
  LongLived = {https}
  Consensuses <- Churn
  MaxDirtiness = 1
  IdleTimeout = 1
  NeedLifetime = 2
  CoverNum = 1
  GuardLifetime = 2
  AddedJitter = 1
  RemoveUnlistedAfter = 1
  UnlistedJitter = 1
  ConfirmedMinLifetime = 1
  MinFilteredSample = 1
  MaxSampleSize = 1
  SampleOneOf = 1
  NPrimaryGuards = 1
  MaxTime = 3
INVARIANTS
  ConfirmedAreSampled
