SPECIFICATION FairSpec
CONSTANTS
  g = g
  m = m
  x1 = x1
  x2 = x2
  http = http
  https = https
  ssh = ssh
  None = None
  Relay = {g, m, x1, x2}
  Port = {http, ssh}
  InitialPort = http
  LongLived = {ssh}
  Consensuses <- Leaving
  MaxDirtiness = 1
  IdleTimeout = 2
  NeedLifetime = 2
  CoverNum = 2
  MaxTime = 3
INVARIANTS
  TypeOK
  CoverCountExact
  CoveredWhenServing
  LookupsSucceed
PROPERTIES
  NeedsLiveTheirLifetime
  ServedByFitCircuit
  ImplementsNeedCover
  CallsEnd
CHECK_DEADLOCK FALSE
