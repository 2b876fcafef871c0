SPECIFICATION Spec
CONSTANTS
  g = g
  m = m
  x1 = x1
  x2 = x2
  http = http
  https = https
  ssh = ssh
  None = None
  Relay = {g, m, x1, x2}
  Port = {http, https}
  InitialPort = http
  LongLived = {}
  Consensuses <- PolicyChurn
  MaxDirtiness = 1
  IdleTimeout = 2
  NeedLifetime = 2
  CoverNum = 1
  MaxTime = 3
PROPERTIES
  PredictedPortsPrebuilt
CHECK_DEADLOCK FALSE
