SPECIFICATION FairSpec
CONSTANTS
  t1 = t1
  t2 = t2
  c1 = c1
  c2 = c2
  None = None
  Thread = {t1, t2}
  Client = {c1, c2}
  Capacity = 2
  FlushAt = 1
  FlowLength = {1, 2}
  MaxFlows = 1
  MaxEpochs = 2
INVARIANTS
  TypeOK
  NumbersUnique
  FlowsContiguous
  ClientOrder
  SuccessIsComplete
  WriteErrorsReported
PROPERTIES
  Terminates
