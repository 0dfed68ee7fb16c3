CONSTANTS
  gateway = gateway
  router = router
  action = action
  m1 = m1
  m2 = m2
  m3 = m3
  Agents = {router, action, gateway}
  Msgs = {m1, m2}
  Sender <- MCSender
  Dest <- OneStream
  Valid = {m1}
  Matrices <- MCMatrices
  Consumers = {c1, c2}
  MaxLocalQueue = 1
  MaxBatch = 2
  Junk = Junk
  NoAgent = NoAgent
  ForeignStreams = {router}
  GroupStreams = {router}
  MaxLog = 3
  MaxCrashes = 0
SPECIFICATION Spec
INVARIANT AckedIsDelivered
CHECK_DEADLOCK FALSE
