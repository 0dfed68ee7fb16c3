CONSTANTS
  gateway = gateway
  router = router
  action = action
  m1 = m1
  m2 = m2
  m3 = m3
  Agents = {router, action, gateway}
  Msgs = {m1, m2, m3}
  Sender <- MCSender
  Dest <- MCDest
  Valid = {m1, m2, m3}
  Matrices <- MCMatrices
  Consumers = {}
  MaxLocalQueue = 2
  MaxBatch = 2
  Junk = Junk
  NoAgent = NoAgent
  ForeignStreams = {}
  GroupStreams = {}
  MaxLog = 4
  MaxCrashes = 1
SPECIFICATION Spec
INVARIANT TypeOK
INVARIANT QueuedNotLost
INVARIANT SentOnceInOrder
PROPERTY ImplementsContract
CHECK_DEADLOCK FALSE
