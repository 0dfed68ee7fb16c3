CONSTANTS
  Parts = {"router", "flow"}
  plain = plain
  direct = direct
  gateway = gateway
  internal = internal
  g1 = g1
  g2 = g2
  conversation = conversation
  act = act
  inner = inner
  gemini = gemini
  action = action
  ironclaw = ironclaw
  websearch = websearch
  router = router
  NoDest = NoDest
  Tasks = {plain, gateway}
  Intents = {conversation, act, inner}
  Dests = {gemini, action, ironclaw, router}
  Router = router
  Destination <- MCDestination
  Classified <- MCClassified
  FallbackMap <- MCFallback
  InstanceIds <- MCInstances
  BatchCount = 2
  MaxRetries = 1
  MaxInstances = 2
  MaxLog = 3
  MaxFaults = 2
  FlowTasks = {g1, g2, plain, direct}
  ViaGateway = {g1, g2}
  MaxOutages = 2
  MaxWraps = 1
SPECIFICATION PartsSpec
INVARIANT Books
INVARIANT Delivery
INVARIANT RoundRobin
INVARIANT OnePlace
PROPERTY RouterDrains
PROPERTY UndirectedIsAnswered
CHECK_DEADLOCK FALSE
