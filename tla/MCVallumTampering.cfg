CONSTANTS
  TaskStreams <- MCStreams
  Senders = {s1}
  Payloads = {"clean", "leak"}
  Encodings = {FALSE}
  Times = {0, 1, 2}
  RateLimit = 1
  RateWindow = 1
  Count = 2
  MaxTasks = 2
  MaxAlerts = 3
  MaxFaults = 0
  Agents = {a1, a2}
  Capacity = 1
  AutoHeal = TRUE
  MaxEvents = 0
  MaxAttempts = 1
  Window = 1
  Writers = {w1, w2}
  Contents = {c1, c2}
  MaxRecords = 2
  MaxDamage = 1
  p1 = p1
  p2 = p2
  Pairs <- MCPairs
  Lists <- MCLists
  Reloads = {l1, l2}
SPECIFICATION PartsSpec
INVARIANT TamperingIsFound
CHECK_DEADLOCK FALSE
