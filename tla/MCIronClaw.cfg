CONSTANTS
  Agents = {a1, a2}
  MaxFailures = 3
  MaxRestarts = 3
  MaxLive = 2
  Clients = {c1}
  Tokens <- MCTokens
  Handlers = {h1, h2}
  MaxRequests = 2
  Window = 5
  Second = 2
  Leeway = 1
  Epoch = 6
  MaxTime = 13
  Secrets = {s1, s2}
  Owned <- MCOwned
  MaxTtl = 2
  EndOfTime = 5
  MaxVersions = 1
  NoOne = noone
  FuelLimit = 3
  MaxPages = 2
  AllPages = 3
  MaxCalls = 3
  Payloads <- MCPayloads
  Texts <- MCTexts
  NoPayload = NoPayload
SPECIFICATION PartsSpec
INVARIANT TypesOK
INVARIANT DeadInTime
INVARIANT DeadIffExhausted
INVARIANT SandboxesAccounted
INVARIANT LimitUnlessOvertaken
INVARIANT ServedIsFresh
INVARIANT UsageIsExact
INVARIANT CodecIsExact
PROPERTY RetryWithinASecond
