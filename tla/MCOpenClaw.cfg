CONSTANTS
  BatchCount = 2
  MaxLog = 2
  MaxFaults = 2
  MaxRetries = 3
  Calls = {c1, c2, c3}
  Streaming = {c3}
  MaxPerMinute = 1
  MaxPerDay = 2
  Minute = 2
  Day = 5
  FailureThreshold = 2
  RecoveryTime = 2
  Ops = {o1, o2, o3}
  NoTag = NoTag
  MaxVersions = 2
SPECIFICATION PartsSpec
INVARIANT TypesOK
INVARIANT Books
INVARIANT GeminiAckedIsAnswered
INVARIANT ExactButForFaults
INVARIANT AnswersMatchEffects
INVARIANT WithinLimits
INVARIANT Breaker
INVARIANT ServesGood
PROPERTY Drained
PROPERTY Ends
PROPERTY Returns
CHECK_DEADLOCK FALSE
