CONSTANTS
  Agents = {a1, a2}
  MaxFailures = 3
  MaxRestarts = 3
  MaxLive = 2
SPECIFICATION Spec
INVARIANT DeadAfterFailedRestarts
