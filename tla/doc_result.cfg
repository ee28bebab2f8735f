CONSTANTS
  Jobs = {j1}
  Workers = {w1, w2}
  Clients = {c1}
  Unreliable = {w1}
  Faults = {"crash", "stop", "heartbeat_error"}
  Dialect = "postgresql"
  Heartbeats = "late"
  MaxAttempts = 2
  LeaseDuration = 1
  HeartbeatInterval = 1
  RetryBase = 1
  RetryMax = 2
  MaxGap = 1
  MaxRequests = 1
  None = None
  c1 = c1
  j1 = j1
  w1 = w1
  w2 = w2
SPECIFICATION DocSpec
INVARIANT DocTypeOK
INVARIANT CompletedHasResult
INVARIANT RecordsUnique
INVARIANT CompletedByItsExecution
INVARIANT FindingsAccounted
INVARIANT BatchesBounded
PROPERTY FollowsQueue
