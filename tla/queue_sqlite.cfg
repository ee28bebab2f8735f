CONSTANTS
  Jobs = {j1, j2}
  Workers = {w1, w2}
  Clients = {c1}
  Unreliable = {w1}
  Faults = {"crash"}
  Dialect = "sqlite"
  Heartbeats = "punctual"
  MaxAttempts = 2
  LeaseDuration = 2
  HeartbeatInterval = 1
  RetryBase = 1
  RetryMax = 2
  MaxGap = 1
  MaxRequests = 0
  None = None
  c1 = c1
  j1 = j1
  j2 = j2
  w1 = w1
  w2 = w2
SPECIFICATION Spec
INVARIANT AttemptBudget
INVARIANT OneHandlerPerJob
