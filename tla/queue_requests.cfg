CONSTANTS
  Jobs = {j1}
  Workers = {w1, w2}
  Clients = {c1, c2}
  Unreliable = {w1}
  Faults = {"crash", "stop", "heartbeat_error"}
  Dialect = "postgresql"
  Heartbeats = "late"
  MaxAttempts = 2
  LeaseDuration = 2
  HeartbeatInterval = 1
  RetryBase = 1
  RetryMax = 2
  MaxGap = 1
  MaxRequests = 3
  None = None
  c1 = c1
  c2 = c2
  j1 = j1
  w1 = w1
  w2 = w2
SPECIFICATION Spec
INVARIANT TypeOK
INVARIANT AttemptBudget
INVARIANT SnapshotCurrent
SYMMETRY Symmetry
