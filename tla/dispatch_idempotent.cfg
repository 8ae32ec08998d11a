SPECIFICATION Spec
CONSTANTS
  m1 = m1
  w1 = w1
  w2 = w2
  j1 = j1
  j2 = j2
  NoRow = NoRow
  NoJob = NoJob
  Msg = {m1}
  Channels = {"Sms"}
  Due = {}
  Validated = {}
  EmptyTelegram = {}
  Workers = {w1, w2}
  JobIds = {j1, j2}
  MaxAttempts = 1
  MinRetry = 1
  MaxSends = 4
  MaxFaults = 1
  MaxResends = 0
  MaxDeletes = 0
  MaxRequests = 1
  MaxReports = 1
  FaultKinds = {"crash"}
SYMMETRY Symmetry
INVARIANTS
  IdempotentRequest
CHECK_DEADLOCK FALSE
