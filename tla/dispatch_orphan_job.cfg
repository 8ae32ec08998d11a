SPECIFICATION Spec
CONSTANTS
  m1 = m1
  w1 = w1
  w2 = w2
  j1 = j1
  j2 = j2
  NoRow = NoRow
  NoJob = NoJob
  Msg = {m1}
  Channels = {"Sms"}
  Due = {m1}
  Validated = {}
  EmptyTelegram = {}
  Workers = {w1, w2}
  JobIds = {j1, j2}
  MaxAttempts = 1
  MinRetry = 1
  MaxSends = 4
  MaxFaults = 0
  MaxResends = 0
  MaxDeletes = 1
  MaxRequests = 1
  MaxReports = 1
  FaultKinds = {}
SYMMETRY Symmetry
INVARIANTS
  OrphanJobNeverSends
CHECK_DEADLOCK FALSE
