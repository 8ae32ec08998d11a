SPECIFICATION Spec
CONSTANTS
  m1 = m1
  w1 = w1
  w2 = w2
  j1 = j1
  j2 = j2
  NoRow = NoRow
  NoJob = NoJob
  Msg = {m1}
  Channels = {"Sms", "Telegram"}
  Due = {}
  Validated = {m1}
  EmptyTelegram = {m1}
  Workers = {w1, w2}
  JobIds = {j1, j2}
  MaxAttempts = 4
  MinRetry = 1
  MaxSends = 4
  MaxFaults = 4
  MaxResends = 0
  MaxDeletes = 0
  MaxRequests = 1
  MaxReports = 1
  FaultKinds = {"provider", "crash"}
SYMMETRY Symmetry
INVARIANTS
  RetryCap
PROPERTIES
  OwnConsumerNeverRegresses
CHECK_DEADLOCK FALSE
