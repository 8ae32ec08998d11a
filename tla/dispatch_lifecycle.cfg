SPECIFICATION FairSpec
CONSTANTS
  m1 = m1
  w1 = w1
  w2 = w2
  j1 = j1
  j2 = j2
  NoRow = NoRow
  NoJob = NoJob
  Msg = {m1}
  Channels = {"Sms"}
  Due = {}
  Validated = {m1}
  EmptyTelegram = {}
  Workers = {w1, w2}
  JobIds = {j1, j2}
  MaxAttempts = 2
  MinRetry = 1
  MaxSends = 4
  MaxFaults = 2
  MaxResends = 0
  MaxDeletes = 0
  MaxRequests = 2
  MaxReports = 2
  FaultKinds = {"database", "provider", "lostAnswer", "crash"}
PROPERTIES
  ImplementsLifecycle
  RequestResolves
CHECK_DEADLOCK FALSE
