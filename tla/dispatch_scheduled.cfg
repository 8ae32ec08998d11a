SPECIFICATION Spec
CONSTANTS
  m1 = m1
  w1 = w1
  w2 = w2
  j1 = j1
  j2 = j2
  NoRow = NoRow
  NoJob = NoJob
  Msg = {m1}
  Channels = {"Sms"}
  Due = {m1}
  Validated = {}
  EmptyTelegram = {}
  Workers = {w1, w2}
  JobIds = {j1, j2}
  MaxAttempts = 1
  MinRetry = 1
  MaxSends = 4
  MaxFaults = 1
  MaxResends = 1
  MaxDeletes = 1
  MaxRequests = 1
  MaxReports = 1
  FaultKinds = {"database", "publish", "lostConfirm", "provider", "lostAnswer", "job", "crash", "disconnect"}
SYMMETRY Symmetry
INVARIANTS
  NoPhantomSent
  NoEarlySend
  LateDeleteNeverSent
  NothingForgotten
CHECK_DEADLOCK FALSE
