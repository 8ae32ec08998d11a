SPECIFICATION Spec
CONSTANTS
  f1 = f1
  a1 = a1
  p1 = p1
  w1 = w1
  w2 = w2
  Null = Null
  ErrorText = ErrorText
  Devices = {f1, a1, p1}
  Firebase = {f1}
  Proxied = {p1}
  Validated = TRUE
  Workers = {w1, w2}
  MaxAttempts = 3
  MaxSends = 5
  MaxFaults = 2
  MaxEvents = 1
  FaultKinds = {"database", "provider", "lostAnswer", "publish", "crash", "disconnect"}
SYMMETRY Symmetry
INVARIANTS
  TypeOK
  NoPhantomPush
  PushDuplicatesAreDisturbances
CHECK_DEADLOCK FALSE
