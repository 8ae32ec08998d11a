SPECIFICATION Spec
CONSTANTS
  f1 = f1
  a1 = a1
  p1 = p1
  w1 = w1
  w2 = w2
  Null = Null
  ErrorText = ErrorText
  Devices = {f1, a1}
  Firebase = {f1}
  Proxied = {}
  Validated = FALSE
  Workers = {w1, w2}
  MaxAttempts = 3
  MaxSends = 5
  MaxFaults = 5
  MaxEvents = 0
  FaultKinds = {"database", "provider", "publish", "disconnect"}
SYMMETRY Symmetry
INVARIANTS
  PushRetryCap
  GivesUpAfterThree
CHECK_DEADLOCK FALSE
