SPECIFICATION Spec
CONSTANTS
  u1 = u1
  u2 = u2
  u3 = u3
  d1 = d1
  d2 = d2
  t1 = t1
  t2 = t2
  e1 = e1
  n1 = n1
  n2 = n2
  None = None
  UserIds = {u1, u2, u3}
  DeviceIds = {d1, d2}
  Tokens = {t1, t2}
  Emails = {e1}
  Handlers = {n1, n2}
  MaxAttempts = 3
  MaxFaults = 1
SYMMETRY Symmetry
INVARIANTS
  TypeOK
  SharedEmailExplained
  OneRetryHeals
PROPERTIES
  StrangersOnlyIfStale
  RegistersAlone
CHECK_DEADLOCK FALSE
