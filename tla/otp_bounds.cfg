SPECIFICATION Spec
CONSTANTS
  r1 = r1
  r2 = r2
  login = login
  signup = signup
  h1 = h1
  h2 = h2
  h3 = h3
  NoEntry = NoEntry
  Ref = {r1}
  Purpose = {login, signup}
  Handlers = {h1, h2}
  MaxAttempts = 3
  MaxFaults = 2
SYMMETRY Symmetry
INVARIANTS
  SerialOtp
  PairBound
CHECK_DEADLOCK FALSE
