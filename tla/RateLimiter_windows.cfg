SPECIFICATION Spec
CONSTANTS
  Clients = {c1, c2, c3}
  Limit = 2
  WindowMs = 2
  MaxKeys = 2
  MaxTime = 2
  MaxGrants = 3
SYMMETRY Symmetry
CHECK_DEADLOCK FALSE
INVARIANTS TwiceLimit
PROPERTIES LiveWindowsKept RefusedForOwnCalls
