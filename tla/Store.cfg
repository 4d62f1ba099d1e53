SPECIFICATION Spec
CONSTANTS
  Procs = {p1, p2}
  Accounts = {default, other}
  Keys = {k1, k2, k3}
  OperatorKey = operator
  NoKey = none
  Malformed = malformed
  Override = override
  OverlapEverywhere = FALSE
  MaxLaunches = 4
SYMMETRY Symmetry
INVARIANTS KeyNotLost RecordedIsWhole
PROPERTY MintNeedsNoStore
CHECK_DEADLOCK FALSE
