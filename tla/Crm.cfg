SPECIFICATION CrmSpec
CONSTANTS
  a = a
  b = b
  NoValue = NoValue
  Requests = {r1, r2}
  Values = {a, b, c}
  OwnerContents <- MCOwnerContents
  MaxEvents = 1
INVARIANT NothingForgotten
SYMMETRY RequestSymmetry
