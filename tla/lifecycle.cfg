SPECIFICATION Spec
CONSTANTS
  r1 = r1
  r2 = r2
  a = a
  b = b
  c = c
  Requests = {r1, r2}
  Identities = {a, b, c}
  Managers = {a, b}
  Admins = {b, c}
  NoOne = NoOne
  Operator = Operator
INVARIANT RowFollowsMint
PROPERTY MintImplementsMakerChecker
SYMMETRY RequestSymmetry
