SPECIFICATION Spec
CONSTANTS
  r1 = r1
  r2 = r2
  o = o
  u = u
  x1 = x1
  x2 = x2
  Requests = {r1, r2}
  People = {o, u}
  Owner = o
  Admins = {}
  Readers = {o, u}
  Editors = {o, u}
  Assigners = {o}
  Grantees = {u}
  Changing = {u}
  Classification = "SENSITIVE"
  Objects = {x1, x2}
INVARIANTS
  GateFollowsRelation
  VersionsGapless
SYMMETRY ContentSymmetry
