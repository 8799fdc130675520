SPECIFICATION Spec
CONSTANTS
  r1 = r1
  r2 = r2
  a = a
  b = b
  c = c
  Requests = {r1, r2}
  Identities = {a, b, c}
  PlatformAdmins = {c}
  RoleLists = {{"MANAGER"}, {"ADMIN", "AUDITOR"}}
  NoOne = NoOne
PROPERTY LastAdminLostOnlyToRace
SYMMETRY IdentitySymmetry
CHECK_DEADLOCK FALSE
