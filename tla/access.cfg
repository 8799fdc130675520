SPECIFICATION Spec
CONSTANTS
  r1 = r1
  r2 = r2
  u = u
  Requests = {r1, r2}
  Users = {u}
  MaxFailures = 2
  Window = 2
  TTL = 1
  MaxTime = 2
INVARIANTS
  AdmittedSessionWasLive
  FailuresBounded
SYMMETRY RequestSymmetry
