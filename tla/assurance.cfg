SPECIFICATION Spec
CONSTANTS
  r1 = r1
  r2 = r2
  c1 = c1
  k1 = k1
  k2 = k2
  gold = gold
  NoAsset = NoAsset
  Requests = {r1, r2}
  Challenges = {c1}
  Keys = {k1, k2}
  Assets = {gold}
  Classification <- MCClassification
  Targets <- MCTargets
  Contexts <- MCContexts
  MaxGeneration = 2
INVARIANTS
  GateGetsItsLevel
  VerificationSawItsKeys
PROPERTY GrantsImplementSingleUseToken
SYMMETRY Symmetry
