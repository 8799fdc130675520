SPECIFICATION RegistrySpec
CONSTANTS
  dep = dep
  aud = aud
  d1 = d1
  d2 = d2
  Accounts = {dep, aud, user}
  Deployer = dep
  Auditor = aud
  Governance = gov
  MaxRoleEvents = 2
  Dids = {d1, d2, d3}
  DidOf <- MCDidOf
  DocHashes = {h1, h2}
  ZeroAddress = zero
  NoDid = noDid
  AssetIds = {}
  NoAsset = noAsset
  MaxTokens = 0
  MaxCustody = 0
  MaxDisputes = 0
  MaxEvidence = 0
  MaxLifecycle = 4
INVARIANTS
  IdentityTypeOK
  AdminCountExact
  DidBinding
  LifecycleExplainsStatus
  DocumentHistoryMatches
PROPERTIES
  RevokeKeepsAnAdmin
  DeactivationTerminal
SYMMETRY HashSymmetry
CHECK_DEADLOCK FALSE
