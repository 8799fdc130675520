SPECIFICATION RegistrySpec
CONSTANTS
  dep = dep
  aud = aud
  d1 = d1
  d2 = d2
  a1 = a1
  a2 = a2
  Accounts = {dep, aud}
  Deployer = dep
  Auditor = aud
  Governance = gov
  MaxRoleEvents = 0
  Dids = {d1, d2}
  DidOf <- MCDidOf
  DocHashes = {}
  ZeroAddress = zero
  NoDid = noDid
  MaxLifecycle = 3
  AssetIds = {a1, a2}
  NoAsset = noAsset
  MaxTokens = 2
  MaxCustody = 3
  MaxDisputes = 2
  MaxEvidence = 1
INVARIANTS
  RegistryTypeOK
  TokenBinding
  OwnerIsCustodian
  CustodyChain
  HoldsMatchDisputes
  OpenCountExact
PROPERTIES
  RevocationTerminal
  UpheldHoldIsPermanent
  CustodyMovesToActive
SYMMETRY AssetSymmetry
CHECK_DEADLOCK FALSE
