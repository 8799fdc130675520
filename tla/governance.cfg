SPECIFICATION ChainSpec
CONSTANTS
  dep = dep
  aud = aud
  d1 = d1
  d2 = d2
  s1 = s1
  s2 = s2
  Accounts = {dep, aud}
  Deployer = dep
  Auditor = aud
  Governance = gov
  MaxRoleEvents = 0
  Dids = {d1, d2}
  DidOf <- MCDidOf
  DocHashes = {}
  ZeroAddress = zero
  NoDid = noDid
  MaxLifecycle = 3
  AssetIds = {a1}
  NoAsset = noAsset
  MaxTokens = 1
  MaxCustody = 2
  MaxDisputes = 0
  MaxEvidence = 0
  Signers = {s1, s2}
  Operations <- MCOperations
  QuorumPercents = {0, 34}
  TimelockDelays = {0}
  InitialQuorum = 67
  InitialDelay = 1
  MaxProposals = 2
  MaxTime = 1
INVARIANTS
  ChainTypeOK
  ApprovalsAreDistinctSigners
PROPERTIES
  ExecutionAuthorized
  HighRiskOnlyByProposal
  SettledProposals
SYMMETRY SignerSymmetry
CHECK_DEADLOCK FALSE
