SPECIFICATION Spec
CONSTANTS
  r1 = r1
  r2 = r2
  a = a
  b = b
  c = c
  Requests = {r1, r2}
  Identities = {a, b, c}
  Managers = {a, b}
  Admins = {c}
  NoOne = NoOne
  OperatorWallet = OperatorWallet
  Classification = "CRITICAL"
  MaxMoves = 2
  MaxAsked = 1
PROPERTIES
  TransferNeedsThreeParties
  AuthorizedByApproval
  RowCustodianFollowsChain
SYMMETRY CustodySymmetry
