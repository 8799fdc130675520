SPECIFICATION Spec
CONSTANTS
  r1 = r1
  r2 = r2
  Requests = {r1, r2}
  MaxChallenges = 2
  MaxGeneration = 2
INVARIANTS
  ChallengeSingleUse
PROPERTIES
  VerificationJustified
  ChallengesSettle
SYMMETRY RequestSymmetry
