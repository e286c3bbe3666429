SPECIFICATION FairSpec
CONSTANTS
  balanced = balanced  aggressive = aggressive
  Modes = {balanced, aggressive}
  FirstMode = balanced
  MaxVersion = 3
  MaxOnboardings = 2
INVARIANT TypeOK
PROPERTIES RevocationHolds MandateSettles ModesAgree
CHECK_DEADLOCK FALSE
