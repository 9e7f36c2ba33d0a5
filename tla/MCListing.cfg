CONSTANTS
  Members = {m1}
  Environments <- MCEnvironments
  Env = "dev"
  CustomRoles <- MCRoles
  GivenRoles <- MCGivenRoles
  Params <- MCParams
  PageLimit = 1
  AnswerKinds <- MixedKinds
  MaxChanges = 1
  MaxSyncs = 2
  MaxFaults = 1
SPECIFICATION Spec
INVARIANTS TypeOK ListedAreKnown BuildersAgree LastingAreListed 
PROPERTIES CalmSyncIsExact
CHECK_DEADLOCK FALSE
