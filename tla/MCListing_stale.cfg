CONSTANTS
  Members = {m1}
  Environments <- MCEnvironments
  Env = "dev"
  CustomRoles <- MCRoles
  GivenRoles <- MCGivenRoles
  Params <- MCParams
  PageLimit = 1
  AnswerKinds <- OnlyOk
  MaxChanges = 0
  MaxSyncs = 1
  MaxFaults = 0
SPECIFICATION Spec
INVARIANT AnswersDieWithTheirSync
CHECK_DEADLOCK FALSE
