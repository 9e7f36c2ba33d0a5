CONSTANTS
  Resources <- SmallResources
  Rank <- SmallRank
  ParentOf <- SmallParentOf
  BaseRoles <- MCBaseRoles
  Access <- SmallAccess
  Uses <- SmallUses
  PageLimit = 2
  AnswerKinds <- OnlyOk
  Nobody = Nobody
  TypeOrders <- TwoOrders
  MaxStops = 1
SPECIFICATION Spec
INVARIANTS GrantsEverything
CHECK_DEADLOCK FALSE
