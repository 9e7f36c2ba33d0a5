CONSTANTS
  Resources <- MCResources
  Rank <- MCRank
  ParentOf <- MCParentOf
  BaseRoles <- MCBaseRoles
  Access <- MCAccess
  Uses <- MCUses
  PageLimit = 1
  AnswerKinds <- PatientKinds
  Nobody = Nobody
  TypeOrders <- TwoOrders
  MaxStops = 1
SPECIFICATION FairSpec
INVARIANTS TypeOK WorkIsPending NamedAreStored GrantsAreRooted OnlyFoldersAreLost FoldersUnderTheirParent GrantsFindTheirRole
PROPERTIES FileIsComplete SyncEnds
CHECK_DEADLOCK FALSE
