CONSTANTS
  Connectors <- MCTwoConnectors
  EnvOf <- MCEnvOfTwo
  Slots = {s1}
  Collaborators = {c1}
  Environments <- MCEnvironments
  Roles <- MCCustomRole
  RoleNames <- MCCustomNames
  ResourceId <- MCCustomId
  DisplayName <- MCCustomName
  AnswerKinds <- FewKinds
  NoRole = NoRole
  MaxEdits = 0
SPECIFICATION Spec
PROPERTIES GrantsNeverRevoke
