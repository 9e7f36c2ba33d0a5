CONSTANTS
  Connectors <- MCOneConnector
  EnvOf <- MCEnvOfOne
  Slots = {s1, s2}
  Collaborators = {c1, c2}
  Environments <- MCEnvironments
  Roles <- MCCustomRole
  RoleNames <- MCCustomNames
  ResourceId <- MCCustomId
  DisplayName <- MCCustomName
  AnswerKinds <- HonestKinds
  NoRole = NoRole
  MaxEdits = 1
SPECIFICATION Spec
INVARIANTS TypeOK StaleOnlyInOwnEnv AtMostOneRolePerEnv NoForeignRoles AnswersAreBacked
PROPERTIES GrantsAreAtomic
SYMMETRY CollaboratorSymmetry
