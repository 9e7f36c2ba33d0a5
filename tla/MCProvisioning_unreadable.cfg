CONSTANTS
  Connectors <- MCOneConnector
  EnvOf <- MCEnvOfOne
  Slots = {s1}
  Collaborators = {c1}
  Environments <- MCEnvironments
  Roles <- MCRoles
  RoleNames <- MCRoleNames
  ResourceId <- MCResourceId
  DisplayName <- MCDisplayName
  AnswerKinds <- FewKinds
  NoRole = NoRole
  MaxEdits = 0
SPECIFICATION Spec
INVARIANTS StaysReadable
