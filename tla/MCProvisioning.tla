--------------------------- MODULE MCProvisioning ---------------------------
(***************************************************************************)
(* Small workspaces for TLC: a base role, whose id is its name, and a       *)
(* custom role, whose id is a number; two environments; one process for     *)
(* "dev" alone, or a second one for "prod".                                 *)
(***************************************************************************)
EXTENDS Provisioning, TLC

MCEnvironments == {"dev", "prod"}
MCRoles == {"Operator", "custom"}
MCCustomRole == {"custom"}
MCCustomNames == {"Support", "77"}
MCCustomId == [r \in MCCustomRole |-> "77"]
MCCustomName == [r \in MCCustomRole |-> "Support"]
MCRoleNames == {"Operator", "Support", "77"}
MCResourceId == [r \in MCRoles |-> IF r = "custom" THEN "77" ELSE r]
MCDisplayName == [r \in MCRoles |-> IF r = "custom" THEN "Support" ELSE r]

MCOneConnector == {"n1"}
MCTwoConnectors == {"n1", "n2"}
MCEnvOfOne == [n \in MCOneConnector |-> "dev"]
MCEnvOfTwo == [n \in MCTwoConnectors |-> IF n = "n1" THEN "dev" ELSE "prod"]

\* Every kind of answer, a good and a bad one, and the kinds that doRequest judges
\* rightly for a write.
AllKinds == Kinds
FewKinds == {"ok", "retryable"}
HonestKinds == {"ok", "refused", "none"}

CollaboratorSymmetry == Permutations(Collaborators)
=============================================================================
