------------------------------ MODULE RoleStore ------------------------------
(***************************************************************************)
(* What granting a role promises: every collaborator has at most one role   *)
(* in each environment ("Workato just accept one role per environment"),    *)
(* and a grant replaces, in one step, the role of one collaborator in one   *)
(* environment and nothing else.  The promise ends when somebody else       *)
(* changes the roles: a grant may then put back what it read before.        *)
(***************************************************************************)
CONSTANTS Collaborators, Environments, RoleNames, NoRole

VARIABLES
  access,     \* access[c][e]: the role of c in environment e, or NoRole
  touched     \* somebody else has changed roles

vars == <<access, touched>>

AccessMaps == [Collaborators -> [Environments -> RoleNames \cup {NoRole}]]

Init == access \in AccessMaps /\ touched = FALSE

Assign(c, e, name) ==
  /\ access' = [access EXCEPT ![c][e] = name]
  /\ UNCHANGED touched

Interfere == touched' = TRUE /\ access' \in AccessMaps

Next ==
  \/ \E c \in Collaborators, e \in Environments, name \in RoleNames : Assign(c, e, name)
  \/ Interfere

Spec == Init /\ [][Next]_vars
=============================================================================
