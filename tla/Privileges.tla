------------------------------ MODULE Privileges ------------------------------
(***************************************************************************)
(* The constant tables of pkg/connector/workato and the lookups in them: the *)
(* privileges of Workato by group, the roles every workspace has, and the   *)
(* search for the privileges that a role of the workspace names.  A table   *)
(* gives for each group the list of privilege names.                        *)
(***************************************************************************)
EXTENDS Naturals, Sequences, FiniteSets, TLC

All == <<"all">>
Crud == <<"read", "create", "update", "delete">>

BuildPrivileges ==
  "Runtime user connections" :> <<"read", "update", "delete">> @@
  "Event streams" :> Crud \o <<"view_history">> @@
  "Lookup tables" :> <<"read", "create", "update_records", "delete", "update_schema">> @@
  "People task" :> All @@
  "Recipes" :> Crud \o <<"run", "read_run_history">> @@
  "Folders" :> Crud @@
  "Projects" :> Crud

AssetPrivileges ==
  "Connections" :> Crud @@
  "Connector SDK" :> All @@
  "Use in recipes" :> All @@
  "On-prem groups & agents" :> Crud @@
  "Connection - on-prem files" :> All @@
  "Connection - command line scripts" :> All @@
  "Project folder" :> All @@
  "Connection Folders" :> All @@
  "Common data models" :> Crud @@
  "Message templates" :> Crud @@
  "Workbot" :> Crud @@
  "Job History Search" :> Crud

AdminPrivileges ==
  "Test automation" :> <<"read", "manage_test_cases">> @@
  "Data masking" :> All @@
  "Environment properties" :> <<"read", "update_records", "create", "delete">> @@
  "Project properties" :> <<"read", "update_records", "create", "delete">> @@
  "Secrets management" :> <<"read", "update">> @@
  "Activity audit" :> All @@
  "Collaborator SAML SSO auth" :> All @@
  "Collaborators" :> All @@
  "Recipe lifecycle management" :> All @@
  "Collaborator roles (non-system)" :> All @@
  "Developer API" :> All @@
  "Workspace settings" :> All @@
  "Debug, Log and Security" :> All @@
  "Network trace" :> All

Table == BuildPrivileges @@ AssetPrivileges @@ AdminPrivileges

\* The places of a table, and what stands there.
Places(param) == UNION {{<<group, i>> : i \in DOMAIN param[group]} : group \in DOMAIN param}
At(param, place) == [resource |-> place[1], id |-> param[place[1]][place[2]]]

AllCompoundPrivileges == {At(Table, place) : place \in Places(Table)}

PrivilegeId(group, privilege) == group \o "-" \o privilege

\* The places of param that name a privilege of the table, and these privileges.
\* The list comes in the random order of Go's maps, so it is a set here.
Matches(param) == {place \in Places(param) : At(param, place) \in AllCompoundPrivileges}
FindRelatedPrivileges(param) == {At(param, place) : place \in Matches(param)}

\* (mutant) Unknown names are passed over.
FindRelatedPrivilegesErr_Lenient(param) == [found |-> TRUE, list |-> FindRelatedPrivileges(param)]

\* The lookup fails when fewer privileges are found than are named.
FindRelatedPrivilegesErr(param) ==
  IF Cardinality(Matches(param)) # Cardinality(Places(param))
  THEN [found |-> FALSE, list |-> {}]
  ELSE [found |-> TRUE, list |-> FindRelatedPrivileges(param)]

analystBaseRoles ==
  "Runtime user connections" :> <<"read", "update", "delete">> @@
  "Event streams" :> Crud \o <<"view_history">> @@
  "Lookup tables" :> <<"read", "create", "update_records", "delete", "update_schema">> @@
  "People task" :> All @@
  "Recipes" :> Crud \o <<"run", "read_run_history">> @@
  "Folders" :> Crud @@
  "Projects" :> Crud @@
  "Connections" :> Crud @@
  "Connector SDK" :> All @@
  "Use in recipes" :> All @@
  "On-prem groups & agents" :> Crud @@
  "Connection - on-prem files" :> All @@
  "Connection - command line scripts" :> All @@
  "Project folder" :> All @@
  "Connection Folders" :> All @@
  "Common data models" :> Crud @@
  "Message templates" :> Crud @@
  "Workbot" :> Crud @@
  "Job History Search" :> Crud @@
  "Test automation" :> <<"read", "manage_test_cases">> @@
  "Data masking" :> All @@
  "Environment properties" :> <<"read", "update_records", "create", "delete">> @@
  "Project properties" :> <<"read", "update_records", "create", "delete">> @@
  "Secrets management" :> <<"read">>

operatorBaseRoles ==
  "Recipes" :> <<"read", "run", "read_run_history">> @@
  "Folders" :> <<"read">> @@
  "Projects" :> <<"read">> @@
  "Use in recipes" :> All @@
  "Test automation" :> <<"read">>

\* The tables of the base roles name nothing that the table of privileges lacks.
ASSUME TablesAssumption ==
  \A param \in {analystBaseRoles, operatorBaseRoles} :
    \A place \in Places(param) : At(param, place) \in AllCompoundPrivileges

\* The roles of every workspace with their privileges.
BaseRoles ==
  [name \in {"Admin", "Analyst", "Operator"} |->
     CASE name = "Admin"    -> AllCompoundPrivileges
       [] name = "Analyst"  -> FindRelatedPrivileges(analystBaseRoles)
       [] name = "Operator" -> FindRelatedPrivileges(operatorBaseRoles)]

IsBaseRole(name) == name \in DOMAIN BaseRoles
=============================================================================
