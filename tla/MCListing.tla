------------------------------- MODULE MCListing -------------------------------
(***************************************************************************)
(* Small workspaces for TLC: one member, two environments, two custom roles *)
(* with privileges of the table or with one the table does not know.        *)
(***************************************************************************)
EXTENDS Listing

MCEnvironments == {"dev", "prod"}
MCRoles == {"Support", "Audit"}
MCGivenRoles == {"Operator"}

Good == "Recipes" :> <<"read", "run">>
Unknown == "Recipes" :> <<"read">> @@ "Genies" :> <<"read">>
MCParams == {Good, Unknown}

\* Good answers, answers that are dropped, and requests that fail.
MixedKinds == {"ok", "retryable", "none", "refused"}
OnlyOk == {"ok"}
=============================================================================
