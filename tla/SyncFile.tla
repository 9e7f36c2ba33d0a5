------------------------------- MODULE SyncFile -------------------------------
(***************************************************************************)
(* What a sync promises of the file it fills: rows are added and never lost, *)
(* a resource comes after one it can lie under, grants come after all        *)
(* resources, and the sync ends only when the file has everything.  The      *)
(* promise holds until the sync is interrupted.                              *)
(***************************************************************************)
CONSTANTS
  Resources,   \* what there is to store
  Grants,      \* the grants between resources
  Above        \* Above[r]: one of these must be stored before r, if there are any

VARIABLES
  rows,        \* the stored resources
  granted,     \* the stored grants
  ended,       \* the sync is over
  disturbed    \* the sync was interrupted at some time

vars == <<rows, granted, ended, disturbed>>

Init ==
  /\ rows = {}
  /\ granted = {}
  /\ ended = FALSE
  /\ disturbed = FALSE

AddResources ==
  /\ rows \subseteq rows' /\ rows' \subseteq Resources
  /\ \A r \in rows' \ rows : Above[r] = {} \/ Above[r] \cap rows # {}
  /\ UNCHANGED <<granted, ended, disturbed>>

AddGrants ==
  /\ rows = Resources
  /\ granted \subseteq granted' /\ granted' \subseteq Grants
  /\ UNCHANGED <<rows, ended, disturbed>>

End ==
  /\ rows = Resources /\ granted = Grants
  /\ ended' = TRUE
  /\ UNCHANGED <<rows, granted, disturbed>>

Break == disturbed' = TRUE

Fill == ~ ended /\ (AddResources \/ AddGrants \/ End)

Next == Fill \/ Break

Spec == Init /\ [][Next]_vars
=============================================================================
