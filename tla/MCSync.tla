-------------------------------- MODULE MCSync --------------------------------
(***************************************************************************)
(* A workspace for TLC: one member, one privilege, a base role and a custom *)
(* role, two projects, one of them with a folder below its root folder.     *)
(* The small one has no custom role and one project.                        *)
(***************************************************************************)
EXTENDS Sync

Res(t, i) == [type |-> t, id |-> i]

Ann == Res("collaborator", "ann")
Read == Res("privilege", "read")
Base == Res("role", "Operator")
Custom == Res("role", "77")
Blue == Res("project", "blue")
Red == Res("project", "red")
BlueRoot == Res("folder", "blue root")
RedRoot == Res("folder", "red root")
Sub == Res("folder", "sub")

Listing == <<Ann, Read, Base, Custom, Blue, Red, BlueRoot, RedRoot, Sub>>
RankIn(S) == [r \in S |-> CHOOSE i \in 1 .. Len(Listing) : Listing[i] = r]

MCResources == {Listing[i] : i \in 1 .. Len(Listing)}
MCRank == RankIn(MCResources)
MCParentOf == [f \in {BlueRoot, RedRoot, Sub} |->
                 IF f = BlueRoot THEN Blue ELSE IF f = RedRoot THEN Red ELSE RedRoot]
MCBaseRoles == {Base}
MCAccess == {<<Read, Ann>>, <<Custom, Ann>>, <<Sub, Ann>>}
MCUses == {<<Base, Read>>, <<Custom, Read>>, <<Custom, Sub>>}

\* No custom role, one project.
SmallResources == {Ann, Read, Base, Blue, BlueRoot, RedRoot}
SmallRank == RankIn(SmallResources)
SmallParentOf == [f \in {BlueRoot, RedRoot} |-> IF f = BlueRoot THEN Blue ELSE BlueRoot]
SmallAccess == {<<Read, Ann>>, <<Base, Ann>>, <<RedRoot, Ann>>}
SmallUses == {<<Base, Read>>}

\* An order of the resource types, and its reverse.
TwoOrders == {<<"collaborator", "privilege", "role", "folder", "project">>,
              <<"project", "folder", "role", "privilege", "collaborator">>}

PatientKinds == {"ok", "none"}
OnlyOk == {"ok"}
=============================================================================
