------------------------------- MODULE Builders -------------------------------
(***************************************************************************)
(* What the resource builders of pkg/connector answer to the SDK: List and  *)
(* Grants as functions of the workspace, the page token and the builder's   *)
(* in-memory caches.  The workspace does not change while it is synced, and *)
(* the caches hold what the requests that built them returned.              *)
(***************************************************************************)
EXTENDS HttpClient, FiniteSets, Sequences

CONSTANTS
  Resources,    \* everything there is to sync: [type |-> t, id |-> i]
  Rank,         \* Rank[r]: the place of r in the answers of the workspace
  ParentOf,     \* ParentOf[f]: the project or folder that folder f lies in
  BaseRoles,    \* the roles that come from the connector's own table
  Access,       \* <<r, c>>: member c has role, folder or privilege r
  Uses,         \* <<x, r>>: role x gives privilege r or opens folder r
  PageLimit,    \* elements of a page of roles, projects or folders
  AnswerKinds,  \* the kinds of answer the workspace may give
  Nobody        \* no resource

Types == {"collaborator", "privilege", "role", "folder", "project"}
OfType(t) == {r \in Resources : r.type = t}
CustomRoles == OfType("role") \ BaseRoles

\* Folders form trees: every set of folders has one whose parent is not among them.
ASSUME BuildersAssumption ==
  /\ IsFiniteSet(Resources)
  /\ \A r \in Resources : r.type \in Types
  /\ Rank \in [Resources -> Nat]
  /\ \A r, s \in Resources : Rank[r] = Rank[s] => r = s
  /\ ParentOf \in [OfType("folder") -> OfType("folder") \cup OfType("project")]
  /\ \A S \in SUBSET OfType("folder") : S # {} => \E f \in S : ParentOf[f] \notin S
  /\ BaseRoles \subseteq OfType("role")
  /\ Access \subseteq ((OfType("role") \cup OfType("folder") \cup OfType("privilege"))
                      \X OfType("collaborator"))
  /\ Uses \subseteq (OfType("role") \X (OfType("privilege") \cup OfType("folder")))
  /\ PageLimit \in Nat \ {0}
  /\ AnswerKinds \subseteq Kinds
  /\ Nobody \notin Resources

\* The members of S one after the other, as a listing gives them.
Position(S, r) == Cardinality({q \in S : Rank[q] <= Rank[r]})
Ordered(S) == [i \in 1 .. Cardinality(S) |-> CHOOSE r \in S : Position(S, r) = i]

-----------------------------------------------------------------------------
(* The client's paged listings *)

\* The page number a token stands for: "" is page 0.
PageNumber(token) == IF token = << >> THEN 0 ELSE token[1]

Page(S, n) == {r \in S : n * PageLimit < Position(S, r) /\ Position(S, r) <= (n + 1) * PageLimit}

\* (mutant) A page that is not full is taken for an inner one.
NextToken_Short(page, n) == IF page # {} /\ Cardinality(page) # PageLimit THEN <<n + 1>> ELSE << >>

\* A full page may have a successor; any other page is the last one.
NextToken(page, n) == IF Cardinality(page) = PageLimit THEN <<n + 1>> ELSE << >>

\* Some bad answer reaches the caller as an empty result; some request gets no
\* answer, and the syncer is told to try it again.
Dropping == \E kind \in AnswerKinds : kind # "ok" /\ doRequest(kind) = "nil"
TimingOut == "none" \in AnswerKinds /\ doRequest("none") = "error"

\* What a request for the set S may return without an error.
Reads(S) == {S} \cup (IF Dropping THEN {{}} ELSE {})

\* The roles that come together when pages are read until one is not full, or
\* until a request fails.
FirstPages == {UNION {Page(CustomRoles, m) : m \in 0 .. n - 1} : n \in 0 .. Cardinality(CustomRoles)}
RoleReads == {CustomRoles} \cup (IF Dropping THEN FirstPages ELSE {})

-----------------------------------------------------------------------------
(* List *)

Root(f) == ParentOf[f].type = "project"

\* (mutant) Under a folder the folders of every folder are listed.
Listed_AllFolders(t, parent) ==
  CASE t = "role"   -> CustomRoles
    [] t = "folder" -> IF parent = Nobody THEN {}
                       ELSE {f \in OfType("folder") : Root(f) <=> parent.type = "project"}
    [] OTHER        -> OfType(t)

\* What there is to list for a type under a parent.  Under a project the folder
\* builder lists the root folders of all projects, and without a parent none.
Listed(t, parent) ==
  CASE t = "role"   -> CustomRoles
    [] t = "folder" -> IF parent = Nobody THEN {}
                       ELSE IF parent.type = "project" THEN {f \in OfType("folder") : Root(f)}
                       ELSE {f \in OfType("folder") : ParentOf[f] = parent}
    [] OTHER        -> OfType(t)

\* Projects, roles and folders come in pages, the rest at once.
Paged(t, parent) == t \in {"role", "project"} \/ (t = "folder" /\ parent # Nobody)

\* The resources of one page as they may be read, the base roles added to each.
ListReads(t, parent, token) ==
  IF Paged(t, parent)
  THEN Reads(Page(Listed(t, parent), PageNumber(token)))
  ELSE IF t = "collaborator" THEN Reads(Listed(t, parent)) ELSE {Listed(t, parent)}

ListNext(t, parent, token, page) ==
  IF Paged(t, parent) THEN NextToken(page, PageNumber(token)) ELSE << >>

WithBaseRoles(t, page) == IF t = "role" THEN page \cup BaseRoles ELSE page

\* The first page of privileges and roles, and of folders without a parent, fills
\* the builder's collaborator cache; roles and folders fill a role cache as well.
BuildsPeople(t, parent, token) ==
  token = << >> /\ (t \in {"privilege", "role"} \/ (t = "folder" /\ parent = Nobody))

\* (mutant) Only the folders fill a role cache.
BuildsRoles_Folder(t, parent, token) == BuildsPeople(t, parent, token) /\ t = "folder"

BuildsRoles(t, parent, token) == BuildsPeople(t, parent, token) /\ t # "privilege"

-----------------------------------------------------------------------------
(* Grants *)

Grant(r, principal) == [on |-> r, to |-> principal]

PeopleGrants(r, people) == {Grant(r, c) : c \in {c \in people : <<r, c>> \in Access}}

\* The privileges of a role, the roles that open a folder.
PrivilegeGrants(x) == {Grant(x, v) : v \in {v \in OfType("privilege") : <<x, v>> \in Uses}}
FolderGrants(f, roles) == {Grant(f, x) : x \in {x \in roles : <<x, f>> \in Uses}}

\* A custom role must be in the role cache.
GrantsFail(r, roles) == r \in CustomRoles /\ r \notin roles

\* (mutant) Both kinds of a folder's grants are pushed, only one is popped.
NextGrants_One(r, token) ==
  IF r.type = "folder" /\ token = << >> THEN <<"role">> ELSE << >>

\* The grants of a folder come in a first, empty page, the page of the roles and
\* the page of the collaborators: the bag in the token says which are left.
NextGrants(r, token) ==
  IF r.type # "folder" THEN << >>
  ELSE IF token = << >> THEN <<"collaborator", "role">>
  ELSE SubSeq(token, 1, Len(token) - 1)

GrantsPage(r, token, people, roles) ==
  CASE r.type = "privilege" -> PeopleGrants(r, people)
    [] r.type = "role"      -> PeopleGrants(r, people) \cup PrivilegeGrants(r)
    [] r.type = "folder"    ->
         IF token = << >> THEN {}
         ELSE IF token[Len(token)] = "collaborator" THEN PeopleGrants(r, people)
         ELSE FolderGrants(r, roles)
    [] OTHER                -> {}
=============================================================================
