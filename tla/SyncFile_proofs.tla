---------------------------- MODULE SyncFile_proofs ----------------------------
(***************************************************************************)
(* A sync that is not interrupted fills its file completely: nothing falls  *)
(* between two actions of the stack, the grants find the caches filled, and *)
(* Sync implements SyncFile, for every workspace, page size and order of    *)
(* the resource types, however often a listing is tried again.              *)
(***************************************************************************)
EXTENDS SyncStages_proofs

-----------------------------------------------------------------------------
(* The invariant *)

\* Nothing is stored before the listings, and no grant before the grants.
NothingYet(k) ==
  /\ k >= 4 => db.stored = {}
  /\ k >= 2 => db.grants = {}

\* A folder whose parent is stored is stored or listed by an action of the stack.
FoldersPending(k) ==
  k <= 3 => \A f \in OfType("folder") \ db.stored :
              ParentOf[f] \in db.stored => \E a \in Range(actions) : StillLists(a, f)

\* A builder's caches are filled, or the listing that fills them is to come.
FirstOf(b) == Action("resources", b, Nobody, << >>)
CachesPending(k) ==
  k <= 3 => /\ \A b \in DOMAIN people :
                 people[b] = OfType("collaborator") \/ FirstOf(b) \in Range(actions)
            /\ \A b \in DOMAIN roles :
                 roles[b] = CustomRoles \/ FirstOf(b) \in Range(actions)

\* The tokens a folder's grants go through, and what an action for grants still makes.
FolderPages == {<< >>, <<"collaborator", "role">>, <<"collaborator">>}
GrantPages(r) == IF r.type = "folder" THEN FolderPages ELSE {<< >>}
Makes(page, g) == g.on.type = "folder" /\ page # << >> => g.to.type \in Range(page)
StillGrants(a, g) == a.op = "grants" /\ a.on = g.on /\ Makes(a.page, g)

\* A grant of the workspace is stored or made by an action of the stack.
GrantsPending(k) ==
  /\ db.grants \subseteq AllGrants
  /\ k <= 1 => \A g \in AllGrants \ db.grants : \E a \in Range(actions) : StillGrants(a, g)
  /\ k = 1 => \A a \in Range(actions) : a.op = "grants" => a.page \in GrantPages(a.on)

\* What holds at stage k of a sync that was not interrupted.
Calm(k) == NothingYet(k) /\ FoldersPending(k) /\ CachesPending(k) /\ GrantsPending(k)

CalmInv ==
  /\ phase # "running" => actions = << >>
  /\ stops = 0 =>
       /\ phase = "running" => \E k \in 0 .. 6 : Running(k) /\ Calm(k)
       /\ phase = "off" => db = EmptyStore /\ disk = EmptyStore

-----------------------------------------------------------------------------
(* After the listings *)

\* All resources are stored and all caches filled.
Complete ==
  /\ db.stored = Resources
  /\ \A b \in DOMAIN people : people[b] = OfType("collaborator")
  /\ \A b \in DOMAIN roles : roles[b] = CustomRoles

\* If nothing is missing but folders whose parent is missing too, nothing is missing:
\* the folders form trees.
LEMMA TreeComplete ==
  ASSUME NEW S \in SUBSET Resources,
         \A r \in Resources : r.type # "folder" => r \in S,
         \A f \in OfType("folder") \ S : ParentOf[f] \notin S
  PROVE  S = Resources
<1>. DEFINE M == OfType("folder") \ S
<1>1. ASSUME M # {} PROVE FALSE
  <2>1. PICK f \in M : ParentOf[f] \notin M
    BY <1>1, BuildersAssumption
  <2>2. ParentOf[f] \in OfType("folder") \cup OfType("project")
    BY <2>1, BuildersAssumption
  <2>. QED
    BY <2>1, <2>2 DEF OfType
<1>. QED
  BY <1>1 DEF OfType

\* Once the listings are done, everything is stored and every cache is filled.
LEMMA CalmComplete ==
  ASSUME StackInv, NEW k \in 0 .. 3, Running(k), Calm(k), k = 3 => Len(actions) = 3
  PROVE  Complete
<1>1. /\ actions \in Seq(Named(db.stored)) /\ Good(k, actions, db) /\ Stage(k, actions)
      /\ db.stored \in SUBSET Resources
  BY DEF StackInv, StoreInv, RowsOK, Running, Good
<1>2. \A r \in Resources : r.type # "folder" => r \in db.stored
  BY <1>1, RowsComplete
<1>3. \A f \in OfType("folder") \ db.stored : ParentOf[f] \notin db.stored
  BY <1>1, NoListing DEF Calm, FoldersPending
<1>4. db.stored = Resources
  BY <1>1, <1>2, <1>3, TreeComplete
<1>5. \A b : FirstOf(b) \notin Range(actions)
  <2>. TAKE b
  <2>1. FirstOf(b).op = "resources"
    BY DEF FirstOf, Action
  <2>. QED
    BY <1>1, <2>1, LateOps
<1>. QED
  BY <1>4, <1>5 DEF Complete, Calm, CachesPending

-----------------------------------------------------------------------------
(* Grants *)

\* The grants of the workspace, by the type of what they are on.
LEMMA GrantKinds ==
  ASSUME NEW g \in AllGrants
  PROVE  /\ g = Grant(g.on, g.to) /\ g.on \in WithGrants(Resources)
         /\ g.on.type \in {"privilege", "role", "folder"}
         /\ \/ g.to \in OfType("collaborator") /\ <<g.on, g.to>> \in Access
            \/ g.on.type = "role" /\ g.to \in OfType("privilege") /\ <<g.on, g.to>> \in Uses
            \/ g.on.type = "folder" /\ g.to \in CustomRoles /\ <<g.to, g.on>> \in Uses
<1>1. \A x, y : Grant(x, y).on = x /\ Grant(x, y).to = y
  BY DEF Grant
<1>2. CASE \E p \in Access : g = Grant(p[1], p[2])
  <2>1. PICK p \in Access : g = Grant(p[1], p[2])
    BY <1>2
  <2>2. /\ p = <<p[1], p[2]>> /\ p[2] \in OfType("collaborator")
        /\ p[1] \in OfType("role") \cup OfType("folder") \cup OfType("privilege")
    BY <2>1, BuildersAssumption
  <2>. QED
    BY <1>1, <2>1, <2>2 DEF OfType, WithGrants
<1>3. CASE \E p \in {p \in Uses : p[2].type = "privilege"} : g = Grant(p[1], p[2])
  <2>1. PICK p \in Uses : p[2].type = "privilege" /\ g = Grant(p[1], p[2])
    BY <1>3
  <2>2. /\ p = <<p[1], p[2]>> /\ p[1] \in OfType("role")
        /\ p[2] \in OfType("privilege") \cup OfType("folder")
    BY <2>1, BuildersAssumption
  <2>. QED
    BY <1>1, <2>1, <2>2 DEF OfType, WithGrants
<1>4. CASE \E p \in {p \in Uses : p[2].type = "folder" /\ p[1] \in CustomRoles} : g = Grant(p[2], p[1])
  <2>1. PICK p \in Uses : p[2].type = "folder" /\ p[1] \in CustomRoles /\ g = Grant(p[2], p[1])
    BY <1>4
  <2>2. /\ p = <<p[1], p[2]>> /\ p[1] \in OfType("role")
        /\ p[2] \in OfType("privilege") \cup OfType("folder")
    BY <2>1, BuildersAssumption
  <2>. QED
    BY <1>1, <2>1, <2>2 DEF OfType, WithGrants
<1>. QED
  BY <1>2, <1>3, <1>4 DEF AllGrants

\* A page of grants has only grants of the workspace.
LEMMA PageOfGrants ==
  ASSUME CachesOK, NEW r \in Resources, NEW page
  PROVE  GrantsPage(r, page, PeopleOf(r), RolesOf(r)) \subseteq AllGrants
<1>1. RolesOf(r) \subseteq CustomRoles
  BY DEF CachesOK, RolesOf
<1>2. PeopleGrants(r, PeopleOf(r)) \subseteq AllGrants
  <2>1. \A c : <<r, c>> \in Access => Grant(r, c) \in {Grant(p[1], p[2]) : p \in Access}
    OBVIOUS
  <2>. QED
    BY <2>1 DEF PeopleGrants, AllGrants
<1>3. PrivilegeGrants(r) \subseteq AllGrants
  <2>1. \A v \in OfType("privilege") : <<r, v>> \in Uses =>
          Grant(r, v) \in {Grant(p[1], p[2]) : p \in {p \in Uses : p[2].type = "privilege"}}
    BY DEF OfType
  <2>. QED
    BY <2>1 DEF PrivilegeGrants, AllGrants
<1>4. r.type = "folder" => FolderGrants(r, RolesOf(r)) \subseteq AllGrants
  <2>1. \A x \in CustomRoles : <<x, r>> \in Uses /\ r.type = "folder" =>
          Grant(r, x) \in {Grant(p[2], p[1]) : p \in {p \in Uses : p[2].type = "folder" /\ p[1] \in CustomRoles}}
    OBVIOUS
  <2>. QED
    BY <1>1, <2>1 DEF FolderGrants, AllGrants
<1>. QED
  BY <1>2, <1>3, <1>4 DEF GrantsPage

\* The tokens a folder's grants go through, one after the other.
LEMMA FolderTokens ==
  /\ << >> # <<"collaborator", "role">> /\ << >> # <<"collaborator">>
  /\ \A r : r.type = "folder" =>
       /\ NextGrants(r, << >>) = <<"collaborator", "role">>
       /\ NextGrants(r, <<"collaborator", "role">>) = <<"collaborator">>
       /\ NextGrants(r, <<"collaborator">>) = << >>
  /\ Range(<<"collaborator", "role">>) = {"collaborator", "role"}
  /\ Range(<<"collaborator">>) = {"collaborator"}
<1>1. << >> # <<"collaborator", "role">> /\ << >> # <<"collaborator">>
  OBVIOUS
<1>2. /\ SubSeq(<<"collaborator", "role">>, 1, 2 - 1) = <<"collaborator">>
      /\ SubSeq(<<"collaborator">>, 1, 1 - 1) = << >>
  <2>. DEFINE t == <<"collaborator", "role">>
              u == SubSeq(t, 1, 1)
  <2>1. t[1] = "collaborator" /\ \A i \in 1 .. 1 : t[i] \in {"collaborator"}
    OBVIOUS
  <2>. HIDE DEF t
  <2>2. /\ u \in Seq({"collaborator"})
        /\ Len(u) = IF 1 <= 1 THEN 1 - 1 + 1 ELSE 0
        /\ \A i \in 1 .. 1 - 1 + 1 : u[i] = t[1 + i - 1]
    BY <2>1, SubSeqProperties
  <2>. HIDE DEF u
  <2>3. Len(u) = 1 /\ u[1] = "collaborator"
    BY <2>1, <2>2
  <2>4. u = <<"collaborator">>
    BY <2>2, <2>3
  <2>5. SubSeq(<<"collaborator">>, 1, 1 - 1) = << >>
    BY SubSeqEmpty
  <2>6. 2 - 1 = 1
    OBVIOUS
  <2>. QED
    BY <2>4, <2>5, <2>6 DEF t, u
<1>3. Len(<<"collaborator", "role">>) = 2 /\ Len(<<"collaborator">>) = 1
  OBVIOUS
<1>4. /\ Range(<<"collaborator", "role">>) = {"collaborator", "role"}
      /\ Range(<<"collaborator">>) = {"collaborator"}
  BY DEF Range
<1>. QED
  BY <1>1, <1>2, <1>3, <1>4 DEF NextGrants

\* A grant that a page's action makes is on the page, or the next page makes it.
LEMMA GrantsGoOn ==
  ASSUME Complete, CachesOK, NEW g \in AllGrants, NEW page \in GrantPages(g.on), Makes(page, g),
         g \notin GrantsPage(g.on, page, PeopleOf(g.on), RolesOf(g.on))
  PROVE  NextGrants(g.on, page) # << >> /\ Makes(NextGrants(g.on, page), g)
<1>. DEFINE r == g.on
<1>1. /\ r.type \in {"privilege", "role", "folder"}
      /\ PeopleOf(r) = OfType("collaborator")
      /\ r.type # "privilege" => RolesOf(r) = CustomRoles
  <2>1. r.type \in {"privilege", "role", "folder"}
    BY GrantKinds
  <2>2. DOMAIN people = {"privilege", "role", "folder"} /\ DOMAIN roles = {"role", "folder"}
    BY DEF CachesOK
  <2>. QED
    BY <2>1, <2>2 DEF Complete, PeopleOf, RolesOf
<1>2. g = Grant(r, g.to)
  BY GrantKinds
<1>3. CASE g.to \in OfType("collaborator") /\ <<r, g.to>> \in Access
  <2>1. g \in PeopleGrants(r, PeopleOf(r))
    BY <1>1, <1>2, <1>3 DEF PeopleGrants
  <2>2. r.type = "folder" /\ page # <<"collaborator">>
    BY <1>1, <2>1 DEF GrantsPage
  <2>3. page = << >> \/ page = <<"collaborator", "role">>
    BY <2>2 DEF GrantPages, FolderPages
  <2>4. g.to.type = "collaborator"
    BY <1>3 DEF OfType
  <2>. QED
    BY <2>2, <2>3, <2>4, FolderTokens DEF Makes
<1>4. CASE r.type = "role" /\ g.to \in OfType("privilege") /\ <<r, g.to>> \in Uses
  BY <1>2, <1>4 DEF PrivilegeGrants, GrantsPage
<1>5. CASE r.type = "folder" /\ g.to \in CustomRoles /\ <<g.to, r>> \in Uses
  <2>1. g \in FolderGrants(r, RolesOf(r))
    BY <1>1, <1>2, <1>5 DEF FolderGrants
  <2>2. page # <<"collaborator", "role">>
    <3>1. ASSUME page = <<"collaborator", "role">> PROVE page # << >> /\ page[Len(page)] = "role"
      BY <3>1
    <3>2. "role" # "collaborator" /\ "folder" # "privilege" /\ "folder" # "role"
      OBVIOUS
    <3>. QED
      BY <1>5, <2>1, <3>1, <3>2 DEF GrantsPage
  <2>3. g.to.type = "role"
    BY <1>5 DEF CustomRoles, OfType
  <2>4. page = << >>
    BY <1>5, <2>2, <2>3, FolderTokens DEF GrantPages, FolderPages, Makes
  <2>. QED
    BY <1>5, <2>3, <2>4, FolderTokens DEF Makes
<1>. QED
  BY <1>3, <1>4, <1>5, GrantKinds

\* The token of the next page of grants is one of those a resource of its type goes through.
LEMMA NextGrantPage ==
  ASSUME NEW r, NEW page \in GrantPages(r)
  PROVE  NextGrants(r, page) \in GrantPages(r)
BY FolderTokens DEF GrantPages, FolderPages, NextGrants

-----------------------------------------------------------------------------
(* Steps *)

\* The rows after a turn that goes on.
LEMMA ContinueRows ==
  ASSUME NEW s, NEW d, Continue(s, d), RowsOK(d)
  PROVE  /\ db'.stored = d.stored /\ db'.grants = d.grants /\ actions' = s
         /\ phase' = phase /\ disk' = disk /\ stops' = stops
BY DEF Continue, RowsOK

\* What is complete stays so while no listing is made.
LEMMA StaysComplete ==
  ASSUME Complete, db'.stored = db.stored, UNCHANGED <<people, roles>>
  PROVE  Complete'
BY DEF Complete

\* What is complete leaves nothing pending.
LEMMA CompleteCalmNext ==
  ASSUME Complete', NEW k
  PROVE  FoldersPending(k)' /\ CachesPending(k)'
BY DEF Complete, FoldersPending, CachesPending, OfType

\* The plan of the sync is laid out; nothing is stored yet.
LEMMA BeginCalm ==
  ASSUME StackInv, NEW k \in 0 .. 6, Running(k), Calm(k), Begin
  PROVE  Calm(5)'
<1>1. k = 6
  BY StageTurn DEF Begin, StackInv, Running, Good
<1>2. db'.stored = db.stored /\ db'.grants = db.grants
  BY DEF Begin, StackInv, StoreInv, RowsOK
<1>. QED
  BY <1>1, <1>2 DEF Calm, NothingYet, FoldersPending, CachesPending, GrantsPending

\* The types are stored, which no listing depends on.
LEMMA TypesCalm ==
  ASSUME StackInv, NEW k \in 0 .. 6, Running(k), Calm(k), SyncResourceTypes
  PROVE  Calm(4)'
<1>1. PICK order \in TypeOrders :
        Continue(Rest, [db EXCEPT !.types = IF @ = << >> THEN order ELSE @])
  BY DEF SyncResourceTypes
<1>. DEFINE d == [db EXCEPT !.types = IF @ = << >> THEN order ELSE @]
<1>2. RowsOK(d) /\ d.stored = db.stored /\ d.grants = db.grants /\ Continue(Rest, d)
  BY <1>1 DEF StackInv, StoreInv, RowsOK
<1>. HIDE DEF d
<1>3. k = 5 /\ db'.stored = db.stored /\ db'.grants = db.grants
  BY <1>2, TypesStage, ContinueRows
<1>. QED
  BY <1>3 DEF Calm, NothingYet, FoldersPending, CachesPending, GrantsPending

\* A listing of each type is to come, and these fill the caches.
LEMMA AllResourcesCalm ==
  ASSUME StackInv, NEW k \in 0 .. 6, Running(k), Calm(k), SyncAllResources
  PROVE  Calm(3)'
<1>1. /\ k = 4
      /\ \A t \in Types : FirstOf(t) \in Range(actions')
  BY AllResourcesStage DEF FirstOf
<1>2. db'.stored = db.stored /\ db'.grants = db.grants /\ people' = people /\ roles' = roles
  BY ContinueRows DEF SyncAllResources, StackInv, StoreInv
<1>3. DOMAIN people \subseteq Types /\ DOMAIN roles \subseteq Types
  BY DEF StackInv, CachesOK, Types
<1>. QED
  BY <1>1, <1>2, <1>3 DEF Calm, NothingYet, FoldersPending, CachesPending, GrantsPending

\* A listing that makes room for the folders of its page.
LEMMA ResourcesFolders ==
  ASSUME NothingDropped, StackInv, Turn("resources", TRUE), Stage(3, Rest), FoldersPending(3),
         NEW page \in ListReads(Current.type, Current.on, Current.page),
         NewOf(page) \in SUBSET Resources,
         actions' = StackAfter(page), db'.stored = db.stored \cup NewOf(page)
  PROVE  FoldersPending(3)'
<1>. SUFFICES ASSUME NEW f \in OfType("folder") \ db'.stored, ParentOf[f] \in db'.stored
              PROVE  \E a \in Range(StackAfter(page)) : StillLists(a, f)
  BY DEF FoldersPending
<1>1. f \notin db.stored \cup NewOf(page)
  OBVIOUS
<1>2. CASE ParentOf[f] \in db.stored
  <2>1. PICK a \in Range(actions) : StillLists(a, f)
    BY <1>1, <1>2 DEF FoldersPending
  <2>. QED
    BY <1>1, <2>1, ListingKept
<1>3. CASE ParentOf[f] \in NewOf(page)
  <2>. DEFINE p == ParentOf[f]
              a == Action("resources", "folder", p, << >>)
  <2>1. p \in OfType("folder") \cup OfType("project") /\ f \in Resources /\ f.type = "folder"
    BY BuildersAssumption DEF OfType
  <2>2. a \in Range(StackAfter(page))
    <3>1. p \in Parents(NewOf(page))
      BY <1>3, <2>1 DEF Parents, OfType
    <3>. QED
      BY <3>1, SpawnParts
  <2>3. f \in Listed("folder", p)
    BY <2>1, BuildersAssumption DEF Listed, OfType, Root
  <2>4. a.op = "resources" /\ a.type = "folder" /\ a.on = p /\ a.page = << >>
    BY DEF Action
  <2>5. StillLists(a, f)
    <3>. HIDE DEF a, p
    <3>. QED
      BY <2>1, <2>3, <2>4, FirstPage
  <2>. QED
    BY <2>2, <2>5
<1>. QED
  BY <1>2, <1>3

\* A cache that is not filled by the action in hand waits for the same action as before.
LEMMA ResourcesCaches ==
  ASSUME NothingDropped, StackInv, SyncResources, CachesPending(3), Range(Rest) \subseteq Range(actions')
  PROVE  CachesPending(3)'
<1>1. /\ actions # << >> /\ Range(actions) = Range(Rest) \cup {Current}
      /\ people \in [{"privilege", "role", "folder"} -> SUBSET OfType("collaborator")]
      /\ roles \in [{"role", "folder"} -> SUBSET CustomRoles]
  BY RangeRest DEF SyncResources, Turn, StackInv, CachesOK
<1>2. ASSUME NEW b, FirstOf(b) = Current
      PROVE  Current.type = b /\ Current.on = Nobody /\ Current.page = << >>
  BY <1>2 DEF FirstOf, Action
<1>3. ASSUME NEW b \in DOMAIN people
      PROVE  people'[b] = OfType("collaborator") \/ FirstOf(b) \in Range(actions')
  <2>1. CASE BuildsPeople(Current.type, Current.on, Current.page) /\ b = Current.type
    <3>1. people' = [people EXCEPT ![b] = OfType("collaborator")]
      BY <2>1 DEF SyncResources, Reads, NothingDropped
    <3>. QED
      BY <1>1, <1>3, <3>1
  <2>2. CASE ~ (BuildsPeople(Current.type, Current.on, Current.page) /\ b = Current.type)
    <3>1. people'[b] = people[b]
      BY <1>1, <1>3, <2>2 DEF SyncResources
    <3>2. FirstOf(b) # Current
      BY <1>1, <1>2, <1>3, <2>2 DEF BuildsPeople
    <3>. QED
      BY <1>1, <1>3, <3>1, <3>2 DEF CachesPending
  <2>. QED
    BY <2>1, <2>2
<1>4. ASSUME NEW b \in DOMAIN roles
      PROVE  roles'[b] = CustomRoles \/ FirstOf(b) \in Range(actions')
  <2>1. CASE BuildsRoles(Current.type, Current.on, Current.page) /\ b = Current.type
    <3>1. roles' = [roles EXCEPT ![b] = CustomRoles]
      BY <2>1 DEF SyncResources, RoleReads, NothingDropped
    <3>. QED
      BY <1>1, <1>4, <3>1
  <2>2. CASE ~ (BuildsRoles(Current.type, Current.on, Current.page) /\ b = Current.type)
    <3>1. roles'[b] = roles[b]
      BY <1>1, <1>4, <2>2 DEF SyncResources
    <3>2. FirstOf(b) # Current
      BY <1>1, <1>2, <1>4, <2>2 DEF BuildsPeople, BuildsRoles
    <3>. QED
      BY <1>1, <1>4, <3>1, <3>2 DEF CachesPending
  <2>. QED
    BY <2>1, <2>2
<1>5. DOMAIN people' = DOMAIN people /\ DOMAIN roles' = DOMAIN roles
  BY <1>1 DEF SyncResources
<1>. QED
  BY <1>3, <1>4, <1>5 DEF CachesPending

\* A page stores its rows, fills the cache with its first and spawns the listings below.
LEMMA ResourcesCalm ==
  ASSUME NothingDropped, StackInv, NEW k \in 0 .. 6, Running(k), Calm(k), SyncResources
  PROVE  Calm(3)'
<1>1. Turn("resources", TRUE)
  BY DEF SyncResources
<1>2. k = 3 /\ Stage(3, Rest)
  BY <1>1, StageTurn DEF StackInv, Running, Good
<1>3. PICK page \in ListReads(Current.type, Current.on, Current.page) :
           /\ NewOf(page) \in SUBSET Resources
           /\ Continue(StackAfter(page), RowsAfter(page))
           /\ RowsOK(RowsAfter(page))
           /\ RowsAfter(page).stored = db.stored \cup NewOf(page)
           /\ RowsAfter(page).grants = db.grants
  BY ResourcesParts
<1>4. /\ db'.stored = db.stored \cup NewOf(page) /\ db'.grants = db.grants
      /\ actions' = StackAfter(page)
  BY <1>3, ContinueRows
<1>5. FoldersPending(3)'
  BY <1>1, <1>2, <1>3, <1>4, ResourcesFolders DEF Calm
<1>6. CachesPending(3)'
  BY <1>1, <1>2, <1>3, <1>4, SpawnParts, ResourcesCaches DEF Calm
<1>7. NothingYet(3)' /\ GrantsPending(3)'
  BY <1>2, <1>4 DEF Calm, NothingYet, GrantsPending
<1>. QED
  BY <1>5, <1>6, <1>7 DEF Calm

\* A listing that timed out stays on the stack.
LEMMA RetryCalm ==
  ASSUME StackInv, NEW k \in 0 .. 6, Running(k), Calm(k), Retry
  PROVE  Calm(3)'
<1>1. k = 3 /\ Turn("resources", TRUE)
  BY RetryStage DEF Retry
<1>2. /\ db'.stored = db.stored /\ db'.grants = db.grants /\ actions' = actions
  BY ContinueRows DEF Retry, StackInv, StoreInv
<1>3. /\ actions # << >> /\ Range(actions) = Range(Rest) \cup {Current}
      /\ people \in [{"privilege", "role", "folder"} -> SUBSET OfType("collaborator")]
      /\ roles \in [{"role", "folder"} -> SUBSET CustomRoles]
  BY <1>1, RangeRest DEF Turn, StackInv, CachesOK
<1>4. ASSUME BuildsPeople(Current.type, Current.on, Current.page)
      PROVE  FirstOf(Current.type) \in Range(actions)
  <2>1. /\ Current.op = "resources" /\ Current.page = << >> /\ Current \in Named(db.stored)
        /\ Current.type \in {"privilege", "role", "folder"}
        /\ Current.type = "folder" => Current.on = Nobody
    BY <1>1, <1>4, TurnFacts DEF BuildsPeople, Turn
  <2>2. Current.on = Nobody
    <3>1. ActionOK(Current) /\ Current # Whole(Current.op)
      BY <2>1 DEF Named, Whole, Action
    <3>. QED
      BY <2>1, <3>1 DEF ActionOK
  <2>3. Current = FirstOf(Current.type)
    BY <2>1, <2>2 DEF Named, FirstOf, Action
  <2>. QED
    BY <1>3, <2>3
<1>5. ASSUME NEW b \in DOMAIN people
      PROVE  people'[b] = people[b] \/ FirstOf(b) \in Range(actions)
  BY <1>3, <1>4, <1>5 DEF Retry
<1>6. ASSUME NEW b \in DOMAIN roles
      PROVE  roles'[b] = roles[b] \/ FirstOf(b) \in Range(actions)
  BY <1>3, <1>4, <1>6 DEF Retry, BuildsRoles
<1>7. DOMAIN people' = DOMAIN people /\ DOMAIN roles' = DOMAIN roles
  BY <1>3 DEF Retry
<1>8. CachesPending(3)'
  BY <1>1, <1>2, <1>5, <1>6, <1>7 DEF Calm, CachesPending
<1>. QED
  BY <1>1, <1>2, <1>8 DEF Calm, NothingYet, FoldersPending, GrantsPending

\* The listings are over when their action is reached for the last time.
LEMMA AllEntitlementsCalm ==
  ASSUME StackInv, NEW k \in 0 .. 6, Running(k), Calm(k), SyncAllEntitlements
  PROVE  Calm(2)'
<1>1. k = 3 /\ Len(actions) = 3
  BY AllEntitlementsStage
<1>2. /\ db'.stored = db.stored /\ db'.grants = db.grants /\ UNCHANGED <<people, roles>>
  BY ContinueRows DEF SyncAllEntitlements, StackInv, StoreInv
<1>3. Complete'
  BY <1>1, <1>2, CalmComplete, StaysComplete
<1>4. NothingYet(2)' /\ GrantsPending(2)'
  BY <1>1, <1>2 DEF Calm, NothingYet, GrantsPending
<1>. QED
  BY <1>3, <1>4, CompleteCalmNext DEF Calm

\* Entitlements store neither resources nor grants.
LEMMA EntitlementsCalm ==
  ASSUME StackInv, NEW k \in 0 .. 6, Running(k), Calm(k), SyncEntitlements
  PROVE  Calm(2)'
<1>1. k = 2
  BY EntitlementsStage
<1>2. /\ db'.stored = db.stored /\ db'.grants = db.grants /\ UNCHANGED <<people, roles>>
  <2>. DEFINE d == [db EXCEPT !.entitled = @ \cup {Current.on}]
  <2>1. RowsOK(d) /\ d.stored = db.stored /\ d.grants = db.grants /\ Continue(Rest, d)
    BY DEF StackInv, StoreInv, RowsOK, SyncEntitlements
  <2>. HIDE DEF d
  <2>. QED
    BY <2>1, ContinueRows DEF SyncEntitlements
<1>3. Complete'
  BY <1>1, <1>2, CalmComplete, StaysComplete
<1>4. NothingYet(2)' /\ GrantsPending(2)'
  BY <1>1, <1>2 DEF Calm, NothingYet, GrantsPending
<1>. QED
  BY <1>3, <1>4, CompleteCalmNext DEF Calm

\* There is an action for the grants of each resource: every grant is pending.
LEMMA AllGrantsCalm ==
  ASSUME StackInv, NEW k \in 0 .. 6, Running(k), Calm(k), SyncAllGrants
  PROVE  Calm(1)'
<1>. DEFINE t == PerResource("grants")
<1>1. k = 2 /\ Len(actions) = 2 /\ actions \in Seq(Named(db.stored)) /\ actions # << >>
  BY AllGrantsStage DEF StackInv, SyncAllGrants, Turn
<1>2. /\ db'.stored = db.stored /\ db'.grants = db.grants /\ actions' = Rest \o t
      /\ UNCHANGED <<people, roles>>
  BY ContinueRows DEF SyncAllGrants, StackInv, StoreInv
<1>3. Complete /\ Complete'
  BY <1>1, <1>2, CalmComplete, StaysComplete
<1>4. Range(Rest \o t) = Range(Rest) \cup {AboutResource("grants", r) : r \in WithGrants(Resources)}
  <2>1. Rest \in Seq(Named(db.stored)) /\ t \in Seq(Named(db.stored))
    BY <1>1, StackParts, PerResourceParts
  <2>2. Range(t) = {AboutResource("grants", r) : r \in WithGrants(Resources)}
    BY <1>3, PerResourceParts DEF Complete
  <2>. HIDE DEF t
  <2>. QED
    BY <2>1, <2>2, RangeConcatenation
<1>. HIDE DEF t
<1>5. \A r : /\ AboutResource("grants", r).op = "grants" /\ AboutResource("grants", r).on = r
             /\ AboutResource("grants", r).page = << >>
  BY DEF AboutResource, Action
<1>6. ASSUME NEW g \in AllGrants
      PROVE  \E a \in Range(actions') : StillGrants(a, g)
  <2>1. AboutResource("grants", g.on) \in Range(actions')
    BY <1>2, <1>4, GrantKinds
  <2>2. StillGrants(AboutResource("grants", g.on), g)
    BY <1>5 DEF StillGrants, Makes
  <2>. QED
    BY <2>1, <2>2
<1>7. ASSUME NEW a \in Range(actions'), a.op = "grants"
      PROVE  a.page \in GrantPages(a.on)
  <2>1. CASE a \in Range(Rest)
    <3>1. Rest \in Seq(Named(db.stored)) /\ Stage(1, Rest) /\ Len(Rest) = 1
      <4>1. Turn("grants", FALSE)
        BY DEF SyncAllGrants
      <4>2. Stage(1, Rest)
        BY <1>1, <4>1, StageTurn DEF Running, Good
      <4>3. Rest \in Seq(Named(db.stored)) /\ Len(Rest) = Len(actions) - 1
        BY <1>1, FrontParts DEF Rest
      <4>. QED
        BY <1>1, <4>2, <4>3
    <3>2. a = Plan[1]
      BY <2>1, <3>1, RangeEquality DEF Stage
    <3>. QED
      BY <1>7, <3>2, PlanSteps
  <2>2. CASE \E r : a = AboutResource("grants", r)
    BY <1>5, <2>2 DEF GrantPages, FolderPages
  <2>. QED
    BY <1>2, <1>4, <2>1, <2>2
<1>8. NothingYet(1)' /\ GrantsPending(1)'
  BY <1>1, <1>2, <1>6, <1>7 DEF Calm, NothingYet, GrantsPending
<1>. QED
  BY <1>3, <1>8, CompleteCalmNext DEF Calm

\* A page of grants is stored, and what its resource still makes is on the next page.
LEMMA GrantsCalm ==
  ASSUME StackInv, NEW k \in 0 .. 6, Running(k), Calm(k), SyncGrants
  PROVE  Calm(1)'
<1>1. k = 1 /\ actions \in Seq(Named(db.stored)) /\ Complete
  BY GrantsStage, CalmComplete DEF StackInv
<1>2. /\ actions # << >> /\ Current.op = "grants" /\ Current \in Named(db.stored)
      /\ Current.on \in WithGrants(db.stored)
      /\ Advance(GrantsToken) \in Seq(Named(db.stored))
      /\ Continue(Advance(GrantsToken), RowsGranted) /\ RowsOK(RowsGranted)
      /\ RowsGranted.stored = db.stored
      /\ RowsGranted.grants = db.grants \cup GotGrants
  BY GrantsParts DEF SyncGrants, Turn
<1>3. /\ db'.stored = db.stored /\ db'.grants = db.grants \cup GotGrants
      /\ actions' = Advance(GrantsToken) /\ UNCHANGED <<people, roles>>
  BY <1>2, ContinueRows DEF SyncGrants
<1>. DEFINE next == [Current EXCEPT !.page = GrantsToken]
<1>4. /\ Range(actions) = Range(Rest) \cup {Current}
      /\ Range(actions') = Range(Rest) \cup (IF GrantsToken = << >> THEN {} ELSE {next})
  BY <1>1, <1>2, <1>3, RangeRest, RangeAdvance
<1>5. /\ next.op = "grants" /\ next.on = Current.on /\ next.page = GrantsToken
  BY <1>2 DEF Named
<1>. HIDE DEF next
<1>6. Current.page \in GrantPages(Current.on)
  BY <1>1, <1>2, <1>4 DEF Calm, GrantsPending
<1>7. GotGrants \subseteq AllGrants
  <2>1. Current.on \in Resources
    BY <1>1, <1>2 DEF WithGrants, Complete
  <2>. QED
    BY <2>1, PageOfGrants DEF GotGrants, StackInv
<1>8. ASSUME NEW g \in AllGrants \ db'.grants
      PROVE  \E a \in Range(actions') : StillGrants(a, g)
  <2>1. PICK a \in Range(actions) : StillGrants(a, g)
    BY <1>1, <1>3, <1>8 DEF Calm, GrantsPending
  <2>2. CASE a \in Range(Rest)
    BY <1>4, <2>1, <2>2
  <2>3. CASE a = Current
    <3>1. g.on = Current.on /\ Makes(Current.page, g)
      BY <2>1, <2>3 DEF StillGrants
    <3>2. g \notin GrantsPage(g.on, Current.page, PeopleOf(g.on), RolesOf(g.on))
      BY <1>3, <1>8, <3>1 DEF GotGrants
    <3>3. GrantsToken # << >> /\ Makes(GrantsToken, g)
      BY <1>1, <1>6, <3>1, <3>2, GrantsGoOn DEF GrantsToken, StackInv
    <3>4. StillGrants(next, g)
      BY <1>5, <3>1, <3>3 DEF StillGrants
    <3>. QED
      BY <1>4, <3>3, <3>4
  <2>. QED
    BY <1>4, <2>1, <2>2, <2>3
<1>9. ASSUME NEW a \in Range(actions'), a.op = "grants"
      PROVE  a.page \in GrantPages(a.on)
  <2>1. CASE a \in Range(Rest)
    BY <1>1, <1>4, <1>9, <2>1 DEF Calm, GrantsPending
  <2>2. CASE a = next
    BY <1>5, <1>6, <2>2, NextGrantPage DEF GrantsToken
  <2>. QED
    BY <1>4, <2>1, <2>2
<1>10. NothingYet(1)' /\ GrantsPending(1)'
  BY <1>1, <1>3, <1>7, <1>8, <1>9 DEF Calm, NothingYet, GrantsPending
<1>. QED
  BY <1>1, <1>3, <1>10, StaysComplete, CompleteCalmNext DEF Calm

\* When the actions for grants are done, every grant is stored.
LEMMA ExpansionCalm ==
  ASSUME StackInv, NEW k \in 0 .. 6, Running(k), Calm(k), SyncGrantExpansion
  PROVE  Calm(0)' /\ db.grants = AllGrants
<1>1. k = 1 /\ Len(actions) = 1 /\ actions \in Seq(Named(db.stored)) /\ Stage(1, actions)
  BY ExpansionStage DEF StackInv, Running, Good
<1>2. /\ db'.stored = db.stored /\ db'.grants = db.grants /\ UNCHANGED <<people, roles>>
  BY ContinueRows DEF SyncGrantExpansion, StackInv, StoreInv
<1>3. Complete'
  BY <1>1, <1>2, CalmComplete, StaysComplete
<1>4. \A a \in Range(actions) : a = Plan[1]
  BY <1>1, RangeEquality DEF Stage
<1>5. db.grants = AllGrants
  <2>1. \A a \in Range(actions) : \A g : ~ StillGrants(a, g)
    BY <1>4, PlanSteps DEF StillGrants
  <2>2. /\ db.grants \subseteq AllGrants
        /\ \A g \in AllGrants \ db.grants : \E a \in Range(actions) : StillGrants(a, g)
    BY <1>1 DEF Calm, GrantsPending
  <2>. QED
    BY <2>1, <2>2
<1>6. NothingYet(0)' /\ GrantsPending(0)'
  BY <1>2, <1>5 DEF NothingYet, GrantsPending
<1>. QED
  BY <1>3, <1>5, <1>6, CompleteCalmNext DEF Calm

\* Every turn of the loop leaves nothing forgotten.
LEMMA LoopCalm ==
  ASSUME NothingDropped, StackInv, NEW k \in 0 .. 6, Running(k), Calm(k), Loop
  PROVE  \E j \in 0 .. 6 : Running(j)' /\ Calm(j)'
<1>1. \A j \in {0, 1, 2, 3, 4, 5} : j \in 0 .. 6
  OBVIOUS
<1>2. CASE Begin
  BY <1>1, <1>2, BeginStage, BeginCalm
<1>3. CASE SyncResourceTypes
  BY <1>1, <1>3, TypesStage, TypesCalm
<1>4. CASE SyncAllResources
  BY <1>1, <1>4, AllResourcesStage, AllResourcesCalm
<1>5. CASE SyncResources
  BY <1>1, <1>5, ResourcesStage, ResourcesCalm
<1>6. CASE Retry
  BY <1>1, <1>6, RetryStage, RetryCalm
<1>7. CASE SyncAllEntitlements
  BY <1>1, <1>7, AllEntitlementsStage, AllEntitlementsCalm
<1>8. CASE SyncEntitlements
  BY <1>1, <1>8, EntitlementsStage, EntitlementsCalm
<1>9. CASE SyncAllGrants
  BY <1>1, <1>9, AllGrantsStage, AllGrantsCalm
<1>10. CASE SyncGrants
  BY <1>1, <1>10, GrantsStage, GrantsCalm
<1>11. CASE SyncGrantExpansion
  BY <1>1, <1>11, ExpansionStage, ExpansionCalm
<1>. QED
  BY <1>2, <1>3, <1>4, <1>5, <1>6, <1>7, <1>8, <1>9, <1>10, <1>11 DEF Loop

\* A sync that is not interrupted does not fail: what its actions name is stored, and the
\* role cache knows every custom role.
LEMMA NeverFails ==
  ASSUME StackInv, NEW k \in 0 .. 6, Running(k), Calm(k)
  PROVE  ~ Fail
<1>. SUFFICES ASSUME Fail PROVE FALSE
  OBVIOUS
<1>1. /\ actions # << >> /\ Current.op \in {"entitlements", "grants"} /\ Current.type # "all"
      /\ Current \in Named(db.stored) /\ db.stored \subseteq Resources
      /\ actions \in Seq(Named(db.stored))
  BY TurnFacts DEF Fail, Turn, StackInv
<1>2. Current.on \in db.stored
  <2>1. ActionOK(Current) /\ Current # Whole(Current.op) /\ Current.on \in db.stored \cup {Nobody}
    BY <1>1 DEF Named, Whole, Action
  <2>2. Current.on \in Resources
    BY <1>1, <2>1 DEF ActionOK, WithGrants
  <2>. QED
    BY <2>1, <2>2, BuildersAssumption
<1>3. /\ Current.op = "grants" /\ Current.on \in CustomRoles
      /\ Current.on \notin RolesOf(Current.on)
  BY <1>2 DEF Fail, GrantsFail
<1>4. k = 1
  <2>1. Turn("grants", TRUE)
    BY <1>1, <1>3 DEF Fail, Turn
  <2>. QED
    BY <1>1, <2>1, StageTurn DEF Running, Good
<1>5. Complete
  BY <1>4, CalmComplete
<1>6. RolesOf(Current.on) = CustomRoles
  <2>1. Current.on.type = "role" /\ "role" \in DOMAIN roles
    BY <1>3 DEF CustomRoles, OfType, StackInv, CachesOK
  <2>. QED
    BY <1>5, <2>1 DEF Complete, RolesOf
<1>. QED
  BY <1>3, <1>6

-----------------------------------------------------------------------------
(* The invariant *)

\* Before the first sync nothing is stored.
LEMMA CalmInit == Init => CalmInv
BY DEF Init, CalmInv

\* A loop turn goes on in the same process.
LEMMA LoopFrame ==
  ASSUME Loop
  PROVE  phase = "running" /\ phase' = "running" /\ disk' = disk /\ stops' = stops
BY DEF Loop, Begin, SyncResourceTypes, SyncAllResources, SyncResources, Retry,
  SyncAllEntitlements, SyncEntitlements, SyncAllGrants, SyncGrants, SyncGrantExpansion,
  Turn, Continue

\* Every step keeps the invariant; after a stop it says nothing of what is pending.
LEMMA CalmStep == NothingDropped /\ StackInv /\ StageInv /\ CalmInv /\ [Next]_vars => CalmInv'
<1>. SUFFICES ASSUME NothingDropped, StackInv, StageInv, CalmInv, [Next]_vars PROVE CalmInv'
  OBVIOUS
<1>0. stops \in Nat
  BY SyncAssumption DEF StackInv
<1>1. CASE Loop
  <2>1. ASSUME stops = 0 PROVE \E j \in 0 .. 6 : Running(j)' /\ Calm(j)'
    <3>1. PICK k \in 0 .. 6 : Running(k) /\ Calm(k)
      BY <1>1, <2>1, LoopFrame DEF CalmInv
    <3>. QED
      BY <1>1, <3>1, LoopCalm
  <2>. QED
    BY <1>1, <2>1, LoopFrame DEF CalmInv
<1>2. CASE Start
  <2>1. /\ phase = "off" /\ phase' = "running" /\ stops' = stops
        /\ db' = disk /\ actions' = Taken(disk.token)
    BY <1>2 DEF Start, Taken
  <2>2. ASSUME stops = 0 PROVE Running(6)' /\ Calm(6)'
    <3>1. db' = EmptyStore /\ actions' = <<Whole("init")>>
      BY <2>1, <2>2 DEF CalmInv, Taken, EmptyStore
    <3>2. /\ EmptyStore.token = << >> /\ EmptyStore.grants = {} /\ EmptyStore.stored = {}
      BY DEF EmptyStore
    <3>3. Good(6, <<Whole("init")>>, EmptyStore)
      BY DEF Good, Stage, ListingLeft, EntitlingLeft
    <3>. QED
      BY <3>1, <3>2, <3>3
      DEF Running, Taken, Calm, NothingYet, FoldersPending, CachesPending, GrantsPending
  <2>. QED
    BY <2>1, <2>2 DEF CalmInv
<1>3. CASE EndSync
  BY <1>3 DEF EndSync, CalmInv
<1>4. CASE Fail
  <2>1. phase = "running" /\ phase' = "off" /\ actions' = << >> /\ stops' = stops
    BY <1>4 DEF Fail, Turn, Abort
  <2>2. stops # 0
    BY <1>4, <2>1, NeverFails DEF CalmInv
  <2>. QED
    BY <2>1, <2>2 DEF CalmInv
<1>5. CASE Interrupt \/ Crash
  BY <1>0, <1>5 DEF Interrupt, Crash, Abort, CalmInv
<1>6. CASE UNCHANGED vars
  <2>. USE <1>6 DEF vars
  <2>1. \A k : Running(k)' <=> Running(k)
    BY DEF Running
  <2>2. \A k : Calm(k)' <=> Calm(k)
    BY DEF Calm, NothingYet, FoldersPending, CachesPending, GrantsPending
  <2>. QED
    BY <2>1, <2>2 DEF CalmInv
<1>. QED
  BY <1>1, <1>2, <1>3, <1>4, <1>5, <1>6 DEF Next, Step, Loop

\* The three invariants hold in every behaviour.
LEMMA FileInvHolds == NothingDropped => (Spec => [](StackInv /\ StageInv /\ CalmInv))
<1>. SUFFICES ASSUME NothingDropped PROVE Spec => [](StackInv /\ StageInv /\ CalmInv)
  OBVIOUS
<1>1. StackInv /\ StageInv /\ [Next]_vars => StageInv'
  BY StageStep
<1>2. StackInv /\ StageInv /\ CalmInv /\ [Next]_vars => CalmInv'
  BY CalmStep
<1>. QED
  BY <1>1, <1>2, StackInit, StackStep, StageInit, CalmInit, PTL DEF Spec

-----------------------------------------------------------------------------
(* Theorems *)

\* While doRequest drops no answer nothing falls between two actions: what is not
\* stored is still to be listed, or it is a folder that comes after its parent.
THEOREM NothingIsLost == NothingDropped => (Spec => []WorkIsPending)
<1>. SUFFICES ASSUME NothingDropped PROVE Spec => []WorkIsPending
  OBVIOUS
<1>1. ASSUME StackInv, CalmInv, phase = "running", stops = 0, NEW r \in Resources \ db.stored,
             ~ (r.type = "folder" /\ ParentOf[r] \notin db.stored)
      PROVE  \E i \in 1 .. Len(actions) : StillLists(actions[i], r)
  <2>1. PICK k \in 0 .. 6 : Running(k) /\ Calm(k)
    BY <1>1 DEF CalmInv
  <2>2. actions \in Seq(Named(db.stored)) /\ Good(k, actions, db) /\ Stage(k, actions)
    BY <1>1, <2>1 DEF StackInv, Running, Good
  <2>3. CASE k <= 3
    <3>1. \E a \in Range(actions) : StillLists(a, r)
      BY <1>1, <2>1, <2>2, <2>3 DEF Good, ListingLeft, Calm, FoldersPending, OfType
    <3>. QED
      BY <2>2, <3>1, RangeEquality
  <2>4. CASE k = 4 \/ k = 5
    <3>1. 4 \in 1 .. Len(actions) /\ actions[4] = Plan[4]
      BY <2>2, <2>4, LenProperties DEF Stage
    <3>2. Plan[4] = Whole("resources")
      BY DEF Plan
    <3>. QED
      BY <3>1, <3>2 DEF StillLists
  <2>5. CASE k = 6
    <3>1. 1 \in 1 .. Len(actions) /\ actions[1] = Whole("init")
      BY <2>2, <2>5 DEF Stage
    <3>. QED
      BY <3>1 DEF StillLists
  <2>. QED
    BY <2>3, <2>4, <2>5
<1>2. StackInv /\ CalmInv => WorkIsPending
  BY <1>1 DEF WorkIsPending
<1>. QED
  BY <1>2, FileInvHolds, PTL

\* Without dropped answers, when the grants of a custom role are fetched the role
\* cache knows it, unless a process was started in the middle of the sync.
THEOREM RolesFound == NothingDropped => (Spec => []GrantsFindTheirRole)
<1>. SUFFICES ASSUME NothingDropped PROVE Spec => []GrantsFindTheirRole
  OBVIOUS
<1>1. ASSUME StackInv, CalmInv, stops = 0, NEW i \in 1 .. Len(actions),
             actions[i].op = "grants", actions[i].on \in CustomRoles
      PROVE  actions[i].on \in roles["role"]
  <2>1. phase = "running"
    BY <1>1 DEF CalmInv
  <2>2. PICK k \in 0 .. 6 : Running(k) /\ Calm(k)
    BY <1>1, <2>1 DEF CalmInv
  <2>3. actions[i] # Whole("grants")
    BY <1>1, BuildersAssumption DEF CustomRoles, OfType, Whole, Action
  <2>4. k = 1
    <3>1. Stage(k, actions)
      BY <2>2 DEF Running, Good
    <3>2. k # 6
      <4>1. ASSUME actions = <<Whole("init")>> PROVE actions[i].op = "init"
        BY <1>1, <4>1 DEF Whole, Action
      <4>. QED
        BY <1>1, <3>1, <4>1 DEF Stage
    <3>3. k \in 0 .. 5 /\ IF i <= k THEN actions[i] = Plan[i] ELSE actions[i].op = Typed(k)
      BY <3>1, <3>2 DEF Stage
    <3>4. i <= k => i = 2
      <4>1. i <= k => i = 1 \/ i = 2 \/ i = 3 \/ i = 4 \/ i = 5
        BY <3>3
      <4>. QED
        BY <1>1, <3>3, <4>1, PlanSteps
    <3>5. Plan[2] = Whole("grants")
      BY DEF Plan
    <3>. QED
      BY <1>1, <2>3, <3>3, <3>4, <3>5 DEF Typed
  <2>5. Complete
    BY <1>1, <2>2, <2>4, CalmComplete
  <2>. QED
    BY <1>1, <2>5 DEF Complete, StackInv, CachesOK
<1>2. StackInv /\ CalmInv => GrantsFindTheirRole
  BY <1>1 DEF GrantsFindTheirRole
<1>. QED
  BY <1>2, FileInvHolds, PTL

-----------------------------------------------------------------------------
(* The refinement *)

\* Initial states are initial states of SyncFile.
LEMMA FileInit == Init => File!Init
BY SyncAssumption DEF Init, EmptyStore, File!Init

\* A page of resources is one of AddResources: a folder is listed under its parent, which
\* is stored.
LEMMA ResourcesFile ==
  ASSUME StackInv, SyncResources
  PROVE  File!AddResources
<1>1. PICK page \in ListReads(Current.type, Current.on, Current.page) :
           /\ NewOf(page) \in SUBSET Resources
           /\ Continue(StackAfter(page), RowsAfter(page))
           /\ RowsOK(RowsAfter(page))
           /\ RowsAfter(page).stored = db.stored \cup NewOf(page)
           /\ RowsAfter(page).grants = db.grants
  BY ResourcesParts
<1>2. /\ db'.stored = db.stored \cup NewOf(page) /\ db'.grants = db.grants
      /\ phase' = phase /\ stops' = stops
  BY <1>1, ContinueRows
<1>3. db.stored \subseteq Resources
  BY DEF StackInv, StoreInv, RowsOK
<1>4. /\ Current.type \in Types /\ Current.on \in db.stored \cup {Nobody}
      /\ Current.on \in Resources \cup {Nobody}
  <2>1. Turn("resources", TRUE)
    BY DEF SyncResources
  <2>. QED
    BY <2>1, TurnFacts DEF Named, Turn
<1>5. ASSUME NEW r \in NewOf(page), Above[r] # {}
      PROVE  Above[r] \cap db.stored # {}
  <2>1. r \in Resources /\ r.type = "folder"
    BY <1>1, <1>5 DEF Above
  <2>2. r \in Listed(Current.type, Current.on)
    <3>1. r \in page
      BY <1>5, <2>1, BuildersAssumption DEF NewOf, Unseen, WithBaseRoles, OfType
    <3>. QED
      BY <3>1, PageListed
  <2>3. IF Root(r) THEN Current.on \in OfType("project") ELSE Current.on = ParentOf[r]
    BY <1>4, <2>1, <2>2, ListedPlace
  <2>4. ParentOf[r] \in Resources /\ Current.on # Nobody
    BY <2>1, <2>3, BuildersAssumption DEF OfType
  <2>5. Current.on \in db.stored
    BY <1>4, <2>4
  <2>6. Above[r] = IF Root(r) THEN OfType("project") ELSE {ParentOf[r]}
    BY <2>1 DEF Above
  <2>7. Current.on \in Above[r]
    BY <2>3, <2>6
  <2>. QED
    BY <2>5, <2>7
<1>. QED
  BY <1>1, <1>2, <1>3, <1>5 DEF File!AddResources

\* A page of grants is one of AddGrants: every resource is stored by then.
LEMMA GrantsFile ==
  ASSUME StackInv, NEW k \in 0 .. 6, Running(k), Calm(k), SyncGrants
  PROVE  File!AddGrants
<1>1. k = 1 /\ Complete
  BY GrantsStage, CalmComplete
<1>2. /\ Current.on \in WithGrants(db.stored)
      /\ Continue(Advance(GrantsToken), RowsGranted) /\ RowsOK(RowsGranted)
      /\ RowsGranted.stored = db.stored
      /\ RowsGranted.grants = db.grants \cup GotGrants
  BY GrantsParts
<1>3. /\ db'.stored = db.stored /\ db'.grants = db.grants \cup GotGrants
      /\ phase' = phase /\ stops' = stops
  BY <1>2, ContinueRows
<1>4. GotGrants \subseteq AllGrants
  <2>1. Current.on \in Resources
    BY <1>1, <1>2 DEF WithGrants, Complete
  <2>. QED
    BY <2>1, PageOfGrants DEF GotGrants, StackInv
<1>5. db.grants \subseteq AllGrants /\ db.stored = Resources
  BY <1>1 DEF Calm, GrantsPending, Complete
<1>. QED
  BY <1>3, <1>4, <1>5 DEF File!AddGrants

\* The other turns of the loop leave the rows and the grants alone.
LEMMA OtherTurnsFile ==
  ASSUME StackInv, Loop, ~ SyncResources, ~ SyncGrants
  PROVE  db'.stored = db.stored /\ db'.grants = db.grants
<1>1. RowsOK(db)
  BY DEF StackInv, StoreInv
<1>2. CASE Begin
  BY <1>1, <1>2 DEF Begin, RowsOK
<1>3. CASE SyncResourceTypes
  <2>1. PICK order \in TypeOrders :
          Continue(Rest, [db EXCEPT !.types = IF @ = << >> THEN order ELSE @])
    BY <1>3 DEF SyncResourceTypes
  <2>. DEFINE d == [db EXCEPT !.types = IF @ = << >> THEN order ELSE @]
  <2>2. RowsOK(d) /\ d.stored = db.stored /\ d.grants = db.grants /\ Continue(Rest, d)
    BY <1>1, <2>1 DEF RowsOK
  <2>. HIDE DEF d
  <2>. QED
    BY <2>2, ContinueRows
<1>4. CASE SyncEntitlements
  <2>. DEFINE d == [db EXCEPT !.entitled = @ \cup {Current.on}]
  <2>1. RowsOK(d) /\ d.stored = db.stored /\ d.grants = db.grants /\ Continue(Rest, d)
    BY <1>1, <1>4 DEF RowsOK, SyncEntitlements
  <2>. HIDE DEF d
  <2>. QED
    BY <2>1, ContinueRows
<1>5. CASE SyncAllResources \/ Retry \/ SyncAllEntitlements \/ SyncAllGrants \/ SyncGrantExpansion
  BY <1>1, <1>5, ContinueRows
  DEF SyncAllResources, Retry, SyncAllEntitlements, SyncAllGrants, SyncGrantExpansion
<1>. QED
  BY <1>2, <1>3, <1>4, <1>5 DEF Loop

\* Every step is a step of SyncFile or leaves the file alone; from the first stop on
\* SyncFile promises nothing.
LEMMA FileStep ==
  NothingDropped /\ StackInv /\ CalmInv /\ [Next]_vars => [File!Next]_(File!vars)
<1>. SUFFICES ASSUME NothingDropped, StackInv, CalmInv, [Next]_vars
              PROVE  File!Next \/ UNCHANGED File!vars
  OBVIOUS
<1>0. stops \in Nat
  BY SyncAssumption DEF StackInv
<1>1. ASSUME stops' > 0 PROVE File!Next
  BY <1>1 DEF File!Next, File!Break
<1>2. CASE Interrupt \/ Crash
  <2>1. stops' > 0
    BY <1>0, <1>2 DEF Interrupt, Crash
  <2>. QED
    BY <1>1, <2>1
<1>3. CASE UNCHANGED vars
  BY <1>3 DEF vars, File!vars
<1>4. CASE ~ (Interrupt \/ Crash) /\ stops # 0 /\ ~ UNCHANGED vars
  <2>1. stops' = stops
    BY <1>4, LoopFrame DEF Next, Step, Loop, Start, EndSync, Fail
  <2>. QED
    BY <1>0, <1>1, <1>4, <2>1
<1>5. CASE Loop /\ stops = 0
  <2>1. PICK k \in 0 .. 6 : Running(k) /\ Calm(k)
    BY <1>5, LoopFrame DEF CalmInv
  <2>2. phase = "running" /\ phase' = "running" /\ stops' = stops
    BY <1>5, LoopFrame
  <2>3. CASE SyncResources
    BY <2>2, <2>3, ResourcesFile DEF File!Next, File!Fill
  <2>4. CASE SyncGrants
    BY <2>1, <2>2, <2>4, GrantsFile DEF File!Next, File!Fill
  <2>5. CASE ~ SyncResources /\ ~ SyncGrants
    BY <1>5, <2>2, <2>5, OtherTurnsFile DEF File!vars
  <2>. QED
    BY <2>3, <2>4, <2>5
<1>6. CASE Start /\ stops = 0
  BY <1>6 DEF Start, CalmInv, File!vars
<1>7. CASE EndSync /\ stops = 0
  <2>1. PICK k \in 0 .. 6 : Running(k) /\ Calm(k)
    BY <1>7 DEF EndSync, CalmInv
  <2>2. k = 0
    BY <1>7, <2>1, StageEmpty DEF EndSync, Running, Good
  <2>3. db.stored = Resources
    BY <2>1, <2>2, CalmComplete DEF Complete
  <2>4. db.grants = AllGrants
    <3>1. Range(actions) = {}
      BY <1>7 DEF EndSync, Range
    <3>2. GrantsPending(0)
      BY <2>1, <2>2 DEF Calm
    <3>3. db.grants \subseteq AllGrants /\ AllGrants \ db.grants = {}
      BY <3>1, <3>2 DEF GrantsPending
    <3>. QED
      BY <3>3
  <2>. QED
    BY <1>7, <2>3, <2>4 DEF EndSync, File!Next, File!Fill, File!End
<1>8. CASE Fail /\ stops = 0
  <2>1. PICK k \in 0 .. 6 : Running(k) /\ Calm(k)
    BY <1>8 DEF Fail, Turn, CalmInv
  <2>. QED
    BY <1>8, <2>1, NeverFails
<1>. QED
  BY <1>2, <1>3, <1>4, <1>5, <1>6, <1>7, <1>8 DEF Next, Step, Loop

\* A sync without dropped answers that is not interrupted fills its file as promised, and
\* when it ends the file has every resource and every grant of the workspace and no other.
THEOREM SyncImplementsFile == NothingDropped => (Spec => FileIsComplete)
<1>. SUFFICES ASSUME NothingDropped PROVE Spec => FileIsComplete
  OBVIOUS
<1>1. StackInv /\ CalmInv /\ [Next]_vars => [File!Next]_(File!vars)
  BY FileStep
<1>. QED
  BY <1>1, FileInit, FileInvHolds, PTL DEF Spec, FileIsComplete, File!Spec
=============================================================================
