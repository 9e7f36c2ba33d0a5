--------------------------------- MODULE Sync ---------------------------------
(***************************************************************************)
(* A full sync: the SDK's syncer works off a stack of actions, calls the    *)
(* builders and fills the store; the stack is saved in the store from time  *)
(* to time, so that a sync that is cut short can be resumed.  The builders' *)
(* caches are lost with the process.                                        *)
(***************************************************************************)
EXTENDS Builders

CONSTANTS
  TypeOrders,   \* the orders in which the resource types may be listed
  MaxStops      \* bound on the interruptions of a sync

ASSUME SyncAssumption ==
  /\ TypeOrders # {}
  /\ \A order \in TypeOrders :
       /\ order \in [1 .. Cardinality(Types) -> Types]
       /\ \A t \in Types : \E i \in 1 .. Cardinality(Types) : order[i] = t
  /\ MaxStops \in Nat

VARIABLES
  phase,     \* "off", "running" or "done"
  actions,   \* the action stack, the current action last
  fresh,     \* this process has not written a checkpoint yet
  people,    \* people[b]: the collaborators in the cache of builder b
  roles,     \* roles[b]: the roles in the role cache of builder b
  db,        \* the store: rows of the sync and its checkpoint
  disk,      \* the store as it was last saved to the c1z file
  stops      \* number of interruptions so far

vars == <<phase, actions, fresh, people, roles, db, disk, stops>>

\* An action is about the resource types, about one type under a parent, or about
\* the entitlements or grants of a resource; "all" is the action that makes the
\* others.
Action(op, type, on, page) == [op |-> op, type |-> type, on |-> on, page |-> page]
Whole(op) == Action(op, "all", Nobody, << >>)
AboutResource(op, r) == Action(op, r.type, r, << >>)

Current == actions[Len(actions)]
Rest == SubSeq(actions, 1, Len(actions) - 1)

EmptyStore ==
  [types |-> << >>, stored |-> {}, parent |-> [r \in Resources |-> Nobody],
   entitled |-> {}, grants |-> {}, token |-> << >>]

NoPeople == [b \in {"privilege", "role", "folder"} |-> {}]
NoRoles == [b \in {"role", "folder"} |-> {}]

Init ==
  /\ phase = "off"
  /\ actions = << >>
  /\ fresh = TRUE
  /\ people = NoPeople
  /\ roles = NoRoles
  /\ db = EmptyStore
  /\ disk = EmptyStore
  /\ stops = 0

\* The process starts, opens the c1z file and takes up the unfinished sync it
\* finds there, or begins one.
Start ==
  /\ phase = "off"
  /\ phase' = "running"
  /\ db' = disk
  /\ actions' = IF disk.token = << >> THEN <<Whole("init")>> ELSE disk.token
  /\ fresh' = TRUE
  /\ UNCHANGED <<people, roles, disk, stops>>

\* The checkpoint before an action: a new process writes one, after that only one
\* every ten seconds is written.
Tokens == IF fresh THEN {actions} ELSE {actions, db.token}

\* A turn of the loop that goes on with the stack s and the rows of store d.
Turn(op, type) ==
  /\ phase = "running"
  /\ actions # << >>
  /\ Current.op = op
  /\ type <=> Current.type # "all"
Continue(s, d) ==
  /\ actions' = s
  /\ \E token \in Tokens : db' = [d EXCEPT !.token = token]
  /\ fresh' = FALSE
  /\ UNCHANGED <<phase, disk, stops>>

\* FinishAction, or NextPage when there is a token for it.
Advance(token) ==
  IF token = << >> THEN Rest ELSE Append(Rest, [Current EXCEPT !.page = token])

\* (mutant) The grants are fetched before the entitlements.
Plan_Swapped ==
  <<Whole("expand"), Whole("entitlements"), Whole("grants"), Whole("resources"), Whole("types")>>

\* The steps of a sync, the first one on top.
Plan ==
  <<Whole("expand"), Whole("grants"), Whole("entitlements"), Whole("resources"), Whole("types")>>

Begin ==
  /\ Turn("init", FALSE)
  /\ actions' = Plan
  /\ \E token \in Tokens \cup {Plan} : db' = [db EXCEPT !.token = token]
  /\ fresh' = FALSE
  /\ UNCHANGED <<phase, people, roles, disk, stops>>

\* The resource types are stored; types that are stored already keep their rows.
SyncResourceTypes ==
  /\ Turn("types", FALSE)
  /\ \E order \in TypeOrders :
       Continue(Rest, [db EXCEPT !.types = IF @ = << >> THEN order ELSE @])
  /\ UNCHANGED <<people, roles>>

SyncAllResources ==
  /\ Turn("resources", FALSE)
  /\ Continue(Rest \o [i \in 1 .. Len(db.types) |-> Action("resources", db.types[i], Nobody, << >>)], db)
  /\ UNCHANGED <<people, roles>>

\* (mutants) A child is listed with the type of its parent; the children are pushed
\* before the listing is popped.
Spawn_OwnType(token, new) ==
  Advance(token) \o
  [i \in 1 .. Cardinality(new) |-> Action("resources", Ordered(new)[i].type, Ordered(new)[i], << >>)]
Spawn_First(token, new) ==
  LET all == actions \o [i \in 1 .. Cardinality(new) |-> Action("resources", "folder", Ordered(new)[i], << >>)]
  IN  SubSeq(all, 1, Len(all) - 1)

\* Projects and folders announce folders.
Parents(page) == {r \in page : r.type \in {"project", "folder"}}

\* The stack after a listing: the next page, above it the listings of the new
\* resources' children.
Spawn(token, new) ==
  Advance(token) \o
  [i \in 1 .. Cardinality(new) |-> Action("resources", "folder", Ordered(new)[i], << >>)]

\* A resource that is stored already is skipped, and so are its children.
Unseen(page) == page \ db.stored

\* The builder lists a page; a first page may fill its caches before.
SyncResources ==
  /\ Turn("resources", TRUE)
  /\ LET a == Current IN
     /\ IF BuildsPeople(a.type, a.on, a.page)
        THEN \E read \in Reads(OfType("collaborator")) : people' = [people EXCEPT ![a.type] = read]
        ELSE UNCHANGED people
     /\ IF BuildsRoles(a.type, a.on, a.page)
        THEN \E read \in RoleReads : roles' = [roles EXCEPT ![a.type] = read]
        ELSE UNCHANGED roles
     /\ \E page \in ListReads(a.type, a.on, a.page) :
          LET new == Unseen(WithBaseRoles(a.type, page)) IN
          Continue(Spawn(ListNext(a.type, a.on, a.page, page), Parents(new)),
                   [db EXCEPT !.stored = @ \cup new,
                              !.parent = [r \in Resources |-> IF r \in new THEN a.on ELSE @[r]]])

\* A listing that fails with Unavailable or DeadlineExceeded is tried again; the
\* caches it was filling hold what they got so far.
Retry ==
  /\ Turn("resources", TRUE)
  /\ TimingOut
  /\ LET a == Current IN
     /\ IF BuildsPeople(a.type, a.on, a.page)
        THEN \E part \in SUBSET OfType("collaborator") : people' = [people EXCEPT ![a.type] = part]
        ELSE UNCHANGED people
     /\ IF BuildsRoles(a.type, a.on, a.page)
        THEN \E part \in FirstPages \cup {roles[a.type]} : roles' = [roles EXCEPT ![a.type] = part]
        ELSE UNCHANGED roles
  /\ Continue(actions, db)

\* Collaborators have no entitlements and no grants.  The rows come in the order
\* in which they were stored; here they come in the order of the workspace.
WithGrants(S) == {r \in S : r.type # "collaborator"}
PerResource(op) ==
  LET S == WithGrants(db.stored)
  IN  [i \in 1 .. Cardinality(S) |-> AboutResource(op, Ordered(S)[i])]

SyncAllEntitlements ==
  /\ Turn("entitlements", FALSE)
  /\ Continue(Rest \o PerResource("entitlements"), db)
  /\ UNCHANGED <<people, roles>>

SyncEntitlements ==
  /\ Turn("entitlements", TRUE)
  /\ Current.on \in db.stored
  /\ Continue(Rest, [db EXCEPT !.entitled = @ \cup {Current.on}])
  /\ UNCHANGED <<people, roles>>

\* (mutant) The action that makes the others is not finished.
SyncAllGrants_Keep ==
  /\ Turn("grants", FALSE)
  /\ Continue(actions \o PerResource("grants"), db)
  /\ UNCHANGED <<people, roles>>

SyncAllGrants ==
  /\ Turn("grants", FALSE)
  /\ Continue(Rest \o PerResource("grants"), db)
  /\ UNCHANGED <<people, roles>>

\* The caches that the builder of resource r reads.
PeopleOf(r) == IF r.type \in DOMAIN people THEN people[r.type] ELSE {}
RolesOf(r) == IF r.type \in DOMAIN roles THEN roles[r.type] ELSE {}

SyncGrants ==
  /\ Turn("grants", TRUE)
  /\ LET a == Current IN
     /\ a.on \in db.stored /\ ~ GrantsFail(a.on, RolesOf(a.on))
     /\ Continue(Advance(NextGrants(a.on, a.page)),
                 [db EXCEPT !.grants = @ \cup GrantsPage(a.on, a.page, PeopleOf(a.on), RolesOf(a.on))])
  /\ UNCHANGED <<people, roles>>

\* No grant of this connector is expandable.
SyncGrantExpansion ==
  /\ Turn("expand", FALSE)
  /\ Continue(Rest, db)
  /\ UNCHANGED <<people, roles>>

EndSync ==
  /\ phase = "running"
  /\ actions = << >>
  /\ phase' = "done"
  /\ disk' = db
  /\ UNCHANGED <<actions, fresh, people, roles, db, stops>>

\* The sync returns an error: the store is closed and saved with the checkpoint
\* it has, and the process ends.
Abort ==
  /\ phase' = "off"
  /\ \E token \in Tokens : disk' = [db EXCEPT !.token = token]
  /\ db' = EmptyStore
  /\ actions' = << >>
  /\ fresh' = TRUE
  /\ people' = NoPeople
  /\ roles' = NoRoles

\* The sync is cancelled between two actions or by a request that fails for good.
Interrupt ==
  /\ phase = "running" /\ actions # << >>
  /\ stops < MaxStops
  /\ stops' = stops + 1
  /\ Abort

\* The resource of the action is not in the store, or it is a role the builder's
\* role cache does not know ("role not found").
Fail ==
  /\ Turn("entitlements", TRUE) \/ Turn("grants", TRUE)
  /\ \/ Current.on \notin db.stored
     \/ Current.op = "grants" /\ GrantsFail(Current.on, RolesOf(Current.on))
  /\ UNCHANGED stops
  /\ Abort

\* (mutant) The checkpoint survives a crash, the rows do not.
Crash_KeepsToken ==
  /\ phase = "running"
  /\ stops < MaxStops
  /\ stops' = stops + 1
  /\ phase' = "off"
  /\ disk' = [disk EXCEPT !.token = db.token]
  /\ db' = EmptyStore
  /\ actions' = << >>
  /\ fresh' = TRUE
  /\ people' = NoPeople
  /\ roles' = NoRoles

\* The process is killed: the store is a temporary file, which is lost.
Crash ==
  /\ phase = "running"
  /\ stops < MaxStops
  /\ stops' = stops + 1
  /\ phase' = "off"
  /\ db' = EmptyStore
  /\ actions' = << >>
  /\ fresh' = TRUE
  /\ people' = NoPeople
  /\ roles' = NoRoles
  /\ UNCHANGED disk

Step ==
  \/ Start \/ Begin
  \/ SyncResourceTypes \/ SyncAllResources \/ SyncResources
  \/ SyncAllEntitlements \/ SyncEntitlements
  \/ SyncAllGrants \/ SyncGrants \/ SyncGrantExpansion
  \/ EndSync \/ Fail

Next == Step \/ Retry \/ Interrupt \/ Crash

Spec == Init /\ [][Next]_vars

\* The process is started again whenever it has stopped, the loop goes on, and a
\* request that is repeated is answered in the end.
FairSpec == Spec /\ WF_vars(Step)

-----------------------------------------------------------------------------
(* Properties *)

Ops == {"init", "types", "resources", "entitlements", "grants", "expand"}

\* The actions the syncer makes: a listing under a parent lists folders.
ActionOK(a) ==
  /\ a.op \in Ops
  /\ \/ a = Whole(a.op)
     \/ /\ a.op = "resources" /\ a.type \in Types /\ a.page \in Seq(Nat)
        /\ a.on # Nobody => a.type = "folder" /\ a.on \in Parents(Resources)
     \/ /\ a.op \in {"entitlements", "grants"} /\ a.page \in Seq(Types)
        /\ a.on \in WithGrants(Resources) /\ a.type = a.on.type

StackOK(s) ==
  /\ DOMAIN s = 1 .. Len(s)
  /\ \A i \in 1 .. Len(s) : ActionOK(s[i])

StoreOK(d) ==
  /\ d.types \in TypeOrders \cup {<< >>}
  /\ d.stored \subseteq Resources
  /\ d.parent \in [Resources -> Resources \cup {Nobody}]
  /\ d.entitled \subseteq Resources
  /\ d.grants \subseteq [on : Resources, to : Resources]
  /\ StackOK(d.token)

\* Every variable has its type, and so has every action on the stack, in the
\* store's checkpoint and in the c1z file.
TypeOK ==
  /\ phase \in {"off", "running", "done"}
  /\ StackOK(actions)
  /\ fresh \in BOOLEAN
  /\ people \in [{"privilege", "role", "folder"} -> SUBSET OfType("collaborator")]
  /\ roles \in [{"role", "folder"} -> SUBSET CustomRoles]
  /\ StoreOK(db) /\ StoreOK(disk)
  /\ stops \in 0 .. MaxStops

\* What action a will still list: what is of its type and under its parent, and
\* not on an earlier page.
StillLists(a, r) ==
  \/ a = Whole("init") \/ a = Whole("resources")
  \/ /\ a.op = "resources" /\ a.type = r.type
     /\ \/ r \in BaseRoles
        \/ /\ r \in Listed(a.type, a.on)
           /\ Position(Listed(a.type, a.on), r) > PageNumber(a.page) * PageLimit

\* Nothing falls between two actions: while a sync runs that was not interrupted,
\* a resource that is not in the store is going to be listed by an action on the
\* stack, or it is a folder whose own parent is not in the store yet.
WorkIsPending ==
  phase = "running" /\ stops = 0 =>
    \A r \in Resources \ db.stored :
      \/ \E i \in 1 .. Len(actions) : StillLists(actions[i], r)
      \/ r.type = "folder" /\ ParentOf[r] \notin db.stored

\* The syncer looks the resource of an action up in the store, so it must be there:
\* for the stack, and for the checkpoint that a later process will take up.
NamedAreStored ==
  LET AllStored(s, d) == \A i \in 1 .. Len(s) : s[i].on \in d.stored \cup {Nobody}
  IN  /\ phase = "running" => AllStored(actions, db) /\ AllStored(db.token, db)
      /\ AllStored(disk.token, disk)

\* In every file a sync leaves behind, a grant is one of an entitlement that is in
\* the file, and its principal is a resource of the file.
GrantsAreRooted ==
  \A g \in disk.grants : g.on \in disk.entitled /\ g.to \in disk.stored

\* However often a sync was cut short and taken up again: the file of one that ends
\* has every resource but folders, and the entitlements of all it has, so a resumed
\* listing that skips what it finds in the store loses nothing but children.
OnlyFoldersAreLost ==
  phase = "done" =>
    /\ \A r \in Resources : r.type # "folder" => r \in disk.stored
    /\ WithGrants(disk.stored) \subseteq disk.entitled

\* A sync that ends has every resource of the workspace ("For each resource, we
\* gather any child resource types it may emit, and traverse the resource tree").
StoresEverything == phase = "done" => disk.stored = Resources

\* The grants of the workspace.
AllGrants ==
  {Grant(p[1], p[2]) : p \in Access} \cup
  {Grant(p[1], p[2]) : p \in {p \in Uses : p[2].type = "privilege"}} \cup
  {Grant(p[2], p[1]) : p \in {p \in Uses : p[2].type = "folder" /\ p[1] \in CustomRoles}}

\* A sync that ends has every grant of the workspace and no other.
GrantsEverything == phase = "done" => disk.grants = AllGrants

\* A stored folder lies under the folder it lies in, a root folder under some
\* project, also after a sync was interrupted and resumed: the first listing that
\* shows a resource decides, and a skipped one must not change it.
FoldersUnderTheirParent ==
  \A f \in OfType("folder") \cap db.stored :
    IF Root(f) THEN db.parent[f] \in OfType("project") ELSE db.parent[f] = ParentOf[f]

\* When the grants of a custom role are fetched, the role cache knows the role,
\* provided no process was started in the middle of the sync.
GrantsFindTheirRole ==
  stops = 0 =>
    \A i \in 1 .. Len(actions) :
      actions[i].op = "grants" /\ actions[i].on \in CustomRoles =>
        actions[i].on \in roles["role"]

\* A sync that is not interrupted ends, however often a request is repeated.
SyncEnds == <>(phase = "done" \/ stops > 0)

-----------------------------------------------------------------------------
(* The abstract file *)

\* A folder comes after its parent; the root folders of all projects come with
\* whichever project is listed first.
Above ==
  [r \in Resources |->
     IF r.type # "folder" THEN {} ELSE IF Root(r) THEN OfType("project") ELSE {ParentOf[r]}]

File == INSTANCE SyncFile
          WITH Grants <- AllGrants, rows <- db.stored, granted <- db.grants,
               ended <- phase = "done", disturbed <- stops > 0

\* The store of a sync that is not interrupted is filled as promised: parents
\* first, grants last, and complete when the sync ends.
FileIsComplete == File!Spec
=============================================================================
