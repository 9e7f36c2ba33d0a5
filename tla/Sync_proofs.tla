----------------------------- MODULE Sync_proofs -----------------------------
(***************************************************************************)
(* The action stack of the syncer and its checkpoints name only resources   *)
(* of the store they belong to: for every workspace, every order of the     *)
(* resource types, every kind of answer and any number of interruptions.    *)
(***************************************************************************)
EXTENDS Sync, FiniteSetTheorems, SequenceTheorems, TLAPS

-----------------------------------------------------------------------------
(* Listings *)

\* A subset of the workspace has one place for each member, and a member at each
\* place.
LEMMA Places ==
  ASSUME NEW S \in SUBSET Resources
  PROVE  /\ IsFiniteSet(S) /\ Cardinality(S) \in Nat
         /\ \A r \in S : Position(S, r) \in 1 .. Cardinality(S)
         /\ \A r, q \in S : Position(S, r) = Position(S, q) => r = q
         /\ \A i \in 1 .. Cardinality(S) : \E r \in S : Position(S, r) = i
<1>. DEFINE n == Cardinality(S)
            Upto(r) == {q \in S : Rank[q] <= Rank[r]}
            f == [r \in S |-> Position(S, r)]
<1>1. IsFiniteSet(S) /\ n \in Nat
  BY FS_Subset, FS_CardinalityType, BuildersAssumption
<1>2. \A r \in S : Rank[r] \in Nat
  BY BuildersAssumption
<1>3. \A r \in S : IsFiniteSet(Upto(r)) /\ Position(S, r) = Cardinality(Upto(r))
  BY <1>1, FS_Subset DEF Position
<1>4. ASSUME NEW r \in S PROVE Position(S, r) \in 1 .. n
  <2>1. r \in Upto(r)
    BY <1>2
  <2>2. Upto(r) \in SUBSET S
    OBVIOUS
  <2>3. Cardinality(Upto(r)) <= n
    BY <1>1, <2>2, FS_Subset
  <2>4. Cardinality(Upto(r)) \in Nat /\ Cardinality(Upto(r)) # 0
    BY <1>3, <2>1, FS_EmptySet, FS_CardinalityType
  <2>. QED
    BY <1>1, <1>3, <2>3, <2>4
<1>5. ASSUME NEW r \in S, NEW s \in S, Rank[r] < Rank[s]
      PROVE  Position(S, r) # Position(S, s)
  <2>1. Upto(r) \in SUBSET Upto(s)
    BY <1>2, <1>5
  <2>2. s \in Upto(s) /\ s \notin Upto(r)
    BY <1>2, <1>5
  <2>3. Cardinality(Upto(s)) # Cardinality(Upto(r))
    BY <1>3, <2>1, <2>2, FS_Subset
  <2>. QED
    BY <1>3, <2>3
<1>6. \A r, s \in S : f[r] = f[s] => r = s
  <2>1. \A r, s \in S : r # s => Rank[r] < Rank[s] \/ Rank[s] < Rank[r]
    BY <1>2, BuildersAssumption
  <2>. QED
    BY <1>5, <2>1
<1>7. f \in Injection(S, 1 .. n)
  <2>1. f \in [S -> 1 .. n]
    BY <1>4
  <2>. QED
    BY <1>6, <2>1 DEF Injection, IsInjective
<1>8. IsFiniteSet(1 .. n) /\ Cardinality(1 .. n) = n
  BY <1>1, FS_Interval
<1>9. f \in Surjection(S, 1 .. n)
  BY <1>7, <1>8, FS_Injection
<1>10. \A i \in 1 .. n : \E r \in S : Position(S, r) = i
  BY <1>9 DEF Surjection
<1>. QED
  BY <1>1, <1>4, <1>6, <1>10

\* Its listing has every member, and nothing else.
LEMMA OrderedLists ==
  ASSUME NEW S \in SUBSET Resources
  PROVE  /\ Cardinality(S) \in Nat
         /\ Ordered(S) \in Seq(S)
         /\ Len(Ordered(S)) = Cardinality(S)
         /\ \A i \in 1 .. Cardinality(S) : Ordered(S)[i] \in S
         /\ \A r \in S : \E i \in 1 .. Cardinality(S) : Ordered(S)[i] = r
<1>. DEFINE n == Cardinality(S)
<1>1. \A i \in 1 .. n : Ordered(S)[i] \in S /\ Position(S, Ordered(S)[i]) = i
  BY Places DEF Ordered
<1>2. n \in Nat /\ Ordered(S) \in [1 .. n -> S]
  BY <1>1, Places DEF Ordered
<1>3. Ordered(S) \in Seq(S) /\ Len(Ordered(S)) = n
  BY <1>2
<1>4. \A r \in S : Position(S, r) \in 1 .. n /\ Ordered(S)[Position(S, r)] = r
  BY <1>1, Places
<1>. QED
  BY <1>1, <1>2, <1>3, <1>4

-----------------------------------------------------------------------------
(* The invariant *)

\* The actions that are about resources of the set R.
Named(R) ==
  {a \in [op : Ops, type : Types \cup {"all"}, on : R \cup {Nobody},
          page : Seq(Nat) \cup Seq(Types)] : ActionOK(a)}

\* The rows of a store, and a store whose checkpoint names its own resources.
RowsOK(d) ==
  d \in [types : TypeOrders \cup {<< >>}, stored : SUBSET Resources,
         parent : [Resources -> Resources \cup {Nobody}],
         entitled : SUBSET Resources, grants : SUBSET [on : Resources, to : Resources],
         token : Seq(Named(Resources))]
StoreInv(d) == RowsOK(d) /\ d.token \in Seq(Named(d.stored))

CachesOK ==
  /\ people \in [{"privilege", "role", "folder"} -> SUBSET OfType("collaborator")]
  /\ roles \in [{"role", "folder"} -> SUBSET CustomRoles]

\* The invariant the steps preserve together: the stack names resources of the
\* store in memory, and each store's checkpoint names resources of that store.
StackInv ==
  /\ phase \in {"off", "running", "done"}
  /\ actions \in Seq(Named(db.stored))
  /\ fresh \in BOOLEAN
  /\ CachesOK
  /\ StoreInv(db) /\ StoreInv(disk)
  /\ stops \in 0 .. MaxStops

-----------------------------------------------------------------------------
(* Actions and stacks *)

\* An action about R is one about every larger set, and so is a stack.
LEMMA NamedMonotonic ==
  ASSUME NEW R, NEW Q, R \subseteq Q, NEW s \in Seq(Named(R))
  PROVE  s \in Seq(Named(Q))
<1>1. Named(R) \subseteq Named(Q)
  BY DEF Named
<1>. QED
  BY <1>1, SeqMonotonic

\* The actions the syncer makes are actions about their resource.
LEMMA NamedWhole ==
  ASSUME NEW R, NEW op \in Ops
  PROVE  Whole(op) \in Named(R)
<1>1. << >> \in Seq(Nat)
  OBVIOUS
<1>. QED
  BY <1>1 DEF Whole, Action, Named, ActionOK

LEMMA NamedListing ==
  ASSUME NEW R \in SUBSET Resources
  PROVE  /\ \A t \in Types : Action("resources", t, Nobody, << >>) \in Named(R)
         /\ \A p \in Parents(R) : Action("resources", "folder", p, << >>) \in Named(R)
<1>1. << >> \in Seq(Nat) /\ "resources" \in Ops /\ "folder" \in Types
  BY DEF Ops, Types
<1>2. ASSUME NEW t \in Types PROVE Action("resources", t, Nobody, << >>) \in Named(R)
  BY <1>1 DEF Action, Named, ActionOK
<1>3. ASSUME NEW p \in Parents(R)
      PROVE  Action("resources", "folder", p, << >>) \in Named(R)
  <2>1. p \in R /\ p \in Parents(Resources)
    BY DEF Parents
  <2>. QED
    BY <1>1, <2>1 DEF Action, Named, ActionOK
<1>. QED
  BY <1>2, <1>3

LEMMA NamedAbout ==
  ASSUME NEW R \in SUBSET Resources, NEW op \in {"entitlements", "grants"},
         NEW r \in WithGrants(R)
  PROVE  AboutResource(op, r) \in Named(R)
<1>1. << >> \in Seq(Nat) /\ << >> \in Seq(Types) /\ op \in Ops
  BY DEF Ops
<1>2. r \in R /\ r.type \in Types /\ r \in WithGrants(Resources)
  BY BuildersAssumption DEF WithGrants
<1>. QED
  BY <1>1, <1>2 DEF AboutResource, Action, Named, ActionOK

\* The parts of the stack the loop works with.
LEMMA StackParts ==
  ASSUME NEW R, actions \in Seq(Named(R)), actions # << >>
  PROVE  Current \in Named(R) /\ Rest \in Seq(Named(R))
<1>1. Len(actions) \in Nat \ {0}
  BY EmptySeq
<1>2. \A i \in 1 .. Len(actions) : actions[i] \in Named(R)
  BY ElementOfSeq
<1>3. Rest \in Seq(Named(R))
  BY <1>1, <1>2, SubSeqProperties DEF Rest
<1>. QED
  BY <1>1, <1>2, <1>3 DEF Current

\* The next page of an action is about the same resource.
LEMMA NextPageNamed ==
  ASSUME NEW R, actions \in Seq(Named(R)), actions # << >>, NEW token,
         Current.type # "all",
         \/ Current.op = "resources" /\ token \in Seq(Nat)
         \/ Current.op = "grants" /\ token \in Seq(Types)
  PROVE  Advance(token) \in Seq(Named(R))
<1>. DEFINE next == [Current EXCEPT !.page = token]
<1>1. Current \in Named(R) /\ Rest \in Seq(Named(R))
  BY StackParts
<1>2. /\ next \in [op : Ops, type : Types \cup {"all"}, on : R \cup {Nobody},
                   page : Seq(Nat) \cup Seq(Types)]
      /\ next.op = Current.op /\ next.type = Current.type
      /\ next.on = Current.on /\ next.page = token
  BY <1>1 DEF Named
<1>3. ActionOK(next)
  <2>1. ActionOK(Current)
    BY <1>1 DEF Named
  <2>2. Current # Whole(Current.op)
    BY DEF Whole, Action
  <2>. QED
    BY <1>2, <2>1, <2>2 DEF ActionOK
<1>4. next \in Named(R)
  BY <1>2, <1>3 DEF Named
<1>5. Append(Rest, next) \in Seq(Named(R))
  BY <1>1, <1>4, AppendProperties
<1>. QED
  BY <1>1, <1>5 DEF Advance

-----------------------------------------------------------------------------
(* What the builders answer *)

\* An order of the resource types is a sequence of them.
LEMMA OrderType ==
  ASSUME NEW order \in TypeOrders \cup {<< >>}
  PROVE  order \in Seq(Types)
<1>1. IsFiniteSet({"collaborator", "privilege", "role", "folder"} \cup {"project"})
  <2>1. IsFiniteSet({"collaborator"} \cup {"privilege"})
    BY FS_Singleton, FS_AddElement
  <2>2. IsFiniteSet({"collaborator", "privilege"} \cup {"role"})
    <3>. {"collaborator"} \cup {"privilege"} = {"collaborator", "privilege"}
      OBVIOUS
    <3>. QED
      BY <2>1, FS_AddElement
  <2>3. IsFiniteSet({"collaborator", "privilege", "role"} \cup {"folder"})
    <3>. {"collaborator", "privilege"} \cup {"role"} = {"collaborator", "privilege", "role"}
      OBVIOUS
    <3>. QED
      BY <2>2, FS_AddElement
  <2>. {"collaborator", "privilege", "role"} \cup {"folder"}
         = {"collaborator", "privilege", "role", "folder"}
    OBVIOUS
  <2>. QED
    BY <2>3, FS_AddElement
<1>2. Types = {"collaborator", "privilege", "role", "folder"} \cup {"project"}
  BY DEF Types
<1>3. Cardinality(Types) \in Nat
  BY <1>1, <1>2, FS_CardinalityType
<1>4. CASE order = << >>
  BY <1>4
<1>5. CASE order \in TypeOrders
  <2>1. order \in [1 .. Cardinality(Types) -> Types]
    BY <1>5, SyncAssumption
  <2>. QED
    BY <1>3, <2>1
<1>. QED
  BY <1>4, <1>5

\* A page holds resources.
LEMMA PagesAreResources ==
  ASSUME NEW t \in Types, NEW parent, NEW token, NEW page \in ListReads(t, parent, token)
  PROVE  page \in SUBSET Resources
<1>1. Listed(t, parent) \in SUBSET Resources
  BY DEF Listed, OfType, CustomRoles
<1>2. \A n : Page(Listed(t, parent), n) \in SUBSET Resources
  BY <1>1 DEF Page
<1>. QED
  BY <1>1, <1>2 DEF ListReads, Reads

\* What a role cache may hold are custom roles.
LEMMA RolesAreCustom ==
  /\ RoleReads \subseteq SUBSET CustomRoles
  /\ FirstPages \subseteq SUBSET CustomRoles
<1>1. \A m : Page(CustomRoles, m) \subseteq CustomRoles
  BY DEF Page
<1>2. FirstPages \subseteq SUBSET CustomRoles
  BY <1>1 DEF FirstPages
<1>. QED
  BY <1>2 DEF RoleReads

\* The grants of a page are pairs of resources.
LEMMA GrantsAreResources ==
  ASSUME CachesOK, NEW r \in Resources, NEW token
  PROVE  GrantsPage(r, token, PeopleOf(r), RolesOf(r)) \subseteq [on : Resources, to : Resources]
<1>1. PeopleOf(r) \subseteq Resources /\ RolesOf(r) \subseteq Resources
  BY DEF CachesOK, PeopleOf, RolesOf, OfType, CustomRoles
<1>2. \A x, y \in Resources : Grant(x, y) \in [on : Resources, to : Resources]
  BY DEF Grant
<1>3. PeopleGrants(r, PeopleOf(r)) \subseteq [on : Resources, to : Resources]
  BY <1>1, <1>2 DEF PeopleGrants
<1>4. FolderGrants(r, RolesOf(r)) \subseteq [on : Resources, to : Resources]
  BY <1>1, <1>2 DEF FolderGrants
<1>5. PrivilegeGrants(r) \subseteq [on : Resources, to : Resources]
  <2>1. OfType("privilege") \subseteq Resources
    BY DEF OfType
  <2>. QED
    BY <1>2, <2>1 DEF PrivilegeGrants
<1>. QED
  BY <1>3, <1>4, <1>5 DEF GrantsPage

-----------------------------------------------------------------------------
(* Steps *)

\* The loop has an action about a stored resource in hand.
LEMMA TurnFacts ==
  ASSUME StackInv, NEW op, NEW type, Turn(op, type)
  PROVE  /\ actions # << >> /\ Current.op = op
         /\ Current \in Named(db.stored) /\ Rest \in Seq(Named(db.stored))
         /\ db.stored \subseteq Resources
BY StackParts DEF StackInv, StoreInv, RowsOK, Turn

\* A turn that goes on keeps the invariant when its new rows are rows, none is
\* taken away, and its new stack names stored resources.
LEMMA ContinueKeeps ==
  ASSUME StackInv, NEW s, NEW d, Continue(s, d), CachesOK', RowsOK(d),
         db.stored \subseteq d.stored, s \in Seq(Named(d.stored))
  PROVE  StackInv'
<1>1. PICK token \in Tokens : db' = [d EXCEPT !.token = token]
  BY DEF Continue
<1>2. token \in Seq(Named(db.stored))
  BY <1>1 DEF Tokens, StackInv, StoreInv
<1>3. d.stored \subseteq Resources
  BY DEF RowsOK
<1>4. token \in Seq(Named(d.stored))
  BY <1>2, NamedMonotonic
<1>5. token \in Seq(Named(Resources))
  BY <1>3, <1>4, NamedMonotonic
<1>6. RowsOK(db') /\ db'.stored = d.stored /\ db'.token = token
  BY <1>1, <1>5 DEF RowsOK
<1>7. StoreInv(db')
  BY <1>4, <1>6 DEF StoreInv
<1>. QED
  BY <1>6, <1>7 DEF Continue, StackInv

\* A sync that stops leaves its store behind, with one of its checkpoints.
LEMMA AbortKeeps ==
  ASSUME StackInv, Abort, stops' \in 0 .. MaxStops
  PROVE  StackInv'
<1>1. PICK token \in Tokens : disk' = [db EXCEPT !.token = token]
  BY DEF Abort
<1>2. token \in Seq(Named(db.stored))
  BY DEF Tokens, StackInv, StoreInv
<1>3. db.stored \subseteq Resources
  BY DEF StackInv, StoreInv, RowsOK
<1>4. token \in Seq(Named(Resources))
  BY <1>2, <1>3, NamedMonotonic
<1>5. RowsOK(disk') /\ disk'.stored = db.stored /\ disk'.token = token
  BY <1>1, <1>4 DEF StackInv, StoreInv, RowsOK
<1>6. StoreInv(disk')
  BY <1>2, <1>5 DEF StoreInv
<1>7. StoreInv(EmptyStore) /\ EmptyStore.stored = {}
  BY DEF EmptyStore, StoreInv, RowsOK
<1>. QED
  BY <1>6, <1>7 DEF Abort, StackInv, CachesOK, NoPeople, NoRoles

LEMMA StackInit == Init => StackInv
<1>. SUFFICES ASSUME Init PROVE StackInv
  OBVIOUS
<1>1. StoreInv(EmptyStore)
  BY DEF EmptyStore, StoreInv, RowsOK
<1>. QED
  BY <1>1, SyncAssumption DEF Init, StackInv, CachesOK, NoPeople, NoRoles

\* Starting takes up the saved store, whose checkpoint names its resources.
LEMMA StartKeeps == StackInv /\ Start => StackInv'
<1>. SUFFICES ASSUME StackInv, Start PROVE StackInv'
  OBVIOUS
<1>1. Whole("init") \in Named(disk.stored)
  BY NamedWhole DEF Ops
<1>2. <<Whole("init")>> \in Seq(Named(disk.stored))
  BY <1>1
<1>3. actions' \in Seq(Named(disk.stored))
  BY <1>2 DEF Start, StackInv, StoreInv
<1>. QED
  BY <1>3 DEF Start, StackInv, CachesOK

LEMMA BeginKeeps == StackInv /\ Begin => StackInv'
<1>. SUFFICES ASSUME StackInv, Begin PROVE StackInv'
  OBVIOUS
<1>1. \A R : Plan \in Seq(Named(R))
  <2>. TAKE R
  <2>1. /\ Whole("expand") \in Named(R) /\ Whole("grants") \in Named(R)
        /\ Whole("entitlements") \in Named(R) /\ Whole("resources") \in Named(R)
        /\ Whole("types") \in Named(R)
    BY NamedWhole DEF Ops
  <2>. QED
    BY <2>1 DEF Plan
<1>2. PICK token \in Tokens \cup {Plan} : db' = [db EXCEPT !.token = token]
  BY DEF Begin
<1>3. token \in Seq(Named(db.stored))
  BY <1>1 DEF Tokens, StackInv, StoreInv
<1>4. db.stored \subseteq Resources
  BY DEF StackInv, StoreInv, RowsOK
<1>5. token \in Seq(Named(Resources))
  BY <1>3, <1>4, NamedMonotonic
<1>6. RowsOK(db') /\ db'.stored = db.stored /\ db'.token = token
  BY <1>2, <1>5 DEF StackInv, StoreInv, RowsOK
<1>7. StoreInv(db') /\ actions' \in Seq(Named(db'.stored))
  BY <1>1, <1>3, <1>6 DEF StoreInv, Begin
<1>. QED
  BY <1>7 DEF Begin, StackInv, CachesOK

\* The steps that finish the action in hand and store no resource.
LEMMA RestKeeps ==
  ASSUME StackInv, NEW op, NEW type, Turn(op, type), NEW d, Continue(Rest, d),
         UNCHANGED <<people, roles>>, RowsOK(d), d.stored = db.stored
  PROVE  StackInv'
<1>1. CachesOK'
  BY DEF StackInv, CachesOK
<1>. QED
  BY <1>1, TurnFacts, ContinueKeeps

LEMMA TypesKeep == StackInv /\ SyncResourceTypes => StackInv'
<1>. SUFFICES ASSUME StackInv, SyncResourceTypes PROVE StackInv'
  OBVIOUS
<1>1. PICK order \in TypeOrders :
        Continue(Rest, [db EXCEPT !.types = IF @ = << >> THEN order ELSE @])
  BY DEF SyncResourceTypes
<1>. DEFINE d == [db EXCEPT !.types = IF @ = << >> THEN order ELSE @]
<1>2. RowsOK(d) /\ d.stored = db.stored
  BY DEF StackInv, StoreInv, RowsOK
<1>. QED
  BY <1>1, <1>2, RestKeeps DEF SyncResourceTypes

\* The steps that put one action for each of a list on the stack.
LEMMA PushKeeps ==
  ASSUME StackInv, NEW op, NEW type, Turn(op, type),
         NEW t \in Seq(Named(db.stored)), Continue(Rest \o t, db),
         UNCHANGED <<people, roles>>
  PROVE  StackInv'
<1>1. CachesOK' /\ RowsOK(db)
  BY DEF StackInv, CachesOK, StoreInv
<1>2. Rest \o t \in Seq(Named(db.stored))
  BY TurnFacts, ConcatProperties
<1>. QED
  BY <1>1, <1>2, ContinueKeeps

LEMMA AllResourcesKeep == StackInv /\ SyncAllResources => StackInv'
<1>. SUFFICES ASSUME StackInv, SyncAllResources PROVE StackInv'
  OBVIOUS
<1>. DEFINE t == [i \in 1 .. Len(db.types) |-> Action("resources", db.types[i], Nobody, << >>)]
<1>1. db.types \in Seq(Types)
  BY OrderType DEF StackInv, StoreInv, RowsOK
<1>2. db.stored \in SUBSET Resources
  BY DEF StackInv, StoreInv, RowsOK
<1>3. /\ Len(db.types) \in Nat
      /\ \A i \in 1 .. Len(db.types) :
           Action("resources", db.types[i], Nobody, << >>) \in Named(db.stored)
  BY <1>1, <1>2, NamedListing
<1>4. t \in Seq(Named(db.stored))
  BY <1>3
<1>. QED
  BY <1>4, PushKeeps DEF SyncAllResources

\* One action for each stored resource that has entitlements and grants.
LEMMA PerResourceNamed ==
  ASSUME StackInv, NEW op \in {"entitlements", "grants"}
  PROVE  PerResource(op) \in Seq(Named(db.stored))
<1>. DEFINE S == WithGrants(db.stored)
<1>1. db.stored \in SUBSET Resources /\ S \in SUBSET Resources
  BY DEF StackInv, StoreInv, RowsOK, WithGrants
<1>2. /\ Cardinality(S) \in Nat
      /\ \A i \in 1 .. Cardinality(S) : Ordered(S)[i] \in S
  BY <1>1, OrderedLists
<1>3. \A i \in 1 .. Cardinality(S) : AboutResource(op, Ordered(S)[i]) \in Named(db.stored)
  BY <1>1, <1>2, NamedAbout
<1>. QED
  BY <1>2, <1>3 DEF PerResource

LEMMA AllGrantsKeep ==
  StackInv /\ (SyncAllEntitlements \/ SyncAllGrants) => StackInv'
<1>1. ASSUME StackInv, SyncAllEntitlements PROVE StackInv'
  BY <1>1, PerResourceNamed, PushKeeps DEF SyncAllEntitlements
<1>2. ASSUME StackInv, SyncAllGrants PROVE StackInv'
  BY <1>2, PerResourceNamed, PushKeeps DEF SyncAllGrants
<1>. QED
  BY <1>1, <1>2

\* The stack after a listing: the rest or the next page, and a listing for each
\* new parent.
LEMMA SpawnNamed ==
  ASSUME StackInv, Turn("resources", TRUE), NEW new \in SUBSET Resources,
         NEW page, NEW R \in SUBSET Resources, db.stored \subseteq R, new \subseteq R
  PROVE  Spawn(ListNext(Current.type, Current.on, Current.page, page), Parents(new))
           \in Seq(Named(R))
<1>. DEFINE token == ListNext(Current.type, Current.on, Current.page, page)
            S == Parents(new)
            t == [i \in 1 .. Cardinality(S) |->
                    Action("resources", "folder", Ordered(S)[i], << >>)]
<1>1. /\ actions # << >> /\ Current.op = "resources" /\ Current.type # "all"
      /\ Current \in Named(db.stored) /\ Rest \in Seq(Named(db.stored))
      /\ actions \in Seq(Named(db.stored))
  BY TurnFacts DEF Turn, StackInv
<1>2. PageNumber(Current.page) \in Nat
  <2>1. ActionOK(Current) /\ Current # Whole(Current.op)
    BY <1>1 DEF Named, Whole, Action
  <2>2. Current.page \in Seq(Nat)
    BY <1>1, <2>1 DEF ActionOK
  <2>. QED
    BY <2>2, EmptySeq DEF PageNumber
<1>3. token \in Seq(Nat)
  <2>1. token = << >> \/ token = <<PageNumber(Current.page) + 1>>
    BY DEF ListNext, NextToken
  <2>2. << >> \in Seq(Nat) /\ <<PageNumber(Current.page) + 1>> \in Seq(Nat)
    BY <1>2
  <2>. QED
    BY <2>1, <2>2
<1>4. Advance(token) \in Seq(Named(db.stored))
  BY <1>1, <1>3, NextPageNamed
<1>5. Advance(token) \in Seq(Named(R))
  BY <1>4, NamedMonotonic
<1>6. S \in SUBSET Resources /\ S \subseteq Parents(R)
  BY DEF Parents
<1>7. /\ Cardinality(S) \in Nat
      /\ \A i \in 1 .. Cardinality(S) :
           Action("resources", "folder", Ordered(S)[i], << >>) \in Named(R)
  BY <1>6, OrderedLists, NamedListing
<1>8. t \in Seq(Named(R))
  BY <1>7
<1>. QED
  BY <1>5, <1>8, ConcatProperties DEF Spawn

LEMMA ResourcesKeep == StackInv /\ SyncResources => StackInv'
<1>. SUFFICES ASSUME StackInv, SyncResources PROVE StackInv'
  OBVIOUS
<1>. DEFINE a == Current
<1>1. Turn("resources", TRUE)
  BY DEF SyncResources
<1>2. PICK page \in ListReads(a.type, a.on, a.page) :
        LET new == Unseen(WithBaseRoles(a.type, page)) IN
        Continue(Spawn(ListNext(a.type, a.on, a.page, page), Parents(new)),
                 [db EXCEPT !.stored = @ \cup new,
                            !.parent = [r \in Resources |-> IF r \in new THEN a.on ELSE @[r]]])
  BY DEF SyncResources
<1>. DEFINE new == Unseen(WithBaseRoles(a.type, page))
            d == [db EXCEPT !.stored = @ \cup new,
                            !.parent = [r \in Resources |-> IF r \in new THEN a.on ELSE @[r]]]
<1>3. a \in Named(db.stored) /\ a.type \in Types /\ a.on \in Resources \cup {Nobody}
  BY <1>1, TurnFacts DEF Named, Turn
<1>4. new \in SUBSET Resources
  <2>1. page \in SUBSET Resources
    BY <1>3, PagesAreResources
  <2>2. BaseRoles \in SUBSET Resources
    BY BuildersAssumption DEF OfType
  <2>. QED
    BY <2>1, <2>2 DEF Unseen, WithBaseRoles
<1>5. db.stored \in SUBSET Resources /\ db.parent \in [Resources -> Resources \cup {Nobody}]
  BY DEF StackInv, StoreInv, RowsOK
<1>6. /\ d.stored = db.stored \cup new
      /\ RowsOK(d)
  <2>1. db.stored \cup new \in SUBSET Resources
    BY <1>4, <1>5
  <2>2. [r \in Resources |-> IF r \in new THEN a.on ELSE db.parent[r]]
          \in [Resources -> Resources \cup {Nobody}]
    BY <1>3, <1>5
  <2>. HIDE DEF new, a
  <2>. QED
    BY <2>1, <2>2 DEF StackInv, StoreInv, RowsOK
<1>7. Spawn(ListNext(a.type, a.on, a.page, page), Parents(new)) \in Seq(Named(d.stored))
  BY <1>1, <1>4, <1>5, <1>6, SpawnNamed
<1>8. CachesOK'
  <2>1. people' \in [{"privilege", "role", "folder"} -> SUBSET OfType("collaborator")]
    BY DEF SyncResources, StackInv, CachesOK, Reads
  <2>2. roles' \in [{"role", "folder"} -> SUBSET CustomRoles]
    BY RolesAreCustom DEF SyncResources, StackInv, CachesOK
  <2>. QED
    BY <2>1, <2>2 DEF CachesOK
<1>9. Continue(Spawn(ListNext(a.type, a.on, a.page, page), Parents(new)), d)
  BY <1>2
<1>. QED
  <2>. HIDE DEF d, a, new
  <2>. QED
    BY <1>6, <1>7, <1>8, <1>9, ContinueKeeps

LEMMA RetryKeeps == StackInv /\ Retry => StackInv'
<1>. SUFFICES ASSUME StackInv, Retry PROVE StackInv'
  OBVIOUS
<1>1. people' \in [{"privilege", "role", "folder"} -> SUBSET OfType("collaborator")]
  BY DEF Retry, StackInv, CachesOK
<1>2. roles' \in [{"role", "folder"} -> SUBSET CustomRoles]
  <2>1. CASE roles' = roles
    BY <2>1 DEF StackInv, CachesOK
  <2>2. CASE /\ Current.type \in {"role", "folder"}
             /\ \E part \in FirstPages \cup {roles[Current.type]} :
                  roles' = [roles EXCEPT ![Current.type] = part]
    <3>1. FirstPages \cup {roles[Current.type]} \subseteq SUBSET CustomRoles
      BY <2>2, RolesAreCustom DEF StackInv, CachesOK
    <3>. QED
      BY <2>2, <3>1 DEF StackInv, CachesOK
  <2>. QED
    BY <2>1, <2>2 DEF Retry, BuildsRoles, BuildsPeople
<1>3. CachesOK' /\ RowsOK(db) /\ actions \in Seq(Named(db.stored))
  BY <1>1, <1>2 DEF CachesOK, StackInv, StoreInv
<1>. QED
  BY <1>3, ContinueKeeps DEF Retry

LEMMA EntitlementsKeep == StackInv /\ SyncEntitlements => StackInv'
<1>. SUFFICES ASSUME StackInv, SyncEntitlements PROVE StackInv'
  OBVIOUS
<1>. DEFINE d == [db EXCEPT !.entitled = @ \cup {Current.on}]
<1>1. RowsOK(d) /\ d.stored = db.stored
  BY DEF StackInv, StoreInv, RowsOK, SyncEntitlements
<1>. QED
  BY <1>1, RestKeeps DEF SyncEntitlements

LEMMA ExpansionKeeps == StackInv /\ SyncGrantExpansion => StackInv'
<1>. SUFFICES ASSUME StackInv, SyncGrantExpansion PROVE StackInv'
  OBVIOUS
<1>1. RowsOK(db)
  BY DEF StackInv, StoreInv
<1>. QED
  BY <1>1, RestKeeps DEF SyncGrantExpansion

LEMMA GrantsKeep == StackInv /\ SyncGrants => StackInv'
<1>. SUFFICES ASSUME StackInv, SyncGrants PROVE StackInv'
  OBVIOUS
<1>. DEFINE a == Current
            got == GrantsPage(a.on, a.page, PeopleOf(a.on), RolesOf(a.on))
            d == [db EXCEPT !.grants = @ \cup got]
            token == NextGrants(a.on, a.page)
<1>1. /\ Turn("grants", TRUE) /\ a.on \in db.stored
      /\ Continue(Advance(token), d)
      /\ UNCHANGED <<people, roles>>
  BY DEF SyncGrants
<1>2. /\ actions # << >> /\ a.op = "grants" /\ a.type # "all" /\ a \in Named(db.stored)
      /\ actions \in Seq(Named(db.stored)) /\ db.stored \in SUBSET Resources
  BY <1>1, TurnFacts DEF Turn, StackInv
<1>3. a.page \in Seq(Types)
  <2>1. ActionOK(a) /\ a # Whole(a.op)
    BY <1>2 DEF Named, Whole, Action
  <2>. QED
    BY <1>2, <2>1 DEF ActionOK
<1>4. token \in Seq(Types)
  <2>1. << >> \in Seq(Types)
    OBVIOUS
  <2>2. <<"collaborator", "role">> \in Seq(Types)
    BY DEF Types
  <2>3. CASE a.page # << >>
    <3>1. Len(a.page) \in Nat \ {0} /\ \A i \in 1 .. Len(a.page) : a.page[i] \in Types
      BY <1>3, <2>3, EmptySeq, ElementOfSeq
    <3>2. SubSeq(a.page, 1, Len(a.page) - 1) \in Seq(Types)
      BY <3>1, SubSeqProperties
    <3>. QED
      BY <2>1, <2>3, <3>2 DEF NextGrants
  <2>. QED
    BY <2>1, <2>2, <2>3 DEF NextGrants
<1>5. Advance(token) \in Seq(Named(db.stored))
  BY <1>2, <1>4, NextPageNamed
<1>6. got \subseteq [on : Resources, to : Resources]
  BY <1>1, <1>2, GrantsAreResources DEF StackInv
<1>7. RowsOK(d) /\ d.stored = db.stored
  <2>. HIDE DEF got
  <2>. QED
    BY <1>6 DEF StackInv, StoreInv, RowsOK
<1>8. CachesOK'
  BY <1>1 DEF StackInv, CachesOK
<1>. QED
  <2>. HIDE DEF d, token
  <2>. QED
    BY <1>1, <1>5, <1>7, <1>8, ContinueKeeps

\* The end of a sync, of a process, and of a sync that fails.
LEMMA StopsKeep ==
  StackInv /\ (EndSync \/ Fail \/ Interrupt \/ Crash) => StackInv'
<1>1. ASSUME StackInv, EndSync PROVE StackInv'
  BY <1>1 DEF EndSync, StackInv, CachesOK
<1>2. ASSUME StackInv, Fail PROVE StackInv'
  BY <1>2, AbortKeeps DEF Fail, StackInv
<1>3. ASSUME StackInv, Interrupt PROVE StackInv'
  <2>1. stops' \in 0 .. MaxStops
    BY <1>3, SyncAssumption DEF Interrupt, StackInv
  <2>. QED
    BY <1>3, <2>1, AbortKeeps DEF Interrupt
<1>4. ASSUME StackInv, Crash PROVE StackInv'
  <2>1. stops' \in 0 .. MaxStops
    BY <1>4, SyncAssumption DEF Crash, StackInv
  <2>2. StoreInv(EmptyStore) /\ EmptyStore.stored = {}
    BY DEF EmptyStore, StoreInv, RowsOK
  <2>. QED
    BY <1>4, <2>1, <2>2 DEF Crash, StackInv, CachesOK, NoPeople, NoRoles
<1>. QED
  BY <1>1, <1>2, <1>3, <1>4

LEMMA StackStep == StackInv /\ [Next]_vars => StackInv'
<1>1. StackInv /\ UNCHANGED vars => StackInv'
  BY DEF StackInv, CachesOK, vars
<1>. QED
  BY <1>1, StartKeeps, BeginKeeps, TypesKeep, AllResourcesKeep, ResourcesKeep,
     AllGrantsKeep, EntitlementsKeep, GrantsKeep, ExpansionKeeps, StopsKeep, RetryKeeps
  DEF Next, Step

-----------------------------------------------------------------------------
(* The place of a folder *)

Placed(d) ==
  \A f \in OfType("folder") \cap d.stored :
    IF Root(f) THEN d.parent[f] \in OfType("project") ELSE d.parent[f] = ParentOf[f]

PlacedInv == Placed(db) /\ Placed(disk)

SameRows(d, e) == d.stored = e.stored /\ d.parent = e.parent

LEMMA PlacedSame ==
  ASSUME NEW d, NEW e, SameRows(d, e), Placed(e)
  PROVE  Placed(d)
BY DEF SameRows, Placed

\* A page, whatever was read of it, holds only what there is to list.
LEMMA PageListed ==
  ASSUME NEW t, NEW parent, NEW token, NEW page \in ListReads(t, parent, token)
  PROVE  page \subseteq Listed(t, parent)
<1>1. \A n : Page(Listed(t, parent), n) \subseteq Listed(t, parent)
  BY DEF Page
<1>. QED
  BY <1>1 DEF ListReads, Reads

\* A folder that is listed lies under the parent it is listed for, as far as the
\* builder tells.
LEMMA ListedPlace ==
  ASSUME NEW t \in Types, NEW parent \in Resources \cup {Nobody}, NEW f \in Listed(t, parent),
         f.type = "folder"
  PROVE  IF Root(f) THEN parent \in OfType("project") ELSE parent = ParentOf[f]
<1>1. t = "folder"
  BY DEF Listed, OfType, CustomRoles
<1>2. parent # Nobody /\ parent \in Resources
  BY <1>1 DEF Listed
<1>. QED
  BY <1>1, <1>2 DEF Listed, OfType, Root

LEMMA PlacedStep ==
  ASSUME StackInv, [Next]_vars, Placed(db), Placed(disk)
  PROVE  Placed(db') /\ Placed(disk')
<1>1. Placed(EmptyStore)
  BY DEF Placed, EmptyStore
<1>2. ASSUME NEW new, NEW d, Continue(new, d) PROVE SameRows(db', d) /\ disk' = disk
  BY <1>2 DEF Continue, SameRows
<1>3. CASE SyncResources
  <2>. DEFINE a == Current
  <2>1. PICK page \in ListReads(a.type, a.on, a.page) :
          LET new == Unseen(WithBaseRoles(a.type, page)) IN
          Continue(Spawn(ListNext(a.type, a.on, a.page, page), Parents(new)),
                   [db EXCEPT !.stored = @ \cup new,
                              !.parent = [r \in Resources |-> IF r \in new THEN a.on ELSE @[r]]])
    BY <1>3 DEF SyncResources
  <2>. DEFINE new == Unseen(WithBaseRoles(a.type, page))
              d == [db EXCEPT !.stored = @ \cup new,
                              !.parent = [r \in Resources |-> IF r \in new THEN a.on ELSE @[r]]]
  <2>2. a.type \in Types /\ a.on \in Resources \cup {Nobody}
    <3>1. Turn("resources", TRUE)
      BY <1>3 DEF SyncResources
    <3>. QED
      BY <3>1, TurnFacts DEF Named, Turn
  <2>3. d.stored = db.stored \cup new
        /\ d.parent = [r \in Resources |-> IF r \in new THEN a.on ELSE db.parent[r]]
    BY DEF StackInv, StoreInv, RowsOK
  <2>4. ASSUME NEW f \in OfType("folder") \cap new
        PROVE  IF Root(f) THEN a.on \in OfType("project") ELSE a.on = ParentOf[f]
    <3>1. f \in page
      BY <2>4, BuildersAssumption DEF Unseen, WithBaseRoles, OfType
    <3>. QED
      <4>1. f \in Listed(a.type, a.on) /\ f.type = "folder"
        BY <2>4, <3>1, PageListed DEF OfType
      <4>. HIDE DEF a
      <4>. QED
        BY <2>2, <4>1, ListedPlace
  <2>5. Continue(Spawn(ListNext(a.type, a.on, a.page, page), Parents(new)), d)
    BY <2>1
  <2>. HIDE DEF a, new, d
  <2>6. Placed(d)
    BY <2>3, <2>4 DEF Placed, OfType
  <2>. QED
    BY <1>2, <2>5, <2>6, PlacedSame
<1>4. ASSUME Abort PROVE db' = EmptyStore /\ SameRows(disk', db)
  BY <1>4 DEF Abort, SameRows
<1>5. CASE Start \/ EndSync \/ Crash
  BY <1>1, <1>5 DEF Start, EndSync, Crash
<1>6. CASE Fail \/ Interrupt
  BY <1>1, <1>4, <1>6, PlacedSame DEF Fail, Interrupt
<1>7. CASE Begin \/ UNCHANGED vars
  <2>1. SameRows(db', db) /\ disk' = disk
    BY <1>7 DEF Begin, vars, SameRows, StackInv, StoreInv, RowsOK
  <2>. QED
    BY <2>1, PlacedSame
<1>8. ASSUME NEW new, NEW d, Continue(new, d), SameRows(d, db) PROVE Placed(db') /\ Placed(disk')
  BY <1>2, <1>8, PlacedSame DEF SameRows
<1>9. CASE SyncResourceTypes
  <2>1. \A order : SameRows([db EXCEPT !.types = IF @ = << >> THEN order ELSE @], db)
    BY DEF SameRows, StackInv, StoreInv, RowsOK
  <2>. QED
    BY <1>8, <1>9, <2>1 DEF SyncResourceTypes
<1>10. CASE SyncAllResources \/ SyncAllEntitlements \/ SyncAllGrants \/ SyncGrantExpansion \/ Retry
  BY <1>8, <1>10
  DEF SyncAllResources, SyncAllEntitlements, SyncAllGrants, SyncGrantExpansion, Retry, SameRows
<1>11. CASE SyncEntitlements \/ SyncGrants
  <2>1. \A S : SameRows([db EXCEPT !.entitled = S], db) /\ SameRows([db EXCEPT !.grants = S], db)
    BY DEF SameRows, StackInv, StoreInv, RowsOK
  <2>. QED
    BY <1>8, <1>11, <2>1 DEF SyncEntitlements, SyncGrants
<1>. QED
  BY <1>3, <1>5, <1>6, <1>7, <1>9, <1>10, <1>11 DEF Next, Step

-----------------------------------------------------------------------------
(* Theorems *)

LEMMA InvHolds == Spec => []StackInv
  BY StackInit, StackStep, PTL DEF Spec

\* What the invariant says of a stack.
LEMMA StackMeaning ==
  ASSUME NEW R, NEW s \in Seq(Named(R))
  PROVE  StackOK(s) /\ \A i \in 1 .. Len(s) : s[i].on \in R \cup {Nobody}
<1>1. DOMAIN s = 1 .. Len(s) /\ \A i \in 1 .. Len(s) : s[i] \in Named(R)
  BY ElementOfSeq, LenProperties
<1>. QED
  BY <1>1 DEF StackOK, Named

\* Every reachable state of a sync is well typed, the stack in memory and both
\* checkpoints included.
THEOREM SyncTyped == Spec => []TypeOK
<1>1. StackInv => TypeOK
  BY StackMeaning DEF StackInv, StoreInv, RowsOK, CachesOK, TypeOK, StoreOK
<1>. QED
  BY <1>1, InvHolds, PTL

\* The syncer never works on a resource its store does not have, and no file it
\* leaves behind makes a later process do so, wherever it was stopped or killed.
THEOREM StackNamesStored == Spec => []NamedAreStored
<1>1. StackInv => NamedAreStored
  BY StackMeaning DEF StackInv, StoreInv, NamedAreStored
<1>. QED
  BY <1>1, InvHolds, PTL

\* Every stored folder lies under its own folder or, if it is a root folder, under
\* some project, for every workspace, every kind of answer and every interruption.
THEOREM FoldersPlaced == Spec => []FoldersUnderTheirParent
<1>1. Init => PlacedInv
  BY DEF Init, EmptyStore, Placed, PlacedInv
<1>2. StackInv /\ PlacedInv /\ [Next]_vars => PlacedInv'
  BY PlacedStep DEF PlacedInv, Placed
<1>3. PlacedInv => FoldersUnderTheirParent
  BY DEF PlacedInv, Placed, FoldersUnderTheirParent
<1>. QED
  BY <1>1, <1>2, <1>3, StackInit, StackStep, PTL DEF Spec
=============================================================================
