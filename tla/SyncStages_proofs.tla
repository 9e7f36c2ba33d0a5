--------------------------- MODULE SyncStages_proofs ---------------------------
(***************************************************************************)
(* The stages of a sync: which steps of the plan are left on the stack, and *)
(* what the rows hold by then.  A checkpoint lies at the stage of the stack *)
(* or an earlier one, so what is true of the stage it names is true of the  *)
(* rows a later process finds, wherever the sync was stopped or killed.     *)
(***************************************************************************)
EXTENDS Sync_proofs

-----------------------------------------------------------------------------
(* The invariant *)

\* No answer of the workspace is dropped: the finding prov_dropped_error shows
\* what the rest of the program makes of a dropped answer.
NothingDropped == ~ Dropping

\* The actions on top of the plan's first k steps.
Typed(k) ==
  CASE k = 3 -> "resources" [] k = 2 -> "entitlements" [] k = 1 -> "grants" [] OTHER -> "none"

\* Stack s has the first k steps of the plan and above them what step k + 1 left to
\* do; before the plan is made there is one action, which is stage 6.
Stage(k, s) ==
  \/ k = 6 /\ s = <<Whole("init")>>
  \/ /\ k \in 0 .. 5 /\ Len(s) >= k
     /\ \A i \in 1 .. Len(s) :
          IF i <= k THEN s[i] = Plan[i] ELSE s[i].op = Typed(k) /\ s[i].type # "all"

\* Up to stage 3 a resource that is not a folder is stored or listed by an action of
\* the stack, up to stage 2 a resource with grants has its entitlements, or an
\* action for them.
ListingLeft(k, s, d) ==
  k <= 3 => \A r \in Resources \ d.stored :
              r.type # "folder" => \E a \in Range(s) : StillLists(a, r)
EntitlingLeft(k, s, d) ==
  k <= 2 => \A r \in WithGrants(d.stored) \ d.entitled :
              AboutResource("entitlements", r) \in Range(s)

\* Stack s is at stage k, and store d has the rows that stage needs.
Good(k, s, d) ==
  /\ Stage(k, s)
  /\ k <= 4 => d.types \in TypeOrders
  /\ ListingLeft(k, s, d)
  /\ EntitlingLeft(k, s, d)

\* The stack a process makes of a checkpoint.
Taken(token) == IF token = << >> THEN <<Whole("init")>> ELSE token

Rooted(d) == \A g \in d.grants : g.on \in d.entitled /\ g.to \in d.stored

\* A running sync is at stage k, and its checkpoint at this stage or an earlier one.
Running(k) == Good(k, actions, db) /\ \E m \in k .. 6 : Good(m, Taken(db.token), db)

StageInv ==
  /\ phase = "running" => \E k \in 0 .. 6 : Running(k)
  /\ \E m \in 0 .. 6 : Good(m, Taken(disk.token), disk)
  /\ Rooted(db) /\ Rooted(disk)
  /\ OnlyFoldersAreLost

-----------------------------------------------------------------------------
(* Pages of a listing *)

\* A page that does not reach the place of a resource is full.
LEMMA FullPage ==
  ASSUME NEW S \in SUBSET Resources, NEW n \in Nat, NEW r \in S,
         Position(S, r) > n * PageLimit, r \notin Page(S, n)
  PROVE  /\ Position(S, r) > (n + 1) * PageLimit
         /\ Cardinality(Page(S, n)) = PageLimit
<1>. DEFINE P == Page(S, n)
            x == n * PageLimit
            f == [q \in P |-> Position(S, q) - x]
<1>1. PageLimit \in Nat \ {0} /\ x \in Nat /\ (n + 1) * PageLimit = x + PageLimit
  <2>1. \A m, p \in Nat : m * p \in Nat /\ (m + 1) * p = m * p + p
    OBVIOUS
  <2>. QED
    BY <2>1, BuildersAssumption
<1>2. \A q : q \in P <=> q \in S /\ x < Position(S, q) /\ Position(S, q) <= x + PageLimit
  BY <1>1 DEF Page
<1>. HIDE DEF P, x
<1>3. /\ Cardinality(S) \in Nat
      /\ \A q \in S : Position(S, q) \in 1 .. Cardinality(S)
  BY Places
<1>4. Position(S, r) > x + PageLimit
  BY <1>1, <1>2, <1>3 DEF P, x
<1>5. f \in [P -> 1 .. PageLimit]
  BY <1>1, <1>2, <1>3
<1>6. \A q, u \in P : f[q] = f[u] => q = u
  BY <1>1, <1>2, <1>3, Places
<1>7. \A i \in 1 .. PageLimit : \E q \in P : f[q] = i
  <2>. TAKE i \in 1 .. PageLimit
  <2>1. x + i \in 1 .. Cardinality(S)
    BY <1>1, <1>3, <1>4
  <2>2. PICK q \in S : Position(S, q) = x + i
    BY <2>1, Places
  <2>3. q \in P
    BY <1>1, <1>2, <2>2
  <2>. QED
    BY <1>1, <2>2, <2>3
<1>8. f \in Bijection(P, 1 .. PageLimit)
  BY <1>5, <1>6, <1>7 DEF Bijection, Injection, Surjection, IsInjective
<1>9. IsFiniteSet(P) /\ IsFiniteSet(1 .. PageLimit) /\ Cardinality(1 .. PageLimit) = PageLimit
  <2>1. P \in SUBSET S
    BY <1>2
  <2>. QED
    BY <1>1, <2>1, Places, FS_Subset, FS_Interval
<1>10. Cardinality(P) = PageLimit
  BY <1>8, <1>9, FS_Bijection DEF ExistsBijection
<1>. QED
  BY <1>1, <1>4, <1>10 DEF P, x

\* What is to be listed are resources.
LEMMA ListedAreResources ==
  ASSUME NEW t, NEW parent
  PROVE  Listed(t, parent) \in SUBSET Resources
BY DEF Listed, OfType, CustomRoles

\* What the listing in hand still lists is on the page it gets, or the listing of the
\* next page follows and still lists it.
LEMMA ListingGoesOn ==
  ASSUME NothingDropped, StackInv, Turn("resources", TRUE), NEW r, StillLists(Current, r),
         NEW page \in ListReads(Current.type, Current.on, Current.page),
         r \notin WithBaseRoles(Current.type, page)
  PROVE  LET token == ListNext(Current.type, Current.on, Current.page, page)
         IN  token # << >> /\ StillLists([Current EXCEPT !.page = token], r)
<1>. DEFINE a == Current
            S == Listed(a.type, a.on)
            n == PageNumber(a.page)
<1>1. /\ a.op = "resources" /\ a.type # "all" /\ a \in Named(db.stored)
      /\ a # Whole("init") /\ a # Whole("resources")
  BY TurnFacts DEF Turn, Whole, Action
<1>2. a.page \in Seq(Nat) /\ n \in Nat
  <2>1. ActionOK(a) /\ a # Whole(a.op)
    BY <1>1 DEF Named, Whole, Action
  <2>2. a.page \in Seq(Nat)
    BY <1>1, <2>1 DEF ActionOK
  <2>. QED
    BY <2>2, EmptySeq DEF PageNumber
<1>3. a.type = r.type /\ (r \in BaseRoles \/ (r \in S /\ Position(S, r) > n * PageLimit))
  BY <1>1 DEF StillLists
<1>4. r \in S /\ Position(S, r) > n * PageLimit /\ r \notin page
  <2>1. r \notin page
    BY DEF WithBaseRoles
  <2>2. r \notin BaseRoles
    <3>1. r \in BaseRoles => r.type = "role"
      BY BuildersAssumption DEF OfType
    <3>. QED
      BY <1>3, <3>1 DEF WithBaseRoles
  <2>. QED
    BY <1>3, <2>1, <2>2
<1>5. Paged(a.type, a.on) /\ page = Page(S, n)
  BY <1>4 DEF NothingDropped, ListReads, Reads
<1>6. S \in SUBSET Resources
  BY ListedAreResources
<1>7. Position(S, r) > (n + 1) * PageLimit /\ Cardinality(page) = PageLimit
  BY <1>2, <1>4, <1>5, <1>6, FullPage
<1>. DEFINE token == ListNext(a.type, a.on, a.page, page)
<1>8. token = <<n + 1>>
  BY <1>5, <1>7 DEF ListNext, NextToken
<1>9. token # << >> /\ PageNumber(token) = n + 1
  BY <1>8 DEF PageNumber
<1>. DEFINE b == [a EXCEPT !.page = token]
<1>10. b.op = a.op /\ b.type = a.type /\ b.on = a.on /\ b.page = token
  BY <1>1 DEF Named
<1>11. StillLists(b, r)
  <2>. HIDE DEF a, b, token
  <2>. QED
    BY <1>1, <1>3, <1>4, <1>7, <1>9, <1>10 DEF StillLists
<1>. QED
  BY <1>9, <1>11

\* The first page of a listing still lists all there is to list.
LEMMA FirstPage ==
  ASSUME NEW a, NEW r, a.op = "resources", a.type = r.type, a.page = << >>,
         r \in BaseRoles \/ r \in Listed(a.type, a.on)
  PROVE  StillLists(a, r)
<1>1. CASE r \in BaseRoles
  BY <1>1 DEF StillLists
<1>2. CASE r \in Listed(a.type, a.on)
  <2>1. Position(Listed(a.type, a.on), r) > 0
    <3>. DEFINE S == Listed(a.type, a.on)
    <3>1. S \in SUBSET Resources /\ r \in S
      BY <1>2, ListedAreResources
    <3>. HIDE DEF S
    <3>2. Position(S, r) \in 1 .. Cardinality(S)
      BY <3>1, Places
    <3>. QED
      BY <3>2 DEF S
  <2>2. PageNumber(a.page) * PageLimit = 0
    BY BuildersAssumption DEF PageNumber
  <2>. QED
    BY <1>2, <2>1, <2>2 DEF StillLists
<1>. QED
  BY <1>1, <1>2

-----------------------------------------------------------------------------
(* Stacks *)

\* A sequence without its last element, and with one more.
LEMMA FrontParts ==
  ASSUME NEW S, NEW s \in Seq(S), s # << >>
  PROVE  LET front == SubSeq(s, 1, Len(s) - 1)
         IN  /\ front \in Seq(S) /\ Len(s) \in Nat \ {0} /\ Len(front) = Len(s) - 1
             /\ \A i \in 1 .. Len(s) - 1 : front[i] = s[i]
             /\ Range(s) = Range(front) \cup {s[Len(s)]}
<1>. DEFINE n == Len(s)
            front == SubSeq(s, 1, n - 1)
<1>1. n \in Nat \ {0} /\ \A i \in 1 .. n - 1 : s[i] \in S
  BY EmptySeq, ElementOfSeq
<1>2. front \in Seq(S) /\ Len(front) = n - 1
  <2>1. front \in Seq(S)
    BY <1>1, SubSeqProperties
  <2>2. Len(front) = IF 1 <= n - 1 THEN (n - 1) - 1 + 1 ELSE 0
    BY <1>1, SubSeqProperties
  <2>. HIDE DEF front, n
  <2>. QED
    BY <1>1, <2>1, <2>2
<1>3. \A i \in 1 .. n - 1 : front[i] = s[i]
  <2>1. \A i \in 1 .. (n - 1) - 1 + 1 : front[i] = s[1 + i - 1]
    BY <1>1, SubSeqProperties
  <2>2. (n - 1) - 1 + 1 = n - 1 /\ \A i \in 1 .. n - 1 : 1 + i - 1 = i
    BY <1>1
  <2>. QED
    BY <2>1, <2>2
<1>4. Range(s) = {s[i] : i \in 1 .. n} /\ Range(front) = {front[i] : i \in 1 .. n - 1}
  BY <1>2, RangeEquality
<1>5. Range(s) = Range(front) \cup {s[n]}
  <2>. HIDE DEF front
  <2>1. {s[i] : i \in 1 .. n} = {s[i] : i \in 1 .. n - 1} \cup {s[n]}
    BY <1>1
  <2>2. {front[i] : i \in 1 .. n - 1} = {s[i] : i \in 1 .. n - 1}
    BY <1>3
  <2>. QED
    BY <1>4, <2>1, <2>2
<1>. QED
  BY <1>1, <1>2, <1>3, <1>5

\* What a longer sequence holds.
LEMMA RangeAppend ==
  ASSUME NEW S, NEW s \in Seq(S), NEW e \in S
  PROVE  Range(Append(s, e)) = Range(s) \cup {e}
<1>. DEFINE t == <<e>>
<1>1. Append(s, e) = s \o t /\ t \in Seq(S)
  BY AppendIsConcat
<1>2. Range(t) = {e}
  BY DEF Range
<1>. HIDE DEF t
<1>. QED
  BY <1>1, <1>2, RangeConcatenation

\* What is on the stack after an action is finished or gets its next page.
LEMMA RangeRest ==
  ASSUME NEW R, actions \in Seq(Named(R)), actions # << >>
  PROVE  Range(actions) = Range(Rest) \cup {Current}
BY FrontParts DEF Rest, Current

\* What the stack holds after an action that ends or goes on to its next page.
LEMMA RangeAdvance ==
  ASSUME NEW R, actions \in Seq(Named(R)), actions # << >>, NEW token,
         Advance(token) \in Seq(Named(R))
  PROVE  Range(Advance(token))
           = Range(Rest) \cup (IF token = << >> THEN {} ELSE {[Current EXCEPT !.page = token]})
<1>. DEFINE next == [Current EXCEPT !.page = token]
<1>. HIDE DEF next
<1>1. Rest \in Seq(Named(R))
  BY StackParts
<1>2. CASE token = << >>
  BY <1>2 DEF Advance
<1>3. CASE token # << >>
  <2>1. Advance(token) = Append(Rest, next)
    BY <1>3 DEF Advance, next
  <2>2. Len(Append(Rest, next)) = Len(Rest) + 1 /\ Append(Rest, next)[Len(Rest) + 1] = next
    BY <1>1
  <2>3. next \in Named(R)
    <3>1. Len(Rest) + 1 \in 1 .. Len(Append(Rest, next))
      BY <1>1, <2>2, LenProperties
    <3>. QED
      BY <2>1, <2>2, <3>1, ElementOfSeq
  <2>. QED
    BY <1>1, <1>3, <2>1, <2>3, RangeAppend DEF next
<1>. QED
  BY <1>2, <1>3

\* The plan, step by step.
LEMMA PlanSteps ==
  /\ Plan \in Seq(Named({})) /\ Len(Plan) = 5
  /\ \A i \in 1 .. 5 : Plan[i].type = "all"
  /\ Plan[1].op = "expand" /\ Plan[2].op = "grants" /\ Plan[3].op = "entitlements"
  /\ Plan[4].op = "resources" /\ Plan[5].op = "types"
<1>1. /\ Whole("expand") \in Named({}) /\ Whole("grants") \in Named({})
      /\ Whole("entitlements") \in Named({}) /\ Whole("resources") \in Named({})
      /\ Whole("types") \in Named({})
  BY NamedWhole DEF Ops
<1>2. \A op : Whole(op).type = "all" /\ Whole(op).op = op
  BY DEF Whole, Action
<1>3. /\ Len(Plan) = 5
      /\ Plan[1] = Whole("expand") /\ Plan[2] = Whole("grants") /\ Plan[3] = Whole("entitlements")
      /\ Plan[4] = Whole("resources") /\ Plan[5] = Whole("types")
  BY DEF Plan
<1>4. Plan \in Seq(Named({}))
  BY <1>1 DEF Plan
<1>. QED
  BY <1>2, <1>3, <1>4

\* The action in hand tells the stage, and what is left is at the same stage or, when
\* it was a step of the plan, at the next one.
LEMMA StageTurn ==
  ASSUME NEW R, actions \in Seq(Named(R)), NEW k, Stage(k, actions),
         NEW op, NEW type \in BOOLEAN, Turn(op, type)
  PROVE  /\ op = "init"         => k = 6
         /\ op = "types"        => k = 5 /\ Stage(4, Rest)
         /\ op = "resources"    => IF type THEN k = 3 /\ Stage(3, Rest)
                                           ELSE k = 4 /\ Stage(3, Rest) /\ Len(Rest) = 3
         /\ op = "entitlements" => IF type THEN k = 2 /\ Stage(2, Rest)
                                           ELSE k = 3 /\ Stage(2, Rest) /\ Len(actions) = 3
         /\ op = "grants"       => IF type THEN k = 1 /\ Stage(1, Rest)
                                           ELSE k = 2 /\ Stage(1, Rest) /\ Len(actions) = 2
         /\ op = "expand"       => k = 1 /\ Stage(0, Rest) /\ Len(actions) = 1
<1>. DEFINE n == Len(actions)
<1>1. /\ n \in Nat \ {0} /\ Len(Rest) = n - 1
      /\ \A i \in 1 .. n - 1 : Rest[i] = actions[i]
      /\ Current = actions[n] /\ Current.op = op /\ (type <=> Current.type # "all")
  BY FrontParts DEF Turn, Rest, Current
<1>2. CASE k = 6 /\ actions = <<Whole("init")>>
  BY <1>1, <1>2 DEF Whole, Action
<1>3. CASE k \in 0 .. 5 /\ ~(k = 6)
  <2>1. /\ n >= k
        /\ \A i \in 1 .. n :
             IF i <= k THEN actions[i] = Plan[i]
             ELSE actions[i].op = Typed(k) /\ actions[i].type # "all"
    BY <1>3 DEF Stage
  <2>. HIDE DEF n
  <2>2. CASE n = k
    <3>1. Current = Plan[k] /\ ~ type /\ k \in 1 .. 5
      BY <1>1, <1>3, <2>1, <2>2, PlanSteps
    <3>2. Stage(k - 1, Rest)
      BY <1>1, <1>3, <2>1, <2>2, <3>1 DEF Stage
    <3>. QED
      <4>1. k = 1 \/ k = 2 \/ k = 3 \/ k = 4 \/ k = 5
        BY <3>1
      <4>2. 5 - 1 = 4 /\ 4 - 1 = 3 /\ 3 - 1 = 2 /\ 2 - 1 = 1 /\ 1 - 1 = 0
        OBVIOUS
      <4>. HIDE DEF Stage
      <4>. QED
        BY <1>1, <2>2, <3>1, <3>2, <4>1, <4>2, PlanSteps DEF n
  <2>3. CASE n > k
    <3>1. Current.op = Typed(k) /\ type
      BY <1>1, <1>3, <2>1, <2>3
    <3>2. Stage(k, Rest)
      BY <1>1, <1>3, <2>1, <2>3 DEF Stage
    <3>. QED
      BY <1>1, <3>1, <3>2 DEF Typed
  <2>. QED
    BY <1>1, <1>3, <2>1, <2>2, <2>3
<1>. QED
  BY <1>2, <1>3 DEF Stage

\* An action of the stage's kind leaves the stage as it is.
LEMMA StagePush ==
  ASSUME NEW S, NEW s \in Seq(S), NEW t \in Seq(S), NEW k \in 0 .. 5, Stage(k, s),
         \A i \in 1 .. Len(t) : t[i].op = Typed(k) /\ t[i].type # "all"
  PROVE  Stage(k, s \o t)
<1>1. /\ Len(s) \in Nat /\ Len(t) \in Nat /\ Len(s \o t) = Len(s) + Len(t)
      /\ \A i \in 1 .. Len(s) + Len(t) :
           (s \o t)[i] = IF i <= Len(s) THEN s[i] ELSE t[i - Len(s)]
  BY ConcatProperties, LenProperties
<1>2. /\ Len(s) >= k
      /\ \A i \in 1 .. Len(s) :
           IF i <= k THEN s[i] = Plan[i] ELSE s[i].op = Typed(k) /\ s[i].type # "all"
  BY DEF Stage
<1>. DEFINE st == s \o t
<1>. HIDE DEF st
<1>3. /\ Len(st) >= k
      /\ \A i \in 1 .. Len(st) :
           IF i <= k THEN st[i] = Plan[i] ELSE st[i].op = Typed(k) /\ st[i].type # "all"
  <2>1. Len(st) >= k
    BY <1>1, <1>2 DEF st
  <2>2. ASSUME NEW i \in 1 .. Len(st), i <= Len(s)
        PROVE  IF i <= k THEN st[i] = Plan[i] ELSE st[i].op = Typed(k) /\ st[i].type # "all"
    BY <1>1, <1>2, <2>2 DEF st
  <2>3. ASSUME NEW i \in 1 .. Len(st), i > Len(s)
        PROVE  IF i <= k THEN st[i] = Plan[i] ELSE st[i].op = Typed(k) /\ st[i].type # "all"
    <3>1. st[i] = t[i - Len(s)] /\ i - Len(s) \in 1 .. Len(t) /\ i > k
      BY <1>1, <1>2, <2>3 DEF st
    <3>. QED
      BY <3>1
  <2>. QED
    BY <1>1, <2>1, <2>2, <2>3 DEF st
<1>. QED
  BY <1>3 DEF Stage, st

\* The next page of the action in hand is an action of its kind.
LEMMA AdvanceStage ==
  ASSUME NEW R, actions \in Seq(Named(R)), actions # << >>, NEW token,
         Advance(token) \in Seq(Named(R)), NEW k \in 0 .. 5, Stage(k, Rest),
         Current.op = Typed(k), Current.type # "all"
  PROVE  Stage(k, Advance(token))
<1>. DEFINE next == [Current EXCEPT !.page = token]
            one == <<next>>
<1>1. Rest \in Seq(Named(R)) /\ Current \in Named(R)
  BY StackParts
<1>2. next.op = Typed(k) /\ next.type # "all"
  BY <1>1 DEF Named
<1>3. \A i \in 1 .. Len(one) : one[i] = next
  OBVIOUS
<1>4. CASE token = << >>
  BY <1>4 DEF Advance
<1>5. CASE token # << >>
  <2>. HIDE DEF next
  <2>1. Advance(token) = Append(Rest, next) /\ next \in Range(Advance(token))
    BY <1>5, RangeAdvance DEF Advance, next
  <2>2. next \in Named(R)
    BY <2>1, RangeOfSeq
  <2>3. Advance(token) = Rest \o one /\ one \in Seq(Named(R))
    BY <1>1, <2>1, <2>2, AppendIsConcat
  <2>. HIDE DEF one
  <2>. QED
    BY <1>1, <1>2, <1>3, <2>3, StagePush
<1>. QED
  BY <1>4, <1>5

\* Once the listings are through, nothing on the stack lists a resource.
LEMMA LateOps ==
  ASSUME NEW S, NEW s \in Seq(S), NEW k \in 0 .. 3, Stage(k, s), k = 3 => Len(s) = 3,
         NEW a \in Range(s)
  PROVE  a.op \in {"expand", "grants", "entitlements", "none"}
<1>1. PICK i \in 1 .. Len(s) : a = s[i]
  BY RangeEquality
<1>2. IF i <= k THEN a = Plan[i] ELSE a.op = Typed(k) /\ k # 3
  BY <1>1, LenProperties DEF Stage
<1>3. i <= k => i = 1 \/ i = 2 \/ i = 3
  OBVIOUS
<1>. QED
  BY <1>2, <1>3, PlanSteps DEF Typed

\* After the listings no action of the stack lists anything.
LEMMA NoListing ==
  ASSUME NEW S, NEW s \in Seq(S), NEW k \in 0 .. 3, Stage(k, s), k = 3 => Len(s) = 3,
         NEW a \in Range(s), NEW r
  PROVE  ~ StillLists(a, r)
BY LateOps DEF StillLists, Whole, Action

\* So what is not a folder is stored.
LEMMA RowsComplete ==
  ASSUME NEW S, NEW s \in Seq(S), NEW d, NEW k \in 0 .. 3, Good(k, s, d), k = 3 => Len(s) = 3
  PROVE  \A r \in Resources : r.type # "folder" => r \in d.stored
BY NoListing DEF Good, ListingLeft

\* Once the entitlements are through, every stored resource that has some has them.
LEMMA EntitlementsComplete ==
  ASSUME NEW S, NEW s \in Seq(S), NEW d, d.stored \subseteq Resources,
         NEW k \in 0 .. 2, Good(k, s, d), k = 2 => Len(s) = 2
  PROVE  WithGrants(d.stored) \subseteq d.entitled
<1>1. ASSUME NEW r, AboutResource("entitlements", r) \in Range(s), r.type \in Types PROVE FALSE
  <2>. DEFINE a == AboutResource("entitlements", r)
  <2>1. PICK i \in 1 .. Len(s) : a = s[i]
    BY <1>1, RangeEquality
  <2>2. a.op = "entitlements" /\ a.type # "all"
    BY <1>1 DEF AboutResource, Action, Types
  <2>. HIDE DEF a
  <2>3. IF i <= k THEN a = Plan[i] ELSE a.op = Typed(k) /\ k # 2
    BY <2>1, LenProperties DEF Stage, Good
  <2>. QED
    BY <2>2, <2>3, PlanSteps DEF Typed
<1>. QED
  BY <1>1, BuildersAssumption DEF Good, EntitlingLeft, WithGrants

\* A store that has more rows is as good for a stack, provided no resources come
\* after the entitlements were planned.
LEMMA GoodGrows ==
  ASSUME NEW m, NEW s, NEW d, NEW e, Good(m, s, d),
         d.stored \subseteq e.stored, d.entitled \subseteq e.entitled,
         m <= 2 => d.stored = e.stored,
         d.types \in TypeOrders => e.types \in TypeOrders
  PROVE  Good(m, s, e)
BY DEF Good, ListingLeft, EntitlingLeft

\* What is left over of an empty stack.
LEMMA StageEmpty ==
  ASSUME NEW k, Stage(k, << >>)
  PROVE  k = 0
BY DEF Stage, Whole

-----------------------------------------------------------------------------
(* Steps *)

\* A turn that goes on with more rows and a stack at the same stage or the next.
LEMMA ContinueStage ==
  ASSUME StackInv, actions # << >>, NEW k \in 0 .. 6, Running(k), NEW s, NEW d, Continue(s, d), RowsOK(d),
         NEW j \in 0 .. k, Good(j, s, d),
         db.stored \subseteq d.stored, db.entitled \subseteq d.entitled,
         k <= 2 => db.stored = d.stored,
         db.types \in TypeOrders => d.types \in TypeOrders
  PROVE  Running(j)'
<1>1. PICK token \in Tokens : db' = [d EXCEPT !.token = token]
  BY DEF Continue
<1>2. /\ db'.stored = d.stored /\ db'.entitled = d.entitled /\ db'.types = d.types
      /\ db'.token = token /\ actions' = s
  BY <1>1 DEF Continue, RowsOK
<1>3. Good(j, actions', db')
  BY <1>2, GoodGrows
<1>4. PICK m \in k .. 6 : Good(m, Taken(db.token), db)
  BY DEF Running
<1>5. \E i \in k .. 6 : Good(i, Taken(token), db)
  <2>1. CASE token = actions
    BY <2>1 DEF Running, Taken
  <2>2. CASE token = db.token
    BY <1>4, <2>2
  <2>. QED
    BY <2>1, <2>2 DEF Tokens
<1>6. PICK i \in k .. 6 : Good(i, Taken(token), db)
  BY <1>5
<1>7. Good(i, Taken(db'.token), db')
  BY <1>2, <1>6, GoodGrows
<1>8. i \in j .. 6
  OBVIOUS
<1>. QED
  BY <1>3, <1>7, <1>8 DEF Running

\* The plan is made.
LEMMA BeginStage ==
  ASSUME StackInv, NEW k \in 0 .. 6, Running(k), Begin
  PROVE  Running(5)'
<1>1. PICK token \in Tokens \cup {Plan} : db' = [db EXCEPT !.token = token]
  BY DEF Begin
<1>2. /\ db'.stored = db.stored /\ db'.entitled = db.entitled /\ db'.types = db.types
      /\ db'.token = token /\ actions' = Plan /\ actions # << >>
  BY <1>1 DEF Begin, Turn, StackInv, StoreInv, RowsOK
<1>3. k = 6
  BY StageTurn DEF Begin, StackInv, Running, Good
<1>4. Stage(5, Plan) /\ Plan # << >>
  BY PlanSteps DEF Stage, Plan
<1>5. \A d : Good(5, Plan, d)
  BY <1>4 DEF Good, ListingLeft, EntitlingLeft
<1>6. CASE token = Plan
  BY <1>2, <1>4, <1>5, <1>6 DEF Running, Taken
<1>7. CASE token \in Tokens
  <2>1. PICK i \in 6 .. 6 : Good(i, Taken(token), db)
    BY <1>2, <1>3, <1>7 DEF Running, Tokens, Taken
  <2>2. i \in 5 .. 6 /\ Good(i, Taken(db'.token), db')
    BY <1>2, <2>1, GoodGrows
  <2>. QED
    BY <1>2, <1>5, <2>2 DEF Running
<1>. QED
  BY <1>6, <1>7

\* The types are stored, so that every listing of the plan has its types.
LEMMA TypesStage ==
  ASSUME StackInv, NEW k \in 0 .. 6, Running(k), SyncResourceTypes
  PROVE  k = 5 /\ Running(4)'
<1>1. PICK order \in TypeOrders :
        Continue(Rest, [db EXCEPT !.types = IF @ = << >> THEN order ELSE @])
  BY DEF SyncResourceTypes
<1>. DEFINE d == [db EXCEPT !.types = IF @ = << >> THEN order ELSE @]
<1>2. actions # << >> /\ k = 5 /\ Stage(4, Rest)
  BY StageTurn DEF SyncResourceTypes, StackInv, Running, Good, Turn
<1>3. /\ RowsOK(d) /\ d.stored = db.stored /\ d.entitled = db.entitled
      /\ d.types \in TypeOrders
  BY DEF StackInv, StoreInv, RowsOK
<1>4. Good(4, Rest, d)
  BY <1>2, <1>3 DEF Good, ListingLeft, EntitlingLeft
<1>5. Continue(Rest, d) /\ 4 \in 0 .. k
  BY <1>1, <1>2
<1>. HIDE DEF d
<1>. QED
  BY <1>2, <1>3, <1>4, <1>5, ContinueStage

\* One listing for each type is one for each resource that is not a folder.
LEMMA AllResourcesStage ==
  ASSUME StackInv, NEW k \in 0 .. 6, Running(k), SyncAllResources
  PROVE  /\ k = 4 /\ Running(3)'
         /\ \A t \in Types : Action("resources", t, Nobody, << >>) \in Range(actions')
<1>. DEFINE A(i) == Action("resources", db.types[i], Nobody, << >>)
            t == [i \in 1 .. Len(db.types) |-> A(i)]
<1>1. /\ actions # << >> /\ k = 4 /\ Stage(3, Rest) /\ Len(Rest) = 3
      /\ actions \in Seq(Named(db.stored))
  BY StageTurn DEF SyncAllResources, StackInv, Running, Good, Turn
<1>2. db.types \in TypeOrders /\ db.types \in Seq(Types)
  BY <1>1, OrderType DEF Running, Good
<1>3. /\ Len(db.types) \in Nat
      /\ \A i \in 1 .. Len(db.types) : A(i) \in Named(db.stored) /\ db.types[i] \in Types
  BY <1>2, NamedListing DEF StackInv, StoreInv, RowsOK
<1>4. /\ t \in Seq(Named(db.stored)) /\ Len(t) = Len(db.types)
      /\ \A i \in 1 .. Len(t) : t[i] = A(i)
  BY <1>3
<1>. HIDE DEF t
<1>5. \A i \in 1 .. Len(t) : t[i].op = "resources" /\ t[i].type # "all"
  <2>1. \A i : A(i).op = "resources" /\ A(i).type = db.types[i]
    BY DEF Action
  <2>2. "all" \notin Types
    BY DEF Types
  <2>. HIDE DEF A
  <2>. QED
    BY <1>3, <1>4, <2>1, <2>2
<1>6. Rest \in Seq(Named(db.stored))
  BY <1>1, StackParts
<1>7. Stage(3, Rest \o t)
  <2>1. Typed(3) = "resources"
    BY DEF Typed
  <2>. QED
    BY <1>1, <1>4, <1>5, <1>6, <2>1, StagePush
<1>8. \A type \in Types : Action("resources", type, Nobody, << >>) \in Range(Rest \o t)
  <2>. TAKE type \in Types
  <2>1. PICK i \in 1 .. Cardinality(Types) : db.types[i] = type
    BY <1>2, SyncAssumption
  <2>2. i \in 1 .. Len(db.types)
    <3>1. DOMAIN db.types = 1 .. Cardinality(Types) /\ DOMAIN db.types = 1 .. Len(db.types)
      BY <1>2, SyncAssumption, LenProperties
    <3>. QED
      BY <3>1
  <2>3. t[i] = Action("resources", type, Nobody, << >>)
    BY <1>4, <2>1, <2>2
  <2>4. t[i] \in Range(t)
    BY <1>4, <2>2, RangeEquality
  <2>. QED
    BY <1>4, <1>6, <2>3, <2>4, RangeConcatenation
<1>9. ASSUME NEW r \in Resources \ db.stored, r.type # "folder"
      PROVE  \E a \in Range(Rest \o t) : StillLists(a, r)
  <2>. DEFINE a == Action("resources", r.type, Nobody, << >>)
  <2>1. r.type \in Types /\ a \in Range(Rest \o t)
    BY <1>8, BuildersAssumption
  <2>2. r \in BaseRoles \/ r \in Listed(r.type, Nobody)
    BY <1>9 DEF Listed, CustomRoles, OfType
  <2>3. StillLists(a, r)
    BY <2>2, FirstPage DEF Action
  <2>. QED
    BY <2>1, <2>3
<1>10. Good(3, Rest \o t, db)
  BY <1>2, <1>7, <1>9 DEF Good, ListingLeft, EntitlingLeft
<1>11. Continue(Rest \o t, db) /\ RowsOK(db)
  BY DEF SyncAllResources, t, StackInv, StoreInv
<1>12. Running(3)'
  BY <1>1, <1>10, <1>11, ContinueStage
<1>. QED
  BY <1>1, <1>8, <1>11, <1>12 DEF Continue

\* What a listing that gets a page makes of the stack and of the rows.
NewOf(page) == Unseen(WithBaseRoles(Current.type, page))
TokenAfter(page) == ListNext(Current.type, Current.on, Current.page, page)
StackAfter(page) == Spawn(TokenAfter(page), Parents(NewOf(page)))
RowsAfter(page) ==
  [db EXCEPT !.stored = @ \cup NewOf(page),
             !.parent = [r \in Resources |-> IF r \in NewOf(page) THEN Current.on ELSE @[r]]]

\* A listing in terms of these.
LEMMA ResourcesParts ==
  ASSUME StackInv, SyncResources
  PROVE  \E page \in ListReads(Current.type, Current.on, Current.page) :
           /\ NewOf(page) \in SUBSET Resources
           /\ Continue(StackAfter(page), RowsAfter(page))
           /\ RowsOK(RowsAfter(page))
           /\ RowsAfter(page).stored = db.stored \cup NewOf(page)
           /\ RowsAfter(page).types = db.types
           /\ RowsAfter(page).entitled = db.entitled
           /\ RowsAfter(page).grants = db.grants
<1>1. PICK page \in ListReads(Current.type, Current.on, Current.page) :
        Continue(StackAfter(page), RowsAfter(page))
  BY DEF SyncResources, StackAfter, RowsAfter, NewOf, TokenAfter
<1>2. Current \in Named(db.stored) /\ Current.type \in Types /\ Current.on \in Resources \cup {Nobody}
  <2>1. Turn("resources", TRUE)
    BY DEF SyncResources
  <2>. QED
    BY <2>1, TurnFacts DEF Named, Turn
<1>3. NewOf(page) \in SUBSET Resources
  <2>1. page \in SUBSET Resources
    BY <1>2, PagesAreResources
  <2>2. BaseRoles \in SUBSET Resources
    BY BuildersAssumption DEF OfType
  <2>. QED
    BY <2>1, <2>2 DEF Unseen, WithBaseRoles, NewOf
<1>4. db \in [types : TypeOrders \cup {<< >>}, stored : SUBSET Resources,
              parent : [Resources -> Resources \cup {Nobody}],
              entitled : SUBSET Resources, grants : SUBSET [on : Resources, to : Resources],
              token : Seq(Named(Resources))]
  BY DEF StackInv, StoreInv, RowsOK
<1>5. /\ RowsAfter(page).stored = db.stored \cup NewOf(page)
      /\ RowsAfter(page).types = db.types /\ RowsAfter(page).entitled = db.entitled
      /\ RowsAfter(page).grants = db.grants
  BY <1>4 DEF RowsAfter
<1>6. RowsOK(RowsAfter(page))
  <2>1. db.stored \cup NewOf(page) \in SUBSET Resources
    BY <1>3, <1>4
  <2>2. [r \in Resources |-> IF r \in NewOf(page) THEN Current.on ELSE db.parent[r]]
          \in [Resources -> Resources \cup {Nobody}]
    BY <1>2, <1>4
  <2>. QED
    BY <1>4, <2>1, <2>2 DEF RowsOK, RowsAfter
<1>. QED
  BY <1>1, <1>3, <1>5, <1>6

\* The stack after a page: the other actions, the next page if there is one, and a
\* listing for each new parent.
LEMMA SpawnParts ==
  ASSUME StackInv, Turn("resources", TRUE), Stage(3, Rest),
         NEW page, NewOf(page) \in SUBSET Resources
  PROVE  /\ StackAfter(page) \in Seq(Named(Resources))
         /\ Stage(3, StackAfter(page))
         /\ Range(Rest) \subseteq Range(StackAfter(page))
         /\ TokenAfter(page) # << >> =>
              [Current EXCEPT !.page = TokenAfter(page)] \in Range(StackAfter(page))
         /\ \A p \in Parents(NewOf(page)) :
              Action("resources", "folder", p, << >>) \in Range(StackAfter(page))
<1>. DEFINE S == Parents(NewOf(page))
            A(i) == Action("resources", "folder", Ordered(S)[i], << >>)
            t == [i \in 1 .. Cardinality(S) |-> A(i)]
            token == TokenAfter(page)
            next == [Current EXCEPT !.page = token]
<1>1. /\ actions # << >> /\ Current.op = "resources" /\ Current.type # "all"
      /\ Current \in Named(Resources) /\ Rest \in Seq(Named(Resources))
      /\ actions \in Seq(Named(Resources))
  <2>1. db.stored \subseteq Resources
    BY DEF StackInv, StoreInv, RowsOK
  <2>2. actions \in Seq(Named(Resources)) /\ actions # << >>
    BY <2>1, NamedMonotonic DEF StackInv, Turn
  <2>. QED
    BY <2>2, StackParts DEF Turn
<1>2. token \in Seq(Nat)
  <2>1. PageNumber(Current.page) \in Nat
    <3>1. ActionOK(Current) /\ Current # Whole(Current.op)
      BY <1>1 DEF Named, Whole, Action
    <3>2. Current.page \in Seq(Nat)
      BY <1>1, <3>1 DEF ActionOK
    <3>. QED
      BY <3>2, EmptySeq DEF PageNumber
  <2>2. token = << >> \/ token = <<PageNumber(Current.page) + 1>>
    BY DEF TokenAfter, ListNext, NextToken
  <2>3. << >> \in Seq(Nat) /\ <<PageNumber(Current.page) + 1>> \in Seq(Nat)
    BY <2>1
  <2>. QED
    BY <2>2, <2>3
<1>3. Advance(token) \in Seq(Named(Resources))
  BY <1>1, <1>2, NextPageNamed
<1>4. S \in SUBSET Resources /\ S \subseteq Parents(Resources)
  BY DEF Parents
<1>. HIDE DEF token, next, S
<1>5. /\ Range(Advance(token)) = Range(Rest) \cup (IF token = << >> THEN {} ELSE {next})
      /\ Stage(3, Advance(token))
  <2>1. Typed(3) = "resources"
    BY DEF Typed
  <2>. QED
    BY <1>1, <1>3, <2>1, RangeAdvance, AdvanceStage DEF next
<1>6. /\ Cardinality(S) \in Nat
      /\ \A i \in 1 .. Cardinality(S) : A(i) \in Named(Resources)
  BY <1>4, OrderedLists, NamedListing
<1>7. /\ t \in Seq(Named(Resources)) /\ Len(t) = Cardinality(S)
      /\ \A i \in 1 .. Len(t) : t[i] = A(i)
  BY <1>6
<1>8. \A i : A(i).op = "resources" /\ A(i).type = "folder"
  BY DEF Action
<1>9. StackAfter(page) = Advance(token) \o t
  BY DEF StackAfter, Spawn, token, S
<1>. HIDE DEF t
<1>10. Stage(3, Advance(token) \o t)
  <2>1. \A i \in 1 .. Len(t) : t[i].op = Typed(3) /\ t[i].type # "all"
    BY <1>7, <1>8 DEF Typed
  <2>. QED
    BY <1>3, <1>5, <1>7, <2>1, StagePush
<1>11. /\ Advance(token) \o t \in Seq(Named(Resources))
       /\ Range(Advance(token) \o t) = Range(Advance(token)) \cup Range(t)
  BY <1>3, <1>7, ConcatProperties, RangeConcatenation
<1>12. ASSUME NEW p \in S PROVE Action("resources", "folder", p, << >>) \in Range(t)
  <2>1. PICK i \in 1 .. Cardinality(S) : Ordered(S)[i] = p
    BY <1>4, OrderedLists
  <2>2. t[i] = Action("resources", "folder", p, << >>) /\ i \in 1 .. Len(t)
    BY <1>7, <2>1
  <2>. QED
    BY <1>7, <2>2, RangeEquality
<1>. QED
  BY <1>5, <1>9, <1>10, <1>11, <1>12 DEF S, token, next

\* A resource that some action lists is stored, or still listed after the page.
LEMMA ListingKept ==
  ASSUME NothingDropped, StackInv, Turn("resources", TRUE), Stage(3, Rest),
         NEW page \in ListReads(Current.type, Current.on, Current.page),
         NewOf(page) \in SUBSET Resources,
         NEW r, r \notin db.stored \cup NewOf(page), NEW a \in Range(actions), StillLists(a, r)
  PROVE  \E b \in Range(StackAfter(page)) : StillLists(b, r)
<1>1. actions # << >> /\ actions \in Seq(Named(db.stored))
  BY DEF Turn, StackInv
<1>2. CASE a \in Range(Rest)
  BY <1>2, SpawnParts
<1>3. CASE a = Current
  <2>1. r \notin WithBaseRoles(Current.type, page)
    BY DEF NewOf, Unseen
  <2>. DEFINE token == ListNext(Current.type, Current.on, Current.page, page)
  <2>2. token # << >> /\ StillLists([Current EXCEPT !.page = token], r)
    BY <1>3, <2>1, ListingGoesOn
  <2>3. token = TokenAfter(page)
    BY DEF TokenAfter
  <2>. QED
    BY <2>2, <2>3, SpawnParts
<1>. QED
  BY <1>1, <1>2, <1>3, RangeRest

\* A page of resources belongs to the stage of listings and stays in it.
LEMMA ResourcesStage ==
  ASSUME NothingDropped, StackInv, NEW k \in 0 .. 6, Running(k), SyncResources
  PROVE  k = 3 /\ Running(3)'
<1>1. Turn("resources", TRUE) /\ actions # << >>
  BY DEF SyncResources, Turn
<1>2. k = 3 /\ Stage(3, Rest) /\ Good(3, actions, db)
  BY <1>1, StageTurn DEF StackInv, Running, Good
<1>3. PICK page \in ListReads(Current.type, Current.on, Current.page) :
           /\ NewOf(page) \in SUBSET Resources
           /\ Continue(StackAfter(page), RowsAfter(page))
           /\ RowsOK(RowsAfter(page))
           /\ RowsAfter(page).stored = db.stored \cup NewOf(page)
           /\ RowsAfter(page).types = db.types
           /\ RowsAfter(page).entitled = db.entitled
  BY ResourcesParts
<1>4. Good(3, StackAfter(page), RowsAfter(page))
  <2>1. Stage(3, StackAfter(page))
    BY <1>1, <1>2, <1>3, SpawnParts
  <2>2. ASSUME NEW r \in Resources \ RowsAfter(page).stored, r.type # "folder"
        PROVE  \E b \in Range(StackAfter(page)) : StillLists(b, r)
    <3>1. r \notin db.stored \cup NewOf(page)
      BY <1>3, <2>2
    <3>2. PICK a \in Range(actions) : StillLists(a, r)
      BY <1>2, <2>2, <3>1 DEF Good, ListingLeft
    <3>. QED
      BY <1>1, <1>2, <1>3, <3>1, <3>2, ListingKept
  <2>. QED
    BY <1>2, <1>3, <2>1, <2>2 DEF Good, ListingLeft, EntitlingLeft
<1>5. 3 \in 0 .. k /\ db.stored \subseteq RowsAfter(page).stored
  BY <1>2, <1>3
<1>. QED
  BY <1>1, <1>2, <1>3, <1>4, <1>5, ContinueStage

\* The actions a plan step makes: one for each stored resource it is about.
LEMMA PerResourceParts ==
  ASSUME StackInv, NEW op \in {"entitlements", "grants"}
  PROVE  /\ PerResource(op) \in Seq(Named(db.stored))
         /\ \A i \in 1 .. Len(PerResource(op)) :
              PerResource(op)[i].op = op /\ PerResource(op)[i].type # "all"
         /\ Range(PerResource(op)) = {AboutResource(op, r) : r \in WithGrants(db.stored)}
<1>. DEFINE S == WithGrants(db.stored)
            s == PerResource(op)
<1>1. S \in SUBSET Resources /\ s \in Seq(Named(db.stored))
  BY PerResourceNamed DEF StackInv, StoreInv, RowsOK, WithGrants
<1>. HIDE DEF S
<1>2. /\ Cardinality(S) \in Nat
      /\ \A i \in 1 .. Cardinality(S) : Ordered(S)[i] \in S
      /\ \A r \in S : \E i \in 1 .. Cardinality(S) : Ordered(S)[i] = r
  BY <1>1, OrderedLists
<1>3. s = [i \in 1 .. Cardinality(S) |-> AboutResource(op, Ordered(S)[i])]
  BY DEF PerResource, S
<1>. HIDE DEF s
<1>4. Len(s) = Cardinality(S)
  BY <1>1, <1>2, <1>3, LenProperties
<1>5. \A i \in 1 .. Len(s) : s[i] = AboutResource(op, Ordered(S)[i])
  BY <1>3, <1>4
<1>6. Range(s) = {s[i] : i \in 1 .. Len(s)}
  BY <1>1, RangeEquality
<1>7. Range(s) = {AboutResource(op, r) : r \in S}
  BY <1>2, <1>4, <1>5, <1>6
<1>8. \A r \in S : AboutResource(op, r).op = op /\ AboutResource(op, r).type # "all"
  BY <1>1, BuildersAssumption DEF AboutResource, Action, Types
<1>9. \A i \in 1 .. Len(s) : s[i].op = op /\ s[i].type # "all"
  BY <1>2, <1>4, <1>5, <1>8
<1>. QED
  BY <1>1, <1>7, <1>9 DEF S, s

\* A listing that is tried again changes neither the stack nor the rows.
LEMMA RetryStage ==
  ASSUME StackInv, NEW k \in 0 .. 6, Running(k), Retry
  PROVE  k = 3 /\ Running(3)'
<1>1. actions # << >> /\ k = 3
  BY StageTurn DEF Retry, StackInv, Running, Good, Turn
<1>2. Continue(actions, db) /\ RowsOK(db) /\ Good(3, actions, db) /\ 3 \in 0 .. k
  BY <1>1 DEF Retry, StackInv, StoreInv, Running
<1>. QED
  BY <1>1, <1>2, ContinueStage

\* When the entitlements are planned, every resource but folders is stored.
LEMMA AllEntitlementsStage ==
  ASSUME StackInv, NEW k \in 0 .. 6, Running(k), SyncAllEntitlements
  PROVE  k = 3 /\ Len(actions) = 3 /\ Running(2)'
<1>. DEFINE t == PerResource("entitlements")
<1>1. /\ actions # << >> /\ k = 3 /\ Stage(2, Rest) /\ Len(actions) = 3
      /\ actions \in Seq(Named(db.stored)) /\ Good(3, actions, db)
  BY StageTurn DEF SyncAllEntitlements, StackInv, Running, Good, Turn
<1>2. Rest \in Seq(Named(db.stored))
  BY <1>1, StackParts
<1>3. /\ t \in Seq(Named(db.stored))
      /\ \A i \in 1 .. Len(t) : t[i].op = "entitlements" /\ t[i].type # "all"
      /\ Range(t) = {AboutResource("entitlements", r) : r \in WithGrants(db.stored)}
  BY PerResourceParts
<1>4. Continue(Rest \o t, db) /\ RowsOK(db)
  BY DEF SyncAllEntitlements, StackInv, StoreInv
<1>. HIDE DEF t
<1>5. Stage(2, Rest \o t)
  <2>1. Typed(2) = "entitlements"
    BY DEF Typed
  <2>. QED
    BY <1>1, <1>2, <1>3, <2>1, StagePush
<1>6. \A r \in Resources : r.type # "folder" => r \in db.stored
  BY <1>1, RowsComplete
<1>7. Range(t) \subseteq Range(Rest \o t)
  BY <1>2, <1>3, RangeConcatenation
<1>8. Good(2, Rest \o t, db)
  BY <1>1, <1>3, <1>5, <1>6, <1>7 DEF Good, ListingLeft, EntitlingLeft
<1>. QED
  BY <1>1, <1>4, <1>8, ContinueStage

\* Entitlements of a resource belong to their stage.
LEMMA EntitlementsStage ==
  ASSUME StackInv, NEW k \in 0 .. 6, Running(k), SyncEntitlements
  PROVE  k = 2 /\ Running(2)'
<1>. DEFINE d == [db EXCEPT !.entitled = @ \cup {Current.on}]
<1>1. /\ actions # << >> /\ k = 2 /\ Stage(2, Rest)
      /\ actions \in Seq(Named(db.stored)) /\ Good(2, actions, db)
  BY StageTurn DEF SyncEntitlements, StackInv, Running, Good, Turn
<1>2. /\ RowsOK(d) /\ d.stored = db.stored /\ d.types = db.types
      /\ d.entitled = db.entitled \cup {Current.on} /\ Continue(Rest, d)
  BY DEF StackInv, StoreInv, RowsOK, SyncEntitlements
<1>3. \A r \in Resources : r.type # "folder" => r \in db.stored
  BY <1>1, RowsComplete
<1>. HIDE DEF d
<1>4. ASSUME NEW r \in WithGrants(d.stored) \ d.entitled
      PROVE  AboutResource("entitlements", r) \in Range(Rest)
  <2>1. AboutResource("entitlements", r) \in Range(actions)
    BY <1>1, <1>2, <1>4 DEF Good, EntitlingLeft
  <2>2. AboutResource("entitlements", r) # Current
    BY <1>2, <1>4 DEF AboutResource, Action
  <2>. QED
    BY <1>1, <2>1, <2>2, RangeRest
<1>5. Good(2, Rest, d)
  BY <1>1, <1>2, <1>3, <1>4 DEF Good, ListingLeft, EntitlingLeft
<1>. QED
  BY <1>1, <1>2, <1>5, ContinueStage

\* When the grants are planned, everything stored has its entitlements.
LEMMA AllGrantsStage ==
  ASSUME StackInv, NEW k \in 0 .. 6, Running(k), SyncAllGrants
  PROVE  k = 2 /\ Len(actions) = 2 /\ Running(1)'
<1>. DEFINE t == PerResource("grants")
<1>1. /\ actions # << >> /\ k = 2 /\ Stage(1, Rest) /\ Len(actions) = 2
      /\ actions \in Seq(Named(db.stored)) /\ Good(2, actions, db)
  BY StageTurn DEF SyncAllGrants, StackInv, Running, Good, Turn
<1>2. Rest \in Seq(Named(db.stored))
  BY <1>1, StackParts
<1>3. /\ t \in Seq(Named(db.stored))
      /\ \A i \in 1 .. Len(t) : t[i].op = "grants" /\ t[i].type # "all"
  BY PerResourceParts
<1>4. Continue(Rest \o t, db) /\ RowsOK(db) /\ db.stored \subseteq Resources
  BY DEF SyncAllGrants, StackInv, StoreInv, RowsOK
<1>. HIDE DEF t
<1>5. Stage(1, Rest \o t)
  <2>1. Typed(1) = "grants"
    BY DEF Typed
  <2>. QED
    BY <1>1, <1>2, <1>3, <2>1, StagePush
<1>6. /\ \A r \in Resources : r.type # "folder" => r \in db.stored
      /\ WithGrants(db.stored) \subseteq db.entitled
  BY <1>1, <1>4, RowsComplete, EntitlementsComplete
<1>7. Good(1, Rest \o t, db)
  BY <1>1, <1>5, <1>6 DEF Good, ListingLeft, EntitlingLeft
<1>. QED
  BY <1>1, <1>4, <1>7, ContinueStage

\* What stages 1 and 0 have: the rows and the entitlements are complete.
LEMMA LateStage ==
  ASSUME NEW S, NEW s \in Seq(S), NEW d, d.stored \subseteq Resources, NEW k \in 0 .. 1, Good(k, s, d)
  PROVE  /\ \A r \in Resources : r.type # "folder" => r \in d.stored
         /\ WithGrants(d.stored) \subseteq d.entitled
         /\ \A j \in 0 .. 1 : \A t, e :
               /\ Stage(j, t) /\ e.types \in TypeOrders
               /\ e.stored = d.stored /\ e.entitled = d.entitled
               => Good(j, t, e)
<1>1. /\ \A r \in Resources : r.type # "folder" => r \in d.stored
      /\ WithGrants(d.stored) \subseteq d.entitled
  BY RowsComplete, EntitlementsComplete
<1>. QED
  BY <1>1 DEF Good, ListingLeft, EntitlingLeft

\* The grants in hand, their next page if there is one, and their rows.
GotGrants == GrantsPage(Current.on, Current.page, PeopleOf(Current.on), RolesOf(Current.on))
GrantsToken == NextGrants(Current.on, Current.page)
RowsGranted == [db EXCEPT !.grants = @ \cup GotGrants]

\* What a turn of grants does to the stack and to the rows.
LEMMA GrantsParts ==
  ASSUME StackInv, SyncGrants
  PROVE  /\ actions # << >> /\ Current \in Named(db.stored) /\ Current.type = Current.on.type
         /\ Current.on \in WithGrants(db.stored) /\ Current.page \in Seq(Types)
         /\ Advance(GrantsToken) \in Seq(Named(db.stored))
         /\ Continue(Advance(GrantsToken), RowsGranted)
         /\ RowsOK(RowsGranted) /\ RowsGranted.types = db.types
         /\ RowsGranted.stored = db.stored /\ RowsGranted.entitled = db.entitled
         /\ RowsGranted.grants = db.grants \cup GotGrants
<1>1. /\ Turn("grants", TRUE) /\ Current.on \in db.stored
      /\ Continue(Advance(GrantsToken), RowsGranted)
  BY DEF SyncGrants, GrantsToken, RowsGranted, GotGrants
<1>2. /\ actions # << >> /\ Current.op = "grants" /\ Current.type # "all"
      /\ Current \in Named(db.stored)
      /\ actions \in Seq(Named(db.stored)) /\ db.stored \in SUBSET Resources
  BY <1>1, TurnFacts DEF Turn, StackInv
<1>3. /\ Current.page \in Seq(Types) /\ Current.on \in WithGrants(db.stored)
      /\ Current.type = Current.on.type
  <2>1. ActionOK(Current) /\ Current # Whole(Current.op)
    BY <1>2 DEF Named, Whole, Action
  <2>. QED
    BY <1>1, <1>2, <2>1 DEF ActionOK, WithGrants
<1>4. GrantsToken \in Seq(Types)
  <2>1. << >> \in Seq(Types)
    OBVIOUS
  <2>2. <<"collaborator", "role">> \in Seq(Types)
    BY DEF Types
  <2>3. CASE Current.page # << >>
    BY <1>3, <2>1, <2>3, FrontParts DEF NextGrants, GrantsToken
  <2>. QED
    BY <2>1, <2>2, <2>3 DEF NextGrants, GrantsToken
<1>5. Advance(GrantsToken) \in Seq(Named(db.stored))
  BY <1>2, <1>4, NextPageNamed
<1>6. GotGrants \subseteq [on : Resources, to : Resources]
  BY <1>1, <1>2, GrantsAreResources DEF StackInv, GotGrants
<1>7. /\ RowsOK(RowsGranted) /\ RowsGranted.types = db.types
      /\ RowsGranted.stored = db.stored /\ RowsGranted.entitled = db.entitled
      /\ RowsGranted.grants = db.grants \cup GotGrants
  BY <1>6 DEF StackInv, StoreInv, RowsOK, RowsGranted
<1>. QED
  BY <1>1, <1>2, <1>3, <1>5, <1>7

\* Grants of a resource belong to their stage.
LEMMA GrantsStage ==
  ASSUME StackInv, NEW k \in 0 .. 6, Running(k), SyncGrants
  PROVE  k = 1 /\ Running(1)'
<1>1. /\ actions # << >> /\ k = 1 /\ Stage(1, Rest) /\ Current.op = "grants"
      /\ Current.type # "all"
      /\ actions \in Seq(Named(db.stored)) /\ Good(1, actions, db)
  BY StageTurn DEF SyncGrants, StackInv, Running, Good, Turn
<1>2. /\ Advance(GrantsToken) \in Seq(Named(db.stored))
      /\ Continue(Advance(GrantsToken), RowsGranted)
      /\ RowsOK(RowsGranted) /\ RowsGranted.types = db.types
      /\ RowsGranted.stored = db.stored /\ RowsGranted.entitled = db.entitled
  BY GrantsParts
<1>3. Stage(1, Advance(GrantsToken))
  <2>1. Typed(1) = "grants"
    BY DEF Typed
  <2>. QED
    BY <1>1, <1>2, <2>1, AdvanceStage
<1>4. db.types \in TypeOrders /\ db.stored \subseteq Resources
  BY <1>1 DEF Good, StackInv, StoreInv, RowsOK
<1>5. Good(1, Advance(GrantsToken), RowsGranted)
  BY <1>1, <1>2, <1>3, <1>4, LateStage
<1>. QED
  BY <1>1, <1>2, <1>5, ContinueStage

\* The expansion is the last action of the plan.
LEMMA ExpansionStage ==
  ASSUME StackInv, NEW k \in 0 .. 6, Running(k), SyncGrantExpansion
  PROVE  k = 1 /\ Len(actions) = 1 /\ Running(0)'
<1>1. /\ actions # << >> /\ k = 1 /\ Stage(0, Rest) /\ Len(actions) = 1
      /\ actions \in Seq(Named(db.stored)) /\ Good(1, actions, db)
  BY StageTurn DEF SyncGrantExpansion, StackInv, Running, Good, Turn
<1>2. /\ Continue(Rest, db) /\ RowsOK(db) /\ db.stored \subseteq Resources
      /\ db.types \in TypeOrders
  BY <1>1 DEF SyncGrantExpansion, StackInv, StoreInv, RowsOK, Good
<1>3. Good(0, Rest, db)
  BY <1>1, <1>2, LateStage
<1>. QED
  BY <1>1, <1>2, <1>3, ContinueStage

\* The turns of the loop.
Loop ==
  \/ Begin \/ SyncResourceTypes \/ SyncAllResources \/ SyncResources \/ Retry
  \/ SyncAllEntitlements \/ SyncEntitlements
  \/ SyncAllGrants \/ SyncGrants \/ SyncGrantExpansion

\* Every turn of the loop is made at a stage and leads to a stage.
LEMMA LoopStage ==
  ASSUME NothingDropped, StackInv, NEW k \in 0 .. 6, Running(k), Loop
  PROVE  \E j \in 0 .. 6 : Running(j)'
<1>1. \A j \in {0, 1, 2, 3, 4, 5} : j \in 0 .. 6
  OBVIOUS
<1>. QED
  BY <1>1, BeginStage, TypesStage, AllResourcesStage, ResourcesStage, RetryStage,
     AllEntitlementsStage, EntitlementsStage, AllGrantsStage, GrantsStage, ExpansionStage
  DEF Loop

-----------------------------------------------------------------------------
(* Grants *)

\* The grants of a page are those of its resource, and their principals are no folders.
LEMMA GrantsOfPage ==
  ASSUME CachesOK, NEW r, NEW token, NEW g \in GrantsPage(r, token, PeopleOf(r), RolesOf(r))
  PROVE  /\ g.on = r /\ g.to \in Resources /\ g.to.type # "folder"
         /\ g.to \in OfType("collaborator") \cup OfType("role") \cup OfType("privilege")
<1>1. PeopleOf(r) \subseteq OfType("collaborator") /\ RolesOf(r) \subseteq OfType("role")
  BY DEF CachesOK, PeopleOf, RolesOf, CustomRoles
<1>2. \A x, y : Grant(x, y).on = x /\ Grant(x, y).to = y
  BY DEF Grant
<1>3. g \in PeopleGrants(r, PeopleOf(r)) \cup PrivilegeGrants(r) \cup FolderGrants(r, RolesOf(r))
  BY DEF GrantsPage
<1>4. \E y \in OfType("collaborator") \cup OfType("role") \cup OfType("privilege") : g = Grant(r, y)
  BY <1>1, <1>3 DEF PeopleGrants, PrivilegeGrants, FolderGrants
<1>. QED
  BY <1>2, <1>4 DEF OfType

\* A turn of the loop keeps the grants rooted: they come after all entitlements and
\* after all resources that can be a principal.
LEMMA LoopRooted ==
  ASSUME NothingDropped, StackInv, NEW k \in 0 .. 6, Running(k), Loop, Rooted(db)
  PROVE  Rooted(db')
<1>1. ASSUME NEW s, NEW d, Continue(s, d), RowsOK(d)
      PROVE  db'.stored = d.stored /\ db'.entitled = d.entitled /\ db'.grants = d.grants
  BY <1>1 DEF Continue, RowsOK
<1>2. ASSUME NEW s, NEW d, Continue(s, d), RowsOK(d), db.stored \subseteq d.stored,
             db.entitled \subseteq d.entitled, db.grants = d.grants
      PROVE  Rooted(db')
  BY <1>1, <1>2 DEF Rooted
<1>3. RowsOK(db)
  BY DEF StackInv, StoreInv
<1>4. CASE Begin
  BY <1>3, <1>4 DEF Begin, Rooted, RowsOK
<1>5. CASE SyncResourceTypes
  <2>1. PICK order \in TypeOrders :
          Continue(Rest, [db EXCEPT !.types = IF @ = << >> THEN order ELSE @])
    BY <1>5 DEF SyncResourceTypes
  <2>. DEFINE d == [db EXCEPT !.types = IF @ = << >> THEN order ELSE @]
  <2>2. /\ RowsOK(d) /\ d.stored = db.stored /\ d.entitled = db.entitled
        /\ d.grants = db.grants
    BY <1>3 DEF RowsOK
  <2>. QED
    BY <1>2, <2>1, <2>2
<1>6. CASE SyncAllResources \/ Retry \/ SyncAllEntitlements \/ SyncAllGrants \/ SyncGrantExpansion
  BY <1>2, <1>3, <1>6
  DEF SyncAllResources, Retry, SyncAllEntitlements, SyncAllGrants, SyncGrantExpansion
<1>7. CASE SyncResources
  BY <1>2, <1>7, ResourcesParts
<1>8. CASE SyncEntitlements
  <2>. DEFINE d == [db EXCEPT !.entitled = @ \cup {Current.on}]
  <2>1. /\ RowsOK(d) /\ d.stored = db.stored /\ d.grants = db.grants
        /\ d.entitled = db.entitled \cup {Current.on} /\ Continue(Rest, d)
    BY <1>3, <1>8 DEF RowsOK, SyncEntitlements
  <2>. QED
    BY <1>2, <2>1
<1>9. CASE SyncGrants
  <2>1. k = 1 /\ Good(1, actions, db) /\ actions \in Seq(Named(db.stored))
    BY <1>9, GrantsStage DEF Running, StackInv
  <2>2. /\ \A r \in Resources : r.type # "folder" => r \in db.stored
        /\ WithGrants(db.stored) \subseteq db.entitled
    BY <1>3, <2>1, LateStage DEF RowsOK
  <2>3. /\ Continue(Advance(GrantsToken), RowsGranted)
        /\ Current.on \in WithGrants(db.stored)
        /\ RowsOK(RowsGranted) /\ RowsGranted.grants = db.grants \cup GotGrants
        /\ RowsGranted.stored = db.stored /\ RowsGranted.entitled = db.entitled
    BY <1>9, GrantsParts
  <2>4. \A g \in GotGrants : g.on = Current.on /\ g.to \in Resources /\ g.to.type # "folder"
    BY GrantsOfPage DEF GotGrants, StackInv
  <2>. QED
    BY <1>1, <2>2, <2>3, <2>4 DEF Rooted
<1>. QED
  BY <1>4, <1>5, <1>6, <1>7, <1>8, <1>9 DEF Loop

-----------------------------------------------------------------------------
(* The invariant and its theorem *)

\* Before the first sync the stack is empty.
LEMMA StageInit == Init => StageInv
<1>. SUFFICES ASSUME Init PROVE StageInv
  OBVIOUS
<1>1. /\ EmptyStore.token = << >> /\ EmptyStore.grants = {}
      /\ phase = "off" /\ db = EmptyStore /\ disk = EmptyStore
  BY DEF Init, EmptyStore
<1>2. Good(6, Taken(EmptyStore.token), EmptyStore)
  BY <1>1 DEF Good, Stage, Taken, ListingLeft, EntitlingLeft
<1>. QED
  BY <1>1, <1>2 DEF StageInv, Rooted, OnlyFoldersAreLost

\* Only the last stage leaves an empty stack: every step of the plan has been made.
LEMMA EmptyStage ==
  ASSUME StackInv, phase = "running", NEW k \in 0 .. 6, Running(k), actions = << >>
  PROVE  /\ \A r \in Resources : r.type # "folder" => r \in db.stored
         /\ WithGrants(db.stored) \subseteq db.entitled
<1>1. Stage(k, << >>) /\ Good(k, << >>, db)
  BY DEF Running, Good
<1>2. k = 0
  <2>1. << >> # <<Whole("init")>> /\ Len(<< >>) = 0
    OBVIOUS
  <2>. QED
    BY <1>1, <2>1 DEF Stage
<1>3. db.stored \subseteq Resources /\ << >> \in Seq(Resources) /\ 0 \in 0 .. 1
  BY DEF StackInv, StoreInv, RowsOK
<1>. QED
  BY <1>1, <1>2, <1>3, LateStage

\* A process that stops leaves the rows it has, with a checkpoint that is good for them.
LEMMA AbortStage ==
  ASSUME StackInv, NEW k \in 0 .. 6, Running(k), actions # << >>, Abort
  PROVE  /\ \E m \in 0 .. 6 : Good(m, Taken(disk'.token), disk')
         /\ Rooted(db) => Rooted(disk') /\ Rooted(db')
<1>1. PICK token \in Tokens : disk' = [db EXCEPT !.token = token]
  BY DEF Abort
<1>2. /\ disk'.stored = db.stored /\ disk'.entitled = db.entitled /\ disk'.types = db.types
      /\ disk'.grants = db.grants /\ disk'.token = token
  BY <1>1 DEF StackInv, StoreInv, RowsOK
<1>3. PICK m \in 0 .. 6 : Good(m, Taken(token), db)
  BY DEF Running, Tokens, Taken
<1>4. Good(m, Taken(disk'.token), disk')
  BY <1>2, <1>3, GoodGrows
<1>5. db'.grants = {}
  BY DEF Abort, EmptyStore
<1>. QED
  BY <1>2, <1>4, <1>5 DEF Rooted

\* Every step keeps the invariant, also one that stops, crashes or resumes the sync.
LEMMA StageStep == NothingDropped /\ StackInv /\ StageInv /\ [Next]_vars => StageInv'
<1>. SUFFICES ASSUME NothingDropped, StackInv, StageInv, [Next]_vars PROVE StageInv'
  OBVIOUS
<1>1. CASE Loop
  <2>1. phase = "running" /\ phase' = "running" /\ disk' = disk
    BY <1>1 DEF Loop, Begin, SyncResourceTypes, SyncAllResources, SyncResources, Retry,
      SyncAllEntitlements, SyncEntitlements, SyncAllGrants, SyncGrants, SyncGrantExpansion,
      Turn, Continue
  <2>2. PICK k \in 0 .. 6 : Running(k)
    BY <2>1 DEF StageInv
  <2>3. \E j \in 0 .. 6 : Running(j)'
    BY <1>1, <2>2, LoopStage
  <2>4. Rooted(db')
    BY <1>1, <2>2, LoopRooted DEF StageInv
  <2>. QED
    BY <2>1, <2>3, <2>4 DEF StageInv, Rooted, OnlyFoldersAreLost
<1>2. CASE Start
  <2>1. phase' = "running" /\ db' = disk /\ disk' = disk /\ actions' = Taken(disk.token)
    BY <1>2 DEF Start, Taken
  <2>2. PICK m \in 0 .. 6 : Good(m, Taken(disk.token), disk)
    BY DEF StageInv
  <2>3. m \in m .. 6
    OBVIOUS
  <2>4. Running(m)'
    BY <2>1, <2>2, <2>3 DEF Running
  <2>. QED
    BY <2>1, <2>2, <2>4 DEF StageInv, OnlyFoldersAreLost
<1>3. CASE EndSync
  <2>1. /\ phase = "running" /\ phase' = "done" /\ db' = db /\ disk' = db
    BY <1>3 DEF EndSync
  <2>2. PICK k \in 0 .. 6 : Running(k)
    BY <2>1 DEF StageInv
  <2>3. \E m \in 0 .. 6 : Good(m, Taken(db.token), db)
    BY <2>2 DEF Running
  <2>4. OnlyFoldersAreLost'
    BY <1>3, <2>1, <2>2, EmptyStage DEF OnlyFoldersAreLost, EndSync
  <2>. QED
    BY <2>1, <2>3, <2>4 DEF StageInv
<1>4. CASE Fail \/ Interrupt
  <2>1. phase = "running" /\ phase' = "off" /\ actions # << >> /\ Abort
    BY <1>4 DEF Fail, Interrupt, Turn, Abort
  <2>2. PICK k \in 0 .. 6 : Running(k)
    BY <2>1 DEF StageInv
  <2>3. \E m \in 0 .. 6 : Good(m, Taken(disk'.token), disk')
    BY <2>1, <2>2, AbortStage
  <2>4. Rooted(disk') /\ Rooted(db')
    BY <2>1, <2>2, AbortStage DEF StageInv
  <2>. QED
    BY <2>1, <2>3, <2>4 DEF StageInv, OnlyFoldersAreLost
<1>5. CASE Crash
  <2>1. phase' = "off" /\ disk' = disk /\ db'.grants = {}
    BY <1>5 DEF Crash, EmptyStore
  <2>. QED
    BY <2>1 DEF StageInv, Rooted, OnlyFoldersAreLost
<1>6. CASE UNCHANGED vars
  BY <1>6 DEF StageInv, Running, Rooted, OnlyFoldersAreLost, vars
<1>. QED
  BY <1>1, <1>2, <1>3, <1>4, <1>5, <1>6 DEF Next, Step, Loop

\* Unless doRequest drops an answer of a listing: whatever stops or kills a sync, and at
\* whichever stage a later process takes up its checkpoint, a grant in the file is one of
\* an entitlement and to a principal that the file has.
THEOREM GrantsRooted == NothingDropped => (Spec => []GrantsAreRooted)
<1>. SUFFICES ASSUME NothingDropped PROVE Spec => []GrantsAreRooted
  OBVIOUS
<1>1. StageInv => GrantsAreRooted
  BY DEF StageInv, Rooted, GrantsAreRooted
<1>2. StackInv /\ StageInv /\ [Next]_vars => StageInv'
  BY StageStep
<1>. QED
  BY <1>1, <1>2, StackInit, StackStep, StageInit, PTL DEF Spec

\* Unless doRequest drops an answer of a listing: whatever stops or kills a sync, in
\* this process or an earlier one, what a sync that ends may have lost are folders.
THEOREM ResumedLosesFolders == NothingDropped => (Spec => []OnlyFoldersAreLost)
<1>. SUFFICES ASSUME NothingDropped PROVE Spec => []OnlyFoldersAreLost
  OBVIOUS
<1>1. StageInv => OnlyFoldersAreLost
  BY DEF StageInv
<1>2. StackInv /\ StageInv /\ [Next]_vars => StageInv'
  BY StageStep
<1>. QED
  BY <1>1, <1>2, StackInit, StackStep, StageInit, PTL DEF Spec
=============================================================================
