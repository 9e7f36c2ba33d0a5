------------------------- MODULE ListingSync_proofs -------------------------
(***************************************************************************)
(* What a whole sync lists and stores: roles that exist while it lists them  *)
(* page by page are listed, however many others are created meanwhile, and a *)
(* sync that nothing disturbs stores exactly what the workspace says.        *)
(***************************************************************************)
EXTENDS Listing_proofs

Pages == 0 .. Cardinality(CustomRoles)

\* The role of that name lies behind all pages that are cached, which are full.
Ahead(name) ==
  \E i \in DOMAIN custom :
    /\ custom[i].name = name
    /\ \A n \in Pages : Hit(PageUrl(n)) => Full(n) /\ (n + 1) * PageLimit < i

\* The role of that name is on a page that is cached.
OnPage(name) == \E n \in Pages : Hit(PageUrl(n)) /\ name \in Named(Data(PageUrl(n)))

\* Only the page after a full one is asked for.
InOrder == \A n \in Pages : Hit(PageUrl(n)) => \A k \in Pages : k < n => Hit(PageUrl(k)) /\ Full(k)

\* What the pages read again so far and the finished listing hold.
Listed ==
  /\ at.step = "list" => \A n \in Pages : n < at.page => Named(Data(PageUrl(n))) \subseteq listed
  /\ "role" \notin todo /\ ~ (Reading /\ at.builder = "role") => lasting \subseteq listed

\* While roles are lasting the sync is steady and they exist; each is on a page
\* that is cached or ahead of all of these.
LastInv ==
  /\ lasting \subseteq Names
  /\ lasting # {} =>
       /\ steady
       /\ at.step # "idle" =>
            /\ InOrder
            /\ \A name \in lasting : OnPage(name) \/ Ahead(name)
            /\ Listed

-----------------------------------------------------------------------------
(* Pages *)

\* The numbers of pages and roles are natural numbers.
LEMMA PageFacts ==
  /\ Cardinality(CustomRoles) \in Nat
  /\ PageLimit \in Nat \ {0}
  /\ Pages \subseteq Nat
  /\ \A n \in Pages : PageUrl(n) \in Urls
BY FS_CardinalityType, ListingAssumption, UrlFacts DEF Pages

\* A page with roles behind it is full.
LEMMA RolesBehind ==
  ASSUME WorldInv, NEW n \in Nat, (n + 1) * PageLimit <= Len(custom)
  PROVE  Cardinality(RolesPage(n)) = PageLimit
<1>. DEFINE from == n * PageLimit
            places == from + 1 .. from + PageLimit
            f == [i \in places |-> custom[i]]
<1>1. from \in Nat /\ (n + 1) * PageLimit = from + PageLimit /\ PageLimit \in Nat \ {0}
  BY ListingAssumption
<1>2. DOMAIN custom = 1 .. Len(custom) /\ Len(custom) \in Nat
  BY DEF WorldInv
<1>. HIDE DEF from
<1>3. \A i \in Nat : i \in places <=> i \in DOMAIN custom /\ from < i /\ i <= from + PageLimit
  BY <1>1, <1>2
<1>4. RolesPage(n) = {custom[i] : i \in places}
  <2>1. {i \in DOMAIN custom : n * PageLimit < i /\ i <= (n + 1) * PageLimit} = places
    BY <1>1, <1>2, <1>3 DEF from
  <2>. HIDE DEF places
  <2>. QED
    BY <2>1 DEF RolesPage
<1>5. f \in Bijection(places, RolesPage(n))
  <2>1. \A i, j \in places : custom[i] = custom[j] => i = j
    BY <1>1, <1>3 DEF WorldInv, Distinct
  <2>2. f \in [places -> RolesPage(n)] /\ \A r \in RolesPage(n) : \E i \in places : f[i] = r
    <3>. HIDE DEF places
    <3>. QED
      BY <1>4
  <2>. HIDE DEF places
  <2>. QED
    BY <2>1, <2>2 DEF Bijection, Injection, Surjection, IsInjective
<1>6. IsFiniteSet(places) /\ Cardinality(places) = PageLimit
  <2>1. /\ from + 1 \in Int /\ from + PageLimit \in Int
        /\ from + 1 <= from + PageLimit /\ (from + PageLimit) - (from + 1) + 1 = PageLimit
    BY <1>1
  <2>. QED
    BY <2>1, FS_Interval
<1>. HIDE DEF f, places
<1>. QED
  BY <1>5, <1>6, FS_Bijection DEF ExistsBijection

\* A role behind the pages before n is on page n, or behind it, and then the page
\* is full.
LEMMA NextPage ==
  ASSUME WorldInv, NEW n \in Nat, NEW i \in DOMAIN custom, n * PageLimit < i
  PROVE  \/ custom[i] \in RolesPage(n)
         \/ (n + 1) * PageLimit < i /\ Cardinality(RolesPage(n)) = PageLimit
<1>1. i \in Nat /\ i <= Len(custom) /\ (n + 1) * PageLimit \in Nat /\ Len(custom) \in Nat
  BY ListingAssumption DEF WorldInv
<1>2. CASE i <= (n + 1) * PageLimit
  BY <1>2 DEF RolesPage
<1>3. CASE (n + 1) * PageLimit < i
  <2>1. (n + 1) * PageLimit <= Len(custom)
    BY <1>1, <1>3
  <2>. QED
    BY <1>3, <2>1, RolesBehind
<1>. QED
  BY <1>1, <1>2, <1>3

\* No page gets into the cache or out of it.
PagesSame == \A n \in Pages : cache'[PageUrl(n)] = cache[PageUrl(n)]

\* The roles that the sync has to list are still the same.
Lasts == lasting' = lasting /\ (steady => steady')

\* A step that leaves the pages alone and only moves roles on keeps the invariant.
LEMMA LastKept ==
  ASSUME Inv, Inv', LastInv, PagesSame, Moves,
         lasting' = {} \/ Lasts,
         at'.step # "idle" => at.step # "idle",
         lasting # {} /\ at.step # "idle" /\ at'.step # "idle" => Listed'
  PROVE  LastInv'
<1>1. Names \subseteq Names'
  BY DEF Names, Moves
<1>2. lasting' \subseteq Names' /\ (lasting' # {} => steady' /\ lasting # {} /\ lasting' = lasting)
  BY <1>1 DEF LastInv, Lasts
<1>. SUFFICES ASSUME lasting # {}, lasting' = lasting, at.step # "idle", at'.step # "idle"
              PROVE  InOrder' /\ \A name \in lasting : OnPage(name)' \/ Ahead(name)'
  BY <1>2 DEF LastInv
<1>3. \A n \in Pages : /\ Hit(PageUrl(n))' = Hit(PageUrl(n)) /\ Data(PageUrl(n))' = Data(PageUrl(n))
                       /\ Full(n)' = Full(n)
  BY DEF PagesSame, Hit, Data, Full
<1>4. InOrder'
  BY <1>3 DEF LastInv, InOrder
<1>5. ASSUME NEW name \in lasting PROVE OnPage(name)' \/ Ahead(name)'
  <2>1. CASE OnPage(name)
    BY <1>3, <2>1 DEF OnPage, Named
  <2>2. CASE Ahead(name)
    <3>1. PICK i \in DOMAIN custom :
            /\ custom[i].name = name
            /\ \A n \in Pages : Hit(PageUrl(n)) => Full(n) /\ (n + 1) * PageLimit < i
      BY <2>2 DEF Ahead
    <3>2. PICK j \in DOMAIN custom' : i <= j /\ custom'[j].name = custom[i].name
      BY DEF Moves
    <3>3. i \in Nat /\ j \in Nat
      BY DEF Inv, WorldInv
    <3>4. \A n \in Pages : (n + 1) * PageLimit \in Nat
      BY PageFacts
    <3>5. \A n \in Pages : Hit(PageUrl(n))' => Full(n)' /\ (n + 1) * PageLimit < j
      BY <1>3, <3>1, <3>2, <3>3, <3>4
    <3>. QED
      BY <3>1, <3>2, <3>5 DEF Ahead
  <2>. QED
    BY <2>1, <2>2 DEF LastInv
<1>. QED
  BY <1>4, <1>5

-----------------------------------------------------------------------------
(* The steps of a sync *)

\* What a request does for the roles that are lasting: unless they are given up, a
\* good answer is an entry from then on, and any other answer is not cached.
LEMMA GetKeepsLasting ==
  ASSUME CacheInv, NEW url \in Urls, NEW answer \in Answers(url), Get(url, answer)
  PROVE  /\ lasting' = {} \/ Lasts
         /\ doRequest(answer.kind) = "error" \/ Hit(url) => cache' = cache
         /\ lasting' # {} /\ doRequest(answer.kind) = "nil" /\ ~ Hit(url) =>
              /\ answer.data = Served(url)
              /\ cache' = [cache EXCEPT ![url] = [stored |-> TRUE, data |-> answer.data, since |-> syncs]]
<1>1. lasting' = {} \/ Lasts
  <2>1. lasting' # {} => answer.kind \in {"ok", "none"} /\ lasting' = lasting
    BY DEF Get
  <2>2. answer.kind \in {"ok", "none"} /\ steady => steady'
    BY DEF Get
  <2>. QED
    BY <2>1, <2>2 DEF Lasts
<1>2. doRequest(answer.kind) = "error" \/ Hit(url) => cache' = cache
  BY DEF Get, doRequest, Stored, Hit
<1>3. ASSUME lasting' # {}, doRequest(answer.kind) = "nil", ~ Hit(url)
      PROVE  /\ answer.data = Served(url)
             /\ cache' = [cache EXCEPT ![url] = [stored |-> TRUE, data |-> answer.data, since |-> syncs]]
  <2>1. answer.kind = "ok"
    BY <1>3 DEF Get, doRequest
  <2>2. answer.data = Served(url)
    BY <1>3, <2>1 DEF Answers, Decoded, Hit
  <2>. QED
    BY <1>3, <2>1, <2>2 DEF Get, Stored, Hit
<1>. QED
  BY <1>1, <1>2, <1>3

\* A request for something other than a page leaves the pages alone.
LEMMA OtherUrl ==
  ASSUME CacheInv, NEW url \in Urls, url[1] # "roles", NEW answer \in Answers(url), Get(url, answer)
  PROVE  PagesSame
<1>1. cache' = cache \/ \E entry : cache' = [cache EXCEPT ![url] = entry]
  BY DEF Get
<1>2. \A n \in Pages : PageUrl(n) # url
  BY UrlFacts DEF Pages
<1>. QED
  BY <1>1, <1>2, PageFacts DEF PagesSame, CacheInv

\* The request that fails leaves what is listed and goes back at most.
LEMMA BrokenLast ==
  ASSUME Inv, Inv', LastInv, Reading, NEW url \in Urls, NEW answer \in Answers(url), Get(url, answer),
         doRequest(answer.kind) = "error", Broken(answer), UNCHANGED <<world, listed>>
  PROVE  LastInv'
<1>1. /\ lasting' = {} \/ Lasts
      /\ cache' = cache
  BY GetKeepsLasting DEF Inv
<1>2. PagesSame /\ Moves
  BY <1>1, NothingMoves DEF PagesSame, Inv, world
<1>3. at.step # "idle"
  BY DEF Reading
<1>4. CASE answer.kind # "none"
  <2>1. at' = Idle
    BY <1>4 DEF Broken, End
  <2>2. at'.step = "idle"
    BY <2>1 DEF Idle
  <2>. QED
    BY <1>1, <1>2, <2>2, LastKept
<1>5. CASE answer.kind = "none"
  <2>1. /\ todo' = todo
        /\ \/ at' = at
           \/ at'.step = "members" /\ at'.builder = at.builder
    BY <1>5 DEF Broken, Goto
  <2>2. ASSUME lasting' = lasting, Listed PROVE Listed'
    <3>1. Reading'  /\ at'.builder = at.builder
      BY <2>1 DEF Reading
    <3>2. "role" \notin todo /\ ~ (Reading /\ at.builder = "role") => lasting \subseteq listed
      BY <2>2 DEF Listed
    <3>3. at'.step = "list" => at' = at
      BY <2>1
    <3>4. \A n \in Pages : Named(Data(PageUrl(n)))' = Named(Data(PageUrl(n)))
      BY <1>1 DEF Data, Named
    <3>5. listed' = listed
      OBVIOUS
    <3>. QED
      BY <2>1, <2>2, <3>1, <3>2, <3>3, <3>4, <3>5 DEF Listed
  <2>4. CASE lasting' = {}
    <3>1. lasting' \subseteq Names' /\ ~ lasting' # {}
      BY <2>4
    <3>. QED
      BY <3>1 DEF LastInv
  <2>5. CASE Lasts
    <3>1. lasting # {} => Listed
      BY <1>3 DEF LastInv
    <3>. QED
      BY <1>2, <1>3, <2>2, <2>5, <3>1, LastKept DEF Lasts
  <2>. QED
    BY <1>1, <2>4, <2>5
<1>. QED
  BY <1>4, <1>5

\* The sync has to list what exists when it begins, unless a page is still cached.
LEMMA BeginLast == ASSUME Inv, Begin PROVE LastInv'
<1>1. /\ lasting' = IF \E u \in Urls : u[1] = "roles" /\ cache[u].stored THEN {} ELSE Names
      /\ UNCHANGED <<world, cache>> /\ steady' = TRUE /\ todo' = Builders
      /\ at'.step = "choose"
  BY DEF Begin, Goto
<1>2. Names' = Names
  BY <1>1 DEF Names, world
<1>3. CASE lasting' = {}
  BY <1>3 DEF LastInv
<1>4. CASE lasting' # {}
  <2>1. lasting' = Names /\ \A u \in Urls : u[1] = "roles" => ~ Hit(u)
    BY <1>1, <1>4 DEF Hit
  <2>2. \A n \in Pages : ~ Hit(PageUrl(n))'
    BY <1>1, <2>1, UrlFacts DEF Hit, Pages
  <2>3. \A name \in Names : Ahead(name)'
    BY <1>1, <2>2 DEF Ahead, Names, world
  <2>4. InOrder' /\ Listed'
    BY <1>1, <2>2 DEF InOrder, Listed, Builders
  <2>. QED
    BY <1>1, <1>2, <2>1, <2>3, <2>4 DEF LastInv
<1>. QED
  BY <1>3, <1>4

\* The other steps that ask for nothing: nothing is listed by them, and the role
\* builder is not done.
LEMMA QuietLast ==
  ASSUME Inv, Inv', LastInv, UNCHANGED <<world, cache, listed, lasting, steady>>,
         at'.step # "idle" => at.step # "idle",
         at'.step = "list" => at' = at,
         "role" \notin todo' /\ ~ (Reading /\ at.builder = "role")' =>
           at'.step = "idle" \/ ("role" \notin todo /\ ~ (Reading /\ at.builder = "role"))
  PROVE  LastInv'
<1>1. PagesSame /\ Moves
  BY NothingMoves DEF PagesSame, Inv, world
<1>2. \A n \in Pages : Named(Data(PageUrl(n)))' = Named(Data(PageUrl(n)))
  BY DEF Named, Data
<1>3. ASSUME Listed, at'.step # "idle" PROVE Listed'
  <2>1. at'.step = "list" => \A n \in Pages : n < at'.page => Named(Data(PageUrl(n)))' \subseteq listed'
    BY <1>2, <1>3 DEF Listed
  <2>. QED
    BY <1>3, <2>1 DEF Listed
<1>4. lasting # {} /\ at.step # "idle" => Listed
  BY DEF LastInv
<1>. QED
  BY <1>1, <1>3, <1>4, LastKept DEF Lasts

\* A builder begins.
LEMMA ChooseLast == ASSUME Inv, Inv', LastInv, NEW b \in Builders, Choose(b) PROVE LastInv'
<1>1. /\ at.step = "choose" /\ todo' = todo \ {b} /\ at'.step = "members" /\ at'.builder = b
      /\ UNCHANGED <<world, cache, listed, lasting, steady>>
  BY DEF Choose, Goto, caches, history
<1>2. ~ Reading /\ Reading'
  BY <1>1 DEF Reading
<1>. QED
  BY <1>1, <1>2, QuietLast

\* All members are read; only the privileges are done with it.
LEMMA MembersReadLast == ASSUME Inv, Inv', LastInv, MembersRead PROVE LastInv'
<1>1. /\ at.step = "detail" /\ UNCHANGED <<world, cache, listed, todo, lasting, steady>>
      /\ \/ at.builder = "privilege" /\ at'.step = "choose"
         \/ at.builder = "role" /\ at'.step = "fill" /\ at'.builder = "role"
  BY DEF MembersRead, Goto, history
<1>2. at'.step = "fill" => Reading'
  BY DEF Reading
<1>. QED
  BY <1>1, <1>2, QuietLast

\* The sync ends, and with it the claim on what is listed.
LEMMA FinishLast == ASSUME LastInv, Finish PROVE LastInv'
<1>1. at' = Idle /\ UNCHANGED <<world, lasting, steady>>
  BY DEF Finish, End, history
<1>2. Names' = Names
  BY <1>1 DEF Names, world
<1>3. at'.step = "idle"
  BY <1>1 DEF Idle
<1>. QED
  BY <1>1, <1>2, <1>3 DEF LastInv

\* The members are listed, or the request for them fails.
LEMMA ReadMembersLast == ASSUME Inv, Inv', LastInv, ReadMembers PROVE LastInv'
<1>1. PICK answer \in Answers(MembersUrl) :
        /\ Get(MembersUrl, answer)
        /\ \/ doRequest(answer.kind) = "error" /\ Broken(answer)
           \/ doRequest(answer.kind) = "nil" /\ Goto("detail", at.builder, answer.data, 0) /\ todo' = todo
  BY DEF ReadMembers, MembersUrl
<1>2. at.step = "members" /\ Reading /\ UNCHANGED <<world, listed>>
  BY DEF ReadMembers, Reading
<1>3. CASE doRequest(answer.kind) = "error" /\ Broken(answer)
  BY <1>1, <1>2, <1>3, UrlFacts, BrokenLast
<1>4. CASE Goto("detail", at.builder, answer.data, 0) /\ todo' = todo
  <2>1. at'.step = "detail" /\ at'.builder = at.builder /\ Reading'
    BY <1>4 DEF Goto, Reading
  <2>2. lasting' = {} \/ Lasts
    BY <1>1, UrlFacts, GetKeepsLasting DEF Inv
  <2>3. PagesSame /\ Moves
    BY <1>1, <1>2, UrlFacts, OtherUrl, NothingMoves DEF Inv, world
  <2>4. lasting # {} => Listed
    BY <1>2 DEF LastInv
  <2>5. lasting' = lasting /\ Listed => Listed'
    BY <1>2, <1>4, <2>1 DEF Listed
  <2>6. CASE lasting' = {}
    BY <2>6 DEF LastInv
  <2>7. CASE Lasts
    BY <1>2, <2>1, <2>3, <2>4, <2>5, <2>7, LastKept DEF Lasts
  <2>. QED
    BY <2>2, <2>6, <2>7
<1>. QED
  BY <1>1, <1>3, <1>4

\* A member is read, the sync ends with it, or the request fails.
LEMMA ReadDetailLast == ASSUME Inv, Inv', LastInv, ReadDetail PROVE LastInv'
<1>1. at.step = "detail" /\ Reading /\ UNCHANGED <<world, listed>>
  BY DEF ReadDetail, Reading
<1>2. PICK x \in at.left : \E answer \in Answers(DetailUrl(x.who)) :
         /\ Get(DetailUrl(x.who), answer)
         /\ \/ doRequest(answer.kind) = "error" /\ Broken(answer)
            \/ End("unreadable member", {})
            \/ Goto("detail", at.builder, at.left \ {x}, 0) /\ todo' = todo
  BY DEF ReadDetail, DetailUrl
<1>. DEFINE url == DetailUrl(x.who)
<1>3. url \in Urls /\ url[1] # "roles"
  BY <1>1, UrlFacts DEF Inv, AtInv
<1>. HIDE DEF url
<1>4. PICK answer \in Answers(url) :
         /\ Get(url, answer)
         /\ \/ doRequest(answer.kind) = "error" /\ Broken(answer)
            \/ End("unreadable member", {})
            \/ Goto("detail", at.builder, at.left \ {x}, 0) /\ todo' = todo
  BY <1>2 DEF url
<1>5. CASE doRequest(answer.kind) = "error" /\ Broken(answer)
  BY <1>1, <1>3, <1>4, <1>5, BrokenLast
<1>6. /\ lasting' = {} \/ Lasts
      /\ PagesSame /\ Moves
  BY <1>1, <1>3, <1>4, GetKeepsLasting, OtherUrl, NothingMoves DEF Inv, world
<1>7. CASE End("unreadable member", {})
  <2>1. at'.step = "idle"
    BY <1>7 DEF End, Idle
  <2>. QED
    BY <1>6, <2>1, LastKept
<1>8. CASE Goto("detail", at.builder, at.left \ {x}, 0) /\ todo' = todo
  <2>1. at'.step = "detail" /\ at'.builder = at.builder /\ Reading'
    BY <1>8 DEF Goto, Reading
  <2>2. lasting # {} => Listed
    BY <1>1 DEF LastInv
  <2>3. lasting' = lasting /\ Listed => Listed'
    BY <1>1, <1>8, <2>1 DEF Listed
  <2>4. CASE lasting' = {}
    BY <2>4 DEF LastInv
  <2>5. CASE Lasts
    BY <1>1, <1>6, <2>1, <2>2, <2>3, <2>5, LastKept DEF Lasts
  <2>. QED
    BY <1>6, <2>4, <2>5
<1>. QED
  BY <1>4, <1>5, <1>7, <1>8

\* A page that was not cached becomes an entry: each role that lasts is on it, on one
\* of the earlier pages, or still ahead of all.
LEMMA PageRead ==
  ASSUME Inv, LastInv, lasting # {}, at.step # "idle", NEW p \in Pages, PagesKnown(p), ~ Hit(PageUrl(p)),
         custom' = custom,
         cache' = [cache EXCEPT ![PageUrl(p)] = [stored |-> TRUE, data |-> RolesPage(p), since |-> syncs]]
  PROVE  InOrder' /\ \A name \in lasting : OnPage(name)' \/ Ahead(name)'
<1>1. /\ Hit(PageUrl(p))' /\ Data(PageUrl(p))' = RolesPage(p)
      /\ \A n \in Pages \ {p} : cache'[PageUrl(n)] = cache[PageUrl(n)]
  <2>1. \A n \in Pages \ {p} : PageUrl(n) # PageUrl(p)
    BY UrlFacts DEF Pages
  <2>. QED
    BY <2>1, PageFacts DEF Inv, CacheInv, Hit, Data
<1>2. \A n \in Pages \ {p} : /\ Hit(PageUrl(n))' = Hit(PageUrl(n)) /\ Data(PageUrl(n))' = Data(PageUrl(n))
                            /\ Full(n)' = Full(n)
  BY <1>1 DEF Hit, Data, Full
<1>3. \A k \in Pages : k < p => Hit(PageUrl(k)) /\ Full(k)
  BY DEF PagesKnown, PageKnown, Pages
<1>4. InOrder
  BY DEF LastInv
<1>5. \A k \in Pages : k < p => k # p
  BY PageFacts
<1>6. InOrder'
  <2>. SUFFICES ASSUME NEW n \in Pages, Hit(PageUrl(n))', NEW k \in Pages, k < n
                PROVE  Hit(PageUrl(k))' /\ Full(k)'
    BY DEF InOrder
  <2>1. CASE n = p
    BY <1>2, <1>3, <1>5, <2>1
  <2>2. CASE n # p
    <3>1. Hit(PageUrl(k)) /\ Full(k)
      BY <1>2, <1>4, <2>2 DEF InOrder
    <3>. QED
      BY <1>2, <3>1
  <2>. QED
    BY <2>1, <2>2
<1>7. ASSUME NEW name \in lasting PROVE OnPage(name)' \/ Ahead(name)'
  <2>1. CASE OnPage(name)
    <3>1. PICK n \in Pages : Hit(PageUrl(n)) /\ name \in Named(Data(PageUrl(n)))
      BY <2>1 DEF OnPage
    <3>. QED
      BY <1>2, <3>1 DEF OnPage, Named
  <2>2. CASE Ahead(name)
    <3>1. PICK i \in DOMAIN custom :
            /\ custom[i].name = name
            /\ \A n \in Pages : Hit(PageUrl(n)) => Full(n) /\ (n + 1) * PageLimit < i
      BY <2>2 DEF Ahead
    <3>2. p * PageLimit < i
      <4>1. i \in Nat \ {0} /\ p \in Nat
        BY PageFacts DEF Inv, WorldInv
      <4>2. CASE p = 0
        BY <4>1, <4>2, PageFacts
      <4>3. CASE p # 0
        <5>1. p - 1 \in Pages /\ p - 1 < p /\ (p - 1) + 1 = p
          BY <4>1, <4>3, PageFacts DEF Pages
        <5>2. Hit(PageUrl(p - 1))
          BY <1>3, <5>1
        <5>. QED
          BY <3>1, <5>1, <5>2
      <4>. QED
        BY <4>2, <4>3
    <3>3. \/ custom[i] \in RolesPage(p)
          \/ (p + 1) * PageLimit < i /\ Cardinality(RolesPage(p)) = PageLimit
      BY <3>2, PageFacts, NextPage DEF Inv
    <3>4. CASE custom[i] \in RolesPage(p)
      BY <1>1, <3>1, <3>4 DEF OnPage, Named
    <3>5. CASE (p + 1) * PageLimit < i /\ Cardinality(RolesPage(p)) = PageLimit
      <4>1. \A n \in Pages : Hit(PageUrl(n))' => Full(n)' /\ (n + 1) * PageLimit < i
        BY <1>1, <1>2, <3>1, <3>5 DEF Full
      <4>. QED
        BY <3>1, <4>1 DEF Ahead
    <3>. QED
      BY <3>3, <3>4, <3>5
  <2>. QED
    BY <2>1, <2>2 DEF LastInv
<1>. QED
  BY <1>6, <1>7

\* A page is put into the role cache: nothing is listed by it.
LEMMA FillRolesLast == ASSUME Inv, Inv', LastInv, FillRoles PROVE LastInv'
<1>1. /\ at.step = "fill" /\ Reading /\ at.builder = "role" /\ UNCHANGED <<world, listed>>
      /\ at.page \in Pages
  BY DEF FillRoles, Reading, Inv, AtInv, Pages
<1>2. PICK p \in Pages : p = at.page
  BY <1>1
<1>. DEFINE url == PageUrl(p)
<1>3. PICK answer \in Answers(url) :
        /\ Get(url, answer)
        /\ \/ doRequest(answer.kind) = "error" /\ Broken(answer)
           \/ /\ doRequest(answer.kind) = "nil"
              /\ Goto("fill", "role", {}, p + 1) \/ Goto("list", "role", {}, 0)
              /\ todo' = todo
  BY <1>2 DEF FillRoles, PageUrl
<1>4. url \in Urls /\ Served(url) = RolesPage(p)
  BY PageFacts DEF Served, PageUrl
<1>5. CASE doRequest(answer.kind) = "error" /\ Broken(answer)
  BY <1>1, <1>3, <1>4, <1>5, BrokenLast
<1>6. CASE /\ doRequest(answer.kind) = "nil"
           /\ Goto("fill", "role", {}, p + 1) \/ Goto("list", "role", {}, 0)
           /\ todo' = todo
  <2>1. Reading' /\ at'.builder = "role" /\ (at'.step = "list" => at'.page = 0) /\ at'.step # "idle"
    BY <1>6 DEF Goto, Reading
  <2>2. \A n \in Pages : ~ n < 0
    BY PageFacts
  <2>3. Listed'
    BY <2>1, <2>2 DEF Listed
  <2>4. /\ lasting' = {} \/ Lasts
        /\ Hit(url) => cache' = cache
        /\ lasting' # {} /\ ~ Hit(url) =>
             cache' = [cache EXCEPT ![url] = [stored |-> TRUE, data |-> RolesPage(p), since |-> syncs]]
    BY <1>3, <1>4, <1>6, GetKeepsLasting DEF Inv
  <2>5. CASE lasting' = {}
    BY <2>5 DEF LastInv
  <2>6. CASE lasting' # {} /\ Hit(url)
    <3>1. PagesSame /\ Moves
      BY <1>1, <2>4, <2>6, NothingMoves DEF PagesSame, Inv, world
    <3>. QED
      BY <1>1, <2>3, <2>4, <2>6, <3>1, LastKept
  <2>7. CASE lasting' # {} /\ ~ Hit(url)
    <3>1. lasting' = lasting /\ lasting # {} /\ steady /\ steady'
      BY <2>4, <2>7 DEF Lasts, LastInv
    <3>2. PagesKnown(p)
      BY <1>1, <1>2, <3>1 DEF Inv, KnownInv
    <3>3. custom' = custom /\ Names' = Names
      BY <1>1 DEF world, Names
    <3>4. InOrder' /\ \A name \in lasting : OnPage(name)' \/ Ahead(name)'
      BY <1>1, <2>4, <2>7, <3>1, <3>2, <3>3, PageRead
    <3>. QED
      BY <2>3, <3>1, <3>3, <3>4 DEF LastInv
  <2>. QED
    BY <2>5, <2>6, <2>7
<1>. QED
  BY <1>3, <1>5, <1>6

\* A page is listed; with the last one every role that lasts is listed.
LEMMA ListRolesLast == ASSUME Inv, Inv', LastInv, ListRoles PROVE LastInv'
<1>1. /\ at.step = "list" /\ Reading /\ at.builder = "role" /\ UNCHANGED world
      /\ at.page \in Pages
  BY DEF ListRoles, Reading, Inv, AtInv, Pages
<1>2. PICK p \in Pages : p = at.page
  BY <1>1
<1>. DEFINE url == PageUrl(p)
<1>3. PICK answer \in Answers(url) :
        /\ Get(url, answer)
        /\ \/ doRequest(answer.kind) = "error" /\ Broken(answer) /\ UNCHANGED listed
           \/ /\ doRequest(answer.kind) = "nil"
              /\ listed' = listed \cup Named(answer.data) \cup DOMAIN BaseRoles
              /\ IF Cardinality(answer.data) = PageLimit
                 THEN Goto("list", "role", {}, p + 1) ELSE Goto("choose", "none", {}, 0)
              /\ todo' = todo
  BY <1>2 DEF ListRoles, PageUrl
<1>4. url \in Urls
  BY PageFacts
<1>5. CASE doRequest(answer.kind) = "error" /\ Broken(answer) /\ UNCHANGED listed
  BY <1>1, <1>3, <1>4, <1>5, BrokenLast
<1>6. CASE /\ doRequest(answer.kind) = "nil"
           /\ listed' = listed \cup Named(answer.data) \cup DOMAIN BaseRoles
           /\ IF Cardinality(answer.data) = PageLimit
              THEN Goto("list", "role", {}, p + 1) ELSE Goto("choose", "none", {}, 0)
           /\ todo' = todo
  <2>1. lasting' = {} \/ Lasts
    BY <1>3, <1>4, GetKeepsLasting DEF Inv
  <2>2. CASE lasting' = {}
    BY <2>2 DEF LastInv
  <2>3. CASE lasting' # {}
    <3>1. lasting' = lasting /\ lasting # {} /\ steady /\ Lasts
      BY <2>1, <2>3 DEF Lasts, LastInv
    <3>2. /\ InOrder /\ Listed
          /\ \A name \in lasting : OnPage(name) \/ Ahead(name)
      BY <1>1, <3>1 DEF LastInv
    <3>3. PICK last \in Pages : p <= last /\ PagesKnown(last) /\ PageKnown(last) /\ ~ Full(last)
      BY <1>1, <1>2, <3>1 DEF Inv, KnownInv, Pages
    <3>4. Hit(url)
      <4>1. p < last \/ p = last
        BY <3>3, PageFacts
      <4>. QED
        BY <3>3, <4>1 DEF PagesKnown, PageKnown, Pages
    <3>5. answer.data = Data(url) /\ cache' = cache
      BY <1>3, <1>4, <3>4, GetKeepsLasting DEF Inv, Answers, Hit, Data
    <3>6. PagesSame /\ Moves
      BY <1>1, <3>5, NothingMoves DEF PagesSame, Inv, world
    <3>7. \A n \in Pages : n <= p => Named(Data(PageUrl(n))) \subseteq listed'
      <4>1. \A n \in Pages : n <= p => n < p \/ n = p
        BY PageFacts
      <4>. QED
        BY <1>1, <1>2, <1>6, <3>2, <3>5, <4>1 DEF Listed
    <3>8. CASE Cardinality(answer.data) = PageLimit
      <4>1. at'.step = "list" /\ at'.builder = "role" /\ at'.page = p + 1 /\ Reading'
        BY <1>6, <3>8 DEF Goto, Reading
      <4>2. \A n \in Pages : Named(Data(PageUrl(n)))' = Named(Data(PageUrl(n)))
        BY <3>5 DEF Named, Data
      <4>3. \A n \in Pages : n < p + 1 => n <= p
        BY PageFacts
      <4>4. Listed'
        BY <3>7, <4>1, <4>2, <4>3 DEF Listed
      <4>. QED
        BY <1>1, <3>1, <3>6, <4>4, LastKept
    <3>9. CASE Cardinality(answer.data) # PageLimit
      <4>1. at'.step = "choose"
        BY <1>6, <3>9 DEF Goto
      <4>2. ~ Full(p)
        BY <3>5, <3>9 DEF Full
      <4>3. ASSUME NEW name \in lasting PROVE name \in listed'
        <5>1. ~ Ahead(name)
          BY <3>4, <4>2 DEF Ahead
        <5>2. PICK n \in Pages : Hit(PageUrl(n)) /\ name \in Named(Data(PageUrl(n)))
          BY <3>2, <5>1 DEF OnPage
        <5>3. ~ p < n
          BY <3>2, <4>2, <5>2 DEF InOrder
        <5>4. n <= p
          BY <5>3, PageFacts
        <5>. QED
          BY <3>7, <5>2, <5>4
      <4>4. Listed'
        BY <3>1, <4>1, <4>3 DEF Listed
      <4>. QED
        BY <1>1, <3>1, <3>6, <4>4, LastKept
    <3>. QED
      BY <3>8, <3>9
  <2>. QED
    BY <2>2, <2>3
<1>. QED
  BY <1>3, <1>5, <1>6

-----------------------------------------------------------------------------
(* The other steps *)

\* A step of something else than the sync.
LEMMA ElsewhereLast ==
  ASSUME Inv, Inv', LastInv, PagesSame, Moves, lasting' = {} \/ Lasts, UNCHANGED <<at, todo, listed>>
  PROVE  LastInv'
<1>1. CASE lasting' = {}
  BY <1>1 DEF LastInv
<1>2. CASE Lasts
  <2>1. Listed => Listed'
    <3>1. \A n \in Pages : Named(Data(PageUrl(n)))' = Named(Data(PageUrl(n)))
      BY DEF PagesSame, Named, Data
    <3>2. Reading' = Reading
      BY DEF Reading
    <3>. QED
      BY <1>2, <3>1, <3>2 DEF Listed, Lasts
  <2>2. lasting # {} /\ at.step # "idle" => Listed
    BY DEF LastInv
  <2>. QED
    BY <1>2, <2>1, <2>2, LastKept
<1>. QED
  BY <1>1, <1>2

\* The workspace changes: a role created moves others on, and a deletion gives up
\* what was said of them.
LEMMA WorldLast == ASSUME Inv, Inv', LastInv, World PROVE LastInv'
<1>1. UNCHANGED <<cache, at, todo, listed, steady>>
  BY DEF World, CreateRole, DeleteRole, Assign, Change, caches
<1>2. PagesSame
  BY <1>1 DEF PagesSame
<1>3. ASSUME NEW name \in CustomRoles, NEW param \in Params, CreateRole(name, param) PROVE LastInv'
  <2>. DEFINE r == [name |-> name, privileges |-> param]
  <2>1. r \in RoleRecords
    BY DEF RoleRecords
  <2>2. PICK i \in 0 .. Len(custom) :
          custom' = SubSeq(custom, 1, i) \o <<r>> \o SubSeq(custom, i + 1, Len(custom))
    BY <1>3 DEF CreateRole
  <2>. HIDE DEF r
  <2>3. Moves
    BY <2>1, <2>2, InsertMoves DEF Inv
  <2>4. Lasts
    BY <1>1, <1>3 DEF CreateRole, Lasts
  <2>. QED
    BY <1>1, <1>2, <2>3, <2>4, ElsewhereLast
<1>4. ASSUME NEW i \in DOMAIN custom, DeleteRole(i) PROVE LastInv'
  BY <1>4 DEF DeleteRole, LastInv
<1>5. ASSUME NEW m \in Members, NEW roles \in RoleLists, Assign(m, roles) PROVE LastInv'
  <2>1. Lasts /\ Moves
    BY <1>1, <1>5, NothingMoves DEF Assign, Lasts, Inv
  <2>. QED
    BY <1>1, <1>2, <2>1, ElsewhereLast
<1>. QED
  BY <1>3, <1>4, <1>5 DEF World

\* A grant task adds no page.
LEMMA PrefetchLast == ASSUME Inv, Inv', LastInv, NEW m \in Members, Prefetch(m) PROVE LastInv'
<1>1. /\ \E entry : cache' = [cache EXCEPT ![DetailUrl(m)] = entry]
      /\ UNCHANGED <<world, at, todo, listed>> /\ Lasts
  BY DEF Prefetch, DetailUrl, caches, history, Lasts
<1>2. \A n \in Pages : PageUrl(n) # DetailUrl(m)
  BY UrlFacts DEF Pages
<1>3. PagesSame /\ Moves
  BY <1>1, <1>2, PageFacts, NothingMoves DEF PagesSame, Inv, CacheInv, world
<1>. QED
  BY <1>1, <1>3, ElsewhereLast

\* Every step keeps the invariant.
LEMMA NextLast == Inv /\ Inv' /\ LastInv /\ [Next]_vars => LastInv'
<1>. SUFFICES ASSUME Inv, Inv', LastInv, [Next]_vars PROVE LastInv'
  OBVIOUS
<1>1. CASE Sync
  BY <1>1, BeginLast, ChooseLast, ReadMembersLast, ReadDetailLast, MembersReadLast,
     FillRolesLast, ListRolesLast, FinishLast DEF Sync
<1>2. CASE World
  BY <1>2, WorldLast
<1>3. CASE \E m \in Members : Prefetch(m)
  BY <1>3, PrefetchLast
<1>4. CASE \E url \in Urls : Expire(url)
  BY <1>4 DEF Expire, LastInv
<1>5. CASE UNCHANGED vars
  <2>1. UNCHANGED <<world, cache, at, todo, listed>> /\ Lasts
    BY <1>5 DEF vars, caches, history, Lasts
  <2>2. PagesSame /\ Moves
    BY <2>1, NothingMoves DEF PagesSame, Inv, world
  <2>. QED
    BY <2>1, <2>2, ElsewhereLast
<1>. QED
  BY <1>1, <1>2, <1>3, <1>4, <1>5 DEF Next

\* A role that exists from the beginning of a sync to its end is among the resources,
\* wherever other roles are created in the listing meanwhile, for every workspace and
\* page limit: the cursor of the pages passes over no role unless one is deleted.
THEOREM LastingListed == Spec => []LastingAreListed
<1>1. Init => LastInv
  BY DEF Init, LastInv
<1>2. Inv /\ Inv' /\ LastInv /\ [Next]_vars => LastInv'
  BY NextLast
<1>3. Inv /\ LastInv => LastingAreListed
  <2>. SUFFICES ASSUME LastInv, at.step = "choose", todo = {} PROVE lasting \subseteq listed
    BY DEF LastingAreListed
  <2>1. ~ Reading
    BY DEF Reading
  <2>2. lasting # {} => lasting \subseteq listed
    BY <2>1 DEF LastInv, Listed
  <2>. QED
    BY <2>2
<1>. QED
  BY <1>1, <1>2, <1>3, Invariance, PTL DEF Spec

-----------------------------------------------------------------------------
(* A sync that nothing disturbs *)

MemberRow(m) == [who |-> m, roles |-> assigned[m]]
FullRow(m) == [who |-> m, roles |-> assigned[m], detail |-> Served(DetailUrl(m))]
Waiting(b) == {x.who : x \in Left(b)}

\* A collaborator cache holds what the workspace says of each member that is not
\* waiting, and none of these is unreadable.
ReadSoFar(b) ==
  /\ Left(b) \subseteq {MemberRow(m) : m \in Members}
  /\ people[b] = {FullRow(m) : m \in Members \ Waiting(b)}
  /\ \A m \in Members \ Waiting(b) : Cardinality(Served(DetailUrl(m))) = 1

AllRoles == {custom[i] : i \in DOMAIN custom}
Before(p) == {custom[i] : i \in {i \in DOMAIN custom : i <= p * PageLimit}}
RolesDone == "role" \notin todo /\ ~ (Reading /\ at.builder = "role")

\* The role cache and the resources hold the pages up to the present one.
PagesSoFar ==
  /\ at.step = "fill" => known = Before(at.page)
  /\ at.step = "list" \/ RolesDone => known = AllRoles
  /\ NothingListed => listed = {}
  /\ at.step = "list" /\ at.page > 0 => listed = Named(Before(at.page)) \cup DOMAIN BaseRoles
  /\ RolesDone => listed = Names \cup DOMAIN BaseRoles

\* Nothing in the HTTP cache is outdated.
Fresh == \A u \in Urls : Hit(u) => Data(u) = Served(u)

PeopleRead == \A b \in Builders \ todo : ReadSoFar(b) \/ (at.builder = b /\ at.step = "members")

\* In a calm sync everything that was read is what the workspace says.
CalmNow == Fresh /\ PeopleRead /\ PagesSoFar
CalmInv ==
  /\ \A m \in Members : Legal(assigned[m])
  /\ calm /\ at.step # "idle" => CalmNow


\* What the workspace says stays while it does not change.
LEMMA WorldStays ==
  ASSUME UNCHANGED <<custom, assigned>>
  PROVE  /\ \A u : Served(u)' = Served(u)
         /\ \A m : MemberRow(m)' = MemberRow(m) /\ FullRow(m)' = FullRow(m)
         /\ AllRoles' = AllRoles /\ Names' = Names
         /\ \A p : Before(p)' = Before(p)
<1>1. \A name : ParamOf(name)' = ParamOf(name)
  BY DEF ParamOf
<1>2. \A n : RolesPage(n)' = RolesPage(n)
  BY DEF RolesPage
<1>3. ASSUME NEW u PROVE Served(u)' = Served(u)
  BY <1>1, <1>2 DEF Served
<1>4. \A m : MemberRow(m)' = MemberRow(m) /\ FullRow(m)' = FullRow(m)
  BY <1>3 DEF MemberRow, FullRow
<1>5. AllRoles' = AllRoles /\ Names' = Names /\ \A p : Before(p)' = Before(p)
  BY DEF AllRoles, Names, Before
<1>. QED
  BY <1>3, <1>4, <1>5

\* A page is the difference between the roles before it and those before the next;
\* one that is not full is the last.
LEMMA PageParts ==
  ASSUME WorldInv, NEW p \in Nat
  PROVE  /\ Before(p + 1) = Before(p) \cup RolesPage(p)
         /\ \A r \in Before(p) : r.name \notin Named(RolesPage(p))
         /\ Cardinality(RolesPage(p)) # PageLimit => Before(p + 1) = AllRoles
<1>1. /\ p * PageLimit \in Nat /\ (p + 1) * PageLimit = p * PageLimit + PageLimit /\ PageLimit \in Nat
      /\ (p + 1) * PageLimit \in Nat
  BY ListingAssumption
<1>2. \A i \in DOMAIN custom : i \in Nat /\ i <= Len(custom) /\ Len(custom) \in Nat
  BY DEF WorldInv
<1>3. \A i \in DOMAIN custom :
        i <= (p + 1) * PageLimit <=> i <= p * PageLimit \/ (p * PageLimit < i /\ i <= (p + 1) * PageLimit)
  BY <1>1, <1>2
<1>4. Before(p + 1) = Before(p) \cup RolesPage(p)
  BY <1>3 DEF Before, RolesPage
<1>5. ASSUME NEW r \in Before(p), r.name \in Named(RolesPage(p)) PROVE FALSE
  <2>1. PICK i \in DOMAIN custom : r = custom[i] /\ i <= p * PageLimit
    BY DEF Before
  <2>2. PICK j \in DOMAIN custom : r.name = custom[j].name /\ p * PageLimit < j
    BY <1>5 DEF Named, RolesPage
  <2>3. i = j
    BY <2>1, <2>2 DEF WorldInv, Distinct
  <2>. QED
    BY <1>1, <1>2, <2>1, <2>2, <2>3
<1>6. ASSUME Cardinality(RolesPage(p)) # PageLimit PROVE Before(p + 1) = AllRoles
  <2>1. \A i \in DOMAIN custom : i <= (p + 1) * PageLimit
    <3>1. ~ (p + 1) * PageLimit <= Len(custom)
      BY <1>6, RolesBehind
    <3>. QED
      BY <1>1, <1>2, <3>1
  <2>. QED
    BY <2>1 DEF Before, AllRoles
<1>. QED
  BY <1>4, <1>5, <1>6

\* No page is before the first.
LEMMA NoneBefore == WorldInv => Before(0) = {} /\ Named(AllRoles) = Names
<1>1. WorldInv => \A i \in DOMAIN custom : ~ i <= 0 * PageLimit
  BY ListingAssumption DEF WorldInv
<1>. QED
  BY <1>1 DEF Before, Named, AllRoles, Names

\* What a member's answer tells of the number of his roles.
LEMMA OneElement ==
  ASSUME NEW m \in Members, Legal(assigned[m]), AssignedInv
  PROVE  /\ Cardinality(Served(DetailUrl(m))) = 1 <=> Cardinality(assigned[m]) = 1
         /\ Cardinality(assigned[m]) = 1 => \E r : assigned[m] = {r}
<1>. DEFINE have == assigned[m]
            told == Served(DetailUrl(m))
            f == [r \in have |-> r.env]
            g == [r \in have |-> [env |-> r.env, privileges |-> ParamOf(r.name)]]
<1>1. \A r \in have : r.env \in Environments
  BY DEF AssignedInv
<1>2. told = {[env |-> r.env, privileges |-> ParamOf(r.name)] : r \in have}
  BY DEF Served, DetailUrl
<1>. HIDE DEF told
<1>3. IsFiniteSet(have)
  <2>1. f \in Injection(have, Environments)
    BY <1>1 DEF Injection, IsInjective, Legal
  <2>. HIDE DEF f, have
  <2>. QED
    BY <2>1, FS_Injection, ListingAssumption
<1>4. IsFiniteSet(told)
  <2>1. g \in [have -> told] /\ \A y \in told : \E r \in have : g[r] = y
    BY <1>2
  <2>2. g \in Surjection(have, told)
    <3>. HIDE DEF g, have
    <3>. QED
      BY <2>1 DEF Surjection
  <2>. HIDE DEF g, have
  <2>. QED
    BY <1>3, <2>2, FS_Surjection
<1>. HIDE DEF f, g
<1>5. (\E y : told = {y}) <=> (\E r : have = {r})
  <2>1. ASSUME NEW r, have = {r} PROVE \E y : told = {y}
    <3>. DEFINE y == [env |-> r.env, privileges |-> ParamOf(r.name)]
    <3>1. \A z : z \in told <=> \E q \in have : z = [env |-> q.env, privileges |-> ParamOf(q.name)]
      BY <1>2
    <3>2. \A q : q \in have <=> q = r
      BY <2>1
    <3>3. \A z : z \in told <=> z = y
      BY <3>1, <3>2
    <3>. HIDE DEF y
    <3>4. told = {y}
      BY <3>3
    <3>. QED
      BY <3>4
  <2>2. ASSUME NEW y, told = {y} PROVE \E r : have = {r}
    <3>1. PICK r \in have : TRUE
      BY <1>2, <2>2
    <3>2. \A s \in have : [env |-> s.env, privileges |-> ParamOf(s.name)] = y
      BY <1>2, <2>2
    <3>3. \A s \in have : s.env = r.env
      BY <3>1, <3>2
    <3>4. \A s \in have : s = r
      BY <3>1, <3>3 DEF Legal
    <3>. QED
      BY <3>1, <3>4
  <2>. QED
    BY <2>1, <2>2
<1>6. (Cardinality(have) = 1 <=> \E r : have = {r}) /\ (Cardinality(told) = 1 <=> \E y : told = {y})
  <2>. HIDE DEF have
  <2>. QED
    BY <1>3, <1>4, FS_Singleton
<1>. QED
  BY <1>5, <1>6 DEF told

-----------------------------------------------------------------------------
(* The steps of a sync that nothing disturbs *)

\* A calm sync goes on only with what the workspace says.
LEMMA CalmAnswer ==
  ASSUME CacheInv, calm => Fresh, NEW url \in Urls, NEW answer \in Answers(url), Get(url, answer), calm',
         UNCHANGED world
  PROVE  /\ calm /\ Fresh'
         /\ doRequest(answer.kind) = "nil" => answer.data = Served(url)
         /\ doRequest(answer.kind) = "error" => answer.kind = "none"
<1>1. calm /\ answer.kind \in {"ok", "none"} /\ Fresh
  BY DEF Get
<1>2. /\ doRequest(answer.kind) = "nil" <=> answer.kind = "ok"
      /\ doRequest(answer.kind) = "error" <=> answer.kind = "none"
  BY <1>1 DEF doRequest
<1>3. answer.kind = "ok" => answer.data = Served(url)
  BY <1>1 DEF Answers, Decoded, Fresh, Hit, Data
<1>4. \A u \in Urls : cache'[u] = cache[u] \/ (u = url /\ answer.kind = "ok" /\ cache'[u].data = answer.data)
  <2>1. cache' = cache \/ (answer.kind = "ok" /\
          cache' = [cache EXCEPT ![url] = [stored |-> TRUE, data |-> answer.data, since |-> syncs]])
    BY <1>1 DEF Get, Stored
  <2>. QED
    BY <2>1 DEF CacheInv
<1>5. \A u \in Urls : Served(u)' = Served(u)
  BY WorldStays DEF world
<1>6. Fresh'
  BY <1>1, <1>3, <1>4, <1>5 DEF Fresh, Hit, Data
<1>. QED
  BY <1>1, <1>2, <1>3, <1>6

\* A collaborator cache that is left alone stays right.
LEMMA RowsStay ==
  ASSUME UNCHANGED world, NEW b, ReadSoFar(b), people'[b] = people[b], Left(b)' = Left(b)
  PROVE  ReadSoFar(b)'
<1>1. \A m : /\ MemberRow(m)' = MemberRow(m) /\ FullRow(m)' = FullRow(m)
             /\ Served(DetailUrl(m))' = Served(DetailUrl(m))
  <2>1. UNCHANGED <<custom, assigned>>
    BY DEF world
  <2>. QED
    BY <2>1, WorldStays DEF DetailUrl
<1>2. Waiting(b)' = Waiting(b)
  BY DEF Waiting
<1>3. /\ {MemberRow(m)' : m \in Members} = {MemberRow(m) : m \in Members}
      /\ {FullRow(m)' : m \in Members \ Waiting(b)} = {FullRow(m) : m \in Members \ Waiting(b)}
  BY <1>1
<1>. QED
  BY <1>1, <1>2, <1>3 DEF ReadSoFar

\* While the workspace stays, the same holds of the pages.
LEMMA PagesCalm ==
  ASSUME UNCHANGED <<world, known, listed>>, PagesSoFar,
         at'.step \in {"fill", "list"} => at' = at,
         NothingListed' => NothingListed,
         RolesDone' => RolesDone
  PROVE  PagesSoFar'
<1>1. AllRoles' = AllRoles /\ Names' = Names /\ \A p : Before(p)' = Before(p)
  BY WorldStays DEF world
<1>2. \A p : Named(Before(p))' = Named(Before(p))
  BY <1>1 DEF Named
<1>. QED
  BY <1>1, <1>2 DEF PagesSoFar

\* What a step has to show.
LEMMA CalmStep ==
  ASSUME CalmInv, UNCHANGED assigned, calm' /\ at'.step # "idle" => CalmNow'
  PROVE  CalmInv'
BY DEF CalmInv, Legal

\* The request that fails in a calm sync is repeated.
LEMMA BrokenCalm ==
  ASSUME Inv, CalmInv, Reading, NEW url \in Urls, NEW answer \in Answers(url), Get(url, answer),
         doRequest(answer.kind) = "error", Broken(answer), UNCHANGED <<world, known, listed>>,
         \A b \in Builders \ {at.builder} : people'[b] = people[b],
         at.step = "list" => people' = people
  PROVE  CalmInv'
<1>1. at.step # "idle" /\ at.page \in Nat
  BY FS_CardinalityType, ListingAssumption DEF Reading, Inv, AtInv
<1>. SUFFICES ASSUME calm' PROVE CalmNow'
  BY CalmStep DEF world
<1>2. calm => Fresh
  BY <1>1 DEF CalmInv, CalmNow
<1>3. calm /\ Fresh' /\ answer.kind = "none"
  BY <1>2, CalmAnswer DEF Inv
<1>4. PeopleRead /\ PagesSoFar
  BY <1>1, <1>3 DEF CalmInv, CalmNow
<1>5. /\ todo' = todo
      /\ \/ at.step = "list" /\ at.page > 0 /\ at' = at
         \/ /\ ~ (at.step = "list" /\ at.page > 0)
            /\ at'.step = "members" /\ at'.builder = at.builder
  BY <1>3 DEF Broken, Goto
<1>6. PeopleRead'
  <2>. SUFFICES ASSUME NEW b \in Builders \ todo, ~ (at'.builder = b /\ at'.step = "members")
                PROVE  ReadSoFar(b)'
    BY <1>5 DEF PeopleRead
  <2>1. people'[b] = people[b] /\ Left(b)' = Left(b) /\ ~ (at.builder = b /\ at.step = "members")
    BY <1>5 DEF Left, Reading
  <2>. QED
    BY <1>4, <2>1, RowsStay DEF PeopleRead
<1>7. PagesSoFar'
  <2>1. NothingListed' => NothingListed
    BY <1>1, <1>5 DEF NothingListed, Reading
  <2>2. RolesDone' => RolesDone
    BY <1>5 DEF RolesDone, Reading
  <2>. QED
    BY <1>4, <1>5, <2>1, <2>2, PagesCalm
<1>. QED
  BY <1>3, <1>6, <1>7 DEF CalmNow

\* A sync that begins calm has nothing outdated in the HTTP cache.
LEMMA BeginCalm == ASSUME CalmInv, Begin PROVE CalmInv'
<1>1. /\ UNCHANGED <<world, cache>> /\ todo' = Builders /\ listed' = {}
      /\ at'.step = "choose" /\ at'.builder = "none" /\ (calm' => Fresh)
  BY DEF Begin, Goto, Fresh, Hit, Data
<1>. SUFFICES ASSUME calm' PROVE CalmNow'
  BY <1>1, CalmStep DEF world
<1>2. \A u \in Urls : Served(u)' = Served(u)
  BY <1>1, WorldStays DEF world
<1>3. Fresh'
  BY <1>1, <1>2 DEF Fresh, Hit, Data
<1>4. PeopleRead' /\ PagesSoFar'
  BY <1>1 DEF PeopleRead, PagesSoFar, RolesDone, Builders
<1>. QED
  BY <1>3, <1>4 DEF CalmNow

\* A step that asks for nothing and goes on leaves what was read.
LEMMA QuietCalm ==
  ASSUME CalmInv, UNCHANGED <<world, cache, people, calm>>, at.step # "idle",
         \A b \in Builders \ todo' : \/ /\ b \notin todo /\ Left(b)' = Left(b)
                                        /\ ~ (at.builder = b /\ at.step = "members")
                                     \/ at'.builder = b /\ at'.step = "members",
         PagesSoFar => PagesSoFar'
  PROVE  CalmInv'
<1>. SUFFICES ASSUME calm' PROVE CalmNow'
  BY CalmStep DEF world
<1>1. CalmNow
  BY DEF CalmInv
<1>2. \A u \in Urls : Served(u)' = Served(u)
  BY WorldStays DEF world
<1>3. Fresh'
  BY <1>1, <1>2 DEF CalmNow, Fresh, Hit, Data
<1>4. PeopleRead'
  <2>. SUFFICES ASSUME NEW b \in Builders \ todo', b \notin todo, Left(b)' = Left(b),
                       ~ (at.builder = b /\ at.step = "members")
                PROVE  ReadSoFar(b)'
    BY DEF PeopleRead
  <2>1. ReadSoFar(b)
    BY <1>1 DEF CalmNow, PeopleRead
  <2>. QED
    BY <2>1, RowsStay
<1>. QED
  BY <1>1, <1>3, <1>4 DEF CalmNow

\* The builder that is chosen starts with its members.
LEMMA ChooseCalm == ASSUME CalmInv, NEW b \in Builders, Choose(b) PROVE CalmInv'
<1>1. /\ at.step = "choose" /\ todo' = todo \ {b} /\ b \in todo /\ at'.step = "members" /\ at'.builder = b
      /\ UNCHANGED <<world, cache, people, known, listed, calm>>
  BY DEF Choose, Goto, caches, history
<1>2. PagesSoFar => PagesSoFar'
  <2>1. NothingListed' => NothingListed
    BY <1>1 DEF NothingListed
  <2>2. RolesDone' => RolesDone
    BY <1>1 DEF RolesDone, Reading
  <2>. QED
    BY <1>1, <2>1, <2>2, PagesCalm
<1>. QED
  BY <1>1, <1>2, QuietCalm DEF Left

\* When the members are read, the role builder goes on with an empty role cache.
LEMMA MembersReadCalm == ASSUME Inv, CalmInv, MembersRead PROVE CalmInv'
<1>1. /\ at.step = "detail" /\ at.left = {} /\ at.builder \notin todo
      /\ UNCHANGED <<world, cache, people, listed, todo, calm>>
      /\ \/ at.builder = "privilege" /\ at'.step = "choose" /\ known' = known
         \/ /\ at.builder = "role" /\ known' = {}
            /\ at'.step = "fill" /\ at'.builder = "role" /\ at'.page = 0
  BY DEF MembersRead, Goto, history, Inv, AtInv, Reading
<1>2. \A b : Left(b) = {} /\ Left(b)' = {}
  BY <1>1 DEF Left
<1>3. PagesSoFar => PagesSoFar'
  <2>1. CASE at.builder = "privilege"
    <3>1. NothingListed' => NothingListed
      BY <1>1, <2>1 DEF NothingListed
    <3>2. RolesDone' => RolesDone
      BY <1>1, <2>1 DEF RolesDone, Reading
    <3>. QED
      BY <1>1, <2>1, <3>1, <3>2, PagesCalm
  <2>2. CASE at.builder = "role"
    <3>1. Before(0)' = {} /\ NothingListed
      <4>1. Before(0)' = Before(0)
        BY <1>1, WorldStays DEF world
      <4>. QED
        BY <1>1, <2>2, <4>1, NoneBefore DEF Inv, NothingListed
    <3>2. ~ RolesDone'
      BY <1>1, <2>2 DEF RolesDone, Reading
    <3>. QED
      BY <1>1, <2>2, <3>1, <3>2 DEF PagesSoFar
  <2>. QED
    BY <1>1, <2>1, <2>2
<1>. QED
  BY <1>1, <1>2, <1>3, QuietCalm

\* A request that is answered.
LEMMA AnswerCalm ==
  ASSUME Inv, CalmInv, at.step # "idle", NEW url \in Urls, NEW answer \in Answers(url), Get(url, answer),
         doRequest(answer.kind) = "nil", UNCHANGED <<world, todo>>,
         NEW b \in Builders, b = at.builder,
         \A c \in Builders \ {b} : people'[c] = people[c] /\ Left(c)' = Left(c),
         CalmNow /\ answer.data = Served(url) => ReadSoFar(b)' /\ PagesSoFar'
  PROVE  CalmInv'
<1>. SUFFICES ASSUME calm' PROVE CalmNow'
  BY CalmStep DEF world
<1>1. calm => Fresh
  BY DEF CalmInv, CalmNow
<1>2. calm /\ Fresh' /\ answer.data = Served(url)
  BY <1>1, CalmAnswer DEF Inv
<1>3. CalmNow
  BY <1>2 DEF CalmInv
<1>4. ASSUME NEW c \in Builders \ todo PROVE ReadSoFar(c)' \/ c = b
  <2>1. c # b => ReadSoFar(c)
    BY <1>3 DEF CalmNow, PeopleRead
  <2>. QED
    BY <2>1, RowsStay
<1>. QED
  BY <1>2, <1>3, <1>4 DEF CalmNow, PeopleRead

\* The members that are read are all members with their roles.
LEMMA ReadMembersCalm == ASSUME Inv, CalmInv, ReadMembers PROVE CalmInv'
<1>1. PICK answer \in Answers(MembersUrl) :
        /\ Get(MembersUrl, answer)
        /\ \/ doRequest(answer.kind) = "error" /\ Broken(answer)
           \/ doRequest(answer.kind) = "nil" /\ Goto("detail", at.builder, answer.data, 0) /\ todo' = todo
  BY DEF ReadMembers, MembersUrl
<1>2. /\ at.step = "members" /\ Reading /\ UNCHANGED <<world, known, listed>>
      /\ people' = [people EXCEPT ![at.builder] = {}] /\ at.builder \in Builders \ todo
      /\ people = [b \in Builders |-> people[b]]
  BY DEF ReadMembers, Reading, Inv, AtInv
<1>3. CASE doRequest(answer.kind) = "error" /\ Broken(answer)
  BY <1>1, <1>2, <1>3, BrokenCalm, UrlFacts
<1>4. CASE doRequest(answer.kind) = "nil" /\ Goto("detail", at.builder, answer.data, 0) /\ todo' = todo
  <2>. PICK b \in Builders : b = at.builder
    BY <1>2
  <2>1. at'.step = "detail" /\ at'.builder = b /\ at'.left = answer.data
    BY <1>4 DEF Goto
  <2>2. people'[b] = {} /\ \A c \in Builders \ {b} : people'[c] = people[c]
    BY <1>2
  <2>3. Left(b)' = answer.data /\ \A c \in Builders \ {b} : Left(c)' = Left(c)
    BY <1>2, <2>1 DEF Left
  <2>4. ASSUME answer.data = Served(MembersUrl) PROVE ReadSoFar(b)'
    <3>1. Left(b)' = {MemberRow(m)' : m \in Members}
      <4>1. \A m : MemberRow(m)' = [who |-> m, roles |-> assigned[m]]
        BY <1>2 DEF MemberRow, world
      <4>. QED
        BY <2>3, <2>4, <4>1 DEF Served, MembersUrl
    <3>2. Members \ Waiting(b)' = {}
      <4>1. \A n \in Members : MemberRow(n)' \in Left(b)' /\ MemberRow(n)'.who = n
        BY <3>1 DEF MemberRow
      <4>. QED
        BY <4>1 DEF Waiting
    <3>. QED
      BY <2>2, <3>1, <3>2 DEF ReadSoFar
  <2>5. PagesSoFar => PagesSoFar'
    <3>1. (NothingListed' => NothingListed) /\ (RolesDone' => RolesDone)
      BY <1>2, <1>4, <2>1 DEF NothingListed, RolesDone, Reading
    <3>. QED
      BY <1>2, <2>1, <3>1, PagesCalm
  <2>. QED
    BY <1>1, <1>2, <1>4, <2>2, <2>3, <2>4, <2>5, UrlFacts, AnswerCalm DEF CalmNow
<1>. QED
  BY <1>1, <1>3, <1>4

\* A member that has been read waits no longer.
LEMMA ReadDetailCalm == ASSUME Inv, CalmInv, ReadDetail PROVE CalmInv'
<1>1. /\ at.step = "detail" /\ Reading /\ UNCHANGED <<world, known, listed>>
      /\ at.builder \in Builders \ todo /\ people = [b \in Builders |-> people[b]]
  BY DEF ReadDetail, Reading, Inv, AtInv
<1>2. PICK x \in at.left : \E answer \in Answers(DetailUrl(x.who)) :
         /\ Get(DetailUrl(x.who), answer)
         /\ \/ doRequest(answer.kind) = "error" /\ Broken(answer) /\ UNCHANGED people
            \/ End("unreadable member", {})
            \/ /\ doRequest(answer.kind) = "nil" /\ Cardinality(answer.data) = 1
               /\ people' = [people EXCEPT ![at.builder] =
                               @ \cup {[who |-> x.who, roles |-> x.roles, detail |-> answer.data]}]
               /\ Goto("detail", at.builder, at.left \ {x}, 0)
               /\ todo' = todo
  BY DEF ReadDetail, DetailUrl
<1>. DEFINE url == DetailUrl(x.who)
<1>3. PICK answer \in Answers(url) :
         /\ Get(url, answer)
         /\ \/ doRequest(answer.kind) = "error" /\ Broken(answer) /\ UNCHANGED people
            \/ End("unreadable member", {})
            \/ /\ doRequest(answer.kind) = "nil" /\ Cardinality(answer.data) = 1
               /\ people' = [people EXCEPT ![at.builder] =
                               @ \cup {[who |-> x.who, roles |-> x.roles, detail |-> answer.data]}]
               /\ Goto("detail", at.builder, at.left \ {x}, 0)
               /\ todo' = todo
  BY <1>2
<1>4. url \in Urls
  BY <1>1, UrlFacts DEF Inv, AtInv
<1>5. CASE doRequest(answer.kind) = "error" /\ Broken(answer) /\ UNCHANGED people
  BY <1>1, <1>3, <1>4, <1>5, BrokenCalm
<1>6. CASE End("unreadable member", {})
  <2>1. at'.step = "idle"
    BY <1>6 DEF End, Idle
  <2>. QED
    BY <1>1, <2>1, CalmStep DEF world
<1>7. CASE /\ doRequest(answer.kind) = "nil" /\ Cardinality(answer.data) = 1
           /\ people' = [people EXCEPT ![at.builder] =
                           @ \cup {[who |-> x.who, roles |-> x.roles, detail |-> answer.data]}]
           /\ Goto("detail", at.builder, at.left \ {x}, 0)
           /\ todo' = todo
  <2>. PICK b \in Builders : b = at.builder
    BY <1>1
  <2>1. at'.step = "detail" /\ at'.builder = b /\ at'.left = at.left \ {x}
    BY <1>7 DEF Goto
  <2>2. /\ people'[b] = people[b] \cup {[who |-> x.who, roles |-> x.roles, detail |-> answer.data]}
        /\ \A c \in Builders \ {b} : people'[c] = people[c]
    BY <1>1, <1>7
  <2>3. /\ Left(b) = at.left /\ Left(b)' = at.left \ {x}
        /\ \A c \in Builders \ {b} : Left(c)' = Left(c)
    BY <1>1, <2>1 DEF Left
  <2>4. ASSUME CalmNow, answer.data = Served(url) PROVE ReadSoFar(b)'
    <3>. DEFINE m == x.who
    <3>1. ReadSoFar(b)
      BY <1>1, <2>4 DEF CalmNow, PeopleRead
    <3>2. x = MemberRow(m) /\ m \in Members
      BY <2>3, <3>1 DEF ReadSoFar, MemberRow
    <3>3. \A y \in at.left : y.who = m => y = x
      BY <2>3, <3>1, <3>2 DEF ReadSoFar, MemberRow
    <3>4. Waiting(b)' = Waiting(b) \ {m}
      BY <2>3, <3>3 DEF Waiting
    <3>5. m \in Waiting(b)
      BY <2>3 DEF Waiting
    <3>6. \A n : /\ MemberRow(n)' = MemberRow(n) /\ FullRow(n)' = FullRow(n)
                 /\ Served(DetailUrl(n))' = Served(DetailUrl(n))
      <4>1. UNCHANGED <<custom, assigned>>
        BY <1>1 DEF world
      <4>. QED
        BY <4>1, WorldStays DEF DetailUrl
    <3>7. [who |-> x.who, roles |-> x.roles, detail |-> answer.data] = FullRow(m)
      BY <2>4, <3>2 DEF FullRow, MemberRow
    <3>8. Members \ Waiting(b)' = (Members \ Waiting(b)) \cup {m}
      BY <3>2, <3>4, <3>5
    <3>9. people'[b] = {FullRow(n)' : n \in Members \ Waiting(b)'}
      <4>1. people'[b] = {FullRow(n) : n \in Members \ Waiting(b)} \cup {FullRow(m)}
        BY <2>2, <3>1, <3>7 DEF ReadSoFar
      <4>2. people'[b] = {FullRow(n) : n \in (Members \ Waiting(b)) \cup {m}}
        BY <4>1
      <4>. QED
        BY <3>6, <3>8, <4>2
    <3>10. Left(b)' \subseteq {MemberRow(n)' : n \in Members}
      BY <2>3, <3>1, <3>6 DEF ReadSoFar
    <3>11. \A n \in Members \ Waiting(b)' : Cardinality(Served(DetailUrl(n))') = 1
      BY <1>7, <2>4, <3>1, <3>6, <3>8 DEF ReadSoFar
    <3>. QED
      BY <2>1, <3>9, <3>10, <3>11 DEF ReadSoFar
  <2>5. PagesSoFar => PagesSoFar'
    <3>1. (NothingListed' => NothingListed) /\ (RolesDone' => RolesDone)
      BY <1>1, <1>7, <2>1 DEF NothingListed, RolesDone, Reading
    <3>. QED
      BY <1>1, <2>1, <3>1, PagesCalm
  <2>. QED
    <3>1. CalmNow /\ answer.data = Served(url) => ReadSoFar(b)' /\ PagesSoFar'
      BY <2>4, <2>5 DEF CalmNow
    <3>2. at.step # "idle" /\ UNCHANGED <<world, todo>>
      BY <1>1, <1>7
    <3>. HIDE DEF url
    <3>. QED
      BY <1>3, <1>4, <1>7, <2>2, <2>3, <3>1, <3>2, AnswerCalm
<1>. QED
  BY <1>3, <1>5, <1>6, <1>7

\* The next page completes what the pages before it hold.
LEMMA FillRolesCalm == ASSUME Inv, CalmInv, FillRoles PROVE CalmInv'
<1>1. /\ at.step = "fill" /\ Reading /\ at.builder = "role" /\ "role" \notin todo
      /\ UNCHANGED <<world, people, listed>> /\ at.page \in 0 .. Cardinality(CustomRoles)
  BY DEF FillRoles, Reading, Inv, AtInv
<1>2. PICK p \in 0 .. Cardinality(CustomRoles) : p = at.page
  BY <1>1
<1>. DEFINE url == PageUrl(p)
<1>3. PICK answer \in Answers(url) :
        /\ Get(url, answer)
        /\ \/ doRequest(answer.kind) = "error" /\ Broken(answer) /\ UNCHANGED known
           \/ /\ doRequest(answer.kind) = "nil" /\ todo' = todo
              /\ known' = {r \in known : r.name \notin Named(answer.data)} \cup answer.data
              /\ IF Cardinality(answer.data) = PageLimit
                 THEN Goto("fill", "role", {}, p + 1) ELSE Goto("list", "role", {}, 0)
  BY <1>1, <1>2 DEF FillRoles, PageUrl
<1>4. url \in Urls /\ p \in Nat /\ Served(url) = RolesPage(p)
  BY UrlFacts, FS_CardinalityType, ListingAssumption DEF Served
<1>5. CASE doRequest(answer.kind) = "error" /\ Broken(answer) /\ UNCHANGED known
  <2>. HIDE DEF url
  <2>. QED
    BY <1>1, <1>3, <1>4, <1>5, BrokenCalm
<1>6. CASE /\ doRequest(answer.kind) = "nil" /\ todo' = todo
           /\ known' = {r \in known : r.name \notin Named(answer.data)} \cup answer.data
           /\ IF Cardinality(answer.data) = PageLimit
              THEN Goto("fill", "role", {}, p + 1) ELSE Goto("list", "role", {}, 0)
  <2>1. /\ at'.builder = "role"
        /\ \/ Cardinality(answer.data) = PageLimit /\ at'.step = "fill" /\ at'.page = p + 1
           \/ Cardinality(answer.data) # PageLimit /\ at'.step = "list" /\ at'.page = 0
    BY <1>6 DEF Goto
  <2>2. \A b : Left(b) = {} /\ Left(b)' = {}
    BY <1>1, <2>1 DEF Left
  <2>3. ASSUME CalmNow, answer.data = Served(url) PROVE ReadSoFar("role")' /\ PagesSoFar'
    <3>1. ReadSoFar("role")'
      <4>1. ReadSoFar("role")
        BY <1>1, <2>3 DEF CalmNow, PeopleRead, Builders
      <4>. QED
        BY <1>1, <2>2, <4>1, RowsStay
    <3>2. /\ \A q : Before(q)' = Before(q)
          /\ AllRoles' = AllRoles
      BY <1>1, WorldStays DEF world
    <3>3. /\ Before(p + 1) = Before(p) \cup RolesPage(p)
          /\ \A r \in Before(p) : r.name \notin Named(RolesPage(p))
          /\ Cardinality(RolesPage(p)) # PageLimit => Before(p + 1) = AllRoles
      BY <1>4, PageParts DEF Inv
    <3>4. known = Before(p)
      BY <1>1, <1>2, <2>3 DEF CalmNow, PagesSoFar
    <3>5. known' = Before(p + 1)
      BY <1>4, <1>6, <2>3, <3>3, <3>4
    <3>6. ~ RolesDone' /\ listed' = {}
      <4>1. NothingListed
        BY <1>1 DEF NothingListed
      <4>2. ~ RolesDone'
        BY <2>1 DEF RolesDone, Reading
      <4>. QED
        BY <1>1, <2>3, <4>1, <4>2 DEF CalmNow, PagesSoFar
    <3>7. /\ at'.step = "fill" => known' = Before(at.page)'
          /\ at'.step = "list" => known' = AllRoles' /\ ~ at'.page > 0
      BY <1>4, <2>1, <2>3, <3>2, <3>3, <3>5
    <3>. QED
      BY <3>1, <3>6, <3>7 DEF PagesSoFar
  <2>. HIDE DEF url
  <2>. QED
    BY <1>1, <1>3, <1>4, <1>6, <2>2, <2>3, AnswerCalm DEF Builders
<1>. QED
  BY <1>3, <1>5, <1>6

\* The pages are listed as they were when the role cache was filled.
LEMMA ListRolesCalm == ASSUME Inv, CalmInv, ListRoles PROVE CalmInv'
<1>1. /\ at.step = "list" /\ Reading /\ at.builder = "role" /\ "role" \notin todo
      /\ UNCHANGED <<world, people, known>> /\ at.page \in 0 .. Cardinality(CustomRoles)
  BY DEF ListRoles, Reading, Inv, AtInv
<1>2. PICK p \in 0 .. Cardinality(CustomRoles) : p = at.page
  BY <1>1
<1>. DEFINE url == PageUrl(p)
<1>3. PICK answer \in Answers(url) :
        /\ Get(url, answer)
        /\ \/ doRequest(answer.kind) = "error" /\ Broken(answer) /\ UNCHANGED listed
           \/ /\ doRequest(answer.kind) = "nil" /\ todo' = todo
              /\ listed' = listed \cup Named(answer.data) \cup DOMAIN BaseRoles
              /\ IF Cardinality(answer.data) = PageLimit
                 THEN Goto("list", "role", {}, p + 1) ELSE Goto("choose", "none", {}, 0)
  BY <1>1, <1>2 DEF ListRoles, PageUrl
<1>4. url \in Urls /\ p \in Nat /\ Served(url) = RolesPage(p)
  BY UrlFacts, FS_CardinalityType, ListingAssumption DEF Served
<1>5. CASE doRequest(answer.kind) = "error" /\ Broken(answer) /\ UNCHANGED listed
  <2>. HIDE DEF url
  <2>. QED
    BY <1>1, <1>3, <1>4, <1>5, BrokenCalm
<1>6. CASE /\ doRequest(answer.kind) = "nil" /\ todo' = todo
           /\ listed' = listed \cup Named(answer.data) \cup DOMAIN BaseRoles
           /\ IF Cardinality(answer.data) = PageLimit
              THEN Goto("list", "role", {}, p + 1) ELSE Goto("choose", "none", {}, 0)
  <2>1. \/ Cardinality(answer.data) = PageLimit /\ at'.step = "list" /\ at'.builder = "role" /\ at'.page = p + 1
        \/ Cardinality(answer.data) # PageLimit /\ at'.step = "choose" /\ at'.page = 0 /\ at'.builder = "none"
    BY <1>6 DEF Goto
  <2>2. \A b : Left(b) = {} /\ Left(b)' = {}
    BY <1>1, <2>1 DEF Left
  <2>3. ASSUME CalmNow, answer.data = Served(url) PROVE ReadSoFar("role")' /\ PagesSoFar'
    <3>1. ReadSoFar("role")'
      <4>1. ReadSoFar("role")
        BY <1>1, <2>3 DEF CalmNow, PeopleRead, Builders
      <4>. QED
        BY <1>1, <2>2, <4>1, RowsStay
    <3>2. /\ \A q : Before(q)' = Before(q)
          /\ AllRoles' = AllRoles /\ Names' = Names
      BY <1>1, WorldStays DEF world
    <3>3. /\ Before(p + 1) = Before(p) \cup RolesPage(p)
          /\ Cardinality(RolesPage(p)) # PageLimit => Before(p + 1) = AllRoles
      BY <1>4, PageParts DEF Inv
    <3>4. Named(Before(p + 1)) = Named(Before(p)) \cup Named(RolesPage(p))
      BY <3>3 DEF Named
    <3>5. known = AllRoles /\ listed \cup DOMAIN BaseRoles = Named(Before(p)) \cup DOMAIN BaseRoles
      <4>1. CASE p = 0
        <5>1. listed = {} /\ Named(Before(p)) = {}
          BY <1>1, <1>2, <2>3, <4>1, NoneBefore DEF CalmNow, PagesSoFar, NothingListed, Named, Inv
        <5>. QED
          BY <1>1, <2>3, <5>1 DEF CalmNow, PagesSoFar
      <4>2. CASE p > 0
        BY <1>1, <1>2, <2>3, <4>2 DEF CalmNow, PagesSoFar
      <4>. QED
        BY <1>4, <4>1, <4>2
    <3>6. listed' = Named(Before(p + 1)) \cup DOMAIN BaseRoles
      BY <1>4, <1>6, <2>3, <3>4, <3>5
    <3>7. ~ NothingListed' /\ known' = AllRoles'
      <4>1. p + 1 # 0
        BY <1>4
      <4>. QED
        BY <1>1, <1>6, <2>1, <3>2, <3>5, <4>1 DEF NothingListed
    <3>8. Named(Before(p + 1))' = Named(Before(p + 1))
      BY <3>2 DEF Named
    <3>9. at'.step = "list" => listed' = Named(Before(at.page))' \cup DOMAIN BaseRoles
      BY <2>1, <3>2, <3>6 DEF Named
    <3>10. RolesDone' => listed' = Names' \cup DOMAIN BaseRoles
      <4>1. RolesDone' => at'.step = "choose"
        BY <2>1 DEF RolesDone, Reading
      <4>2. at'.step = "choose" => Named(Before(p + 1)) = Names
        BY <1>4, <2>1, <2>3, <3>3, NoneBefore DEF Inv
      <4>. QED
        BY <3>2, <3>6, <4>1, <4>2
    <3>11. at'.step # "fill"
      BY <2>1
    <3>. QED
      BY <3>1, <3>7, <3>9, <3>10, <3>11 DEF PagesSoFar
  <2>. HIDE DEF url
  <2>. QED
    BY <1>1, <1>3, <1>4, <1>6, <2>2, <2>3, AnswerCalm DEF Builders
<1>. QED
  BY <1>3, <1>5, <1>6

\* After the last step the sync is over.
LEMMA FinishCalm == ASSUME CalmInv, Finish PROVE CalmInv'
<1>1. at' = Idle /\ UNCHANGED world
  BY DEF Finish, End
<1>2. at'.step = "idle"
  BY <1>1 DEF Idle
<1>. QED
  BY <1>1, <1>2, CalmStep DEF world

\* A change ends the calm, and leaves each member one role for an environment.
LEMMA WorldCalm == ASSUME AssignedInv, CalmInv, World PROVE CalmInv'
<1>1. ~ calm'
  BY DEF World, CreateRole, DeleteRole, Assign, Change
<1>2. \A m \in Members : Legal(assigned'[m])
  <2>1. CASE UNCHANGED assigned
    BY <2>1 DEF CalmInv
  <2>2. CASE \E m \in Members, roles \in RoleLists : Assign(m, roles)
    <3>1. PICK m \in Members, roles \in RoleLists : assigned' = [assigned EXCEPT ![m] = roles]
      BY <2>2 DEF Assign
    <3>2. \A n \in Members : assigned'[n] = assigned[n] \/ assigned'[n] = roles
      BY <3>1 DEF AssignedInv
    <3>3. Legal(roles)
      BY DEF RoleLists
    <3>. QED
      BY <3>2, <3>3 DEF CalmInv, Legal
  <2>. QED
    BY <2>1, <2>2 DEF World, CreateRole, DeleteRole
<1>. QED
  BY <1>1, <1>2 DEF CalmInv, Legal

\* What the grant tasks and the cache do meanwhile.
LEMMA ElsewhereCalm ==
  ASSUME CalmInv, UNCHANGED <<world, caches, at, todo, calm>>, Fresh => Fresh'
  PROVE  CalmInv'
<1>. SUFFICES ASSUME calm', at'.step # "idle" PROVE CalmNow'
  BY CalmStep DEF world
<1>1. CalmNow
  BY DEF CalmInv
<1>2. PeopleRead'
  BY <1>1, RowsStay DEF CalmNow, PeopleRead, Left, caches
<1>3. PagesSoFar'
  BY <1>1, PagesCalm DEF CalmNow, caches, NothingListed, RolesDone, Reading
<1>. QED
  BY <1>1, <1>2, <1>3 DEF CalmNow

\* An entry that comes is what the workspace says.
LEMMA EntryFresh ==
  ASSUME CacheInv, NEW url \in Urls, NEW entry, cache' = [cache EXCEPT ![url] = entry],
         entry.stored => entry.data = Served(url), UNCHANGED world, Fresh
  PROVE  Fresh'
<1>1. \A u \in Urls : Served(u)' = Served(u)
  BY WorldStays DEF world
<1>2. \A u \in Urls : cache'[u] = cache[u] \/ (u = url /\ cache'[u] = entry)
  BY DEF CacheInv
<1>. QED
  BY <1>1, <1>2 DEF Fresh, Hit, Data

\* Every step keeps the invariant.
LEMMA NextCalm == Inv /\ AssignedInv /\ CalmInv /\ [Next]_vars => CalmInv'
<1>. SUFFICES ASSUME Inv, AssignedInv, CalmInv, [Next]_vars PROVE CalmInv'
  OBVIOUS
<1>1. CASE Sync
  BY <1>1, BeginCalm, ChooseCalm, ReadMembersCalm, ReadDetailCalm, MembersReadCalm,
     FillRolesCalm, ListRolesCalm, FinishCalm DEF Sync
<1>2. CASE World
  BY <1>2, WorldCalm
<1>3. ASSUME NEW m \in Members, Prefetch(m) PROVE CalmInv'
  <2>. DEFINE entry == [stored |-> TRUE, data |-> Served(DetailUrl(m)), since |-> syncs]
  <2>1. /\ cache' = [cache EXCEPT ![DetailUrl(m)] = entry]
        /\ entry.data = Served(DetailUrl(m)) /\ DetailUrl(m) \in Urls
        /\ UNCHANGED <<world, caches, at, todo, calm>>
    BY <1>3, UrlFacts DEF Prefetch, DetailUrl, history
  <2>. HIDE DEF entry
  <2>. QED
    BY <2>1, EntryFresh, ElsewhereCalm DEF Inv
<1>4. ASSUME NEW url \in Urls, Expire(url) PROVE CalmInv'
  <2>1. /\ cache' = [cache EXCEPT ![url] = NoEntry] /\ ~ NoEntry.stored
        /\ UNCHANGED <<world, caches, at, todo, calm>>
    BY <1>4 DEF Expire, NoEntry
  <2>. QED
    BY <2>1, EntryFresh, ElsewhereCalm DEF Inv
<1>5. CASE UNCHANGED vars
  <2>1. UNCHANGED <<world, cache, caches, at, todo, calm>>
    BY <1>5 DEF vars, history
  <2>2. Fresh => Fresh'
    BY <2>1, WorldStays DEF Fresh, Hit, Data, world
  <2>. QED
    BY <2>1, <2>2, ElsewhereCalm
<1>. QED
  BY <1>1, <1>2, <1>3, <1>4, <1>5 DEF Next

-----------------------------------------------------------------------------
(* The end of a calm sync *)

\* What CalmSyncIsExact asks of the step that ends a sync.
Exact ==
  IF Unreadable THEN outcome' = "unreadable member"
  ELSE IF \E i \in DOMAIN custom : Misnamed(custom[i].privileges)
       THEN outcome' = "unknown privilege"
  ELSE outcome' = "done" /\ store' = Expected

\* What a sync has read in the end when nothing disturbed it and no member is
\* unreadable.
AllRead ==
  /\ \A b \in Builders : people[b] = {FullRow(m) : m \in Members}
  /\ \A m \in Members : \E r : assigned[m] = {r}
  /\ known = AllRoles
  /\ listed = Names \cup DOMAIN BaseRoles

\* The members of a role are those who have it in the environment of the process:
\* with one role each, no grant speaks of another environment.
LEMMA HoldersGranted ==
  ASSUME WorldInv, AssignedInv, AllRead
  PROVE  UNION {MemberGrants(name) : name \in listed} = HoldersExpected
<1>1. \A x : x \in people["role"] <=> \E m \in Members : x = FullRow(m)
  BY DEF AllRead, Builders
<1>2. ASSUME NEW name \in listed, NEW g \in MemberGrants(name) PROVE g \in HoldersExpected
  <2>1. PICK x \in UsersByRole(name) :
          \E s \in x.roles : s.name = name /\ g = Grant(name, "collaborator-has", x.who, s.env)
    BY <1>2 DEF MemberGrants
  <2>2. PICK s \in x.roles : s.name = name /\ g = Grant(name, "collaborator-has", x.who, s.env)
    BY <2>1
  <2>3. x \in people["role"] /\ \E r \in x.roles : r.name = name /\ r.env = Env
    BY DEF UsersByRole
  <2>4. PICK m \in Members : x = FullRow(m)
    BY <1>1, <2>3
  <2>5. x.who = m /\ x.roles = assigned[m]
    BY <2>4 DEF FullRow
  <2>6. s \in assigned[m] /\ s.env = Env
    BY <2>2, <2>3, <2>5 DEF AllRead
  <2>. QED
    BY <2>2, <2>5, <2>6 DEF HoldersExpected
<1>3. ASSUME NEW g \in HoldersExpected PROVE \E name \in listed : g \in MemberGrants(name)
  <2>1. PICK m \in Members : \E r \in assigned[m] : r.env = Env /\ g = Grant(r.name, "collaborator-has", m, Env)
    BY <1>3 DEF HoldersExpected
  <2>2. PICK r \in assigned[m] : r.env = Env /\ g = Grant(r.name, "collaborator-has", m, Env)
    BY <2>1
  <2>3. r.name \in listed
    <3>1. r.name \in Names \cup GivenRoles
      BY DEF AssignedInv
    <3>. QED
      BY <3>1, ListingAssumption DEF AllRead
  <2>4. FullRow(m) \in UsersByRole(r.name) /\ FullRow(m).roles = assigned[m] /\ FullRow(m).who = m
    BY <1>1, <2>2 DEF UsersByRole, FullRow
  <2>5. g \in MemberGrants(r.name)
    <3>. DEFINE x == FullRow(m)
                q == r.name
    <3>1. /\ x \in UsersByRole(q) /\ r \in {s \in x.roles : s.name = q}
          /\ g = Grant(q, "collaborator-has", x.who, r.env)
      BY <2>2, <2>4
    <3>. HIDE DEF x, q
    <3>. QED
      BY <3>1 DEF MemberGrants
  <2>. QED
    BY <2>3, <2>5
<1>. QED
  BY <1>2, <1>3

\* The lookup of a custom role finds the role of that name.
LEMMA CachedIs ==
  ASSUME WorldInv, known = AllRoles, NEW i \in DOMAIN custom
  PROVE  Cached(custom[i].name) = custom[i]
<1>1. \E r \in known : r.name = custom[i].name
  BY DEF AllRoles
<1>2. \A r \in known : r.name = custom[i].name => r = custom[i]
  BY DEF AllRoles, WorldInv, Distinct
<1>. QED
  BY <1>1, <1>2 DEF Cached

\* So does the one in the workspace.
LEMMA ParamIs ==
  ASSUME WorldInv, NEW i \in DOMAIN custom
  PROVE  ParamOf(custom[i].name) = custom[i].privileges
<1>. DEFINE name == custom[i].name
            all == {custom[k] : k \in DOMAIN custom}
            r == CHOOSE r \in all : r.name = name
<1>1. name \notin {"Admin", "Analyst", "Operator"}
  <2>1. name \in CustomRoles
    BY NamesTyped DEF Names
  <2>. QED
    BY <2>1, BaseNames, ListingAssumption
<1>2. ParamOf(name) = r.privileges
  BY <1>1 DEF ParamOf
<1>3. \A q \in all : q.name = name => q = custom[i]
  BY DEF WorldInv, Distinct
<1>4. r = custom[i]
  <2>1. custom[i] \in all /\ custom[i].name = name
    OBVIOUS
  <2>. HIDE DEF all, name
  <2>. QED
    BY <1>3, <2>1
<1>. QED
  BY <1>2, <1>4

\* The search succeeds exactly when all privileges have a place in the table, and
\* then it finds them all.
LEMMA SearchFinds ==
  ASSUME NEW param \in Params
  PROVE  /\ FindRelatedPrivilegesErr(param).found <=> ~ Misnamed(param)
         /\ ~ Misnamed(param) =>
              FindRelatedPrivilegesErr(param).list = {At(param, place) : place \in Places(param)}
<1>1. Matches(param) \subseteq Places(param) /\ (Matches(param) = Places(param) <=> ~ Misnamed(param))
  BY DEF Matches, Misnamed
<1>2. Cardinality(Matches(param)) = Cardinality(Places(param)) <=> Matches(param) = Places(param)
  BY <1>1, FS_Subset, ListingAssumption
<1>3. FindRelatedPrivilegesErr(param).found <=> Cardinality(Matches(param)) = Cardinality(Places(param))
  BY DEF FindRelatedPrivilegesErr
<1>4. ASSUME ~ Misnamed(param)
      PROVE  FindRelatedPrivilegesErr(param).list = {At(param, place) : place \in Places(param)}
  <2>1. FindRelatedPrivilegesErr(param).list = FindRelatedPrivileges(param)
    BY <1>1, <1>2, <1>4 DEF FindRelatedPrivilegesErr
  <2>. QED
    BY <1>1, <1>4, <2>1 DEF FindRelatedPrivileges
<1>. QED
  BY <1>1, <1>2, <1>3, <1>4

\* Custom roles get the privileges they name, base roles those of the tables.
LEMMA PrivilegesGranted ==
  ASSUME WorldInv, AllRead, \A i \in DOMAIN custom : ~ Misnamed(custom[i].privileges)
  PROVE  UNION {{Grant(name, "role-has-privilege", Id(p), "any") : p \in Lookup(name).list} : name \in listed} =
           CustomExpected \cup BaseExpected
<1>. DEFINE Granted(name) == {Grant(name, "role-has-privilege", Id(p), "any") : p \in Lookup(name).list}
            Wanted(i) == {Grant(custom[i].name, "role-has-privilege", Id(At(custom[i].privileges, place)), "any") :
                            place \in Places(custom[i].privileges)}
            Based(name) == {Grant(name, "role-has-privilege", Id(p), "any") : p \in BaseRoles[name]}
<1>1. ASSUME NEW i \in DOMAIN custom PROVE Granted(custom[i].name) = Wanted(i)
  <2>. DEFINE param == custom[i].privileges
  <2>1. custom[i].name \in CustomRoles /\ param \in Params
    <3>1. custom[i] \in RoleRecords
      BY DEF WorldInv
    <3>. QED
      BY <3>1 DEF RoleRecords
  <2>2. Lookup(custom[i].name) = FindRelatedPrivilegesErr(param)
    BY <2>1, CachedIs, ListingAssumption DEF AllRead, Lookup, IsBaseRole
  <2>3. Lookup(custom[i].name).list = {At(param, place) : place \in Places(param)}
    BY <2>1, <2>2, SearchFinds
  <2>. QED
    BY <2>3
<1>2. ASSUME NEW name \in DOMAIN BaseRoles PROVE Granted(name) = Based(name)
  BY DEF Lookup, IsBaseRole
<1>3. \A name : name \in listed <=> name \in DOMAIN BaseRoles \/ \E i \in DOMAIN custom : name = custom[i].name
  BY DEF AllRead, Names
<1>4. /\ CustomExpected = UNION {Wanted(i) : i \in DOMAIN custom}
      /\ BaseExpected = UNION {Based(name) : name \in DOMAIN BaseRoles}
  BY DEF CustomExpected, BaseExpected
<1>. HIDE DEF Granted, Wanted, Based
<1>5. UNION {Granted(name) : name \in listed} = CustomExpected \cup BaseExpected
  BY <1>1, <1>2, <1>3, <1>4
<1>. QED
  BY <1>5 DEF Granted

\* The members of a privilege are those whose role in the environment of the
\* process names it.
LEMMA UsersGranted ==
  ASSUME WorldInv, AssignedInv, AllRead, \A i \in DOMAIN custom : ~ Misnamed(custom[i].privileges)
  PROVE  UNION {PrivilegeGrants(p) : p \in AllCompoundPrivileges} = UsersExpected
<1>1. \A x : x \in people["privilege"] <=> \E m \in Members : x = FullRow(m)
  BY DEF AllRead, Builders
<1>2. \A m : \A d : d \in FullRow(m).detail <=>
               \E r \in assigned[m] : d = [env |-> r.env, privileges |-> ParamOf(r.name)]
  BY DEF FullRow, Served, DetailUrl
<1>3. \A param : \A id : id \in Keys(param) <=> \E place \in Places(param) : id = Id(At(param, place))
  BY DEF Keys, Id, At
<1>4. ASSUME NEW p \in AllCompoundPrivileges, NEW g \in PrivilegeGrants(p) PROVE g \in UsersExpected
  <2>1. PICK x \in UsersByPrivilege(Id(p)) : g = Grant(Id(p), "assigned", x.who, "any")
    BY DEF PrivilegeGrants
  <2>2. x \in people["privilege"] /\ \E d \in x.detail : d.env = Env /\ Id(p) \in Keys(d.privileges)
    BY DEF UsersByPrivilege
  <2>3. PICK m \in Members : x = FullRow(m)
    BY <1>1, <2>2
  <2>4. x.who = m
    BY <2>3 DEF FullRow
  <2>5. PICK d \in FullRow(m).detail : d.env = Env /\ Id(p) \in Keys(d.privileges)
    BY <2>2, <2>3
  <2>6. PICK r \in assigned[m] : d = [env |-> r.env, privileges |-> ParamOf(r.name)]
    BY <1>2
  <2>7. r.env = Env /\ d.privileges = ParamOf(r.name)
    BY <2>5, <2>6
  <2>8. PICK place \in Places(ParamOf(r.name)) : Id(p) = Id(At(ParamOf(r.name), place))
    BY <1>3, <2>5, <2>7
  <2>9. g = Grant(Id(At(ParamOf(r.name), place)), "assigned", m, "any")
    BY <2>1, <2>4, <2>8
  <2>. QED
    BY <2>7, <2>9 DEF UsersExpected
<1>5. ASSUME NEW name \in Names \cup GivenRoles, NEW place \in Places(ParamOf(name))
      PROVE  At(ParamOf(name), place) \in AllCompoundPrivileges
  <2>1. CASE name \in Names
    <3>1. PICK i \in DOMAIN custom : name = custom[i].name
      BY <2>1 DEF Names
    <3>2. ParamOf(name) = custom[i].privileges
      BY <3>1, ParamIs
    <3>. QED
      BY <3>2 DEF Misnamed
  <2>2. CASE name \in GivenRoles
    <3>1. name \in {"Admin", "Analyst", "Operator"}
      BY <2>2, BaseNames, ListingAssumption
    <3>2. name = "Admin" => ParamOf(name) = Table
      BY DEF ParamOf
    <3>3. name \in {"Analyst", "Operator"} => ParamOf(name) \in {analystBaseRoles, operatorBaseRoles}
      BY DEF ParamOf
    <3>4. ParamOf(name) = Table => At(ParamOf(name), place) \in AllCompoundPrivileges
      BY DEF AllCompoundPrivileges
    <3>. QED
      BY <3>1, <3>2, <3>3, <3>4, TablesAssumption
  <2>. QED
    BY <2>1, <2>2
<1>6. ASSUME NEW g \in UsersExpected PROVE \E p \in AllCompoundPrivileges : g \in PrivilegeGrants(p)
  <2>1. PICK m \in Members : \E r \in assigned[m] : r.env = Env /\
          \E place \in Places(ParamOf(r.name)) : g = Grant(Id(At(ParamOf(r.name), place)), "assigned", m, "any")
    BY <1>6 DEF UsersExpected
  <2>2. PICK r \in assigned[m] : r.env = Env /\
          \E place \in Places(ParamOf(r.name)) : g = Grant(Id(At(ParamOf(r.name), place)), "assigned", m, "any")
    BY <2>1
  <2>3. PICK place \in Places(ParamOf(r.name)) : g = Grant(Id(At(ParamOf(r.name), place)), "assigned", m, "any")
    BY <2>2
  <2>. DEFINE param == ParamOf(r.name)
              p == At(param, place)
              x == FullRow(m)
              d == [env |-> r.env, privileges |-> param]
  <2>4. r.name \in Names \cup GivenRoles
    BY DEF AssignedInv
  <2>5. p \in AllCompoundPrivileges
    BY <1>5, <2>4
  <2>6. x \in people["privilege"] /\ x.who = m
    BY <1>1 DEF FullRow
  <2>7. d \in x.detail /\ d.env = Env /\ d.privileges = param
    BY <1>2, <2>2
  <2>8. Id(p) \in Keys(param)
    BY <1>3
  <2>. HIDE DEF x, d, p, param
  <2>9. x \in UsersByPrivilege(Id(p))
    BY <2>6, <2>7, <2>8 DEF UsersByPrivilege
  <2>10. g = Grant(Id(p), "assigned", x.who, "any")
    BY <2>3, <2>6 DEF p, param
  <2>. QED
    BY <2>5, <2>9, <2>10 DEF PrivilegeGrants
<1>. QED
  BY <1>4, <1>6

\* The parts together.
LEMMA GrantsExpected ==
  ASSUME WorldInv, AssignedInv, AllRead, \A i \in DOMAIN custom : ~ Misnamed(custom[i].privileges)
  PROVE  UNION ({RoleGrants(name) : name \in listed} \cup {PrivilegeGrants(p) : p \in AllCompoundPrivileges}) =
           Expected
<1>. DEFINE Granted(name) == {Grant(name, "role-has-privilege", Id(p), "any") : p \in Lookup(name).list}
<1>1. \A name : RoleGrants(name) = MemberGrants(name) \cup Granted(name)
  BY DEF RoleGrants
<1>2. UNION {Granted(name) : name \in listed} = CustomExpected \cup BaseExpected
  BY PrivilegesGranted
<1>. HIDE DEF Granted
<1>3. \A g : g \in UNION ({RoleGrants(name) : name \in listed} \cup
                         {PrivilegeGrants(p) : p \in AllCompoundPrivileges}) <=>
              \/ g \in UNION {MemberGrants(name) : name \in listed}
              \/ g \in UNION {Granted(name) : name \in listed}
              \/ g \in UNION {PrivilegeGrants(p) : p \in AllCompoundPrivileges}
  BY <1>1
<1>4. \A g : g \in UNION ({RoleGrants(name) : name \in listed} \cup
                         {PrivilegeGrants(p) : p \in AllCompoundPrivileges}) <=>
              g \in Expected
  BY <1>2, <1>3, HoldersGranted, UsersGranted DEF Expected
<1>. QED
  BY <1>4

\* When all types are listed, everything has been read.
LEMMA CalmRead ==
  ASSUME Inv, AssignedInv, CalmInv, calm, at.step = "choose", todo = {}
  PROVE  AllRead /\ ~ Unreadable
<1>1. CalmNow
  BY DEF CalmInv
<1>2. \A b \in Builders : ReadSoFar(b) /\ Left(b) = {} /\ Waiting(b) = {}
  BY <1>1 DEF CalmNow, PeopleRead, Left, Waiting
<1>3. \A b \in Builders : people[b] = {FullRow(m) : m \in Members}
  <2>1. \A b \in Builders : people[b] = {FullRow(m) : m \in Members \ Waiting(b)}
    BY <1>2 DEF ReadSoFar
  <2>2. \A b \in Builders : Members \ Waiting(b) = Members
    BY <1>2
  <2>. QED
    BY <2>1, <2>2
<1>4. \A m \in Members : Cardinality(Served(DetailUrl(m))) = 1
  BY <1>2 DEF ReadSoFar, Builders
<1>5. \A m \in Members : Cardinality(assigned[m]) = 1 /\ \E r : assigned[m] = {r}
  BY <1>4, OneElement DEF CalmInv
<1>6. known = AllRoles /\ listed = Names \cup DOMAIN BaseRoles
  BY <1>1 DEF CalmNow, PagesSoFar, RolesDone, Reading
<1>. QED
  BY <1>3, <1>5, <1>6 DEF AllRead, Unreadable

\* The last step of a calm sync stores what is expected, or fails as it should.
LEMMA FinishExact ==
  ASSUME Inv, AssignedInv, CalmInv, Finish, calm'
  PROVE  Exact
<1>1. calm /\ at.step = "choose" /\ todo = {}
  BY DEF Finish, history
<1>2. AllRead /\ ~ Unreadable /\ WorldInv
  BY <1>1, CalmRead DEF Inv
<1>3. Missing = {}
  BY <1>2, NoneBefore DEF Missing, AllRead, IsBaseRole
<1>4. ASSUME NEW i \in DOMAIN custom
      PROVE  /\ custom[i].name \in listed \ Missing
             /\ Lookup(custom[i].name).found <=> ~ Misnamed(custom[i].privileges)
  <2>1. custom[i].name \in CustomRoles /\ custom[i].privileges \in Params
    <3>1. custom[i] \in RoleRecords
      BY <1>2 DEF WorldInv
    <3>. QED
      BY <3>1 DEF RoleRecords
  <2>2. Lookup(custom[i].name) = FindRelatedPrivilegesErr(custom[i].privileges)
    BY <1>2, <2>1, CachedIs, ListingAssumption DEF AllRead, Lookup, IsBaseRole
  <2>. QED
    BY <1>2, <1>3, <2>1, <2>2, SearchFinds DEF AllRead, Names
<1>5. Refused # {} <=> \E i \in DOMAIN custom : Misnamed(custom[i].privileges)
  <2>1. ASSUME NEW name \in Refused PROVE \E i \in DOMAIN custom : Misnamed(custom[i].privileges)
    <3>1. name \in listed /\ ~ Lookup(name).found
      BY DEF Refused
    <3>2. name \notin DOMAIN BaseRoles
      BY <3>1 DEF Lookup, IsBaseRole
    <3>3. PICK i \in DOMAIN custom : name = custom[i].name
      BY <1>2, <3>1, <3>2 DEF AllRead, Names
    <3>. QED
      BY <1>4, <3>1, <3>3
  <2>2. ASSUME NEW i \in DOMAIN custom, Misnamed(custom[i].privileges) PROVE custom[i].name \in Refused
    BY <1>4, <2>2 DEF Refused
  <2>. QED
    BY <2>1, <2>2
<1>6. CASE Refused # {}
  <2>1. outcome' = "unknown privilege"
    BY <1>3, <1>6 DEF Finish, End
  <2>. QED
    BY <1>2, <1>5, <1>6, <2>1 DEF Exact
<1>7. CASE Refused = {}
  <2>1. /\ outcome' = "done"
        /\ store' = UNION ({RoleGrants(name) : name \in listed} \cup
                           {PrivilegeGrants(p) : p \in AllCompoundPrivileges})
    BY <1>3, <1>7 DEF Finish, End
  <2>2. store' = Expected
    BY <1>2, <1>5, <1>7, <2>1, GrantsExpected
  <2>. QED
    BY <1>2, <1>5, <1>7, <2>1, <2>2 DEF Exact
<1>. QED
  BY <1>6, <1>7

\* In a calm sync no request ends it.
LEMMA BrokenGoesOn ==
  ASSUME Inv, CalmInv, Reading, NEW url \in Urls, NEW answer \in Answers(url), Get(url, answer),
         doRequest(answer.kind) = "error", Broken(answer), UNCHANGED world, calm'
  PROVE  at'.step # "idle"
<1>1. at.step # "idle" /\ (calm => Fresh)
  BY DEF Reading, CalmInv, CalmNow
<1>2. answer.kind = "none"
  BY <1>1, CalmAnswer DEF Inv
<1>. QED
  BY <1>1, <1>2 DEF Broken, Goto

\* The request for the members ends no sync that is calm.
LEMMA ReadMembersExact ==
  ASSUME Inv, CalmInv, ReadMembers, calm'
  PROVE  at'.step # "idle"
<1>1. PICK answer \in Answers(MembersUrl) :
        /\ Get(MembersUrl, answer)
        /\ \/ doRequest(answer.kind) = "error" /\ Broken(answer)
           \/ Goto("detail", at.builder, answer.data, 0)
  BY DEF ReadMembers, MembersUrl
<1>2. Reading /\ UNCHANGED world
  BY DEF ReadMembers, Reading
<1>. QED
  BY <1>1, <1>2, BrokenGoesOn, UrlFacts DEF Goto

\* A member is refused only if he has roles in more or fewer environments than one.
LEMMA ReadDetailExact ==
  ASSUME Inv, AssignedInv, CalmInv, ReadDetail, calm', at'.step = "idle"
  PROVE  Exact
<1>1. at.step = "detail" /\ Reading /\ UNCHANGED world
  BY DEF ReadDetail, Reading
<1>2. PICK x \in at.left : \E answer \in Answers(DetailUrl(x.who)) :
         /\ Get(DetailUrl(x.who), answer)
         /\ \/ doRequest(answer.kind) = "error" /\ Broken(answer)
            \/ doRequest(answer.kind) = "nil" /\ Cardinality(answer.data) # 1 /\ End("unreadable member", {})
            \/ Goto("detail", at.builder, at.left \ {x}, 0)
  BY DEF ReadDetail, DetailUrl
<1>. DEFINE url == DetailUrl(x.who)
<1>3. url \in Urls /\ x.who \in Members
  BY <1>1, UrlFacts DEF Inv, AtInv
<1>4. PICK answer \in Answers(url) :
         /\ Get(url, answer)
         /\ \/ doRequest(answer.kind) = "error" /\ Broken(answer)
            \/ doRequest(answer.kind) = "nil" /\ Cardinality(answer.data) # 1 /\ End("unreadable member", {})
            \/ Goto("detail", at.builder, at.left \ {x}, 0)
  BY <1>2
<1>5. ~ Goto("detail", at.builder, at.left \ {x}, 0)
  BY DEF Goto
<1>6. ~ (doRequest(answer.kind) = "error" /\ Broken(answer))
  <2>. HIDE DEF url
  <2>. QED
    BY <1>1, <1>3, <1>4, BrokenGoesOn
<1>7. answer.data = Served(url) /\ Cardinality(answer.data) # 1 /\ outcome' = "unreadable member"
  <2>1. calm => Fresh
    BY <1>1 DEF CalmInv, CalmNow
  <2>2. doRequest(answer.kind) = "nil" /\ Cardinality(answer.data) # 1 /\ outcome' = "unreadable member"
    BY <1>4, <1>5, <1>6 DEF End
  <2>. HIDE DEF url
  <2>. QED
    BY <1>1, <1>3, <1>4, <2>1, <2>2, CalmAnswer DEF Inv
<1>8. Unreadable
  BY <1>3, <1>7, OneElement DEF Unreadable, CalmInv
<1>. QED
  BY <1>7, <1>8 DEF Exact

\* Nor does a page of the role cache.
LEMMA FillRolesExact ==
  ASSUME Inv, CalmInv, FillRoles, calm'
  PROVE  at'.step # "idle"
<1>1. Reading /\ UNCHANGED world /\ at.page \in 0 .. Cardinality(CustomRoles)
  BY DEF FillRoles, Reading, Inv, AtInv
<1>2. PICK answer \in Answers(PageUrl(at.page)) :
        /\ Get(PageUrl(at.page), answer)
        /\ \/ doRequest(answer.kind) = "error" /\ Broken(answer)
           \/ \E step \in {"fill", "list"} : \E page : Goto(step, "role", {}, page)
  BY DEF FillRoles, PageUrl
<1>3. PageUrl(at.page) \in Urls
  BY <1>1, UrlFacts
<1>. QED
  BY <1>1, <1>2, <1>3, BrokenGoesOn DEF Goto

\* Nor does a page of the listing.
LEMMA ListRolesExact ==
  ASSUME Inv, CalmInv, ListRoles, calm'
  PROVE  at'.step # "idle"
<1>1. Reading /\ UNCHANGED world /\ at.page \in 0 .. Cardinality(CustomRoles)
  BY DEF ListRoles, Reading, Inv, AtInv
<1>2. PICK answer \in Answers(PageUrl(at.page)) :
        /\ Get(PageUrl(at.page), answer)
        /\ \/ doRequest(answer.kind) = "error" /\ Broken(answer)
           \/ \E step \in {"list", "choose"} : \E builder, page : Goto(step, builder, {}, page)
  BY DEF ListRoles, PageUrl
<1>3. PageUrl(at.page) \in Urls
  BY <1>1, UrlFacts
<1>. QED
  BY <1>1, <1>2, <1>3, BrokenGoesOn DEF Goto

\* A sync that no change, bad answer or old cache entry disturbs ends as the
\* workspace demands, for every workspace: with exactly the grants of its members,
\* roles and privileges, or with the failure of a member or role that cannot be
\* read (collaborator_cache.go, role_cache.go, role.go, privilege.go).
THEOREM CalmIsExact == Spec => CalmSyncIsExact
<1>1. Init => CalmInv /\ AssignedInv
  <2>1. Init => \A m \in Members : Legal(assigned[m])
    BY DEF Init, RoleLists
  <2>. QED
    BY <2>1, InitTyped DEF Init, CalmInv, TypeInv
<1>2. Inv /\ AssignedInv /\ CalmInv /\ [Next]_vars => CalmInv'
  BY NextCalm
<1>3. TypeInv => AssignedInv
  BY DEF TypeInv
<1>4. Inv /\ AssignedInv /\ CalmInv /\ [Next]_vars =>
        [at.step # "idle" /\ at'.step = "idle" /\ calm' => Exact]_vars
  <2>. SUFFICES ASSUME Inv, AssignedInv, CalmInv, Next, at.step # "idle", at'.step = "idle", calm' PROVE Exact
    OBVIOUS
  <2>1. CASE Sync
    <3>1. ~ Begin /\ (\A b \in Builders : ~ Choose(b)) /\ ~ MembersRead
      BY DEF Begin, Choose, MembersRead, Goto
    <3>. QED
      BY <2>1, <3>1, ReadMembersExact, ReadDetailExact, FillRolesExact, ListRolesExact, FinishExact DEF Sync
  <2>2. ~ World
    BY DEF World, CreateRole, DeleteRole, Assign, Change
  <2>3. (\A m \in Members : ~ Prefetch(m)) /\ (\A url \in Urls : ~ Expire(url))
    BY DEF Prefetch, Expire
  <2>. QED
    BY <2>1, <2>2, <2>3 DEF Next
<1>5. Spec => [][at.step # "idle" /\ at'.step = "idle" /\ calm' => Exact]_vars
  BY <1>1, <1>2, <1>3, <1>4, Invariance, TypesKept, PTL DEF Spec
<1>. QED
  BY <1>5 DEF CalmSyncIsExact, Exact

-----------------------------------------------------------------------------
(* The environment of the members *)

\* A member that the cache has under the name of a role is granted it for the
\* environment of the process, whatever other grants the loop over his roles adds.
LEMMA MembersHaveEnv ==
  ASSUME NEW name, NEW g \in MemberGrants(name)
  PROVE  g.on = name /\ Grant(name, "collaborator-has", g.to, Env) \in MemberGrants(name)
<1>1. PICK x \in UsersByRole(name) :
        g \in {Grant(name, "collaborator-has", x.who, r.env) : r \in {r \in x.roles : r.name = name}}
  BY DEF MemberGrants
<1>2. PICK r \in x.roles : r.name = name /\ r.env = Env
  BY DEF UsersByRole
<1>3. g.on = name /\ g.to = x.who
  BY <1>1 DEF Grant
<1>4. Grant(name, "collaborator-has", x.who, Env) \in
        {Grant(name, "collaborator-has", x.who, q.env) : q \in {q \in x.roles : q.name = name}}
  BY <1>2
<1>. QED
  BY <1>3, <1>4 DEF MemberGrants

\* So it is for the grants of the whole sync, of which only those are of members.
LEMMA DoneHasEnv ==
  ASSUME store' = UNION ({RoleGrants(name) : name \in listed} \cup
                         {PrivilegeGrants(p) : p \in AllCompoundPrivileges})
  PROVE  MembersAreOfEnv'
<1>. SUFFICES ASSUME NEW g \in store', g.how = "collaborator-has"
              PROVE  Grant(g.on, g.how, g.to, Env) \in store'
  BY DEF MembersAreOfEnv, Grant
<1>1. \A p : g \notin PrivilegeGrants(p)
  BY DEF PrivilegeGrants, Grant
<1>2. PICK name \in listed : g \in RoleGrants(name)
  BY <1>1
<1>3. g \in MemberGrants(name)
  BY <1>2 DEF RoleGrants, Grant
<1>4. Grant(g.on, g.how, g.to, Env) \in RoleGrants(name)
  BY <1>3, MembersHaveEnv DEF RoleGrants
<1>. QED
  BY <1>4

\* A sync that begins or fails stores nothing.
LEMMA EmptyHasEnv == ASSUME store' = {} \/ store' = store, MembersAreOfEnv PROVE MembersAreOfEnv'
BY DEF MembersAreOfEnv, Grant

LEMMA StoreSame ==
  ASSUME [Next]_vars, ~ Finish
  PROVE  store' = {} \/ store' = store
<1>1. \A answer : Broken(answer) => store' = {} \/ store' = store
  BY DEF Broken, End, result
<1>2. ASSUME Begin \/ (\E b \in Builders : Choose(b)) \/ MembersRead PROVE store' = {} \/ store' = store
  BY <1>2 DEF Begin, Choose, MembersRead, result
<1>3. CASE ReadMembers
  BY <1>1, <1>3 DEF ReadMembers, result
<1>4. CASE ReadDetail
  BY <1>1, <1>4 DEF ReadDetail, End, result
<1>5. CASE FillRoles
  BY <1>1, <1>5 DEF FillRoles, result
<1>6. CASE ListRoles
  BY <1>1, <1>6 DEF ListRoles, result
<1>7. CASE World
  BY <1>7 DEF World, CreateRole, DeleteRole, Assign, Change, result
<1>8. CASE \/ (\E m \in Members : Prefetch(m)) \/ (\E url \in Urls : Expire(url))
           \/ UNCHANGED vars
  BY <1>8 DEF Prefetch, Expire, vars, result
<1>. QED
  BY <1>2, <1>3, <1>4, <1>5, <1>6, <1>7, <1>8 DEF Next, Sync

\* A stored member has the role in the environment of the process, however the roles
\* of the workspace change while the sync reads them.
THEOREM MembersOfEnv == Spec => []MembersAreOfEnv
<1>1. Init => MembersAreOfEnv
  BY DEF Init, MembersAreOfEnv
<1>2. MembersAreOfEnv /\ [Next]_vars => MembersAreOfEnv'
  <2>. SUFFICES ASSUME MembersAreOfEnv, [Next]_vars PROVE MembersAreOfEnv'
    OBVIOUS
  <2>1. CASE Finish
    <3>1. CASE End("role not found", {}) \/ End("unknown privilege", {})
      BY <3>1, EmptyHasEnv DEF End
    <3>2. CASE End("done", UNION ({RoleGrants(name) : name \in listed} \cup
                                  {PrivilegeGrants(p) : p \in AllCompoundPrivileges}))
      BY <3>2, DoneHasEnv DEF End
    <3>. QED
      BY <2>1, <3>1, <3>2 DEF Finish
  <2>2. CASE ~ Finish
    BY <2>2, StoreSame, EmptyHasEnv
  <2>. QED
    BY <2>1, <2>2
<1>. QED
  BY <1>1, <1>2, PTL DEF Spec
=============================================================================
