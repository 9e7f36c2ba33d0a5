---------------------------- MODULE Listing_proofs ----------------------------
(***************************************************************************)
(* What the HTTP cache of the process does for the caches of the builders:   *)
(* for every workspace, every page limit and however the workspace changes.  *)
(***************************************************************************)
EXTENDS Listing, FiniteSetTheorems, SequenceTheorems, TLAPS

-----------------------------------------------------------------------------
(* The pages of the workspace *)

\* The custom roles have different names, so there are no more of them than names.
Distinct(s) == \A i, j \in DOMAIN s : s[i].name = s[j].name => i = j

WorldInv == custom \in Seq(RoleRecords) /\ Distinct(custom)

\* There are at most as many custom roles as names.
LEMMA WorldBound == WorldInv => Len(custom) <= Cardinality(CustomRoles)
<1>. SUFFICES ASSUME WorldInv PROVE Len(custom) <= Cardinality(CustomRoles)
  OBVIOUS
<1>. DEFINE f == [i \in 1 .. Len(custom) |-> custom[i].name]
<1>1. Len(custom) \in Nat /\ DOMAIN custom = 1 .. Len(custom)
  BY DEF WorldInv
<1>2. \A i \in 1 .. Len(custom) : custom[i].name \in CustomRoles
  <2>1. \A i \in 1 .. Len(custom) : custom[i] \in RoleRecords
    BY <1>1 DEF WorldInv
  <2>. QED
    BY <2>1 DEF RoleRecords
<1>3. f \in Injection(1 .. Len(custom), CustomRoles)
  BY <1>1, <1>2 DEF WorldInv, Distinct, Injection, IsInjective
<1>4. Cardinality(1 .. Len(custom)) <= Cardinality(CustomRoles)
  <2>. HIDE DEF f
  <2>. QED
    BY <1>3, FS_Injection, ListingAssumption
<1>. QED
  BY <1>1, <1>4, FS_Interval

\* A page with a role on it has a number below the number of names.
LEMMA PageBound ==
  ASSUME WorldInv, NEW n \in Nat, RolesPage(n) # {}
  PROVE  n < Cardinality(CustomRoles)
<1>1. PICK i \in DOMAIN custom : n * PageLimit < i
  BY DEF RolesPage
<1>2. Len(custom) \in Nat /\ DOMAIN custom = 1 .. Len(custom)
  BY DEF WorldInv
<1>3. n <= n * PageLimit
  BY ListingAssumption
<1>4. Cardinality(CustomRoles) \in Nat
  BY FS_CardinalityType, ListingAssumption
<1>. QED
  BY <1>1, <1>2, <1>3, <1>4, WorldBound, ListingAssumption

\* Two listings without a common name make one listing.
LEMMA Joined ==
  ASSUME NEW a \in Seq(RoleRecords), NEW b \in Seq(RoleRecords), Distinct(a), Distinct(b),
         \A k \in DOMAIN a, l \in DOMAIN b : a[k].name # b[l].name
  PROVE  /\ a \o b \in Seq(RoleRecords)
         /\ Distinct(a \o b)
         /\ \A k \in DOMAIN (a \o b) : \/ \E l \in DOMAIN a : (a \o b)[k] = a[l]
                                      \/ \E l \in DOMAIN b : (a \o b)[k] = b[l]
<1>. DEFINE m == Len(a)
            n == Len(b)
            c == a \o b
<1>1. m \in Nat /\ n \in Nat /\ DOMAIN a = 1 .. m /\ DOMAIN b = 1 .. n
  OBVIOUS
<1>2. /\ c \in Seq(RoleRecords) /\ Len(c) = m + n
      /\ \A k \in 1 .. m + n : c[k] = IF k <= m THEN a[k] ELSE b[k - m]
  BY ConcatProperties
<1>3. DOMAIN c = 1 .. m + n
  BY <1>2
<1>. HIDE DEF m, n, c
<1>4. \A k \in 1 .. m + n : IF k <= m THEN k \in 1 .. m ELSE k - m \in 1 .. n
  BY <1>1
<1>5. ASSUME NEW k \in 1 .. m + n, NEW l \in 1 .. m + n, c[k].name = c[l].name PROVE k = l
  <2>1. CASE k <= m /\ l <= m
    BY <1>1, <1>2, <1>4, <1>5, <2>1 DEF Distinct
  <2>2. CASE ~ k <= m /\ ~ l <= m
    <3>1. /\ k - m \in DOMAIN b /\ l - m \in DOMAIN b
          /\ c[k] = b[k - m] /\ c[l] = b[l - m]
      BY <1>1, <1>2, <1>4, <2>2
    <3>2. k - m = l - m
      BY <1>5, <3>1 DEF Distinct
    <3>. QED
      BY <1>1, <3>2
  <2>3. CASE k <= m /\ ~ l <= m
    BY <1>1, <1>2, <1>4, <1>5, <2>3
  <2>4. CASE ~ k <= m /\ l <= m
    BY <1>1, <1>2, <1>4, <1>5, <2>4
  <2>. QED
    BY <2>1, <2>2, <2>3, <2>4
<1>6. \A k \in 1 .. m + n : \/ \E l \in DOMAIN a : c[k] = a[l]
                           \/ \E l \in DOMAIN b : c[k] = b[l]
  BY <1>1, <1>2, <1>4
<1>. QED
  BY <1>2, <1>3, <1>5, <1>6 DEF Distinct, c

\* A part of a listing.
LEMMA Part ==
  ASSUME NEW s \in Seq(RoleRecords), Distinct(s), NEW m \in Nat \ {0}, NEW n \in 0 .. Len(s)
  PROVE  /\ SubSeq(s, m, n) \in Seq(RoleRecords)
         /\ Distinct(SubSeq(s, m, n))
         /\ \A k \in DOMAIN SubSeq(s, m, n) :
              \E q \in DOMAIN s : m <= q /\ q <= n /\ SubSeq(s, m, n)[k] = s[q]
<1>. DEFINE t == SubSeq(s, m, n)
<1>1. DOMAIN s = 1 .. Len(s) /\ Len(s) \in Nat /\ n \in Nat /\ n <= Len(s) /\ m \in Nat /\ m >= 1
  OBVIOUS
<1>2. m \in Int /\ n \in Int /\ \A k \in m .. n : k \in DOMAIN s /\ s[k] \in RoleRecords
  BY <1>1
<1>3. /\ t \in Seq(RoleRecords) /\ Len(t) = IF m <= n THEN n - m + 1 ELSE 0
      /\ \A k \in 1 .. n - m + 1 : t[k] = s[m + k - 1]
  BY <1>2, SubSeqProperties
<1>4. \A k \in 1 .. Len(t) : m + k - 1 \in DOMAIN s /\ m <= m + k - 1 /\ m + k - 1 <= n /\ t[k] = s[m + k - 1]
  <2>. HIDE DEF t
  <2>. QED
    BY <1>1, <1>3
<1>5. DOMAIN t = 1 .. Len(t) /\ Len(t) \in Nat
  BY <1>3
<1>. HIDE DEF t
<1>6. ASSUME NEW k \in 1 .. Len(t), NEW l \in 1 .. Len(t), t[k].name = t[l].name PROVE k = l
  <2>1. m + k - 1 = m + l - 1
    BY <1>4, <1>6 DEF Distinct
  <2>. QED
    BY <1>1, <1>5, <2>1
<1>. QED
  BY <1>3, <1>4, <1>5, <1>6 DEF Distinct, t

\* A role is put between two others.
LEMMA InsertKeeps ==
  ASSUME WorldInv, NEW i \in 0 .. Len(custom), NEW r \in RoleRecords, r.name \notin Names,
         custom' = SubSeq(custom, 1, i) \o <<r>> \o SubSeq(custom, i + 1, Len(custom))
  PROVE  WorldInv'
<1>. DEFINE front == SubSeq(custom, 1, i)
            back == SubSeq(custom, i + 1, Len(custom))
            one == <<r>>
<1>1. i + 1 \in Nat \ {0} /\ i \in Nat /\ Len(custom) \in 0 .. Len(custom)
  BY DEF WorldInv
<1>2. /\ front \in Seq(RoleRecords) /\ Distinct(front)
      /\ \A k \in DOMAIN front : \E q \in DOMAIN custom : q <= i /\ front[k] = custom[q]
  BY <1>1, Part DEF WorldInv
<1>3. /\ back \in Seq(RoleRecords) /\ Distinct(back)
      /\ \A k \in DOMAIN back : \E q \in DOMAIN custom : i + 1 <= q /\ back[k] = custom[q]
  BY <1>1, Part DEF WorldInv
<1>4. one \in Seq(RoleRecords) /\ DOMAIN one = {1} /\ one[1] = r
  OBVIOUS
<1>. HIDE DEF front, back, one
<1>5. Distinct(one)
  BY <1>4 DEF Distinct
<1>6. \A q \in DOMAIN custom : custom[q].name # r.name /\ q \in Nat
  BY DEF Names, WorldInv
<1>7. /\ front \o one \in Seq(RoleRecords) /\ Distinct(front \o one)
      /\ \A k \in DOMAIN (front \o one) : \/ \E l \in DOMAIN front : (front \o one)[k] = front[l]
                                          \/ \E l \in DOMAIN one : (front \o one)[k] = one[l]
  <2>1. \A k \in DOMAIN front, l \in DOMAIN one : front[k].name # one[l].name
    BY <1>2, <1>4, <1>6
  <2>. QED
    BY <1>2, <1>4, <1>5, <2>1, Joined
<1>8. \A k \in DOMAIN (front \o one), l \in DOMAIN back : (front \o one)[k].name # back[l].name
  <2>. SUFFICES ASSUME NEW k \in DOMAIN (front \o one), NEW l \in DOMAIN back
                PROVE  (front \o one)[k].name # back[l].name
    OBVIOUS
  <2>1. PICK q \in DOMAIN custom : i + 1 <= q /\ back[l] = custom[q]
    BY <1>3
  <2>2. CASE \E p \in DOMAIN front : (front \o one)[k] = front[p]
    <3>1. PICK p \in DOMAIN custom : p <= i /\ (front \o one)[k] = custom[p]
      BY <1>2, <2>2
    <3>2. p # q
      BY <1>1, <1>6, <2>1, <3>1
    <3>. QED
      BY <2>1, <3>1, <3>2 DEF WorldInv, Distinct
  <2>3. CASE \E p \in DOMAIN one : (front \o one)[k] = one[p]
    BY <1>4, <1>6, <2>1, <2>3
  <2>. QED
    BY <1>7, <2>2, <2>3
<1>9. (front \o one) \o back \in Seq(RoleRecords) /\ Distinct((front \o one) \o back)
  BY <1>3, <1>7, <1>8, Joined
<1>10. custom' = (front \o one) \o back
  BY DEF front, one, back
<1>. QED
  BY <1>9, <1>10 DEF WorldInv, Distinct

\* A role is taken out.
LEMMA DeleteKeeps ==
  ASSUME WorldInv, NEW i \in DOMAIN custom,
         custom' = SubSeq(custom, 1, i - 1) \o SubSeq(custom, i + 1, Len(custom))
  PROVE  WorldInv'
<1>. DEFINE front == SubSeq(custom, 1, i - 1)
            back == SubSeq(custom, i + 1, Len(custom))
<1>1. DOMAIN custom = 1 .. Len(custom) /\ Len(custom) \in Nat
  BY DEF WorldInv
<1>2. /\ i \in Nat /\ i + 1 \in Nat \ {0} /\ i - 1 \in 0 .. Len(custom)
      /\ Len(custom) \in 0 .. Len(custom) /\ 1 \in Nat \ {0}
  BY <1>1
<1>3. /\ front \in Seq(RoleRecords) /\ Distinct(front)
      /\ \A k \in DOMAIN front : \E q \in DOMAIN custom : q <= i - 1 /\ front[k] = custom[q]
  BY <1>2, Part DEF WorldInv
<1>4. /\ back \in Seq(RoleRecords) /\ Distinct(back)
      /\ \A k \in DOMAIN back : \E q \in DOMAIN custom : i + 1 <= q /\ back[k] = custom[q]
  BY <1>2, Part DEF WorldInv
<1>. HIDE DEF front, back
<1>5. \A k \in DOMAIN front, l \in DOMAIN back : front[k].name # back[l].name
  <2>. SUFFICES ASSUME NEW k \in DOMAIN front, NEW l \in DOMAIN back PROVE front[k].name # back[l].name
    OBVIOUS
  <2>1. PICK p \in DOMAIN custom : p <= i - 1 /\ front[k] = custom[p]
    BY <1>3
  <2>2. PICK q \in DOMAIN custom : i + 1 <= q /\ back[l] = custom[q]
    BY <1>4
  <2>3. p # q
    BY <1>1, <1>2, <2>1, <2>2
  <2>. QED
    BY <2>1, <2>2, <2>3 DEF WorldInv, Distinct
<1>6. front \o back \in Seq(RoleRecords) /\ Distinct(front \o back)
  BY <1>3, <1>4, <1>5, Joined
<1>7. custom' = front \o back
  BY DEF front, back
<1>. QED
  BY <1>6, <1>7 DEF WorldInv, Distinct

\* The roles of the workspace stay, and none moves to a place before its own.
Moves == \A i \in DOMAIN custom : \E j \in DOMAIN custom' : i <= j /\ custom'[j].name = custom[i].name

\* A workspace that does not change moves no role.
LEMMA NothingMoves == ASSUME WorldInv, custom' = custom PROVE Moves
<1>1. \A i \in DOMAIN custom : i \in Nat
  BY DEF WorldInv
<1>. QED
  BY <1>1 DEF Moves

\* A role that is put between two others moves the later ones one place on.
LEMMA InsertMoves ==
  ASSUME WorldInv, NEW i \in 0 .. Len(custom), NEW r \in RoleRecords,
         custom' = SubSeq(custom, 1, i) \o <<r>> \o SubSeq(custom, i + 1, Len(custom))
  PROVE  Moves
<1>. DEFINE front == SubSeq(custom, 1, i)
            back == SubSeq(custom, i + 1, Len(custom))
            one == <<r>>
            most == front \o one
<1>1. DOMAIN custom = 1 .. Len(custom) /\ Len(custom) \in Nat /\ i \in Nat /\ i <= Len(custom)
  BY DEF WorldInv
<1>2. custom \in Seq(RoleRecords)
  BY DEF WorldInv
<1>3. /\ front \in Seq(RoleRecords) /\ Len(front) = i
      /\ \A k \in 1 .. i : front[k] = custom[k]
  <2>1. \A k \in 1 .. i : custom[k] \in RoleRecords
    BY <1>1, <1>2
  <2>2. 1 \in Int /\ i \in Int /\ (IF 1 <= i THEN i - 1 + 1 ELSE 0) = i
    BY <1>1
  <2>3. \A k \in 1 .. i - 1 + 1 : front[k] = custom[1 + k - 1]
    BY <2>1, <2>2, SubSeqProperties
  <2>4. \A k \in 1 .. i : k \in 1 .. i - 1 + 1 /\ 1 + k - 1 = k
    BY <1>1
  <2>5. front \in Seq(RoleRecords) /\ Len(front) = i
    BY <2>1, <2>2, SubSeqProperties
  <2>. HIDE DEF front
  <2>. QED
    BY <2>3, <2>4, <2>5
<1>4. /\ back \in Seq(RoleRecords) /\ Len(back) = Len(custom) - i
      /\ \A k \in 1 .. Len(custom) - i : back[k] = custom[i + k]
  <2>. DEFINE len == Len(custom)
  <2>1. \A k \in i + 1 .. len : custom[k] \in RoleRecords
    BY <1>1, <1>2
  <2>2. i + 1 \in Int /\ len \in Int /\ (IF i + 1 <= len THEN len - (i + 1) + 1 ELSE 0) = len - i
    <3>1. len \in Int /\ i \in Int /\ i <= len
      BY <1>1
    <3>. HIDE DEF len
    <3>. QED
      BY <3>1
  <2>3. /\ back \in Seq(RoleRecords) /\ Len(back) = len - i
        /\ \A k \in 1 .. len - (i + 1) + 1 : back[k] = custom[(i + 1) + k - 1]
    BY <2>1, <2>2, SubSeqProperties
  <2>4. len - (i + 1) + 1 = len - i /\ \A k \in 1 .. len - i : (i + 1) + k - 1 = i + k
    <3>1. len \in Int /\ i \in Int
      BY <1>1
    <3>. HIDE DEF len
    <3>. QED
      BY <3>1
  <2>. HIDE DEF back
  <2>. QED
    BY <2>3, <2>4
<1>5. one \in Seq(RoleRecords) /\ Len(one) = 1
  OBVIOUS
<1>. HIDE DEF front, back, one
<1>6. /\ most \in Seq(RoleRecords) /\ Len(most) = i + 1
      /\ \A k \in 1 .. i : most[k] = front[k]
  <2>1. /\ most \in Seq(RoleRecords) /\ Len(most) = Len(front) + Len(one)
        /\ \A k \in 1 .. Len(front) + Len(one) :
             most[k] = IF k <= Len(front) THEN front[k] ELSE one[k - Len(front)]
    BY <1>3, <1>5, ConcatProperties
  <2>2. \A k \in 1 .. i : k \in 1 .. i + 1 /\ k <= i
    BY <1>1
  <2>. HIDE DEF most
  <2>. QED
    BY <1>3, <1>5, <2>1, <2>2
<1>7. custom' = most \o back
  BY DEF front, back, one
<1>. HIDE DEF most
<1>8. /\ Len(custom') = Len(custom) + 1 /\ DOMAIN custom' = 1 .. Len(custom) + 1
      /\ \A k \in 1 .. Len(custom) + 1 : custom'[k] = IF k <= i + 1 THEN most[k] ELSE back[k - (i + 1)]
  <2>1. (i + 1) + (Len(custom) - i) = Len(custom) + 1
    BY <1>1
  <2>2. /\ most \o back \in Seq(RoleRecords) /\ Len(most \o back) = Len(most) + Len(back)
        /\ \A k \in 1 .. Len(most) + Len(back) :
             (most \o back)[k] = IF k <= Len(most) THEN most[k] ELSE back[k - Len(most)]
    BY <1>4, <1>6, ConcatProperties
  <2>. DEFINE all == most \o back
  <2>3. /\ all \in Seq(RoleRecords) /\ Len(all) = Len(custom) + 1
        /\ \A k \in 1 .. Len(custom) + 1 : all[k] = IF k <= i + 1 THEN most[k] ELSE back[k - (i + 1)]
    BY <1>4, <1>6, <2>1, <2>2
  <2>4. custom' = all
    BY <1>7
  <2>. HIDE DEF all
  <2>5. DOMAIN all = 1 .. Len(all)
    BY <2>3
  <2>. QED
    BY <2>3, <2>4, <2>5
<1>9. ASSUME NEW q \in DOMAIN custom
      PROVE  \E j \in DOMAIN custom' : q <= j /\ custom'[j].name = custom[q].name
  <2>1. q \in Nat /\ 1 <= q /\ q <= Len(custom)
    BY <1>1
  <2>2. CASE q <= i
    <3>1. q \in 1 .. i /\ q <= i + 1 /\ q \in 1 .. Len(custom) + 1
      BY <1>1, <2>1, <2>2
    <3>2. custom'[q] = custom[q]
      BY <1>3, <1>6, <1>8, <3>1
    <3>3. q <= q
      BY <2>1
    <3>4. q \in DOMAIN custom'
      BY <1>8, <3>1
    <3>. QED
      BY <3>2, <3>3, <3>4
  <2>3. CASE i < q
    <3>1. /\ q + 1 \in 1 .. Len(custom) + 1 /\ ~ q + 1 <= i + 1 /\ (q + 1) - (i + 1) = q - i
          /\ q - i \in 1 .. Len(custom) - i /\ i + (q - i) = q /\ q <= q + 1
      BY <1>1, <2>1, <2>3
    <3>2. custom'[q + 1] = custom[q]
      BY <1>4, <1>8, <3>1
    <3>. QED
      BY <1>8, <3>1, <3>2
  <2>4. q <= i \/ i < q
    BY <1>1, <2>1
  <2>. QED
    BY <2>2, <2>3, <2>4
<1>. QED
  BY <1>9 DEF Moves

-----------------------------------------------------------------------------
(* The HTTP cache *)

\* A page that has a role on it is numbered below the number of names, and the
\* members that are listed are members.
Fits(url, data) ==
  /\ url[1] = "members" => \A x \in data : x.who \in Members
  /\ url[1] = "roles" => (data # {} => url[2] < Cardinality(CustomRoles))

CacheInv ==
  /\ cache = [u \in Urls |-> cache[u]]
  /\ \A u \in Urls : cache[u].stored \in BOOLEAN /\ Fits(u, cache[u].data)

MembersUrl == <<"members">>
DetailUrl(m) == <<"detail", m>>
PageUrl(n) == <<"roles", n>>

Hit(u) == cache[u].stored
Data(u) == cache[u].data

\* The URLs and what they are for.
LEMMA UrlFacts ==
  /\ MembersUrl \in Urls /\ MembersUrl[1] = "members"
  /\ \A m \in Members : DetailUrl(m) \in Urls /\ DetailUrl(m)[1] = "detail"
  /\ \A n \in 0 .. Cardinality(CustomRoles) :
       PageUrl(n) \in Urls /\ PageUrl(n)[1] = "roles" /\ PageUrl(n)[2] = n
  /\ \A u \in Urls : \/ u = MembersUrl
                     \/ \E m \in Members : u = DetailUrl(m)
                     \/ \E n \in 0 .. Cardinality(CustomRoles) : u = PageUrl(n)
BY DEF Urls, MembersUrl, DetailUrl, PageUrl

\* What the workspace answers fits.
LEMMA ServedFits == ASSUME WorldInv, NEW u \in Urls PROVE Fits(u, Served(u)) /\ Fits(u, {})
<1>1. Cardinality(CustomRoles) \in Nat
  BY FS_CardinalityType, ListingAssumption
<1>2. CASE u = MembersUrl
  BY <1>2, UrlFacts DEF Fits, Served
<1>3. CASE \E m \in Members : u = DetailUrl(m)
  BY <1>3, UrlFacts DEF Fits
<1>4. CASE \E n \in 0 .. Cardinality(CustomRoles) : u = PageUrl(n)
  <2>1. PICK n \in 0 .. Cardinality(CustomRoles) : u = PageUrl(n)
    BY <1>4
  <2>2. Served(u) = RolesPage(n) /\ n \in Nat
    BY <1>1, <2>1, UrlFacts DEF Served
  <2>. QED
    BY <2>1, <2>2, UrlFacts, PageBound DEF Fits
<1>. QED
  BY <1>2, <1>3, <1>4, UrlFacts

\* What a request does to the cache: entries stay, and as long as the sync is
\* steady the answer it goes on with is the entry of its URL.
Requested(url, answer) ==
  /\ CacheInv'
  /\ Fits(url, answer.data)
  /\ \A u \in Urls : Hit(u) => Hit(u)' /\ Data(u)' = Data(u)
  /\ steady' => steady
  /\ steady' /\ doRequest(answer.kind) = "nil" => Hit(url)' /\ Data(url)' = answer.data
  /\ Hit(url) => answer.kind = "ok" /\ answer.data = Data(url)

\* Every request does so.
LEMMA GetFacts ==
  ASSUME WorldInv, CacheInv, NEW url \in Urls, NEW answer \in Answers(url), Get(url, answer)
  PROVE  Requested(url, answer)
<1>1. \/ Hit(url) /\ answer.kind = "ok" /\ answer.data = Data(url)
      \/ ~ Hit(url) /\ answer.data \in {Served(url), {}}
  BY DEF Answers, Decoded, Hit, Data
<1>2. Fits(url, answer.data)
  BY <1>1, ServedFits DEF CacheInv, Data
<1>3. \/ cache' = cache
      \/ /\ ~ Hit(url)
         /\ cache' = [cache EXCEPT ![url] = [stored |-> TRUE, data |-> answer.data, since |-> syncs]]
  BY DEF Get, Hit
<1>4. CacheInv' /\ \A u \in Urls : Hit(u) => Hit(u)' /\ Data(u)' = Data(u)
  <2>1. CASE cache' = cache
    BY <2>1 DEF CacheInv, Hit, Data
  <2>2. CASE /\ ~ Hit(url)
             /\ cache' = [cache EXCEPT ![url] = [stored |-> TRUE, data |-> answer.data, since |-> syncs]]
    <3>1. /\ cache' = [u \in Urls |-> cache'[u]]
          /\ \A u \in Urls \ {url} : cache'[u] = cache[u]
          /\ cache'[url].stored = TRUE /\ cache'[url].data = answer.data
      BY <2>2 DEF CacheInv
    <3>. QED
      BY <1>2, <2>2, <3>1 DEF CacheInv, Hit, Data
  <2>. QED
    BY <1>3, <2>1, <2>2
<1>5. steady' /\ doRequest(answer.kind) = "nil" => answer.kind = "ok"
  BY DEF Get, doRequest
<1>6. answer.kind = "ok" => Hit(url)' /\ Data(url)' = answer.data
  BY <1>1 DEF Get, Stored, Hit, Data, CacheInv
<1>. QED
  BY <1>1, <1>2, <1>4, <1>5, <1>6 DEF Requested, Get

-----------------------------------------------------------------------------
(* The invariant *)

Reading == at.step \in {"members", "detail", "fill", "list"}

\* Where the sync is.
AtInv ==
  /\ todo \subseteq Builders
  /\ at.step \in Steps
  /\ Reading => at.builder \in Builders \ todo
  /\ at.step \in {"fill", "list"} => at.builder = "role"
  /\ at.page \in 0 .. Cardinality(CustomRoles)
  /\ at.step = "detail" => \A x \in at.left : x.who \in Members
  /\ people = [b \in Builders |-> people[b]]

\* A collaborator cache is made of the entries of the HTTP cache: of all members,
\* or while it is filled of those that are read.
Row(x) == [who |-> x.who, roles |-> x.roles, detail |-> Data(DetailUrl(x.who))]
Left(b) == IF at.step = "detail" /\ at.builder = b THEN at.left ELSE {}
MadeOfEntries(b) ==
  /\ Hit(MembersUrl)
  /\ Left(b) \subseteq Data(MembersUrl)
  /\ \A x \in Data(MembersUrl) \ Left(b) : Hit(DetailUrl(x.who))
  /\ people[b] = {Row(x) : x \in Data(MembersUrl) \ Left(b)}

PeopleInv ==
  steady /\ at.step # "idle" =>
    \A b \in Builders \ todo : MadeOfEntries(b) \/ (at.builder = b /\ at.step = "members")

\* The pages that the listing will read are entries, and their roles are known.
PageKnown(n) == Hit(PageUrl(n)) /\ Named(Data(PageUrl(n))) \subseteq Named(known)
Full(n) == Cardinality(Data(PageUrl(n))) = PageLimit
PagesKnown(last) == \A n \in 0 .. Cardinality(CustomRoles) : n < last => PageKnown(n) /\ Full(n)

NothingListed ==
  \/ "role" \in todo
  \/ at.builder = "role" /\ at.step \in {"members", "detail", "fill"}
  \/ at.step = "list" /\ at.page = 0

KnownInv ==
  steady /\ at.step # "idle" =>
    /\ NothingListed => listed = {}
    /\ listed \subseteq DOMAIN BaseRoles \cup Named(known)
    /\ at.step = "fill" => PagesKnown(at.page)
    /\ at.step = "list" =>
         \E last \in 0 .. Cardinality(CustomRoles) :
           at.page <= last /\ PagesKnown(last) /\ PageKnown(last) /\ ~ Full(last)

Inv == WorldInv /\ CacheInv /\ AtInv /\ PeopleInv /\ KnownInv

\* What is read stays as long as the entries do.
Grows == \A u \in Urls : Hit(u) => Hit(u)' /\ Data(u)' = Data(u)

\* A collaborator cache that is left alone stays made of entries.
LEMMA PeopleStay ==
  ASSUME CacheInv, Grows, NEW b, MadeOfEntries(b), people'[b] = people[b], Left(b)' = Left(b)
  PROVE  MadeOfEntries(b)'
<1>1. Hit(MembersUrl)' /\ Data(MembersUrl)' = Data(MembersUrl)
  BY UrlFacts DEF Grows, MadeOfEntries
<1>2. \A x \in Data(MembersUrl) : DetailUrl(x.who) \in Urls
  BY UrlFacts DEF CacheInv, Fits, Data
<1>3. ASSUME NEW x \in Data(MembersUrl) \ Left(b) PROVE Hit(DetailUrl(x.who))' /\ Row(x)' = Row(x)
  BY <1>2 DEF Grows, MadeOfEntries, Row
<1>4. {Row(x)' : x \in Data(MembersUrl) \ Left(b)} = {Row(x) : x \in Data(MembersUrl) \ Left(b)}
  BY <1>3
<1>. QED
  BY <1>1, <1>3, <1>4 DEF MadeOfEntries

\* Pages that are known stay known while the role cache loses no name.
LEMMA PagesStay ==
  ASSUME Grows, Named(known) \subseteq Named(known)'
  PROVE  /\ \A n \in 0 .. Cardinality(CustomRoles) : PageKnown(n) => PageKnown(n)' /\ Full(n)' = Full(n)
         /\ \A last : PagesKnown(last) => PagesKnown(last)'
<1>1. \A n \in 0 .. Cardinality(CustomRoles) : PageKnown(n) => PageKnown(n)' /\ Full(n)' = Full(n)
  BY UrlFacts DEF Grows, PageKnown, Full
<1>. QED
  BY <1>1 DEF PagesKnown

\* After the end of a sync there is nothing to say of it.
LEMMA EndKeeps ==
  ASSUME at' = Idle, todo' = {}, people' = [b \in Builders |-> people'[b]]
  PROVE  AtInv' /\ PeopleInv' /\ KnownInv'
<1>1. Cardinality(CustomRoles) \in Nat
  BY FS_CardinalityType, ListingAssumption
<1>2. at'.step = "idle" /\ at'.page = 0
  BY DEF Idle
<1>. QED
  BY <1>1, <1>2 DEF AtInv, Reading, Steps, PeopleInv, KnownInv

\* A request without an answer sends the builder back to its first page.
LEMMA RestartKeeps ==
  ASSUME Inv, CacheInv', Grows, Goto("members", at.builder, {}, 0), UNCHANGED <<todo, known, listed>>,
         at.step \in {"members", "detail", "fill"} \/ (at.step = "list" /\ at.page = 0),
         steady' => steady,
         people' = [b \in Builders |-> people'[b]],
         \A b \in Builders \ {at.builder} : people'[b] = people[b]
  PROVE  AtInv' /\ PeopleInv' /\ KnownInv'
<1>1. Cardinality(CustomRoles) \in Nat
  BY FS_CardinalityType, ListingAssumption
<1>2. /\ at'.step = "members" /\ at'.builder = at.builder /\ at'.page = 0 /\ todo' = todo
      /\ at.builder \in Builders \ todo /\ at.step # "idle"
  BY DEF Goto, Inv, AtInv, Reading
<1>3. AtInv'
  BY <1>1, <1>2 DEF Inv, AtInv, Reading, Steps
<1>4. PeopleInv'
  <2>. SUFFICES ASSUME steady', NEW b \in Builders \ todo, b # at.builder PROVE MadeOfEntries(b)'
    BY <1>2 DEF PeopleInv
  <2>1. MadeOfEntries(b)
    BY <1>2 DEF Inv, PeopleInv
  <2>2. Left(b)' = Left(b)
    BY <1>2 DEF Left
  <2>. QED
    BY <2>1, <2>2, PeopleStay DEF Inv
<1>5. KnownInv'
  <2>1. NothingListed' => NothingListed
    BY <1>2 DEF NothingListed
  <2>. QED
    BY <1>2, <2>1 DEF Inv, KnownInv
<1>. QED
  BY <1>3, <1>4, <1>5

\* The request that fails, in whichever step of a listing.
LEMMA BrokenKeeps ==
  ASSUME Inv, NEW url \in Urls, NEW answer \in Answers(url), Get(url, answer), Requested(url, answer), Broken(answer),
         UNCHANGED <<known, listed>>, Reading,
         people' = [b \in Builders |-> people'[b]],
         \A b \in Builders \ {at.builder} : people'[b] = people[b],
         at.step \in {"fill", "list"} => people' = people
  PROVE  AtInv' /\ PeopleInv' /\ KnownInv'
<1>1. CASE answer.kind # "none"
  BY <1>1, EndKeeps DEF Broken, End
<1>2. Grows /\ (steady' => steady) /\ CacheInv'
  BY DEF Requested, Grows
<1>3. CASE answer.kind = "none" /\ ~ (at.step = "list" /\ at.page > 0)
  <2>1. at.page \in Nat
    BY FS_CardinalityType, ListingAssumption DEF Inv, AtInv
  <2>2. Goto("members", at.builder, {}, 0) /\ UNCHANGED <<todo, known, listed>>
    BY <1>3 DEF Broken
  <2>3. at.step \in {"members", "detail", "fill"} \/ (at.step = "list" /\ at.page = 0)
    BY <1>3, <2>1 DEF Reading
  <2>. QED
    BY <1>2, <2>2, <2>3, RestartKeeps
<1>4. CASE answer.kind = "none" /\ at.step = "list" /\ at.page > 0
  <2>1. UNCHANGED <<at, todo, people, known, listed>>
    BY <1>4 DEF Broken
  <2>2. AtInv'
    BY <2>1 DEF Inv, AtInv, Reading
  <2>3. PeopleInv'
    <3>. SUFFICES ASSUME steady', NEW b \in Builders \ todo PROVE MadeOfEntries(b)'
      BY <2>1 DEF PeopleInv
    <3>1. MadeOfEntries(b) /\ Left(b)' = Left(b)
      BY <1>2, <1>4, <2>1 DEF Inv, PeopleInv, Left
    <3>. QED
      BY <1>2, <2>1, <3>1, PeopleStay DEF Inv
  <2>4. KnownInv'
    <3>. SUFFICES ASSUME steady' PROVE KnownInv'
      BY DEF KnownInv
    <3>1. Named(known)' = Named(known)
      BY <2>1 DEF Named
    <3>2. NothingListed' = NothingListed
      BY <2>1 DEF NothingListed
    <3>. QED
      BY <1>2, <1>4, <2>1, <3>1, <3>2, PagesStay DEF Inv, KnownInv
  <2>. QED
    BY <2>2, <2>3, <2>4
<1>. QED
  BY <1>1, <1>3, <1>4

-----------------------------------------------------------------------------
(* The steps of a sync *)

\* Nothing is listed at the beginning of a sync.
LEMMA BeginKeeps == ASSUME Inv, Begin PROVE Inv'
<1>1. Cardinality(CustomRoles) \in Nat
  BY FS_CardinalityType, ListingAssumption
<1>2. /\ at'.step = "choose" /\ at'.page = 0 /\ at'.builder = "none" /\ todo' = Builders /\ listed' = {}
      /\ UNCHANGED <<world, cache, people, known>>
  BY DEF Begin, Goto
<1>3. WorldInv' /\ CacheInv'
  BY <1>2 DEF Inv, WorldInv, CacheInv, world
<1>4. AtInv' /\ PeopleInv' /\ KnownInv'
  BY <1>1, <1>2 DEF Inv, AtInv, Reading, Steps, PeopleInv, KnownInv
<1>. QED
  BY <1>3, <1>4 DEF Inv

\* A builder begins: the caches of the others stay.
LEMMA ChooseKeeps == ASSUME Inv, NEW b \in Builders, Choose(b) PROVE Inv'
<1>1. Cardinality(CustomRoles) \in Nat
  BY FS_CardinalityType, ListingAssumption
<1>2. /\ at.step = "choose" /\ b \in todo /\ todo' = todo \ {b}
      /\ at'.step = "members" /\ at'.builder = b /\ at'.page = 0
      /\ UNCHANGED <<world, cache, people, known, listed, steady>>
  BY DEF Choose, Goto, caches, history
<1>3. WorldInv' /\ CacheInv' /\ Grows
  BY <1>2 DEF Inv, WorldInv, CacheInv, world, Grows, Hit, Data
<1>4. AtInv'
  BY <1>1, <1>2 DEF Inv, AtInv, Reading, Steps
<1>5. PeopleInv'
  <2>. SUFFICES ASSUME steady', NEW a \in Builders \ todo' , a # b PROVE MadeOfEntries(a)'
    BY <1>2 DEF PeopleInv
  <2>1. MadeOfEntries(a) /\ Left(a)' = Left(a)
    BY <1>2 DEF Inv, PeopleInv, Left
  <2>. QED
    BY <1>2, <1>3, <2>1, PeopleStay DEF Inv
<1>6. KnownInv'
  <2>1. NothingListed' => NothingListed
    BY <1>2 DEF NothingListed
  <2>. QED
    BY <1>2, <2>1 DEF Inv, KnownInv, Named
<1>. QED
  BY <1>3, <1>4, <1>5, <1>6 DEF Inv

\* The collaborator cache is emptied, and every member is left to be read.
LEMMA ReadMembersKeeps == ASSUME Inv, ReadMembers PROVE Inv'
<1>1. PICK answer \in Answers(MembersUrl) :
        /\ Get(MembersUrl, answer)
        /\ \/ doRequest(answer.kind) = "error" /\ Broken(answer)
           \/ /\ doRequest(answer.kind) = "nil"
              /\ Goto("detail", at.builder, answer.data, 0)
              /\ UNCHANGED <<todo, result>>
  BY DEF ReadMembers, MembersUrl
<1>2. /\ at.step = "members" /\ Reading /\ at.builder \in Builders \ todo
      /\ people' = [people EXCEPT ![at.builder] = {}]
      /\ UNCHANGED <<world, known, listed>>
  BY DEF ReadMembers, Reading, Inv, AtInv
<1>3. Requested(MembersUrl, answer)
  BY <1>1, UrlFacts, GetFacts DEF Inv
<1>4. WorldInv' /\ CacheInv' /\ Grows /\ (steady' => steady)
  BY <1>2, <1>3 DEF Inv, WorldInv, world, Requested, Grows
<1>5. /\ people' = [b \in Builders |-> people'[b]]
      /\ people'[at.builder] = {}
      /\ \A b \in Builders \ {at.builder} : people'[b] = people[b]
  BY <1>2 DEF Inv, AtInv
<1>6. CASE doRequest(answer.kind) = "error" /\ Broken(answer)
  BY <1>1, <1>2, <1>3, <1>4, <1>5, <1>6, UrlFacts, BrokenKeeps DEF Inv
<1>7. CASE /\ doRequest(answer.kind) = "nil"
           /\ Goto("detail", at.builder, answer.data, 0)
           /\ UNCHANGED <<todo, result>>
  <2>1. /\ at'.step = "detail" /\ at'.builder = at.builder /\ at'.left = answer.data /\ at'.page = 0
        /\ todo' = todo
    BY <1>7 DEF Goto
  <2>2. AtInv'
    <3>1. \A x \in answer.data : x.who \in Members
      BY <1>3, UrlFacts DEF Requested, Fits
    <3>2. Cardinality(CustomRoles) \in Nat
      BY FS_CardinalityType, ListingAssumption
    <3>. QED
      BY <1>2, <1>5, <2>1, <3>1, <3>2 DEF Inv, AtInv, Reading, Steps
  <2>3. PeopleInv'
    <3>. SUFFICES ASSUME steady', NEW b \in Builders \ todo PROVE MadeOfEntries(b)'
      BY <2>1 DEF PeopleInv
    <3>1. CASE b = at.builder
      <4>1. Hit(MembersUrl)' /\ Data(MembersUrl)' = answer.data /\ Left(b)' = answer.data
        BY <1>3, <1>7, <2>1, <3>1 DEF Requested, Left
      <4>. QED
        BY <1>5, <3>1, <4>1 DEF MadeOfEntries
    <3>2. CASE b # at.builder
      <4>1. MadeOfEntries(b) /\ Left(b)' = Left(b)
        BY <1>2, <1>4, <2>1, <3>2 DEF Inv, PeopleInv, Left
      <4>. QED
        BY <1>4, <1>5, <3>2, <4>1, PeopleStay DEF Inv
    <3>. QED
      BY <3>1, <3>2
  <2>4. KnownInv'
    <3>1. NothingListed' => NothingListed
      BY <1>2, <2>1 DEF NothingListed
    <3>. QED
      BY <1>2, <1>4, <2>1, <3>1 DEF Inv, KnownInv, Named
  <2>. QED
    BY <1>4, <2>2, <2>3, <2>4 DEF Inv
<1>. QED
  BY <1>1, <1>4, <1>6, <1>7 DEF Inv

\* One member more is in the collaborator cache and one less is left.
LEMMA ReadDetailKeeps == ASSUME Inv, ReadDetail PROVE Inv'
<1>1. /\ at.step = "detail" /\ Reading /\ at.builder \in Builders \ todo
      /\ UNCHANGED <<world, known, listed>>
  BY DEF ReadDetail, Reading, Inv, AtInv
<1>2. PICK x \in at.left : \E answer \in Answers(DetailUrl(x.who)) :
         /\ Get(DetailUrl(x.who), answer)
         /\ \/ doRequest(answer.kind) = "error" /\ Broken(answer) /\ UNCHANGED people
            \/ End("unreadable member", {}) /\ UNCHANGED people
            \/ /\ doRequest(answer.kind) = "nil"
               /\ people' = [people EXCEPT ![at.builder] =
                               @ \cup {[who |-> x.who, roles |-> x.roles, detail |-> answer.data]}]
               /\ Goto("detail", at.builder, at.left \ {x}, 0)
               /\ UNCHANGED <<todo, result>>
  BY DEF ReadDetail, DetailUrl
<1>. DEFINE url == DetailUrl(x.who)
<1>3. url \in Urls /\ x.who \in Members
  BY <1>1, UrlFacts DEF Inv, AtInv
<1>. HIDE DEF url
<1>4. PICK answer \in Answers(url) :
         /\ Get(url, answer)
         /\ \/ doRequest(answer.kind) = "error" /\ Broken(answer) /\ UNCHANGED people
            \/ End("unreadable member", {}) /\ UNCHANGED people
            \/ /\ doRequest(answer.kind) = "nil"
               /\ people' = [people EXCEPT ![at.builder] =
                               @ \cup {[who |-> x.who, roles |-> x.roles, detail |-> answer.data]}]
               /\ Goto("detail", at.builder, at.left \ {x}, 0)
               /\ UNCHANGED <<todo, result>>
  BY <1>2 DEF url
<1>5. Requested(url, answer)
  BY <1>3, <1>4, GetFacts DEF Inv
<1>6. WorldInv' /\ CacheInv' /\ Grows /\ (steady' => steady)
  BY <1>1, <1>5 DEF Inv, WorldInv, world, Requested, Grows
<1>7. CASE doRequest(answer.kind) = "error" /\ Broken(answer) /\ UNCHANGED people
  <2>1. people' = [b \in Builders |-> people'[b]] /\ \A b \in Builders : people'[b] = people[b]
    BY <1>7 DEF Inv, AtInv
  <2>. QED
    BY <1>1, <1>3, <1>4, <1>5, <1>6, <1>7, <2>1, BrokenKeeps DEF Inv
<1>8. CASE End("unreadable member", {}) /\ UNCHANGED people
  <2>1. people' = [b \in Builders |-> people'[b]]
    BY <1>8 DEF Inv, AtInv
  <2>. QED
    BY <1>6, <1>8, <2>1, EndKeeps DEF Inv, End
<1>9. CASE /\ doRequest(answer.kind) = "nil"
           /\ people' = [people EXCEPT ![at.builder] =
                           @ \cup {[who |-> x.who, roles |-> x.roles, detail |-> answer.data]}]
           /\ Goto("detail", at.builder, at.left \ {x}, 0)
           /\ UNCHANGED <<todo, result>>
  <2>1. /\ at'.step = "detail" /\ at'.builder = at.builder /\ at'.left = at.left \ {x} /\ at'.page = 0
        /\ todo' = todo
    BY <1>9 DEF Goto
  <2>2. /\ people' = [b \in Builders |-> people'[b]]
        /\ people'[at.builder] = people[at.builder] \cup {[who |-> x.who, roles |-> x.roles, detail |-> answer.data]}
        /\ \A b \in Builders \ {at.builder} : people'[b] = people[b]
    BY <1>1, <1>9 DEF Inv, AtInv
  <2>3. AtInv'
    <3>1. Cardinality(CustomRoles) \in Nat
      BY FS_CardinalityType, ListingAssumption
    <3>. QED
      BY <1>1, <2>1, <2>2, <3>1 DEF Inv, AtInv, Reading, Steps
  <2>4. PeopleInv'
    <3>. SUFFICES ASSUME steady', NEW b \in Builders \ todo PROVE MadeOfEntries(b)'
      BY <2>1 DEF PeopleInv
    <3>1. MadeOfEntries(b) /\ steady
      BY <1>1, <1>6 DEF Inv, PeopleInv
    <3>2. CASE b = at.builder
      <4>. DEFINE all == Data(MembersUrl)
      <4>1. /\ Hit(MembersUrl)' /\ all' = all
            /\ Left(b) = at.left /\ Left(b)' = at.left \ {x} /\ x \in at.left /\ at.left \subseteq all
        BY <1>1, <1>6, <2>1, <3>1, <3>2, UrlFacts DEF MadeOfEntries, Left, Grows
      <4>2. all \ Left(b)' = (all \ Left(b)) \cup {x}
        BY <4>1
      <4>3. Hit(url)' /\ Row(x)' = [who |-> x.who, roles |-> x.roles, detail |-> answer.data]
        BY <1>5, <1>9 DEF Requested, Row, url
      <4>4. \A y \in all : DetailUrl(y.who) \in Urls
        BY UrlFacts DEF Inv, CacheInv, Fits, Data
      <4>5. \A y \in all \ Left(b) : Hit(DetailUrl(y.who))' /\ Row(y)' = Row(y)
        BY <1>6, <3>1, <4>4 DEF MadeOfEntries, Grows, Row
      <4>6. {Row(y)' : y \in all \ Left(b)'} = {Row(y) : y \in all \ Left(b)} \cup {Row(x)'}
        BY <4>2, <4>5
      <4>. QED
        BY <2>2, <3>1, <3>2, <4>1, <4>2, <4>3, <4>5, <4>6 DEF MadeOfEntries, url
    <3>3. CASE b # at.builder
      <4>1. Left(b)' = Left(b)
        BY <2>1, <3>3 DEF Left
      <4>. QED
        BY <1>6, <2>2, <3>1, <3>3, <4>1, PeopleStay DEF Inv
    <3>. QED
      BY <3>2, <3>3
  <2>5. KnownInv'
    <3>1. NothingListed' => NothingListed
      BY <1>1, <2>1 DEF NothingListed
    <3>. QED
      BY <1>1, <1>6, <2>1, <3>1 DEF Inv, KnownInv, Named
  <2>. QED
    BY <1>6, <2>3, <2>4, <2>5 DEF Inv
<1>. QED
  BY <1>4, <1>7, <1>8, <1>9

\* No member is left; the role cache is emptied before anything is listed.
LEMMA MembersReadKeeps == ASSUME Inv, MembersRead PROVE Inv'
<1>1. Cardinality(CustomRoles) \in Nat
  BY FS_CardinalityType, ListingAssumption
<1>2. /\ at.step = "detail" /\ at.left = {} /\ at.builder \in Builders \ todo
      /\ UNCHANGED <<world, cache, people, listed, todo, steady>>
  BY DEF MembersRead, Inv, AtInv, Reading, history
<1>3. WorldInv' /\ CacheInv' /\ Grows
  BY <1>2 DEF Inv, WorldInv, CacheInv, world, Grows, Hit, Data
<1>4. \/ at.builder = "privilege" /\ at'.step = "choose" /\ at'.page = 0 /\ UNCHANGED known
      \/ at.builder = "role" /\ at'.step = "fill" /\ at'.builder = "role" /\ at'.page = 0 /\ known' = {}
  BY DEF MembersRead, Goto
<1>5. AtInv'
  BY <1>1, <1>2, <1>4 DEF Inv, AtInv, Reading, Steps
<1>6. PeopleInv'
  <2>. SUFFICES ASSUME steady', NEW b \in Builders \ todo PROVE MadeOfEntries(b)'
    BY <1>2 DEF PeopleInv
  <2>1. MadeOfEntries(b) /\ Left(b)' = Left(b)
    BY <1>2, <1>4 DEF Inv, PeopleInv, Left
  <2>. QED
    BY <1>2, <1>3, <2>1, PeopleStay DEF Inv
<1>7. KnownInv'
  <2>1. NothingListed' => NothingListed
    BY <1>2, <1>4 DEF NothingListed
  <2>2. CASE at.builder = "privilege" /\ at'.step = "choose" /\ at'.page = 0 /\ UNCHANGED known
    BY <1>2, <2>1, <2>2 DEF Inv, KnownInv, Named
  <2>3. CASE at.builder = "role" /\ at'.step = "fill" /\ at'.builder = "role" /\ at'.page = 0 /\ known' = {}
    <3>1. steady => listed = {}
      BY <1>2, <2>3 DEF Inv, KnownInv, NothingListed
    <3>2. PagesKnown(at.page)'
      BY <1>1, <2>3 DEF PagesKnown
    <3>. QED
      BY <1>2, <2>3, <3>1, <3>2 DEF KnownInv
  <2>. QED
    BY <1>4, <2>2, <2>3
<1>. QED
  BY <1>3, <1>5, <1>6, <1>7 DEF Inv

\* No role is lost from the role cache when a page is put into it.
LEMMA KnownGrows ==
  ASSUME NEW data, known' = {r \in known : r.name \notin Named(data)} \cup data
  PROVE  Named(known)' = Named(known) \cup Named(data)
BY DEF Named

\* A full page is followed by one that may be there.
LEMMA FullIsInner ==
  ASSUME NEW n \in 0 .. Cardinality(CustomRoles), NEW data, Fits(PageUrl(n), data), Cardinality(data) = PageLimit
  PROVE  n + 1 \in 0 .. Cardinality(CustomRoles)
<1>1. Cardinality(CustomRoles) \in Nat
  BY FS_CardinalityType, ListingAssumption
<1>2. data # {}
  BY FS_EmptySet, ListingAssumption
<1>3. n < Cardinality(CustomRoles)
  BY <1>2, UrlFacts DEF Fits
<1>. QED
  BY <1>1, <1>3

\* A page is put into the role cache; the last page is the one that is not full.
LEMMA FillRolesKeeps == ASSUME Inv, FillRoles PROVE Inv'
<1>1. /\ at.step = "fill" /\ Reading /\ at.builder = "role" /\ at.builder \in Builders \ todo
      /\ at.page \in 0 .. Cardinality(CustomRoles)
      /\ UNCHANGED <<world, people, listed>>
  BY DEF FillRoles, Reading, Inv, AtInv
<1>2. PICK p \in 0 .. Cardinality(CustomRoles) : p = at.page
  BY <1>1
<1>. DEFINE url == PageUrl(p)
<1>3. PICK answer \in Answers(url) :
        /\ Get(url, answer)
        /\ \/ doRequest(answer.kind) = "error" /\ Broken(answer) /\ UNCHANGED known
           \/ /\ doRequest(answer.kind) = "nil"
              /\ known' = {r \in known : r.name \notin Named(answer.data)} \cup answer.data
              /\ IF Cardinality(answer.data) = PageLimit
                 THEN Goto("fill", "role", {}, p + 1) ELSE Goto("list", "role", {}, 0)
              /\ UNCHANGED <<todo, result>>
  BY <1>2 DEF FillRoles, PageUrl
<1>4. url \in Urls
  BY <1>1, UrlFacts
<1>5. Requested(url, answer)
  BY <1>3, <1>4, GetFacts DEF Inv
<1>6. WorldInv' /\ CacheInv' /\ Grows /\ (steady' => steady)
  BY <1>1, <1>5 DEF Inv, WorldInv, world, Requested, Grows
<1>7. people' = [b \in Builders |-> people'[b]] /\ \A b \in Builders : people'[b] = people[b]
  BY <1>1 DEF Inv, AtInv
<1>8. CASE doRequest(answer.kind) = "error" /\ Broken(answer) /\ UNCHANGED known
  BY <1>1, <1>3, <1>4, <1>5, <1>6, <1>7, <1>8, BrokenKeeps DEF Inv
<1>9. CASE /\ doRequest(answer.kind) = "nil"
           /\ known' = {r \in known : r.name \notin Named(answer.data)} \cup answer.data
           /\ IF Cardinality(answer.data) = PageLimit
              THEN Goto("fill", "role", {}, p + 1) ELSE Goto("list", "role", {}, 0)
           /\ UNCHANGED <<todo, result>>
  <2>1. /\ at'.builder = "role" /\ todo' = todo /\ at'.step \in {"fill", "list"}
        /\ at'.step = "fill" => Cardinality(answer.data) = PageLimit /\ at'.page = p + 1
        /\ at'.step = "list" => Cardinality(answer.data) # PageLimit /\ at'.page = 0
    BY <1>9 DEF Goto
  <2>2. Cardinality(CustomRoles) \in Nat
    BY FS_CardinalityType, ListingAssumption
  <2>3. at'.page \in 0 .. Cardinality(CustomRoles)
    <3>1. Fits(PageUrl(p), answer.data)
      BY <1>5 DEF Requested
    <3>. QED
      BY <2>1, <2>2, <3>1, FullIsInner
  <2>4. AtInv'
    BY <1>1, <1>7, <2>1, <2>3 DEF Inv, AtInv, Reading, Steps
  <2>5. PeopleInv'
    <3>. SUFFICES ASSUME steady', NEW b \in Builders \ todo PROVE MadeOfEntries(b)'
      BY <2>1 DEF PeopleInv
    <3>1. MadeOfEntries(b) /\ Left(b)' = Left(b)
      BY <1>1, <1>6, <2>1 DEF Inv, PeopleInv, Left
    <3>. QED
      BY <1>6, <1>7, <3>1, PeopleStay DEF Inv
  <2>6. KnownInv'
    <3>. SUFFICES ASSUME steady' PROVE KnownInv'
      BY DEF KnownInv
    <3>1. listed = {} /\ PagesKnown(at.page)
      BY <1>1, <1>6 DEF Inv, KnownInv, NothingListed
    <3>2. Named(known)' = Named(known) \cup Named(answer.data)
      BY <1>9, KnownGrows
    <3>3. \A n \in 0 .. Cardinality(CustomRoles) : n < p => PageKnown(n)' /\ Full(n)'
      BY <1>2, <1>6, <3>1, <3>2, PagesStay DEF PagesKnown
    <3>4. PageKnown(p)' /\ (Full(p)' <=> Cardinality(answer.data) = PageLimit)
      BY <1>5, <1>9, <3>2, <3>3 DEF Requested, PageKnown, Full
    <3>5. CASE at'.step = "fill"
      <4>1. \A n \in 0 .. Cardinality(CustomRoles) : n < p + 1 => n < p \/ n = p
        BY <2>2
      <4>2. PagesKnown(at.page)'
        BY <2>1, <3>3, <3>4, <3>5, <4>1 DEF PagesKnown
      <4>. QED
        BY <1>1, <3>1, <3>5, <4>2 DEF KnownInv
    <3>6. CASE at'.step = "list"
      <4>1. at'.page <= p /\ PagesKnown(p)' /\ PageKnown(p)' /\ ~ Full(p)'
        BY <2>1, <2>2, <3>3, <3>4, <3>6 DEF PagesKnown
      <4>. QED
        BY <1>1, <3>1, <3>6, <4>1 DEF KnownInv
    <3>. QED
      BY <2>1, <3>5, <3>6
  <2>. QED
    BY <1>6, <2>4, <2>5, <2>6 DEF Inv
<1>. QED
  BY <1>3, <1>6, <1>8, <1>9 DEF Inv

\* A page is listed that the role cache has seen.
LEMMA ListRolesKeeps == ASSUME Inv, ListRoles PROVE Inv'
<1>1. /\ at.step = "list" /\ Reading /\ at.builder = "role" /\ at.builder \in Builders \ todo
      /\ at.page \in 0 .. Cardinality(CustomRoles)
      /\ UNCHANGED <<world, people, known>>
  BY DEF ListRoles, Reading, Inv, AtInv
<1>2. PICK p \in 0 .. Cardinality(CustomRoles) : p = at.page
  BY <1>1
<1>. DEFINE url == PageUrl(p)
<1>3. PICK answer \in Answers(url) :
        /\ Get(url, answer)
        /\ \/ doRequest(answer.kind) = "error" /\ Broken(answer) /\ UNCHANGED listed
           \/ /\ doRequest(answer.kind) = "nil"
              /\ listed' = listed \cup Named(answer.data) \cup DOMAIN BaseRoles
              /\ IF Cardinality(answer.data) = PageLimit
                 THEN Goto("list", "role", {}, p + 1) ELSE Goto("choose", "none", {}, 0)
              /\ UNCHANGED <<todo, result>>
  BY <1>2 DEF ListRoles, PageUrl
<1>4. url \in Urls
  BY <1>1, UrlFacts
<1>5. Requested(url, answer)
  BY <1>3, <1>4, GetFacts DEF Inv
<1>6. WorldInv' /\ CacheInv' /\ Grows /\ (steady' => steady)
  BY <1>1, <1>5 DEF Inv, WorldInv, world, Requested, Grows
<1>7. people' = [b \in Builders |-> people'[b]] /\ \A b \in Builders : people'[b] = people[b]
  BY <1>1 DEF Inv, AtInv
<1>8. CASE doRequest(answer.kind) = "error" /\ Broken(answer) /\ UNCHANGED listed
  BY <1>1, <1>3, <1>4, <1>5, <1>6, <1>7, <1>8, BrokenKeeps DEF Inv
<1>9. CASE /\ doRequest(answer.kind) = "nil"
           /\ listed' = listed \cup Named(answer.data) \cup DOMAIN BaseRoles
           /\ IF Cardinality(answer.data) = PageLimit
              THEN Goto("list", "role", {}, p + 1) ELSE Goto("choose", "none", {}, 0)
           /\ UNCHANGED <<todo, result>>
  <2>1. /\ todo' = todo /\ at'.step \in {"list", "choose"}
        /\ at'.step = "list" => at'.builder = "role" /\ Cardinality(answer.data) = PageLimit /\ at'.page = p + 1
        /\ at'.step = "choose" => at'.page = 0 /\ at'.builder = "none"
    BY <1>9 DEF Goto
  <2>2. Cardinality(CustomRoles) \in Nat
    BY FS_CardinalityType, ListingAssumption
  <2>3. at'.page \in 0 .. Cardinality(CustomRoles)
    <3>1. Fits(PageUrl(p), answer.data)
      BY <1>5 DEF Requested
    <3>. QED
      BY <2>1, <2>2, <3>1, FullIsInner
  <2>4. AtInv'
    BY <1>1, <1>7, <2>1, <2>3 DEF Inv, AtInv, Reading, Steps
  <2>5. PeopleInv'
    <3>. SUFFICES ASSUME steady', NEW b \in Builders \ todo PROVE MadeOfEntries(b)'
      BY <2>1 DEF PeopleInv
    <3>1. MadeOfEntries(b) /\ Left(b)' = Left(b)
      BY <1>1, <1>6, <2>1 DEF Inv, PeopleInv, Left
    <3>. QED
      BY <1>6, <1>7, <3>1, PeopleStay DEF Inv
  <2>6. KnownInv'
    <3>. SUFFICES ASSUME steady' PROVE KnownInv'
      BY DEF KnownInv
    <3>1. PICK last \in 0 .. Cardinality(CustomRoles) :
            p <= last /\ PagesKnown(last) /\ PageKnown(last) /\ ~ Full(last)
      BY <1>1, <1>2, <1>6 DEF Inv, KnownInv
    <3>2. p < last \/ p = last
      BY <2>2, <3>1
    <3>3. PageKnown(p)
      BY <3>1, <3>2 DEF PagesKnown
    <3>4. answer.data = Data(PageUrl(p)) /\ Named(answer.data) \subseteq Named(known)
      BY <1>5, <3>3 DEF Requested, PageKnown
    <3>5. listed' \subseteq DOMAIN BaseRoles \cup Named(known)'
      BY <1>1, <1>6, <1>9, <3>4 DEF Inv, KnownInv, Named
    <3>6. ~ NothingListed'
      BY <1>1, <2>1, <2>2 DEF NothingListed
    <3>7. ASSUME at'.step = "list"
          PROVE  at'.page <= last /\ PagesKnown(last)' /\ PageKnown(last)' /\ ~ Full(last)'
      <4>1. Full(p)
        BY <2>1, <3>4, <3>7 DEF Full
      <4>2. p + 1 <= last
        BY <2>2, <3>1, <3>2, <4>1
      <4>3. Named(known)' = Named(known)
        BY <1>1 DEF Named
      <4>. QED
        BY <1>6, <2>1, <3>1, <3>7, <4>2, <4>3, PagesStay
    <3>. QED
      BY <2>1, <3>5, <3>6, <3>7 DEF KnownInv
  <2>. QED
    BY <1>6, <2>4, <2>5, <2>6 DEF Inv
<1>. QED
  BY <1>3, <1>6, <1>8, <1>9 DEF Inv

\* The sync ends and may clear the HTTP cache.
LEMMA FinishKeeps == ASSUME Inv, Finish PROVE Inv'
<1>1. at' = Idle /\ todo' = {} /\ UNCHANGED <<world, people>>
  BY DEF Finish, End, caches
<1>2. WorldInv' /\ people' = [b \in Builders |-> people'[b]]
  BY <1>1 DEF Inv, WorldInv, AtInv, world
<1>3. cache' = cache \/ cache' = [u \in Urls |-> NoEntry]
  BY DEF Finish
<1>4. CacheInv'
  <2>1. CASE cache' = cache
    BY <2>1 DEF Inv, CacheInv
  <2>2. CASE cache' = [u \in Urls |-> NoEntry]
    BY <2>2, ServedFits DEF Inv, CacheInv, NoEntry
  <2>. QED
    BY <1>3, <2>1, <2>2
<1>. QED
  BY <1>1, <1>2, <1>4, EndKeeps DEF Inv

-----------------------------------------------------------------------------
(* The other steps *)

\* The sync itself stands still.
Elsewhere == UNCHANGED <<caches, at, todo>> /\ (steady' => steady)

\* A step that leaves the sync and its entries alone keeps the invariant.
LEMMA ElsewhereKeeps ==
  ASSUME Inv, WorldInv', CacheInv', steady' => Grows, Elsewhere
  PROVE  Inv'
<1>1. UNCHANGED <<people, known, listed, at, todo>> /\ (steady' => steady /\ Grows)
  BY DEF Elsewhere, caches
<1>2. AtInv'
  BY <1>1 DEF Inv, AtInv, Reading
<1>3. PeopleInv'
  <2>. SUFFICES ASSUME steady', at.step # "idle", NEW b \in Builders \ todo,
                       ~ (at.builder = b /\ at.step = "members")
                PROVE  MadeOfEntries(b)'
    BY <1>1 DEF PeopleInv
  <2>1. MadeOfEntries(b) /\ Left(b)' = Left(b)
    BY <1>1 DEF Inv, PeopleInv, Left
  <2>. QED
    BY <1>1, <2>1, PeopleStay DEF Inv
<1>4. KnownInv'
  <2>. SUFFICES ASSUME steady' PROVE KnownInv'
    BY DEF KnownInv
  <2>1. Named(known)' = Named(known) /\ NothingListed' = NothingListed
    BY <1>1 DEF Named, NothingListed
  <2>. QED
    BY <1>1, <2>1, PagesStay DEF Inv, KnownInv
<1>. QED
  BY <1>2, <1>3, <1>4 DEF Inv

\* The workspace changes; the entries do not.
LEMMA WorldKeeps == ASSUME Inv, World PROVE Inv'
<1>1. UNCHANGED cache /\ Elsewhere
  <2>1. Change
    BY DEF World, CreateRole, DeleteRole, Assign
  <2>. QED
    BY <2>1 DEF Change, Elsewhere
<1>2. CacheInv' /\ Grows
  BY <1>1 DEF Inv, CacheInv, Grows, Hit, Data
<1>3. WorldInv'
  <2>1. ASSUME NEW name \in CustomRoles, NEW param \in Params, CreateRole(name, param) PROVE WorldInv'
    <3>. DEFINE r == [name |-> name, privileges |-> param]
    <3>1. r \in RoleRecords /\ r.name \notin Names
      BY <2>1 DEF RoleRecords, CreateRole
    <3>2. PICK i \in 0 .. Len(custom) :
            custom' = SubSeq(custom, 1, i) \o <<r>> \o SubSeq(custom, i + 1, Len(custom))
      BY <2>1 DEF CreateRole
    <3>. HIDE DEF r
    <3>. QED
      BY <3>1, <3>2, InsertKeeps DEF Inv
  <2>2. ASSUME NEW i \in DOMAIN custom, DeleteRole(i) PROVE WorldInv'
    BY <2>2, DeleteKeeps DEF DeleteRole, Inv
  <2>3. ASSUME NEW m \in Members, NEW roles \in RoleLists, Assign(m, roles) PROVE WorldInv'
    BY <2>3 DEF Assign, Inv, WorldInv
  <2>. QED
    BY <2>1, <2>2, <2>3 DEF World
<1>. QED
  BY <1>1, <1>2, <1>3, ElsewhereKeeps

\* A grant task adds an entry.
LEMMA PrefetchKeeps == ASSUME Inv, NEW m \in Members, Prefetch(m) PROVE Inv'
<1>. DEFINE url == DetailUrl(m)
<1>1. /\ ~ Hit(url)
      /\ cache' = [cache EXCEPT ![url] = [stored |-> TRUE, data |-> Served(url), since |-> syncs]]
      /\ Elsewhere /\ UNCHANGED world
  BY DEF Prefetch, Hit, DetailUrl, Elsewhere, history
<1>2. url \in Urls /\ Fits(url, Served(url))
  BY UrlFacts, ServedFits DEF Inv
<1>. HIDE DEF url
<1>3. /\ cache' = [u \in Urls |-> cache'[u]]
      /\ \A u \in Urls \ {url} : cache'[u] = cache[u]
      /\ cache'[url].stored = TRUE /\ cache'[url].data = Served(url)
  BY <1>1, <1>2 DEF Inv, CacheInv
<1>4. CacheInv' /\ Grows
  BY <1>1, <1>2, <1>3 DEF Inv, CacheInv, Grows, Hit, Data
<1>5. WorldInv'
  BY <1>1 DEF Inv, WorldInv, world
<1>. QED
  BY <1>1, <1>4, <1>5, ElsewhereKeeps

\* An entry goes, and with it the claim that the sync is steady.
LEMMA ExpireKeeps == ASSUME Inv, NEW url \in Urls, Expire(url) PROVE Inv'
<1>1. /\ cache' = [cache EXCEPT ![url] = NoEntry]
      /\ Elsewhere /\ ~ steady' /\ UNCHANGED world
  BY DEF Expire, Elsewhere
<1>2. /\ cache' = [u \in Urls |-> cache'[u]]
      /\ \A u \in Urls \ {url} : cache'[u] = cache[u]
      /\ cache'[url].stored = FALSE /\ cache'[url].data = {}
  BY <1>1 DEF Inv, CacheInv, NoEntry
<1>3. CacheInv'
  BY <1>2, ServedFits DEF Inv, CacheInv
<1>4. WorldInv'
  BY <1>1 DEF Inv, WorldInv, world
<1>. QED
  BY <1>1, <1>3, <1>4, ElsewhereKeeps

-----------------------------------------------------------------------------
(* The theorems *)

\* Initially nothing is cached.
LEMMA InitInv == Init => Inv
<1>. SUFFICES ASSUME Init PROVE Inv
  OBVIOUS
<1>1. WorldInv
  <2>1. PICK names \in SUBSET CustomRoles :
          custom \in {s \in [1 .. Cardinality(names) -> [name : names, privileges : Params]] :
                        \A i, j \in DOMAIN s : s[i].name = s[j].name => i = j}
    BY DEF Init
  <2>2. IsFiniteSet(names) /\ Cardinality(names) \in Nat
    BY FS_Subset, FS_CardinalityType, ListingAssumption
  <2>3. Distinct(custom) /\ custom \in [1 .. Cardinality(names) -> [name : names, privileges : Params]]
    BY <2>1 DEF Distinct
  <2>4. custom \in [1 .. Cardinality(names) -> RoleRecords]
    BY <2>3 DEF RoleRecords
  <2>. QED
    BY <2>2, <2>3, <2>4 DEF WorldInv
<1>2. CacheInv
  BY <1>1, ServedFits DEF Init, CacheInv, NoEntry
<1>3. Cardinality(CustomRoles) \in Nat
  BY FS_CardinalityType, ListingAssumption
<1>4. at.step = "idle" /\ at.page = 0 /\ todo = {} /\ people = [b \in Builders |-> {}]
  BY DEF Init, Idle
<1>5. AtInv /\ PeopleInv /\ KnownInv
  BY <1>3, <1>4 DEF AtInv, Reading, Steps, PeopleInv, KnownInv
<1>. QED
  BY <1>1, <1>2, <1>5 DEF Inv

\* Every step keeps the invariant.
LEMMA NextInv == Inv /\ [Next]_vars => Inv'
<1>. SUFFICES ASSUME Inv, [Next]_vars PROVE Inv'
  OBVIOUS
<1>1. CASE Sync
  BY <1>1, BeginKeeps, ChooseKeeps, ReadMembersKeeps, ReadDetailKeeps, MembersReadKeeps,
     FillRolesKeeps, ListRolesKeeps, FinishKeeps DEF Sync
<1>2. CASE World
  BY <1>2, WorldKeeps
<1>3. CASE \E m \in Members : Prefetch(m)
  BY <1>3, PrefetchKeeps
<1>4. CASE \E url \in Urls : Expire(url)
  BY <1>4, ExpireKeeps
<1>5. CASE UNCHANGED vars
  <2>1. UNCHANGED cache /\ Elsewhere /\ UNCHANGED world
    BY <1>5 DEF vars, Elsewhere, history
  <2>2. CacheInv' /\ Grows /\ WorldInv'
    BY <2>1 DEF Inv, CacheInv, Grows, Hit, Data, WorldInv, world
  <2>. QED
    BY <2>1, <2>2, ElsewhereKeeps
<1>. QED
  BY <1>1, <1>2, <1>3, <1>4, <1>5 DEF Next

\* The invariant holds in every behaviour.
LEMMA Invariance == Spec => []Inv
<1>1. Init => Inv
  BY InitInv
<1>2. Inv /\ [Next]_vars => Inv'
  BY NextInv
<1>. QED
  BY <1>1, <1>2, PTL DEF Spec

\* However the workspace changes between two requests of a sync, and whatever the
\* failures that are reported, the listing of roles and the role cache of role.go
\* fit together: no grant fails with "role not found", for every workspace, page
\* limit and number of syncs.
THEOREM ListedKnown == Spec => []ListedAreKnown
<1>1. Inv => ListedAreKnown
  BY DEF Inv, KnownInv, ListedAreKnown, Missing, IsBaseRole
<1>. QED
  BY <1>1, Invariance, PTL

\* The collaborator caches that the privilege and the role builder fill from
\* separate requests are the same, for every workspace and every order of the two.
THEOREM Agree == Spec => []BuildersAgree
<1>1. Inv => BuildersAgree
  <2>. SUFFICES ASSUME Inv, steady, at.step = "choose", todo = {} PROVE people["privilege"] = people["role"]
    BY DEF BuildersAgree
  <2>1. \A b \in Builders : MadeOfEntries(b) /\ Left(b) = {}
    BY DEF Inv, PeopleInv, Left
  <2>2. \A b \in Builders : people[b] = {Row(x) : x \in Data(MembersUrl)}
    BY <2>1 DEF MadeOfEntries
  <2>. QED
    BY <2>2 DEF Builders
<1>. QED
  BY <1>1, Invariance, PTL

-----------------------------------------------------------------------------
(* Types *)

RoleSets == SUBSET [env : Environments, name : CustomRoles \cup GivenRoles]
ParamSets == Params \cup {Table, analystBaseRoles, operatorBaseRoles}
Details == SUBSET [env : Environments, privileges : ParamSets]
Entries == [who : Members, roles : RoleSets]

\* What an answer for the URL holds.
DataOf(url) ==
  IF url[1] = "members" THEN SUBSET Entries ELSE IF url[1] = "detail" THEN Details ELSE SUBSET RoleRecords

\* A member has only roles that exist.
AssignedInv == assigned \in [Members -> SUBSET [env : Environments, name : Names \cup GivenRoles]]

EntriesInv == \A u \in Urls : /\ cache[u].data \in DataOf(u)
                              /\ cache[u].since \in Nat /\ cache[u].since <= syncs

RowsInv == \A b \in Builders : \A x \in people[b] : x \in Users /\ Cardinality(x.detail) = 1

\* What the sync has read.
ReadInv ==
  /\ at.step = "detail" => at.left \subseteq Entries
  /\ RowsInv
  /\ known \subseteq RoleRecords
  /\ listed \subseteq CustomRoles \cup DOMAIN BaseRoles

\* What the syncs have come to.
ResultInv ==
  /\ outcome \in Outcomes /\ (store # {} => outcome = "done")
  /\ syncs \in Nat /\ syncs <= MaxSyncs
  /\ at.step # "idle" => syncs < MaxSyncs

BoundsInv ==
  /\ changes \in Nat /\ changes <= MaxChanges
  /\ faults \in Nat /\ faults <= MaxFaults
  /\ calm \in BOOLEAN /\ steady \in BOOLEAN /\ lasting \subseteq CustomRoles

TypeInv == AssignedInv /\ EntriesInv /\ ReadInv /\ ResultInv /\ BoundsInv

\* Roles have names of custom roles.
LEMMA NamesTyped == ASSUME WorldInv PROVE Names \subseteq CustomRoles
<1>1. \A i \in DOMAIN custom : custom[i] \in RoleRecords
  BY DEF WorldInv
<1>. QED
  BY <1>1 DEF Names, RoleRecords

\* The roles that every workspace has.
LEMMA BaseNames == DOMAIN BaseRoles = {"Admin", "Analyst", "Operator"}
BY DEF BaseRoles

\* The privileges that Workato writes for a role of a member.
LEMMA ParamTyped ==
  ASSUME WorldInv, NEW name \in Names \cup GivenRoles
  PROVE  ParamOf(name) \in ParamSets
<1>1. CASE name \in GivenRoles
  <2>1. name \in {"Admin", "Analyst", "Operator"}
    BY <1>1, BaseNames, ListingAssumption
  <2>2. name = "Admin" => ParamOf(name) = Table
    BY DEF ParamOf
  <2>3. name = "Analyst" => ParamOf(name) = analystBaseRoles
    BY DEF ParamOf
  <2>4. name = "Operator" => ParamOf(name) = operatorBaseRoles
    BY DEF ParamOf
  <2>. QED
    BY <2>1, <2>2, <2>3, <2>4 DEF ParamSets
<1>2. CASE name \in Names
  <2>1. name \notin {"Admin", "Analyst", "Operator"}
    BY <1>2, NamesTyped, BaseNames, ListingAssumption
  <2>2. \E r \in {custom[i] : i \in DOMAIN custom} : r.name = name
    BY <1>2 DEF Names
  <2>. DEFINE r == CHOOSE r \in {custom[i] : i \in DOMAIN custom} : r.name = name
  <2>3. r \in {custom[i] : i \in DOMAIN custom}
    BY <2>2
  <2>4. ParamOf(name) = r.privileges
    BY <2>1 DEF ParamOf
  <2>. HIDE DEF r
  <2>5. r \in RoleRecords
    <3>1. \A i \in DOMAIN custom : custom[i] \in RoleRecords
      BY DEF WorldInv
    <3>. QED
      BY <2>3, <3>1
  <2>. QED
    BY <2>4, <2>5 DEF RoleRecords, ParamSets
<1>. QED
  BY <1>1, <1>2

\* What the workspace answers has its type.
LEMMA ServedTyped ==
  ASSUME WorldInv, AssignedInv, NEW u \in Urls
  PROVE  Served(u) \in DataOf(u) /\ {} \in DataOf(u)
<1>1. {} \in DataOf(u)
  BY DEF DataOf, Details
<1>2. CASE u = MembersUrl
  <2>1. \A m \in Members : assigned[m] \in RoleSets
    BY NamesTyped DEF AssignedInv, RoleSets
  <2>2. {[who |-> m, roles |-> assigned[m]] : m \in Members} \subseteq Entries
    BY <2>1 DEF Entries
  <2>. QED
    BY <1>1, <1>2, <2>2, UrlFacts DEF Served, DataOf
<1>3. CASE \E m \in Members : u = DetailUrl(m)
  <2>1. PICK m \in Members : u = DetailUrl(m)
    BY <1>3
  <2>2. u[1] = "detail" /\ u[2] = m
    BY <2>1 DEF DetailUrl
  <2>3. \A r \in assigned[m] : r.env \in Environments /\ r.name \in Names \cup GivenRoles
    BY DEF AssignedInv
  <2>4. \A r \in assigned[m] : ParamOf(r.name) \in ParamSets
    BY <2>3, ParamTyped
  <2>5. {[env |-> r.env, privileges |-> ParamOf(r.name)] : r \in assigned[m]} \in Details
    BY <2>3, <2>4 DEF Details
  <2>. QED
    BY <1>1, <2>2, <2>5 DEF Served, DataOf
<1>4. CASE \E n \in 0 .. Cardinality(CustomRoles) : u = PageUrl(n)
  <2>1. PICK n \in 0 .. Cardinality(CustomRoles) : u = PageUrl(n)
    BY <1>4
  <2>2. Served(u) = RolesPage(n) /\ u[1] = "roles"
    BY <2>1, UrlFacts DEF Served
  <2>3. RolesPage(n) \subseteq RoleRecords
    BY DEF RolesPage, WorldInv
  <2>. QED
    BY <1>1, <2>2, <2>3 DEF DataOf
<1>. QED
  BY <1>2, <1>3, <1>4, UrlFacts

\* What a request leaves and yields has its type.
Answered(url, answer) ==
  /\ answer.data \in DataOf(url)
  /\ EntriesInv'
  /\ BoundsInv'

\* Every request does so.
LEMMA GetTyped ==
  ASSUME WorldInv, CacheInv, TypeInv, NEW url \in Urls, NEW answer \in Answers(url), Get(url, answer),
         UNCHANGED changes, syncs' \in Nat, syncs <= syncs'
  PROVE  Answered(url, answer)
<1>1. answer.data \in DataOf(url)
  <2>1. answer.data \in {Served(url), {}, cache[url].data}
    BY DEF Answers, Decoded
  <2>. QED
    BY <2>1, ServedTyped DEF TypeInv, EntriesInv
<1>2. EntriesInv'
  <2>. SUFFICES ASSUME NEW u \in Urls
                PROVE  cache'[u].data \in DataOf(u) /\ cache'[u].since \in Nat /\ cache'[u].since <= syncs'
    BY DEF EntriesInv
  <2>1. syncs \in Nat /\ cache[u].data \in DataOf(u) /\ cache[u].since \in Nat /\ cache[u].since <= syncs
    BY DEF TypeInv, ResultInv, EntriesInv
  <2>2. \/ cache' = cache
        \/ cache' = [cache EXCEPT ![url] = [stored |-> TRUE, data |-> answer.data, since |-> syncs]]
    BY DEF Get
  <2>3. cache'[u] = cache[u] \/ (u = url /\ cache'[u] = [stored |-> TRUE, data |-> answer.data, since |-> syncs])
    BY <2>2 DEF CacheInv
  <2>4. CASE cache'[u] = cache[u]
    BY <2>1, <2>4
  <2>5. CASE u = url /\ cache'[u] = [stored |-> TRUE, data |-> answer.data, since |-> syncs]
    BY <1>1, <2>1, <2>5
  <2>. QED
    BY <2>3, <2>4, <2>5
<1>3. faults' \in Nat /\ faults' <= MaxFaults
  <2>1. answer.kind = "ok" \/ faults < MaxFaults
    BY DEF Answers
  <2>2. faults \in Nat /\ faults <= MaxFaults /\ MaxFaults \in Nat
    BY ListingAssumption DEF TypeInv, BoundsInv
  <2>. QED
    BY <2>1, <2>2 DEF Get
<1>4. calm' \in BOOLEAN /\ steady' \in BOOLEAN /\ lasting' \subseteq CustomRoles
  BY DEF Get, TypeInv, BoundsInv
<1>. QED
  BY <1>1, <1>2, <1>3, <1>4 DEF Answered, TypeInv, BoundsInv

\* A sync that ends has a result.
LEMMA EndTyped ==
  ASSUME ResultInv, at.step # "idle", NEW how \in Outcomes, NEW grants, grants # {} => how = "done",
         End(how, grants)
  PROVE  ResultInv' /\ syncs' \in Nat /\ syncs <= syncs' /\ at'.step = "idle"
<1>1. at' = Idle /\ outcome' = how /\ store' = grants /\ syncs' = syncs + 1
  BY DEF End
<1>2. at'.step = "idle"
  BY <1>1 DEF Idle
<1>3. syncs \in Nat /\ syncs < MaxSyncs /\ MaxSyncs \in Nat
  BY ListingAssumption DEF ResultInv
<1>. QED
  BY <1>1, <1>2, <1>3 DEF ResultInv

\* A sync that goes on has none yet.
LEMMA GoesOn ==
  ASSUME ResultInv, at.step # "idle", UNCHANGED result
  PROVE  ResultInv' /\ syncs' \in Nat /\ syncs <= syncs'
BY DEF ResultInv, result

\* A request that fails leaves nothing to read.
LEMMA BrokenTyped ==
  ASSUME ResultInv, at.step # "idle", NEW answer, Broken(answer)
  PROVE  ResultInv' /\ syncs' \in Nat /\ syncs <= syncs' /\ at'.step # "detail"
<1>1. CASE answer.kind # "none"
  BY <1>1, EndTyped DEF Broken, Outcomes
<1>2. CASE answer.kind = "none"
  <2>1. UNCHANGED result
    BY <1>2 DEF Broken
  <2>2. at'.step # "detail"
    BY <1>2 DEF Broken, Goto
  <2>. QED
    BY <2>1, <2>2, GoesOn
<1>. QED
  BY <1>1, <1>2

\* Steps that leave the workspace alone leave the types of what it holds alone.
LEMMA SameWorld == ASSUME AssignedInv, UNCHANGED world PROVE AssignedInv' /\ UNCHANGED changes
BY DEF AssignedInv, world, Names

\* A step that asks for nothing and ends nothing.
LEMMA QuietTyped ==
  ASSUME TypeInv, UNCHANGED <<world, cache, people, syncs, faults, steady>>,
         ReadInv', ResultInv', calm' \in BOOLEAN, lasting' \subseteq CustomRoles
  PROVE  TypeInv'
<1>1. EntriesInv'
  BY DEF TypeInv, EntriesInv
<1>2. AssignedInv' /\ UNCHANGED changes
  BY SameWorld DEF TypeInv
<1>3. BoundsInv'
  BY <1>2 DEF TypeInv, BoundsInv
<1>. QED
  BY <1>1, <1>2, <1>3 DEF TypeInv

\* The sync begins.
LEMMA BeginTyped == ASSUME Inv, TypeInv, Begin PROVE TypeInv'
<1>1. /\ UNCHANGED <<world, cache, people, known, syncs, faults>>
      /\ steady' = TRUE /\ calm' \in BOOLEAN /\ lasting' \in {{}, Names} /\ listed' = {} /\ at'.step = "choose"
      /\ outcome' = "none" /\ store' = {} /\ syncs < MaxSyncs
  BY DEF Begin, Goto
<1>2. Names \subseteq CustomRoles
  BY NamesTyped DEF Inv
<1>3. EntriesInv'
  BY <1>1 DEF TypeInv, EntriesInv
<1>4. AssignedInv' /\ UNCHANGED changes
  BY <1>1, SameWorld DEF TypeInv
<1>5. ReadInv'
  BY <1>1 DEF TypeInv, ReadInv, RowsInv
<1>6. ResultInv'
  BY <1>1 DEF TypeInv, ResultInv, Outcomes
<1>7. BoundsInv'
  BY <1>1, <1>2, <1>4 DEF TypeInv, BoundsInv
<1>. QED
  BY <1>3, <1>4, <1>5, <1>6, <1>7 DEF TypeInv

\* A builder begins.
LEMMA ChooseTyped == ASSUME TypeInv, NEW b \in Builders, Choose(b) PROVE TypeInv'
<1>1. /\ UNCHANGED <<world, cache, people, syncs, faults, steady, known, listed, result, calm, lasting>>
      /\ at.step = "choose" /\ at'.step = "members"
  BY DEF Choose, Goto, caches, history, result
<1>2. ReadInv'
  BY <1>1 DEF TypeInv, ReadInv, RowsInv
<1>3. ResultInv'
  BY <1>1, GoesOn DEF TypeInv
<1>. QED
  BY <1>1, <1>2, <1>3, QuietTyped DEF TypeInv, BoundsInv

\* All members are read.
LEMMA MembersReadTyped == ASSUME TypeInv, MembersRead PROVE TypeInv'
<1>1. /\ UNCHANGED <<world, cache, people, syncs, faults, steady, listed, result, calm, lasting>>
      /\ known' = known \/ known' = {}
      /\ at.step = "detail" /\ at'.step \in {"choose", "fill"}
  BY DEF MembersRead, Goto, history, result
<1>2. ReadInv'
  BY <1>1 DEF TypeInv, ReadInv, RowsInv
<1>3. ResultInv'
  BY <1>1, GoesOn DEF TypeInv
<1>. QED
  BY <1>1, <1>2, <1>3, QuietTyped DEF TypeInv, BoundsInv

\* The members are listed.
LEMMA ReadMembersTyped == ASSUME Inv, TypeInv, ReadMembers PROVE TypeInv'
<1>1. PICK answer \in Answers(MembersUrl) :
        /\ Get(MembersUrl, answer)
        /\ \/ Broken(answer)
           \/ Goto("detail", at.builder, answer.data, 0) /\ UNCHANGED result
  BY DEF ReadMembers, MembersUrl
<1>2. /\ at.step = "members" /\ people' = [people EXCEPT ![at.builder] = {}]
      /\ UNCHANGED <<world, known, listed>>
  BY DEF ReadMembers
<1>3. AssignedInv' /\ UNCHANGED changes
  BY <1>2, SameWorld DEF TypeInv
<1>4. ResultInv' /\ syncs' \in Nat /\ syncs <= syncs'
  BY <1>1, <1>2, BrokenTyped, GoesOn DEF TypeInv
<1>5. Answered(MembersUrl, answer)
  BY <1>1, <1>3, <1>4, UrlFacts, GetTyped DEF Inv
<1>6. RowsInv'
  <2>1. \A b \in Builders : people'[b] = people[b] \/ people'[b] = {}
    BY <1>2 DEF Inv, AtInv
  <2>. QED
    BY <2>1 DEF TypeInv, ReadInv, RowsInv
<1>7. at'.step = "detail" => at'.left \subseteq Entries
  <2>1. CASE Broken(answer)
    BY <1>2, <2>1, BrokenTyped DEF TypeInv
  <2>2. CASE Goto("detail", at.builder, answer.data, 0)
    BY <1>5, <2>2, UrlFacts DEF Goto, Answered, DataOf
  <2>. QED
    BY <1>1, <2>1, <2>2
<1>8. ReadInv'
  BY <1>2, <1>6, <1>7 DEF TypeInv, ReadInv
<1>. QED
  BY <1>3, <1>4, <1>5, <1>8 DEF TypeInv, Answered

\* A member is read who has exactly one element.
LEMMA ReadDetailTyped == ASSUME Inv, TypeInv, ReadDetail PROVE TypeInv'
<1>1. at.step = "detail" /\ UNCHANGED <<world, known, listed>>
  BY DEF ReadDetail
<1>2. PICK x \in at.left : \E answer \in Answers(DetailUrl(x.who)) :
         /\ Get(DetailUrl(x.who), answer)
         /\ \/ Broken(answer) /\ UNCHANGED people
            \/ End("unreadable member", {}) /\ UNCHANGED people
            \/ /\ Cardinality(answer.data) = 1
               /\ people' = [people EXCEPT ![at.builder] =
                               @ \cup {[who |-> x.who, roles |-> x.roles, detail |-> answer.data]}]
               /\ Goto("detail", at.builder, at.left \ {x}, 0)
               /\ UNCHANGED result
  BY DEF ReadDetail, DetailUrl
<1>. DEFINE url == DetailUrl(x.who)
<1>3. url \in Urls /\ x.who \in Members /\ url[1] = "detail"
  BY <1>1, UrlFacts DEF Inv, AtInv
<1>. HIDE DEF url
<1>4. PICK answer \in Answers(url) :
         /\ Get(url, answer)
         /\ \/ Broken(answer) /\ UNCHANGED people
            \/ End("unreadable member", {}) /\ UNCHANGED people
            \/ /\ Cardinality(answer.data) = 1
               /\ people' = [people EXCEPT ![at.builder] =
                               @ \cup {[who |-> x.who, roles |-> x.roles, detail |-> answer.data]}]
               /\ Goto("detail", at.builder, at.left \ {x}, 0)
               /\ UNCHANGED result
  BY <1>2 DEF url
<1>5. AssignedInv' /\ UNCHANGED changes
  BY <1>1, SameWorld DEF TypeInv
<1>6. ResultInv' /\ syncs' \in Nat /\ syncs <= syncs'
  <2>1. CASE End("unreadable member", {})
    BY <1>1, <2>1, EndTyped DEF TypeInv, Outcomes
  <2>. QED
    BY <1>1, <1>4, <2>1, BrokenTyped, GoesOn DEF TypeInv
<1>7. Answered(url, answer)
  BY <1>3, <1>4, <1>5, <1>6, GetTyped DEF Inv
<1>8. RowsInv'
  <2>1. CASE UNCHANGED people
    BY <2>1 DEF TypeInv, ReadInv, RowsInv
  <2>2. CASE /\ Cardinality(answer.data) = 1
             /\ people' = [people EXCEPT ![at.builder] =
                             @ \cup {[who |-> x.who, roles |-> x.roles, detail |-> answer.data]}]
    <3>. DEFINE row == [who |-> x.who, roles |-> x.roles, detail |-> answer.data]
    <3>1. x \in Entries
      BY <1>1 DEF TypeInv, ReadInv
    <3>2. answer.data \in Details
      BY <1>3, <1>7 DEF Answered, DataOf
    <3>3. row \in Users /\ row.detail = answer.data
      BY <3>1, <3>2 DEF Entries, RoleSets, Details, ParamSets, Users
    <3>. HIDE DEF row
    <3>4. \A b \in Builders : people'[b] \subseteq people[b] \cup {row}
      BY <2>2 DEF Inv, AtInv, row
    <3>5. \A b \in Builders : \A y \in people[b] : y \in Users /\ Cardinality(y.detail) = 1
      BY DEF TypeInv, ReadInv, RowsInv
    <3>6. row \in Users /\ Cardinality(row.detail) = 1
      BY <2>2, <3>3
    <3>. QED
      BY <3>4, <3>5, <3>6 DEF RowsInv
  <2>. QED
    BY <1>4, <2>1, <2>2
<1>9. at'.step = "detail" => at'.left \subseteq Entries
  <2>1. CASE Broken(answer)
    BY <1>1, <2>1, BrokenTyped DEF TypeInv
  <2>2. CASE End("unreadable member", {})
    BY <1>1, <2>2, EndTyped DEF TypeInv, Outcomes
  <2>3. CASE Goto("detail", at.builder, at.left \ {x}, 0)
    BY <1>1, <2>3 DEF Goto, TypeInv, ReadInv
  <2>. QED
    BY <1>4, <2>1, <2>2, <2>3
<1>10. ReadInv'
  BY <1>1, <1>8, <1>9 DEF TypeInv, ReadInv
<1>. QED
  BY <1>5, <1>6, <1>7, <1>10 DEF TypeInv, Answered

\* A page is put into the role cache or among the resources.
LEMMA PageTyped ==
  ASSUME Inv, TypeInv, at.step # "idle", NEW p \in 0 .. Cardinality(CustomRoles),
         NEW answer \in Answers(PageUrl(p)), Get(PageUrl(p), answer), UNCHANGED <<world, people>>,
         Broken(answer) \/ (at'.step # "detail" /\ UNCHANGED result),
         known' \subseteq known \cup answer.data, listed' \subseteq listed \cup Named(answer.data) \cup DOMAIN BaseRoles
  PROVE  TypeInv'
<1>1. PageUrl(p) \in Urls /\ PageUrl(p)[1] = "roles"
  BY UrlFacts
<1>2. AssignedInv' /\ UNCHANGED changes
  BY SameWorld DEF TypeInv
<1>3. ResultInv' /\ syncs' \in Nat /\ syncs <= syncs' /\ at'.step # "detail"
  BY BrokenTyped, GoesOn DEF TypeInv
<1>4. Answered(PageUrl(p), answer)
  BY <1>1, <1>2, <1>3, GetTyped DEF Inv
<1>5. answer.data \subseteq RoleRecords
  BY <1>1, <1>4 DEF Answered, DataOf
<1>6. Named(answer.data) \subseteq CustomRoles
  BY <1>5 DEF Named, RoleRecords
<1>7. ReadInv'
  BY <1>3, <1>5, <1>6 DEF TypeInv, ReadInv, RowsInv
<1>. QED
  BY <1>2, <1>3, <1>4, <1>7 DEF TypeInv, Answered

\* A page is put into the role cache.
LEMMA FillRolesTyped == ASSUME Inv, TypeInv, FillRoles PROVE TypeInv'
<1>1. at.step = "fill" /\ at.page \in 0 .. Cardinality(CustomRoles) /\ UNCHANGED <<world, people, listed>>
  BY DEF FillRoles, Inv, AtInv
<1>2. PICK answer \in Answers(PageUrl(at.page)) :
        /\ Get(PageUrl(at.page), answer)
        /\ \/ Broken(answer) /\ UNCHANGED known
           \/ /\ known' = {r \in known : r.name \notin Named(answer.data)} \cup answer.data
              /\ at'.step \in {"fill", "list"}
              /\ UNCHANGED result
  BY DEF FillRoles, PageUrl, Goto
<1>3. known' \subseteq known \cup answer.data
  BY <1>2
<1>. QED
  BY <1>1, <1>2, <1>3, PageTyped

\* A page is put among the resources.
LEMMA ListRolesTyped == ASSUME Inv, TypeInv, ListRoles PROVE TypeInv'
<1>1. at.step = "list" /\ at.page \in 0 .. Cardinality(CustomRoles) /\ UNCHANGED <<world, people, known>>
  BY DEF ListRoles, Inv, AtInv
<1>2. PICK answer \in Answers(PageUrl(at.page)) :
        /\ Get(PageUrl(at.page), answer)
        /\ \/ Broken(answer) /\ UNCHANGED listed
           \/ /\ listed' = listed \cup Named(answer.data) \cup DOMAIN BaseRoles
              /\ at'.step \in {"list", "choose"}
              /\ UNCHANGED result
  BY DEF ListRoles, PageUrl, Goto
<1>3. listed' \subseteq listed \cup Named(answer.data) \cup DOMAIN BaseRoles
  BY <1>2
<1>. QED
  BY <1>1, <1>2, <1>3, PageTyped

\* Only a sync that is done has grants.
LEMMA FinishTyped == ASSUME Inv, TypeInv, Finish PROVE TypeInv'
<1>1. at.step = "choose" /\ UNCHANGED <<world, people, known, listed, faults, calm, steady, lasting>>
  BY DEF Finish, caches, history
<1>2. /\ cache' = cache \/ cache' = [u \in Urls |-> NoEntry]
      /\ \/ End("role not found", {}) \/ End("unknown privilege", {})
         \/ \E grants : End("done", grants)
  BY DEF Finish
<1>3. ResultInv' /\ syncs' \in Nat /\ syncs <= syncs' /\ at'.step = "idle"
  BY <1>1, <1>2, EndTyped DEF TypeInv, Outcomes
<1>4. AssignedInv' /\ UNCHANGED changes
  BY <1>1, SameWorld DEF TypeInv
<1>5. EntriesInv'
  <2>. SUFFICES ASSUME NEW u \in Urls
                PROVE  cache'[u].data \in DataOf(u) /\ cache'[u].since \in Nat /\ cache'[u].since <= syncs'
    BY DEF EntriesInv
  <2>1. syncs \in Nat /\ cache[u].data \in DataOf(u) /\ cache[u].since \in Nat /\ cache[u].since <= syncs
    BY DEF TypeInv, ResultInv, EntriesInv
  <2>2. cache'[u] = cache[u] \/ cache'[u] = NoEntry
    BY <1>2
  <2>3. NoEntry.data \in DataOf(u) /\ NoEntry.since = 0
    BY ServedTyped DEF Inv, TypeInv, NoEntry
  <2>. QED
    BY <1>3, <2>1, <2>2, <2>3
<1>6. ReadInv'
  BY <1>1, <1>3 DEF TypeInv, ReadInv, RowsInv
<1>7. BoundsInv'
  BY <1>1, <1>4 DEF TypeInv, BoundsInv
<1>. QED
  BY <1>3, <1>4, <1>5, <1>6, <1>7 DEF TypeInv

\* A deletion takes one role away.
LEMMA DeleteLeaves ==
  ASSUME WorldInv, NEW i \in DOMAIN custom,
         custom' = SubSeq(custom, 1, i - 1) \o SubSeq(custom, i + 1, Len(custom))
  PROVE  \A k \in DOMAIN custom \ {i} : \E j \in DOMAIN custom' : custom'[j] = custom[k]
<1>. DEFINE len == Len(custom)
            front == SubSeq(custom, 1, i - 1)
            back == SubSeq(custom, i + 1, len)
            all == front \o back
<1>1. DOMAIN custom = 1 .. len /\ len \in Nat /\ i \in Nat /\ 1 <= i /\ i <= len
  BY DEF WorldInv
<1>2. \A k \in 1 .. len : custom[k] \in RoleRecords
  BY <1>1 DEF WorldInv
<1>3. front \in Seq(RoleRecords) /\ Len(front) = i - 1 /\ \A k \in 1 .. i - 1 : front[k] = custom[k]
  <2>1. 1 \in Int /\ i - 1 \in Int /\ (IF 1 <= i - 1 THEN (i - 1) - 1 + 1 ELSE 0) = i - 1
    BY <1>1
  <2>2. \A k \in 1 .. i - 1 : k \in 1 .. len
    <3>. HIDE DEF len
    <3>. QED
      BY <1>1
  <2>3. /\ front \in Seq(RoleRecords) /\ Len(front) = i - 1
        /\ \A k \in 1 .. (i - 1) - 1 + 1 : front[k] = custom[1 + k - 1]
    BY <1>2, <2>1, <2>2, SubSeqProperties
  <2>4. (i - 1) - 1 + 1 = i - 1 /\ \A k \in 1 .. i - 1 : 1 + k - 1 = k
    BY <1>1
  <2>. HIDE DEF front
  <2>. QED
    BY <2>3, <2>4
<1>4. back \in Seq(RoleRecords) /\ Len(back) = len - i /\ \A k \in 1 .. len - i : back[k] = custom[i + k]
  <2>1. i + 1 \in Int /\ len \in Int /\ (IF i + 1 <= len THEN len - (i + 1) + 1 ELSE 0) = len - i
    <3>. HIDE DEF len
    <3>. QED
      BY <1>1
  <2>2. \A k \in i + 1 .. len : k \in 1 .. len
    <3>. HIDE DEF len
    <3>. QED
      BY <1>1
  <2>3. /\ back \in Seq(RoleRecords) /\ Len(back) = len - i
        /\ \A k \in 1 .. len - (i + 1) + 1 : back[k] = custom[(i + 1) + k - 1]
    BY <1>2, <2>1, <2>2, SubSeqProperties
  <2>4. len - (i + 1) + 1 = len - i /\ \A k \in 1 .. len - i : (i + 1) + k - 1 = i + k
    <3>. HIDE DEF len
    <3>. QED
      BY <1>1
  <2>. HIDE DEF back
  <2>. QED
    BY <2>3, <2>4
<1>5. custom' = all
  OBVIOUS
<1>. HIDE DEF len, front, back
<1>6. /\ all \in Seq(RoleRecords) /\ Len(all) = Len(front) + Len(back)
      /\ \A k \in 1 .. Len(front) + Len(back) :
           all[k] = IF k <= Len(front) THEN front[k] ELSE back[k - Len(front)]
  BY <1>3, <1>4, ConcatProperties
<1>. HIDE DEF all
<1>7. /\ DOMAIN all = 1 .. (i - 1) + (len - i)
      /\ \A k \in 1 .. (i - 1) + (len - i) : all[k] = IF k <= i - 1 THEN front[k] ELSE back[k - (i - 1)]
  BY <1>3, <1>4, <1>6
<1>8. ASSUME NEW k \in 1 .. len, k # i PROVE \E j \in DOMAIN all : all[j] = custom[k]
  <2>1. CASE k < i
    <3>1. k \in 1 .. (i - 1) + (len - i) /\ k <= i - 1 /\ k \in 1 .. i - 1
      BY <1>1, <2>1
    <3>. QED
      BY <1>3, <1>7, <3>1
  <2>2. CASE i < k
    <3>1. /\ k - 1 \in 1 .. (i - 1) + (len - i) /\ ~ k - 1 <= i - 1 /\ (k - 1) - (i - 1) = k - i
          /\ k - i \in 1 .. len - i /\ i + (k - i) = k
      BY <1>1, <2>2
    <3>2. all[k - 1] = custom[k]
      BY <1>4, <1>7, <3>1
    <3>. QED
      BY <1>7, <3>1, <3>2
  <2>. QED
    BY <1>1, <1>8, <2>1, <2>2
<1>. QED
  BY <1>1, <1>5, <1>8

\* Roles stay known as roles of members while they exist or somebody has them.
LEMMA AssignedStays ==
  ASSUME AssignedInv, UNCHANGED assigned,
         \A m \in Members : \A r \in assigned[m] : r.name \in Names => r.name \in Names'
  PROVE  AssignedInv'
<1>1. ASSUME NEW m \in Members
      PROVE  assigned[m] \in SUBSET [env : Environments, name : Names' \cup GivenRoles]
  <2>1. \A r \in assigned[m] : r \in [env : Environments, name : Names \cup GivenRoles]
    BY DEF AssignedInv
  <2>2. \A r \in assigned[m] : r \in [env : Environments, name : Names' \cup GivenRoles]
    BY <2>1
  <2>. QED
    BY <2>2
<1>. QED
  BY <1>1 DEF AssignedInv

\* The workspace changes, and nobody loses a role that is deleted.
LEMMA WorldTyped == ASSUME Inv, TypeInv, World PROVE TypeInv'
<1>1. /\ UNCHANGED <<cache, people, known, listed, at, result, faults, steady>>
      /\ changes < MaxChanges /\ changes' = changes + 1 /\ calm' = FALSE
      /\ lasting' = lasting \/ lasting' = {}
  BY DEF World, CreateRole, DeleteRole, Assign, Change, caches
<1>2. EntriesInv' /\ ReadInv' /\ ResultInv'
  BY <1>1 DEF TypeInv, EntriesInv, ReadInv, RowsInv, ResultInv, result
<1>3. BoundsInv'
  <2>1. changes' \in Nat /\ changes' <= MaxChanges
    BY <1>1, ListingAssumption DEF TypeInv, BoundsInv
  <2>2. calm' \in BOOLEAN /\ steady' \in BOOLEAN /\ lasting' \subseteq CustomRoles
    BY <1>1 DEF TypeInv, BoundsInv
  <2>. QED
    BY <1>1, <2>1, <2>2 DEF TypeInv, BoundsInv
<1>4. AssignedInv'
  <2>1. ASSUME NEW name \in CustomRoles, NEW param \in Params, CreateRole(name, param) PROVE AssignedInv'
    <3>. DEFINE r == [name |-> name, privileges |-> param]
    <3>1. r \in RoleRecords
      BY DEF RoleRecords
    <3>2. PICK i \in 0 .. Len(custom) :
            custom' = SubSeq(custom, 1, i) \o <<r>> \o SubSeq(custom, i + 1, Len(custom))
      BY <2>1 DEF CreateRole
    <3>. HIDE DEF r
    <3>3. Moves
      BY <3>1, <3>2, InsertMoves DEF Inv
    <3>4. Names \subseteq Names'
      BY <3>3 DEF Moves, Names
    <3>. QED
      BY <2>1, <3>4, AssignedStays DEF CreateRole, TypeInv
  <2>2. ASSUME NEW i \in DOMAIN custom, DeleteRole(i) PROVE AssignedInv'
    <3>1. \A k \in DOMAIN custom \ {i} : \E j \in DOMAIN custom' : custom'[j] = custom[k]
      BY <2>2, DeleteLeaves DEF DeleteRole, Inv
    <3>2. \A name \in Names : name # custom[i].name => name \in Names'
      BY <3>1 DEF Names
    <3>3. \A m \in Members : \A r \in assigned[m] : r.name # custom[i].name
      BY <2>2 DEF DeleteRole
    <3>. QED
      BY <2>2, <3>2, <3>3, AssignedStays DEF DeleteRole, TypeInv
  <2>3. ASSUME NEW m \in Members, NEW roles \in RoleLists, Assign(m, roles) PROVE AssignedInv'
    <3>1. roles \in SUBSET [env : Environments, name : Names \cup GivenRoles]
      BY DEF RoleLists
    <3>2. assigned' = [assigned EXCEPT ![m] = roles] /\ Names' = Names
      BY <2>3 DEF Assign, Names
    <3>. QED
      BY <3>1, <3>2 DEF TypeInv, AssignedInv
  <2>. QED
    BY <2>1, <2>2, <2>3 DEF World
<1>. QED
  BY <1>2, <1>3, <1>4 DEF TypeInv

\* An entry that is set to something typed leaves the others.
LEMMA EntryTyped ==
  ASSUME Inv, TypeInv, NEW url \in Urls, NEW entry, cache' = [cache EXCEPT ![url] = entry],
         entry.data \in DataOf(url), entry.since \in Nat, entry.since <= syncs, UNCHANGED syncs
  PROVE  EntriesInv'
<1>1. \A u \in Urls : cache'[u] = cache[u] \/ (u = url /\ cache'[u] = entry)
  BY DEF Inv, CacheInv
<1>. QED
  BY <1>1 DEF TypeInv, EntriesInv

\* A grant task reads the roles of a member.
LEMMA PrefetchTyped == ASSUME Inv, TypeInv, NEW m \in Members, Prefetch(m) PROVE TypeInv'
<1>. DEFINE url == DetailUrl(m)
            entry == [stored |-> TRUE, data |-> Served(url), since |-> syncs]
<1>1. /\ cache' = [cache EXCEPT ![url] = entry]
      /\ UNCHANGED <<world, people, known, listed, at, result, faults, calm, steady, lasting>>
  BY DEF Prefetch, DetailUrl, caches, history
<1>2. url \in Urls /\ Served(url) \in DataOf(url)
  BY UrlFacts, ServedTyped DEF Inv, TypeInv
<1>3. syncs \in Nat /\ UNCHANGED syncs
  BY <1>1 DEF TypeInv, ResultInv, result
<1>4. entry.data = Served(url) /\ entry.since = syncs /\ syncs <= syncs
  BY <1>3
<1>. HIDE DEF url, entry
<1>5. EntriesInv'
  BY <1>1, <1>2, <1>3, <1>4, EntryTyped
<1>6. AssignedInv' /\ UNCHANGED changes
  BY <1>1, SameWorld DEF TypeInv
<1>7. ReadInv' /\ ResultInv' /\ BoundsInv'
  BY <1>1, <1>6 DEF TypeInv, ReadInv, RowsInv, ResultInv, BoundsInv, result
<1>. QED
  BY <1>5, <1>6, <1>7 DEF TypeInv

\* An entry leaves the cache.
LEMMA ExpireTyped == ASSUME Inv, TypeInv, NEW url \in Urls, Expire(url) PROVE TypeInv'
<1>1. /\ cache' = [cache EXCEPT ![url] = NoEntry] /\ faults < MaxFaults /\ faults' = faults + 1
      /\ UNCHANGED <<world, people, known, listed, at, result, calm>>
      /\ steady' = FALSE /\ lasting' = {}
  BY DEF Expire, caches
<1>2. NoEntry.data \in DataOf(url) /\ NoEntry.since = 0
  BY ServedTyped DEF Inv, TypeInv, NoEntry
<1>3. syncs \in Nat /\ UNCHANGED syncs /\ NoEntry.since <= syncs /\ NoEntry.since \in Nat
  BY <1>1, <1>2 DEF TypeInv, ResultInv, result
<1>4. EntriesInv'
  BY <1>1, <1>2, <1>3, EntryTyped
<1>5. AssignedInv' /\ UNCHANGED changes
  BY <1>1, SameWorld DEF TypeInv
<1>6. BoundsInv'
  <2>1. faults' \in Nat /\ faults' <= MaxFaults
    BY <1>1, ListingAssumption DEF TypeInv, BoundsInv
  <2>2. calm' \in BOOLEAN /\ steady' \in BOOLEAN /\ lasting' \subseteq CustomRoles
    BY <1>1 DEF TypeInv, BoundsInv
  <2>. QED
    BY <1>5, <2>1, <2>2 DEF TypeInv, BoundsInv
<1>7. ReadInv' /\ ResultInv'
  BY <1>1 DEF TypeInv, ReadInv, RowsInv, ResultInv, result
<1>. QED
  BY <1>4, <1>5, <1>6, <1>7 DEF TypeInv

\* At the start nothing is cached and nothing is stored.
LEMMA InitTyped == Init => TypeInv
<1>. SUFFICES ASSUME Init PROVE TypeInv
  OBVIOUS
<1>1. AssignedInv
  BY DEF Init, AssignedInv, RoleLists
<1>2. Inv
  BY InitInv
<1>3. EntriesInv
  <2>. SUFFICES ASSUME NEW u \in Urls
                PROVE  cache[u].data \in DataOf(u) /\ cache[u].since \in Nat /\ cache[u].since <= syncs
    BY DEF EntriesInv
  <2>1. cache[u].data = {} /\ cache[u].since = 0 /\ syncs = 0
    BY DEF Init, NoEntry
  <2>. QED
    BY <1>1, <1>2, <2>1, ServedTyped DEF Inv
<1>4. ReadInv /\ ResultInv
  BY ListingAssumption DEF Init, ReadInv, RowsInv, ResultInv, Outcomes, Idle
<1>5. BoundsInv
  <2>1. changes \in Nat /\ changes <= MaxChanges /\ faults \in Nat /\ faults <= MaxFaults
    BY ListingAssumption DEF Init
  <2>2. calm \in BOOLEAN /\ steady \in BOOLEAN /\ lasting \subseteq CustomRoles
    BY DEF Init
  <2>. QED
    BY <2>1, <2>2 DEF BoundsInv
<1>. QED
  BY <1>1, <1>3, <1>4, <1>5 DEF TypeInv

\* Every step keeps the types.
LEMMA NextTyped == Inv /\ TypeInv /\ [Next]_vars => TypeInv'
<1>. SUFFICES ASSUME Inv, TypeInv, [Next]_vars PROVE TypeInv'
  OBVIOUS
<1>1. CASE Sync
  BY <1>1, BeginTyped, ChooseTyped, ReadMembersTyped, ReadDetailTyped, MembersReadTyped,
     FillRolesTyped, ListRolesTyped, FinishTyped DEF Sync
<1>2. CASE World
  BY <1>2, WorldTyped
<1>3. CASE \E m \in Members : Prefetch(m)
  BY <1>3, PrefetchTyped
<1>4. CASE \E url \in Urls : Expire(url)
  BY <1>4, ExpireTyped
<1>5. CASE UNCHANGED vars
  <2>1. AssignedInv' /\ UNCHANGED changes
    BY <1>5, SameWorld DEF vars, TypeInv
  <2>2. EntriesInv' /\ ReadInv' /\ ResultInv' /\ BoundsInv'
    BY <1>5, <2>1 DEF vars, caches, result, history, TypeInv, EntriesInv, ReadInv, RowsInv, ResultInv, BoundsInv
  <2>. QED
    BY <2>1, <2>2 DEF TypeInv
<1>. QED
  BY <1>1, <1>2, <1>3, <1>4, <1>5 DEF Next

\* The types hold in every behaviour.
LEMMA TypesKept == Spec => []TypeInv
<1>1. Init => TypeInv
  BY InitTyped
<1>2. Inv /\ TypeInv /\ [Next]_vars => TypeInv'
  BY NextTyped
<1>. QED
  BY <1>1, <1>2, Invariance, PTL DEF Spec

\* Whatever the workspace answers, what the process keeps of it is of the type that
\* Grants expects: a collaborator cache holds members with exactly one element of
\* privileges, the role cache and the resources hold roles of the workspace, and only
\* a sync that is done has grants.
THEOREM ListingTypeOK == Spec => []TypeOK
<1>1. Inv /\ TypeInv => TypeOK
  <2>. SUFFICES ASSUME Inv, TypeInv PROVE TypeOK
    OBVIOUS
  <2>1. \A i \in DOMAIN custom : custom[i] \in RoleRecords
    BY DEF Inv, WorldInv
  <2>2. at.step \in Steps /\ todo \subseteq Builders
    BY DEF Inv, AtInv
  <2>3. \A u \in Urls : cache[u].since <= syncs
    BY DEF TypeInv, EntriesInv
  <2>. QED
    BY <2>1, <2>2, <2>3 DEF TypeOK, TypeInv, ReadInv, RowsInv, ResultInv, BoundsInv
<1>. QED
  BY <1>1, Invariance, TypesKept, PTL

===============================================================================
