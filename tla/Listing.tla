-------------------------------- MODULE Listing --------------------------------
(***************************************************************************)
(* Syncs of one connector process while the workspace changes.  The         *)
(* privilege and the role builder fill their caches from many requests, the *)
(* role builder lists the roles once more, and Grants later reads only the   *)
(* caches.  Every request goes through the HTTP cache of the process, which  *)
(* a sync leaves as it is unless it succeeds.                                *)
(***************************************************************************)
EXTENDS HttpClient, Privileges

CONSTANTS
  Members,       \* the collaborators of the workspace
  Environments,  \* its environments
  Env,           \* the environment the process was started for
  CustomRoles,   \* names a custom role may have
  GivenRoles,    \* the base roles that members of this workspace may have
  Params,        \* the privileges a custom role may have, as Workato writes them
  PageLimit,     \* elements of a page of roles
  AnswerKinds,   \* the kinds of answer the workspace may give
  MaxChanges,    \* bound on the changes of the workspace
  MaxSyncs,      \* bound on the syncs
  MaxFaults      \* bound on the answers that are not "ok" and the entries that expire

ASSUME ListingAssumption ==
  /\ Env \in Environments
  /\ CustomRoles \cap DOMAIN BaseRoles = {}
  /\ IsFiniteSet(CustomRoles) /\ IsFiniteSet(Environments)
  /\ \A param \in Params : IsFiniteSet(Places(param))
  /\ GivenRoles \subseteq DOMAIN BaseRoles
  /\ PageLimit \in Nat \ {0}
  /\ AnswerKinds \subseteq Kinds
  /\ MaxChanges \in Nat /\ MaxSyncs \in Nat /\ MaxFaults \in Nat

VARIABLES
  custom,     \* the custom roles in the order in which Workato lists them
  assigned,   \* assigned[m]: the roles of member m
  cache,      \* cache[u]: what the process has cached for the URL u
  people,     \* people[b]: the collaborator cache of builder b
  known,      \* the role cache
  listed,     \* the names of the roles stored by this sync
  at,         \* where the sync is
  todo,       \* the builders that have not listed yet
  outcome,    \* how the last sync ended
  store,      \* the grants of the last sync
  changes,    \* number of changes so far
  syncs,      \* number of syncs that have ended
  faults,     \* number of bad answers and expired entries so far
  calm,       \* history: nothing has changed or gone wrong since the sync began
  steady,     \* history: every answer since then was good and is still cached
  lasting     \* history: roles that this sync has to list

world == <<custom, assigned, changes>>
caches == <<people, known, listed>>
result == <<outcome, store, syncs>>
history == <<calm, steady, lasting>>
vars == <<world, cache, caches, at, todo, result, faults, history>>

Builders == {"privilege", "role"}

-----------------------------------------------------------------------------
(* The workspace *)

Names == {custom[i].name : i \in DOMAIN custom}

\* The privileges of a role as Workato writes them into its answers.
ParamOf(name) ==
  CASE name = "Admin"    -> Table
    [] name = "Analyst"  -> analystBaseRoles
    [] name = "Operator" -> operatorBaseRoles
    [] OTHER -> (CHOOSE r \in {custom[i] : i \in DOMAIN custom} : r.name = name).privileges

Urls ==
  {<<"members">>} \cup {<<"detail", m>> : m \in Members} \cup
  {<<"roles", n>> : n \in 0 .. Cardinality(CustomRoles)}

RolesPage(n) ==
  {custom[i] : i \in {i \in DOMAIN custom : n * PageLimit < i /\ i <= (n + 1) * PageLimit}}

\* What the workspace answers: the members with their roles, the privileges of one
\* member in each environment, or a page of the custom roles.
Served(url) ==
  CASE url[1] = "members" -> {[who |-> m, roles |-> assigned[m]] : m \in Members}
    [] url[1] = "detail"  -> {[env |-> r.env, privileges |-> ParamOf(r.name)] : r \in assigned[url[2]]}
    [] url[1] = "roles"   -> RolesPage(url[2])

Legal(roles) == \A r, s \in roles : r.env = s.env => r = s
RoleLists == {roles \in SUBSET [env : Environments, name : Names \cup GivenRoles] : Legal(roles)}

-----------------------------------------------------------------------------
(* Requests *)

NoEntry == [stored |-> FALSE, data |-> {}, since |-> 0]

\* A request is answered from the cache or by the workspace.
Answers(url) ==
  IF cache[url].stored THEN {[kind |-> "ok", data |-> cache[url].data]}
  ELSE {[kind |-> kind, data |-> Decoded(kind, Served(url))] :
          kind \in {kind \in AnswerKinds : kind = "ok" \/ faults < MaxFaults}}

\* The answer of a request is cached; one that came from the cache is stored again.
\* A bad answer ends the calm, and the sync may miss what it would have shown.
Get(url, answer) ==
  /\ cache' = IF ~ Stored(answer.kind) \/ cache[url].stored THEN cache
              ELSE [cache EXCEPT ![url] = [stored |-> TRUE, data |-> answer.data, since |-> syncs]]
  /\ faults' = IF answer.kind = "ok" THEN faults ELSE faults + 1
  /\ calm' = (calm /\ answer.kind \in {"ok", "none"})
  /\ steady' = (steady /\ answer.kind \in {"ok", "none"})
  /\ lasting' = IF answer.kind \in {"ok", "none"} THEN lasting ELSE {}

Idle == [step |-> "idle", builder |-> "none", left |-> {}, page |-> 0]
Goto(step, builder, left, page) ==
  at' = [step |-> step, builder |-> builder, left |-> left, page |-> page]

\* The sync ends; only one that succeeds clears the HTTP cache.
End(how, grants) ==
  /\ at' = Idle
  /\ todo' = {}
  /\ outcome' = how
  /\ store' = grants
  /\ syncs' = syncs + 1

\* What becomes of the listing when a request fails: without an answer the syncer
\* calls List again with the same page, otherwise the sync ends.
Broken(answer) ==
  \/ /\ answer.kind = "none"
     /\ IF at.step = "list" /\ at.page > 0 THEN UNCHANGED at ELSE Goto("members", at.builder, {}, 0)
     /\ UNCHANGED <<todo, result>>
  \/ /\ answer.kind # "none"
     /\ End("request failed", {})

-----------------------------------------------------------------------------
(* A sync *)

\* The sync begins with whatever the caches hold.
Begin ==
  /\ at.step = "idle"
  /\ syncs < MaxSyncs
  /\ Goto("choose", "none", {}, 0)
  /\ todo' = Builders
  /\ listed' = {}
  /\ outcome' = "none"
  /\ store' = {}
  /\ calm' = \A u \in Urls : cache[u].stored => cache[u].data = Served(u)
  /\ lasting' = IF \E u \in Urls : u[1] = "roles" /\ cache[u].stored THEN {} ELSE Names
  /\ steady' = TRUE
  /\ UNCHANGED <<world, cache, people, known, syncs, faults>>

\* The types are listed in any order.
Choose(b) ==
  /\ at.step = "choose"
  /\ b \in todo
  /\ todo' = todo \ {b}
  /\ Goto("members", b, {}, 0)
  /\ UNCHANGED <<world, cache, caches, result, faults, history>>

\* buildCache of the collaborator cache: the maps are emptied, then the members
\* are listed.
ReadMembers ==
  /\ at.step = "members"
  /\ people' = [people EXCEPT ![at.builder] = {}]
  /\ \E answer \in Answers(<<"members">>) :
       /\ Get(<<"members">>, answer)
       /\ \/ /\ doRequest(answer.kind) = "error"
             /\ Broken(answer)
          \/ /\ doRequest(answer.kind) = "nil"
             /\ Goto("detail", at.builder, answer.data, 0)
             /\ UNCHANGED <<todo, result>>
  /\ UNCHANGED <<world, known, listed>>

\* (mutant) The number of elements is not looked at.
ReadDetail_AnyCount ==
  /\ at.step = "detail"
  /\ \E x \in at.left : LET url == <<"detail", x.who>> IN
       \E answer \in Answers(url) :
         /\ Get(url, answer)
         /\ \/ /\ doRequest(answer.kind) = "error"
               /\ Broken(answer)
               /\ UNCHANGED people
            \/ /\ doRequest(answer.kind) = "nil"
               /\ people' = [people EXCEPT ![at.builder] =
                               @ \cup {[who |-> x.who, roles |-> x.roles, detail |-> answer.data]}]
               /\ Goto("detail", at.builder, at.left \ {x}, 0)
               /\ UNCHANGED <<todo, result>>
  /\ UNCHANGED <<world, known, listed>>

\* The privileges of each member are read; there must be exactly one element.
ReadDetail ==
  /\ at.step = "detail"
  /\ \E x \in at.left : LET url == <<"detail", x.who>> IN
       \E answer \in Answers(url) :
         /\ Get(url, answer)
         /\ \/ /\ doRequest(answer.kind) = "error"
               /\ Broken(answer)
               /\ UNCHANGED people
            \/ /\ doRequest(answer.kind) = "nil" /\ Cardinality(answer.data) # 1
               /\ End("unreadable member", {})
               /\ UNCHANGED people
            \/ /\ doRequest(answer.kind) = "nil" /\ Cardinality(answer.data) = 1
               /\ people' = [people EXCEPT ![at.builder] =
                               @ \cup {[who |-> x.who, roles |-> x.roles, detail |-> answer.data]}]
               /\ Goto("detail", at.builder, at.left \ {x}, 0)
               /\ UNCHANGED <<todo, result>>
  /\ UNCHANGED <<world, known, listed>>

\* All members are read: privileges are a constant table, roles go on with the
\* role cache, which is emptied first.
MembersRead ==
  /\ at.step = "detail" /\ at.left = {}
  /\ \/ /\ at.builder = "privilege"
        /\ Goto("choose", "none", {}, 0)
        /\ UNCHANGED known
     \/ /\ at.builder = "role"
        /\ Goto("fill", "role", {}, 0)
        /\ known' = {}
  /\ UNCHANGED <<world, cache, people, listed, todo, result, faults, history>>

Named(roles) == {r.name : r \in roles}

\* buildCache of the role cache: page after page until one is not full.
FillRoles ==
  /\ at.step = "fill"
  /\ \E answer \in Answers(<<"roles", at.page>>) :
       /\ Get(<<"roles", at.page>>, answer)
       /\ \/ /\ doRequest(answer.kind) = "error"
             /\ Broken(answer)
             /\ UNCHANGED known
          \/ /\ doRequest(answer.kind) = "nil"
             /\ known' = {r \in known : r.name \notin Named(answer.data)} \cup answer.data
             /\ IF Cardinality(answer.data) = PageLimit
                THEN Goto("fill", "role", {}, at.page + 1) ELSE Goto("list", "role", {}, 0)
             /\ UNCHANGED <<todo, result>>
  /\ UNCHANGED <<world, people, listed>>

\* (mutant) The page after the first is never asked for.
ListRoles_FirstPage ==
  /\ at.step = "list"
  /\ \E answer \in Answers(<<"roles", at.page>>) :
       /\ Get(<<"roles", at.page>>, answer)
       /\ \/ /\ doRequest(answer.kind) = "error"
             /\ Broken(answer)
             /\ UNCHANGED listed
          \/ /\ doRequest(answer.kind) = "nil"
             /\ listed' = listed \cup Named(answer.data) \cup DOMAIN BaseRoles
             /\ Goto("choose", "none", {}, 0)
             /\ UNCHANGED <<todo, result>>
  /\ UNCHANGED <<world, people, known>>

\* The pages are read once more for the resources; the base roles come with each.
ListRoles ==
  /\ at.step = "list"
  /\ \E answer \in Answers(<<"roles", at.page>>) :
       /\ Get(<<"roles", at.page>>, answer)
       /\ \/ /\ doRequest(answer.kind) = "error"
             /\ Broken(answer)
             /\ UNCHANGED listed
          \/ /\ doRequest(answer.kind) = "nil"
             /\ listed' = listed \cup Named(answer.data) \cup DOMAIN BaseRoles
             /\ IF Cardinality(answer.data) = PageLimit
                THEN Goto("list", "role", {}, at.page + 1) ELSE Goto("choose", "none", {}, 0)
             /\ UNCHANGED <<todo, result>>
  /\ UNCHANGED <<world, people, known>>

-----------------------------------------------------------------------------
(* Grants *)

Grant(on, how, to, env) == [on |-> on, how |-> how, to |-> to, env |-> env]
Id(privilege) == PrivilegeId(privilege.resource, privilege.id)

\* (mutant) The environment of a role is not looked at.
UsersByRole_AnyEnv(name) ==
  {x \in people["role"] : \E r \in x.roles : r.name = name}

\* The maps of the collaborator cache, filled for the environment of the process.
UsersByRole(name) ==
  {x \in people["role"] : \E r \in x.roles : r.name = name /\ r.env = Env}

Keys(param) == {PrivilegeId(place[1], param[place[1]][place[2]]) : place \in Places(param)}
UsersByPrivilege(id) ==
  {x \in people["privilege"] : \E d \in x.detail : d.env = Env /\ id \in Keys(d.privileges)}

\* The members of a role; for a member found under its name every role of that name
\* makes a grant, in whichever environment.
MemberGrants(name) ==
  UNION {{Grant(name, "collaborator-has", x.who, r.env) : r \in {r \in x.roles : r.name = name}} :
           x \in UsersByRole(name)}

\* The privileges that the role cache or the table of base roles gives a role.
Cached(name) == CHOOSE r \in known : r.name = name
Lookup(name) ==
  IF IsBaseRole(name) THEN [found |-> TRUE, list |-> BaseRoles[name]]
  ELSE FindRelatedPrivilegesErr(Cached(name).privileges)

RoleGrants(name) ==
  MemberGrants(name) \cup
  {Grant(name, "role-has-privilege", Id(p), "any") : p \in Lookup(name).list}

PrivilegeGrants(p) == {Grant(Id(p), "assigned", x.who, "any") : x \in UsersByPrivilege(Id(p))}

Missing == {name \in listed : ~ IsBaseRole(name) /\ name \notin Named(known)}
Refused == {name \in listed \ Missing : ~ Lookup(name).found}

\* All types are listed; the grants of all resources are made from the caches,
\* which no request fills any more.
Finish ==
  /\ at.step = "choose" /\ todo = {}
  /\ \/ /\ Missing # {}
        /\ End("role not found", {})
        /\ UNCHANGED cache
     \/ /\ Refused # {}
        /\ End("unknown privilege", {})
        /\ UNCHANGED cache
     \/ /\ Missing = {} /\ Refused = {}
        /\ End("done", UNION ({RoleGrants(name) : name \in listed} \cup
                              {PrivilegeGrants(p) : p \in AllCompoundPrivileges}))
        /\ cache' = [u \in Urls |-> NoEntry]
  /\ UNCHANGED <<world, caches, faults, history>>

-----------------------------------------------------------------------------
(* What happens meanwhile *)

\* A grant task of the same process reads the roles of a member.
Prefetch(m) ==
  /\ ~ cache[<<"detail", m>>].stored
  /\ cache' = [cache EXCEPT ![<<"detail", m>>] =
                 [stored |-> TRUE, data |-> Served(<<"detail", m>>), since |-> syncs]]
  /\ UNCHANGED <<world, caches, at, todo, result, faults, history>>

\* An entry leaves the cache before a sync clears it.
Expire(url) ==
  /\ faults < MaxFaults
  /\ faults' = faults + 1
  /\ cache[url].stored
  /\ cache' = [cache EXCEPT ![url] = NoEntry]
  /\ steady' = FALSE
  /\ lasting' = {}
  /\ UNCHANGED <<world, caches, at, todo, result, calm>>

Change ==
  /\ changes < MaxChanges
  /\ changes' = changes + 1
  /\ calm' = FALSE
  /\ UNCHANGED <<cache, caches, at, todo, result, faults, steady>>

\* A custom role is created; nothing is known of its place in the listing.
CreateRole(name, param) ==
  /\ Change
  /\ name \notin Names
  /\ \E i \in 0 .. Len(custom) :
       custom' = SubSeq(custom, 1, i) \o <<[name |-> name, privileges |-> param]>> \o
                 SubSeq(custom, i + 1, Len(custom))
  /\ UNCHANGED <<assigned, lasting>>

\* A custom role that nobody has is deleted.
DeleteRole(i) ==
  /\ Change
  /\ \A m \in Members : \A r \in assigned[m] : r.name # custom[i].name
  /\ custom' = SubSeq(custom, 1, i - 1) \o SubSeq(custom, i + 1, Len(custom))
  /\ lasting' = {}
  /\ UNCHANGED assigned

\* The roles of a member change, by a grant or by hand.
Assign(m, roles) ==
  /\ Change
  /\ assigned' = [assigned EXCEPT ![m] = roles]
  /\ UNCHANGED <<custom, lasting>>

Sync ==
  \/ Begin
  \/ \E b \in Builders : Choose(b)
  \/ ReadMembers \/ ReadDetail \/ MembersRead
  \/ FillRoles \/ ListRoles
  \/ Finish

World ==
  \/ \E name \in CustomRoles, param \in Params : CreateRole(name, param)
  \/ \E i \in DOMAIN custom : DeleteRole(i)
  \/ \E m \in Members, roles \in RoleLists : Assign(m, roles)

Next ==
  \/ Sync
  \/ World
  \/ \E m \in Members : Prefetch(m)
  \/ \E url \in Urls : Expire(url)

Init ==
  /\ \E names \in SUBSET CustomRoles :
       custom \in {s \in [1 .. Cardinality(names) -> [name : names, privileges : Params]] :
                     \A i, j \in DOMAIN s : s[i].name = s[j].name => i = j}
  /\ assigned \in [Members -> RoleLists]
  /\ cache = [u \in Urls |-> NoEntry]
  /\ people = [b \in Builders |-> {}]
  /\ known = {} /\ listed = {}
  /\ at = Idle
  /\ todo = {}
  /\ outcome = "none"
  /\ store = {}
  /\ changes = 0 /\ syncs = 0 /\ faults = 0
  /\ calm = FALSE /\ steady = FALSE /\ lasting = {}

Spec == Init /\ [][Next]_vars

-----------------------------------------------------------------------------
(* Properties *)

RoleRecords == [name : CustomRoles, privileges : Params]
Users == [who : Members, roles : SUBSET [env : Environments, name : CustomRoles \cup GivenRoles],
          detail : SUBSET [env : Environments,
                           privileges : Params \cup {Table, analystBaseRoles, operatorBaseRoles}]]
Steps == {"idle", "choose", "members", "detail", "fill", "list"}
Outcomes == {"none", "request failed", "unreadable member", "role not found", "unknown privilege", "done"}

\* Every variable has its type; a member in the cache has exactly one element, and
\* only a sync that is done has grants.
TypeOK ==
  /\ \A i \in DOMAIN custom : custom[i] \in RoleRecords
  /\ \A b \in Builders : \A x \in people[b] : x \in Users /\ Cardinality(x.detail) = 1
  /\ known \subseteq RoleRecords
  /\ listed \subseteq CustomRoles \cup DOMAIN BaseRoles
  /\ at.step \in Steps /\ todo \subseteq Builders /\ outcome \in Outcomes
  /\ store # {} => outcome = "done"
  /\ \A u \in Urls : cache[u].since <= syncs
  /\ changes <= MaxChanges /\ syncs <= MaxSyncs /\ faults <= MaxFaults
  /\ calm \in BOOLEAN /\ steady \in BOOLEAN /\ lasting \subseteq CustomRoles

\* When all types are listed, every custom role among the resources is in the role
\* cache, so that its grants will not fail with "role not found", however the
\* workspace changed: the pages are read a second time from the HTTP cache.  It
\* takes an answer that was dropped or an entry that expired to break this.
ListedAreKnown == steady /\ at.step = "choose" /\ todo = {} => Missing = {}

\* The collaborator caches of two builders, filled at different moments of a sync,
\* hold the same members with the same roles and privileges.
BuildersAgree == steady /\ at.step = "choose" /\ todo = {} => people["privilege"] = people["role"]

\* A role that exists while the roles are listed page by page is among the
\* resources, wherever in the listing other roles are created meanwhile; only a
\* deletion may move it to a page that was read already.
LastingAreListed == at.step = "choose" /\ todo = {} => lasting \subseteq listed

\* What a sync of the present workspace has to store, or why it has to fail.
Unreadable == \E m \in Members : Cardinality(assigned[m]) # 1
Misnamed(param) == \E place \in Places(param) : At(param, place) \notin AllCompoundPrivileges

\* A member is granted the role he has in the environment of the process.
HoldersExpected ==
  UNION {{Grant(r.name, "collaborator-has", m, Env) : r \in {r \in assigned[m] : r.env = Env}} : m \in Members}

\* A custom role is granted the privileges it names, a base role those of its table.
CustomExpected ==
  UNION {{Grant(custom[i].name, "role-has-privilege", Id(At(custom[i].privileges, place)), "any") :
            place \in Places(custom[i].privileges)} : i \in DOMAIN custom}
BaseExpected ==
  UNION {{Grant(name, "role-has-privilege", Id(p), "any") : p \in BaseRoles[name]} : name \in DOMAIN BaseRoles}

\* A member is granted the privileges that his role in that environment names.
UsersExpected ==
  UNION {UNION {{Grant(Id(At(ParamOf(r.name), place)), "assigned", m, "any") :
                   place \in Places(ParamOf(r.name))} : r \in {r \in assigned[m] : r.env = Env}} : m \in Members}

Expected == HoldersExpected \cup CustomExpected \cup BaseExpected \cup UsersExpected

\* A sync without a change, a bad answer or an old cache entry ends as the
\* workspace demands: it fails exactly when a member has roles in more or fewer than
\* one environment or a custom role has a privilege the table does not know, and
\* otherwise stores exactly the members and privileges of the process's environment.
CalmSyncIsExact ==
  [][at.step # "idle" /\ at'.step = "idle" /\ calm' =>
       IF Unreadable THEN outcome' = "unreadable member"
       ELSE IF \E i \in DOMAIN custom : Misnamed(custom[i].privileges)
            THEN outcome' = "unknown privilege"
       ELSE outcome' = "done" /\ store' = Expected]_vars

\* A member is stored with a role only if the role is his in the environment of the
\* process, also when his roles change between the requests of a sync.  For a member
\* who has the role in other environments as well Grants makes a grant for each of
\* them; such a grant never stands alone.
MembersAreOfEnv ==
  \A g \in store : g.how = "collaborator-has" => Grant(g.on, g.how, g.to, Env) \in store

\* No answer is still cached after the sync it was read in or before ("Clear all
\* http caches at the end of a sync").
AnswersDieWithTheirSync == \A u \in Urls : cache[u].stored => cache[u].since = syncs
=============================================================================
