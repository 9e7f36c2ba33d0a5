------------------------ MODULE Provisioning_proofs ------------------------
(***************************************************************************)
(* Proofs about Provisioning, for every number of processes, task slots,    *)
(* collaborators, environments and roles.                                   *)
(***************************************************************************)
EXTENDS Provisioning, TLAPS

\* A role the task may ask for is a role list entry.
LEMMA NewRoleType ==
  ASSUME NEW w \in Workers, TypeOK, job[w].role # NoRole
  PROVE  NewRole(w) \in SimpleRole
  BY ProvisioningAssumption DEF TypeOK, NewRole, SimpleRole, Workers

\* The list a grant computes is a role list and holds one role for each
\* environment when the list it read did.
LEMMA UpdatedRolesType ==
  ASSUME NEW roles \in SUBSET SimpleRole, NEW new \in SimpleRole
  PROVE  /\ UpdatedRoles(roles, new) \in SUBSET SimpleRole
         /\ OneRolePerEnv(roles) => OneRolePerEnv(UpdatedRoles(roles, new))
         /\ AgreeOutside(new.env, UpdatedRoles(roles, new), roles)
  BY DEF UpdatedRoles, OneRolePerEnv, AgreeOutside

\* Deciding what to do with a role list keeps the types.
LEMMA DecideType ==
  ASSUME TypeOK, NEW w \in Workers, NEW roles \in SUBSET SimpleRole,
         Decide(w, roles), UNCHANGED job
  PROVE  /\ pc' \in [Workers -> Labels]
         /\ body' \in [Workers -> SUBSET SimpleRole]
         /\ answer' \in [Workers -> Outcomes]
         /\ \A v \in Workers : pc'[v] \in {"writing", "putting"} => job'[v].role # NoRole
<1>1. CASE UNCHANGED body /\ \E outcome \in Outcomes : Finish(w, outcome)
  BY <1>1 DEF TypeOK, Finish, Goto, Labels, Outcomes
<1>2. CASE /\ job[w].role # NoRole
           /\ body' = [body EXCEPT ![w] = UpdatedRoles(roles, NewRole(w))]
           /\ Goto(w, "writing")
           /\ UNCHANGED answer
  <2>1. UpdatedRoles(roles, NewRole(w)) \in SUBSET SimpleRole
    BY <1>2, NewRoleType, UpdatedRolesType
  <2>. QED
    BY <1>2, <2>1 DEF TypeOK, Goto, Labels
<1>. QED
  BY <1>1, <1>2 DEF Decide, Outcomes

\* Every step keeps the types.
LEMMA TypeStep == TypeOK /\ [Next]_vars => TypeOK'
<1>. SUFFICES ASSUME TypeOK, [Next]_vars PROVE TypeOK'
  OBVIOUS
<1>1. ASSUME NEW w \in Workers, NEW c \in Collaborators, NEW r \in Roles \cup {NoRole},
             Receive(w, c, r)
      PROVE TypeOK'
  BY <1>1 DEF TypeOK, Receive, Goto, Labels, Outcomes, Pending, Kinds
<1>2. ASSUME NEW w \in Workers, Reject(w) PROVE TypeOK'
  BY <1>2 DEF TypeOK, Reject, Outcomes
<1>3. ASSUME NEW w \in Workers, Hit(w) PROVE TypeOK'
  <2>1. Lookup(w).data \in SUBSET SimpleRole
    BY DEF TypeOK, Lookup, Workers
  <2>. QED
    BY <1>3, <2>1 DEF TypeOK, Hit, Goto, Labels, Kinds
<1>4. ASSUME NEW w \in Workers, NEW kind \in AnswerKinds, Request(w, kind) PROVE TypeOK'
  <2>1. Decoded(kind, assigned[job[w].who]) \in SUBSET SimpleRole
    BY DEF TypeOK, Decoded
  <2>2. kind \in Kinds
    BY ProvisioningAssumption
  <2>. QED
    BY <1>4, <2>1, <2>2 DEF TypeOK, Request, Goto, Labels
<1>5. ASSUME NEW w \in Workers, Response(w) PROVE TypeOK'
  <2>1. cache' \in [Connectors -> [Collaborators -> [stored : BOOLEAN, data : SUBSET SimpleRole]]]
    BY <1>5 DEF TypeOK, Response, Entry, Workers
  <2>2. wire' \in [Workers -> [kind : Kinds, data : SUBSET SimpleRole]]
    BY <1>5 DEF TypeOK, Response, Pending, Kinds
  <2>3. CASE Finish(w, "error") /\ UNCHANGED body
    BY <1>5, <2>1, <2>2, <2>3 DEF TypeOK, Response, Finish, Goto, Labels, Outcomes
  <2>4. CASE Decide(w, wire[w].data)
    <3>1. wire[w].data \in SUBSET SimpleRole /\ UNCHANGED job
      BY <1>5 DEF TypeOK, Response
    <3>. QED
      BY <1>5, <2>1, <2>2, <2>4, <3>1, DecideType DEF TypeOK, Response
  <2>. QED
    BY <1>5, <2>3, <2>4 DEF Response
<1>6. ASSUME NEW w \in Workers, NEW kind \in AnswerKinds, Put(w, kind) PROVE TypeOK'
  <2>1. kind \in Kinds
    BY ProvisioningAssumption
  <2>2. assigned' \in [Collaborators -> SUBSET SimpleRole]
    BY <1>6 DEF TypeOK, Put
  <2>3. held' \in [Collaborators -> SUBSET SimpleRole]
    BY <1>6, <2>2 DEF TypeOK, Put
  <2>. QED
    BY <1>6, <2>1, <2>2, <2>3 DEF TypeOK, Put, Goto, Labels
<1>7. ASSUME NEW w \in Workers, PutReply(w) PROVE TypeOK'
  BY <1>7 DEF TypeOK, PutReply, Finish, Goto, Labels, Outcomes
<1>8. ASSUME NEW n \in Connectors, NEW c \in Collaborators, Expire(n, c) PROVE TypeOK'
  BY <1>8 DEF TypeOK, Expire, NoEntry
<1>9. ASSUME NEW n \in Connectors, Crash(n) PROVE TypeOK'
  BY <1>9 DEF TypeOK, Crash, NoEntry, Labels, Outcomes, Pending, Kinds
<1>10. ASSUME NEW c \in Collaborators, NEW roles \in MemberRoles, Edit(c, roles) PROVE TypeOK'
  <2>1. roles \in SUBSET SimpleRole
    BY ProvisioningAssumption DEF MemberRoles, NativeRoles, SimpleRole
  <2>. QED
    BY <1>10, <2>1, ProvisioningAssumption DEF TypeOK, Edit
<1>11. CASE UNCHANGED vars
  BY <1>11 DEF TypeOK, vars
<1>. QED
  BY <1>1, <1>2, <1>3, <1>4, <1>5, <1>6, <1>7, <1>8, <1>9, <1>10, <1>11 DEF Next, Step

LEMMA TypeInit == Init => TypeOK
<1>. SUFFICES ASSUME Init PROVE TypeOK
  OBVIOUS
<1>1. MemberRoles \subseteq SUBSET SimpleRole
  BY ProvisioningAssumption DEF MemberRoles, NativeRoles, SimpleRole
<1>. QED
  BY <1>1, ProvisioningAssumption
  DEF Init, TypeOK, NoEntry, Pending, Labels, Outcomes, Kinds

\* Type correctness: every reachable state of the grant tasks, the caches and the
\* workspace is well typed, and only a grant, never a sync's read, is writing.
THEOREM TypeCorrect == Spec => []TypeOK
  BY TypeInit, TypeStep, PTL DEF Spec

-----------------------------------------------------------------------------
(* Where the listed roles come from *)

\* The inductive form of NoForeignRoles and AtMostOneRolePerEnv: the history has
\* every listed role, and a list about to be written has one role for each
\* environment.
DataInv ==
  /\ TypeOK
  /\ NoForeignRoles
  /\ AtMostOneRolePerEnv
  /\ \A c \in Collaborators : assigned[c] \subseteq held[c]
  /\ \A w \in Workers : pc[w] = "writing" => OneRolePerEnv(body[w])

LEMMA DecideData ==
  ASSUME DataInv, NEW w \in Workers, NEW roles \in SUBSET SimpleRole,
         roles \subseteq held[job[w].who], Decide(w, roles), UNCHANGED <<job, held>>
  PROVE  \A v \in Workers :
           /\ pc'[v] = "getting" => v # w /\ pc[v] = "getting"
           /\ pc'[v] = "writing" => /\ body'[v] \subseteq held[job[v].who] \cup {NewRole(v)}
                                    /\ OneRolePerEnv(body'[v])
<1>1. CASE UNCHANGED body /\ \E outcome \in Outcomes : Finish(w, outcome)
  BY <1>1 DEF DataInv, TypeOK, NoForeignRoles, Finish, Goto
<1>2. CASE /\ job[w].role # NoRole
           /\ \E r \in SimpleRole : roles = {r}
           /\ body' = [body EXCEPT ![w] = UpdatedRoles(roles, NewRole(w))]
           /\ Goto(w, "writing")
           /\ UNCHANGED answer
  <2>1. OneRolePerEnv(roles)
    BY <1>2 DEF OneRolePerEnv
  <2>2. NewRole(w) \in SimpleRole
    BY <1>2, NewRoleType DEF DataInv
  <2>3. OneRolePerEnv(UpdatedRoles(roles, NewRole(w)))
    BY <2>1, <2>2, UpdatedRolesType
  <2>4. UpdatedRoles(roles, NewRole(w)) \subseteq held[job[w].who] \cup {NewRole(w)}
    BY DEF UpdatedRoles
  <2>. QED
    BY <1>2, <2>3, <2>4 DEF DataInv, TypeOK, NoForeignRoles, Goto
<1>. QED
  BY <1>1, <1>2 DEF Decide, Outcomes

LEMMA DataStep == DataInv /\ [Next]_vars => DataInv'
<1>. SUFFICES ASSUME DataInv, [Next]_vars PROVE DataInv'
  OBVIOUS
<1>. USE DEF DataInv
<1>0. TypeOK'
  BY TypeStep
<1>1. ASSUME NEW w \in Workers, NEW c \in Collaborators, NEW r \in Roles \cup {NoRole},
             Receive(w, c, r)
      PROVE DataInv'
  BY <1>0, <1>1 DEF TypeOK, Receive, Goto, NoForeignRoles, AtMostOneRolePerEnv, NewRole
<1>2. ASSUME NEW w \in Workers, Reject(w) PROVE DataInv'
  BY <1>0, <1>2 DEF Reject, NoForeignRoles, AtMostOneRolePerEnv, NewRole
<1>3. ASSUME NEW w \in Workers, Hit(w) PROVE DataInv'
  <2>1. Lookup(w).data \subseteq held[job[w].who]
    BY DEF TypeOK, Lookup, Workers, NoForeignRoles
  <2>. QED
    BY <1>0, <1>3, <2>1 DEF TypeOK, Hit, Goto, NoForeignRoles, AtMostOneRolePerEnv, NewRole
<1>4. ASSUME NEW w \in Workers, NEW kind \in AnswerKinds, Request(w, kind) PROVE DataInv'
  <2>1. Decoded(kind, assigned[job[w].who]) \subseteq held[job[w].who]
    BY DEF TypeOK, Decoded
  <2>. QED
    BY <1>0, <1>4, <2>1 DEF TypeOK, Request, Goto, NoForeignRoles, AtMostOneRolePerEnv, NewRole
<1>5. ASSUME NEW w \in Workers, Response(w) PROVE DataInv'
  <2>1. /\ pc[w] = "getting"
        /\ wire[w].data \in SUBSET SimpleRole
        /\ wire[w].data \subseteq held[job[w].who]
        /\ UNCHANGED <<assigned, job, held, edits>>
        /\ wire' = [wire EXCEPT ![w] = Pending]
    BY <1>5 DEF Response, TypeOK, NoForeignRoles
  <2>2. \A n \in Connectors, c \in Collaborators : cache'[n][c].data \subseteq held[c]
    BY <1>5, <2>1 DEF Response, TypeOK, NoForeignRoles, Entry, Workers
  <2>3. CASE Finish(w, "error") /\ UNCHANGED body
    BY <1>0, <2>1, <2>2, <2>3
    DEF TypeOK, Finish, Goto, NoForeignRoles, AtMostOneRolePerEnv, NewRole
  <2>4. CASE Decide(w, wire[w].data)
    <3>1. \A v \in Workers :
             /\ pc'[v] = "getting" => v # w /\ pc[v] = "getting"
             /\ pc'[v] = "writing" => /\ body'[v] \subseteq held[job[v].who] \cup {NewRole(v)}
                                      /\ OneRolePerEnv(body'[v])
      BY <2>1, <2>4, DecideData
    <3>. QED
      BY <1>0, <2>1, <2>2, <3>1 DEF TypeOK, NoForeignRoles, AtMostOneRolePerEnv, NewRole
  <2>. QED
    BY <1>5, <2>3, <2>4 DEF Response
<1>6. ASSUME NEW w \in Workers, NEW kind \in AnswerKinds, Put(w, kind) PROVE DataInv'
  <2>1. /\ assigned' = [assigned EXCEPT ![job[w].who] = body[w]] \/ assigned' = assigned
        /\ pc[w] = "writing"
    BY <1>6 DEF Put
  <2>2. AtMostOneRolePerEnv'
    BY <2>1 DEF TypeOK, AtMostOneRolePerEnv
  <2>3. \A c \in Collaborators : assigned'[c] \subseteq held'[c] /\ held[c] \subseteq held'[c]
    BY <1>6 DEF Put
  <2>4. NoForeignRoles' /\ \A v \in Workers : pc'[v] = "writing" => OneRolePerEnv(body'[v])
    BY <1>6, <2>3 DEF TypeOK, Put, Goto, NoForeignRoles, NewRole
  <2>. QED
    BY <1>0, <2>2, <2>3, <2>4
<1>7. ASSUME NEW w \in Workers, PutReply(w) PROVE DataInv'
  BY <1>0, <1>7 DEF TypeOK, PutReply, Finish, Goto, NoForeignRoles, AtMostOneRolePerEnv, NewRole
<1>8. ASSUME NEW n \in Connectors, NEW c \in Collaborators, Expire(n, c) PROVE DataInv'
  BY <1>0, <1>8 DEF TypeOK, Expire, NoEntry, NoForeignRoles, AtMostOneRolePerEnv, NewRole
<1>9. ASSUME NEW n \in Connectors, Crash(n) PROVE DataInv'
  BY <1>0, <1>9 DEF TypeOK, Crash, NoEntry, NoForeignRoles, AtMostOneRolePerEnv, NewRole
<1>10. ASSUME NEW c \in Collaborators, NEW roles \in MemberRoles, Edit(c, roles) PROVE DataInv'
  <2>1. OneRolePerEnv(roles)
    BY DEF MemberRoles
  <2>. QED
    BY <1>0, <1>10, <2>1 DEF TypeOK, Edit, NoForeignRoles, AtMostOneRolePerEnv, NewRole
<1>11. CASE UNCHANGED vars
  BY <1>0, <1>11 DEF vars, NoForeignRoles, AtMostOneRolePerEnv, NewRole
<1>. QED
  BY <1>1, <1>2, <1>3, <1>4, <1>5, <1>6, <1>7, <1>8, <1>9, <1>10, <1>11 DEF Next, Step

LEMMA DataInit == Init => DataInv
<1>. SUFFICES ASSUME Init PROVE DataInv
  OBVIOUS
<1>1. TypeOK
  BY TypeInit
<1>2. AtMostOneRolePerEnv
  BY DEF Init, AtMostOneRolePerEnv, MemberRoles
<1>. QED
  BY <1>1, <1>2 DEF Init, DataInv, NoForeignRoles, NoEntry, Pending

\* No role is written to a member that the workspace did not list for that member
\* or that the task was not asked to grant, however stale the caches are and
\* however tasks, processes, crashes and edits interleave.
THEOREM NoForeign == Spec => []NoForeignRoles
<1>1. DataInv => NoForeignRoles
  BY DEF DataInv
<1>. QED
  BY <1>1, DataInit, DataStep, PTL DEF Spec

\* A member never has two roles in one environment.
THEOREM OneRole == Spec => []AtMostOneRolePerEnv
<1>1. DataInv => AtMostOneRolePerEnv
  BY DEF DataInv
<1>. QED
  BY <1>1, DataInit, DataStep, PTL DEF Spec

-----------------------------------------------------------------------------
(* One process alone: every grant is one atomic assignment *)

\* One process grants roles.
Alone == \E n \in Connectors : Connectors = {n}

\* The inductive form of StaleOnlyInOwnEnv: a task holds data only while it is
\* reading or writing, and a list about to be written has the new role.
SoleInv ==
  /\ DataInv
  /\ StaleOnlyInOwnEnv
  /\ \A w \in Workers :
       /\ pc[w] # "getting" => wire[w].data = {}
       /\ pc[w] # "writing" => body[w] = {}
       /\ pc[w] = "writing" => NewRole(w) \in body[w]

\* What a task that alone serves the workspace knows of its slot.
LEMMA StaleTask ==
  ASSUME StaleOnlyInOwnEnv, NEW w \in Workers, TypeOK, edits = 0
  PROVE  /\ wire[w].data # {} =>
              AgreeOutside(EnvOf[w[1]], wire[w].data, assigned[job[w].who])
         /\ body[w] # {} => AgreeOutside(EnvOf[w[1]], body[w], assigned[job[w].who])
<1>1. PICK n \in Connectors, s \in Slots : w = <<n, s>>
  BY DEF Workers
<1>2. job[w].who \in Collaborators
  BY DEF TypeOK
<1>. QED
  BY <1>1, <1>2 DEF StaleOnlyInOwnEnv

LEMMA DecideSole ==
  ASSUME SoleInv, NEW w \in Workers, NEW roles \in SUBSET SimpleRole,
         edits = 0 /\ roles # {} => AgreeOutside(EnvOf[w[1]], roles, assigned[job[w].who]),
         pc[w] # "writing", Decide(w, roles), UNCHANGED job
  PROVE  /\ \A v \in Workers : v # w => body'[v] = body[v] /\ pc'[v] = pc[v]
         /\ pc'[w] # "getting"
         /\ edits = 0 /\ body'[w] # {} => AgreeOutside(EnvOf[w[1]], body'[w], assigned[job[w].who])
         /\ pc'[w] # "writing" => body'[w] = {}
         /\ pc'[w] = "writing" => NewRole(w) \in body'[w]
<1>1. CASE UNCHANGED body /\ \E outcome \in Outcomes : Finish(w, outcome)
  BY <1>1 DEF SoleInv, DataInv, TypeOK, Finish, Goto
<1>2. CASE /\ job[w].role # NoRole
           /\ \E r \in SimpleRole : roles = {r}
           /\ body' = [body EXCEPT ![w] = UpdatedRoles(roles, NewRole(w))]
           /\ Goto(w, "writing")
           /\ UNCHANGED answer
  <2>1. NewRole(w) \in SimpleRole
    BY <1>2, NewRoleType DEF SoleInv, DataInv
  <2>2. AgreeOutside(EnvOf[w[1]], UpdatedRoles(roles, NewRole(w)), roles)
    BY <2>1, UpdatedRolesType DEF NewRole
  <2>3. edits = 0 => AgreeOutside(EnvOf[w[1]], UpdatedRoles(roles, NewRole(w)), assigned[job[w].who])
    BY <1>2, <2>2 DEF AgreeOutside
  <2>4. NewRole(w) \in UpdatedRoles(roles, NewRole(w))
    BY DEF UpdatedRoles
  <2>. QED
    BY <1>2, <2>3, <2>4 DEF SoleInv, DataInv, TypeOK, Goto
<1>. QED
  BY <1>1, <1>2 DEF Decide, Outcomes

LEMMA SoleStep == Alone /\ SoleInv /\ [Next]_vars => SoleInv'
<1>. SUFFICES ASSUME Alone, SoleInv, [Next]_vars PROVE SoleInv'
  OBVIOUS
<1>0. DataInv' /\ DataInv /\ TypeOK /\ TypeOK'
  BY DataStep DEF SoleInv, DataInv
<1>. DEFINE CacheAgrees == \A n \in Connectors, c \in Collaborators :
              edits = 0 /\ cache[n][c].data # {} =>
                AgreeOutside(EnvOf[n], cache[n][c].data, assigned[c])
            TaskAgrees(v) ==
              /\ edits = 0 /\ wire[v].data # {} =>
                   AgreeOutside(EnvOf[v[1]], wire[v].data, assigned[job[v].who])
              /\ edits = 0 /\ body[v] # {} =>
                   AgreeOutside(EnvOf[v[1]], body[v], assigned[job[v].who])
            Tidy(v) ==
              /\ pc[v] # "getting" => wire[v].data = {}
              /\ pc[v] # "writing" => body[v] = {}
              /\ pc[v] = "writing" => NewRole(v) \in body[v]
<1>a. CacheAgrees /\ \A v \in Workers : TaskAgrees(v) /\ Tidy(v)
  BY <1>0, StaleTask DEF SoleInv, StaleOnlyInOwnEnv
<1>b. SUFFICES CacheAgrees' /\ \A v \in Workers : TaskAgrees(v)' /\ Tidy(v)'
  <2>1. StaleOnlyInOwnEnv'
    <3>1. \A n \in Connectors, s \in Slots : <<n, s>> \in Workers /\ <<n, s>>[1] = n
      BY DEF Workers
    <3>. QED
      BY <1>b, <3>1 DEF StaleOnlyInOwnEnv
  <2>. QED
    BY <1>0, <1>b, <2>1 DEF SoleInv
<1>. HIDE DEF CacheAgrees, TaskAgrees, Tidy
<1>1. ASSUME NEW w \in Workers, NEW c \in Collaborators, NEW r \in Roles \cup {NoRole},
             Receive(w, c, r)
      PROVE CacheAgrees' /\ \A v \in Workers : TaskAgrees(v)' /\ Tidy(v)'
  BY <1>0, <1>1, <1>a
  DEF Receive, Goto, Pending, TypeOK, CacheAgrees, TaskAgrees, Tidy, NewRole
<1>2. ASSUME NEW w \in Workers, Reject(w)
      PROVE CacheAgrees' /\ \A v \in Workers : TaskAgrees(v)' /\ Tidy(v)'
  BY <1>2, <1>a DEF Reject, CacheAgrees, TaskAgrees, Tidy, NewRole
<1>3. ASSUME NEW w \in Workers, Hit(w)
      PROVE CacheAgrees' /\ \A v \in Workers : TaskAgrees(v)' /\ Tidy(v)'
  <2>1. /\ Lookup(w).data \in SUBSET SimpleRole
        /\ edits = 0 /\ Lookup(w).data # {} =>
             AgreeOutside(EnvOf[w[1]], Lookup(w).data, assigned[job[w].who])
    <3>1. w[1] \in Connectors /\ job[w].who \in Collaborators
      BY <1>0 DEF TypeOK, Workers
    <3>2. Lookup(w).data \in SUBSET SimpleRole
      BY <1>0, <3>1 DEF TypeOK, Lookup
    <3>. QED
      BY <1>a, <3>1, <3>2 DEF Lookup, CacheAgrees
  <2>. QED
    BY <1>0, <1>3, <1>a, <2>1
    DEF Hit, Goto, TypeOK, CacheAgrees, TaskAgrees, Tidy, NewRole
<1>4. ASSUME NEW w \in Workers, NEW kind \in AnswerKinds, Request(w, kind)
      PROVE CacheAgrees' /\ \A v \in Workers : TaskAgrees(v)' /\ Tidy(v)'
  BY <1>0, <1>4, <1>a
  DEF Request, Goto, Decoded, TypeOK, CacheAgrees, TaskAgrees, Tidy, NewRole, AgreeOutside
<1>5. ASSUME NEW w \in Workers, Response(w)
      PROVE CacheAgrees' /\ \A v \in Workers : TaskAgrees(v)' /\ Tidy(v)'
  <2>1. /\ pc[w] = "getting"
        /\ wire[w].data \in SUBSET SimpleRole
        /\ edits = 0 /\ wire[w].data # {} =>
             AgreeOutside(EnvOf[w[1]], wire[w].data, assigned[job[w].who])
        /\ UNCHANGED <<assigned, job, edits>>
        /\ wire' = [wire EXCEPT ![w] = Pending]
    BY <1>0, <1>5, <1>a DEF Response, TypeOK, TaskAgrees
  <2>2. CacheAgrees'
    BY <1>0, <1>5, <1>a, <2>1 DEF Response, TypeOK, Entry, Workers, CacheAgrees
  <2>3. CASE Finish(w, "error") /\ UNCHANGED body
    BY <1>0, <1>a, <2>1, <2>2, <2>3
    DEF TypeOK, Finish, Goto, Pending, TaskAgrees, Tidy, NewRole
  <2>4. CASE Decide(w, wire[w].data)
    <3>1. /\ \A v \in Workers : v # w => body'[v] = body[v] /\ pc'[v] = pc[v]
          /\ pc'[w] # "getting"
          /\ edits = 0 /\ body'[w] # {} =>
               AgreeOutside(EnvOf[w[1]], body'[w], assigned[job[w].who])
          /\ pc'[w] # "writing" => body'[w] = {}
          /\ pc'[w] = "writing" => NewRole(w) \in body'[w]
      BY <2>1, <2>4, DecideSole
    <3>. QED
      BY <1>0, <1>a, <2>1, <2>2, <3>1 DEF TypeOK, Pending, TaskAgrees, Tidy, NewRole
  <2>. QED
    BY <1>5, <2>3, <2>4 DEF Response
<1>6. ASSUME NEW w \in Workers, NEW kind \in AnswerKinds, Put(w, kind)
      PROVE CacheAgrees' /\ \A v \in Workers : TaskAgrees(v)' /\ Tidy(v)'
  <2>1. Tidy(w) /\ TaskAgrees(w) /\ pc[w] = "writing" /\ UNCHANGED edits
    BY <1>6, <1>a DEF Put
  <2>2. edits = 0 => AgreeOutside(EnvOf[w[1]], body[w], assigned[job[w].who])
    BY <2>1 DEF Tidy, TaskAgrees
  <2>3. edits = 0 =>
          \A c \in Collaborators : AgreeOutside(EnvOf[w[1]], assigned'[c], assigned[c])
    BY <1>0, <1>6, <2>2 DEF Put, TypeOK, AgreeOutside
  <2>4. \A n \in Connectors : n = w[1]
    BY DEF Alone, Workers
  <2>5. CacheAgrees'
    BY <1>6, <1>a, <2>1, <2>3, <2>4 DEF Put, CacheAgrees, AgreeOutside
  <2>6. \A v \in Workers : TaskAgrees(v)'
    <3>. SUFFICES ASSUME NEW v \in Workers PROVE TaskAgrees(v)'
      OBVIOUS
    <3>1. v[1] = w[1] /\ job[v].who \in Collaborators /\ UNCHANGED job
      BY <1>0, <1>6, <2>4 DEF Workers, TypeOK, Put
    <3>2. wire'[v].data \in {{}, wire[v].data} /\ body'[v] \in {{}, body[v]}
      BY <1>0, <1>6 DEF Put, TypeOK
    <3>. QED
      BY <1>a, <2>1, <2>3, <3>1, <3>2 DEF TaskAgrees, AgreeOutside
  <2>7. \A v \in Workers : Tidy(v)'
    BY <1>0, <1>6, <1>a DEF Put, Goto, TypeOK, Tidy, NewRole
  <2>. QED
    BY <2>5, <2>6, <2>7
<1>7. ASSUME NEW w \in Workers, PutReply(w)
      PROVE CacheAgrees' /\ \A v \in Workers : TaskAgrees(v)' /\ Tidy(v)'
  BY <1>0, <1>7, <1>a DEF PutReply, Finish, Goto, TypeOK, CacheAgrees, TaskAgrees, Tidy, NewRole
<1>8. ASSUME NEW n \in Connectors, NEW c \in Collaborators, Expire(n, c)
      PROVE CacheAgrees' /\ \A v \in Workers : TaskAgrees(v)' /\ Tidy(v)'
  BY <1>0, <1>8, <1>a DEF Expire, NoEntry, TypeOK, CacheAgrees, TaskAgrees, Tidy, NewRole
<1>9. ASSUME NEW n \in Connectors, Crash(n)
      PROVE CacheAgrees' /\ \A v \in Workers : TaskAgrees(v)' /\ Tidy(v)'
  BY <1>0, <1>9, <1>a DEF Crash, NoEntry, Pending, TypeOK, CacheAgrees, TaskAgrees, Tidy, NewRole
<1>10. ASSUME NEW c \in Collaborators, NEW roles \in MemberRoles, Edit(c, roles)
       PROVE CacheAgrees' /\ \A v \in Workers : TaskAgrees(v)' /\ Tidy(v)'
  <2>1. edits' # 0
    BY <1>0, <1>10 DEF Edit, TypeOK
  <2>. QED
    BY <1>10, <1>a, <2>1 DEF Edit, CacheAgrees, TaskAgrees, Tidy, NewRole
<1>11. ASSUME UNCHANGED vars
       PROVE CacheAgrees' /\ \A v \in Workers : TaskAgrees(v)' /\ Tidy(v)'
  BY <1>11, <1>a DEF vars, CacheAgrees, TaskAgrees, Tidy, NewRole
<1>. QED
  BY <1>1, <1>2, <1>3, <1>4, <1>5, <1>6, <1>7, <1>8, <1>9, <1>10, <1>11 DEF Next, Step

\* At the start nothing is cached and no task runs.
LEMMA SoleInit == Init => SoleInv
<1>. SUFFICES ASSUME Init PROVE SoleInv
  OBVIOUS
<1>1. DataInv
  BY DataInit
<1>2. StaleOnlyInOwnEnv
  BY DEF Init, StaleOnlyInOwnEnv, NoEntry, Pending, Workers
<1>. QED
  BY <1>1, <1>2 DEF Init, SoleInv, Pending

\* A process that alone grants roles never knows a role of another environment
\* wrongly, whatever its cache holds, until somebody edits roles by hand.
THEOREM StaleOnlyOwn == Alone => (Spec => []StaleOnlyInOwnEnv)
<1>. SUFFICES ASSUME Alone PROVE Spec => []StaleOnlyInOwnEnv
  OBVIOUS
<1>1. SoleInv => StaleOnlyInOwnEnv
  BY DEF SoleInv
<1>2. SoleInv /\ [Next]_vars => SoleInv'
  BY SoleStep
<1>. QED
  BY <1>1, <1>2, SoleInit, PTL DEF Spec

-----------------------------------------------------------------------------
(* Refinement of the abstract store *)

\* The role of an environment is the one listed for it.
LEMMA RoleInListed ==
  ASSUME NEW roles \in SUBSET SimpleRole, OneRolePerEnv(roles), NEW r \in roles
  PROVE  RoleIn(roles, r.env) = r.name
<1>1. (CHOOSE s \in roles : s.env = r.env) = r
  BY DEF OneRolePerEnv
<1>. QED
  BY <1>1 DEF RoleIn

\* Every role list maps to a function from environments to roles.
LEMMA RoleInType ==
  ASSUME NEW roles \in SUBSET SimpleRole, NEW e \in Environments
  PROVE  RoleIn(roles, e) \in RoleNames \cup {NoRole}
<1>1. CASE \E r \in roles : r.env = e
  <2>1. (CHOOSE r \in roles : r.env = e) \in SimpleRole
    BY <1>1
  <2>. QED
    BY <1>1, <2>1 DEF RoleIn, SimpleRole
<1>2. CASE ~ \E r \in roles : r.env = e
  BY <1>2 DEF RoleIn
<1>. QED
  BY <1>1, <1>2

\* Lists that agree in an environment map to the same role of it.
LEMMA RoleInAgree ==
  ASSUME NEW roles \in SUBSET SimpleRole, NEW others \in SUBSET SimpleRole,
         OneRolePerEnv(roles), OneRolePerEnv(others),
         NEW e \in Environments, NEW f \in Environments, f # e,
         AgreeOutside(e, roles, others)
  PROVE  RoleIn(roles, f) = RoleIn(others, f)
<1>1. \A r : r \in roles /\ r.env = f <=> r \in others /\ r.env = f
  BY DEF AgreeOutside
<1>2. CASE \E r \in roles : r.env = f
  <2>1. PICK r \in roles : r.env = f
    BY <1>2
  <2>2. r \in others
    BY <1>1, <2>1
  <2>. QED
    BY <2>1, <2>2, RoleInListed
<1>3. CASE ~ \E r \in roles : r.env = f
  <2>1. ~ \E r \in others : r.env = f
    BY <1>1, <1>3
  <2>. QED
    BY <1>3, <2>1 DEF RoleIn
<1>. QED
  BY <1>2, <1>3

\* A write that takes effect assigns the role that was asked for.
LEMMA PutAssigns ==
  ASSUME SoleInv, NEW w \in Workers, pc[w] = "writing", edits = 0, UNCHANGED edits,
         assigned' = [assigned EXCEPT ![job[w].who] = body[w]]
  PROVE  Store!Assign(job[w].who, EnvOf[w[1]], ResourceId[job[w].role])
<1>. DEFINE c == job[w].who
            e == EnvOf[w[1]]
            name == ResourceId[job[w].role]
<1>1. /\ TypeOK
      /\ c \in Collaborators
      /\ e \in Environments
      /\ body[w] \in SUBSET SimpleRole
      /\ assigned[c] \in SUBSET SimpleRole
  BY ProvisioningAssumption DEF SoleInv, DataInv, TypeOK, Workers
<1>2. OneRolePerEnv(body[w]) /\ OneRolePerEnv(assigned[c])
  BY <1>1 DEF SoleInv, DataInv, AtMostOneRolePerEnv
<1>3. NewRole(w) \in body[w] /\ NewRole(w).env = e /\ NewRole(w).name = name
  BY DEF SoleInv, NewRole
<1>4. AgreeOutside(e, body[w], assigned[c])
  BY <1>1, <1>3, StaleTask DEF SoleInv
<1>5. RoleIn(body[w], e) = name
  BY <1>1, <1>2, <1>3, RoleInListed
<1>6. \A f \in Environments : f # e => RoleIn(body[w], f) = RoleIn(assigned[c], f)
  BY <1>1, <1>2, <1>4, RoleInAgree
<1>7. assigned' = [assigned EXCEPT ![c] = body[w]]
  OBVIOUS
<1>8. \A d \in Collaborators : assigned'[d] = IF d = c THEN body[w] ELSE assigned[d]
  BY <1>1, <1>7 DEF TypeOK
<1>. DEFINE access == [d \in Collaborators |-> [f \in Environments |-> RoleIn(assigned[d], f)]]
            accessNew == [d \in Collaborators |-> [f \in Environments |-> RoleIn(assigned'[d], f)]]
<1>9. accessNew = [access EXCEPT ![c][e] = name]
  <2>. DEFINE target == [access EXCEPT ![c][e] = name]
  <2>1. target = [d \in Collaborators |-> IF d = c THEN [access[c] EXCEPT ![e] = name] ELSE access[d]]
    BY <1>1
  <2>2. ASSUME NEW d \in Collaborators PROVE accessNew[d] = target[d]
    <3>1. CASE d # c
      BY <1>8, <2>1, <3>1
    <3>2. CASE d = c
      <4>1. target[d] = [f \in Environments |-> IF f = e THEN name ELSE RoleIn(assigned[c], f)]
        BY <1>1, <2>1, <3>2
      <4>2. accessNew[d] = [f \in Environments |-> RoleIn(body[w], f)]
        BY <1>8, <3>2
      <4>3. \A f \in Environments :
               RoleIn(body[w], f) = IF f = e THEN name ELSE RoleIn(assigned[c], f)
        BY <1>5, <1>6
      <4>. QED
        BY <4>1, <4>2, <4>3
    <3>. QED
      BY <3>1, <3>2
  <2>3. target = [d \in Collaborators |-> target[d]]
    BY <2>1
  <2>4. accessNew = [d \in Collaborators |-> accessNew[d]]
    OBVIOUS
  <2>. QED
    BY <2>2, <2>3, <2>4
<1>. QED
  BY <1>9 DEF Store!Assign, Access

\* Role lists with one role for each environment map to a state of the store.
LEMMA AccessType ==
  ASSUME TypeOK PROVE Access \in Store!AccessMaps
<1>1. \A c \in Collaborators, e \in Environments :
         RoleIn(assigned[c], e) \in RoleNames \cup {NoRole}
  BY RoleInType DEF TypeOK
<1>. QED
  BY <1>1 DEF Store!AccessMaps, Access

LEMMA StoreInit == Init => Store!Init
<1>. SUFFICES ASSUME Init PROVE Store!Init
  OBVIOUS
<1>1. Access \in Store!AccessMaps
  BY TypeInit, AccessType
<1>. QED
  BY <1>1 DEF Store!Init, Init

LEMMA StoreStep == Alone /\ SoleInv /\ [Next]_vars => [Store!Next]_(Store!vars)
<1>. SUFFICES ASSUME Alone, SoleInv, [Next]_vars PROVE Store!Next \/ UNCHANGED Store!vars
  OBVIOUS
<1>0. TypeOK /\ TypeOK' /\ Access' \in Store!AccessMaps
  <2>1. TypeOK /\ TypeOK'
    BY TypeStep DEF SoleInv, DataInv
  <2>2. (Access \in Store!AccessMaps)'
    BY <2>1, AccessType, PTL
  <2>. QED
    BY <2>1, <2>2 DEF Store!AccessMaps
<1>1. ASSUME NEW w \in Workers, NEW kind \in AnswerKinds, Put(w, kind)
      PROVE Store!Next \/ UNCHANGED Store!vars
  <2>1. CASE assigned' = assigned
    BY <1>1, <2>1 DEF Access, Put, Store!vars
  <2>2. CASE assigned' = [assigned EXCEPT ![job[w].who] = body[w]] /\ edits = 0
    <3>1. pc[w] = "writing" /\ UNCHANGED edits
      BY <1>1 DEF Put
    <3>2. Store!Assign(job[w].who, EnvOf[w[1]], ResourceId[job[w].role])
      BY <2>2, <3>1, PutAssigns
    <3>3. /\ job[w].who \in Collaborators
          /\ EnvOf[w[1]] \in Environments
          /\ ResourceId[job[w].role] \in RoleNames
      BY <1>0, <3>1, ProvisioningAssumption DEF TypeOK, Workers
    <3>. QED
      BY <3>2, <3>3 DEF Store!Next
  <2>3. CASE edits # 0
    <3>1. edits' > 0
      BY <1>0, <1>1, <2>3 DEF Put, TypeOK
    <3>. QED
      BY <1>0, <3>1 DEF Store!Next, Store!Interfere
  <2>. QED
    BY <1>1, <2>1, <2>2, <2>3 DEF Put
<1>2. ASSUME NEW c \in Collaborators, NEW roles \in MemberRoles, Edit(c, roles)
      PROVE Store!Next
  <2>1. edits' > 0
    BY <1>0, <1>2 DEF Edit, TypeOK
  <2>. QED
    BY <1>0, <2>1 DEF Store!Next, Store!Interfere
<1>3. CASE UNCHANGED <<assigned, edits>>
  BY <1>3 DEF Access, Store!vars
<1>. QED
  BY <1>1, <1>2, <1>3
  DEF Next, Step, Receive, Reject, Hit, Request, Response, PutReply, Expire, Crash, vars

\* A process that alone grants roles implements the abstract store: whatever its
\* cache holds, whichever answers it gets and however its tasks interleave and
\* crash, the roles change by whole grants only, each of one collaborator in one
\* environment, until somebody edits roles by hand.
THEOREM GrantsImplementStore == Alone => (Spec => GrantsAreAtomic)
<1>. SUFFICES ASSUME Alone PROVE Spec => GrantsAreAtomic
  OBVIOUS
<1>1. SoleInv /\ [Next]_vars => SoleInv' /\ [Store!Next]_(Store!vars)
  BY SoleStep, StoreStep
<1>. QED
  BY <1>1, SoleInit, StoreInit, PTL DEF Spec, GrantsAreAtomic, Store!Spec

-----------------------------------------------------------------------------
(* What a task reports has happened *)

\* The workspace gives none of the answers that doRequest drops although the write
\* may not have been made.
Honest == AnswerKinds \cap {"retryable", "denied"} = {}

\* The inductive form of AnswersAreBacked: a list about to be written has the new
\* role, and so has the history once the write is answered without an error.
BackedInv ==
  /\ DataInv
  /\ AnswersAreBacked
  /\ \A w \in Workers :
       /\ pc[w] = "writing" => NewRole(w) \in body[w]
       /\ pc[w] = "putting" /\ doRequest(wire[w].kind) = "nil" => NewRole(w) \in held[job[w].who]

\* What a decision reports or prepares rests on the list it was taken from.
LEMMA DecideBacked ==
  ASSUME BackedInv, NEW w \in Workers, NEW roles \in SUBSET SimpleRole,
         roles \subseteq held[job[w].who], Decide(w, roles), UNCHANGED <<job, held>>
  PROVE  \A v \in Workers :
           /\ answer'[v] \in {"granted", "exists"} => NewRole(v) \in held[job[v].who]
           /\ pc'[v] = "writing" => NewRole(v) \in body'[v]
           /\ pc'[v] = "putting" => v # w /\ pc[v] = "putting"
<1>1. TypeOK /\ \A v \in Workers : answer[v] \in {"granted", "exists"} => NewRole(v) \in held[job[v].who]
  BY DEF BackedInv, DataInv, AnswersAreBacked
<1>2. CASE /\ job[w].role # NoRole
           /\ body' = [body EXCEPT ![w] = UpdatedRoles(roles, NewRole(w))]
           /\ Goto(w, "writing")
           /\ UNCHANGED answer
  BY <1>1, <1>2 DEF BackedInv, TypeOK, Goto, UpdatedRoles
<1>3. CASE NewRole(w) \in roles /\ Finish(w, "exists") /\ UNCHANGED body
  BY <1>1, <1>3 DEF BackedInv, TypeOK, Finish, Goto
<1>4. CASE UNCHANGED body /\ \E outcome \in {"error", "read"} : Finish(w, outcome)
  BY <1>1, <1>4 DEF BackedInv, TypeOK, Finish, Goto
<1>. QED
  BY <1>2, <1>3, <1>4 DEF Decide

LEMMA BackedStep == Honest /\ BackedInv /\ [Next]_vars => BackedInv'
<1>. SUFFICES ASSUME Honest, BackedInv, [Next]_vars PROVE BackedInv'
  OBVIOUS
<1>0. DataInv' /\ DataInv /\ TypeOK /\ TypeOK'
  BY DataStep DEF BackedInv, DataInv
<1>. DEFINE Backed(v) ==
              /\ answer[v] \in {"granted", "exists"} => NewRole(v) \in held[job[v].who]
              /\ pc[v] = "writing" => NewRole(v) \in body[v]
              /\ pc[v] = "putting" /\ doRequest(wire[v].kind) = "nil" =>
                   NewRole(v) \in held[job[v].who]
<1>a. \A v \in Workers : Backed(v)
  BY DEF BackedInv, AnswersAreBacked
<1>b. SUFFICES \A v \in Workers : Backed(v)'
  BY <1>0 DEF BackedInv, AnswersAreBacked
<1>. HIDE DEF Backed
<1>1. ASSUME NEW w \in Workers, NEW c \in Collaborators, NEW r \in Roles \cup {NoRole},
             Receive(w, c, r)
      PROVE \A v \in Workers : Backed(v)'
  BY <1>0, <1>1, <1>a DEF Receive, Goto, TypeOK, Backed, NewRole
<1>2. ASSUME NEW w \in Workers, Reject(w) PROVE \A v \in Workers : Backed(v)'
  BY <1>0, <1>2, <1>a DEF Reject, TypeOK, Backed, NewRole
<1>3. ASSUME NEW w \in Workers, Hit(w) PROVE \A v \in Workers : Backed(v)'
  BY <1>0, <1>3, <1>a DEF Hit, Goto, TypeOK, Backed, NewRole
<1>4. ASSUME NEW w \in Workers, NEW kind \in AnswerKinds, Request(w, kind)
      PROVE \A v \in Workers : Backed(v)'
  BY <1>0, <1>4, <1>a DEF Request, Goto, TypeOK, Backed, NewRole
<1>5. ASSUME NEW w \in Workers, Response(w) PROVE \A v \in Workers : Backed(v)'
  <2>1. /\ pc[w] = "getting"
        /\ wire[w].data \in SUBSET SimpleRole
        /\ wire[w].data \subseteq held[job[w].who]
        /\ UNCHANGED <<assigned, job, held, edits>>
        /\ wire' = [wire EXCEPT ![w] = Pending]
    BY <1>0, <1>5 DEF Response, TypeOK, DataInv, NoForeignRoles
  <2>2. CASE Finish(w, "error") /\ UNCHANGED body
    BY <1>0, <1>a, <2>1, <2>2 DEF TypeOK, Finish, Goto, Backed, NewRole
  <2>3. CASE Decide(w, wire[w].data)
    <3>1. \A v \in Workers :
             /\ answer'[v] \in {"granted", "exists"} => NewRole(v) \in held[job[v].who]
             /\ pc'[v] = "writing" => NewRole(v) \in body'[v]
             /\ pc'[v] = "putting" => v # w /\ pc[v] = "putting"
      BY <2>1, <2>3, DecideBacked
    <3>. QED
      BY <1>0, <1>a, <2>1, <3>1 DEF TypeOK, Backed, NewRole
  <2>. QED
    BY <1>5, <2>2, <2>3 DEF Response
<1>6. ASSUME NEW w \in Workers, NEW kind \in AnswerKinds, Put(w, kind)
      PROVE \A v \in Workers : Backed(v)'
  <2>1. pc[w] = "writing" /\ NewRole(w) \in body[w] /\ UNCHANGED <<job, answer>>
    BY <1>6, <1>a DEF Put, Backed
  <2>2. \A c \in Collaborators : held[c] \subseteq held'[c] /\ assigned'[c] \subseteq held'[c]
    BY <1>6 DEF Put
  <2>3. doRequest(kind) = "nil" => NewRole(w) \in held'[job[w].who]
    <3>1. ASSUME doRequest(kind) = "nil" PROVE Effects(kind) = {TRUE}
      BY <3>1, ProvisioningAssumption DEF Honest, Kinds, doRequest, Effects
    <3>2. ASSUME doRequest(kind) = "nil" PROVE assigned'[job[w].who] = body[w]
      <4>1. PICK effect \in Effects(kind) :
               assigned' = IF effect THEN [assigned EXCEPT ![job[w].who] = body[w]] ELSE assigned
        BY <1>6 DEF Put
      <4>2. effect = TRUE
        BY <3>1, <3>2, Zenon
      <4>3. assigned' = [assigned EXCEPT ![job[w].who] = body[w]]
        BY <4>1, <4>2, Zenon
      <4>. QED
        BY <1>0, <4>3 DEF TypeOK
    <3>. QED
      BY <1>0, <2>1, <2>2, <3>2 DEF TypeOK
  <2>4. wire'[w].kind = kind /\ \A v \in Workers : v # w => wire'[v] = wire[v] /\ body'[v] = body[v]
    BY <1>0, <1>6 DEF Put, TypeOK
  <2>5. pc'[w] = "putting" /\ \A v \in Workers : v # w => pc'[v] = pc[v]
    BY <1>0, <1>6 DEF Put, Goto, TypeOK
  <2>6. \A v \in Workers : held[job[v].who] \subseteq held'[job[v].who]
    BY <1>0, <2>2 DEF TypeOK
  <2>. QED
    BY <1>a, <2>1, <2>3, <2>4, <2>5, <2>6 DEF Backed, NewRole
<1>7. ASSUME NEW w \in Workers, PutReply(w) PROVE \A v \in Workers : Backed(v)'
  BY <1>0, <1>7, <1>a DEF PutReply, Finish, Goto, TypeOK, Backed, NewRole, doRequest
<1>8. ASSUME NEW n \in Connectors, NEW c \in Collaborators, Expire(n, c)
      PROVE \A v \in Workers : Backed(v)'
  BY <1>8, <1>a DEF Expire, Backed, NewRole
<1>9. ASSUME NEW n \in Connectors, Crash(n) PROVE \A v \in Workers : Backed(v)'
  BY <1>0, <1>9, <1>a DEF Crash, Backed, NewRole
<1>10. ASSUME NEW c \in Collaborators, NEW roles \in MemberRoles, Edit(c, roles)
       PROVE \A v \in Workers : Backed(v)'
  BY <1>0, <1>10, <1>a DEF Edit, TypeOK, Backed, NewRole
<1>11. ASSUME UNCHANGED vars PROVE \A v \in Workers : Backed(v)'
  BY <1>11, <1>a DEF vars, Backed, NewRole
<1>. QED
  BY <1>1, <1>2, <1>3, <1>4, <1>5, <1>6, <1>7, <1>8, <1>9, <1>10, <1>11 DEF Next, Step

\* A task that reports a grant, or that the grant exists already, is right that the
\* workspace has listed the role, provided the workspace gives no answer that
\* doRequest drops; any number of processes, tasks, crashes and edits.
THEOREM AnswersBacked == Honest => (Spec => []AnswersAreBacked)
<1>. SUFFICES ASSUME Honest PROVE Spec => []AnswersAreBacked
  OBVIOUS
<1>1. Init => BackedInv
  BY DataInit DEF BackedInv, AnswersAreBacked, Init
<1>2. BackedInv /\ [Next]_vars => BackedInv'
  BY BackedStep
<1>3. BackedInv => AnswersAreBacked
  BY DEF BackedInv
<1>. QED
  BY <1>1, <1>2, <1>3, PTL DEF Spec
=============================================================================
