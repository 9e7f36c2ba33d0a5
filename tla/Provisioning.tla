---------------------------- MODULE Provisioning ----------------------------
(***************************************************************************)
(* Grant tasks: roleBuilder.Grant reads a collaborator's roles, computes a  *)
(* new role list and writes the whole list back.  Several tasks run at once *)
(* in one connector process (runner.go, taskConcurrency), several connector *)
(* processes may serve one workspace, one per environment, and every read   *)
(* of a process goes through its in-memory HTTP cache, which a write does   *)
(* not invalidate.  A full sync in the same process reads the same URL.     *)
(***************************************************************************)
EXTENDS HttpClient

CONSTANTS
  Connectors,      \* connector processes
  Slots,           \* task slots of a process
  Collaborators,   \* members of the workspace
  Environments,    \* environments of the workspace
  EnvOf,           \* EnvOf[n]: the environment process n was started for
  Roles,           \* role resources of the sync, base and custom
  RoleNames,       \* strings that may stand for a role
  ResourceId,      \* ResourceId[r]: the id of role resource r
  DisplayName,     \* DisplayName[r]: the name Workato knows the role by
  AnswerKinds,     \* the kinds of answer the workspace may give
  NoRole,          \* marks a read that belongs to a sync
  MaxEdits         \* bound on the edits made in the Workato UI

ASSUME ProvisioningAssumption ==
  /\ EnvOf \in [Connectors -> Environments]
  /\ ResourceId \in [Roles -> RoleNames]
  /\ DisplayName \in [Roles -> RoleNames]
  /\ AnswerKinds \subseteq Kinds
  /\ NoRole \notin Roles
  /\ NoRole \notin RoleNames
  /\ MaxEdits \in Nat

Workers == Connectors \X Slots
SimpleRole == [env : Environments, name : RoleNames]

VARIABLES
  assigned,   \* assigned[c]: the role list of c in the workspace
  cache,      \* cache[n][c]: the body process n has cached for c's roles
  pc,         \* pc[w]: where task w is
  job,        \* job[w]: collaborator and role resource of task w
  wire,       \* wire[w]: the answer on its way to task w
  body,       \* body[w]: the role list task w is about to write
  answer,     \* answer[w]: the outcome of the last task in slot w
  held,       \* history: every role the workspace ever listed for c
  edits       \* number of UI edits so far

vars == <<assigned, cache, pc, job, wire, body, answer, held, edits>>

OneRolePerEnv(roles) == \A r, s \in roles : r.env = s.env => r = s

\* The role lists a member may have before any grant: names that the roles of
\* the workspace really have, at most one for each environment.
NativeRoles == [env : Environments, name : {DisplayName[r] : r \in Roles}]
MemberRoles == {roles \in SUBSET NativeRoles : OneRolePerEnv(roles)}

\* A slot of the cache: empty, or the decoded body of a stored response.
NoEntry == [stored |-> FALSE, data |-> {}]
Entry(data) == [stored |-> TRUE, data |-> data]

Pending == [kind |-> "none", data |-> {}]

Init ==
  /\ assigned \in [Collaborators -> MemberRoles]
  /\ cache = [n \in Connectors |-> [c \in Collaborators |-> NoEntry]]
  /\ pc = [w \in Workers |-> "idle"]
  /\ job \in {[w \in Workers |-> [who |-> c, role |-> NoRole]] : c \in Collaborators}
  /\ wire = [w \in Workers |-> Pending]
  /\ body = [w \in Workers |-> {}]
  /\ answer = [w \in Workers |-> "none"]
  /\ held = assigned
  /\ edits = 0

Goto(w, label) == pc' = [pc EXCEPT ![w] = label]

\* The task ends; its slot is free for the next one.
Finish(w, outcome) ==
  /\ Goto(w, "idle")
  /\ answer' = [answer EXCEPT ![w] = outcome]

\* (mutant) The key of the role resource is written instead of its id.
NewRole_ByKey(w) == [env |-> EnvOf[w[1]], name |-> job[w].role]

\* The role the task asks for: the id of the entitlement's resource is taken
\* for the name, the environment is the one the process was started for.
NewRole(w) == [env |-> EnvOf[w[1]], name |-> ResourceId[job[w].role]]

\* (mutants) The new role is always appended; the other roles are dropped.
UpdatedRoles_Append(roles, new) == roles \cup {new}
UpdatedRoles_Only(roles, new) == {new}

\* "Workato just accept one role per environment": the role of the same
\* environment is replaced, or the new role is appended.
UpdatedRoles(roles, new) == {r \in roles : r.env # new.env} \cup {new}

\* (mutant) The key of the cache leaves the collaborator's id out.
Lookup_SharedKey(w) == cache[w[1]][CHOOSE c \in Collaborators : TRUE]

\* The slot of the process's cache for the URL the task reads.
Lookup(w) == cache[w[1]][job[w].who]

\* A task is dispatched to a free slot: a grant of role r to c, or the read a
\* full sync makes of c (r = NoRole).
Receive(w, c, r) ==
  /\ pc[w] = "idle"
  /\ Goto(w, "lookup")
  /\ job' = [job EXCEPT ![w] = [who |-> c, role |-> r]]
  /\ wire' = [wire EXCEPT ![w] = Pending]
  /\ answer' = [answer EXCEPT ![w] = "none"]
  /\ UNCHANGED <<assigned, cache, body, held, edits>>

\* A grant to a principal that is not a collaborator, and every revoke, is turned
\* down before anything is read.
Reject(w) ==
  /\ pc[w] = "idle"
  /\ answer' = [answer EXCEPT ![w] = "error"]
  /\ UNCHANGED <<assigned, cache, pc, job, wire, body, held, edits>>

\* What the task does with the decoded role list: GetCollaboratorPrivileges
\* wants exactly one element, then Grant compares and computes the new list.
Decide(w, roles) ==
  \/ /\ ~ \E r \in SimpleRole : roles = {r}
     /\ Finish(w, "error")
     /\ UNCHANGED body
  \/ /\ \E r \in SimpleRole : roles = {r}
     /\ job[w].role = NoRole
     /\ Finish(w, "read")
     /\ UNCHANGED body
  \/ /\ \E r \in SimpleRole : roles = {r}
     /\ job[w].role # NoRole
     /\ NewRole(w) \in roles
     /\ Finish(w, "exists")
     /\ UNCHANGED body
  \/ /\ \E r \in SimpleRole : roles = {r}
     /\ job[w].role # NoRole
     /\ NewRole(w) \notin roles
     /\ body' = [body EXCEPT ![w] = UpdatedRoles(roles, NewRole(w))]
     /\ Goto(w, "writing")
     /\ UNCHANGED answer

\* The GET is answered from the cache of the process.  The rest of Do does not
\* know where the answer came from: Response stores it once more, even when the
\* entry has left the cache in between or has been replaced by a newer one.
Hit(w) ==
  /\ pc[w] = "lookup"
  /\ Lookup(w).stored
  /\ wire' = [wire EXCEPT ![w] = [kind |-> "ok", data |-> Lookup(w).data]]
  /\ Goto(w, "getting")
  /\ UNCHANGED <<assigned, cache, job, body, answer, held, edits>>

\* The GET is sent, and the workspace answers from its present state.
Request(w, kind) ==
  /\ pc[w] = "lookup"
  /\ ~ Lookup(w).stored
  /\ wire' = [wire EXCEPT ![w] =
                [kind |-> kind, data |-> Decoded(kind, assigned[job[w].who])]]
  /\ Goto(w, "getting")
  /\ UNCHANGED <<assigned, cache, job, body, answer, held, edits>>

\* The answer of the GET arrives: it is cached, then doRequest judges it.
Response(w) ==
  /\ pc[w] = "getting"
  /\ cache' = IF Stored(wire[w].kind)
              THEN [cache EXCEPT ![w[1]][job[w].who] = Entry(wire[w].data)]
              ELSE cache
  /\ \/ /\ doRequest(wire[w].kind) = "error"
        /\ Finish(w, "error")
        /\ UNCHANGED body
     \/ /\ doRequest(wire[w].kind) = "nil"
        /\ Decide(w, wire[w].data)
  /\ wire' = [wire EXCEPT ![w] = Pending]
  /\ UNCHANGED <<assigned, job, held, edits>>

\* The PUT reaches the workspace, which takes the whole list or does not.
Put(w, kind) ==
  /\ pc[w] = "writing"
  /\ \E effect \in Effects(kind) :
       assigned' = IF effect THEN [assigned EXCEPT ![job[w].who] = body[w]]
                   ELSE assigned
  /\ held' = [c \in Collaborators |-> held[c] \cup assigned'[c]]
  /\ wire' = [wire EXCEPT ![w] = [kind |-> kind, data |-> {}]]
  /\ body' = [body EXCEPT ![w] = {}]
  /\ Goto(w, "putting")
  /\ UNCHANGED <<cache, job, answer, edits>>

\* The answer of the PUT arrives: no error means the grant is reported.
PutReply(w) ==
  /\ pc[w] = "putting"
  /\ Finish(w, IF doRequest(wire[w].kind) = "error" THEN "error" ELSE "granted")
  /\ UNCHANGED <<assigned, cache, job, wire, body, held, edits>>

\* An entry leaves the cache: its hour is over, it is evicted, or a sync that
\* ended cleared the cache.
Expire(n, c) ==
  /\ cache[n][c].stored
  /\ cache' = [cache EXCEPT ![n][c] = NoEntry]
  /\ UNCHANGED <<assigned, pc, job, wire, body, answer, held, edits>>

\* The process stops and is started again: its cache and its tasks are gone.
Crash(n) ==
  /\ \E s \in Slots : pc[<<n, s>>] # "idle"
  /\ cache' = [cache EXCEPT ![n] = [c \in Collaborators |-> NoEntry]]
  /\ pc' = [w \in Workers |-> IF w[1] = n THEN "idle" ELSE pc[w]]
  /\ wire' = [w \in Workers |-> IF w[1] = n THEN Pending ELSE wire[w]]
  /\ body' = [w \in Workers |-> IF w[1] = n THEN {} ELSE body[w]]
  /\ answer' = [w \in Workers |-> IF w[1] = n THEN "none" ELSE answer[w]]
  /\ UNCHANGED <<assigned, job, held, edits>>

\* An administrator changes a member's roles in the Workato UI.
Edit(c, roles) ==
  /\ edits < MaxEdits
  /\ edits' = edits + 1
  /\ assigned' = [assigned EXCEPT ![c] = roles]
  /\ held' = [held EXCEPT ![c] = @ \cup roles]
  /\ UNCHANGED <<cache, pc, job, wire, body, answer>>

Step(w) ==
  \/ Hit(w)
  \/ \E kind \in AnswerKinds : Request(w, kind)
  \/ Response(w)
  \/ \E kind \in AnswerKinds : Put(w, kind)
  \/ PutReply(w)

Next ==
  \/ \E w \in Workers, c \in Collaborators, r \in Roles \cup {NoRole} : Receive(w, c, r)
  \/ \E w \in Workers : Reject(w)
  \/ \E w \in Workers : Step(w)
  \/ \E n \in Connectors, c \in Collaborators : Expire(n, c)
  \/ \E n \in Connectors : Crash(n)
  \/ \E c \in Collaborators, roles \in MemberRoles : Edit(c, roles)

Spec == Init /\ [][Next]_vars

-----------------------------------------------------------------------------
(* Properties *)

Labels == {"idle", "lookup", "getting", "writing", "putting"}
Outcomes == {"none", "error", "read", "exists", "granted"}

\* Two role lists agree in every environment but e.
AgreeOutside(e, roles, others) ==
  {r \in roles : r.env # e} = {r \in others : r.env # e}

\* Every variable has its type; a write in progress belongs to a grant.
TypeOK ==
  /\ assigned \in [Collaborators -> SUBSET SimpleRole]
  /\ cache \in [Connectors -> [Collaborators -> [stored : BOOLEAN, data : SUBSET SimpleRole]]]
  /\ pc \in [Workers -> Labels]
  /\ job \in [Workers -> [who : Collaborators, role : Roles \cup {NoRole}]]
  /\ wire \in [Workers -> [kind : Kinds, data : SUBSET SimpleRole]]
  /\ body \in [Workers -> SUBSET SimpleRole]
  /\ answer \in [Workers -> Outcomes]
  /\ held \in [Collaborators -> SUBSET SimpleRole]
  /\ edits \in 0 .. MaxEdits
  /\ \A w \in Workers : pc[w] \in {"writing", "putting"} => job[w].role # NoRole

\* No leak between collaborators or out of thin air: what a process caches for
\* a collaborator and what is on the wire was once that collaborator's, and a
\* list about to be written holds only such roles and the one that was asked for.
NoForeignRoles ==
  /\ \A n \in Connectors, c \in Collaborators :
       cache[n][c].data \subseteq held[c]
  /\ \A w \in Workers :
       /\ pc[w] = "getting" => wire[w].data \subseteq held[job[w].who]
       /\ pc[w] = "writing" => body[w] \subseteq held[job[w].who] \cup {NewRole(w)}

\* A process that alone grants roles may read stale lists, but until somebody edits
\* them by hand they are stale in its own environment only: in every other
\* environment a list that was cached, is on its way or is about to be written
\* agrees with the workspace.  An empty list stands for an undecodable body.
StaleOnlyInOwnEnv ==
  edits = 0 =>
    \A n \in Connectors, c \in Collaborators :
      /\ cache[n][c].data # {} => AgreeOutside(EnvOf[n], cache[n][c].data, assigned[c])
      /\ \A s \in Slots : LET w == <<n, s>> IN
           job[w].who = c =>
             /\ wire[w].data # {} => AgreeOutside(EnvOf[n], wire[w].data, assigned[c])
             /\ body[w] # {} => AgreeOutside(EnvOf[n], body[w], assigned[c])

\* However stale the read, the workspace never lists two roles of a member for
\* one environment ("Workato just accept one role per environment").
AtMostOneRolePerEnv == \A c \in Collaborators : OneRolePerEnv(assigned[c])

\* A task that reports a grant, or that the grant already exists, reports a role
\* that the workspace has listed for the collaborator at some time.
AnswersAreBacked ==
  \A w \in Workers :
    answer[w] \in {"granted", "exists"} => NewRole(w) \in held[job[w].who]

\* A write whose answer the driver marked for a retry is not reported as granted.
RetryableNotGranted ==
  \A w \in Workers : answer[w] = "granted" => ~ Retryable(wire[w].kind)

\* Every list sent to the workspace names roles by the names Workato knows
\* ("we can use the role name as the key").
WritesNameRoles ==
  \A w \in Workers :
    pc[w] = "writing" => \A s \in body[w] : \E r \in Roles : s.name = DisplayName[r]

\* A member that the connector could read stays readable after its grants: the
\* client accepts only an answer with exactly one element.
StaysReadable ==
  \A w \in Workers :
    answer[w] = "granted" => \A r, s \in assigned[job[w].who] : r = s

\* A grant takes no role away: a member that has a role in an environment keeps
\* having one there ("workato does not have revoke role for collaborator, try
\* grant another role for the same env").
GrantsNeverRevoke ==
  [][\A c \in Collaborators, r \in SimpleRole :
       r \in assigned[c] => \E s \in assigned'[c] : s.env = r.env]_vars

-----------------------------------------------------------------------------
(* The abstract store *)

\* The role that a list gives for an environment.
RoleIn(roles, e) ==
  IF \E r \in roles : r.env = e
  THEN (CHOOSE r \in roles : r.env = e).name
  ELSE NoRole

Access == [c \in Collaborators |-> [e \in Environments |-> RoleIn(assigned[c], e)]]

Store == INSTANCE RoleStore WITH access <- Access, touched <- edits > 0

\* Until somebody edits roles by hand, every change a grant makes is the promised
\* one: one collaborator, one environment, and nothing written back that another
\* grant had replaced.
GrantsAreAtomic == Store!Spec
=============================================================================
