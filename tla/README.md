# A TLA+ verification development for baton-workato

`baton-workato` is a connector that reads the members, roles, privileges,
projects and folders of a Workato workspace into a sync file and grants roles to
members. The program is a thin layer of builders (`src/pkg/connector`) over an
HTTP client (`src/pkg/connector/client`) driven by the vendored SDK
(`src/vendor/github.com/conductorone/baton-sdk`): the SDK's syncer calls the
builders in the order its action stack dictates, its task runner calls `Grant`
and `Revoke`, and its HTTP wrapper caches the answers of the workspace.

## 1. The system: components, state, operations

| Component | State | Operations | Hard behaviour |
|---|---|---|---|
| Role provisioning, `role.go` `Grant`/`Revoke` | none of its own; the member's role list lives in Workato | read the member's roles, compute the new list, write the whole list | read-modify-write without a precondition; several tasks and processes at once |
| HTTP wrapper, `uhttp/wrapper.go`, `gocache.go` | in-memory response cache of the process | cached GET, uncached PUT | a PUT does not invalidate a cached GET; entries vanish at any time |
| Workato client, `client/*.go` | none | `doRequest`, one method for each endpoint, `nextToken` | drops every error but "no response", 400 and 404 |
| Collaborator cache, `collaborator_cache.go`, `ucache.go` | three maps from privilege, folder, role to members; one cache for each of three builders | `buildCache`, three getters | reset first, filled by many requests, partial after an error; in memory only |
| Role cache, `role_cache.go` | roles by id, roles by folder | `buildCache` over all pages, two getters | filled at another time than the pages that are listed |
| Builders, `role.go`, `folder.go`, `privilege.go`, `project.go`, `collaborator.go` | the caches above | `List`, `Entitlements`, `Grants` with page tokens | caches are built by the first page of `List` and read by `Grants` much later |
| Page bag, `cpagination/generic_bag.go` | a stack of page states that travels in the page token | `Push`, `Pop`, `Current`, `Marshal`, `Unmarshal` | the current state points into the stack's backing array |
| Static tables, `workato/*.go` | privileges, base roles, environments | lookups | an unknown privilege fails a whole role |
| SDK syncer, `sync/syncer.go`, `sync/state.go` | action stack, checkpoint, the store | one action for each loop turn | throttled checkpoints, resume after an interruption, skip of stored resources |
| SDK task runner, `connectorrunner/runner.go`, `tasks/c1api` | the semaphore, `stopForLoop`, the claimed tasks | claim, process, heartbeat, report | tasks run concurrently; requests fail; interrupts; the connector process dies |
| Configuration and main, `conf`, `cmd` | flags | validation, construction | none |

How they interact: the syncer calls `List` of a builder for each resource type
(no parent) and for each child type a resource announces (a project announces
folders, a folder announces folders). `List` of roles, privileges and folders
first fills that builder's own caches by requests to Workato. After all
resources come entitlements, then grants: `Grants` of those three builders does
no request, it reads the caches. `Grant` does not use the caches of the builders
but shares the HTTP cache of the process with the sync.

What makes each part correct:

* provisioning: a grant changes one member's role in one environment and nothing
  else; a reported grant has happened; a role is never given to another member;
* client: an error of the workspace reaches the caller;
* caches: `Grants` finds every role that `List` listed, and the maps are those of
  one moment of the workspace, or the sync says so;
* bag: a stack, whatever the sharing in memory; pages of a folder's grants are
  visited once each;
* static tables: a role gets exactly the privileges it names, or the sync says so;
* syncer and builders: a sync that ends has every resource and every grant once,
  also after an interruption;
* runner: no slot is lost or given twice, and a claimed task is worked on until it is
  reported.

## 2. Modules

| Module | Models | Code |
|---|---|---|
| `HttpClient` | the kinds of answer a request gets, what `doRequest` reports, what the cache keeps | `uhttp/wrapper.go`, `client/helpers.go` |
| `RoleStore` | abstract: what granting a role promises | - |
| `Provisioning` | grant tasks of several processes, their HTTP caches, the workspace | `role.go` `Grant`/`Revoke`, `client/colaborator.go`, `uhttp`, `runner.go` |
| `PageStack` | abstract: a stack of page states that can be saved and loaded | - |
| `GenBag` | the page bag in memory: slice, capacity, pointer | `cpagination/generic_bag.go` |
| `Builders` | `List` and `Grants` as functions of workspace, token, parent and caches | `role.go`, `folder.go`, `privilege.go`, `project.go`, `collaborator.go`, both caches, `client/*.go` |
| `SyncFile` | abstract: what a sync promises of the file it fills | - |
| `Sync` | the syncer's action stack, checkpoints, store, interruption, crash and resume, calling `Builders` | `sync/syncer.go`, `sync/state.go`, `dotc1z`, `tasks/local/syncer.go` |
| `Privileges` | the constant tables and the lookups in them | `workato/privileges.go`, `workato/roles.go` |
| `Listing` | syncs of one process while the workspace changes: both caches request by request, the listing of roles, the grants made of them, the HTTP cache | `collaborator_cache.go`, `role_cache.go`, `role.go`, `privilege.go`, `uhttp`, `connectorbuilder.go` `Cleanup` |
| `Runner` | the daemon: loop, semaphore, tasks, heartbeats, reports, shutdown | `connectorrunner/runner.go`, `semaphore.go`, `tasks/c1api`, `internal/connector/connector.go` |
| `MCProvisioning`, `MCGenBag`, `MCSync`, `MCListing`, `MCRunner` | constants for TLC | - |
| `Provisioning_proofs`, `GenBag_proofs`, `Runner_proofs` | theorems of these modules | - |
| `Sync_proofs`, `SyncStages_proofs`, `SyncFile_proofs` | theorems of `Sync`: its types and positions in listings; files after stops and resumes; undisturbed syncs and the refinement of `SyncFile` | - |
| `Listing_proofs`, `ListingSync_proofs` | theorems of `Listing`: the HTTP cache behind the caches, its types; what a whole sync lists and stores | - |

`Provisioning`, `Builders` and `Listing` extend `HttpClient`, `Sync` extends
`Builders`, `Listing` extends `Privileges`. `Provisioning` implements `RoleStore`,
`GenBag` implements `PageStack` and `Sync` implements `SyncFile`, each by
`INSTANCE ... WITH` a refinement mapping that a run or a theorem checks.

### 2.1 Provisioning

A task is a pair of a process and a slot. `Receive` is the dispatch by
`runner.go`; `Hit` or `Request`/`Response` is the `GET` of
`GetCollaboratorPrivileges` through the response cache; `Decide` is the rest of
`Grant` up to the write (exactly one element, comparison, new list); `Put` and
`PutReply` are `UpdateCollaboratorRoles`, split where the request reaches the
workspace and where its answer reaches the task. `Expire` is the end of a cache
entry (one hour, eviction, `Cleanup` after a sync), `Crash` a restart of a process,
`Edit` a change by hand. A task with `role = NoRole` is the read a sync makes of
the same URL: it fills the same cache entry. `held` is a history variable: the
roles the workspace has ever listed for a member. `RoleStore` promises what it does
until somebody edits roles by hand (`touched`): after that a grant that read before
the edit may write the old role back.

A role list is a set of `[env, name]`; `MemberRoles` are the lists a member may
start with (one role for each environment). An answer is one of the seven kinds
of `HttpClient`; a kind stands for all statuses that the code treats alike.

### 2.2 GenBag

`array` is the backing array of `pb.states` with its capacity, `size` its length,
`current` where `pb.currentState` points: nil, a cell of its own, or an index of
the array. `append` writes in place while there is room and otherwise allocates
an array with any number of spare cells, so every growth policy of the runtime is
covered. `Unmarshal` allocates a new bag. The same code shape, with a lock around
each method, is the action stack of `sync/state.go` (`push`, `pop`), which is why
`Sync` may use a plain sequence for it.

### 2.3 Builders and Sync

A resource is `[type, id]`; the workspace is given by constants and does not
change during a sync (that is `Listing`'s subject). `Rank` fixes the order of
listings. The caches of a builder are abstracted to what was read: `people[b]` the
members, `roles[b]` the roles. `ListReads` gives every page a listing may return:
the page, or nothing when some answer of the workspace is dropped by `doRequest`.
`Listed` of a project is the root folders of all projects, as `List` pages through
all of them whatever its parent: the syncer stores each under the first project
that shows it, so with several projects the parent of a root folder says nothing.
`FoldersUnderTheirParent` states what is left: other folders lie where they belong,
root folders under some project.

One action of `Sync` is one turn of the loop of `Sync` in `syncer.go`, with the
checkpoint at its top: `Tokens` says that a new process writes its first
checkpoint and later ones only if ten seconds have passed, so either token is
possible. `Spawn` is `FinishAction` or `NextPage` followed by `getSubResources`
for each new resource. `Retry` is a listing that times out (`shouldWaitAndRetry`).
`Fail` is a sync that returns an error by itself ("role not found", or a resource
that is not in the store); `Interrupt` is one that is cancelled, or whose request
is refused for good, at any action. Both close the store and save it with its
checkpoint (`localSyncer.Process`, `Close`). `Crash` loses the temporary store.
`Start` opens the saved file and takes up an unfinished sync. `SyncFile` is the
promise of a sync that is not disturbed: rows are added, a folder after one it can
lie under, grants after all resources, and it ends when everything is there.

### 2.4 Privileges and Listing

`Privileges` holds the tables as functions from a group to its list of names. The
lookups are written on *places*, pairs of a group and an index, because the code
compares numbers of list elements: a name listed twice counts twice. Result lists
are sets, since Go's map order is random. The code's error cases (unknown resource,
unknown privilege) are one here, `found = FALSE`.

`Listing` takes the privilege and the role builder through whole syncs. A request
and its answer are one step, and between any two of them the workspace may change:
`CreateRole` (at any place of the listing), `DeleteRole`, `Assign`. `ReadMembers`
and `ReadDetail` are `collaboratorCache.buildCache`, `FillRoles` is
`roleCache.buildCache`, `ListRoles` is `List` of a page; `Finish` makes all grants
at once, since `Grants` reads nothing but the caches. `cache` is the HTTP cache for
these URLs. A sync that is done clears it (`Cleanup`), one that fails does not;
`Prefetch` is a grant task of the same process that reads a member, `Expire` the end
of an entry. An answer of kind `none` makes the syncer repeat the call of `List`: a
first page then starts again with the members. A hit stores the old answer again
in the code and so renews its life; lifetimes are not modelled, so here a hit leaves
the cache alone. The history variables say when a property applies: `calm` (no
change, no bad answer, nothing outdated in the cache since the sync began), `steady`
(good answers that are still cached), `lasting` (roles there to be listed all along).

Of the two caches of the folder builder, which are filled and read in the same way,
`Listing` says nothing; `Builders` does.

### 2.5 Runner

`loop` is where `run` in `runner.go` is, `cur` the semaphore's count, `job[j]` the
goroutine of the `j`-th claim. The loop looks at `stopForLoop` (`Head`), waits
(`Wait`), takes a slot (`Acquire`) and asks for a task (`NoTask`, `NextHello`,
`NextTask`). A job goes through `Start` (`processTask`: the client of the connector),
for a sync `FirstBeat` and any number of `Heartbeat`, `Work` (the connector's calls
and, for a sync, the upload), `FinishTask`, and `Return`, which looks at the error and
gives the slot back. `Interrupt` is SIGINT; `ChildDies` is the connector process
quitting, whose watcher closes the connection and ends the daemon; `GiveUp` is the
service, which takes a claim back, to offer it again or to withdraw it.

When `Acquire` fails because of an interrupt the code calls `Release` for a token it
does not have (`runner.go:144`). `Release` models the semaphore as it is: with no
task in progress the daemon ends with the panic "released more than held", otherwise
the token of a running task is given back twice and that task's own release may
panic. `OnlyShutdownPanics` and `AtMostConcurrency` say that this is all it does.

## 3. Runs

Two workers finish each run in two or three minutes.

| Run | Question | Bounds and why they are enough |
|---|---|---|
| `prov` | can stale reads and writes give a member two roles in one environment, or another member's role? has a reported grant happened? does one process implement `RoleStore`? are its reads stale only in its own environment? | one process, two tasks, two members, two environments, a custom role whose id is not its name, one edit by hand; the kinds `ok`, `refused` and `none`, which `doRequest` judges rightly for a write. Two tasks suffice for every interleaving of two read-modify-writes; for more processes and other kinds most of it is proved. 1.5 million states |
| `genbag` | is the bag a stack? | two page states, depth 4, one spare cell: depth 4 is two more than the connector ever pushes, one spare cell makes both branches of `append` occur |
| `sync` | does a sync store everything, parents first, and end? is what an interrupted or killed sync leaves behind consistent? | one member, one privilege, a base and a custom role, two projects with three folders one below another, pages of one element (every boundary case of paging), an order of the types and its reverse, timeouts at any listing, one stop at any point. 480 thousand states |
| `listing` | do the caches and the listing fit together while the workspace changes? what exactly does a sync store? are its members those of the process's environment? | one member in two environments, two custom roles, one of whose possible privileges is unknown, pages of one role, so that roles move between pages; two syncs, one change and one bad answer or expired entry at any moment. The whole tables of privileges are used. 2.9 million states |
| `runner` | is a slot ever lost? are tasks claimed, kept, cancelled when they must? | two slots, three tasks (hello, a sync, a grant) so that one waits, three heartbeats, two failing requests, one claim given up, interrupt and death of the connector process at any moment. 1.4 million states |

The runs that find a violation, each of which is a finding in `PROJECT.json`:

| Run | What the code does |
|---|---|
| `prov_lost_update` | the processes of two environments undo each other's grants, because each writes the whole list it read |
| `prov_dropped_error` | a write answered with 429 or 5xx is reported as granted (a listing answered so is an empty last page) |
| `prov_custom_role` | a grant of a custom role writes the numeric id as the role's name |
| `prov_unreadable` | a member with roles in two environments can no longer be read by the client, and a grant brings this about |
| `sync_lost_folders` | a sync resumed from an older checkpoint skips stored projects and folders together with their children |
| `sync_empty_grants` | a sync resumed after the resources stores no grant of a member (with a custom role it fails instead, at each later attempt too) |
| `listing_stale` | a sync that fails leaves its answers in the HTTP cache, and the next sync is made of them |

Some properties deserve a word:

* `ListedAreKnown`: the role cache is filled before the pages are listed, and yet a
  role created in between does not fail the sync: the pages are read a second time
  from the HTTP cache. With the cache switched off (the mutant `Stored_Never`) it
  does. The same holds of `BuildersAgree`: the members are read twice, by two
  builders, and agree because of the HTTP cache alone.
* `CalmSyncIsExact` compares a sync with `Expected`, written from the workspace and
  the table without the code's maps and counts: members by their role in the
  environment of the process, privileges by role, and the two reasons to fail.
* `LastingAreListed` is about paging by number while roles come: an insertion may
  show a role twice but never hides one. A deletion does hide one, which is why a
  deletion empties `lasting`; page numbers of the workspace's API allow no better.
* `MembersAreOfEnv` is about members with a role in several environments. The client
  refuses them, so they reach `Grants` only if their roles change between the request
  of the members and that of their privileges; then a role they have elsewhere too
  makes two grants, and one they have only elsewhere makes none.
* `ClaimedAreWorkedOn` speaks of the last claim of a task, since the service may offer
  a claimed task again while its goroutine still works on it: two goroutines have the
  task then, and that of the later claim has to be at work even if the other one fails.
  `fate` says how a job was left. Its exceptions are of two kinds: with "request
  failed" no handler was called or its report was lost, with "no heartbeat" the handler
  of a full sync returned after its first heartbeat failed without any report
  (`full_sync.go:101`). The latter contradicts the rule for handlers in
  `manager.go:231`; the task stays claimed until the service gives it up. The property
  allows this, because the code does it.
* `PatientHeart` names the number of heartbeats in a row that may fail; it is one
  less than `taskMaximumHeartbeatFailures`, because the count is raised before the
  first wait (the comment and the log speak of all of them).

Bounds: `MaxEdits`, `MaxStops`, `MaxDepth`, `MaxSpare`, `MaxChanges`, `MaxSyncs`,
`MaxFaults` and `MaxLapses` are constants used in guards. `Expire` and `Crash` of
`Provisioning`, `Retry` of `Sync` and `Prefetch` of `Listing` are unbounded. The runs
of `MCSync`, `MCListing` and `MCRunner` switch the deadlock check off because a sync
that is done, a process after its last sync and a daemon that has exited stop.

**Fairness.** `FairSpec` of `Sync` has weak fairness of `Step`: the loop goes on and a
listing that is repeated is answered in the end. Without that assumption the code
repeats a listing that times out for ever, as `shouldWaitAndRetry` has no limit.
`FairSpec` of `Runner` has weak fairness of the loop, of the exit and of each job:
they are goroutines, the report has a limit of 30 seconds and the other requests
end in one of the modelled ways; nothing is assumed of heartbeats, failures,
interrupts or the service. The other specifications state none: their properties
are of safety.

## 4. Proofs

| Theorem | Says | Invariant |
|---|---|---|
| `TypeCorrect` | `Provisioning`'s `TypeOK` | itself |
| `NoForeign` | cached, received and prepared lists come from the member they are for | `DataInv` |
| `OneRole` | at most one role for each environment of a member | `DataInv` |
| `StaleOnlyOwn`, `GrantsImplementStore` | a lone process is stale in its own environment only; its grants implement `RoleStore` | `SoleInv`, under `Alone` |
| `AnswersBacked` | a reported grant has been listed | `BackedInv`, under `Honest` |
| `BagNoSharing`, `BagImplementsStack` | the pointer into the array never lies inside the slice; the bag implements `PageStack` | `BagInv` |
| `SyncTyped`, `StackNamesStored` | `Sync`'s `TypeOK`; action stacks and checkpoints name only stored resources | `StackInv` |
| `FoldersPlaced` | stored folders lie where they belong, through stops and resumes | `PlacedInv` |
| `GrantsRooted` | a file holds with a grant its entitlement and principal, through stops and resumes | `StageInv`, under `NothingDropped` |
| `ResumedLosesFolders` | a sync that ends, stopped and resumed or not, has everything but possibly folders | `StageInv`, under `NothingDropped` |
| `NothingIsLost` | in a sync without stops, what is not stored is still to be listed | `CalmInv` of `SyncFile_proofs`, under `NothingDropped` |
| `RolesFound` | in such a sync the grants of a custom role find it in the role cache | the same |
| `SyncImplementsFile` | such a sync implements `SyncFile`: it ends only with a complete file | the same |
| `RunnerTypeOK` | `Runner`'s `TypeOK` | `TypeInv` |
| `SlotsCounted`, `SlotsBound` | the semaphore's count is the number of tasks in progress; it never admits too many and panics only at a shutdown | `SlotInv` |
| `OneLateClaim` | at most one claim after the loop is told to stop | `LateInv` |
| `ClaimsWorkedOn`, `HeartIsPatient` | a claimed task is worked on by its last claim unless a request of it failed; heartbeats that fail are tolerated as often as they should | `ClaimInv`, `TypeInv` |
| `ListedKnown`, `Agree` | in `Listing`, listed roles are in the role cache; the two collaborator caches are equal | `Inv` of `Listing_proofs` |
| `ListingTypeOK` | `Listing`'s `TypeOK` | `TypeInv` |
| `LastingListed` | a role that exists throughout a sync is listed | `LastInv` |
| `MembersOfEnv` | a stored member has the role in the environment of the process | itself |
| `CalmIsExact` | an undisturbed sync stores exactly what the workspace demands, or fails exactly when it must | `CalmInv` of `ListingSync_proofs` |

They hold for every value of the constants that satisfies the named assumptions
of the modules, which TLC evaluates in the runs. Three of these deserve a reason.
`BuildersAssumption` says that folders form trees and that somebody can have access
only to roles, folders and privileges, as Workato's own data model does.
`ListingAssumption` says that there are finitely many environments and places in a
role's privileges, which are JSON lists. `TablesAssumption` is a fact about the
constants of `workato/roles.go`: the base roles name no privilege that the table of
privileges lacks. `NothingDropped` is a hypothesis of five theorems: no answer of
a kind for which `doRequest` drops the error. The finding `prov_dropped_error` is what
makes it necessary: a listing whose error is dropped is an empty last page, and what
it did not show is never listed.

* `AtMostOneRolePerEnv` is not inductive: a write may carry a list read long ago.
  `DataInv` adds that every list in a cache, on the wire or about to be written
  has one role for each environment itself, and that it is a part of `held`.
* `StaleOnlyInOwnEnv` needs the assumption `Alone`: there is one process, which is
  what the finding `prov_lost_update` shows to be necessary. The
  step that matters is `Put`: the list written agrees with the workspace outside
  the process's own environment, so it changes nothing there, and every other
  list that agreed before agrees afterwards. From the same fact `Put` maps to one
  `Assign` of `RoleStore` or to a stutter.
* `AnswersAreBacked` needs `Honest`, no answer of a kind for which `doRequest` drops
  the error of a write that did not happen; the finding `prov_dropped_error` shows why.
* `NoSharing` needs `TypeOK` and `NothingHidden` for the refinement: after a pop
  the pointer is at `size + 1`, so the in-place append overwrites exactly the cell
  it reads from.
* `NamedAreStored` speaks of three stacks and two stores at once: the stack in
  memory and the checkpoint against the rows, and the saved checkpoint against the
  saved rows. `StackInv` states it as a type of the stacks that depends on the
  rows. The lemma it rests on is that `Ordered` lists exactly the members of its
  set, a counting argument over finite sets.
* `FoldersUnderTheirParent` must hold of the saved file as well, because a resumed
  sync starts from it; `PlacedInv` says so of both stores. The step that matters is a
  page of folders: it lists only folders of its parent, or root folders under a project.
* `GrantsAreRooted` and `OnlyFoldersAreLost` are about files that several processes have written one after the
  other. `StageInv` gives the stack of a running sync a stage, the number of steps of
  the plan still below, and says what the rows hold at each: from stage 3 on
  whatever is not a folder is stored or listed by an action, from stage 2 on what has
  grants has its entitlements or an action for them. The checkpoint is at the same
  stage or an earlier one, of the file in memory as of the saved one; rows only come,
  so what its stage asks of them holds when a later process takes it up.
  An empty stack is at the last stage, where nothing of either kind is missing: the
  folders of the finding `sync_lost_folders` are all that a resumed sync can lose of
  the resources. What it can lose of the grants is another matter
  (`sync_empty_grants`).
* `WorkIsPending` and the refinement need more, which only holds until the first
  stop: folders follow their parents, each builder's caches are full or its first
  page is still to come, and each grant is stored or still made by an action
  (`CalmInv`). A resource that a page does not show lies behind it, and then the page
  is full and the next one is asked for: the lemma `FullPage` counts. At the end of
  the listings only folders could be missing, each with a missing parent, which in a
  tree is nothing (`TreeComplete`). From then on no step can fail (`NeverFails`).
* The count of the semaphore is wrong once the process is interrupted, so the bound
  on running tasks cannot rest on it there. The invariant says of a shutdown only
  that the tasks in progress and a slot just taken are no more than the slots; what
  keeps it is that no slot is taken any more.
* `ClaimedAreWorkedOn` needs that claims are numbered in their order (`Ordered`): a
  new claim is then the last of its task (`ClaimDispatch`), and a step of any other job
  moves no last claim (`ClaimSame`).
* `ListedAreKnown` and `BuildersAgree` speak of requests made at different moments.
  What makes them agree is the HTTP cache, so the invariant says that the caches of
  the builders are made of its entries: `MadeOfEntries` of each collaborator cache
  (while it is filled, of the members already read), `PagesKnown` of the pages in the
  role cache up to the first that is not full. `GetFacts` shows that a request never
  changes an entry that is there. The pages end because the roles of the workspace
  have different names (`WorldInv`), which an insertion or a deletion at any place keeps.
* `LastingAreListed`: `LastInv` says of each lasting role that it is on a page that is
  cached or ahead of all pages that are. A role that is created elsewhere moves
  others only to later places (`InsertMoves`); a page that is read takes up what
  comes next, and is full if something lies behind it (`RolesBehind`). While roles
  are lasting no entry expires, so the second reading of the pages shows the same.
* `TypeOK` of `Listing` needs that the roles of a member exist: a custom role that
  somebody has is not deleted, and `DeleteLeaves` shows that the others stay.
* `CalmSyncIsExact` is proved from the invariant that, while the sync is calm, nothing
  cached is outdated (`Fresh`), each collaborator cache holds what the workspace says
  of every member that does not wait (`ReadSoFar`), and role cache and resources hold
  the pages up to the present one (`PagesSoFar`). An expired entry is no harm then,
  since it is read again. What is left is about the last step: `OneElement` shows that
  a member's answer has one element exactly if he has one role, `SearchFinds` that
  comparing the numbers of places found and named is the same as finding them all,
  and `GrantsExpected` that the grants made of the maps are those of the workspace.

Only model-checked: liveness (`SyncEnds`, `OfferedAreClaimed`), which the prover cannot
state without `ENABLED`. The properties of the runs that find a violation are false.

## 5. Abstractions and what is not modelled

* The response cache may be absent (`BATON_DISABLE_HTTP_CACHE`), so in `Sync` the
  requests are answered independently of each other.
* In `Sync`, requests refused with 400 or 404 end a sync; they are part of `Interrupt`.
* The store gives its rows in pages of 10000; one page is modelled. Its rows come
  in the order of `Rank` rather than of their insertion; no property depends on
  which of the two.
* An unfinished sync is taken up only within a week; the limit is not modelled.
  Resuming happens where the sync file is given by the user
  (`tasks/local/syncer.go`); the service's task handler starts from a fresh file.
* Grant expansion, assets and etags are never used by this connector. Warnings
  count only for entitlements and grants, which make no request here.
* In `Runner`, back-off and poll intervals, local file errors before the first
  heartbeat, the upload of debug logs, one-shot mode (one task after the other) and
  the window in which a task starts a new connector process just before the daemon
  exits are left out. `stopForLoop` is a race by the memory model of Go; it is a
  plain variable here, read once in each round.
* Two syncs at once in one process would share the unsynchronised maps of the
  builders; the service does not ask for that, and it is not modelled.
* `GetAllFoldersRecur` has no caller.
* Not modelled: configuration, `main`, the dispatch of the gRPC server around the
  builders, the content of display names, profiles and descriptions, the grant that
  `Grant` returns.

## 6. Plan

Done: all modules above with their runs, and theorems for every invariant, action
property and refinement that a passing run checks. Next:

1. The caches of the folder builder in `Listing`, with folders that move.
2. What of `RoleStore` is left when several processes grant, beyond
   `AtMostOneRolePerEnv`.
