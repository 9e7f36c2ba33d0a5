-------------------------------- MODULE Runner --------------------------------
(***************************************************************************)
(* The daemon that runs the connector: one loop claims tasks from the        *)
(* service, each task is processed by a goroutine of its own, a semaphore    *)
(* bounds how many run at once, and a full sync sends heartbeats.  The       *)
(* process may be interrupted, the connector service it talks to may die,    *)
(* and every request to the service may fail.                                *)
(***************************************************************************)
EXTENDS Integers, FiniteSets

CONSTANTS
  Syncs,          \* the full syncs that the service asks for
  Grants,         \* the grants and revokes that it asks for
  Concurrency,    \* taskConcurrency
  HeartbeatLimit, \* taskMaximumHeartbeatFailures
  MaxLapses,      \* bound on the claims that the service gives up
  MaxFaults       \* bound on the requests that fail while nothing is shut down

Hello == "hello"
Tasks == Syncs \cup Grants

ASSUME RunnerAssumption ==
  /\ IsFiniteSet(Tasks)
  /\ Syncs \cap Grants = {} /\ Hello \notin Tasks
  /\ Concurrency \in Nat \ {0}
  /\ HeartbeatLimit \in Nat \ {0, 1}
  /\ MaxLapses \in Nat /\ MaxFaults \in Nat

VARIABLES
  loop,       \* where the loop is, or how it ended
  cur,        \* the tokens the semaphore counts as taken
  started,    \* whether the hello task was queued
  stop,       \* stopForLoop
  cancelled,  \* whether the process was interrupted
  conn,       \* the connection to the connector service
  offer,      \* offer[t]: what the service knows of the task t
  job,        \* job[j]: the goroutine of the claim j
  lapses,     \* number of claims given up so far
  faults,     \* number of failed requests so far
  late        \* history: tasks claimed although the loop was to end

env == <<conn, cancelled, lapses>>
vars == <<loop, cur, started, stop, env, offer, job, faults, late>>

\* Every claim has a job of its own: the hello task, each task, and each task claimed
\* again.
Claims == 1 .. (1 + Cardinality(Tasks) + MaxLapses)
JobOf(t, step, fate) ==
  [task |-> t, step |-> step, misses |-> 0, live |-> TRUE, closing |-> FALSE, fate |-> fate]

Busy == {j \in Claims : job[j].step \notin {"unused", "over"}}
Running == loop \notin {"exited", "panicked"}

\* A request fails by itself only so often, and whenever it likes once the process
\* is being shut down.
MayFail == faults < MaxFaults \/ cancelled \/ conn = "closed"
Fail ==
  /\ MayFail
  /\ faults' = IF cancelled \/ conn = "closed" THEN faults ELSE faults + 1

\* A token is given back; more than were taken end the process with a panic.
Release(next) ==
  /\ cur' = cur - 1
  /\ loop' = IF cur = 0 THEN "panicked" ELSE next

-----------------------------------------------------------------------------
(* The loop *)

\* (mutant) stopForLoop is not looked at.
Head_Deaf ==
  /\ loop = "head"
  /\ loop' = "wait"
  /\ UNCHANGED <<cur, started, stop, env, offer, job, faults, late>>

Head ==
  /\ loop = "head"
  /\ loop' = IF stop THEN "returned" ELSE "wait"
  /\ UNCHANGED <<cur, started, stop, env, offer, job, faults, late>>

\* The select: the timer, or the end of the context.
Wait ==
  /\ loop = "wait"
  /\ \/ loop' = "acquire"
     \/ cancelled /\ loop' = "returned"
  /\ UNCHANGED <<cur, started, stop, env, offer, job, faults, late>>

\* (mutant) The semaphore does not bound anything.
Acquire_Unbounded ==
  /\ loop = "acquire"
  /\ \/ ~ cancelled /\ cur' = cur + 1 /\ loop' = "next"
     \/ cancelled /\ Release("returned")
  /\ UNCHANGED <<started, stop, env, offer, job, faults, late>>

\* A worker slot is taken before a task is asked for.  Acquire fails when the context
\* is done, and the loop then releases a token it does not have.
Acquire ==
  /\ loop = "acquire"
  /\ \/ /\ ~ cancelled /\ cur < Concurrency
        /\ cur' = cur + 1
        /\ loop' = "next"
     \/ /\ cancelled
        /\ Release("returned")
  /\ UNCHANGED <<started, stop, env, offer, job, faults, late>>

\* (mutant) The slot is kept when there is no task.
NoTask_Keep ==
  /\ loop = "next" /\ started
  /\ \/ Fail
     \/ (\A t \in Tasks : offer[t] # "offered") /\ UNCHANGED faults
  /\ loop' = "head" /\ UNCHANGED cur
  /\ UNCHANGED <<started, stop, env, offer, job, late>>

\* Next fails or has no task: the slot is given back.
NoTask ==
  /\ loop = "next" /\ started
  /\ \/ Fail
     \/ (\A t \in Tasks : offer[t] # "offered") /\ UNCHANGED faults
  /\ Release("head")
  /\ UNCHANGED <<started, stop, env, offer, job, late>>

\* (mutant) The loop gives the slot back when it has started the goroutine.
Dispatch_Releases(t) ==
  /\ \E j \in Claims :
       /\ job[j].step = "unused" /\ \A i \in 1 .. (j - 1) : job[i].step # "unused"
       /\ job' = [job EXCEPT ![j] = JobOf(t, "start", "pending")]
  /\ Release("head")
  /\ late' = IF stop \/ cancelled THEN late + 1 ELSE late
  /\ UNCHANGED <<stop, env, faults>>

\* The task is processed concurrently; its goroutine inherits the slot.
Dispatch(t) ==
  /\ \E j \in Claims :
       /\ job[j].step = "unused" /\ \A i \in 1 .. (j - 1) : job[i].step # "unused"
       /\ job' = [job EXCEPT ![j] = JobOf(t, "start", "pending")]
  /\ loop' = "head"
  /\ late' = IF stop \/ cancelled THEN late + 1 ELSE late
  /\ UNCHANGED <<cur, stop, env, faults>>

\* The first task is the hello task, which the manager queues itself.
NextHello ==
  /\ loop = "next" /\ ~ started
  /\ started' = TRUE
  /\ Dispatch(Hello)
  /\ UNCHANGED offer

NextTask(t) ==
  /\ loop = "next" /\ started
  /\ offer[t] = "offered"
  /\ offer' = [offer EXCEPT ![t] = "claimed"]
  /\ Dispatch(t)
  /\ UNCHANGED started

-----------------------------------------------------------------------------
(* The goroutine of a task *)

At(j, step) == Running /\ job[j].step = step
Goto(j, step) == job' = [job EXCEPT ![j].step = step]

\* The job is over for the reason given; the service may have heard of it or not.
Leave(j, fate) == job' = [job EXCEPT ![j].step = "release", ![j].fate = fate]

\* processTask: without a client of the connector service the task is not handled.
Start(j) ==
  /\ At(j, "start")
  /\ \/ Fail /\ Leave(j, "request failed")
     \/ /\ conn = "up"
        /\ Goto(j, IF job[j].task \in Syncs THEN "beat" ELSE "call")
        /\ UNCHANGED faults
  /\ UNCHANGED <<loop, cur, started, stop, env, offer, late>>

\* The first heartbeat is sent before the sync begins; when it fails or the service
\* has withdrawn the task, the handler returns without finishing the task.
FirstBeat(j) ==
  /\ At(j, "beat")
  /\ \/ Fail /\ Leave(j, "no heartbeat")
     \/ offer[job[j].task] = "withdrawn" /\ Goto(j, "release") /\ UNCHANGED faults
     \/ offer[job[j].task] # "withdrawn" /\ Goto(j, "sync") /\ UNCHANGED faults
  /\ UNCHANGED <<loop, cur, started, stop, env, offer, late>>

\* (mutant) A heartbeat that fails ends the sync at once.
Heartbeat_Impatient(j) ==
  /\ At(j, "sync") /\ job[j].live /\ ~ cancelled
  /\ \/ Fail /\ job' = [job EXCEPT ![j].misses = @ + 1, ![j].live = FALSE]
     \/ /\ job' = [job EXCEPT ![j].misses = 0, ![j].live = offer[job[j].task] # "withdrawn"]
        /\ UNCHANGED faults
  /\ UNCHANGED <<loop, cur, started, stop, env, offer, late>>

\* A heartbeat while the sync runs; an interrupt ends them.  The context of the sync
\* is cancelled when the service has withdrawn the task or when the last heartbeat but
\* one in a row fails.
Heartbeat(j) ==
  /\ At(j, "sync") /\ job[j].live /\ ~ cancelled
  /\ \/ Fail /\ job' = [job EXCEPT ![j].misses = @ + 1, ![j].live = @ /\ job[j].misses + 2 < HeartbeatLimit]
     \/ /\ job' = [job EXCEPT ![j].misses = 0, ![j].live = offer[job[j].task] # "withdrawn"]
        /\ UNCHANGED faults
  /\ UNCHANGED <<loop, cur, started, stop, env, offer, late>>

\* The error of a call tells whether the connection is closed; what the heartbeats
\* have counted no longer matters.
EndWork(j, step) ==
  job' = [job EXCEPT ![j] = [JobOf(job[j].task, step, job[j].fate) EXCEPT !.closing = conn = "closed"]]

\* (mutant) Only syncs are finished.
Work_OnlySyncs(j) ==
  /\ At(j, "sync") \/ At(j, "call")
  /\ EndWork(j, IF job[j].task \in Syncs THEN "finish" ELSE "release")
  /\ UNCHANGED <<loop, cur, started, stop, env, offer, faults, late>>

\* The calls of the connector that do the work end, well or with an error.  The
\* handlers of syncs and grants finish the task either way, that of the hello task
\* never does.
Work(j) ==
  /\ At(j, "sync") \/ At(j, "call")
  /\ EndWork(j, IF job[j].task = Hello THEN "release" ELSE "finish")
  /\ UNCHANGED <<loop, cur, started, stop, env, offer, faults, late>>

\* The result is reported, with a context of its own that a shutdown does not cancel.
FinishTask(j) ==
  /\ At(j, "finish")
  /\ \/ Fail /\ Leave(j, "request failed") /\ UNCHANGED offer
     \/ /\ Leave(j, "reported")
        /\ offer' = [offer EXCEPT ![job[j].task] = IF @ = "claimed" THEN "reported" ELSE @]
        /\ UNCHANGED faults
  /\ UNCHANGED <<loop, cur, started, stop, env, late>>

\* The error is looked at and the slot given back.
Return(j) ==
  /\ At(j, "release")
  /\ stop' = (stop \/ job[j].closing)
  /\ job' = [job EXCEPT ![j].step = "over", ![j].closing = FALSE]
  /\ Release(loop)
  /\ UNCHANGED <<started, env, offer, faults, late>>

-----------------------------------------------------------------------------
(* What happens to the process *)

\* SIGINT cancels the context of everything.
Interrupt ==
  /\ Running /\ ~ cancelled
  /\ cancelled' = TRUE
  /\ UNCHANGED <<loop, cur, started, stop, conn, offer, job, lapses, faults, late>>

\* The connector service quits unexpectedly: the connection is closed, and the process
\* exits right after.
ChildDies ==
  /\ Running /\ conn = "up"
  /\ conn' = "closed"
  /\ UNCHANGED <<loop, cur, started, stop, cancelled, offer, job, lapses, faults, late>>

\* The process ends with its loop, whatever the goroutines are doing.
Exit ==
  /\ Running
  /\ loop = "returned" \/ conn = "closed"
  /\ loop' = "exited"
  /\ UNCHANGED <<cur, started, stop, env, offer, job, faults, late>>

\* The service gives a claim up: it offers the task again, or withdraws it.
GiveUp(t) ==
  /\ Running /\ offer[t] = "claimed" /\ lapses < MaxLapses
  /\ lapses' = lapses + 1
  /\ \E how \in {"offered", "withdrawn"} : offer' = [offer EXCEPT ![t] = how]
  /\ UNCHANGED <<loop, cur, started, stop, conn, cancelled, job, faults, late>>

Loop == Head \/ Wait \/ Acquire \/ NoTask \/ NextHello \/ \E t \in Tasks : NextTask(t)
Job(j) == Start(j) \/ FirstBeat(j) \/ Work(j) \/ FinishTask(j) \/ Return(j)

Next ==
  \/ Loop
  \/ \E j \in Claims : Job(j) \/ Heartbeat(j)
  \/ Interrupt \/ ChildDies \/ Exit
  \/ \E t \in Tasks : GiveUp(t)

Init ==
  /\ loop = "head" /\ cur = 0
  /\ started = FALSE /\ stop = FALSE /\ cancelled = FALSE
  /\ conn = "up"
  /\ offer = [t \in Tasks |-> "offered"]
  /\ job = [j \in Claims |-> JobOf(Hello, "unused", "pending")]
  /\ lapses = 0 /\ faults = 0 /\ late = 0

Spec == Init /\ [][Next]_vars

\* The loop and every goroutine go on; a call of the service or of the connector
\* answers or fails in the end.
Fairness == WF_vars(Loop) /\ WF_vars(Exit) /\ \A j \in Claims : WF_vars(Job(j))
FairSpec == Spec /\ Fairness

-----------------------------------------------------------------------------
(* Properties *)

Fates == {"pending", "no heartbeat", "request failed", "reported"}
Jobs == [task : Tasks \cup {Hello}, step : {"unused", "start", "beat", "sync", "call", "finish", "release", "over"},
         misses : 0 .. HeartbeatLimit, live : BOOLEAN, closing : BOOLEAN, fate : Fates]

\* Every variable has its type; the count of the semaphore is below zero only after
\* the panic.
TypeOK ==
  /\ loop \in {"head", "wait", "acquire", "next", "returned", "exited", "panicked"}
  /\ cur \in -1 .. Concurrency /\ (loop # "panicked" => cur >= 0)
  /\ started \in BOOLEAN /\ stop \in BOOLEAN /\ cancelled \in BOOLEAN
  /\ conn \in {"up", "closed"}
  /\ offer \in [Tasks -> {"offered", "claimed", "withdrawn", "reported"}]
  /\ job \in [Claims -> Jobs]
  /\ lapses \in 0 .. MaxLapses /\ faults \in 0 .. MaxFaults /\ late \in Nat

\* Until the process ends, the semaphore counts exactly the tasks in progress and the
\* slot the loop has taken for the next one, so that none is lost on any path of the
\* loop or of a task.
SlotsAreCounted ==
  ~ cancelled /\ Running => cur = Cardinality(Busy) + (IF loop = "next" THEN 1 ELSE 0)

\* Never more tasks are in progress than there are slots, also during a shutdown, when
\* the loop releases a token it did not get.
AtMostConcurrency == Cardinality(Busy) <= Concurrency

\* The over-release panics only when the process is interrupted.
OnlyShutdownPanics == loop = "panicked" => cancelled

\* Once the loop is told to stop, it claims at most one more task, which then nobody
\* will report; both flags are looked at once in each round.
AtMostOneLateClaim == late <= 1

\* The claim j is the last one of task t.
LastClaim(j, t) == job[j].task = t /\ \A i \in Claims : i > j => job[i].task # t

\* The service counts a task as claimed only while the goroutine of its last claim
\* works on it, unless a request of that goroutine failed: for a connector client, the
\* first heartbeat or the report itself.  When a task was offered and claimed again, the
\* goroutine of the earlier claim, which goes on, does not count.
ClaimedAreWorkedOn ==
  \A t \in Tasks :
    offer[t] = "claimed" =>
      \E j \in Claims :
        /\ LastClaim(j, t)
        /\ job[j].step # "over" \/ job[j].fate \in {"no heartbeat", "request failed"}

\* A sync is not cancelled for heartbeats that failed unless they failed in a row, and
\* the sync of a task that was not withdrawn outlives fewer.
PatientHeart ==
  \A j \in Claims :
    ~ job[j].live => job[j].misses + 1 = HeartbeatLimit \/ offer[job[j].task] # "claimed"

\* Every task that is offered is claimed in the end or the process ends: neither long
\* syncs nor failures keep the loop from its next slot for ever.
OfferedAreClaimed == \A t \in Tasks : offer[t] = "offered" ~> offer[t] # "offered" \/ ~ Running

===============================================================================
