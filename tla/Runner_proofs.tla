---------------------------- MODULE Runner_proofs ----------------------------
(***************************************************************************)
(* The slots of the daemon and what becomes of its tasks: for every set of   *)
(* tasks, every number of slots and every limit of failed heartbeats.        *)
(***************************************************************************)
EXTENDS Runner, FiniteSetTheorems, TLAPS

\* What a job tells of its task: only the sync of a task of the service can be
\* cancelled, after a row of failed heartbeats or because the task was withdrawn.
JobOK(j) ==
  /\ job[j].live => job[j].misses + 1 < HeartbeatLimit
  /\ ~ job[j].live =>
       /\ job[j].task \in Tasks
       /\ job[j].misses + 1 = HeartbeatLimit \/ offer[job[j].task] = "withdrawn"
  /\ job[j].step \in {"beat", "sync"} => job[j].task \in Syncs
  /\ job[j].step = "finish" => job[j].task \in Tasks
  /\ job[j].step = "unused" => job[j].misses = 0 /\ job[j].live /\ job[j].task = Hello

TypeInv == TypeOK /\ \A j \in Claims : JobOK(j)

LEMMA ClaimsFinite == IsFiniteSet(Claims) /\ Cardinality(Claims) \in Nat /\ Claims \subseteq Nat
<1>1. Cardinality(Tasks) \in Nat
  BY FS_CardinalityType, RunnerAssumption
<1>2. 1 + Cardinality(Tasks) + MaxLapses \in Nat
  BY <1>1, RunnerAssumption
<1>. QED
  BY <1>2, FS_Interval, FS_CardinalityType DEF Claims

\* What may become of a job, the jobs that the actions make, and those that they change.
LEMMA FateTypes ==
  "pending" \in Fates /\ "no heartbeat" \in Fates /\ "request failed" \in Fates /\ "reported" \in Fates
BY DEF Fates

LEMMA JobMade ==
  ASSUME NEW t \in Tasks \cup {Hello}, NEW fate \in Fates,
         NEW step \in {"unused", "start", "finish", "release"}
  PROVE  /\ JobOf(t, step, fate) \in Jobs
         /\ JobOf(t, step, fate).task = t /\ JobOf(t, step, fate).step = step
         /\ JobOf(t, step, fate).fate = fate /\ JobOf(t, step, fate).live
         /\ JobOf(t, step, fate).misses = 0
         /\ JobOf(t, step, fate).misses + 1 < HeartbeatLimit
<1>1. 0 \in 0 .. HeartbeatLimit /\ 0 + 1 < HeartbeatLimit
  BY RunnerAssumption
<1>2. JobOf(t, step, fate) \in Jobs
  BY <1>1 DEF JobOf, Jobs
<1>3. /\ JobOf(t, step, fate).task = t /\ JobOf(t, step, fate).step = step
      /\ JobOf(t, step, fate).fate = fate /\ JobOf(t, step, fate).live
      /\ JobOf(t, step, fate).misses = 0
  BY DEF JobOf
<1>. QED
  BY <1>1, <1>2, <1>3

LEMMA StartMade ==
  ASSUME NEW t \in Tasks \cup {Hello}
  PROVE  /\ JobOf(t, "start", "pending") \in Jobs
         /\ JobOf(t, "start", "pending").task = t /\ JobOf(t, "start", "pending").step = "start"
         /\ JobOf(t, "start", "pending").live
         /\ JobOf(t, "start", "pending").misses + 1 < HeartbeatLimit
<1>. DEFINE step == "start"
            fate == "pending"
<1>1. fate \in Fates /\ step \in {"unused", "start", "finish", "release"}
  BY FateTypes
<1>. HIDE DEF step, fate
<1>2. /\ JobOf(t, step, fate) \in Jobs
      /\ JobOf(t, step, fate).task = t /\ JobOf(t, step, fate).step = step
      /\ JobOf(t, step, fate).live
      /\ JobOf(t, step, fate).misses + 1 < HeartbeatLimit
  BY <1>1, JobMade
<1>. QED
  BY <1>2 DEF step, fate

LEMMA JobLeft ==
  ASSUME job \in [Claims -> Jobs], NEW j \in Claims, NEW fate \in Fates, Leave(j, fate)
  PROVE  /\ job' \in [Claims -> Jobs]
         /\ \A i \in Claims : i # j => job'[i] = job[i]
         /\ job'[j].task = job[j].task /\ job'[j].step = "release" /\ job'[j].fate = fate
         /\ job'[j].live = job[j].live /\ job'[j].misses = job[j].misses
BY DEF Leave, Jobs

LEMMA JobMoved ==
  ASSUME job \in [Claims -> Jobs], NEW j \in Claims, NEW step \in {"beat", "sync", "call", "release"},
         Goto(j, step)
  PROVE  /\ job' \in [Claims -> Jobs]
         /\ \A i \in Claims : i # j => job'[i] = job[i]
         /\ job'[j].task = job[j].task /\ job'[j].step = step /\ job'[j].fate = job[j].fate
         /\ job'[j].live = job[j].live /\ job'[j].misses = job[j].misses
BY DEF Goto, Jobs

LEMMA MoveTypes ==
  ASSUME TypeInv, NEW j \in Claims, NEW step \in {"beat", "sync", "call", "release"}, Goto(j, step),
         step \in {"beat", "sync"} => job[j].task \in Syncs, UNCHANGED offer
  PROVE  job' \in [Claims -> Jobs] /\ \A i \in Claims : JobOK(i)'
<1>1. /\ job' \in [Claims -> Jobs]
      /\ \A i \in Claims : i # j => job'[i] = job[i]
      /\ job'[j].task = job[j].task /\ job'[j].step = step
      /\ job'[j].live = job[j].live /\ job'[j].misses = job[j].misses
  BY JobMoved DEF TypeInv, TypeOK
<1>2. \A i \in Claims : JobOK(i)
  BY DEF TypeInv
<1>. QED
  BY <1>1, <1>2 DEF JobOK

LEMMA JobReturned ==
  ASSUME job \in [Claims -> Jobs], NEW j \in Claims, Return(j)
  PROVE  /\ job' \in [Claims -> Jobs]
         /\ \A i \in Claims : i # j => job'[i] = job[i]
         /\ job'[j].task = job[j].task /\ job'[j].step = "over" /\ job'[j].fate = job[j].fate
         /\ job'[j].live = job[j].live /\ job'[j].misses = job[j].misses
<1>1. job' = [job EXCEPT ![j].step = "over", ![j].closing = FALSE]
  BY DEF Return
<1>. QED
  BY <1>1 DEF Jobs

\* A job that is left keeps what is known of it.
LEMMA LeaveTypes ==
  ASSUME TypeInv, NEW j \in Claims, NEW fate \in Fates, Leave(j, fate), job[j].step # "unused",
         \A t \in Tasks : offer[t] = "withdrawn" => offer'[t] = "withdrawn"
  PROVE  job' \in [Claims -> Jobs] /\ \A i \in Claims : JobOK(i)'
<1>1. /\ job' \in [Claims -> Jobs]
      /\ \A i \in Claims : i # j => job'[i] = job[i]
      /\ job'[j].task = job[j].task /\ job'[j].step = "release"
      /\ job'[j].live = job[j].live /\ job'[j].misses = job[j].misses
  BY JobLeft DEF TypeInv, TypeOK
<1>2. \A i \in Claims : JobOK(i)
  BY DEF TypeInv
<1>. QED
  BY <1>1, <1>2 DEF JobOK

LEMMA FaultsTyped == ASSUME TypeInv, Fail \/ UNCHANGED faults PROVE faults' \in 0 .. MaxFaults
<1>1. faults \in 0 .. MaxFaults /\ MaxFaults \in Nat
  BY RunnerAssumption DEF TypeInv, TypeOK
<1>2. CASE Fail
  <2>1. \/ faults' = faults
        \/ faults' = faults + 1 /\ faults < MaxFaults
    BY <1>2 DEF Fail, MayFail
  <2>. QED
    BY <1>1, <2>1
<1>. QED
  BY <1>1, <1>2

\* The rest of the state when only the job moves.
LEMMA OnlyJob ==
  ASSUME TypeInv, UNCHANGED <<loop, cur, started, stop, env, late>>, faults' \in 0 .. MaxFaults,
         offer' \in [Tasks -> {"offered", "claimed", "withdrawn", "reported"}],
         job' \in [Claims -> Jobs], \A i \in Claims : JobOK(i)'
  PROVE  TypeInv'
<1>1. TypeOK'
  BY DEF TypeInv, TypeOK, env, Claims, Tasks, Jobs, Fates
<1>. QED
  BY <1>1 DEF TypeInv, Claims

LEMMA LeftTyped ==
  ASSUME TypeInv, NEW j \in Claims, NEW fate \in Fates, Leave(j, fate), job[j].step # "unused",
         UNCHANGED <<loop, cur, started, stop, env, offer, late>>, faults' \in 0 .. MaxFaults
  PROVE  TypeInv'
<1>1. job' \in [Claims -> Jobs] /\ \A i \in Claims : JobOK(i)'
  BY LeaveTypes
<1>2. offer' \in [Tasks -> {"offered", "claimed", "withdrawn", "reported"}]
  BY DEF TypeInv, TypeOK
<1>. QED
  BY <1>1, <1>2, OnlyJob

LEMMA MovedTyped ==
  ASSUME TypeInv, NEW j \in Claims, NEW step \in {"beat", "sync", "call", "release"}, Goto(j, step),
         step \in {"beat", "sync"} => job[j].task \in Syncs,
         UNCHANGED <<loop, cur, started, stop, env, offer, late>>, faults' \in 0 .. MaxFaults
  PROVE  TypeInv'
<1>1. job' \in [Claims -> Jobs] /\ \A i \in Claims : JobOK(i)'
  BY MoveTypes
<1>2. offer' \in [Tasks -> {"offered", "claimed", "withdrawn", "reported"}]
  BY DEF TypeInv, TypeOK
<1>. QED
  BY <1>1, <1>2, OnlyJob

LEMMA TypeInit == Init => TypeInv
<1>. SUFFICES ASSUME Init PROVE TypeInv
  OBVIOUS
<1>. DEFINE new == JobOf(Hello, "unused", "pending")
<1>1. /\ new \in Jobs /\ new.misses + 1 < HeartbeatLimit /\ new.live
      /\ new.step = "unused" /\ new.misses = 0 /\ new.task = Hello
  BY RunnerAssumption DEF JobOf, Jobs, Fates
<1>2. \A j \in Claims : job[j] = new
  BY DEF Init
<1>3. job \in [Claims -> Jobs]
  BY <1>1 DEF Init
<1>. HIDE DEF new
<1>4. \A j \in Claims : JobOK(j)
  BY <1>1, <1>2 DEF JobOK
<1>5. offer \in [Tasks -> {"offered", "claimed", "withdrawn", "reported"}]
  BY DEF Init
<1>6. /\ cur \in -1 .. Concurrency /\ cur >= 0
      /\ lapses \in 0 .. MaxLapses /\ faults \in 0 .. MaxFaults /\ late \in Nat
  <2>1. 0 \in 0 .. MaxLapses /\ 0 \in 0 .. MaxFaults /\ 0 \in -1 .. Concurrency
    BY RunnerAssumption
  <2>. QED
    BY <2>1 DEF Init
<1>7. started \in BOOLEAN /\ stop \in BOOLEAN /\ cancelled \in BOOLEAN
  BY DEF Init
<1>8. loop = "head" /\ conn = "up"
  BY DEF Init
<1>. QED
  BY <1>3, <1>4, <1>5, <1>6, <1>7, <1>8 DEF TypeInv, TypeOK

LEMMA TypeStep == TypeInv /\ [Next]_vars => TypeInv'
<1>. SUFFICES ASSUME TypeInv, [Next]_vars PROVE TypeInv'
  OBVIOUS
<1>. USE RunnerAssumption DEF TypeInv, TypeOK, Running
<1>1. CASE Head
  BY <1>1 DEF Head, env, JobOK
<1>2. CASE Wait
  BY <1>2 DEF Wait, env, JobOK
<1>3. CASE Acquire
  BY <1>3 DEF Acquire, Release, env, JobOK
<1>4. CASE NoTask
  BY <1>4 DEF NoTask, Release, Fail, MayFail, env, JobOK
<1>5. ASSUME NEW t \in Tasks \cup {Hello}, Dispatch(t), loop = "next", started' \in BOOLEAN,
             offer' = offer \/ \E u \in Tasks : offer[u] = "offered" /\ offer' = [offer EXCEPT ![u] = "claimed"]
      PROVE  TypeInv'
  <2>1. PICK j \in Claims : job[j].step = "unused" /\ job' = [job EXCEPT ![j] = JobOf(t, "start", "pending")]
    BY <1>5 DEF Dispatch
  <2>. DEFINE new == JobOf(t, "start", "pending")
  <2>2. /\ new \in Jobs /\ new.misses + 1 < HeartbeatLimit /\ new.live
        /\ new.step = "start"
    BY StartMade
  <2>. HIDE DEF new
  <2>3. \A i \in Claims : JobOK(i)'
    <3>1. \A i \in Claims : job'[i] = IF i = j THEN new ELSE job[i]
      BY <2>1 DEF new
    <3>2. \A u \in Tasks : offer[u] = "withdrawn" => offer'[u] = "withdrawn"
      BY <1>5
    <3>. QED
      BY <2>2, <3>1, <3>2 DEF JobOK
  <2>4. job' \in [Claims -> Jobs]
    BY <2>1, <2>2 DEF new
  <2>. QED
    <3>1. offer' \in [Tasks -> {"offered", "claimed", "withdrawn", "reported"}]
      BY <1>5
    <3>2. late' \in Nat /\ cur' = cur /\ loop' = "head" /\ UNCHANGED <<stop, conn, cancelled, lapses, faults>>
      BY <1>5 DEF Dispatch, env
    <3>3. TypeOK'
      BY <1>5, <2>4, <3>1, <3>2
    <3>. QED
      BY <2>3, <3>3
<1>6. CASE NextHello
  BY <1>5, <1>6 DEF NextHello
<1>7. ASSUME NEW t \in Tasks, NextTask(t) PROVE TypeInv'
  BY <1>5, <1>7 DEF NextTask
<1>8. ASSUME NEW j \in Claims, Start(j) PROVE TypeInv'
  <2>1. /\ job[j].step = "start" /\ UNCHANGED <<loop, cur, started, stop, env, offer, late>>
        /\ faults' \in 0 .. MaxFaults
    <3>1. Fail \/ UNCHANGED faults
      BY <1>8 DEF Start
    <3>2. job[j].step = "start" /\ UNCHANGED <<loop, cur, started, stop, env, offer, late>>
      BY <1>8 DEF Start, At
    <3>. QED
      BY <3>1, <3>2, FaultsTyped
  <2>2. CASE Leave(j, "request failed")
    BY <2>1, <2>2, LeftTyped, FateTypes
  <2>3. CASE Goto(j, IF job[j].task \in Syncs THEN "beat" ELSE "call")
    BY <2>1, <2>3, MovedTyped
  <2>. QED
    BY <1>8, <2>2, <2>3 DEF Start
<1>9. ASSUME NEW j \in Claims, FirstBeat(j) PROVE TypeInv'
  <2>1. /\ job[j].step = "beat" /\ UNCHANGED <<loop, cur, started, stop, env, offer, late>>
        /\ faults' \in 0 .. MaxFaults
    <3>1. Fail \/ UNCHANGED faults
      BY <1>9 DEF FirstBeat
    <3>2. job[j].step = "beat" /\ UNCHANGED <<loop, cur, started, stop, env, offer, late>>
      BY <1>9 DEF FirstBeat, At
    <3>. QED
      BY <3>1, <3>2, FaultsTyped
  <2>2. CASE Leave(j, "no heartbeat")
    BY <2>1, <2>2, LeftTyped, FateTypes
  <2>3. ASSUME NEW step \in {"sync", "release"}, Goto(j, step) PROVE TypeInv'
    <3>1. job[j].task \in Syncs
      BY <2>1 DEF JobOK
    <3>. QED
      BY <2>1, <2>3, <3>1, MovedTyped
  <2>. QED
    BY <1>9, <2>2, <2>3 DEF FirstBeat
<1>10. ASSUME NEW j \in Claims, Heartbeat(j) PROVE TypeInv'
  BY <1>10 DEF Heartbeat, At, Fail, MayFail, env, JobOK, Jobs, Tasks
<1>11. ASSUME NEW j \in Claims, Work(j) PROVE TypeInv'
  <2>1. PICK step \in {"release", "finish"} :
          /\ job' = [job EXCEPT ![j] = [JobOf(job[j].task, step, job[j].fate) EXCEPT !.closing = conn = "closed"]]
          /\ step = "finish" => job[j].task # Hello
    BY <1>11 DEF Work, EndWork
  <2>. DEFINE closing == conn = "closed"
              new == [JobOf(job[j].task, step, job[j].fate) EXCEPT !.closing = closing]
  <2>2. closing \in BOOLEAN /\ job[j] \in Jobs
    OBVIOUS
  <2>3. job' = [job EXCEPT ![j] = new]
    BY <2>1
  <2>. HIDE DEF closing
  <2>4. /\ new \in Jobs /\ new.step = step /\ new.task = job[j].task
        /\ new.live /\ new.misses = 0
    <3>. DEFINE made == JobOf(job[j].task, step, job[j].fate)
    <3>1. job[j].task \in Tasks \cup {Hello} /\ job[j].fate \in Fates
      BY <2>2 DEF Jobs
    <3>2. made \in Jobs /\ made.step = step /\ made.task = job[j].task /\ made.live /\ made.misses = 0
      BY <2>1, <3>1, JobMade
    <3>3. new = [made EXCEPT !.closing = closing]
      OBVIOUS
    <3>. HIDE DEF made, new
    <3>. QED
      BY <2>2, <3>2, <3>3 DEF Jobs
  <2>. HIDE DEF new
  <2>5. job' \in [Claims -> Jobs]
    BY <2>3, <2>4
  <2>6. job[j].task # Hello => job[j].task \in Tasks
    BY <2>2 DEF Jobs
  <2>7. \A i \in Claims : job'[i] = IF i = j THEN new ELSE job[i]
    BY <2>3
  <2>8. /\ UNCHANGED <<loop, cur, started, stop, env, offer, late>>
        /\ faults' \in 0 .. MaxFaults
    BY <1>11 DEF Work
  <2>9. \A i \in Claims : JobOK(i)'
    <3>1. ASSUME NEW i \in Claims, i # j PROVE JobOK(i)'
      BY <2>7, <2>8, <3>1 DEF JobOK
    <3>2. /\ job'[j].live /\ job'[j].misses = 0 /\ job'[j].step = step
          /\ step = "finish" => job'[j].task \in Tasks
      BY <2>1, <2>4, <2>6, <2>7
    <3>3. JobOK(j)'
      BY <2>1, <3>2, RunnerAssumption DEF JobOK
    <3>. QED
      BY <3>1, <3>3
  <2>. QED
    BY <2>5, <2>8, <2>9, OnlyJob
<1>12. ASSUME NEW j \in Claims, FinishTask(j) PROVE TypeInv'
  <2>1. job[j].step = "finish" /\ job[j].task \in Tasks
    BY <1>12 DEF FinishTask, At, JobOK
  <2>2. /\ offer' \in [Tasks -> {"offered", "claimed", "withdrawn", "reported"}]
        /\ \A t \in Tasks : offer[t] = "withdrawn" => offer'[t] = "withdrawn"
        /\ UNCHANGED <<loop, cur, started, stop, env, late>>
        /\ faults' \in 0 .. MaxFaults
    <3>1. (Fail \/ UNCHANGED faults) /\ UNCHANGED <<loop, cur, started, stop, env, late>>
      BY <1>12 DEF FinishTask
    <3>2. \/ UNCHANGED offer
          \/ offer' = [offer EXCEPT ![job[j].task] = IF @ = "claimed" THEN "reported" ELSE @]
      BY <1>12 DEF FinishTask
    <3>3. faults' \in 0 .. MaxFaults
      BY <3>1, FaultsTyped
    <3>. QED
      BY <2>1, <3>1, <3>2, <3>3
  <2>3. PICK fate \in {"request failed", "reported"} : Leave(j, fate)
    BY <1>12 DEF FinishTask
  <2>4. job' \in [Claims -> Jobs] /\ \A i \in Claims : JobOK(i)'
    <3>1. fate \in Fates
      BY <2>3, FateTypes
    <3>. QED
      BY <2>1, <2>2, <2>3, <3>1, LeaveTypes
  <2>. QED
    BY <2>2, <2>4, OnlyJob
<1>13. ASSUME NEW j \in Claims, Return(j) PROVE TypeInv'
  <2>1. /\ job' \in [Claims -> Jobs]
        /\ \A i \in Claims : i # j => job'[i] = job[i]
        /\ job'[j].task = job[j].task /\ job'[j].step = "over"
        /\ job'[j].live = job[j].live /\ job'[j].misses = job[j].misses
    BY <1>13, JobReturned
  <2>4. offer' = offer
    BY <1>13 DEF Return
  <2>5. \A i \in Claims : JobOK(i)'
    BY <2>1, <2>4 DEF JobOK
  <2>. QED
    BY <1>13, <2>1, <2>4, <2>5 DEF Return, At, Release, env
<1>14. CASE Interrupt \/ ChildDies \/ Exit
  BY <1>14 DEF Interrupt, ChildDies, Exit, env, JobOK
<1>15. ASSUME NEW t \in Tasks, GiveUp(t) PROVE TypeInv'
  BY <1>15 DEF GiveUp, JobOK, Jobs
<1>16. CASE UNCHANGED vars
  BY <1>16 DEF vars, env, JobOK
<1>. QED
  BY <1>1, <1>2, <1>3, <1>4, <1>6, <1>7, <1>8, <1>9, <1>10, <1>11, <1>12, <1>13, <1>14, <1>15, <1>16
  DEF Next, Loop, Job

-----------------------------------------------------------------------------
(* Slots *)

LEMMA BusyCard == /\ IsFiniteSet(Busy) /\ Cardinality(Busy) \in Nat
                  /\ \A j \in Busy : Cardinality(Busy) >= 1 /\ Cardinality(Busy \ {j}) = Cardinality(Busy) - 1
                  /\ \A j \in Claims \ Busy : Cardinality(Busy \cup {j}) = Cardinality(Busy) + 1
<1>1. Busy \subseteq Claims
  BY DEF Busy
<1>2. IsFiniteSet(Busy)
  BY <1>1, ClaimsFinite, FS_Subset
<1>3. Cardinality(Busy) \in Nat
  BY <1>2, FS_CardinalityType
<1>4. ASSUME NEW j \in Busy
      PROVE  Cardinality(Busy) >= 1 /\ Cardinality(Busy \ {j}) = Cardinality(Busy) - 1
  <2>1. Cardinality(Busy \ {j}) = Cardinality(Busy) - 1
    BY <1>2, FS_RemoveElement
  <2>2. Cardinality(Busy \ {j}) \in Nat
    BY <1>2, FS_Subset, FS_CardinalityType
  <2>. QED
    BY <1>3, <2>1, <2>2
<1>5. ASSUME NEW j \in Claims \ Busy PROVE Cardinality(Busy \cup {j}) = Cardinality(Busy) + 1
  BY <1>2, FS_AddElement
<1>. QED
  BY <1>2, <1>3, <1>4, <1>5

\* The count of the semaphore, in the loop and when it has ended.
SlotInv ==
  /\ loop \in {"head", "wait", "acquire"} => cur = Cardinality(Busy)
  /\ loop = "next" => cur = Cardinality(Busy) + 1
  /\ loop = "returned" => \/ cur = Cardinality(Busy)
                          \/ cancelled /\ cur = Cardinality(Busy) - 1
  /\ Cardinality(Busy) <= Concurrency
  /\ loop = "panicked" => cancelled

LEMMA SlotInit == Init => SlotInv
<1>. SUFFICES ASSUME Init PROVE SlotInv
  OBVIOUS
<1>1. Busy = {}
  BY DEF Init, Busy, JobOf
<1>2. Cardinality(Busy) = 0
  BY <1>1, FS_EmptySet
<1>. QED
  BY <1>2, RunnerAssumption DEF Init, SlotInv

\* A step of the loop that starts no goroutine.
LEMMA SlotLoop ==
  ASSUME TypeInv, SlotInv, UNCHANGED job, Head \/ Wait \/ Acquire \/ NoTask
  PROVE  SlotInv'
<1>1. Cardinality(Busy)' = Cardinality(Busy) /\ Cardinality(Busy) \in Nat
  BY BusyCard DEF Busy, Claims
<1>. QED
  BY <1>1, RunnerAssumption
  DEF SlotInv, TypeInv, TypeOK, Head, Wait, Acquire, NoTask, Release, env

LEMMA SlotDispatch ==
  ASSUME TypeInv, SlotInv, loop = "next", NEW t \in Tasks \cup {Hello}, Dispatch(t)
  PROVE  SlotInv'
<1>1. PICK j \in Claims : job[j].step = "unused" /\ job' = [job EXCEPT ![j] = JobOf(t, "start", "pending")]
  BY DEF Dispatch
<1>2. j \in Claims \ Busy
  BY <1>1 DEF Busy
<1>3. Busy' = Busy \cup {j}
  BY <1>1 DEF Busy, JobOf, TypeInv, TypeOK, Claims
<1>4. Cardinality(Busy)' = Cardinality(Busy) + 1 /\ Cardinality(Busy) \in Nat
  BY <1>2, <1>3, BusyCard
<1>. QED
  BY <1>4, RunnerAssumption DEF SlotInv, TypeInv, TypeOK, Dispatch, env

LEMMA SlotReturn ==
  ASSUME TypeInv, SlotInv, NEW j \in Claims, Return(j)
  PROVE  SlotInv'
<1>1. j \in Busy
  BY DEF Return, At, Busy
<1>2. Busy' = Busy \ {j}
  BY DEF Return, Busy, JobOf, TypeInv, TypeOK, Claims
<1>3. /\ Cardinality(Busy) \in Nat /\ Cardinality(Busy) >= 1
      /\ Cardinality(Busy)' = Cardinality(Busy) - 1
  BY <1>1, <1>2, BusyCard
<1>. QED
  BY <1>3, RunnerAssumption
  DEF SlotInv, TypeInv, TypeOK, Return, At, Running, Release, env

\* Whatever leaves the loop, the count and the busy jobs alone.
LEMMA SlotSame ==
  ASSUME SlotInv, Busy' = Busy, UNCHANGED <<loop, cur>>, cancelled => cancelled'
  PROVE  SlotInv'
  BY DEF SlotInv

LEMMA SlotStep == TypeInv /\ SlotInv /\ [Next]_vars => SlotInv'
<1>. SUFFICES ASSUME TypeInv, SlotInv, [Next]_vars PROVE SlotInv'
  OBVIOUS
<1>1. CASE Head \/ Wait \/ Acquire \/ NoTask
  <2>1. UNCHANGED job
    BY <1>1 DEF Head, Wait, Acquire, NoTask
  <2>. QED
    BY <1>1, <2>1, SlotLoop
<1>2. CASE NextHello
  BY <1>2, SlotDispatch DEF NextHello
<1>3. ASSUME NEW t \in Tasks, NextTask(t) PROVE SlotInv'
  BY <1>3, SlotDispatch DEF NextTask
<1>4. ASSUME NEW j \in Claims, Start(j) \/ FirstBeat(j) \/ Heartbeat(j) \/ Work(j) \/ FinishTask(j)
      PROVE  SlotInv'
  <2>1. job[j].step \notin {"unused", "over"} /\ UNCHANGED <<loop, cur, cancelled>>
    BY <1>4 DEF Start, FirstBeat, Heartbeat, Work, FinishTask, At, env
  <2>2. job'[j].step \notin {"unused", "over"} /\ \A i \in Claims \ {j} : job'[i] = job[i]
    <3>1. CASE Start(j) \/ FirstBeat(j) \/ FinishTask(j)
      <4>1. CASE \E fate \in Fates : Leave(j, fate)
        BY <4>1, JobLeft DEF TypeInv, TypeOK
      <4>2. CASE \E step \in {"beat", "sync", "call", "release"} : Goto(j, step)
        BY <4>2, JobMoved DEF TypeInv, TypeOK
      <4>. QED
        BY <3>1, <4>1, <4>2, FateTypes DEF Start, FirstBeat, FinishTask
    <3>. USE DEF TypeInv, TypeOK, Jobs
    <3>2. CASE Heartbeat(j)
      BY <2>1, <3>2 DEF Heartbeat
    <3>3. CASE Work(j)
      BY <3>3 DEF Work, EndWork, JobOf
    <3>. QED
      BY <1>4, <3>1, <3>2, <3>3
  <2>3. Busy' = Busy
    BY <2>1, <2>2 DEF Busy, TypeInv, TypeOK, Claims
  <2>. QED
    BY <2>1, <2>3, SlotSame
<1>5. ASSUME NEW j \in Claims, Return(j) PROVE SlotInv'
  BY <1>5, SlotReturn
<1>6. CASE Exit
  <2>1. Cardinality(Busy)' = Cardinality(Busy)
    BY <1>6 DEF Exit, Busy, Claims
  <2>. QED
    BY <1>6, <2>1 DEF Exit, SlotInv, env
<1>7. CASE Interrupt \/ ChildDies \/ (\E t \in Tasks : GiveUp(t)) \/ UNCHANGED vars
  <2>1. Busy' = Busy /\ UNCHANGED <<loop, cur>> /\ (cancelled => cancelled')
    BY <1>7 DEF Interrupt, ChildDies, GiveUp, vars, env, Busy, Claims
  <2>. QED
    BY <2>1, SlotSame
<1>. QED
  BY <1>1, <1>2, <1>3, <1>4, <1>5, <1>6, <1>7 DEF Next, Loop, Job

-----------------------------------------------------------------------------
(* The end of the loop *)

\* After a late claim the loop is on its way out: an interrupted one gets no further
\* slot, one that was told to stop looks at the flag next.
LateInv ==
  \/ late = 0
  \/ late = 1 /\ cancelled /\ loop # "next"
  \/ late = 1 /\ stop /\ loop \in {"head", "returned", "exited", "panicked"}

LEMMA LateStep == TypeInv /\ LateInv /\ [Next]_vars => LateInv'
<1>. SUFFICES ASSUME TypeInv, LateInv, [Next]_vars PROVE LateInv'
  OBVIOUS
<1>. USE DEF LateInv
<1>1. CASE Head
  BY <1>1 DEF Head, env
<1>2. CASE Wait \/ Acquire
  BY <1>2 DEF Wait, Acquire, Release, env
<1>3. CASE NoTask
  BY <1>3 DEF NoTask, Release, env
<1>4. ASSUME NEW t \in Tasks \cup {Hello}, loop = "next", Dispatch(t) PROVE LateInv'
  BY <1>4 DEF Dispatch, env
<1>5. CASE NextHello \/ \E t \in Tasks : NextTask(t)
  BY <1>4, <1>5 DEF NextHello, NextTask
<1>6. ASSUME NEW j \in Claims, Start(j) \/ FirstBeat(j) \/ Heartbeat(j) \/ Work(j) \/ FinishTask(j)
      PROVE  LateInv'
  BY <1>6 DEF Start, FirstBeat, Heartbeat, Work, FinishTask, env
<1>7. ASSUME NEW j \in Claims, Return(j) PROVE LateInv'
  BY <1>7 DEF Return, Release, At, Running, env
<1>8. CASE Interrupt \/ ChildDies \/ Exit \/ (\E t \in Tasks : GiveUp(t)) \/ UNCHANGED vars
  BY <1>8 DEF Interrupt, ChildDies, Exit, GiveUp, vars, env
<1>. QED
  BY <1>1, <1>2, <1>3, <1>5, <1>6, <1>7, <1>8 DEF Next, Loop, Job

-----------------------------------------------------------------------------
(* What is claimed *)

\* The goroutine of a claim still has to report the task, or a request of it failed.
Accountable(j) ==
  \/ job[j].step \in {"start", "beat", "sync", "call", "finish"}
  \/ job[j].fate \in {"no heartbeat", "request failed"}

\* Claims are made in the order of their numbers.
Ordered == \A i, j \in Claims : i < j /\ job[i].step = "unused" => job[j].step = "unused"

ClaimInv ==
  /\ Ordered
  /\ \A t \in Tasks :
       offer[t] = "claimed" => \E j \in Claims : LastClaim(j, t) /\ Accountable(j)

\* A step of one job that neither answers for its task nor has it claimed.
LEMMA ClaimSame ==
  ASSUME TypeInv, ClaimInv, NEW j \in Claims,
         \A i \in Claims : i # j => job'[i] = job[i],
         job[j].step # "unused", job'[j].step # "unused", job'[j].task = job[j].task,
         \A t \in Tasks : offer'[t] = "claimed" => offer[t] = "claimed",
         job[j].task \in Tasks /\ offer'[job[j].task] = "claimed" /\ Accountable(j) =>
           job'[j].step \in {"start", "beat", "sync", "call", "finish"} \/
           job'[j].fate \in {"no heartbeat", "request failed"}
  PROVE  ClaimInv'
<1>1. \A i \in Claims : job'[i].task = job[i].task /\ (job'[i].step = "unused" <=> job[i].step = "unused")
  OBVIOUS
<1>2. Ordered'
  BY <1>1 DEF Ordered, ClaimInv, Claims
<1>3. ASSUME NEW t \in Tasks, offer'[t] = "claimed"
      PROVE  \E i \in Claims : LastClaim(i, t)' /\ Accountable(i)'
  <2>1. PICK i \in Claims : LastClaim(i, t) /\ Accountable(i)
    BY <1>3 DEF ClaimInv
  <2>2. LastClaim(i, t)'
    BY <1>1, <2>1 DEF LastClaim, Claims
  <2>3. Accountable(i)'
    BY <1>3, <2>1 DEF Accountable, LastClaim
  <2>. QED
    BY <2>2, <2>3
<1>. QED
  BY <1>2, <1>3 DEF ClaimInv, Claims

\* A job that moves on, or that is left.
LEMMA ClaimMoved ==
  ASSUME TypeInv, ClaimInv, NEW j \in Claims, job[j].step # "unused", UNCHANGED offer,
         NEW step \in {"beat", "sync", "call", "release"}, Goto(j, step),
         step = "release" => offer[job[j].task] # "claimed"
  PROVE  ClaimInv'
<1>1. /\ \A i \in Claims : i # j => job'[i] = job[i]
      /\ job'[j].task = job[j].task /\ job'[j].step = step
  BY JobMoved DEF TypeInv, TypeOK
<1>2. step # "unused"
  OBVIOUS
<1>3. offer'[job[j].task] = "claimed" => step \in {"beat", "sync", "call"}
  OBVIOUS
<1>. QED
  BY <1>1, <1>2, <1>3, ClaimSame

LEMMA ClaimLeft ==
  ASSUME TypeInv, ClaimInv, NEW j \in Claims, job[j].step # "unused",
         \A t \in Tasks : offer'[t] = "claimed" => offer[t] = "claimed",
         NEW fate \in Fates, Leave(j, fate),
         fate \in {"no heartbeat", "request failed"} \/ offer'[job[j].task] # "claimed"
  PROVE  ClaimInv'
<1>1. /\ \A i \in Claims : i # j => job'[i] = job[i]
      /\ job'[j].task = job[j].task /\ job'[j].step = "release" /\ job'[j].fate = fate
  BY JobLeft DEF TypeInv, TypeOK
<1>2. "release" # "unused"
  OBVIOUS
<1>. QED
  BY <1>1, <1>2, ClaimSame

\* A new claim is the last one of its task.
LEMMA ClaimDispatch ==
  ASSUME TypeInv, ClaimInv, NEW t \in Tasks \cup {Hello}, Dispatch(t),
         \A u \in Tasks : u # t => offer'[u] = offer[u]
  PROVE  ClaimInv'
<1>. DEFINE new == JobOf(t, "start", "pending")
<1>1. PICK j \in Claims : /\ job[j].step = "unused"
                          /\ \A i \in 1 .. (j - 1) : job[i].step # "unused"
                          /\ job' = [job EXCEPT ![j] = new]
  BY DEF Dispatch
<1>2. new.step = "start" /\ new.task = t
  BY DEF JobOf
<1>3. \A i \in Claims : job'[i] = IF i = j THEN new ELSE job[i]
  BY <1>1 DEF TypeInv, TypeOK
<1>. HIDE DEF new
<1>4. \A i \in Claims : i > j => job[i].step = "unused" /\ job[i].task = Hello
  BY <1>1, ClaimsFinite DEF ClaimInv, Ordered, TypeInv, JobOK
<1>5. Hello \notin Tasks /\ job[j].task = Hello
  BY <1>1, RunnerAssumption DEF TypeInv, JobOK
<1>6. Ordered'
  <2>. SUFFICES ASSUME NEW i \in Claims, NEW k \in Claims, i < k, job'[i].step = "unused"
                PROVE  job'[k].step = "unused"
    BY DEF Ordered, Claims
  <2>1. i # j /\ job[i].step = "unused"
    BY <1>2, <1>3
  <2>2. i > j
    BY <1>1, <2>1, ClaimsFinite DEF Claims
  <2>. QED
    BY <1>3, <1>4, <2>2, ClaimsFinite
<1>7. ASSUME NEW u \in Tasks, offer'[u] = "claimed"
      PROVE  \E i \in Claims : LastClaim(i, u)' /\ Accountable(i)'
  <2>1. CASE u = t
    <3>1. LastClaim(j, t)'
      BY <1>2, <1>3, <1>4, <1>5, <2>1, ClaimsFinite DEF LastClaim, Claims
    <3>2. Accountable(j)'
      BY <1>2, <1>3 DEF Accountable
    <3>. QED
      BY <2>1, <3>1, <3>2
  <2>2. CASE u # t
    <3>1. PICK i \in Claims : LastClaim(i, u) /\ Accountable(i)
      BY <1>7, <2>2 DEF ClaimInv
    <3>2. i # j
      BY <1>5, <3>1 DEF LastClaim
    <3>3. LastClaim(i, u)' /\ Accountable(i)'
      BY <1>2, <1>3, <2>2, <3>1, <3>2 DEF LastClaim, Accountable, Claims
    <3>. QED
      BY <3>3
  <2>. QED
    BY <2>1, <2>2
<1>. QED
  BY <1>6, <1>7 DEF ClaimInv, Claims

LEMMA ClaimStep == TypeInv /\ ClaimInv /\ [Next]_vars => ClaimInv'
<1>. SUFFICES ASSUME TypeInv, ClaimInv, [Next]_vars PROVE ClaimInv'
  OBVIOUS
<1>. USE DEF TypeInv, TypeOK
<1>1. ASSUME UNCHANGED <<job, offer>> PROVE ClaimInv'
  BY <1>1 DEF ClaimInv, Ordered, LastClaim, Accountable, Claims
<1>2. CASE Head \/ Wait \/ Acquire \/ NoTask \/ Interrupt \/ ChildDies \/ Exit \/ UNCHANGED vars
  BY <1>1, <1>2 DEF Head, Wait, Acquire, NoTask, Interrupt, ChildDies, Exit, vars
<1>3. CASE NextHello
  BY <1>3, ClaimDispatch DEF NextHello
<1>4. ASSUME NEW t \in Tasks, NextTask(t) PROVE ClaimInv'
  BY <1>4, ClaimDispatch DEF NextTask
<1>5. ASSUME NEW j \in Claims, Start(j) PROVE ClaimInv'
  <2>1. job[j].step = "start" /\ UNCHANGED offer
    BY <1>5 DEF Start, At
  <2>2. CASE Leave(j, "request failed")
    BY <2>1, <2>2, ClaimLeft, FateTypes
  <2>3. CASE Goto(j, IF job[j].task \in Syncs THEN "beat" ELSE "call")
    BY <2>1, <2>3, ClaimMoved
  <2>. QED
    BY <1>5, <2>2, <2>3 DEF Start
<1>6. ASSUME NEW j \in Claims, FirstBeat(j) PROVE ClaimInv'
  <2>1. job[j].step = "beat" /\ UNCHANGED offer
    BY <1>6 DEF FirstBeat, At
  <2>2. CASE Leave(j, "no heartbeat")
    BY <2>1, <2>2, ClaimLeft, FateTypes
  <2>3. CASE Goto(j, "sync")
    BY <2>1, <2>3, ClaimMoved
  <2>4. CASE offer[job[j].task] = "withdrawn" /\ Goto(j, "release")
    BY <2>1, <2>4, ClaimMoved
  <2>. QED
    BY <1>6, <2>2, <2>3, <2>4 DEF FirstBeat
<1>7. ASSUME NEW j \in Claims, Heartbeat(j) PROVE ClaimInv'
  <2>1. job[j].step = "sync" /\ UNCHANGED offer
    BY <1>7 DEF Heartbeat, At
  <2>2. /\ \A i \in Claims : i # j => job'[i] = job[i]
        /\ job'[j].step = job[j].step /\ job'[j].task = job[j].task
    BY <1>7 DEF Heartbeat, Jobs
  <2>. QED
    BY <2>1, <2>2, ClaimSame
<1>8. ASSUME NEW j \in Claims, Work(j) PROVE ClaimInv'
  <2>1. PICK step, closing :
          /\ job' = [job EXCEPT ![j] = [JobOf(job[j].task, step, job[j].fate) EXCEPT !.closing = closing]]
          /\ (step = "release" /\ job[j].task = Hello) \/ step = "finish"
    BY <1>8 DEF Work, EndWork
  <2>2. /\ \A i \in Claims : i # j => job'[i] = job[i]
        /\ job'[j].step = step /\ job'[j].task = job[j].task
    BY <2>1 DEF JobOf
  <2>3. job[j].step # "unused" /\ UNCHANGED offer
    BY <1>8 DEF Work, At
  <2>4. job[j].task \in Tasks => step = "finish"
    BY <2>1, RunnerAssumption
  <2>5. step # "unused"
    BY <2>1
  <2>. QED
    BY <2>2, <2>3, <2>4, <2>5, ClaimSame
<1>9. ASSUME NEW j \in Claims, FinishTask(j) PROVE ClaimInv'
  <2>1. job[j].step = "finish" /\ job[j].task \in Tasks
    BY <1>9 DEF FinishTask, At, JobOK
  <2>2. CASE Leave(j, "request failed") /\ UNCHANGED offer
    BY <2>1, <2>2, ClaimLeft, FateTypes
  <2>3. CASE /\ Leave(j, "reported")
             /\ offer' = [offer EXCEPT ![job[j].task] = IF @ = "claimed" THEN "reported" ELSE @]
    <3>1. /\ \A t \in Tasks : offer'[t] = "claimed" => offer[t] = "claimed"
          /\ offer'[job[j].task] # "claimed"
      BY <2>1, <2>3
    <3>. QED
      BY <2>1, <2>3, <3>1, ClaimLeft, FateTypes
  <2>. QED
    BY <1>9, <2>2, <2>3 DEF FinishTask
<1>10. ASSUME NEW j \in Claims, Return(j) PROVE ClaimInv'
  <2>1. job[j].step = "release" /\ UNCHANGED offer
    BY <1>10 DEF Return, At
  <2>2. /\ \A i \in Claims : i # j => job'[i] = job[i]
        /\ job'[j].step = "over" /\ job'[j].task = job[j].task /\ job'[j].fate = job[j].fate
    BY <1>10, JobReturned
  <2>3. Accountable(j) => job'[j].fate \in {"no heartbeat", "request failed"}
    BY <2>1, <2>2 DEF Accountable
  <2>. QED
    BY <2>1, <2>2, <2>3, ClaimSame
<1>11. ASSUME NEW t \in Tasks, GiveUp(t) PROVE ClaimInv'
  <2>1. /\ UNCHANGED job
        /\ \A u \in Tasks : offer'[u] = "claimed" => offer[u] = "claimed"
    BY <1>11 DEF GiveUp
  <2>2. Ordered'
    BY <2>1 DEF ClaimInv, Ordered, Claims
  <2>3. \A u \in Tasks : offer'[u] = "claimed" => \E j \in Claims : LastClaim(j, u)' /\ Accountable(j)'
    <3>. SUFFICES ASSUME NEW u \in Tasks, offer'[u] = "claimed"
                  PROVE  \E j \in Claims : LastClaim(j, u)' /\ Accountable(j)'
      OBVIOUS
    <3>1. PICK j \in Claims : LastClaim(j, u) /\ Accountable(j)
      BY <2>1 DEF ClaimInv
    <3>2. LastClaim(j, u)' /\ Accountable(j)'
      BY <2>1, <3>1 DEF LastClaim, Accountable, Claims
    <3>. QED
      BY <3>2
  <2>. QED
    BY <2>2, <2>3 DEF ClaimInv, Claims
<1>. QED
  <2>1. CASE \E t \in Tasks : NextTask(t) \/ GiveUp(t)
    BY <1>4, <1>11, <2>1
  <2>2. CASE \E j \in Claims : Job(j) \/ Heartbeat(j)
    BY <1>5, <1>6, <1>7, <1>8, <1>9, <1>10, <2>2 DEF Job
  <2>. QED
    BY <1>2, <1>3, <2>1, <2>2 DEF Next, Loop

-----------------------------------------------------------------------------
(* Theorems *)

LEMMA Invariant == Spec => [](TypeInv /\ SlotInv /\ LateInv /\ ClaimInv)
<1>1. Init => LateInv /\ ClaimInv
  BY DEF Init, LateInv, ClaimInv, Ordered, JobOf
<1>. QED
  BY <1>1, TypeInit, TypeStep, SlotInit, SlotStep, LateStep, ClaimStep, PTL DEF Spec

\* Every variable keeps its type.
THEOREM RunnerTypeOK == Spec => []TypeOK
<1>1. TypeInv => TypeOK
  BY DEF TypeInv
<1>. QED
  BY <1>1, Invariant, PTL

\* The semaphore counts the tasks in progress and the slot of the loop until the
\* process is interrupted or ends: no path of the loop or of a task loses a slot.
THEOREM SlotsCounted == Spec => []SlotsAreCounted
<1>1. TypeInv /\ SlotInv => SlotsAreCounted
  BY BusyCard DEF TypeInv, TypeOK, SlotInv, SlotsAreCounted, Running
<1>. QED
  BY <1>1, Invariant, PTL

\* There are never more tasks in progress than slots, also while the process is shut
\* down, and the over-release of a failed Acquire panics at no other time.
THEOREM SlotsBound == Spec => [](AtMostConcurrency /\ OnlyShutdownPanics)
<1>1. SlotInv => AtMostConcurrency /\ OnlyShutdownPanics
  BY DEF SlotInv, AtMostConcurrency, OnlyShutdownPanics
<1>. QED
  BY <1>1, Invariant, PTL

\* A loop that is told to stop claims at most one more task.
THEOREM OneLateClaim == Spec => []AtMostOneLateClaim
<1>1. LateInv => AtMostOneLateClaim
  BY DEF LateInv, AtMostOneLateClaim
<1>. QED
  BY <1>1, Invariant, PTL

\* A task that the service counts as claimed is worked on by its last claim, or a
\* request of that claim failed, whatever the service gave up meanwhile.
THEOREM ClaimsWorkedOn == Spec => []ClaimedAreWorkedOn
<1>1. TypeInv /\ ClaimInv => ClaimedAreWorkedOn
  BY DEF ClaimInv, Accountable, ClaimedAreWorkedOn
<1>. QED
  BY <1>1, Invariant, PTL

\* A sync is cancelled for a whole row of failed heartbeats or for a withdrawn task.
THEOREM HeartIsPatient == Spec => []PatientHeart
<1>1. TypeInv => PatientHeart
  BY DEF TypeInv, JobOK, PatientHeart
<1>. QED
  BY <1>1, Invariant, PTL

==============================================================================
