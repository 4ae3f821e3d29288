-------------------------- MODULE JobExecutorProofs --------------------------
(***************************************************************************)
(* Proofs about JobExecutor, for all processes, tasks, lists and bounds.   *)
(***************************************************************************)
EXTENDS JobExecutor, TLAPS

USE SentinelsAssumption, BoundsAssumption, FaultsAssumption
USE DEF submitFrame, lockFrame, workFrame, watchFrame, bootFrame

OneProcess == \A p, q \in Procs : p = q
OneClearer == \A c, d \in Clearers : c = d

(***************************************************************************)
(* Typing                                                                  *)
(***************************************************************************)

\* The variables start and stay in their types.
LEMMA TypeInit == Init => TypeOK
  BY DEF Init, TypeOK, JobIds, SubmitterPoints, WorkerPoints, MonitorPoints

\* A queue stays a sequence of tasks when a task is appended.
LEMMA AppendTyped ==
  ASSUME NEW q \in [Procs -> Seq(Tasks)], NEW t \in Tasks, NEW p
  PROVE  [q EXCEPT ![p] = Append(@, t)] \in [Procs -> Seq(Tasks)]
<1>1. \A r \in Procs : Append(q[r], t) \in Seq(Tasks)
  OBVIOUS
<1> QED
  BY <1>1

\* The steps of a submitter keep the types.
LEMMA TypeSubmit ==
  ASSUME TypeOK, NEW t \in Tasks, SubmitStep(t)
  PROVE  TypeOK'
<1> USE DEF TypeOK, SubmitterPoints, Submitting, WorkerPoints, MonitorPoints,
            SubmitterStep, WorkerStep, MonitorStep, ReleaseSubmitLock,
            tableVars, procVars, sharedVars, callVars, eventVars
<1>1. CASE AcquireSubmitLock(t)
  BY <1>1 DEF AcquireSubmitLock
<1>2. CASE CheckRunning(t)
  BY <1>2 DEF CheckRunning
<1>3. ASSUME NEW j \in JobIds, InsertRow(t, j)
      PROVE  TypeOK'
  BY <1>3 DEF InsertRow, SetStatus
<1>4. CASE InsertFails(t)
  BY <1>4 DEF InsertFails
<1>5. CASE RegisterStopEvent(t)
  BY <1>5 DEF RegisterStopEvent
<1>6. CASE StartMonitor(t)
  BY <1>6 DEF StartMonitor
<1>7. CASE Enqueue(t)
  <2>1. queue' \in [Procs -> Seq(Tasks)]
    <3>1. CASE queue' = [queue EXCEPT ![proc[t]] = Append(@, t)]
      BY <3>1, AppendTyped
    <3>2. CASE queue' = queue
      BY <3>2
    <3> QED
      BY <3>1, <3>2, <1>7 DEF Enqueue
  <2>2. worker' \in [Tasks -> WorkerPoints] /\ submitter' \in [Tasks -> SubmitterPoints]
    BY <1>7 DEF Enqueue
  <2> QED
    BY <2>1, <2>2, <1>7 DEF Enqueue
<1>8. CASE Attach(t)
  BY <1>8 DEF Attach
<1> QED
  BY <1>1, <1>2, <1>3, <1>4, <1>5, <1>6, <1>7, <1>8 DEF SubmitStep

\* The steps of a worker thread and of a monitor keep the types.
LEMMA TypeExecute ==
  ASSUME TypeOK, NEW t \in Tasks, ExecuteStep(t) \/ ImportItem(t) \/ WatchStep(t)
  PROVE  TypeOK'
<1> USE DEF TypeOK, WorkerPoints, Executing, MonitorPoints, WorkerStep,
            MonitorStep, tableVars, procVars, sharedVars, callVars, eventVars
<1>1. CASE Begin(t)
  BY <1>1 DEF Begin
<1>2. CASE FinishImport(t)
  BY <1>2 DEF FinishImport
<1>3. CASE Decide(t)
  BY <1>3 DEF Decide
<1>4. ASSUME NEW from, NEW s \in {"completed", "failed"},
             NEW next \in {"lastRun", "done"}, NEW raised \in {"markFailed", "done"},
             Mark(t, from, s, next, raised)
      PROVE  TypeOK'
  <2>1. jobStatus' \in [JobIds -> {"none", "running", "completed", "failed"}]
    BY <1>4 DEF Mark, WriteStatus, SetStatus
  <2>2. worker' \in [Tasks -> WorkerPoints]
    BY <1>4 DEF Mark
  <2> QED
    BY <2>1, <2>2, <1>4 DEF Mark
<1>5. CASE UpdateLastRun(t)
  BY <1>5 DEF UpdateLastRun
<1>6. CASE Cleanup(t)
  BY <1>6 DEF Cleanup
<1>7. CASE ImportItem(t)
  BY <1>7 DEF ImportItem
<1>8. CASE MonitorWakes(t)
  BY <1>8 DEF MonitorWakes
<1>9. CASE MonitorFires(t)
  BY <1>9 DEF MonitorFires
<1> QED
  BY <1>1, <1>2, <1>3, <1>4, <1>5, <1>6, <1>7, <1>8, <1>9
     DEF ExecuteStep, WatchStep, MarkCompleted, MarkTimeout, MarkFailed

\* The steps of a worker process keep the types.
LEMMA TypeProc ==
  ASSUME TypeOK, NEW p \in Procs, ProcStep(p)
  PROVE  TypeOK'
<1> USE DEF TypeOK, SubmitterPoints, Submitting, WorkerPoints, Executing,
            MonitorPoints, tableVars, procVars, sharedVars, callVars, eventVars
<1>1. CASE StartTask(p)
  BY <1>1 DEF StartTask, WorkerStep
<1>2. CASE Boot(p)
  BY <1>2 DEF Boot, RunningRows
<1>3. CASE Recover(p)
  <2>1. jobStatus' \in [JobIds -> {"none", "running", "completed", "failed"}]
    BY <1>3 DEF Recover
  <2>2. procState' \in [Procs -> {"down", "recovering", "up"}]
    <3>1. \E s \in {"up", "down"} : procState' = [procState EXCEPT ![p] = s]
      BY <1>3 DEF Recover
    <3> QED
      BY <3>1
  <2>3. toRecover' \in [Procs -> SUBSET JobIds]
    BY <1>3 DEF Recover
  <2> QED
    BY <2>1, <2>2, <2>3, <1>3 DEF Recover
<1>4. CASE RecoverSkipped(p)
  BY <1>4 DEF RecoverSkipped
<1>5. CASE Crash(p)
  BY <1>5 DEF Crash
<1> QED
  BY <1>1, <1>2, <1>3, <1>4, <1>5 DEF ProcStep, BootStep

\* Every step keeps the types.
LEMMA TypeNext == TypeOK /\ [Next]_vars => TypeOK'
<1> SUFFICES ASSUME TypeOK, [Next]_vars
             PROVE  TypeOK'
  OBVIOUS
<1> USE DEF tableVars, procVars, sharedVars, callVars, eventVars
<1>1. ASSUME NEW t \in Tasks, NEW p \in Procs, NEW l \in Lists, Request(t, p, l)
      PROVE  TypeOK'
  BY <1>1 DEF Request, SubmitterStep, TypeOK, SubmitterPoints, Submitting
<1>2. ASSUME NEW c \in Clearers, NEW ls, ClearReads(c, ls)
      PROVE  TypeOK'
  BY <1>2 DEF ClearReads, Clearable, TypeOK
<1>3. ASSUME NEW c \in Clearers, ClearDeletes(c)
      PROVE  TypeOK'
  BY <1>3 DEF ClearDeletes, TypeOK
<1>4. CASE Elapse
  BY <1>4 DEF Elapse, TypeOK
<1>5. CASE UNCHANGED vars
  BY <1>5 DEF vars, TypeOK
<1> QED
  BY <1>1, <1>2, <1>3, <1>4, <1>5, TypeSubmit, TypeExecute, TypeProc
     DEF Next, TaskStep, ClearStep

\* Every behaviour of the executor is well typed.
THEOREM TypeCorrect == Spec => []TypeOK
  BY TypeInit, TypeNext, PTL DEF Spec

(***************************************************************************)
(* The unique index: one running row per list                              *)
(***************************************************************************)

\* A step that makes no row running and changes no running row's list.
RunningOnlyLeave ==
    \A j \in JobIds :
        jobStatus'[j] = "running" =>
            /\ jobStatus[j] = "running"
            /\ jobList'[j] = jobList[j]
            /\ owner'[j] = owner[j]

\* Only InsertRow makes a row running.
LEMMA RunningRowsAppear ==
  ASSUME TypeOK, [Next]_vars,
         \A t \in Tasks, j \in JobIds : ~InsertRow(t, j)
  PROVE  RunningOnlyLeave
<1> USE DEF RunningOnlyLeave
<1>1. CASE UNCHANGED tableVars
  BY <1>1 DEF tableVars
<1>2. ASSUME NEW t \in Tasks, NEW from, NEW s \in {"completed", "failed"}, NEW next,
             NEW raised, Mark(t, from, s, next, raised)
      PROVE  RunningOnlyLeave
  BY <1>2 DEF Mark, WriteStatus, SetStatus, TypeOK
<1>3. ASSUME NEW p \in Procs, Recover(p)
      PROVE  RunningOnlyLeave
  BY <1>3 DEF Recover
<1>4. ASSUME NEW c \in Clearers, ClearDeletes(c)
      PROVE  RunningOnlyLeave
  BY <1>4 DEF ClearDeletes
<1>5. ASSUME NEW t \in Tasks, TaskStep(t)
      PROVE  RunningOnlyLeave
  <2>1. CASE SubmitStep(t)
    BY <2>1, <1>1 DEF SubmitStep, AcquireSubmitLock, CheckRunning, InsertFails,
       RegisterStopEvent, StartMonitor, Enqueue, Attach
  <2>2. CASE ExecuteStep(t)
    BY <2>2, <1>1, <1>2 DEF ExecuteStep, Begin, FinishImport, Decide,
       MarkCompleted, MarkTimeout, MarkFailed, UpdateLastRun, Cleanup
  <2> QED
    BY <2>1, <2>2, <1>1, <1>5 DEF TaskStep, Request, ImportItem, WatchStep,
       MonitorWakes, MonitorFires
<1>6. ASSUME NEW p \in Procs, ProcStep(p)
      PROVE  RunningOnlyLeave
  BY <1>6, <1>1, <1>3 DEF ProcStep, BootStep, StartTask, Boot, RecoverSkipped, Crash
<1> QED
  BY <1>1, <1>4, <1>5, <1>6 DEF Next, ClearStep, ClearReads, Elapse, vars

\* No list ever has two running rows.
THEOREM RunningRowsUnique == Spec => []OneRunningPerList
<1>1. Init => OneRunningPerList
  BY DEF Init, OneRunningPerList, RunningRows
<1>2. TypeOK /\ OneRunningPerList /\ [Next]_vars => OneRunningPerList'
  <2> SUFFICES ASSUME TypeOK, OneRunningPerList, [Next]_vars
               PROVE  OneRunningPerList'
    OBVIOUS
  <2>1. ASSUME NEW t \in Tasks, NEW j \in JobIds, InsertRow(t, j)
        PROVE  OneRunningPerList'
    BY <2>1 DEF InsertRow, SetStatus, ListRunning, OneRunningPerList, RunningRows, TypeOK
  <2>2. CASE RunningOnlyLeave
    BY <2>2 DEF RunningOnlyLeave, OneRunningPerList, RunningRows
  <2> QED
    BY <2>1, <2>2, RunningRowsAppear
<1> QED
  BY <1>1, <1>2, TypeCorrect, PTL DEF Spec

(***************************************************************************)
(* The submit lock                                                         *)
(***************************************************************************)

\* A task that was submitted has a process and a list.
Placed == \A t \in Tasks : submitter[t] # "idle" => proc[t] \in Procs /\ list[t] \in Lists

\* Only Request sets the process and the list of a task, and it sets both.
LEMMA PlacedNext == TypeOK /\ Placed /\ [Next]_vars => Placed'
<1> SUFFICES ASSUME TypeOK, Placed, [Next]_vars
             PROVE  Placed'
  OBVIOUS
<1> USE DEF Placed
<1>1. ASSUME NEW t \in Tasks, TaskStep(t)
      PROVE  Placed'
  <2>1. ASSUME NEW p \in Procs, NEW l \in Lists, Request(t, p, l)
        PROVE  Placed'
    BY <2>1 DEF Request, SubmitterStep, TypeOK
  <2>2. CASE SubmitStep(t)
    <3>1. /\ UNCHANGED <<proc, list>>
          /\ \E from \in Submitting : \E to \in SubmitterPoints : SubmitterStep(t, from, to)
      BY <2>2 DEF SubmitStep, AcquireSubmitLock, CheckRunning, InsertRow,
         InsertFails, RegisterStopEvent, StartMonitor, Enqueue, Attach, callVars, Submitting,
         SubmitterPoints
    <3> QED
      BY <3>1 DEF SubmitterStep, Submitting, TypeOK
  <2>3. CASE ExecuteStep(t) \/ ImportItem(t) \/ WatchStep(t)
    BY <2>3 DEF ExecuteStep, Begin, FinishImport, Decide, MarkCompleted,
       MarkTimeout, MarkFailed, Mark, UpdateLastRun, Cleanup, ImportItem,
       WatchStep, MonitorWakes, MonitorFires, callVars
  <2> QED
    BY <2>1, <2>2, <2>3, <1>1 DEF TaskStep
<1>2. ASSUME NEW p \in Procs, Crash(p)
      PROVE  Placed'
  BY <1>2 DEF Crash, callVars, Submitting
<1>3. ASSUME NEW p \in Procs, StartTask(p) \/ BootStep(p) \/ RecoverSkipped(p)
      PROVE  Placed'
  BY <1>3 DEF StartTask, BootStep, Boot, Recover, RecoverSkipped, callVars
<1>4. ASSUME NEW c \in Clearers, ClearStep(c)
      PROVE  Placed'
  BY <1>4 DEF ClearStep, ClearReads, ClearDeletes, callVars
<1> QED
  BY <1>1, <1>2, <1>3, <1>4 DEF Next, ProcStep, Elapse, vars, callVars

\* The steps that do not touch the lock leave its holder where it is.
LEMMA LockUntouched ==
  ASSUME SubmitLockIsHeldInside, UNCHANGED <<submitLock, proc>>,
         \A t \in Tasks : submitter'[t] \in InLock <=> submitter[t] \in InLock
  PROVE  SubmitLockIsHeldInside'
  BY DEF SubmitLockIsHeldInside

\* A submitter takes the lock on its way in and gives it back on every way out
\* of the critical section.
LEMMA LockSubmit ==
  ASSUME TypeOK, Placed, SubmitLockIsHeldInside, NEW t \in Tasks, SubmitStep(t)
  PROVE  SubmitLockIsHeldInside'
<1> USE DEF TypeOK, Placed, SubmitLockIsHeldInside, SubmitterStep,
            ReleaseSubmitLock, InLock, callVars, sharedVars
<1>1. CASE AcquireSubmitLock(t)
  BY <1>1 DEF AcquireSubmitLock
<1>2. CASE CheckRunning(t)
  BY <1>2 DEF CheckRunning
<1>3. ASSUME NEW j \in JobIds, InsertRow(t, j)
      PROVE  SubmitLockIsHeldInside'
  BY <1>3 DEF InsertRow
<1>4. CASE InsertFails(t)
  BY <1>4 DEF InsertFails
<1>5. CASE RegisterStopEvent(t) \/ StartMonitor(t) \/ Enqueue(t) \/ Attach(t)
  BY <1>5 DEF RegisterStopEvent, StartMonitor, Enqueue, Attach
<1> QED
  BY <1>1, <1>2, <1>3, <1>4, <1>5 DEF SubmitStep

\* Every step keeps the lock with the one thread that is inside; a crash frees
\* the lock and kills that thread.
LEMMA LockNext ==
  TypeOK /\ Placed /\ SubmitLockIsHeldInside /\ [Next]_vars => SubmitLockIsHeldInside'
<1> SUFFICES ASSUME TypeOK, Placed, SubmitLockIsHeldInside, [Next]_vars
             PROVE  SubmitLockIsHeldInside'
  OBVIOUS
<1>1. ASSUME NEW t \in Tasks, TaskStep(t)
      PROVE  SubmitLockIsHeldInside'
  <2>1. ASSUME NEW p \in Procs, NEW l \in Lists, Request(t, p, l)
        PROVE  SubmitLockIsHeldInside'
    BY <2>1 DEF Request, SubmitLockIsHeldInside, SubmitterStep, InLock, TypeOK, sharedVars
  <2>2. CASE ExecuteStep(t) \/ ImportItem(t) \/ WatchStep(t)
    BY <2>2, LockUntouched DEF ExecuteStep, Begin, FinishImport, Decide,
       MarkCompleted, MarkTimeout, MarkFailed, Mark, UpdateLastRun, Cleanup,
       ImportItem, WatchStep, MonitorWakes, MonitorFires, callVars, sharedVars
  <2> QED
    BY <2>1, <2>2, <1>1, LockSubmit DEF TaskStep
<1>2. ASSUME NEW p \in Procs, Crash(p)
      PROVE  SubmitLockIsHeldInside'
  BY <1>2 DEF Crash, SubmitLockIsHeldInside, callVars, Submitting, InLock, TypeOK
<1>3. ASSUME NEW p \in Procs, StartTask(p) \/ BootStep(p) \/ RecoverSkipped(p)
      PROVE  SubmitLockIsHeldInside'
  BY <1>3, LockUntouched DEF StartTask, BootStep, Boot, Recover, RecoverSkipped,
     callVars, sharedVars
<1>4. ASSUME NEW c \in Clearers, ClearStep(c)
      PROVE  SubmitLockIsHeldInside'
  BY <1>4, LockUntouched DEF ClearStep, ClearReads, ClearDeletes, callVars, sharedVars
<1> QED
  BY <1>1, <1>2, <1>3, <1>4, LockUntouched
     DEF Next, ProcStep, Elapse, vars, callVars, sharedVars

\* The submit lock of a process is held exactly between check and commit.
THEOREM SubmitLockHeld == Spec => []SubmitLockIsHeldInside
<1>1. Init => Placed /\ SubmitLockIsHeldInside
  BY DEF Init, Placed, SubmitLockIsHeldInside, InLock
<1> QED
  BY <1>1, PlacedNext, LockNext, TypeCorrect, PTL DEF Spec

(***************************************************************************)
(* Life of a task                                                          *)
(***************************************************************************)

LiveWorker == Executing \cup {"queued", "done"}

\* The worker thread of a task lives only after the executor accepted it.
SubmittedFirst ==
    \A t \in Tasks : worker[t] \in LiveWorker => submitter[t] \in {"attach", "returned"}

\* Threads live in processes that serve.
WorkingInUp ==
    \A t \in Tasks :
        submitter[t] \in Submitting \/ worker[t] \in LiveWorker => procState[proc[t]] = "up"

Life == SubmittedFirst /\ WorkingInUp

\* How a step of submit_job moves the threads of its task.
SubmitMove(t) ==
    /\ \E from \in Submitting, to \in SubmitterPoints :
          /\ SubmitterStep(t, from, to)
          /\ from = "attach" => to = "returned"
          /\ to \in Submitting \/ to \in {"returned", "rejected", "error"}
    /\ \/ UNCHANGED worker
       \/ /\ SubmitterStep(t, "enqueue", "attach")
          /\ WorkerStep(t, "none", "queued")
    /\ UNCHANGED <<procState, proc>>

\* How a submitter moves: on within a call, or out of it; it queues the work of
\* its own task at most.
LEMMA SubmitMoves ==
  ASSUME NEW t \in Tasks, SubmitStep(t)
  PROVE  SubmitMove(t)
<1> USE DEF SubmitMove, Submitting, SubmitterPoints, SubmitterStep, callVars, procVars
<1>1. CASE AcquireSubmitLock(t)
  BY <1>1 DEF AcquireSubmitLock
<1>2. CASE CheckRunning(t)
  BY <1>2 DEF CheckRunning
<1>3. ASSUME NEW j \in JobIds, InsertRow(t, j)
      PROVE  SubmitMove(t)
  BY <1>3 DEF InsertRow
<1>4. CASE InsertFails(t)
  BY <1>4 DEF InsertFails
<1>5. CASE RegisterStopEvent(t)
  BY <1>5 DEF RegisterStopEvent
<1>6. CASE StartMonitor(t)
  BY <1>6 DEF StartMonitor
<1>7. CASE Enqueue(t)
  BY <1>7 DEF Enqueue
<1>8. CASE Attach(t)
  BY <1>8 DEF Attach
<1> QED
  BY <1>1, <1>2, <1>3, <1>4, <1>5, <1>6, <1>7, <1>8 DEF SubmitStep

\* A submitter's step keeps its task where a live process can see it.
LEMMA LifeSubmit ==
  ASSUME TypeOK, Life, NEW t \in Tasks, SubmitStep(t)
  PROVE  Life'
<1>1. SubmitMove(t)
  BY SubmitMoves
<1> USE DEF TypeOK, Life, SubmittedFirst, WorkingInUp, SubmitterStep, WorkerStep, LiveWorker, Executing
<1>2. submitter[t] \in Submitting /\ procState[proc[t]] = "up"
  BY <1>1 DEF SubmitMove
<1>3. SubmittedFirst'
  BY <1>1 DEF SubmitMove, Submitting
<1>4. WorkingInUp'
  BY <1>1, <1>2 DEF SubmitMove, Submitting
<1> QED
  BY <1>3, <1>4

\* So does a step of a worker thread or a monitor.
LEMMA LifeExecute ==
  ASSUME TypeOK, Life, NEW t \in Tasks, ExecuteStep(t)
  PROVE  Life'
<1>1. /\ worker[t] \in LiveWorker
      /\ \E to \in LiveWorker \cup {"cleaned"} : worker' = [worker EXCEPT ![t] = to]
      /\ UNCHANGED <<submitter, proc, procState>>
  BY DEF ExecuteStep, Begin, FinishImport, Decide, MarkCompleted, MarkTimeout,
     MarkFailed, Mark, UpdateLastRun, Cleanup, WorkerStep, LiveWorker, Executing,
     callVars, procVars
<1> QED
  BY <1>1 DEF Life, SubmittedFirst, WorkingInUp, TypeOK, LiveWorker, Executing

\* Every step does; a crash kills all that worked in the process.
LEMMA LifeNext == TypeOK /\ Placed /\ Life /\ [Next]_vars => Life'
<1> SUFFICES ASSUME TypeOK, Placed, Life, [Next]_vars
             PROVE  Life'
  OBVIOUS
<1> USE DEF TypeOK, Life, SubmittedFirst, WorkingInUp
<1>1. ASSUME NEW t \in Tasks, TaskStep(t)
      PROVE  Life'
  <2>1. ASSUME NEW p \in Procs, NEW l \in Lists, Request(t, p, l)
        PROVE  Life'
    BY <2>1 DEF Request, SubmitterStep, procVars
  <2>2. CASE ImportItem(t) \/ WatchStep(t)
    BY <2>2 DEF ImportItem, WatchStep, MonitorWakes, MonitorFires, callVars, procVars
  <2> QED
    BY <2>1, <2>2, <1>1, LifeSubmit, LifeExecute DEF TaskStep
<1>2. ASSUME NEW p \in Procs, Crash(p)
      PROVE  Life'
  BY <1>2 DEF Crash, callVars, Submitting, LiveWorker, Executing
<1>3. ASSUME NEW p \in Procs, StartTask(p)
      PROVE  Life'
  <2> DEFINE t == Head(queue[p])
  <2>1. t \in Tasks
    BY <1>3 DEF StartTask
  <2> QED
    BY <2>1, <1>3 DEF StartTask, WorkerStep, LiveWorker, Executing, callVars, procVars
<1>4. ASSUME NEW p \in Procs, BootStep(p) \/ RecoverSkipped(p)
      PROVE  Life'
  <2>1. /\ procState[p] # "up"
        /\ \E s \in {"down", "recovering", "up"} : procState' = [procState EXCEPT ![p] = s]
        /\ UNCHANGED <<submitter, worker, proc>>
    BY <1>4 DEF BootStep, Boot, Recover, RecoverSkipped, callVars
  <2> QED
    BY <2>1
<1>5. ASSUME NEW c \in Clearers, ClearStep(c)
      PROVE  Life'
  BY <1>5 DEF ClearStep, ClearReads, ClearDeletes, callVars, procVars
<1> QED
  BY <1>1, <1>2, <1>3, <1>4, <1>5 DEF Next, ProcStep, Elapse, vars, callVars, procVars

\* A worker thread exists only for a task that was submitted, and unfinished
\* work lives in a process that serves.
THEOREM LifeInvariant == Spec => [](Placed /\ Life)
<1>1. Init => Placed /\ Life
  BY DEF Init, Placed, Life, SubmittedFirst, WorkingInUp, Submitting, LiveWorker, Executing
<1> QED
  BY <1>1, PlacedNext, LifeNext, TypeCorrect, PTL DEF Spec

(***************************************************************************)
(* Stop events                                                             *)
(***************************************************************************)

\* A task with a job id; a task whose event must be found; a task that will
\* remove its event, or left it behind because no thread could be started.
Keyed(t) == submitter[t] \in {"register", "monitor", "enqueue", "attach", "returned"}
Watched(t) == submitter[t] \in {"monitor", "enqueue"} \/ worker[t] \in LiveWorker
FailedToStart(t) == ThreadMayFail /\ submitter[t] = "error"
Cleans(t) == Watched(t) \/ FailedToStart(t)

KeysKnown == \A t \in Tasks : Keyed(t) => job[t] \in JobIds
AttachedLive == \A t \in Tasks : submitter[t] = "attach" => worker[t] \in LiveWorker

\* What is registered under a job's id in a process is the event of that job's
\* own task, which runs in that process and has its cleanup still to come, or
\* could not start a thread: then nothing will ever remove the event.
EventsHaveCleaners ==
    \A p \in Procs, j \in JobIds, t \in Tasks :
        stopEvents[p][j] = t => proc[t] = p /\ job[t] = j /\ Cleans(t)

Events == KeysKnown /\ AttachedLive /\ EventsHaveCleaners

\* Steps that register and remove nothing and take no cleaner away.
LEMMA EventsQuiet ==
  ASSUME Events, UNCHANGED <<stopEvents, proc, job>>,
         \A t \in Tasks : /\ Keyed(t)' => Keyed(t)
                          /\ Cleans(t) => Cleans(t)'
                          /\ submitter'[t] = "attach" => submitter[t] = "attach"
                          /\ worker[t] \in LiveWorker => worker'[t] \in LiveWorker
  PROVE  Events'
BY DEF Events, KeysKnown, AttachedLive, EventsHaveCleaners

\* A submitter registers the event of its own task, and hands it over to the
\* worker thread.
LEMMA EventsSubmit ==
  ASSUME TypeOK, Placed, Life, Events, NEW t \in Tasks, SubmitStep(t)
  PROVE  Events'
<1> USE DEF TypeOK, SubmitterStep, Keyed, Watched, Cleans, FailedToStart, callVars, sharedVars
<1>1. CASE AcquireSubmitLock(t)
  BY <1>1, EventsQuiet DEF AcquireSubmitLock
<1>2. CASE CheckRunning(t)
  BY <1>2, EventsQuiet DEF CheckRunning
<1>3. ASSUME NEW j \in JobIds, InsertRow(t, j)
      PROVE  Events'
  <2>1. ~Cleans(t)
    BY <1>3 DEF InsertRow, Life, SubmittedFirst
  <2> QED
    BY <2>1, <1>3 DEF InsertRow, Events, KeysKnown, AttachedLive, EventsHaveCleaners
<1>4. CASE InsertFails(t)
  BY <1>4, EventsQuiet DEF InsertFails
<1>5. CASE RegisterStopEvent(t)
  BY <1>5 DEF RegisterStopEvent, Events, KeysKnown, AttachedLive, EventsHaveCleaners
<1>6. CASE StartMonitor(t)
  BY <1>6, EventsQuiet DEF StartMonitor
<1>7. CASE Enqueue(t)
  <2>1. submitter[t] = "enqueue" /\ UNCHANGED <<stopEvents, proc, job>>
    BY <1>7 DEF Enqueue
  <2>2. CASE WorkerStep(t, "none", "queued")
    <3>1. /\ submitter' = [submitter EXCEPT ![t] = "attach"]
          /\ worker' = [worker EXCEPT ![t] = "queued"]
      BY <2>2, <1>7 DEF Enqueue, WorkerStep
    <3>2. KeysKnown' /\ AttachedLive'
      BY <2>1, <3>1 DEF Events, KeysKnown, AttachedLive, LiveWorker
    <3>3. \A u \in Tasks : Cleans(u) => Cleans(u)'
      BY <2>1, <3>1 DEF LiveWorker
    <3> QED
      BY <2>1, <3>2, <3>3 DEF Events, EventsHaveCleaners
  <2>3. CASE ~ WorkerStep(t, "none", "queued")
    <3>1. ThreadMayFail /\ submitter' = [submitter EXCEPT ![t] = "error"] /\ UNCHANGED worker
      BY <2>3, <1>7 DEF Enqueue
    <3>2. KeysKnown' /\ AttachedLive'
      BY <2>1, <3>1 DEF Events, KeysKnown, AttachedLive
    <3>3. \A u \in Tasks : Cleans(u) => Cleans(u)'
      BY <2>1, <3>1
    <3> QED
      BY <2>1, <3>2, <3>3 DEF Events, EventsHaveCleaners
  <2> QED
    BY <2>2, <2>3
<1>8. CASE Attach(t)
  <2>1. worker[t] \in LiveWorker
    BY <1>8 DEF Attach, Events, AttachedLive
  <2> QED
    BY <2>1, <1>8, EventsQuiet DEF Attach
<1> QED
  BY <1>1, <1>2, <1>3, <1>4, <1>5, <1>6, <1>7, <1>8 DEF SubmitStep

\* A worker thread keeps its event until the done callback removes it.
LEMMA EventsExecute ==
  ASSUME TypeOK, Events, NEW t \in Tasks, ExecuteStep(t)
  PROVE  Events'
<1> USE DEF TypeOK, WorkerStep, Keyed, Watched, Cleans, FailedToStart, LiveWorker, Executing, callVars, sharedVars
<1>1. CASE ~Cleanup(t)
  <2>1. /\ \E to \in LiveWorker : worker' = [worker EXCEPT ![t] = to]
        /\ UNCHANGED <<stopEvents, submitter, proc, job>>
    BY <1>1 DEF ExecuteStep, Begin, FinishImport, Decide, MarkCompleted,
       MarkTimeout, MarkFailed, Mark, UpdateLastRun
  <2> QED
    BY <2>1, EventsQuiet
<1>2. CASE Cleanup(t)
  BY <1>2 DEF Cleanup, Events, KeysKnown, AttachedLive, EventsHaveCleaners
<1> QED
  BY <1>1, <1>2

\* So does every step; a crash takes the events and their cleaners together.
LEMMA EventsNext == TypeOK /\ Placed /\ Life /\ Events /\ [Next]_vars => Events'
<1> SUFFICES ASSUME TypeOK, Placed, Life, Events, [Next]_vars
             PROVE  Events'
  OBVIOUS
<1> USE DEF TypeOK, Keyed, Watched, Cleans, FailedToStart, callVars, sharedVars
<1>1. ASSUME NEW t \in Tasks, TaskStep(t)
      PROVE  Events'
  <2>1. ASSUME NEW p \in Procs, NEW l \in Lists, Request(t, p, l)
        PROVE  Events'
    <3>1. ~Cleans(t)
      BY <2>1 DEF Request, SubmitterStep, Life, SubmittedFirst
    <3> QED
      BY <3>1, <2>1 DEF Request, SubmitterStep, Events, KeysKnown, AttachedLive, EventsHaveCleaners
  <2>2. CASE ImportItem(t) \/ WatchStep(t)
    BY <2>2, EventsQuiet DEF ImportItem, WatchStep, MonitorWakes, MonitorFires
  <2> QED
    BY <2>1, <2>2, <1>1, EventsSubmit, EventsExecute DEF TaskStep
<1>2. ASSUME NEW p \in Procs, Crash(p)
      PROVE  Events'
  <2>1. KeysKnown' /\ AttachedLive'
    BY <1>2 DEF Crash, Events, KeysKnown, AttachedLive, Submitting
  <2>2. ASSUME NEW q \in Procs, NEW j \in JobIds, NEW t \in Tasks, stopEvents'[q][j] = t
        PROVE  proc'[t] = q /\ job'[t] = j /\ Cleans(t)'
    <3>1. q # p /\ stopEvents[q][j] = t
      BY <2>2, <1>2 DEF Crash
    <3>2. proc[t] = q /\ job[t] = j /\ Cleans(t)
      <4> HIDE DEF Cleans, TypeOK
      <4> QED
        BY <3>1, ZenonT(30) DEF Events, EventsHaveCleaners
    <3>3. submitter'[t] = submitter[t] /\ worker'[t] = worker[t] /\ UNCHANGED <<proc, job>>
      BY <3>1, <3>2, <1>2 DEF Crash
    <3>4. Cleans(t)'
      BY <3>2, <3>3, ZenonT(30)
    <3> QED
      BY <3>2, <3>3, <3>4
  <2> QED
    BY <2>1, <2>2 DEF Events, EventsHaveCleaners
<1>3. ASSUME NEW p \in Procs, StartTask(p)
      PROVE  Events'
  <2> DEFINE t == Head(queue[p])
  <2>1. t \in Tasks /\ worker[t] = "queued" /\ worker' = [worker EXCEPT ![t] = "begin"]
    BY <1>3 DEF StartTask, WorkerStep
  <2> QED
    BY <2>1, <1>3, EventsQuiet DEF StartTask, LiveWorker, Executing
<1>4. ASSUME NEW p \in Procs, BootStep(p) \/ RecoverSkipped(p)
      PROVE  Events'
  BY <1>4, EventsQuiet DEF BootStep, Boot, Recover, RecoverSkipped
<1>5. ASSUME NEW c \in Clearers, ClearStep(c)
      PROVE  Events'
  BY <1>5, EventsQuiet DEF ClearStep, ClearReads, ClearDeletes
<1> QED
  BY <1>1, <1>2, <1>3, <1>4, <1>5, EventsQuiet DEF Next, ProcStep, Elapse, vars

\* Every behaviour keeps the events in these hands.
LEMMA EventsInvariant == Spec => []Events
<1>1. Init => Events
  BY DEF Init, Events, KeysKnown, AttachedLive, EventsHaveCleaners, Keyed
<1> QED
  BY <1>1, EventsNext, TypeCorrect, LifeInvariant, PTL DEF Spec

EventsAreWatched ==
    \A p \in Procs, j \in JobIds, t \in Tasks :
        stopEvents[p][j] = t => proc[t] = p /\ job[t] = j /\ Watched(t)

\* While threads can be started, no event is left behind in _stop_events:
\* whatever processes, database faults, crashes and clearing requests do, the
\* task of a registered event is live in that process and its done callback,
\* which removes the event, is still to come.
THEOREM EventsAreCleaned ==
  ASSUME ThreadMayFail = FALSE
  PROVE  Spec => []EventsAreWatched
<1>1. Events => EventsAreWatched
  BY DEF Events, EventsHaveCleaners, EventsAreWatched, Cleans, FailedToStart
<1> QED
  BY <1>1, EventsInvariant, PTL

\* A failed start of the monitor or of the job is the only way to leave one:
\* the task of any other event is live, under all faults.
THEOREM OnlyFailedStartsLeak ==
  Spec => [](\A p \in Procs, j \in JobIds, t \in Tasks :
                stopEvents[p][j] = t /\ submitter[t] # "error" => Watched(t))
<1>1. Events => \A p \in Procs, j \in JobIds, t \in Tasks :
                   stopEvents[p][j] = t /\ submitter[t] # "error" => Watched(t)
  BY DEF Events, EventsHaveCleaners, Cleans, FailedToStart
<1> QED
  BY <1>1, EventsInvariant, PTL

\* No submission gets a key that another one got before.  SQLite guarantees it
\* as long as the newest row is not deleted.
KeysNew == \A t, u \in Tasks : job'[t] # job[t] => job'[t] # job[u]

KeysDistinct == \A t, u \in Tasks : job[t] \in JobIds /\ job[t] = job[u] => t = u
Registered == \A t \in Tasks : Watched(t) => stopEvents[proc[t]][job[t]] = t

\* Only InsertRow gives a task its key.
LEMMA KeyByInsert ==
  ASSUME [Next]_vars, NEW t \in Tasks, job'[t] # job[t]
  PROVE  \E u \in Tasks, j \in JobIds : InsertRow(u, j)
<1> USE DEF callVars
<1>1. ASSUME NEW u \in Tasks, TaskStep(u)
      PROVE  \E v \in Tasks, j \in JobIds : InsertRow(v, j)
  BY <1>1 DEF TaskStep, Request, SubmitStep, AcquireSubmitLock, CheckRunning,
     InsertFails, RegisterStopEvent, StartMonitor, Enqueue, Attach,
     ExecuteStep, Begin, FinishImport, Decide, MarkCompleted, MarkTimeout,
     MarkFailed, Mark, UpdateLastRun, Cleanup, ImportItem, WatchStep,
     MonitorWakes, MonitorFires
<1>2. ASSUME NEW p \in Procs, ProcStep(p)
      PROVE  FALSE
  BY <1>2 DEF ProcStep, StartTask, BootStep, Boot, Recover, RecoverSkipped, Crash
<1>3. ASSUME NEW c \in Clearers, ClearStep(c)
      PROVE  FALSE
  BY <1>3 DEF ClearStep, ClearReads, ClearDeletes
<1> QED
  BY <1>1, <1>2, <1>3 DEF Next, Elapse, vars

\* Then keys stay distinct.
LEMMA DistinctNext == TypeOK /\ KeysDistinct /\ KeysNew /\ [Next]_vars => KeysDistinct'
<1> SUFFICES ASSUME TypeOK, KeysDistinct, KeysNew, [Next]_vars
             PROVE  KeysDistinct'
  OBVIOUS
<1>1. CASE UNCHANGED job
  BY <1>1 DEF KeysDistinct
<1>2. ASSUME NEW t \in Tasks, NEW j \in JobIds, InsertRow(t, j)
      PROVE  KeysDistinct'
  BY <1>2 DEF InsertRow, KeysNew, KeysDistinct, TypeOK
<1>3. CASE job' # job /\ \A t \in Tasks, j \in JobIds : ~InsertRow(t, j)
  <2>1. \A t \in Tasks : job'[t] = job[t]
    BY <1>3, KeyByInsert
  <2> QED
    BY <2>1 DEF KeysDistinct
<1> QED
  BY <1>1, <1>2, <1>3

\* Steps that register and remove nothing and give nobody an event to find.
LEMMA RegisteredQuiet ==
  ASSUME Registered, UNCHANGED <<stopEvents, proc, job>>,
         \A t \in Tasks : Watched(t)' => Watched(t)
  PROVE  Registered'
BY DEF Registered

\* With keys of their own no task overwrites or removes another one's event.
LEMMA RegisteredNext ==
  /\ TypeOK /\ Placed /\ Life /\ Events /\ KeysDistinct /\ Registered /\ [Next]_vars
  => Registered'
<1> SUFFICES ASSUME TypeOK, Placed, Life, Events, KeysDistinct, Registered, [Next]_vars
             PROVE  Registered'
  OBVIOUS
<1> USE DEF TypeOK, Watched, callVars, sharedVars
<1>1. ASSUME NEW t \in Tasks, SubmitStep(t)
      PROVE  Registered'
  <2> USE DEF SubmitterStep
  <2>1. CASE AcquireSubmitLock(t) \/ CheckRunning(t) \/ InsertFails(t)
    BY <2>1, RegisteredQuiet DEF AcquireSubmitLock, CheckRunning, InsertFails
  <2>2. ASSUME NEW j \in JobIds, InsertRow(t, j)
        PROVE  Registered'
    <3>1. ~Watched(t) /\ ~Watched(t)'
      BY <2>2 DEF InsertRow, Life, SubmittedFirst
    <3> QED
      BY <3>1, <2>2 DEF InsertRow, Registered
  <2>3. CASE RegisterStopEvent(t)
    <3>1. submitter[t] = "register" /\ job[t] \in JobIds /\ proc[t] \in Procs
      BY <2>3 DEF RegisterStopEvent, Events, KeysKnown, Keyed, Placed
    <3>2. ASSUME NEW u \in Tasks, u # t, Watched(u)
          PROVE  stopEvents'[proc[u]][job[u]] = u
      <4>1. job[u] # job[t]
        BY <3>1, <3>2 DEF KeysDistinct
      <4>2. submitter[u] # "idle"
        BY <3>2 DEF Life, SubmittedFirst
      <4> QED
        BY <3>1, <3>2, <4>1, <4>2, <2>3 DEF RegisterStopEvent, Registered, Placed
    <3>3. stopEvents'[proc[t]][job[t]] = t
      BY <3>1, <2>3 DEF RegisterStopEvent
    <3> QED
      BY <3>2, <3>3, <2>3 DEF RegisterStopEvent, Registered
  <2>4. CASE StartMonitor(t) \/ Attach(t)
    BY <2>4, RegisteredQuiet DEF StartMonitor, Attach
  <2>5. CASE Enqueue(t)
    BY <2>5, RegisteredQuiet DEF Enqueue, WorkerStep
  <2> QED
    BY <1>1, <2>1, <2>2, <2>3, <2>4, <2>5 DEF SubmitStep
<1>2. ASSUME NEW t \in Tasks, ExecuteStep(t)
      PROVE  Registered'
  <2> USE DEF WorkerStep, LiveWorker, Executing
  <2>1. CASE ~Cleanup(t)
    <3>1. /\ worker[t] \in LiveWorker
          /\ \E to \in LiveWorker : worker' = [worker EXCEPT ![t] = to]
          /\ UNCHANGED <<stopEvents, submitter, proc, job>>
      BY <2>1, <1>2 DEF ExecuteStep, Begin, FinishImport, Decide, MarkCompleted,
         MarkTimeout, MarkFailed, Mark, UpdateLastRun
    <3> QED
      BY <3>1, RegisteredQuiet
  <2>2. CASE Cleanup(t)
    <3>1. submitter[t] = "returned" /\ job[t] \in JobIds /\ proc[t] \in Procs
      BY <2>2 DEF Cleanup, Events, KeysKnown, Keyed, Placed
    <3>2. ASSUME NEW u \in Tasks, Watched(u)'
          PROVE  stopEvents'[proc[u]][job[u]] = u
      <4>1. Watched(u) /\ u # t
        BY <3>1, <3>2, <2>2 DEF Cleanup
      <4>2. job[u] # job[t]
        BY <3>1, <4>1 DEF KeysDistinct
      <4>3. submitter[u] # "idle"
        BY <4>1 DEF Life, SubmittedFirst
      <4> QED
        BY <3>1, <4>1, <4>2, <4>3, <2>2 DEF Cleanup, Registered, Placed
    <3> QED
      BY <3>2, <2>2 DEF Cleanup, Registered
  <2> QED
    BY <2>1, <2>2
<1>3. ASSUME NEW t \in Tasks, NEW p \in Procs, NEW l \in Lists, Request(t, p, l)
      PROVE  Registered'
  <2>1. ~Watched(t) /\ ~Watched(t)'
    BY <1>3 DEF Request, SubmitterStep, Life, SubmittedFirst
  <2> QED
    BY <2>1, <1>3 DEF Request, SubmitterStep, Registered
<1>4. ASSUME NEW t \in Tasks, ImportItem(t) \/ WatchStep(t)
      PROVE  Registered'
  BY <1>4, RegisteredQuiet DEF ImportItem, WatchStep, MonitorWakes, MonitorFires
<1>5. ASSUME NEW p \in Procs, Crash(p)
      PROVE  Registered'
  <2>1. ASSUME NEW t \in Tasks, Watched(t)'
        PROVE  stopEvents'[proc[t]][job[t]] = t
    <3>1. Watched(t) /\ proc[t] # p
      BY <2>1, <1>5 DEF Crash, LiveWorker, Executing, Submitting
    <3>2. proc[t] \in Procs
      BY <3>1 DEF Life, SubmittedFirst, Placed
    <3> QED
      BY <3>1, <3>2, <1>5 DEF Crash, Registered
  <2> QED
    BY <2>1, <1>5 DEF Crash, Registered
<1>6. ASSUME NEW p \in Procs, StartTask(p)
      PROVE  Registered'
  <2> DEFINE t == Head(queue[p])
  <2>1. t \in Tasks /\ worker[t] = "queued" /\ worker' = [worker EXCEPT ![t] = "begin"]
    BY <1>6 DEF StartTask, WorkerStep
  <2> QED
    BY <2>1, <1>6, RegisteredQuiet DEF StartTask, LiveWorker, Executing
<1>7. ASSUME NEW p \in Procs, BootStep(p) \/ RecoverSkipped(p)
      PROVE  Registered'
  BY <1>7, RegisteredQuiet DEF BootStep, Boot, Recover, RecoverSkipped
<1>8. ASSUME NEW c \in Clearers, ClearStep(c)
      PROVE  Registered'
  BY <1>8, RegisteredQuiet DEF ClearStep, ClearReads, ClearDeletes
<1> QED
  BY <1>1, <1>2, <1>3, <1>4, <1>5, <1>6, <1>7, <1>8, RegisteredQuiet
     DEF Next, TaskStep, ProcStep, Elapse, vars

\* Where no key is given out twice, the idle monitor of a queued or executing
\* job finds the event that the job watches: in any number of processes, through
\* faults, crashes and clearing requests.
THEOREM StopEventsReachable == Spec /\ [][KeysNew]_vars => []StopEventReachable
<1>1. Init => KeysDistinct /\ Registered
  BY DEF Init, KeysDistinct, Registered, Watched, LiveWorker, Executing, JobIds
<1>2. Registered => StopEventReachable
  BY DEF Registered, StopEventReachable, Watched, LiveWorker, Executing
<1>3. KeysDistinct /\ UNCHANGED vars => KeysDistinct'
  BY DEF KeysDistinct, vars, callVars
<1> QED
  BY <1>1, <1>2, <1>3, DistinctNext, RegisteredNext, EventsInvariant, TypeCorrect,
     LifeInvariant, PTL DEF Spec

\* A monitor that fires stops no job but its own.
MonitorsStopTheirOwn ==
    [][\A t, u \in Tasks : MonitorFires(t) /\ stopped'[u] # stopped[u] => u = t]_vars

\* A monitor belongs to a task with a process and a key.
MonitorsKeyed == \A t \in Tasks : monitor[t] # "none" => proc[t] \in Procs /\ job[t] \in JobIds

\* It is started after the INSERT, and both stay.
LEMMA MonitorsKeyedNext ==
  TypeOK /\ Placed /\ Events /\ MonitorsKeyed /\ [Next]_vars => MonitorsKeyed'
<1> SUFFICES ASSUME TypeOK, Placed, Events, MonitorsKeyed, [Next]_vars
             PROVE  MonitorsKeyed'
  OBVIOUS
<1> USE DEF TypeOK, MonitorsKeyed, callVars
<1>1. ASSUME NEW t \in Tasks, StartMonitor(t)
      PROVE  MonitorsKeyed'
  <2>1. proc[t] \in Procs /\ job[t] \in JobIds
    BY <1>1 DEF StartMonitor, SubmitterStep, Placed, Events, KeysKnown, Keyed
  <2> QED
    BY <1>1, <2>1 DEF StartMonitor, MonitorStep
<1>2. CASE UNCHANGED <<monitor, callVars>>
  BY <1>2
<1>3. ASSUME NEW t \in Tasks, NEW p \in Procs, NEW l \in Lists, Request(t, p, l)
      PROVE  MonitorsKeyed'
  BY <1>3 DEF Request
<1>4. ASSUME NEW t \in Tasks, NEW j \in JobIds, InsertRow(t, j)
      PROVE  MonitorsKeyed'
  BY <1>4 DEF InsertRow
<1>5. ASSUME NEW t \in Tasks, WatchStep(t)
      PROVE  MonitorsKeyed'
  <2>1. UNCHANGED callVars /\ \A u \in Tasks : monitor'[u] # "none" => monitor[u] # "none"
    BY <1>5 DEF WatchStep, MonitorWakes, MonitorFires, MonitorStep
  <2> QED
    BY <2>1
<1>6. ASSUME NEW t \in Tasks, TaskStep(t)
      PROVE  MonitorsKeyed'
  <2>1. CASE SubmitStep(t)
    BY <2>1, <1>1, <1>2, <1>4 DEF SubmitStep, AcquireSubmitLock, CheckRunning,
       InsertFails, RegisterStopEvent, Enqueue, Attach
  <2>2. CASE ExecuteStep(t) \/ ImportItem(t)
    BY <2>2, <1>2 DEF ExecuteStep, Begin, FinishImport, Decide, MarkCompleted,
       MarkTimeout, MarkFailed, Mark, UpdateLastRun, Cleanup, ImportItem
  <2> QED
    BY <2>1, <2>2, <1>3, <1>5, <1>6 DEF TaskStep
<1>7. ASSUME NEW p \in Procs, Crash(p)
      PROVE  MonitorsKeyed'
  BY <1>7 DEF Crash
<1>8. ASSUME NEW p \in Procs, ProcStep(p), ~Crash(p)
      PROVE  MonitorsKeyed'
  BY <1>8, <1>2 DEF ProcStep, BootStep, StartTask, Boot, Recover, RecoverSkipped
<1>9. ASSUME NEW c \in Clearers, ClearStep(c)
      PROVE  MonitorsKeyed'
  BY <1>9, <1>2 DEF ClearStep, ClearReads, ClearDeletes
<1> QED
  BY <1>2, <1>6, <1>7, <1>8, <1>9 DEF Next, Elapse, vars

\* Where no key is given out twice, an idle monitor never stops the job of another
\* task: not when it fires after its own job has ended, not in a process that
\* was restarted.
THEOREM MonitorsStopOwnJobs == Spec /\ [][KeysNew]_vars => MonitorsStopTheirOwn
<1> DEFINE Own == \A t, u \in Tasks : MonitorFires(t) /\ stopped'[u] # stopped[u] => u = t
<1>1. Init => KeysDistinct /\ MonitorsKeyed
  BY DEF Init, KeysDistinct, MonitorsKeyed, JobIds
<1>2. UNCHANGED vars => KeysNew /\ (KeysDistinct => KeysDistinct')
  BY DEF vars, callVars, KeysNew, KeysDistinct
<1>3. TypeOK /\ Events /\ MonitorsKeyed /\ KeysDistinct => Own
  <2> SUFFICES ASSUME TypeOK, Events, MonitorsKeyed, KeysDistinct, NEW t \in Tasks, NEW u \in Tasks,
                      MonitorFires(t), stopped'[u] # stopped[u]
               PROVE  u = t
    OBVIOUS
  <2>1. monitor[t] = "firing" /\ stopEvents[proc[t]][job[t]] = u
    BY DEF MonitorFires, MonitorStep, TypeOK
  <2>2. proc[t] \in Procs /\ job[t] \in JobIds
    BY <2>1 DEF MonitorsKeyed
  <2>3. job[u] = job[t]
    BY <2>1, <2>2 DEF Events, EventsHaveCleaners
  <2> QED
    BY <2>2, <2>3 DEF KeysDistinct
<1> QED
  BY <1>1, <1>2, <1>3, DistinctNext, MonitorsKeyedNext, EventsInvariant,
     TypeCorrect, LifeInvariant, PTL DEF Spec, MonitorsStopTheirOwn

\* The newest row is not deleted.
NewestKept == \A j \in Rows : (\A i \in Rows : i <= j) => jobStatus'[j] # "none"

\* The newest row, or 0 for an empty table, bounds all keys given out so far.
Newest(h) ==
    /\ h = 0 \/ h \in Rows
    /\ \A i \in Rows : i <= h
    /\ \A t \in Tasks : job[t] <= h
NewestBounds == \E h \in JobIds \cup {0} : Newest(h)

\* Only InsertRow adds a row.
LEMMA RowsAppear ==
  ASSUME TypeOK, [Next]_vars, \A t \in Tasks, j \in JobIds : ~InsertRow(t, j)
  PROVE  Rows' \subseteq Rows
<1> USE DEF Rows
<1>1. CASE UNCHANGED tableVars
  BY <1>1 DEF tableVars
<1>2. ASSUME NEW t \in Tasks, NEW from, NEW s, NEW next, NEW raised,
             Mark(t, from, s, next, raised)
      PROVE  Rows' \subseteq Rows
  BY <1>2 DEF Mark, WriteStatus, SetStatus, TypeOK
<1>3. ASSUME NEW p \in Procs, Recover(p)
      PROVE  Rows' \subseteq Rows
  BY <1>3 DEF Recover
<1>4. ASSUME NEW c \in Clearers, ClearDeletes(c)
      PROVE  Rows' \subseteq Rows
  BY <1>4 DEF ClearDeletes
<1>5. ASSUME NEW t \in Tasks, TaskStep(t)
      PROVE  Rows' \subseteq Rows
  <2>1. CASE SubmitStep(t)
    BY <2>1, <1>1 DEF SubmitStep, AcquireSubmitLock, CheckRunning, InsertFails,
       RegisterStopEvent, StartMonitor, Enqueue, Attach
  <2>2. CASE ExecuteStep(t)
    BY <2>2, <1>1, <1>2 DEF ExecuteStep, Begin, FinishImport, Decide,
       MarkCompleted, MarkTimeout, MarkFailed, UpdateLastRun, Cleanup
  <2> QED
    BY <2>1, <2>2, <1>1, <1>5 DEF TaskStep, Request, ImportItem, WatchStep,
       MonitorWakes, MonitorFires
<1>6. ASSUME NEW p \in Procs, ProcStep(p)
      PROVE  Rows' \subseteq Rows
  BY <1>6, <1>1, <1>3 DEF ProcStep, BootStep, StartTask, Boot, RecoverSkipped, Crash
<1> QED
  BY <1>1, <1>4, <1>5, <1>6 DEF Next, ClearStep, ClearReads, Elapse, vars

\* While the newest row is kept, a new key is higher than all earlier ones.
LEMMA NewestNext ==
  TypeOK /\ NewestBounds /\ NewestKept /\ [Next]_vars => NewestBounds' /\ KeysNew
<1> SUFFICES ASSUME TypeOK, NewestKept, [Next]_vars,
                    NEW h \in JobIds \cup {0}, Newest(h)
             PROVE  NewestBounds' /\ KeysNew
  BY DEF NewestBounds
<1> USE DEF TypeOK, JobIds
<1>1. ASSUME NEW t \in Tasks, NEW j \in JobIds, InsertRow(t, j)
      PROVE  NewestBounds' /\ KeysNew
  <2>1. h < j
    BY <1>1 DEF Newest, InsertRow, IsNextId
  <2>2. job' = [job EXCEPT ![t] = j] /\ jobStatus' = [jobStatus EXCEPT ![j] = "running"]
    BY <1>1 DEF InsertRow, SetStatus
  <2>3. \A u \in Tasks : job[u] < j
    BY <2>1 DEF Newest
  <2>4. KeysNew
    BY <2>2, <2>3 DEF KeysNew
  <2>5. j \in Rows' /\ \A i \in Rows' : i <= j
    BY <2>1, <2>2 DEF Rows, Newest
  <2>6. \A u \in Tasks : job'[u] <= j
    BY <2>2, <2>3
  <2> QED
    BY <2>4, <2>5, <2>6 DEF NewestBounds, Newest
<1>2. CASE \A t \in Tasks, j \in JobIds : ~InsertRow(t, j)
  <2>1. \A t \in Tasks : job'[t] = job[t]
    BY <1>2, KeyByInsert
  <2>2. Rows' \subseteq Rows
    BY <1>2, RowsAppear
  <2>3. h = 0 \/ h \in Rows'
    BY DEF Newest, NewestKept, Rows
  <2>4. Newest(h)'
    BY <2>1, <2>2, <2>3 DEF Newest
  <2> QED
    BY <2>1, <2>4 DEF NewestBounds, KeysNew
<1> QED
  BY <1>1, <1>2

LEMMA NewestKeptNewKeys == Spec /\ [][NewestKept]_vars => [][KeysNew]_vars
<1>1. Init => NewestBounds
  BY DEF Init, NewestBounds, Newest, Rows, JobIds
<1>2. UNCHANGED vars => KeysNew /\ NewestKept
  BY DEF vars, callVars, tableVars, KeysNew, NewestKept, Rows
<1> QED
  BY <1>1, <1>2, NewestNext, TypeCorrect, PTL DEF Spec

\* As long as no request deletes the newest row of the history, every idle
\* monitor finds the event of its own job, and stops no other.
THEOREM NewestKeptSuffices ==
  Spec /\ [][NewestKept]_vars => []StopEventReachable /\ MonitorsStopTheirOwn
BY NewestKeptNewKeys, StopEventsReachable, MonitorsStopOwnJobs, PTL

(***************************************************************************)
(* The work queues                                                         *)
(***************************************************************************)

\* The queue of a process holds the queued tasks of that process, each once.
HoldsQueued(p) ==
    \A i \in 1..Len(queue[p]) :
        /\ proc[queue[p][i]] = p /\ worker[queue[p][i]] = "queued"
        /\ \A k \in 1..Len(queue[p]) : queue[p][k] = queue[p][i] => k = i
IsQueued(t) == proc[t] \in Procs /\ \E i \in 1..Len(queue[proc[t]]) : queue[proc[t]][i] = t

QueuesExact ==
    /\ \A p \in Procs : HoldsQueued(p)
    /\ \A t \in Tasks : worker[t] = "queued" => IsQueued(t)

\* A queue that is left alone holds what it held if its tasks stay queued.
LEMMA QueueKept ==
  ASSUME NEW p \in Procs, HoldsQueued(p), queue'[p] = queue[p],
         \A i \in 1..Len(queue[p]) : /\ proc'[queue[p][i]] = proc[queue[p][i]]
                                     /\ worker'[queue[p][i]] = worker[queue[p][i]]
  PROVE  HoldsQueued(p)'
BY DEF HoldsQueued

\* Who waits in a queue that is left alone still waits there.
LEMMA StaysQueued ==
  ASSUME NEW t \in Tasks, IsQueued(t), proc'[t] = proc[t], queue'[proc[t]] = queue[proc[t]]
  PROVE  IsQueued(t)'
BY DEF IsQueued

\* Steps that queue and start nothing.
LEMMA QueuesQuiet ==
  ASSUME TypeOK, QueuesExact, UNCHANGED <<queue, proc>>,
         \A t \in Tasks : worker'[t] = "queued" <=> worker[t] = "queued"
  PROVE  QueuesExact'
<1>1. \A p \in Procs : \A i \in 1..Len(queue[p]) : queue[p][i] \in Tasks
  BY DEF TypeOK
<1> QED
  BY <1>1 DEF QueuesExact, HoldsQueued, IsQueued

\* The executor queues a task once, at the end.
LEMMA QueuesEnqueue ==
  ASSUME TypeOK, Placed, QueuesExact, NEW t \in Tasks, Enqueue(t)
  PROVE  QueuesExact'
<1> USE DEF TypeOK, callVars
<1>1. CASE ~WorkerStep(t, "none", "queued")
  BY <1>1, QueuesQuiet DEF Enqueue
<1>2. CASE WorkerStep(t, "none", "queued")
  <2> DEFINE p == proc[t]
             q == queue[p]
  <2>1. p \in Procs /\ q \in Seq(Tasks) /\ worker[t] = "none" /\ proc' = proc
    BY <1>2 DEF Enqueue, SubmitterStep, WorkerStep, Placed
  <2>2. worker' = [worker EXCEPT ![t] = "queued"] /\ queue' = [queue EXCEPT ![p] = Append(q, t)]
    BY <1>2 DEF Enqueue, WorkerStep
  <2>3. queue'[p] = Append(q, t) /\ \A r \in Procs \ {p} : queue'[r] = queue[r]
    BY <2>1, <2>2
  <2>4. /\ Len(Append(q, t)) = Len(q) + 1 /\ Append(q, t)[Len(q) + 1] = t
        /\ \A i \in 1..Len(q) : Append(q, t)[i] = q[i]
        /\ Len(q) \in Nat
    BY <2>1
  <2>5. \A i \in 1..Len(q) : q[i] \in Tasks /\ q[i] # t
    <3>1. HoldsQueued(p)
      BY <2>1 DEF QueuesExact
    <3>2. \A i \in 1..Len(q) : worker[q[i]] = "queued"
      BY <3>1 DEF HoldsQueued
    <3>3. \A i \in 1..Len(q) : q[i] \in Tasks
      BY <2>1
    <3> QED
      BY <2>1, <3>2, <3>3
  <2>6. ASSUME NEW r \in Procs
        PROVE  HoldsQueued(r)'
    <3>1. CASE r # p
      <4>1. HoldsQueued(r) /\ queue'[r] = queue[r]
        BY <2>3, <3>1 DEF QueuesExact
      <4>2. \A i \in 1..Len(queue[r]) : queue[r][i] \in Tasks /\ worker[queue[r][i]] = "queued"
        BY <4>1 DEF HoldsQueued
      <4>3. \A i \in 1..Len(queue[r]) : worker'[queue[r][i]] = worker[queue[r][i]]
        BY <2>1, <2>2, <4>2
      <4> QED
        BY <2>1, <4>1, <4>3, QueueKept
    <3>2. CASE r = p
      <4> HIDE DEF p, q
      <4>1. /\ \A k \in 1..Len(q) : proc[q[k]] = p /\ worker[q[k]] = "queued"
            /\ \A k, m \in 1..Len(q) : q[k] = q[m] => k = m
            /\ proc[t] = p
        BY <2>1 DEF QueuesExact, HoldsQueued, p, q
      <4>2. \A k \in 1..(Len(q) + 1) : k \in 1..Len(q) \/ k = Len(q) + 1
        BY <2>4
      <4> QED
        BY <2>1, <2>2, <2>3, <2>4, <2>5, <3>2, <4>1, <4>2 DEF HoldsQueued
    <3> QED
      BY <3>1, <3>2
  <2>7. ASSUME NEW u \in Tasks, worker'[u] = "queued"
        PROVE  IsQueued(u)'
    <3>1. CASE u = t
      <4>1. proc'[u] = p /\ queue'[p] = Append(q, t)
        BY <2>1, <2>3, <3>1
      <4> HIDE DEF p, q
      <4>2. Len(q) + 1 \in 1..Len(Append(q, t)) /\ Append(q, t)[Len(q) + 1] = u
        BY <2>4, <3>1
      <4> QED
        BY <2>1, <4>1, <4>2 DEF IsQueued
    <3>2. CASE u # t
      <4>1. IsQueued(u)
        BY <2>2, <2>7, <3>2 DEF QueuesExact
      <4>2. CASE proc[u] # p
        <5>1. proc'[u] = proc[u] /\ queue'[proc[u]] = queue[proc[u]]
          BY <2>1, <2>3, <4>1, <4>2 DEF IsQueued
        <5> QED
          BY <4>1, <5>1, StaysQueued
      <4>3. CASE proc[u] = p
        <5>1. PICK i \in 1..Len(q) : q[i] = u
          BY <4>1, <4>3 DEF IsQueued
        <5>2. i \in 1..Len(Append(q, t)) /\ Append(q, t)[i] = u
          BY <2>4, <5>1
        <5> HIDE DEF q
        <5> QED
          BY <2>1, <2>3, <4>3, <5>2 DEF IsQueued
      <4> QED
        BY <4>2, <4>3
    <3> QED
      BY <3>1, <3>2
  <2> QED
    BY <2>6, <2>7 DEF QueuesExact
<1> QED
  BY <1>1, <1>2

\* A worker thread takes the first task, and only that leaves the queue.
LEMMA QueuesStart ==
  ASSUME TypeOK, QueuesExact, NEW p \in Procs, StartTask(p)
  PROVE  QueuesExact'
<1> USE DEF TypeOK, callVars
<1> DEFINE q == queue[p]
           t == Head(q)
<1>1. /\ q \in Seq(Tasks) /\ q # << >> /\ t \in Tasks /\ t = q[1] /\ proc' = proc
      /\ worker[t] = "queued" /\ worker' = [worker EXCEPT ![t] = "begin"]
      /\ queue' = [queue EXCEPT ![p] = Tail(q)]
  BY DEF StartTask, WorkerStep
<1>2. queue'[p] = Tail(q) /\ \A r \in Procs \ {p} : queue'[r] = queue[r]
  BY <1>1
<1>3. /\ Len(q) \in Nat \ {0} /\ Len(Tail(q)) = Len(q) - 1
      /\ \A i \in 1..(Len(q) - 1) : Tail(q)[i] = q[i + 1]
      /\ \A i \in 1..Len(q) : q[i] \in Tasks
  BY <1>1
<1>4. /\ \A k \in 1..Len(q) : proc[q[k]] = p /\ worker[q[k]] = "queued"
      /\ \A k, m \in 1..Len(q) : q[k] = q[m] => k = m
  BY DEF QueuesExact, HoldsQueued
<1>5. proc[t] = p
  BY <1>1, <1>3, <1>4
<1> HIDE DEF q, t
<1>6. ASSUME NEW r \in Procs
      PROVE  HoldsQueued(r)'
  <2>1. CASE r # p
    <3>1. HoldsQueued(r) /\ queue'[r] = queue[r]
      BY <1>2, <2>1 DEF QueuesExact
    <3>2. \A i \in 1..Len(queue[r]) : queue[r][i] \in Tasks /\ queue[r][i] # t
      BY <1>5, <2>1, <3>1 DEF HoldsQueued
    <3>3. \A i \in 1..Len(queue[r]) : worker'[queue[r][i]] = worker[queue[r][i]]
      BY <1>1, <3>2
    <3> QED
      BY <1>1, <3>1, <3>3, QueueKept
  <2>2. CASE r = p
    <3>1. \A k \in 1..(Len(q) - 1) : k + 1 \in 1..Len(q) /\ k + 1 # 1 /\ 1 \in 1..Len(q)
      BY <1>3
    <3>2. \A k \in 1..(Len(q) - 1) : q[k + 1] # t /\ q[k + 1] \in Tasks
      BY <1>1, <1>3, <1>4, <3>1
    <3> QED
      BY <1>1, <1>2, <1>3, <1>4, <2>2, <3>1, <3>2 DEF HoldsQueued
  <2> QED
    BY <2>1, <2>2
<1>7. ASSUME NEW u \in Tasks, worker'[u] = "queued"
      PROVE  IsQueued(u)'
  <2>1. u # t /\ worker[u] = "queued"
    BY <1>1, <1>7
  <2>2. IsQueued(u)
    BY <2>1 DEF QueuesExact
  <2>3. CASE proc[u] # p
    <3>1. proc'[u] = proc[u] /\ queue'[proc[u]] = queue[proc[u]]
      BY <1>1, <1>2, <2>2, <2>3 DEF IsQueued
    <3> QED
      BY <2>2, <3>1, StaysQueued
  <2>4. CASE proc[u] = p
    <3>1. PICK i \in 1..Len(q) : q[i] = u
      BY <2>2, <2>4 DEF IsQueued, q
    <3>2. i - 1 \in 1..(Len(q) - 1) /\ (i - 1) + 1 = i
      BY <1>1, <1>3, <2>1, <3>1
    <3>3. Tail(q)[i - 1] = u
      BY <1>3, <3>1, <3>2
    <3> QED
      BY <1>1, <1>2, <1>3, <2>4, <3>2, <3>3 DEF IsQueued
  <2> QED
    BY <2>3, <2>4
<1> QED
  BY <1>6, <1>7 DEF QueuesExact

\* Every step keeps the queues exact; a crash empties the queue and kills what
\* was in it.
LEMMA QueuesNext == TypeOK /\ Placed /\ Life /\ QueuesExact /\ [Next]_vars => QueuesExact'
<1> SUFFICES ASSUME TypeOK, Placed, Life, QueuesExact, [Next]_vars
             PROVE  QueuesExact'
  OBVIOUS
<1> USE DEF TypeOK, callVars, sharedVars
<1>1. ASSUME NEW t \in Tasks, SubmitStep(t)
      PROVE  QueuesExact'
  BY <1>1, QueuesQuiet, QueuesEnqueue DEF SubmitStep, AcquireSubmitLock, CheckRunning,
     InsertRow, InsertFails, RegisterStopEvent, StartMonitor, Attach
<1>2. ASSUME NEW t \in Tasks, ExecuteStep(t)
      PROVE  QueuesExact'
  <2>1. /\ worker[t] # "queued"
        /\ \E to : to # "queued" /\ worker' = [worker EXCEPT ![t] = to]
        /\ UNCHANGED <<queue, proc>>
    BY <1>2 DEF ExecuteStep, Begin, FinishImport, Decide, MarkCompleted, MarkTimeout,
       MarkFailed, Mark, UpdateLastRun, Cleanup, WorkerStep
  <2> QED
    BY <2>1, QueuesQuiet
<1>3. ASSUME NEW t \in Tasks, NEW p \in Procs, NEW l \in Lists, Request(t, p, l)
      PROVE  QueuesExact'
  <2>1. /\ worker[t] # "queued" /\ proc' = [proc EXCEPT ![t] = p]
        /\ UNCHANGED <<queue, worker>>
    BY <1>3 DEF Request, SubmitterStep, Life, SubmittedFirst, LiveWorker
  <2>2. ASSUME NEW r \in Procs
        PROVE  HoldsQueued(r)'
    <3>1. HoldsQueued(r)
      BY DEF QueuesExact
    <3>2. \A i \in 1..Len(queue[r]) : queue[r][i] \in Tasks \ {t}
      BY <2>1, <3>1 DEF HoldsQueued
    <3>3. \A i \in 1..Len(queue[r]) : proc'[queue[r][i]] = proc[queue[r][i]]
      BY <2>1, <3>2
    <3> QED
      BY <2>1, <3>1, <3>3, QueueKept
  <2>3. ASSUME NEW u \in Tasks, worker'[u] = "queued"
        PROVE  IsQueued(u)'
    BY <2>1, <2>3, StaysQueued DEF QueuesExact
  <2> QED
    BY <2>2, <2>3 DEF QueuesExact
<1>4. ASSUME NEW t \in Tasks, ImportItem(t) \/ WatchStep(t)
      PROVE  QueuesExact'
  BY <1>4, QueuesQuiet DEF ImportItem, WatchStep, MonitorWakes, MonitorFires
<1>5. ASSUME NEW p \in Procs, Crash(p)
      PROVE  QueuesExact'
  <2>1. /\ queue' = [queue EXCEPT ![p] = << >>] /\ proc' = proc
        /\ \A t \in Tasks : worker'[t] = "queued" <=> worker[t] = "queued" /\ proc[t] # p
    BY <1>5 DEF Crash, Executing
  <2>2. \A r \in Procs : \A i \in 1..Len(queue[r]) : queue[r][i] \in Tasks
    OBVIOUS
  <2>3. HoldsQueued(p)'
    BY <2>1 DEF HoldsQueued
  <2>4. \A r \in Procs \ {p} : HoldsQueued(r)'
    BY <2>1, <2>2 DEF QueuesExact, HoldsQueued
  <2>5. ASSUME NEW u \in Tasks, worker'[u] = "queued"
        PROVE  IsQueued(u)'
    <3>1. IsQueued(u) /\ proc[u] # p
      BY <2>1, <2>5 DEF QueuesExact
    <3>2. proc'[u] = proc[u] /\ queue'[proc[u]] = queue[proc[u]]
      BY <2>1, <3>1 DEF IsQueued
    <3> QED
      BY <3>1, <3>2, StaysQueued
  <2> QED
    BY <2>3, <2>4, <2>5 DEF QueuesExact
<1>6. ASSUME NEW p \in Procs, BootStep(p) \/ RecoverSkipped(p)
      PROVE  QueuesExact'
  BY <1>6, QueuesQuiet DEF BootStep, Boot, Recover, RecoverSkipped
<1>7. ASSUME NEW c \in Clearers, ClearStep(c)
      PROVE  QueuesExact'
  BY <1>7, QueuesQuiet DEF ClearStep, ClearReads, ClearDeletes
<1> QED
  BY <1>1, <1>2, <1>3, <1>4, <1>5, <1>6, <1>7, QueuesStart, QueuesQuiet
     DEF Next, TaskStep, ProcStep, Elapse, vars

\* No accepted job is lost, run twice or run by another process: it waits in the
\* queue of its process, once, and the first of the queue can always be started.
THEOREM QueuesAreExact == Spec => []QueuesExact
<1>1. Init => QueuesExact
  BY DEF Init, QueuesExact, HoldsQueued, IsQueued
<1> QED
  BY <1>1, QueuesNext, TypeCorrect, LifeInvariant, PTL DEF Spec

(***************************************************************************)
(* Clearing                                                                *)
(***************************************************************************)

\* Without a deletion settled rows stay settled and running rows stay present.
LEMMA RowsStay ==
  ASSUME TypeOK, [Next]_vars, \A c \in Clearers : ~ClearDeletes(c), NEW i \in JobIds
  PROVE  /\ jobStatus[i] \in {"completed", "failed"} => jobStatus'[i] \in {"completed", "failed"}
         /\ jobStatus[i] = "running" => jobStatus'[i] # "none"
<1> DEFINE Stays ==
        /\ jobStatus[i] \in {"completed", "failed"} => jobStatus'[i] \in {"completed", "failed"}
        /\ jobStatus[i] = "running" => jobStatus'[i] # "none"
<1>1. CASE UNCHANGED tableVars
  BY <1>1 DEF tableVars
<1>2. ASSUME NEW t \in Tasks, NEW from, NEW s \in {"completed", "failed"}, NEW next,
             NEW raised, Mark(t, from, s, next, raised)
      PROVE  Stays
  BY <1>2 DEF Mark, WriteStatus, SetStatus, TypeOK
<1>3. ASSUME NEW t \in Tasks, NEW j \in JobIds, InsertRow(t, j)
      PROVE  Stays
  <2>1. i # j \/ jobStatus[i] = "none"
    BY <1>3 DEF InsertRow, IsNextId, Rows, JobIds
  <2> QED
    BY <2>1, <1>3 DEF InsertRow, SetStatus, TypeOK
<1>4. ASSUME NEW p \in Procs, Recover(p)
      PROVE  Stays
  BY <1>4 DEF Recover
<1>5. ASSUME NEW t \in Tasks, TaskStep(t)
      PROVE  Stays
  <2>1. CASE SubmitStep(t)
    BY <2>1, <1>1, <1>3 DEF SubmitStep, AcquireSubmitLock, CheckRunning, InsertFails,
       RegisterStopEvent, StartMonitor, Enqueue, Attach
  <2>2. CASE ExecuteStep(t)
    BY <2>2, <1>1, <1>2 DEF ExecuteStep, Begin, FinishImport, Decide,
       MarkCompleted, MarkTimeout, MarkFailed, UpdateLastRun, Cleanup
  <2> QED
    BY <2>1, <2>2, <1>1, <1>5 DEF TaskStep, Request, ImportItem, WatchStep,
       MonitorWakes, MonitorFires
<1>6. ASSUME NEW p \in Procs, ProcStep(p)
      PROVE  Stays
  BY <1>6, <1>1, <1>4 DEF ProcStep, BootStep, StartTask, Boot, RecoverSkipped, Crash
<1> QED
  BY <1>1, <1>5, <1>6 DEF Next, ClearStep, ClearReads, Elapse, vars

\* Only clearing deletes rows.
LEMMA UnclearedKeepsNewest ==
  ASSUME Clearers = {}
  PROVE  Spec => [][NewestKept]_vars
<1>1. TypeOK /\ [Next]_vars => NewestKept
  <2> SUFFICES ASSUME TypeOK, [Next]_vars, NEW j \in Rows
               PROVE  jobStatus'[j] # "none"
    BY DEF NewestKept
  <2>1. jobStatus[j] \in {"running", "completed", "failed"}
    BY DEF Rows, TypeOK
  <2>2. \A c \in Clearers : ~ClearDeletes(c)
    OBVIOUS
  <2> QED
    BY <2>1, <2>2, RowsStay DEF Rows
<1>2. UNCHANGED vars => NewestKept
  BY DEF vars, tableVars, NewestKept, Rows
<1> QED
  BY <1>1, <1>2, TypeCorrect, PTL DEF Spec

\* In particular every idle monitor finds the event of its own job while nobody
\* clears the history (_monitor_idle in listarr/services/job_executor.py).
THEOREM UnclearedEventsReachable ==
  ASSUME Clearers = {}
  PROVE  Spec => []StopEventReachable
BY UnclearedKeepsNewest, NewestKeptSuffices, PTL

\* And then no idle monitor stops the job of another task, whatever processes,
\* threads and the database do.
THEOREM UnclearedMonitorsStopOwn ==
  ASSUME Clearers = {}
  PROVE  Spec => MonitorsStopTheirOwn
BY UnclearedKeepsNewest, NewestKeptSuffices, PTL

\* What is about to be deleted is settled.
ClearingSettled ==
    \A c \in Clearers : \A j \in clearing[c] : jobStatus[j] \in {"completed", "failed"}

\* With one clearing request, the rows it has selected stay settled until it
\* deletes them: only it deletes rows, and a settled row never runs again.
LEMMA ClearingSettledNext ==
  ASSUME OneClearer
  PROVE  TypeOK /\ ClearingSettled /\ [Next]_vars => ClearingSettled'
<1> SUFFICES ASSUME TypeOK, ClearingSettled, [Next]_vars
             PROVE  ClearingSettled'
  OBVIOUS
<1>1. ASSUME NEW c \in Clearers, ClearDeletes(c)
      PROVE  ClearingSettled'
  BY <1>1 DEF ClearDeletes, ClearingSettled, OneClearer, TypeOK
<1>2. ASSUME NEW c \in Clearers, NEW ls, ClearReads(c, ls)
      PROVE  ClearingSettled'
  BY <1>2 DEF ClearReads, Clearable, ClearingSettled, TypeOK, tableVars
<1>3. CASE UNCHANGED clearing /\ \A c \in Clearers : ~ClearDeletes(c)
  BY <1>3, RowsStay DEF ClearingSettled, TypeOK
<1>4. ASSUME NEW t \in Tasks, TaskStep(t)
      PROVE  UNCHANGED clearing
  BY <1>4 DEF TaskStep, Request, SubmitStep, AcquireSubmitLock, CheckRunning,
     InsertRow, InsertFails, RegisterStopEvent, StartMonitor, Enqueue, Attach,
     ExecuteStep, Begin, FinishImport, Decide, MarkCompleted, MarkTimeout,
     MarkFailed, Mark, UpdateLastRun, Cleanup, ImportItem, WatchStep,
     MonitorWakes, MonitorFires
<1>5. ASSUME NEW p \in Procs, ProcStep(p)
      PROVE  UNCHANGED clearing
  BY <1>5 DEF ProcStep, StartTask, BootStep, Boot, Recover, RecoverSkipped, Crash
<1> QED
  BY <1>1, <1>2, <1>3, <1>4, <1>5 DEF Next, ClearStep, Elapse, vars

\* One clearing request at a time never deletes a running row, whatever the
\* processes, threads and faults do meanwhile.
THEOREM ClearKeepsRunning ==
  ASSUME OneClearer
  PROVE  Spec => RunningRowsAreKept
<1> DEFINE Kept == \A j \in RunningRows : jobStatus'[j] # "none"
<1>1. Init => ClearingSettled
  BY DEF Init, ClearingSettled
<1>2. TypeOK /\ ClearingSettled /\ [Next]_vars => [Kept]_vars
  <2> SUFFICES ASSUME TypeOK, ClearingSettled, [Next]_vars
               PROVE  Kept
    OBVIOUS
  <2>1. ASSUME NEW c \in Clearers, ClearDeletes(c)
        PROVE  Kept
    BY <2>1 DEF ClearDeletes, ClearingSettled, RunningRows
  <2>2. CASE \A c \in Clearers : ~ClearDeletes(c)
    BY <2>2, RowsStay DEF RunningRows
  <2> QED
    BY <2>1, <2>2
<1> QED
  BY <1>1, <1>2, ClearingSettledNext, TypeCorrect, PTL DEF Spec, RunningRowsAreKept

\* A submitter does not come back to where it has no row.
LEMMA SubmitterBack ==
  ASSUME TypeOK, [Next]_vars, NEW t \in Tasks,
         submitter'[t] \in {"idle", "wait", "check", "insert"}
  PROVE  submitter[t] \in {"idle", "wait", "check", "insert"}
<1> USE DEF TypeOK, SubmitterStep, callVars
<1>1. ASSUME NEW u \in Tasks, TaskStep(u)
      PROVE  submitter[t] \in {"idle", "wait", "check", "insert"}
  <2>1. CASE SubmitStep(u)
    BY <2>1 DEF SubmitStep, AcquireSubmitLock, CheckRunning, InsertRow, InsertFails,
       RegisterStopEvent, StartMonitor, Enqueue, Attach
  <2>2. CASE UNCHANGED submitter
    BY <2>2
  <2>3. ASSUME NEW p \in Procs, NEW l \in Lists, Request(u, p, l)
        PROVE  submitter[t] \in {"idle", "wait", "check", "insert"}
    BY <2>3 DEF Request
  <2> QED
    BY <1>1, <2>1, <2>2, <2>3 DEF TaskStep, ExecuteStep, Begin, FinishImport, Decide,
       MarkCompleted, MarkTimeout, MarkFailed, Mark, UpdateLastRun, Cleanup,
       ImportItem, WatchStep, MonitorWakes, MonitorFires
<1>2. ASSUME NEW p \in Procs, ProcStep(p)
      PROVE  submitter[t] \in {"idle", "wait", "check", "insert"}
  BY <1>2 DEF ProcStep, StartTask, BootStep, Boot, Recover, RecoverSkipped, Crash
<1>3. ASSUME NEW c \in Clearers, ClearStep(c)
      PROVE  submitter[t] \in {"idle", "wait", "check", "insert"}
  BY <1>3 DEF ClearStep, ClearReads, ClearDeletes
<1> QED
  BY <1>1, <1>2, <1>3 DEF Next, Elapse, vars

\* A clearing request selects settled rows.
LEMMA ClearingGrows ==
  ASSUME TypeOK, [Next]_vars, NEW c \in Clearers, NEW j \in clearing'[c], j \notin clearing[c]
  PROVE  j \in JobIds /\ jobStatus[j] \in {"completed", "failed"}
<1>1. ASSUME NEW d \in Clearers, ClearStep(d)
      PROVE  j \in JobIds /\ jobStatus[j] \in {"completed", "failed"}
  <2>1. ASSUME NEW ls, ClearReads(d, ls)
        PROVE  j \in Clearable(ls)
    BY <2>1 DEF ClearReads, TypeOK
  <2>2. ~ClearDeletes(d)
    BY DEF ClearDeletes, TypeOK
  <2> QED
    BY <1>1, <2>1, <2>2 DEF ClearStep, Clearable
<1>2. ASSUME NEW t \in Tasks, TaskStep(t)
      PROVE  UNCHANGED clearing
  BY <1>2 DEF TaskStep, Request, SubmitStep, AcquireSubmitLock, CheckRunning,
     InsertRow, InsertFails, RegisterStopEvent, StartMonitor, Enqueue, Attach,
     ExecuteStep, Begin, FinishImport, Decide, MarkCompleted, MarkTimeout,
     MarkFailed, Mark, UpdateLastRun, Cleanup, ImportItem, WatchStep,
     MonitorWakes, MonitorFires
<1>3. ASSUME NEW p \in Procs, ProcStep(p)
      PROVE  UNCHANGED clearing
  BY <1>3 DEF ProcStep, StartTask, BootStep, Boot, Recover, RecoverSkipped, Crash
<1> QED
  BY <1>1, <1>2, <1>3 DEF Next, Elapse, vars

\* Nobody has a key before the INSERT, and every row is the row of some task.
UnkeyedBefore == \A t \in Tasks : submitter[t] \in {"idle", "wait", "check", "insert"} => job[t] = 0
RowsKeyed == \A j \in Rows : \E t \in Tasks : job[t] = j

\* What is about to be deleted was some task's row and is not running.
ClearingPast ==
    \A c \in Clearers : \A j \in clearing[c] :
        jobStatus[j] # "running" /\ \E t \in Tasks : job[t] = j

Past == UnkeyedBefore /\ RowsKeyed /\ ClearingPast

\* A row that is not running starts to run by an INSERT only, so that a key of
\* the past stays there if it is not given out again.
LEMMA PastNext == TypeOK /\ Past /\ KeysNew /\ [Next]_vars => Past'
<1> SUFFICES ASSUME TypeOK, Past, KeysNew, [Next]_vars
             PROVE  Past'
  OBVIOUS
<1> USE DEF TypeOK, Past
<1>1. ASSUME NEW t \in Tasks, NEW j \in JobIds, InsertRow(t, j)
      PROVE  Past'
  <2>1. /\ submitter[t] = "insert" /\ job[t] = 0 /\ j # 0
        /\ \E to \in {"register", "error"} : submitter' = [submitter EXCEPT ![t] = to]
        /\ job' = [job EXCEPT ![t] = j]
        /\ jobStatus' = [jobStatus EXCEPT ![j] = "running"]
        /\ clearing' = clearing
    BY <1>1 DEF InsertRow, SubmitterStep, SetStatus, UnkeyedBefore, JobIds
  <2>2. \A u \in Tasks : job[u] # j
    BY <2>1 DEF KeysNew
  <2>3. UnkeyedBefore'
    BY <2>1 DEF UnkeyedBefore
  <2>4. RowsKeyed'
    <3> SUFFICES ASSUME NEW i \in Rows'
                 PROVE  \E u \in Tasks : job'[u] = i
      BY DEF RowsKeyed
    <3>1. CASE i = j
      BY <2>1, <3>1
    <3>2. CASE i # j
      <4>1. i \in Rows
        BY <2>1, <3>2 DEF Rows
      <4>2. PICK u \in Tasks : job[u] = i
        BY <4>1 DEF RowsKeyed
      <4>3. u # t
        BY <2>1, <4>1, <4>2 DEF Rows, JobIds
      <4> QED
        BY <2>1, <4>2, <4>3
    <3> QED
      BY <3>1, <3>2
  <2>5. ClearingPast'
    <3> SUFFICES ASSUME NEW c \in Clearers, NEW i \in clearing[c]
                 PROVE  jobStatus'[i] # "running" /\ \E u \in Tasks : job'[u] = i
      BY <2>1 DEF ClearingPast
    <3>1. PICK u \in Tasks : job[u] = i
      BY DEF ClearingPast
    <3>2. i # j /\ i \in JobIds
      BY <2>2, <3>1
    <3>3. u # t
      BY <2>1, <3>1, <3>2 DEF JobIds
    <3>4. jobStatus[i] # "running"
      BY DEF ClearingPast
    <3> QED
      BY <2>1, <3>1, <3>2, <3>3, <3>4
  <2> QED
    BY <2>3, <2>4, <2>5
<1>2. CASE \A t \in Tasks, j \in JobIds : ~InsertRow(t, j)
  <2>1. \A t \in Tasks : job'[t] = job[t]
    BY <1>2, KeyByInsert
  <2>2. RowsKeyed'
    BY <1>2, <2>1, RowsAppear DEF RowsKeyed
  <2>3. UnkeyedBefore'
    <3>1. \A t \in Tasks : submitter'[t] \in {"idle", "wait", "check", "insert"} =>
                             submitter[t] \in {"idle", "wait", "check", "insert"}
      BY SubmitterBack
    <3> QED
      BY <2>1, <3>1 DEF UnkeyedBefore
  <2>4. ASSUME NEW c \in Clearers, NEW j \in clearing'[c]
        PROVE  jobStatus'[j] # "running" /\ \E t \in Tasks : job'[t] = j
    <3>1. j \in JobIds /\ jobStatus[j] # "running" /\ \E t \in Tasks : job[t] = j
      <4>1. CASE j \in clearing[c]
        BY <4>1 DEF ClearingPast
      <4>2. CASE j \notin clearing[c]
        <5>1. j \in JobIds /\ jobStatus[j] \in {"completed", "failed"}
          BY <2>4, <4>2, ClearingGrows
        <5> QED
          BY <5>1 DEF RowsKeyed, Rows
      <4> QED
        BY <4>1, <4>2
    <3>2. jobStatus'[j] # "running"
      BY <3>1, <1>2, RunningRowsAppear DEF RunningOnlyLeave
    <3> QED
      BY <2>1, <3>1, <3>2
  <2>5. ClearingPast'
    BY <2>4 DEF ClearingPast
  <2> QED
    BY <2>2, <2>3, <2>5
<1> QED
  BY <1>1, <1>2

\* With keys of their own for all jobs (AUTOINCREMENT) no running row is deleted
\* however many clearing requests, processes and faults meet.
THEOREM NewKeysKeepRunning == Spec /\ [][KeysNew]_vars => RunningRowsAreKept
<1> DEFINE Kept == \A j \in RunningRows : jobStatus'[j] # "none"
<1>1. Init => Past
  BY DEF Init, Past, UnkeyedBefore, RowsKeyed, Rows, ClearingPast
<1>2. TypeOK /\ Past /\ [Next]_vars => [Kept]_vars
  <2> SUFFICES ASSUME TypeOK, Past, [Next]_vars
               PROVE  Kept
    OBVIOUS
  <2>1. ASSUME NEW c \in Clearers, ClearDeletes(c)
        PROVE  Kept
    BY <2>1 DEF ClearDeletes, Past, ClearingPast, RunningRows
  <2>2. CASE \A c \in Clearers : ~ClearDeletes(c)
    BY <2>2, RowsStay DEF RunningRows
  <2> QED
    BY <2>1, <2>2
<1>3. UNCHANGED vars => KeysNew
  BY DEF vars, callVars, KeysNew
<1> QED
  BY <1>1, <1>2, <1>3, PastNext, TypeCorrect, PTL DEF Spec, RunningRowsAreKept

(***************************************************************************)
(* Imports of one list, and what recovery and clearing must leave alone    *)
(***************************************************************************)

\* The step of RunningRowsAreKept.
RunningKept == \A j \in RunningRows : jobStatus'[j] # "none"

\* A booting process fails only rows that are running still and whose task died:
\* none of a task that a sibling process has at work, none that a sibling has
\* completed since the rows were read.
RecoversTheDead ==
    \A p \in Procs : Recover(p) =>
        \A j \in JobIds : jobStatus'[j] # jobStatus[j] =>
            /\ jobStatus[j] = "running"
            /\ \A t \in Tasks : Unsettled(t) => job[t] # j

\* An unsettled task owns a running row of its list.
RowHeld ==
    \A t \in Tasks :
        Unsettled(t) =>
            /\ job[t] \in JobIds
            /\ jobStatus[job[t]] = "running"
            /\ jobList[job[t]] = list[t]
            /\ owner[job[t]] = t

\* A step that changes nothing does not break these rules.
LEMMA RulesStutter == UNCHANGED vars => RunningKept /\ RecoversTheDead
BY DEF vars, tableVars, RunningKept, RunningRows, RecoversTheDead

\* Unsettled tasks are at work in a process that serves.
LEMMA UnsettledUp ==
  ASSUME Life, NEW t \in Tasks, Unsettled(t)
  PROVE  procState[proc[t]] = "up"
  BY DEF Life, WorkingInUp, Unsettled, Submitting, LiveWorker, Executing

\* Steps that leave the rows alone and unsettle no task.
LEMMA HeldQuiet ==
  ASSUME RowHeld, UNCHANGED <<tableVars, callVars>>,
         \A t \in Tasks : Unsettled(t)' => Unsettled(t)
  PROVE  RowHeld'
  BY DEF RowHeld, tableVars, callVars

\* The new row goes to a key that is free, so that no other task holds it.
LEMMA HeldInsert ==
  ASSUME TypeOK, RowHeld, NEW t \in Tasks, NEW j \in JobIds, InsertRow(t, j)
  PROVE  RowHeld'
<1> USE DEF TypeOK
<1>1. jobStatus[j] = "none"
  BY DEF InsertRow, IsNextId, JobIds, Rows
<1> SUFFICES ASSUME NEW u \in Tasks, Unsettled(u)'
             PROVE  /\ job'[u] \in JobIds
                    /\ jobStatus'[job'[u]] = "running"
                    /\ jobList'[job'[u]] = list'[u]
                    /\ owner'[job'[u]] = u
  BY DEF RowHeld
<1>2. CASE u = t
  BY <1>2 DEF InsertRow, SetStatus
<1>3. CASE u # t
  <2>1. Unsettled(u)
    BY <1>3 DEF InsertRow, Unsettled, SubmitterStep
  <2> QED
    BY <2>1, <1>3, <1>1 DEF InsertRow, SetStatus, RowHeld
<1> QED
  BY <1>2, <1>3

\* A worker thread writes its own row and leaves the others to their tasks.
LEMMA HeldMark ==
  ASSUME DbMayFail = FALSE, TypeOK, Life, RowHeld, NEW t \in Tasks,
         NEW from \in {"markCompleted", "markTimeout", "markFailed"},
         NEW s \in {"completed", "failed"}, NEW next \in {"lastRun", "done"},
         NEW raised, Mark(t, from, s, next, raised)
  PROVE  RowHeld'
<1> USE DEF TypeOK, callVars
<1>1. /\ worker[t] = from
      /\ worker' = [worker EXCEPT ![t] = next]
      /\ UNCHANGED <<jobList, owner, submitter, proc, list, job>>
  BY DEF Mark, WorkerStep
<1>2. Unsettled(t)
  BY <1>1 DEF Unsettled, Executing
<1>3. job[t] \in JobIds /\ jobStatus[job[t]] = "running" /\ owner[job[t]] = t
  BY <1>2 DEF RowHeld
<1>4. jobStatus' = [jobStatus EXCEPT ![job[t]] = s]
  BY <1>3 DEF Mark, WriteStatus, SetStatus, Rows
<1>5. submitter[t] \in {"attach", "returned"}
  BY <1>1 DEF Life, SubmittedFirst, LiveWorker, Executing
<1>6. ASSUME NEW u \in Tasks, Unsettled(u)'
      PROVE  u # t /\ Unsettled(u)
  BY <1>6, <1>1, <1>5 DEF Unsettled, Executing
<1> QED
  BY <1>1, <1>3, <1>4, <1>6 DEF RowHeld

\* Every step of a task keeps the rows in the hands that hold them.
LEMMA HeldTask ==
  ASSUME DbMayFail = FALSE, TypeOK, Life, RowHeld, NEW t \in Tasks, TaskStep(t)
  PROVE  RowHeld'
<1> USE DEF tableVars, callVars
<1>1. ASSUME NEW p \in Procs, NEW l \in Lists, Request(t, p, l)
      PROVE  RowHeld'
  <2>1. ~Unsettled(t)
    BY <1>1 DEF Request, SubmitterStep, Unsettled, Life, SubmittedFirst, LiveWorker
  <2>2. ASSUME NEW u \in Tasks, Unsettled(u)'
        PROVE  Unsettled(u) /\ u # t
    BY <2>1, <2>2, <1>1 DEF Request, SubmitterStep, Unsettled, TypeOK
  <2> QED
    BY <2>2, <1>1 DEF Request, RowHeld, TypeOK
<1>2. CASE SubmitStep(t) /\ \A j \in JobIds : ~InsertRow(t, j)
  <2>1. ASSUME NEW u \in Tasks, Unsettled(u)'
        PROVE  Unsettled(u)
    BY <2>1, <1>2 DEF SubmitStep, AcquireSubmitLock, CheckRunning, InsertFails,
       RegisterStopEvent, StartMonitor, Enqueue, Attach, SubmitterStep,
       WorkerStep, Unsettled, TypeOK
  <2> QED
    BY <2>1, <1>2, HeldQuiet DEF SubmitStep, AcquireSubmitLock, CheckRunning,
       InsertFails, RegisterStopEvent, StartMonitor, Enqueue, Attach
<1>3. CASE ExecuteStep(t)
  <2>1. CASE Begin(t) \/ FinishImport(t) \/ Decide(t)
    <3>1. /\ Unsettled(t)
          /\ \E to : worker' = [worker EXCEPT ![t] = to]
          /\ UNCHANGED submitter
      BY <2>1 DEF Begin, FinishImport, Decide, WorkerStep, Unsettled, Executing
    <3>2. ASSUME NEW u \in Tasks, Unsettled(u)'
          PROVE  Unsettled(u)
      BY <3>1, <3>2 DEF Unsettled, TypeOK
    <3> QED
      BY <3>2, <2>1, HeldQuiet DEF Begin, FinishImport, Decide
  <2>2. CASE UpdateLastRun(t) \/ Cleanup(t)
    <3>1. /\ \E to \in {"done", "cleaned"} : worker' = [worker EXCEPT ![t] = to]
          /\ UNCHANGED submitter
      BY <2>2 DEF UpdateLastRun, Cleanup, WorkerStep
    <3>2. ASSUME NEW u \in Tasks, Unsettled(u)'
          PROVE  Unsettled(u)
      BY <3>1, <3>2 DEF Unsettled, Executing, TypeOK
    <3> QED
      BY <3>2, <2>2, HeldQuiet DEF UpdateLastRun, Cleanup
  <2> QED
    BY <2>1, <2>2, <1>3, HeldMark
       DEF ExecuteStep, MarkCompleted, MarkTimeout, MarkFailed
<1>4. CASE ImportItem(t) \/ WatchStep(t)
  BY <1>4, HeldQuiet DEF ImportItem, WatchStep, MonitorWakes, MonitorFires, Unsettled
<1> QED
  BY <1>1, <1>2, <1>3, <1>4, HeldInsert DEF TaskStep

\* So does every step of a process that recovers the dead only.
LEMMA HeldProc ==
  ASSUME TypeOK, RowHeld, RecoversTheDead, NEW p \in Procs, ProcStep(p)
  PROVE  RowHeld'
<1> USE DEF tableVars, procVars, callVars
<1>1. CASE StartTask(p)
  <2> DEFINE t == Head(queue[p])
  <2>1. worker[t] = "queued" /\ worker' = [worker EXCEPT ![t] = "begin"] /\ UNCHANGED submitter
    BY <1>1 DEF StartTask, WorkerStep
  <2>2. ASSUME NEW u \in Tasks, Unsettled(u)'
        PROVE  Unsettled(u)
    BY <2>1, <2>2 DEF Unsettled, TypeOK
  <2> QED
    BY <2>2, <1>1, HeldQuiet DEF StartTask
<1>2. CASE Boot(p) \/ RecoverSkipped(p)
  BY <1>2, HeldQuiet DEF Boot, RecoverSkipped, Unsettled
<1>3. CASE Recover(p)
  <2>1. ASSUME NEW t \in Tasks, Unsettled(t)
        PROVE  jobStatus'[job[t]] = jobStatus[job[t]]
    BY <2>1, <1>3 DEF RecoversTheDead, RowHeld
  <2> QED
    BY <2>1, <1>3 DEF Recover, RowHeld, Unsettled
<1>4. CASE Crash(p)
  <2>1. ASSUME NEW t \in Tasks, Unsettled(t)'
        PROVE  Unsettled(t)
    BY <2>1, <1>4 DEF Crash, Unsettled, Executing
  <2> QED
    BY <2>1, <1>4, HeldQuiet DEF Crash
<1> QED
  BY <1>1, <1>2, <1>3, <1>4 DEF ProcStep, BootStep

\* So does every step, if clearing keeps running rows.
LEMMA HeldNext ==
  ASSUME DbMayFail = FALSE
  PROVE  TypeOK /\ Life /\ RowHeld /\ RunningKept /\ RecoversTheDead /\ [Next]_vars => RowHeld'
<1> SUFFICES ASSUME TypeOK, Life, RowHeld, RunningKept, RecoversTheDead, [Next]_vars
             PROVE  RowHeld'
  OBVIOUS
<1> USE DEF tableVars, callVars
<1>1. ASSUME NEW c \in Clearers, NEW ls, ClearReads(c, ls)
      PROVE  RowHeld'
  BY <1>1, HeldQuiet DEF ClearReads, Unsettled
<1>2. ASSUME NEW c \in Clearers, ClearDeletes(c)
      PROVE  RowHeld'
  <2> SUFFICES ASSUME NEW t \in Tasks, Unsettled(t)'
               PROVE  /\ job'[t] \in JobIds
                      /\ jobStatus'[job'[t]] = "running"
                      /\ jobList'[job'[t]] = list'[t]
                      /\ owner'[job'[t]] = t
    BY DEF RowHeld
  <2>1. Unsettled(t)
    BY <1>2 DEF ClearDeletes, Unsettled
  <2>2. job[t] \in JobIds /\ job[t] \notin clearing[c]
    BY <2>1, <1>2 DEF ClearDeletes, RowHeld, RunningKept, RunningRows
  <2> QED
    BY <2>1, <2>2, <1>2 DEF ClearDeletes, RowHeld
<1>3. CASE Elapse \/ UNCHANGED vars
  BY <1>3, HeldQuiet DEF Elapse, vars, Unsettled
<1> QED
  BY <1>1, <1>2, <1>3, HeldTask, HeldProc DEF Next, ClearStep

\* Without database faults, a task in the middle of its import holds its running
\* row, if clearing keeps running rows and recovery fails dead ones only.
LEMMA HeldInvariant ==
  ASSUME DbMayFail = FALSE
  PROVE  Spec /\ RunningRowsAreKept /\ [][RecoversTheDead]_vars => []RowHeld
<1>1. Init => RowHeld
  BY DEF Init, RowHeld, Unsettled, Executing
<1> QED
  BY <1>1, RulesStutter, HeldNext, TypeCorrect, LifeInvariant, PTL
     DEF Spec, RunningRowsAreKept, RunningKept

\* In any number of processes no list is imported twice at once, as long as the
\* database works, clearing keeps running rows and no process that boots takes
\* the row of a sibling's job: those are the only ways to get there.
THEOREM ImportsUniqueAmongProcesses ==
  ASSUME DbMayFail = FALSE
  PROVE  Spec /\ RunningRowsAreKept /\ [][RecoversTheDead]_vars => []OneImportPerList
<1>1. RowHeld /\ OneRunningPerList => OneImportPerList
  BY DEF RowHeld, OneRunningPerList, OneImportPerList, Unsettled, Executing, RunningRows
<1> QED
  BY <1>1, HeldInvariant, RunningRowsUnique, PTL

(***************************************************************************)
(* One process                                                             *)
(***************************************************************************)

\* What a booting process recovers is what is running.
RecoveringRunning ==
    \A p \in Procs : procState[p] = "recovering" => toRecover[p] = RunningRows

\* While the only process boots, no thread submits or executes.
LEMMA RecoveringAlone ==
  ASSUME OneProcess, Placed, Life, NEW p \in Procs, procState[p] = "recovering", NEW t \in Tasks
  PROVE  submitter[t] \notin Submitting /\ worker[t] \notin LiveWorker /\ ~Unsettled(t)
<1>1. submitter[t] \in Submitting \/ worker[t] \in LiveWorker => submitter[t] # "idle"
  BY DEF Life, SubmittedFirst, Submitting
<1>2. submitter[t] # "idle" => proc[t] = p
  BY DEF Placed, OneProcess
<1>3. submitter[t] \notin Submitting /\ worker[t] \notin LiveWorker
  BY <1>1, <1>2 DEF Life, WorkingInUp
<1> QED
  BY <1>3 DEF Unsettled, Submitting, LiveWorker, Executing

\* So the running rows stay what they were when it read them.
LEMMA RecoveringNext ==
  ASSUME OneProcess
  PROVE  /\ TypeOK /\ Placed /\ Life /\ RecoveringRunning /\ RunningKept /\ [Next]_vars
         => RecoveringRunning'
<1> SUFFICES ASSUME TypeOK, Placed, Life, RecoveringRunning, RunningKept, [Next]_vars,
                    NEW p \in Procs, procState'[p] = "recovering"
             PROVE  toRecover'[p] = RunningRows'
  BY DEF RecoveringRunning, RunningRows
<1> USE DEF TypeOK, tableVars, procVars
<1>1. ASSUME NEW q \in Procs, ProcStep(q)
      PROVE  toRecover'[p] = RunningRows'
  <2>1. q = p
    BY DEF OneProcess
  <2>2. CASE Boot(q)
    BY <2>1, <2>2 DEF Boot, RunningRows
  <2>3. CASE StartTask(q)
    BY <2>3 DEF StartTask, RecoveringRunning, RunningRows
  <2> QED
    BY <1>1, <2>1, <2>2, <2>3 DEF ProcStep, BootStep, Recover, RecoverSkipped, Crash
<1>2. ASSUME NEW t \in Tasks, TaskStep(t)
      PROVE  toRecover'[p] = RunningRows'
  <2>1. procState'[p] = procState[p] /\ toRecover'[p] = toRecover[p]
    BY <1>2 DEF TaskStep, Request, SubmitStep, AcquireSubmitLock, CheckRunning,
       InsertRow, InsertFails, RegisterStopEvent, StartMonitor, Enqueue, Attach,
       ExecuteStep, Begin, FinishImport, Decide, MarkCompleted, MarkTimeout,
       MarkFailed, Mark, UpdateLastRun, Cleanup, ImportItem, WatchStep,
       MonitorWakes, MonitorFires
  <2>2. submitter[t] \notin Submitting /\ worker[t] \notin LiveWorker
    BY <2>1, RecoveringAlone
  <2>3. ~SubmitStep(t)
    BY <2>2, SubmitMoves DEF SubmitMove, SubmitterStep
  <2>4. ~ExecuteStep(t)
    BY <2>2 DEF ExecuteStep, Begin, FinishImport, Decide, MarkCompleted, MarkTimeout,
       MarkFailed, Mark, UpdateLastRun, Cleanup, WorkerStep, LiveWorker, Executing
  <2>5. UNCHANGED tableVars
    BY <1>2, <2>3, <2>4 DEF TaskStep, Request, ImportItem, WatchStep, MonitorWakes, MonitorFires
  <2> QED
    BY <2>1, <2>5 DEF RecoveringRunning, RunningRows
<1>3. ASSUME NEW c \in Clearers, ClearStep(c)
      PROVE  toRecover'[p] = RunningRows'
  <2>1. CASE ClearDeletes(c)
    <3>1. RunningRows' = RunningRows
      BY <2>1 DEF ClearDeletes, RunningRows, RunningKept
    <3> QED
      BY <2>1, <3>1 DEF ClearDeletes, RecoveringRunning
  <2>2. CASE UNCHANGED <<tableVars, procVars>>
    BY <2>2 DEF RecoveringRunning, RunningRows
  <2> QED
    BY <1>3, <2>1, <2>2 DEF ClearStep, ClearReads
<1>4. CASE Elapse \/ UNCHANGED vars
  BY <1>4 DEF Elapse, vars, RecoveringRunning, RunningRows
<1> QED
  BY <1>1, <1>2, <1>3, <1>4 DEF Next

\* The only process recovers the dead only: it is not serving while it boots.
LEMMA RecoveryByOneProcess ==
  ASSUME OneProcess
  PROVE  Spec /\ RunningRowsAreKept => [][RecoversTheDead]_vars
<1>1. Init => RecoveringRunning
  BY DEF Init, RecoveringRunning
<1>2. Placed /\ Life /\ RecoveringRunning => RecoversTheDead
  <2> SUFFICES ASSUME Placed, Life, RecoveringRunning, NEW p \in Procs, Recover(p),
                      NEW j \in JobIds, jobStatus'[j] # jobStatus[j]
               PROVE  jobStatus[j] = "running" /\ \A t \in Tasks : Unsettled(t) => job[t] # j
    BY DEF RecoversTheDead
  <2>1. procState[p] = "recovering" /\ j \in toRecover[p]
    BY DEF Recover
  <2> QED
    BY <2>1, RecoveringAlone DEF RecoveringRunning, RunningRows
<1>3. UNCHANGED vars => RunningKept
  BY RulesStutter
<1> QED
  BY <1>1, <1>2, <1>3, RecoveringNext, TypeCorrect, LifeInvariant, PTL
     DEF Spec, RunningRowsAreKept, RunningKept

Reliable == OneProcess /\ OneClearer /\ DbMayFail = FALSE

\* Without faults and sibling processes no list is imported twice at once.
THEOREM ImportsUnique ==
  ASSUME Reliable
  PROVE  Spec => []OneImportPerList
  BY ImportsUniqueAmongProcesses, RecoveryByOneProcess, ClearKeepsRunning, PTL DEF Reliable

\* A thread comes to the INSERT from the check, for the same list.
LEMMA InsertAfterCheck ==
  ASSUME TypeOK, [Next]_vars, NEW u \in Tasks, submitter'[u] = "insert", ~CheckRunning(u)
  PROVE  submitter[u] = "insert" /\ list'[u] = list[u]
<1>1. ASSUME NEW t \in Tasks, SubmitStep(t)
      PROVE  submitter[u] = "insert" /\ list'[u] = list[u]
  <2>1. CASE CheckRunning(t)
    BY <2>1 DEF CheckRunning, SubmitterStep, TypeOK, callVars
  <2> QED
    BY <1>1, <2>1 DEF SubmitStep, AcquireSubmitLock, InsertRow, InsertFails,
       RegisterStopEvent, StartMonitor, Enqueue, Attach, SubmitterStep, TypeOK, callVars
<1>2. ASSUME NEW t \in Tasks, NEW p \in Procs, NEW l \in Lists, Request(t, p, l)
      PROVE  submitter[u] = "insert" /\ list'[u] = list[u]
  BY <1>2 DEF Request, SubmitterStep, TypeOK
<1>3. ASSUME NEW t \in Tasks, ExecuteStep(t) \/ ImportItem(t) \/ WatchStep(t)
      PROVE  submitter[u] = "insert" /\ list'[u] = list[u]
  BY <1>3 DEF ExecuteStep, Begin, FinishImport, Decide, MarkCompleted, MarkTimeout,
     MarkFailed, Mark, UpdateLastRun, Cleanup, ImportItem, WatchStep,
     MonitorWakes, MonitorFires, callVars
<1>4. ASSUME NEW p \in Procs, ProcStep(p)
      PROVE  submitter[u] = "insert" /\ list'[u] = list[u]
  BY <1>4 DEF ProcStep, StartTask, BootStep, Boot, Recover, RecoverSkipped, Crash,
     Submitting, callVars
<1>5. ASSUME NEW c \in Clearers, ClearStep(c)
      PROVE  submitter[u] = "insert" /\ list'[u] = list[u]
  BY <1>5 DEF ClearStep, ClearReads, ClearDeletes, callVars
<1> QED
  BY <1>1, <1>2, <1>3, <1>4, <1>5 DEF Next, TaskStep, Elapse, vars, callVars

\* Within one process nothing takes the list between check and INSERT: the
\* thread that inserts would have to hold the same lock.
THEOREM CheckSuffices ==
  ASSUME OneProcess
  PROVE  Spec => []CheckedListStaysFree
<1>1. Init => CheckedListStaysFree
  BY DEF Init, CheckedListStaysFree
<1>2. /\ TypeOK /\ Placed /\ SubmitLockIsHeldInside /\ CheckedListStaysFree
      /\ [Next]_vars
      => CheckedListStaysFree'
  <2> SUFFICES ASSUME TypeOK, Placed, SubmitLockIsHeldInside, CheckedListStaysFree,
                      [Next]_vars, NEW u \in Tasks, submitter'[u] = "insert"
               PROVE  ~ListRunning(list[u])'
    BY DEF CheckedListStaysFree, ListRunning
  <2>1. CASE CheckRunning(u)
    BY <2>1 DEF CheckRunning, SubmitterStep, TypeOK, ListRunning, RunningRows, tableVars, callVars
  <2>2. CASE ~CheckRunning(u)
    <3>1. submitter[u] = "insert" /\ list'[u] = list[u]
      BY <2>2, InsertAfterCheck
    <3>2. ASSUME NEW t \in Tasks, NEW j \in JobIds, InsertRow(t, j)
          PROVE  FALSE
      <4>1. submitter[t] = "insert" /\ submitter'[t] \in {"register", "error"}
        BY <3>2 DEF InsertRow, SubmitterStep, TypeOK
      <4>2. proc[t] = proc[u] /\ proc[u] \in Procs
        BY <4>1, <3>1 DEF Placed, OneProcess
      <4>3. t = u
        BY <4>1, <4>2, <3>1 DEF SubmitLockIsHeldInside, InLock
      <4> QED
        BY <4>1, <4>3
    <3>3. RunningOnlyLeave
      BY <3>2, RunningRowsAppear
    <3> QED
      BY <3>1, <3>3 DEF RunningOnlyLeave, ListRunning, RunningRows, CheckedListStaysFree
  <2> QED
    BY <2>1, <2>2
<1> QED
  BY <1>1, <1>2, TypeCorrect, LifeInvariant, SubmitLockHeld, PTL DEF Spec

(***************************************************************************)
(* Every running row has a task that will settle it                        *)
(***************************************************************************)

\* A running row is in the hands of the task that inserted it, or that task died
\* with its process, whose next boot will fail the row.
LeftForRecovery(j) ==
    /\ procState[proc[owner[j]]] # "up"
    /\ procState[proc[owner[j]]] = "recovering" => j \in toRecover[proc[owner[j]]]

RunningRowIsSettled ==
    \A j \in RunningRows :
        /\ owner[j] \in Tasks /\ job[owner[j]] = j
        /\ submitter[owner[j]] \notin {"idle", "wait", "check", "insert"}
        /\ Unsettled(owner[j]) \/ LeftForRecovery(j)

\* Steps that leave the table alone and settle no task keep the settlers.
LEMMA SettlerQuiet ==
  ASSUME TypeOK, [Next]_vars, RunningRowIsSettled,
         UNCHANGED <<tableVars, callVars, procState, toRecover>>,
         \A t \in Tasks : Unsettled(t) => Unsettled(t)'
  PROVE  RunningRowIsSettled'
<1> SUFFICES ASSUME NEW j \in RunningRows'
             PROVE  /\ owner'[j] \in Tasks /\ job'[owner'[j]] = j
                    /\ submitter'[owner'[j]] \notin {"idle", "wait", "check", "insert"}
                    /\ Unsettled(owner[j])' \/ LeftForRecovery(j)'
  BY DEF RunningRowIsSettled
<1> DEFINE t == owner[j]
<1>1. /\ j \in RunningRows /\ t \in Tasks /\ job[t] = j /\ owner' = owner /\ job' = job
      /\ submitter[t] \notin {"idle", "wait", "check", "insert"}
      /\ Unsettled(t) \/ LeftForRecovery(j)
  BY DEF RunningRowIsSettled, RunningRows, tableVars, callVars
<1>2. submitter'[t] \notin {"idle", "wait", "check", "insert"}
  BY <1>1, SubmitterBack
<1>3. LeftForRecovery(j) => LeftForRecovery(j)'
  BY DEF LeftForRecovery, tableVars, callVars
<1> QED
  BY <1>1, <1>2, <1>3

\* Submitting keeps a settler for every running row.
LEMMA SettlerSubmit ==
  ASSUME DbMayFail = FALSE, ThreadMayFail = FALSE, TypeOK, Life, [Next]_vars,
         RunningRowIsSettled, NEW t \in Tasks, SubmitStep(t)
  PROVE  RunningRowIsSettled'
<1> USE DEF TypeOK, SubmitterStep, WorkerStep, Unsettled, tableVars, callVars, procVars
<1>1. ASSUME NEW j \in JobIds, InsertRow(t, j)
      PROVE  RunningRowIsSettled'
  <2>1. /\ submitter[t] = "insert" /\ submitter' = [submitter EXCEPT ![t] = "register"]
        /\ jobStatus' = [jobStatus EXCEPT ![j] = "running"]
        /\ owner' = [owner EXCEPT ![j] = t] /\ job' = [job EXCEPT ![t] = j]
        /\ UNCHANGED <<worker, proc, procState, toRecover>>
    BY <1>1 DEF InsertRow, SetStatus
  <2>2. ASSUME NEW i \in RunningRows', i # j
        PROVE  /\ i \in RunningRows /\ owner'[i] = owner[i]
               /\ owner[i] \in Tasks /\ owner[i] # t
               /\ submitter'[owner[i]] = submitter[owner[i]]
               /\ job'[owner[i]] = job[owner[i]]
    BY <2>1, <2>2 DEF RunningRows, RunningRowIsSettled
  <2>3. ASSUME NEW i \in RunningRows', i # j
        PROVE  Unsettled(owner[i])' \/ LeftForRecovery(i)'
    <3>1. Unsettled(owner[i]) \/ LeftForRecovery(i)
      BY <2>2, <2>3 DEF RunningRowIsSettled
    <3>2. CASE Unsettled(owner[i])
      BY <2>1, <2>2, <2>3, <3>2
    <3>3. CASE LeftForRecovery(i)
      BY <2>1, <2>2, <2>3, <3>3 DEF LeftForRecovery
    <3> QED
      BY <3>1, <3>2, <3>3
  <2>4. /\ owner'[j] = t /\ job'[t] = j /\ submitter'[t] = "register" /\ Unsettled(t)'
    BY <2>1
  <2> QED
    BY <2>2, <2>3, <2>4 DEF RunningRowIsSettled
<1>2. CASE AcquireSubmitLock(t)
  BY <1>2, SettlerQuiet DEF AcquireSubmitLock
<1>3. CASE CheckRunning(t)
  BY <1>3, SettlerQuiet DEF CheckRunning
<1>4. CASE InsertFails(t)
  BY <1>4, SettlerQuiet DEF InsertFails
<1>5. CASE RegisterStopEvent(t)
  BY <1>5, SettlerQuiet DEF RegisterStopEvent
<1>6. CASE StartMonitor(t)
  BY <1>6, SettlerQuiet DEF StartMonitor
<1>7. CASE Enqueue(t)
  BY <1>7, SettlerQuiet, ZenonT(30) DEF Enqueue
<1>8. CASE Attach(t)
  BY <1>8, SettlerQuiet DEF Attach
<1> QED
  BY <1>1, <1>2, <1>3, <1>4, <1>5, <1>6, <1>7, <1>8 DEF SubmitStep

\* Steps that settle or delete rows and leave the tasks of the others alone.
LEMMA SettlerFewer ==
  ASSUME TypeOK, [Next]_vars, RunningRowIsSettled, UNCHANGED <<callVars, submitter>>,
         \A j \in RunningRows' :
            /\ j \in RunningRows /\ owner'[j] = owner[j]
            /\ worker'[owner[j]] = worker[owner[j]]
            /\ LeftForRecovery(j) => LeftForRecovery(j)'
  PROVE  RunningRowIsSettled'
BY DEF RunningRowIsSettled, Unsettled, callVars

\* A worker thread stops being a settler only by settling its row.
LEMMA SettlerExecute ==
  ASSUME DbMayFail = FALSE, TypeOK, Life, [Next]_vars, RunningRowIsSettled,
         NEW t \in Tasks, ExecuteStep(t)
  PROVE  RunningRowIsSettled'
<1> USE DEF TypeOK, WorkerStep, Executing, tableVars, callVars, procVars
<1>1. CASE Begin(t)
  BY <1>1, SettlerQuiet DEF Begin, Unsettled
<1>2. CASE FinishImport(t)
  BY <1>2, SettlerQuiet DEF FinishImport, Unsettled
<1>3. CASE Decide(t)
  BY <1>3, SettlerQuiet DEF Decide, Unsettled
<1>4. ASSUME NEW from \in {"markCompleted", "markTimeout", "markFailed"},
             NEW s \in {"completed", "failed"}, NEW next,
             NEW raised, Mark(t, from, s, next, raised)
      PROVE  RunningRowIsSettled'
  <2>1. /\ UNCHANGED <<jobList, owner, job, proc, submitter, procState, toRecover>>
        /\ \A u \in Tasks \ {t} : worker'[u] = worker[u]
        /\ jobStatus' = IF job[t] \in Rows THEN [jobStatus EXCEPT ![job[t]] = s] ELSE jobStatus
    BY <1>4 DEF Mark, WriteStatus, SetStatus
  <2>2. ASSUME NEW j \in RunningRows'
        PROVE  j \in RunningRows /\ j # job[t]
    BY <2>1, <2>2 DEF RunningRows, Rows
  <2>3. ASSUME NEW j \in RunningRows'
        PROVE  owner[j] \in Tasks \ {t}
    BY <2>2, <2>3 DEF RunningRowIsSettled
  <2> QED
    BY <1>4, <2>1, <2>2, <2>3, SettlerFewer DEF Mark, LeftForRecovery
<1>5. CASE UpdateLastRun(t)
  BY <1>5, SettlerQuiet DEF UpdateLastRun, Unsettled
<1>6. CASE Cleanup(t)
  BY <1>6, SettlerQuiet DEF Cleanup, Unsettled
<1> QED
  BY <1>1, <1>2, <1>3, <1>4, <1>5, <1>6
     DEF ExecuteStep, MarkCompleted, MarkTimeout, MarkFailed

\* A crash takes settlers away and leaves their rows to the next boot; that
\* reads all of them, and fails them before it serves.
LEMMA SettlerProc ==
  ASSUME DbMayFail = FALSE, TypeOK, Placed, Life, [Next]_vars, RunningRowIsSettled,
         NEW p \in Procs, ProcStep(p)
  PROVE  RunningRowIsSettled'
<1> USE DEF TypeOK, tableVars, callVars, procVars
<1>1. CASE StartTask(p)
  BY <1>1, SettlerQuiet DEF StartTask, WorkerStep, Unsettled, Executing
<1>2. CASE Boot(p)
  <2>1. \A j \in RunningRows : j \in JobIds
    BY DEF RunningRows
  <2> QED
    BY <1>2, <2>1, SettlerFewer DEF Boot, LeftForRecovery, RunningRows
<1>3. CASE Recover(p)
  <2>1. CASE toRecover[p] \subseteq Rows /\ procState' = [procState EXCEPT ![p] = "up"]
    <3>1. ASSUME NEW j \in RunningRows'
          PROVE  j \in RunningRows /\ j \notin toRecover[p]
      BY <2>1, <3>1, <1>3 DEF Recover, RunningRows
    <3> QED
      BY <2>1, <3>1, <1>3, SettlerFewer DEF Recover, LeftForRecovery
  <2>2. CASE procState' = [procState EXCEPT ![p] = "down"] /\ UNCHANGED jobStatus
    BY <2>2, <1>3, SettlerFewer DEF Recover, LeftForRecovery, RunningRows
  <2> QED
    BY <2>1, <2>2, <1>3 DEF Recover
<1>4. CASE Crash(p)
  <2> SUFFICES ASSUME NEW j \in RunningRows'
               PROVE  /\ owner'[j] \in Tasks /\ job'[owner'[j]] = j
                      /\ submitter'[owner'[j]] \notin {"idle", "wait", "check", "insert"}
                      /\ Unsettled(owner[j])' \/ LeftForRecovery(j)'
    BY DEF RunningRowIsSettled
  <2> DEFINE t == owner[j]
  <2>1. /\ j \in RunningRows /\ owner'[j] = t /\ t \in Tasks /\ job[t] = j /\ job' = job
        /\ submitter[t] \notin {"idle", "wait", "check", "insert"}
        /\ Unsettled(t) \/ LeftForRecovery(j)
    BY <1>4 DEF Crash, RunningRows, RunningRowIsSettled
  <2>2. submitter'[t] \notin {"idle", "wait", "check", "insert"}
    BY <2>1, SubmitterBack
  <2>3. proc[t] \in Procs
    BY <2>1 DEF Placed
  <2>4. CASE proc[t] = p
    BY <1>4, <2>1, <2>2, <2>3, <2>4 DEF Crash, LeftForRecovery
  <2>5. CASE proc[t] # p
    <3>1. /\ submitter'[t] = submitter[t] /\ worker'[t] = worker[t]
          /\ procState'[proc'[t]] = procState[proc[t]] /\ toRecover'[proc'[t]] = toRecover[proc[t]]
      BY <1>4, <2>1, <2>3, <2>5 DEF Crash
    <3>2. Unsettled(t) => Unsettled(t)'
      BY <2>1, <3>1 DEF Unsettled
    <3>3. LeftForRecovery(j) => LeftForRecovery(j)'
      BY <2>1, <3>1 DEF LeftForRecovery
    <3> QED
      BY <1>4, <2>1, <2>2, <3>2, <3>3
  <2> QED
    BY <2>4, <2>5
<1> QED
  BY <1>1, <1>2, <1>3, <1>4 DEF ProcStep, BootStep, RecoverSkipped

\* While the database and the threads work, every running row is in the hands of
\* the task that inserted it or of the next boot of that task's process, however
\* many processes crash and boot and whatever is cleared meanwhile.
THEOREM RunningRowsSettled ==
  ASSUME DbMayFail = FALSE, ThreadMayFail = FALSE
  PROVE  Spec => []RunningRowIsSettled
<1>1. Init => RunningRowIsSettled
  BY DEF Init, RunningRowIsSettled, RunningRows
<1>2. TypeOK /\ Placed /\ Life /\ RunningRowIsSettled /\ [Next]_vars => RunningRowIsSettled'
  <2> SUFFICES ASSUME TypeOK, Placed, Life, RunningRowIsSettled, [Next]_vars
               PROVE  RunningRowIsSettled'
    OBVIOUS
  <2> USE DEF tableVars, callVars, procVars
  <2>1. ASSUME NEW t \in Tasks, NEW p \in Procs, NEW l \in Lists, Request(t, p, l)
        PROVE  RunningRowIsSettled'
    <3>1. /\ submitter[t] = "idle"
          /\ \A u \in Tasks \ {t} : /\ submitter'[u] = submitter[u]
                                    /\ proc'[u] = proc[u]
          /\ UNCHANGED <<jobStatus, owner, job, worker, procState, toRecover>>
      BY <2>1 DEF Request, SubmitterStep, TypeOK
    <3>2. ASSUME NEW j \in RunningRows'
          PROVE  j \in RunningRows /\ owner[j] \in Tasks \ {t}
      BY <3>1, <3>2 DEF RunningRows, RunningRowIsSettled
    <3>3. ASSUME NEW j \in RunningRows'
          PROVE  Unsettled(owner[j])' \/ LeftForRecovery(j)'
      BY <3>1, <3>2, <3>3 DEF RunningRowIsSettled, Unsettled, LeftForRecovery
    <3> QED
      BY <3>1, <3>2, <3>3 DEF RunningRowIsSettled
  <2>2. ASSUME NEW t \in Tasks, ImportItem(t) \/ WatchStep(t)
        PROVE  RunningRowIsSettled'
    BY <2>2, SettlerQuiet DEF ImportItem, WatchStep, MonitorWakes, MonitorFires, Unsettled
  <2>3. ASSUME NEW c \in Clearers, NEW ls, ClearReads(c, ls)
        PROVE  RunningRowIsSettled'
    BY <2>3, SettlerQuiet DEF ClearReads, Unsettled
  <2>4. ASSUME NEW c \in Clearers, ClearDeletes(c)
        PROVE  RunningRowIsSettled'
    <3>1. \A j \in RunningRows' : j \in RunningRows /\ owner'[j] = owner[j]
      BY <2>4 DEF ClearDeletes, RunningRows, TypeOK
    <3> QED
      BY <3>1, <2>4, SettlerFewer DEF ClearDeletes, LeftForRecovery
  <2>5. CASE Elapse \/ UNCHANGED vars
    BY <2>5, SettlerQuiet DEF Elapse, vars, Unsettled
  <2> QED
    BY <2>1, <2>2, <2>3, <2>4, <2>5, SettlerSubmit, SettlerExecute, SettlerProc
       DEF Next, TaskStep, ClearStep
<1> QED
  BY <1>1, <1>2, TypeCorrect, LifeInvariant, PTL DEF Spec

\* So without faults and sibling processes no row blocks its list for good.
THEOREM RowsHaveSettlers ==
  ASSUME OneProcess, DbMayFail = FALSE, ThreadMayFail = FALSE
  PROVE  Spec => []RunningRowHasSettler
<1>1. Placed /\ RunningRowIsSettled => RunningRowHasSettler
  <2> SUFFICES ASSUME Placed, RunningRowIsSettled, NEW j \in RunningRows,
                      ~ \E t \in Tasks : Unsettled(t) /\ job[t] = j /\ owner[j] = t
               PROVE  \A p \in Procs : procState[p] # "up"
    BY DEF RunningRowHasSettler
  <2>1. owner[j] \in Tasks /\ submitter[owner[j]] # "idle" /\ LeftForRecovery(j)
    BY DEF RunningRowIsSettled
  <2>2. proc[owner[j]] \in Procs /\ procState[proc[owner[j]]] # "up"
    BY <2>1 DEF Placed, LeftForRecovery
  <2> QED
    BY <2>2 DEF OneProcess
<1> QED
  BY <1>1, RunningRowsSettled, LifeInvariant, PTL

(***************************************************************************)
(* Refinement                                                              *)
(***************************************************************************)

\* An absent row belongs to no list.
AbsentUnlisted == \A j \in JobIds : jobStatus[j] = "none" => jobList[j] = NoList

Marks(t) == MarkCompleted(t) \/ MarkTimeout(t) \/ MarkFailed(t)

\* A step of the executor leaves the table alone, inserts a row, deletes settled
\* rows, or reports outcomes.
LEMMA TableMoves ==
  ASSUME TypeOK, Placed, AbsentUnlisted, RunningKept, [Next]_vars
  PROVE  \/ UNCHANGED Table!vars
         \/ \E j \in JobIds, l \in Lists : Table!Create(j, l)
         \/ \E S \in SUBSET Table!Settled : Table!Clear(S)
         \/ \E t \in Tasks : Marks(t)
         \/ \E p \in Procs : Recover(p)
<1> USE DEF Table!vars
<1>1. CASE UNCHANGED tableVars
  BY <1>1 DEF tableVars
<1>2. ASSUME NEW t \in Tasks, NEW j \in JobIds, InsertRow(t, j)
      PROVE  \E l \in Lists : Table!Create(j, l)
  <2>1. list[t] \in Lists
    BY <1>2 DEF InsertRow, SubmitterStep, Placed
  <2>2. jobStatus[j] = "none"
    BY <1>2 DEF InsertRow, IsNextId, Rows, JobIds
  <2>3. Table!Create(j, list[t])
    BY <2>2, <1>2 DEF InsertRow, SetStatus, ListRunning, RunningRows, Table!Create, Table!Running
  <2> QED
    BY <2>1, <2>3
<1>3. ASSUME NEW c \in Clearers, ClearDeletes(c)
      PROVE  UNCHANGED Table!vars \/ \E S \in SUBSET Table!Settled : Table!Clear(S)
  <2> DEFINE S == {j \in clearing[c] : jobStatus[j] # "none"}
  <2>1. S \in SUBSET Table!Settled
    BY <1>3 DEF ClearDeletes, RunningKept, RunningRows, Table!Settled, TypeOK
  <2>2. /\ jobStatus' = [j \in JobIds |-> IF j \in S THEN "none" ELSE jobStatus[j]]
        /\ jobList' = [j \in JobIds |-> IF j \in S THEN NoList ELSE jobList[j]]
    BY <1>3 DEF ClearDeletes, AbsentUnlisted, TypeOK
  <2> HIDE DEF S
  <2>3. CASE S = {}
    BY <2>2, <2>3 DEF TypeOK
  <2>4. CASE S # {}
    BY <2>1, <2>2, <2>4 DEF Table!Clear
  <2> QED
    BY <2>3, <2>4
<1>4. ASSUME NEW t \in Tasks, TaskStep(t)
      PROVE  \/ UNCHANGED tableVars
             \/ \E j \in JobIds : InsertRow(t, j)
             \/ Marks(t)
  <2>1. CASE SubmitStep(t)
    BY <2>1 DEF SubmitStep, AcquireSubmitLock, CheckRunning, InsertFails,
       RegisterStopEvent, StartMonitor, Enqueue, Attach
  <2>2. CASE ExecuteStep(t)
    BY <2>2 DEF ExecuteStep, Begin, FinishImport, Decide, Marks, UpdateLastRun, Cleanup
  <2> QED
    BY <2>1, <2>2, <1>4 DEF TaskStep, Request, ImportItem, WatchStep, MonitorWakes, MonitorFires
<1>5. ASSUME NEW p \in Procs, ProcStep(p)
      PROVE  UNCHANGED tableVars \/ Recover(p)
  BY <1>5 DEF ProcStep, BootStep, StartTask, Boot, RecoverSkipped, Crash
<1>6. ASSUME NEW c \in Clearers, ClearStep(c)
      PROVE  UNCHANGED tableVars \/ ClearDeletes(c)
  BY <1>6 DEF ClearStep, ClearReads
<1>7. CASE Elapse \/ UNCHANGED vars
  BY <1>7 DEF Elapse, vars, tableVars
<1> QED
  BY <1>1, <1>2, <1>3, <1>4, <1>5, <1>6, <1>7 DEF Next

\* A row gets its list with its status and loses it with the row.
LEMMA UnlistedNext ==
  TypeOK /\ Placed /\ RunningKept /\ AbsentUnlisted /\ [Next]_vars => AbsentUnlisted'
<1> SUFFICES ASSUME TypeOK, Placed, RunningKept, AbsentUnlisted, [Next]_vars
             PROVE  AbsentUnlisted'
  OBVIOUS
<1> USE DEF AbsentUnlisted
<1>1. CASE UNCHANGED Table!vars
  BY <1>1 DEF Table!vars
<1>2. ASSUME NEW j \in JobIds, NEW l \in Lists, Table!Create(j, l)
      PROVE  AbsentUnlisted'
  BY <1>2 DEF Table!Create, TypeOK
<1>3. ASSUME NEW S, Table!Clear(S)
      PROVE  AbsentUnlisted'
  BY <1>3 DEF Table!Clear
<1>4. ASSUME NEW t \in Tasks, Marks(t)
      PROVE  AbsentUnlisted'
  BY <1>4 DEF Marks, MarkCompleted, MarkTimeout, MarkFailed, Mark, WriteStatus,
     SetStatus, Rows, TypeOK
<1>5. ASSUME NEW p \in Procs, Recover(p)
      PROVE  AbsentUnlisted'
  BY <1>5 DEF Recover
<1> QED
  BY <1>1, <1>2, <1>3, <1>4, <1>5, TableMoves

\* With faults, an outcome may come for a row that has one already: jobs are
\* created, get outcomes and are deleted when settled, and nothing else.
LEMMA LooseTableStep ==
  TypeOK /\ Placed /\ RunningKept /\ AbsentUnlisted /\ [Next]_vars
  => [Table!LooseNext]_(Table!vars)
<1> SUFFICES ASSUME TypeOK, Placed, RunningKept, AbsentUnlisted, [Next]_vars
             PROVE  [Table!LooseNext]_(Table!vars)
  OBVIOUS
<1>1. ASSUME NEW t \in Tasks, Marks(t)
      PROVE  [Table!LooseNext]_(Table!vars)
  <2>1. CASE UNCHANGED jobStatus
    BY <1>1, <2>1 DEF Marks, MarkCompleted, MarkTimeout, MarkFailed, Mark, Table!vars
  <2>2. CASE jobStatus' # jobStatus
    <3>1. PICK s \in {"completed", "failed"} :
             job[t] \in Rows /\ jobStatus' = [jobStatus EXCEPT ![job[t]] = s]
      BY <1>1, <2>2 DEF Marks, MarkCompleted, MarkTimeout, MarkFailed, Mark, WriteStatus, SetStatus
    <3>2. {job[t]} \in SUBSET Table!Present
      BY <3>1 DEF Table!Present, Rows
    <3>3. Table!Settle({job[t]}, s)
      BY <1>1, <3>1 DEF Table!Settle, TypeOK, Marks, MarkCompleted, MarkTimeout, MarkFailed, Mark
    <3> QED
      BY <3>2, <3>3 DEF Table!LooseNext
  <2> QED
    BY <2>1, <2>2
<1>2. ASSUME NEW p \in Procs, Recover(p)
      PROVE  [Table!LooseNext]_(Table!vars)
  <2>1. CASE UNCHANGED jobStatus
    BY <1>2, <2>1 DEF Recover, Table!vars
  <2>2. CASE jobStatus' # jobStatus
    <3>1. /\ toRecover[p] \in SUBSET Table!Present /\ toRecover[p] # {}
          /\ Table!Settle(toRecover[p], "failed")
      BY <1>2, <2>2 DEF Recover, Rows, Table!Present, Table!Settle, TypeOK
    <3> QED
      BY <3>1 DEF Table!LooseNext
  <2> QED
    BY <2>1, <2>2
<1> QED
  BY <1>1, <1>2, TableMoves DEF Table!LooseNext

LEMMA UnlistedInvariant == Spec /\ RunningRowsAreKept => []AbsentUnlisted
<1>1. Init => AbsentUnlisted
  BY DEF Init, AbsentUnlisted
<1> QED
  BY <1>1, UnlistedNext, RulesStutter, TypeCorrect, LifeInvariant, PTL
     DEF Spec, RunningRowsAreKept, RunningKept

\* Whatever processes, threads and the database do, the table stays a history of
\* jobs: a row is created running, for a list without a running row; then it only
\* gets outcomes; it never runs again; and it is deleted when it is settled.
THEOREM ExecutorImplementsLooseTable == Spec /\ RunningRowsAreKept => LooseTableSpec
<1>1. Init => Table!Init
  BY DEF Init, Table!Init
<1>2. UNCHANGED vars => RunningKept
  BY RulesStutter
<1> QED
  BY <1>1, <1>2, LooseTableStep, UnlistedInvariant, TypeCorrect, LifeInvariant, PTL
     DEF Spec, RunningRowsAreKept, RunningKept, LooseTableSpec, Table!LooseSpec

\* One clearing request at a time is enough for that, under all other faults.
THEOREM FaultyImplementsLooseTable ==
  ASSUME OneClearer
  PROVE  Spec => LooseTableSpec
  BY ExecutorImplementsLooseTable, ClearKeepsRunning, PTL

\* Without database faults, and if recovery takes the rows of the dead only,
\* each job settles once.
LEMMA TableStep ==
  ASSUME DbMayFail = FALSE
  PROVE  /\ TypeOK /\ Placed /\ Life /\ RowHeld /\ AbsentUnlisted /\ RunningKept
         /\ RecoversTheDead /\ [Next]_vars
         => [Table!Next]_(Table!vars)
<1> SUFFICES ASSUME TypeOK, Placed, Life, RowHeld, AbsentUnlisted, RunningKept,
                    RecoversTheDead, [Next]_vars
             PROVE  [Table!Next]_(Table!vars)
  OBVIOUS
<1>1. ASSUME NEW t \in Tasks, Marks(t)
      PROVE  [Table!Next]_(Table!vars)
  <2>1. Unsettled(t)
    BY <1>1 DEF Marks, MarkCompleted, MarkTimeout, MarkFailed, Mark, WorkerStep, Unsettled, Executing
  <2>2. {job[t]} \in SUBSET Table!Running /\ job[t] \in Rows
    BY <2>1 DEF RowHeld, Table!Running, Rows
  <2>3. PICK s \in {"completed", "failed"} : jobStatus' = [jobStatus EXCEPT ![job[t]] = s]
    BY <1>1, <2>2 DEF Marks, MarkCompleted, MarkTimeout, MarkFailed, Mark, WriteStatus, SetStatus
  <2>4. Table!Settle({job[t]}, s)
    BY <1>1, <2>3 DEF Table!Settle, TypeOK, Marks, MarkCompleted, MarkTimeout, MarkFailed, Mark
  <2> QED
    BY <2>2, <2>4 DEF Table!Next
<1>2. ASSUME NEW p \in Procs, Recover(p)
      PROVE  [Table!Next]_(Table!vars)
  <2> DEFINE S == {j \in JobIds : jobStatus'[j] # jobStatus[j]}
  <2>1. S \in SUBSET Table!Running
    BY <1>2 DEF RecoversTheDead, Table!Running
  <2>2. jobStatus' = [j \in JobIds |-> IF j \in S THEN "failed" ELSE jobStatus[j]]
    BY <1>2 DEF Recover, TypeOK
  <2>3. UNCHANGED jobList
    BY <1>2 DEF Recover
  <2> HIDE DEF S
  <2>4. CASE S = {}
    BY <2>2, <2>3, <2>4 DEF TypeOK, Table!vars
  <2>5. CASE S # {}
    BY <2>1, <2>2, <2>3, <2>5 DEF Table!Settle, Table!Next
  <2> QED
    BY <2>4, <2>5
<1> QED
  BY <1>1, <1>2, TableMoves DEF Table!Next

\* Under the same rules the processes together implement the jobs table.
THEOREM ProcessesImplementTable ==
  ASSUME DbMayFail = FALSE
  PROVE  Spec /\ RunningRowsAreKept /\ [][RecoversTheDead]_vars => TableSpec
<1>1. Init => Table!Init
  BY DEF Init, Table!Init
<1> QED
  BY <1>1, TableStep, RulesStutter, UnlistedInvariant, HeldInvariant, TypeCorrect,
     LifeInvariant, PTL
     DEF Spec, RunningRowsAreKept, RunningKept, TableSpec, Table!Spec

\* Without faults and sibling processes the executor implements the jobs
\* table: jobs settle once, and only settled jobs are deleted.
THEOREM ExecutorImplementsTable ==
  ASSUME Reliable
  PROVE  Spec => TableSpec
  BY ProcessesImplementTable, RecoveryByOneProcess, ClearKeepsRunning, PTL DEF Reliable

=============================================================================
