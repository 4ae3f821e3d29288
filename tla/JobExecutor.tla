----------------------------- MODULE JobExecutor -----------------------------
(***************************************************************************)
(* Background import jobs: listarr/services/job_executor.py, the jobs      *)
(* table, the recovery that create_app runs when a worker process boots,   *)
(* and the clearing of the job history.                                    *)
(*                                                                         *)
(* A task is one call of submit_job.  Three threads work for it: the       *)
(* submitter (a request or scheduler thread), a worker thread of the       *)
(* ThreadPoolExecutor of its process, and the idle monitor.  Everything    *)
(* but the jobs table is private to a worker process and dies with it.     *)
(***************************************************************************)
EXTENDS Naturals, Sequences, FiniteSets

CONSTANTS
    Procs,          \* worker processes (gunicorn workers)
    Tasks,          \* calls of submit_job
    Lists,          \* lists to import
    Clearers,       \* requests that clear the job history
    NoTask, NoProc, NoList,
    MaxJobs,        \* bound: highest primary key of the jobs table
    MaxWorkers,     \* MAX_WORKERS, threads of one executor
    IdleTimeout,    \* IDLE_TIMEOUT_SECONDS in units of Elapse
    MaxCrashes,     \* bound: crashes of worker processes
    DbMayFail,      \* TRUE: a query or a commit may raise OperationalError
    ThreadMayFail   \* TRUE: starting a thread may raise RuntimeError

JobIds == 1..MaxJobs

ASSUME SentinelsAssumption ==
    NoTask \notin Tasks /\ NoProc \notin Procs /\ NoList \notin Lists
ASSUME BoundsAssumption ==
    /\ MaxJobs \in Nat /\ MaxCrashes \in Nat
    /\ MaxWorkers \in Nat \ {0} /\ IdleTimeout \in Nat \ {0}
ASSUME FaultsAssumption == DbMayFail \in BOOLEAN /\ ThreadMayFail \in BOOLEAN

VARIABLES
    jobStatus,      \* jobs.status, "none" for an absent row
    jobList,        \* jobs.list_id
    owner,          \* history: the task that inserted the row
    procState,      \* "down", "recovering" (in create_app) or "up"
    toRecover,      \* rows a booting process has read as running
    crashes,        \* crashes so far
    submitLock,     \* _submit_lock of each process: its holder
    stopEvents,     \* _stop_events of each process: whose event is registered
    queue,          \* work queue of the executor of each process
    submitter,      \* control point of the task's submitter
    worker,         \* control point of the task's worker thread
    monitor,        \* control point of the task's idle monitor
    proc, list, job,\* process, list and job id of the task
    stopped,        \* stop_event.is_set()
    monitorStop,    \* monitor_stop.is_set()
    idle,           \* ActivityTracker.idle_seconds, up to IdleTimeout
    clearing        \* rows a clearing request is about to delete

tableVars == <<jobStatus, jobList, owner>>
procVars == <<procState, toRecover, crashes>>
sharedVars == <<submitLock, stopEvents, queue>>
callVars == <<proc, list, job>>
eventVars == <<stopped, monitorStop, idle>>
vars == <<tableVars, procVars, sharedVars, submitter, worker, monitor,
          callVars, eventVars, clearing>>

\* What a step of a submitter inside or outside the lock, of a worker thread,
\* of a monitor or of a booting process leaves alone.
submitFrame == <<tableVars, procVars, sharedVars, worker, monitor, callVars, eventVars, clearing>>
lockFrame == <<tableVars, procVars, stopEvents, queue, worker, monitor, callVars, eventVars, clearing>>
workFrame == <<tableVars, procVars, sharedVars, submitter, monitor, callVars, eventVars, clearing>>
watchFrame == <<tableVars, procVars, sharedVars, submitter, worker, callVars, eventVars, clearing>>
bootFrame == <<tableVars, crashes, sharedVars, submitter, worker, monitor, callVars, eventVars, clearing>>

----------------------------------------------------------------------------
(* Control points                                                          *)

Submitting == {"wait", "check", "insert", "register", "monitor", "enqueue", "attach"}
InLock == {"check", "insert"}
SubmitterPoints == Submitting \cup {"idle", "returned", "rejected", "error", "killed"}

Executing == {"begin", "import", "decide", "markCompleted", "lastRun",
              "markTimeout", "markFailed"}
WorkerPoints == Executing \cup {"none", "queued", "done", "cleaned", "killed"}

MonitorPoints == {"none", "watching", "firing", "ended"}

SubmitterStep(t, from, to) ==
    submitter[t] = from /\ submitter' = [submitter EXCEPT ![t] = to]
WorkerStep(t, from, to) ==
    worker[t] = from /\ worker' = [worker EXCEPT ![t] = to]
MonitorStep(t, from, to) ==
    monitor[t] = from /\ monitor' = [monitor EXCEPT ![t] = to]

ReleaseSubmitLock(t) == submitLock' = [submitLock EXCEPT ![proc[t]] = NoTask]

----------------------------------------------------------------------------
(* The jobs table                                                          *)

Rows == {j \in JobIds : jobStatus[j] # "none"}
RunningRows == {j \in JobIds : jobStatus[j] = "running"}
ListRunning(l) == \E j \in RunningRows : jobList[j] = l

\* Mutant: the filter on the status is forgotten.
ClearableAnyStatus(ls) == {j \in Rows : jobList[j] \in ls}

\* The rows _clear_jobs selects: settled, of any list or of one.
Clearable(ls) ==
    {j \in JobIds : jobStatus[j] \in {"completed", "failed"} /\ jobList[j] \in ls}

\* SQLite gives an INTEGER PRIMARY KEY without AUTOINCREMENT the highest
\* key in use plus one: keys of deleted rows come back.
IsNextId(j) ==
    /\ \A i \in Rows : i < j
    /\ j = 1 \/ j - 1 \in Rows

SetStatus(j, s) == jobStatus' = [jobStatus EXCEPT ![j] = s]

----------------------------------------------------------------------------
Init ==
    /\ jobStatus = [j \in JobIds |-> "none"]
    /\ jobList = [j \in JobIds |-> NoList]
    /\ owner = [j \in JobIds |-> NoTask]
    /\ procState = [p \in Procs |-> "down"]
    /\ toRecover = [p \in Procs |-> {}]
    /\ crashes = 0
    /\ submitLock = [p \in Procs |-> NoTask]
    /\ stopEvents = [p \in Procs |-> [j \in JobIds |-> NoTask]]
    /\ queue = [p \in Procs |-> << >>]
    /\ submitter = [t \in Tasks |-> "idle"]
    /\ worker = [t \in Tasks |-> "none"]
    /\ monitor = [t \in Tasks |-> "none"]
    /\ proc = [t \in Tasks |-> NoProc]
    /\ list = [t \in Tasks |-> NoList]
    /\ job = [t \in Tasks |-> 0]
    /\ stopped = [t \in Tasks |-> FALSE]
    /\ monitorStop = [t \in Tasks |-> FALSE]
    /\ idle = [t \in Tasks |-> 0]
    /\ clearing = [c \in Clearers |-> {}]

----------------------------------------------------------------------------
(* submit_job                                                              *)

\* A route or the scheduler calls submit_job in a process that serves.
Request(t, p, l) ==
    /\ procState[p] = "up"
    /\ SubmitterStep(t, "idle", "wait")
    /\ proc' = [proc EXCEPT ![t] = p]
    /\ list' = [list EXCEPT ![t] = l]
    /\ UNCHANGED <<tableVars, procVars, sharedVars, worker, monitor, job,
                   eventVars, clearing>>

\* Mutant: no lock around check and INSERT.
AcquireNothing(t) ==
    /\ SubmitterStep(t, "wait", "check")
    /\ UNCHANGED submitFrame

\* with _submit_lock
AcquireSubmitLock(t) ==
    /\ SubmitterStep(t, "wait", "check")
    /\ submitLock[proc[t]] = NoTask
    /\ submitLock' = [submitLock EXCEPT ![proc[t]] = t]
    /\ UNCHANGED lockFrame

\* Mutant: the lock is not released when the check raises.
CheckRunningKeepsLock(t) ==
    /\ \/ ~ListRunning(list[t]) /\ SubmitterStep(t, "check", "insert")
       \/ ListRunning(list[t]) /\ SubmitterStep(t, "check", "rejected")
       \/ DbMayFail /\ SubmitterStep(t, "check", "error")
    /\ UNCHANGED submitFrame

\* is_list_running: go on, or raise ValueError (or the database's error).
CheckRunning(t) ==
    /\ \/ /\ ~ListRunning(list[t])
          /\ SubmitterStep(t, "check", "insert")
          /\ UNCHANGED submitLock
       \/ /\ ListRunning(list[t])
          /\ SubmitterStep(t, "check", "rejected")
          /\ ReleaseSubmitLock(t)
       \/ /\ DbMayFail
          /\ SubmitterStep(t, "check", "error")
          /\ ReleaseSubmitLock(t)
    /\ UNCHANGED lockFrame

\* Mutant: the table has no unique index.
InsertRowUnindexed(t, j) ==
    /\ IsNextId(j)
    /\ SubmitterStep(t, "insert", "register")
    /\ SetStatus(j, "running")
    /\ jobList' = [jobList EXCEPT ![j] = list[t]]
    /\ owner' = [owner EXCEPT ![j] = t]
    /\ job' = [job EXCEPT ![t] = j]
    /\ ReleaseSubmitLock(t)
    /\ UNCHANGED <<procVars, stopEvents, queue, worker, monitor, proc, list,
                   eventVars, clearing>>

\* INSERT and COMMIT.  The partial unique index admits the row only while
\* no running row has its list; IntegrityError becomes ValueError.  Reading
\* job.id after the commit is a query that may raise: the row stays, for no one.
InsertRow(t, j) ==
    /\ IsNextId(j)
    /\ ~ListRunning(list[t])
    /\ \/ SubmitterStep(t, "insert", "register")
       \/ DbMayFail /\ SubmitterStep(t, "insert", "error")
    /\ SetStatus(j, "running")
    /\ jobList' = [jobList EXCEPT ![j] = list[t]]
    /\ owner' = [owner EXCEPT ![j] = t]
    /\ job' = [job EXCEPT ![t] = j]
    /\ ReleaseSubmitLock(t)
    /\ UNCHANGED <<procVars, stopEvents, queue, worker, monitor, proc, list,
                   eventVars, clearing>>

InsertFails(t) ==
    /\ \/ ListRunning(list[t]) /\ SubmitterStep(t, "insert", "rejected")
       \/ DbMayFail /\ SubmitterStep(t, "insert", "error")
    /\ ReleaseSubmitLock(t)
    /\ UNCHANGED lockFrame

\* _stop_events[job_id] = stop_event
RegisterStopEvent(t) ==
    /\ SubmitterStep(t, "register", "monitor")
    /\ stopEvents' = [stopEvents EXCEPT ![proc[t]][job[t]] = t]
    /\ UNCHANGED <<tableVars, procVars, submitLock, queue, worker, monitor,
                   callVars, eventVars, clearing>>

\* The tracker starts at zero with the monitor thread, before the job does.
StartMonitor(t) ==
    /\ \/ /\ SubmitterStep(t, "monitor", "enqueue")
          /\ MonitorStep(t, "none", "watching")
       \/ /\ ThreadMayFail
          /\ SubmitterStep(t, "monitor", "error")
          /\ UNCHANGED monitor
    /\ UNCHANGED <<tableVars, procVars, sharedVars, worker, callVars,
                   eventVars, clearing>>

\* get_executor().submit(_execute_job, ...)
Enqueue(t) ==
    /\ \/ /\ SubmitterStep(t, "enqueue", "attach")
          /\ WorkerStep(t, "none", "queued")
          /\ queue' = [queue EXCEPT ![proc[t]] = Append(@, t)]
       \/ /\ ThreadMayFail
          /\ SubmitterStep(t, "enqueue", "error")
          /\ UNCHANGED <<worker, queue>>
    /\ UNCHANGED <<tableVars, procVars, submitLock, stopEvents, monitor,
                   callVars, eventVars, clearing>>

\* future.add_done_callback(cleanup); return job_id
Attach(t) ==
    /\ SubmitterStep(t, "attach", "returned")
    /\ UNCHANGED submitFrame

----------------------------------------------------------------------------
(* _execute_job                                                            *)

Busy(p) == {t \in Tasks : proc[t] = p /\ worker[t] \in Executing}

\* A free worker thread of process p takes the oldest task of its queue.
StartTask(p) ==
    /\ queue[p] # << >>
    /\ Cardinality(Busy(p)) < MaxWorkers
    /\ WorkerStep(Head(queue[p]), "queued", "begin")
    /\ queue' = [queue EXCEPT ![p] = Tail(@)]
    /\ UNCHANGED <<tableVars, procVars, submitLock, stopEvents, submitter,
                   monitor, callVars, eventVars, clearing>>

\* Mutant: the early return of a stopped job does not mark it.
BeginUnmarked(t) ==
    /\ WorkerStep(t, "begin", IF stopped[t] THEN "done" ELSE "import")
    /\ UNCHANGED workFrame

\* A job stopped while it was queued fails before execution.
Begin(t) ==
    /\ WorkerStep(t, "begin", IF stopped[t] THEN "markFailed" ELSE "import")
    /\ UNCHANGED workFrame

\* activity_tracker.update() after an item or a batch
ImportItem(t) ==
    /\ worker[t] = "import"
    /\ idle[t] > 0
    /\ idle' = [idle EXCEPT ![t] = 0]
    /\ UNCHANGED <<tableVars, procVars, sharedVars, submitter, worker,
                   monitor, callVars, stopped, monitorStop, clearing>>

\* import_list returns its result, complete or cut short by the stop event,
\* or raises.
FinishImport(t) ==
    /\ \E next \in {"decide", "markFailed"} : WorkerStep(t, "import", next)
    /\ UNCHANGED workFrame

Decide(t) ==
    /\ WorkerStep(t, "decide", IF stopped[t] THEN "markTimeout" ELSE "markCompleted")
    /\ UNCHANGED workFrame

\* What a _mark_* function does to the row of t: nothing if it is gone.
WriteStatus(t, s) ==
    IF job[t] \in Rows THEN SetStatus(job[t], s) ELSE UNCHANGED jobStatus

\* A _mark_* call in the try block writes s and goes to next.  Under a fault
\* a query that raises leads to the except clause (raised); a flush or commit
\* that raises leaves a session that refuses every further query, so that
\* _mark_job_failed raises too and the row stays as it is.
Mark(t, from, s, next, raised) ==
    /\ \/ WriteStatus(t, s) /\ WorkerStep(t, from, next)
       \/ /\ DbMayFail
          /\ WorkerStep(t, from, raised) \/ WorkerStep(t, from, "done")
          /\ UNCHANGED jobStatus
    /\ UNCHANGED <<jobList, owner, procVars, sharedVars, submitter, monitor,
                   callVars, eventVars, clearing>>

MarkCompleted(t) == Mark(t, "markCompleted", "completed", "lastRun", "markFailed")
\* Mutants: a status no reader knows; a timeout that keeps the status.
MarkTimeoutAsTimeout(t) == Mark(t, "markTimeout", "timeout", "done", "markFailed")
MarkTimeoutRunning(t) == Mark(t, "markTimeout", "running", "done", "markFailed")
MarkTimeout(t) == Mark(t, "markTimeout", "failed", "done", "markFailed")
MarkFailed(t) == Mark(t, "markFailed", "failed", "done", "done")

\* list_obj.last_run_at = now, inside the same try block
UpdateLastRun(t) ==
    /\ \/ WorkerStep(t, "lastRun", "done")
       \/ DbMayFail /\ WorkerStep(t, "lastRun", "markFailed")
    /\ UNCHANGED workFrame

\* Mutants: the event is kept; the event of the newest job is removed.
CleanupMonitorOnly(t) ==
    /\ submitter[t] = "returned"
    /\ WorkerStep(t, "done", "cleaned")
    /\ monitorStop' = [monitorStop EXCEPT ![t] = TRUE]
    /\ UNCHANGED <<tableVars, procVars, sharedVars, submitter, monitor,
                   callVars, stopped, idle, clearing>>
CleanupNewest(t) ==
    /\ submitter[t] = "returned"
    /\ WorkerStep(t, "done", "cleaned")
    /\ monitorStop' = [monitorStop EXCEPT ![t] = TRUE]
    /\ \E j \in Rows :
          /\ \A i \in Rows : i <= j
          /\ stopEvents' = [stopEvents EXCEPT ![proc[t]][j] = NoTask]
    /\ UNCHANGED <<tableVars, procVars, submitLock, queue, submitter, monitor,
                   callVars, stopped, idle, clearing>>

\* The done callback: it runs once the future is done and it is attached,
\* and removes the stop event registered under the id of the job.
Cleanup(t) ==
    /\ submitter[t] = "returned"
    /\ WorkerStep(t, "done", "cleaned")
    /\ monitorStop' = [monitorStop EXCEPT ![t] = TRUE]
    /\ stopEvents' = [stopEvents EXCEPT ![proc[t]][job[t]] = NoTask]
    /\ UNCHANGED <<tableVars, procVars, submitLock, queue, submitter, monitor,
                   callVars, stopped, idle, clearing>>

----------------------------------------------------------------------------
(* _monitor_idle                                                           *)

\* Time passes for every tracker alike.
Elapse ==
    /\ \E t \in Tasks : monitor[t] = "watching" /\ idle[t] < IdleTimeout
    /\ idle' = [t \in Tasks |->
                  IF monitor[t] = "watching" /\ idle[t] < IdleTimeout
                  THEN idle[t] + 1 ELSE idle[t]]
    /\ UNCHANGED <<tableVars, procVars, sharedVars, submitter, worker,
                   monitor, callVars, stopped, monitorStop, clearing>>

\* The monitor wakes up: it ends, or finds the job idle, or waits again.
MonitorWakes(t) ==
    /\ \/ monitorStop[t] /\ MonitorStep(t, "watching", "ended")
       \/ /\ ~monitorStop[t] /\ idle[t] >= IdleTimeout
          /\ MonitorStep(t, "watching", "firing")
    /\ UNCHANGED watchFrame

\* Mutant: the break after firing is missing.
MonitorFiresForever(t) ==
    /\ MonitorStep(t, "firing", "watching")
    /\ stopped' = [u \in Tasks |-> stopped[u] \/ stopEvents[proc[t]][job[t]] = u]
    /\ UNCHANGED <<tableVars, procVars, sharedVars, submitter, worker, callVars,
                   monitorStop, idle, clearing>>

\* with _stop_events_lock: set the event registered under the job's id.
MonitorFires(t) ==
    /\ MonitorStep(t, "firing", "ended")
    /\ stopped' = [u \in Tasks |-> stopped[u] \/ stopEvents[proc[t]][job[t]] = u]
    /\ UNCHANGED <<tableVars, procVars, sharedVars, submitter, worker, callVars,
                   monitorStop, idle, clearing>>

----------------------------------------------------------------------------
(* Worker processes                                                        *)

\* A process dies: its threads, locks, events and queue go with it.
Crash(p) ==
    /\ procState[p] # "down"
    /\ crashes < MaxCrashes
    /\ crashes' = crashes + 1
    /\ procState' = [procState EXCEPT ![p] = "down"]
    /\ toRecover' = [toRecover EXCEPT ![p] = {}]
    /\ submitLock' = [submitLock EXCEPT ![p] = NoTask]
    /\ stopEvents' = [stopEvents EXCEPT ![p] = [j \in JobIds |-> NoTask]]
    /\ queue' = [queue EXCEPT ![p] = << >>]
    /\ submitter' = [t \in Tasks |->
                       IF proc[t] = p /\ submitter[t] \in Submitting
                       THEN "killed" ELSE submitter[t]]
    /\ worker' = [t \in Tasks |->
                    IF proc[t] = p /\ worker[t] \in Executing \cup {"queued", "done"}
                    THEN "killed" ELSE worker[t]]
    /\ monitor' = [t \in Tasks |->
                     IF proc[t] = p /\ monitor[t] \in {"watching", "firing"}
                     THEN "ended" ELSE monitor[t]]
    /\ UNCHANGED <<tableVars, callVars, eventVars, clearing>>

\* Mutant: recovery takes every row.
BootTakesAllRows(p) ==
    /\ procState[p] = "down"
    /\ procState' = [procState EXCEPT ![p] = "recovering"]
    /\ toRecover' = [toRecover EXCEPT ![p] = Rows]
    /\ UNCHANGED bootFrame

\* create_app: recover_interrupted_jobs reads the running rows ...
Boot(p) ==
    /\ procState[p] = "down"
    /\ procState' = [procState EXCEPT ![p] = "recovering"]
    /\ toRecover' = [toRecover EXCEPT ![p] = RunningRows]
    /\ UNCHANGED bootFrame

\* ... and fails them in one commit.  A row deleted in between makes the
\* flush raise StaleDataError, which nothing catches: the boot fails.
Recover(p) ==
    /\ procState[p] = "recovering"
    /\ \/ /\ toRecover[p] \subseteq Rows
          /\ jobStatus' = [j \in JobIds |->
                             IF j \in toRecover[p] THEN "failed" ELSE jobStatus[j]]
          /\ procState' = [procState EXCEPT ![p] = "up"]
       \/ /\ ~(toRecover[p] \subseteq Rows)
          /\ procState' = [procState EXCEPT ![p] = "down"]
          /\ UNCHANGED jobStatus
    /\ toRecover' = [toRecover EXCEPT ![p] = {}]
    /\ UNCHANGED <<jobList, owner, crashes, sharedVars, submitter, worker,
                   monitor, callVars, eventVars, clearing>>

\* The read or the commit raises OperationalError, which is caught and taken
\* for a missing table: the process serves without having recovered.
RecoverSkipped(p) ==
    /\ DbMayFail
    /\ procState[p] = "recovering"
    /\ procState' = [procState EXCEPT ![p] = "up"]
    /\ toRecover' = [toRecover EXCEPT ![p] = {}]
    /\ UNCHANGED bootFrame

----------------------------------------------------------------------------
(* _clear_jobs                                                             *)

\* The ids of the settled rows of all lists or of one are read ...
ClearReads(c, ls) ==
    /\ clearing[c] = {}
    /\ Clearable(ls) # {}
    /\ clearing' = [clearing EXCEPT ![c] = Clearable(ls)]
    /\ UNCHANGED <<tableVars, procVars, sharedVars, submitter, worker,
                   monitor, callVars, eventVars>>

\* ... and the rows with these ids are deleted, whatever they are by now.
ClearDeletes(c) ==
    /\ clearing[c] # {}
    /\ jobStatus' = [j \in JobIds |->
                       IF j \in clearing[c] THEN "none" ELSE jobStatus[j]]
    /\ jobList' = [j \in JobIds |->
                     IF j \in clearing[c] THEN NoList ELSE jobList[j]]
    /\ owner' = [j \in JobIds |->
                   IF j \in clearing[c] THEN NoTask ELSE owner[j]]
    /\ clearing' = [clearing EXCEPT ![c] = {}]
    /\ UNCHANGED <<procVars, sharedVars, submitter, worker, monitor, callVars,
                   eventVars>>

----------------------------------------------------------------------------
SubmitStep(t) ==
    \/ AcquireSubmitLock(t)
    \/ CheckRunning(t)
    \/ \E j \in JobIds : InsertRow(t, j)
    \/ InsertFails(t)
    \/ RegisterStopEvent(t)
    \/ StartMonitor(t)
    \/ Enqueue(t)
    \/ Attach(t)

ExecuteStep(t) ==
    \/ Begin(t)
    \/ FinishImport(t)
    \/ Decide(t)
    \/ MarkCompleted(t)
    \/ MarkTimeout(t)
    \/ MarkFailed(t)
    \/ UpdateLastRun(t)
    \/ Cleanup(t)

WatchStep(t) == MonitorWakes(t) \/ MonitorFires(t)

BootStep(p) == Boot(p) \/ Recover(p)

ClearStep(c) ==
    \/ \E ls \in {Lists} \cup {{l} : l \in Lists} : ClearReads(c, ls)
    \/ ClearDeletes(c)

TaskStep(t) ==
    \/ \E p \in Procs, l \in Lists : Request(t, p, l)
    \/ SubmitStep(t)
    \/ ExecuteStep(t)
    \/ ImportItem(t)
    \/ WatchStep(t)

ProcStep(p) == StartTask(p) \/ BootStep(p) \/ RecoverSkipped(p) \/ Crash(p)

Next ==
    \/ \E t \in Tasks : TaskStep(t)
    \/ \E p \in Procs : ProcStep(p)
    \/ \E c \in Clearers : ClearStep(c)
    \/ Elapse

Spec == Init /\ [][Next]_vars

(***************************************************************************)
(* Threads that can run are run; time passes; gunicorn restarts a dead     *)
(* worker.  An import ends: it handles finitely many items and every HTTP  *)
(* call it makes has a timeout.  Nothing obliges anyone to submit, to      *)
(* clear or to crash.                                                      *)
(***************************************************************************)
Fairness ==
    /\ \A t \in Tasks : /\ WF_vars(SubmitStep(t))
                        /\ WF_vars(ExecuteStep(t))
                        /\ WF_vars(WatchStep(t))
    /\ \A p \in Procs : WF_vars(StartTask(p)) /\ WF_vars(BootStep(p))
    /\ WF_vars(Elapse)

FairSpec == Spec /\ Fairness

----------------------------------------------------------------------------
(* Properties                                                              *)

\* Every variable keeps its type.
TypeOK ==
    /\ jobStatus \in [JobIds -> {"none", "running", "completed", "failed"}]
    /\ jobList \in [JobIds -> Lists \cup {NoList}]
    /\ owner \in [JobIds -> Tasks \cup {NoTask}]
    /\ procState \in [Procs -> {"down", "recovering", "up"}]
    /\ toRecover \in [Procs -> SUBSET JobIds]
    /\ crashes \in 0..MaxCrashes
    /\ submitLock \in [Procs -> Tasks \cup {NoTask}]
    /\ stopEvents \in [Procs -> [JobIds -> Tasks \cup {NoTask}]]
    /\ queue \in [Procs -> Seq(Tasks)]
    /\ submitter \in [Tasks -> SubmitterPoints]
    /\ worker \in [Tasks -> WorkerPoints]
    /\ monitor \in [Tasks -> MonitorPoints]
    /\ proc \in [Tasks -> Procs \cup {NoProc}]
    /\ list \in [Tasks -> Lists \cup {NoList}]
    /\ job \in [Tasks -> JobIds \cup {0}]
    /\ stopped \in [Tasks -> BOOLEAN]
    /\ monitorStop \in [Tasks -> BOOLEAN]
    /\ idle \in [Tasks -> 0..IdleTimeout]
    /\ clearing \in [Clearers -> SUBSET JobIds]

\* From the commit of its row to the write of its outcome a task is unsettled.
Unsettled(t) ==
    \/ submitter[t] \in {"register", "monitor", "enqueue"}
    \/ worker[t] \in {"queued"} \cup (Executing \ {"lastRun"})

\* No list has two running rows, whichever processes and threads submit, fail
\* or recover: the promise of ix_jobs_one_running_per_list (jobs_model.py).
OneRunningPerList ==
    \A i, j \in RunningRows : jobList[i] = jobList[j] => i = j

\* No list is imported by two worker threads at once, so that no item of it
\* is sent twice to Radarr or Sonarr: what submit_job's ValueError is for.
OneImportPerList ==
    \A t, u \in Tasks :
        worker[t] = "import" /\ worker[u] = "import" /\ list[t] = list[u] => t = u

\* Between is_list_running and the INSERT no other thread of the process gets
\* a row for the same list: _submit_lock closes the check-then-create gap, and
\* a single process never meets the IntegrityError.
CheckedListStaysFree ==
    \A t \in Tasks : submitter[t] = "insert" => ~ListRunning(list[t])

\* The submit lock of a process is held exactly by the thread between check
\* and commit, through rejections, database errors and crashes.
SubmitLockIsHeldInside ==
    \A p \in Procs, t \in Tasks :
        submitLock[p] = t <=> proc[t] = p /\ submitter[t] \in InLock

\* A running row is in the hands of a task that will settle it, or its process
\* is down and recovery will: no row blocks its list for good.
RunningRowHasSettler ==
    \A j \in RunningRows :
        \/ \E t \in Tasks : Unsettled(t) /\ job[t] = j /\ owner[j] = t
        \/ \A p \in Procs : procState[p] # "up"

\* Until its import is over, the event a queued or executing job watches is
\* the one its idle monitor will find under the job's id.
StopEventReachable ==
    \A t \in Tasks :
        worker[t] \in {"queued", "begin", "import"} => stopEvents[proc[t]][job[t]] = t

\* Clearing the history deletes settled rows only.
RunningRowsAreKept ==
    [][\A j \in RunningRows : jobStatus'[j] # "none"]_vars

\* The threads, locks and processes implement the jobs table of JobTable.
Table == INSTANCE JobTable WITH status <- jobStatus, of <- jobList
TableSpec == Table!Spec

\* Under all faults they implement the weaker promise: a row never runs again.
LooseTableSpec == Table!LooseSpec

\* Every running row settles: no list stays blocked.
JobsSettle ==
    \A j \in JobIds : jobStatus[j] = "running" ~> jobStatus[j] # "running"

\* Every call of submit_job returns or raises, or its process dies.
SubmissionsEnd ==
    \A t \in Tasks :
        submitter[t] = "wait" ~> submitter[t] \in {"returned", "rejected", "error", "killed"}

\* Every monitor thread ends, that of a job that never started included.
MonitorsEnd == \A t \in Tasks : monitor[t] = "watching" ~> monitor[t] = "ended"

\* _stop_events does not grow: every registered event is removed again.
StopEventsDrain ==
    \A p \in Procs, j \in JobIds, t \in Tasks :
        stopEvents[p][j] = t ~> stopEvents[p][j] # t

=============================================================================
