------------------------------ MODULE Scheduler ------------------------------
(***************************************************************************)
(* The schedules of the lists (listarr/services/scheduler.py) and the      *)
(* routes that change them.  Every worker process serves requests, one of  *)
(* them (Main) runs APScheduler.  The lists table is what users see; the   *)
(* job store of APScheduler, in the memory of Main, is what fires.         *)
(*                                                                         *)
(* A request is a sequence of steps that touch the database, the job store *)
(* or the lock; everything between two of them is local to its thread.     *)
(* Cron expressions are valid here: routes store no other.                 *)
(***************************************************************************)
EXTENDS TzMemo

CONSTANTS
    Main,       \* the process that runs the scheduler
    Poll,       \* the thread of _tz_poll_tick
    MaxList,    \* bound: ids of lists
    Crons, NoCron,
    Zones,      \* zones that load
    Fallback,   \* the zone of the TZ variable, or UTC
    NoZone, NoRow, NoJob, NoOne,
    StartRows,  \* bound: rows at the start
    StartFlags, \* bound: the scheduler_paused column at the start
    OpsOf,      \* the kinds of requests that a thread serves
    MaxRequests, MaxFaults, MaxCrashes  \* bounds

Lists == 1..MaxList
Actors == Threads \cup {Poll}
Ops == {"edit", "update", "toggle", "create", "delete", "save", "page", "pause", "resume",
        "connect"}
Rows == [cron : Crons \cup {NoCron}, active : BOOLEAN]
Jobs == [cron : Crons, zone : Zones]
Requests == [
    pc : {"idle", "commit", "reread", "build", "add", "remove", "drop", "erase",
          "flag", "invalidate", "ask", "await", "rows", "apply", "stamp", "compare"},
    op : Ops \cup {"none"}, list : Lists \cup {0},
    seen : Rows \cup {NoRow}, want : Rows \cup {NoRow}, cron : Crons \cup {NoCron},
    zone : Zones \cup {NoZone}, rows : [Lists -> Rows \cup {NoRow}]]

ASSUME ProcessAssumption == Main \in Procs /\ Poll \notin Threads /\ NoOne \notin Actors
ASSUME BoundsAssumption ==
    MaxList \in Nat /\ MaxRequests \in Nat /\ MaxFaults \in Nat /\ MaxCrashes \in Nat
ASSUME ZonesAssumption == Fallback \in Zones /\ NoZone \notin Zones
ASSUME CronsAssumption == NoCron \notin Crons
ASSUME NothingAssumption == NoRow \notin Rows /\ NoJob \notin Jobs
ASSUME RowsAssumption == StartRows \subseteq Rows \cup {NoRow}
ASSUME FlagsAssumption == NoRow \notin BOOLEAN /\ StartFlags \subseteq {FALSE, NoRow}
ASSUME OpsAssumption == OpsOf \in [Threads -> SUBSET Ops]

VARIABLES
    row,        \* the lists table: schedule_cron and is_active of each list
    paused,     \* scheduler_paused of the first row of service_config, if any
    up,         \* _scheduler exists in Main
    job,        \* the job store: the cron and the zone of the job of a list
    schedTz,    \* scheduler.timezone
    lastTz,     \* _last_reconciled_tz
    lock,       \* who holds _reschedule_lock
    apPaused,   \* APScheduler is paused
    req,        \* where each thread is and what it holds
    gone,       \* lists whose scheduled run has not found its row
    excused,    \* history: lists whose job may differ from their row
    requests, faults, crashes  \* counters of the bounds

db == <<row, paused>>
store == <<job, schedTz, lastTz, lock, apPaused>>
budget == <<requests, faults, crashes>>
system == <<memoVars, db, up, store, req, gone, budget>>
vars == <<system, excused>>

\* Mutant: a name that does not load is taken.
EffectiveUnchecked(raw) == raw

\* get_app_timezone: the setting if it loads, else the fallback.
Effective(raw) == IF raw \in Zones THEN raw ELSE Fallback

\* active_scheduled_query, and the job such a list should have.
Scheduled(r) == r # NoRow /\ r.active /\ r.cron # NoCron
Desired(r, zone) ==
    IF Scheduled(r) THEN [cron |-> r.cron, zone |-> zone] ELSE NoJob

NoRows == [l \in Lists |-> NoRow]
Idle == [pc |-> "idle", op |-> "none", list |-> 0, seen |-> NoRow, want |-> NoRow,
         cron |-> NoCron, zone |-> NoZone, rows |-> NoRows]

IsWorker(t) == up /\ ProcOf[t] = Main
Home(a) == IF a = Poll THEN Main ELSE ProcOf[a]

At(a, pc) == req[a].pc = pc
To(a, pc) == req' = [req EXCEPT ![a].pc = pc]
End(a) == req' = [req EXCEPT ![a] = Idle]
Fault == faults < MaxFaults /\ faults' = faults + 1 /\ UNCHANGED <<requests, crashes>>

\* is_scheduler_paused: without a row of service_config nothing is paused.
IsPaused == paused = TRUE

\* Main starts: the active schedules among the rows that were read are loaded
\* into an empty job store, in the zone of the setting that was read.
Boot(raw, rows) ==
    /\ up' = TRUE
    /\ schedTz' = Effective(raw)
    /\ job' = [l \in Lists |-> Desired(rows[l], Effective(raw))]
    /\ lastTz' = NoZone
    /\ lock' = NoOne
    /\ apPaused' = FALSE

Init ==
    /\ MemoInit
    /\ row \in [Lists -> StartRows]
    /\ paused \in StartFlags
    /\ up = TRUE
    /\ schedTz = Effective(setting.raw)
    /\ job = [l \in Lists |-> Desired(row[l], schedTz)]
    /\ lastTz = NoZone
    /\ lock = NoOne
    /\ apPaused = FALSE
    /\ req = [a \in Actors |-> Idle]
    /\ gone = {}
    /\ excused = {}
    /\ requests = 0 /\ faults = 0 /\ crashes = 0

----------------------------------------------------------------------------
(* A request arrives in an idle thread.                                    *)

Serve(t, op) ==
    /\ At(t, "idle")
    /\ op \in OpsOf[t]
    /\ requests < MaxRequests
    /\ requests' = requests + 1
    /\ UNCHANGED <<up, gone, faults, crashes>>

Started(pc, op) == [Idle EXCEPT !.pc = pc, !.op = op]

----------------------------------------------------------------------------
(* Changing a list.  A commit that raises is rolled back and ends the       *)
(* request, which then has changed nothing, except for EraseFails; a read   *)
(* that raises after the commit leaves the row as it was written.           *)

\* A route reads the row, and is to leave it as "want": edit_list and the
\* wizard write cron and is_active, update_schedule writes the cron,
\* toggle_list the negation of the is_active it has read.
StartChange(t, op, l, want) ==
    /\ op \in {"edit", "update", "toggle"}
    /\ row[l] # NoRow
    /\ op = "update" => want.active = row[l].active
    /\ op = "toggle" => want = [row[l] EXCEPT !.active = ~ @]
    /\ Serve(t, op)
    /\ req' = [req EXCEPT ![t] = [Started("commit", op) EXCEPT
                                     !.list = l, !.seen = row[l], !.want = want]]
    /\ UNCHANGED <<memoVars, db, store>>

\* The wizard stores a new list, under the id after the largest one.
StartCreate(t, l, want) ==
    /\ Serve(t, "create")
    /\ \A k \in Lists : k >= l => row[k] = NoRow
    /\ l > 1 => row[l - 1] # NoRow
    /\ row' = [row EXCEPT ![l] = want]
    /\ req' = [req EXCEPT ![t] = [Started("reread", "create") EXCEPT !.list = l]]
    /\ UNCHANGED <<memoVars, paused, store>>

StartDelete(t, l) ==
    /\ Serve(t, "delete")
    /\ row[l] # NoRow
    /\ req' = [req EXCEPT ![t] = [Started("drop", "delete") EXCEPT !.list = l]]
    /\ UNCHANGED <<memoVars, db, store>>

\* The UPDATE names only the columns that the request has changed.
Written(r, now) ==
    [cron |-> IF r.want.cron # r.seen.cron THEN r.want.cron ELSE now.cron,
     active |-> IF r.want.active # r.seen.active THEN r.want.active ELSE now.active]

CommitChange(t) ==
    /\ At(t, "commit")
    /\ row[req[t].list] # NoRow
    /\ row' = [row EXCEPT ![req[t].list] = Written(req[t], @)]
    /\ req' = [req EXCEPT ![t].pc = "reread", ![t].seen = NoRow,
                          ![t].want = IF req[t].op = "update" THEN @ ELSE NoRow]
    /\ UNCHANGED <<memoVars, paused, up, store, gone, budget>>

\* The list was deleted since it was read: the UPDATE matches no row.
CommitFindsNothing(t) ==
    /\ At(t, "commit")
    /\ row[req[t].list] = NoRow
    /\ End(t)
    /\ UNCHANGED <<memoVars, db, up, store, gone, budget>>

\* After the commit the row is read again; update_schedule goes on with the
\* cron of the request.
CronAfter(t) ==
    IF req[t].op = "update" THEN req[t].want.cron ELSE row[req[t].list].cron

Schedules(t) ==
    /\ IsWorker(t) /\ row[req[t].list] # NoRow
    /\ CronAfter(t) # NoCron /\ row[req[t].list].active

\* toggle_list leaves an active list without a cron alone.
Unschedules(t) ==
    /\ IsWorker(t) /\ row[req[t].list] # NoRow
    /\ ~ Schedules(t)
    /\ req[t].op = "toggle" => ~ row[req[t].list].active

Reread(t) ==
    /\ At(t, "reread")
    /\ \/ /\ Schedules(t)
          /\ req' = [req EXCEPT ![t].pc = "build", ![t].want = NoRow, ![t].cron = CronAfter(t)]
       \/ Unschedules(t) /\ req' = [req EXCEPT ![t].pc = "remove", ![t].want = NoRow]
       \/ ~ Schedules(t) /\ ~ Unschedules(t) /\ End(t)
    /\ UNCHANGED <<memoVars, db, up, store, gone, budget>>

\* The read after the commit raises: the row is written, its job is not.
RereadFails(t) ==
    /\ At(t, "reread")
    /\ Fault
    /\ End(t)
    /\ UNCHANGED <<memoVars, db, up, store, gone>>

\* schedule_list: the trigger takes the zone of the scheduler ...
BuildTrigger(t) ==
    /\ At(t, "build")
    /\ req' = [req EXCEPT ![t].pc = "add", ![t].zone = schedTz]
    /\ UNCHANGED <<memoVars, db, up, store, gone, budget>>

\* ... and replaces the job of the list.
AddJob(t) ==
    /\ At(t, "add")
    /\ job' = [job EXCEPT ![req[t].list] = [cron |-> req[t].cron, zone |-> req[t].zone]]
    /\ End(t)
    /\ UNCHANGED <<memoVars, db, up, schedTz, lastTz, lock, apPaused, gone, budget>>

\* unschedule_list: a job that is gone meanwhile is no error.
RemoveJob(t) ==
    /\ At(t, "remove")
    /\ job' = [job EXCEPT ![req[t].list] = NoJob]
    /\ End(t)
    /\ UNCHANGED <<memoVars, db, up, schedTz, lastTz, lock, apPaused, gone, budget>>

\* delete_list unschedules first ...
DropJob(t) ==
    /\ At(t, "drop")
    /\ job' = IF IsWorker(t) THEN [job EXCEPT ![req[t].list] = NoJob] ELSE job
    /\ To(t, "erase")
    /\ UNCHANGED <<memoVars, db, up, schedTz, lastTz, lock, apPaused, gone, budget>>

\* ... and then deletes the row.
EraseRow(t) ==
    /\ At(t, "erase")
    /\ row' = [row EXCEPT ![req[t].list] = NoRow]
    /\ End(t)
    /\ UNCHANGED <<memoVars, paused, up, store, gone, budget>>

\* The job is gone and the list is not.
EraseFails(t) ==
    /\ At(t, "erase")
    /\ Fault
    /\ End(t)
    /\ UNCHANGED <<memoVars, db, up, store, gone>>

ListStep(t) ==
    \/ CommitChange(t) \/ CommitFindsNothing(t) \/ Reread(t)
    \/ BuildTrigger(t) \/ AddJob(t) \/ RemoveJob(t) \/ DropJob(t) \/ EraseRow(t)

----------------------------------------------------------------------------
(* Pause and resume: the flag of the database, then APScheduler.  In        *)
(* another process they do nothing.                                         *)

\* Without a row of service_config the flag is stored nowhere, and APScheduler
\* is paused or resumed all the same.
StartPause(t, op) ==
    /\ op \in {"pause", "resume"}
    /\ IsWorker(t)
    /\ Serve(t, op)
    /\ paused' = IF paused = NoRow THEN NoRow ELSE (op = "pause")
    /\ req' = [req EXCEPT ![t] = Started("flag", op)]
    /\ UNCHANGED <<memoVars, row, store>>

SetScheduler(t) ==
    /\ At(t, "flag")
    /\ apPaused' = (req[t].op = "pause")
    /\ End(t)
    /\ UNCHANGED <<memoVars, db, up, job, schedTz, lastTz, lock, gone, budget>>

\* Saving the first service makes that row; it is not paused.
ConnectService(t) ==
    /\ Serve(t, "connect")
    /\ paused = NoRow
    /\ paused' = FALSE
    /\ UNCHANGED <<memoVars, row, store, req>>

----------------------------------------------------------------------------
(* save_general_settings, and pages that ask for the timezone.             *)

StartSave(t, raw) ==
    /\ Serve(t, "save")
    /\ CommitSetting(raw)
    /\ req' = [req EXCEPT ![t] = Started("invalidate", "save")]
    /\ UNCHANGED <<db, store>>

\* Any page that shows a time asks for the timezone.
StartPage(t) ==
    /\ Serve(t, "page")
    /\ Lookup(t)
    /\ req' = [req EXCEPT ![t] = Started("await", "page")]
    /\ UNCHANGED <<db, store>>

DropMemo(t) ==
    /\ At(t, "invalidate")
    /\ Invalidate(ProcOf[t])
    /\ To(t, "ask")
    /\ UNCHANGED <<db, up, store, gone, budget>>

AskTimezone(t) ==
    /\ At(t, "ask")
    /\ Lookup(t)
    /\ To(t, "await")
    /\ UNCHANGED <<db, up, store, gone, budget>>

ReadTimezone(t) ==
    /\ ReadSetting(t) \/ Store(t)
    /\ UNCHANGED <<db, up, store, req, gone, budget>>

ReadTimezoneFails(t) ==
    /\ ReadFails(t)
    /\ Fault
    /\ UNCHANGED <<db, up, store, req, gone>>

\* The process of the scheduler reconciles; another leaves it to the poll.
UseTimezone(t) ==
    /\ At(t, "await")
    /\ Return(t)
    /\ IF req[t].op = "save" /\ IsWorker(t)
       THEN req' = [req EXCEPT ![t].pc = "rows",
                               ![t].zone = Effective(reader[t].record.raw)]
       ELSE End(t)
    /\ UNCHANGED <<db, up, store, gone, budget>>

SaveStep(t) ==
    \/ DropMemo(t) \/ AskTimezone(t) \/ ReadTimezone(t) \/ UseTimezone(t)

----------------------------------------------------------------------------
(* reconcile_scheduler_jobs and _tz_poll_tick                              *)

\* A save waits for the lock; the rows are read under it.
ReadRows(t) ==
    /\ At(t, "rows")
    /\ lock = NoOne
    /\ lock' = t
    /\ req' = [req EXCEPT ![t].pc = "apply", ![t].rows = row]
    /\ UNCHANGED <<memoVars, db, up, job, schedTz, lastTz, apPaused, gone, budget>>

\* Mutant: the pass counts as done.
ReadRowsFailsStamped(t) ==
    /\ At(t, "rows")
    /\ lock = NoOne
    /\ Fault
    /\ lastTz' = req[t].zone
    /\ End(t)
    /\ UNCHANGED <<memoVars, db, up, job, schedTz, lock, apPaused, gone>>

\* Mutant: the lock is not released.
StampKeepsLock(a) ==
    /\ At(a, "stamp")
    /\ schedTz' = req[a].zone
    /\ lastTz' = req[a].zone
    /\ lock' = a
    /\ End(a)
    /\ UNCHANGED <<memoVars, db, up, job, apPaused, gone, budget>>

\* The database is locked: the pass is deferred, and the lock released.
ReadRowsFails(t) ==
    /\ At(t, "rows")
    /\ lock = NoOne
    /\ Fault
    /\ End(t)
    /\ UNCHANGED <<memoVars, db, up, store, gone>>

\* Mutant: jobs that are not desired any more stay.
ApplyRowsAddsOnly(a) ==
    /\ At(a, "apply")
    /\ job' = [l \in Lists |->
           IF Scheduled(req[a].rows[l]) THEN Desired(req[a].rows[l], req[a].zone) ELSE job[l]]
    /\ req' = [req EXCEPT ![a].pc = "stamp", ![a].rows = NoRows]
    /\ UNCHANGED <<memoVars, db, up, schedTz, lastTz, lock, apPaused, gone, budget>>

\* Jobs are added or replaced one by one and the others removed.  No other
\* step looks at two lists, so that the order among lists cannot be seen.
ApplyRows(a) ==
    /\ At(a, "apply")
    /\ job' = [l \in Lists |-> Desired(req[a].rows[l], req[a].zone)]
    /\ req' = [req EXCEPT ![a].pc = "stamp", ![a].rows = NoRows]
    /\ UNCHANGED <<memoVars, db, up, schedTz, lastTz, lock, apPaused, gone, budget>>

Stamp(a) ==
    /\ At(a, "stamp")
    /\ schedTz' = req[a].zone
    /\ lastTz' = req[a].zone
    /\ lock' = NoOne
    /\ End(a)
    /\ UNCHANGED <<memoVars, db, up, job, apPaused, gone, budget>>

Reconcile(a) == ApplyRows(a) \/ Stamp(a)

\* A tick of the poll reads the setting past the memo; the poll is a job of
\* APScheduler, and none starts while that is paused ...
PollReads(raw) ==
    /\ up /\ ~ apPaused
    /\ At(Poll, "idle")
    /\ req' = [req EXCEPT ![Poll].pc = "compare", ![Poll].zone = Effective(raw)]
    /\ UNCHANGED <<memoVars, db, up, store, gone>>

PollTick == PollReads(setting.raw) /\ UNCHANGED budget

\* ... where a database error reads as no setting.
PollTickFails == PollReads(NoSetting) /\ Fault

\* It is done if the zone is not new or somebody else reconciles; otherwise
\* it takes the lock and reads the rows, which may fail.
PollRests ==
    /\ At(Poll, "compare")
    /\ IF req[Poll].zone = lastTz \/ lock # NoOne THEN UNCHANGED budget ELSE Fault
    /\ End(Poll)
    /\ UNCHANGED <<memoVars, db, up, store, gone>>

PollReconciles ==
    /\ At(Poll, "compare")
    /\ req[Poll].zone # lastTz /\ lock = NoOne
    /\ lock' = Poll
    /\ req' = [req EXCEPT ![Poll].pc = "apply", ![Poll].rows = row]
    /\ UNCHANGED <<memoVars, db, up, job, schedTz, lastTz, apPaused, gone, budget>>

PollStep == PollTick \/ PollRests \/ PollReconciles \/ Reconcile(Poll)

----------------------------------------------------------------------------
(* _run_scheduled_import: what a job does when it comes due.                *)

\* The flag and the list are read; an import that starts (see JobExecutor)
\* changes nothing here, so that only the list that is not found is a step.
FindNoList(l) ==
    /\ up /\ ~ apPaused
    /\ job[l] # NoJob
    /\ l \notin gone
    /\ ~ IsPaused /\ row[l] = NoRow
    /\ gone' = gone \cup {l}
    /\ UNCHANGED <<memoVars, db, up, store, req, budget>>

\* Mutant: the missing list is only logged.
DropOrphanLogs(l) ==
    /\ l \in gone
    /\ gone' = gone \ {l}
    /\ UNCHANGED <<memoVars, db, up, store, req, budget>>

\* The job of a list that was not found is removed.
DropOrphan(l) ==
    /\ l \in gone
    /\ job' = [job EXCEPT ![l] = NoJob]
    /\ gone' = gone \ {l}
    /\ UNCHANGED <<memoVars, db, up, schedTz, lastTz, lock, apPaused, req, budget>>

FireStep(l) == FindNoList(l) \/ DropOrphan(l)

----------------------------------------------------------------------------
(* Processes end                                                           *)

\* A worker dies and is replaced.  The replacement of Main is not the first
\* worker any more and runs no scheduler.
WorkerDies(p) ==
    /\ crashes < MaxCrashes
    /\ crashes' = crashes + 1
    /\ Forget({p})
    /\ req' = [a \in Actors |-> IF Home(a) = p THEN Idle ELSE req[a]]
    /\ IF p = Main
       THEN /\ up' = FALSE
            /\ job' = [l \in Lists |-> NoJob]
            /\ schedTz' = NoZone /\ lastTz' = NoZone
            /\ lock' = NoOne /\ apPaused' = FALSE
            /\ gone' = {}
       ELSE UNCHANGED <<up, store, gone>>
    /\ UNCHANGED <<db, requests, faults>>

\* The container restarts ...
Replaced ==
    /\ crashes < MaxCrashes
    /\ crashes' = crashes + 1
    /\ Forget(Procs)
    /\ req' = [a \in Actors |-> Idle]
    /\ gone' = {}
    /\ UNCHANGED <<db, requests>>

Restart ==
    /\ Replaced
    /\ Boot(setting.raw, row)
    /\ excused' = {}
    /\ UNCHANGED faults

\* ... and the timezone reads as not set, or no list is found to load: the
\* scheduled lists are left without jobs.
RestartFails ==
    /\ Replaced
    /\ faults < MaxFaults
    /\ faults' = faults + 1
    /\ \/ Boot(NoSetting, row) /\ excused' = {}
       \/ Boot(setting.raw, NoRows) /\ excused' = {l \in Lists : Scheduled(row[l])}

----------------------------------------------------------------------------
(* History: who works on the job of a list, and when it may be left        *)
(* different from its row.                                                 *)

Touching(l) ==
    {<<"request", t>> : t \in {u \in Threads : req[u].list = l}} \cup
    {<<"reconcile", a>> : a \in {b \in Actors : req[b].pc \in {"apply", "stamp"}}} \cup
    {<<"fire", k>> : k \in gone \cap {l}}

Alone(l) == \A x, y \in Touching(l) : x = y

\* A reconcile that starts alone on a list ends the excuse.
Renewed == {l \in Lists : \E a \in Actors :
    ~ At(a, "apply") /\ At(a, "apply")' /\ Alone(l)'}

\* A list is excused when two work on it at a time, ...
Contended == {l \in Lists : ~ Alone(l)}

\* ... when another process than Main changes its row, ...
ChangedElsewhere == {l \in Lists :
    /\ row'[l] # row[l]
    /\ \E t \in Threads : ~ IsWorker(t) /\ l \in {req[t].list, req'[t].list}}

\* ... when the row cannot be read again after its commit, ...
Unread == {l \in Lists : \E t \in Threads :
    /\ At(t, "reread") /\ IsWorker(t) /\ req[t].list = l
    /\ req'[t].pc = "idle" /\ faults' # faults}

\* ... or when deleting the row fails after its job was removed.
HalfDeleted == {l \in Lists : \E t \in Threads :
    At(t, "erase") /\ req[t].list = l /\ req'[t].pc = "idle" /\ row'[l] # NoRow}

Excuse == excused' =
    (excused \ Renewed) \cup Contended' \cup ChangedElsewhere \cup Unread \cup HalfDeleted

----------------------------------------------------------------------------

Start(t) ==
    \/ \E op \in Ops, l \in Lists, want \in Rows : StartChange(t, op, l, want)
    \/ \E l \in Lists, want \in Rows : StartCreate(t, l, want)
    \/ \E l \in Lists : StartDelete(t, l)
    \/ \E op \in Ops : StartPause(t, op)
    \/ ConnectService(t)
    \/ \E raw \in Settings : StartSave(t, raw)
    \/ StartPage(t)

ThreadStep(t) ==
    ListStep(t) \/ SetScheduler(t) \/ SaveStep(t) \/ ReadRows(t) \/ Reconcile(t)

ThreadFails(t) ==
    EraseFails(t) \/ RereadFails(t) \/ ReadTimezoneFails(t) \/ ReadRowsFails(t)

MemoExpires(p) == Expire(p) /\ UNCHANGED <<db, up, store, req, gone, budget>>

Step ==
    \/ \E t \in Threads : Start(t) \/ ThreadStep(t) \/ ThreadFails(t)
    \/ PollStep \/ PollTickFails
    \/ \E l \in Lists : FireStep(l)
    \/ \E p \in Procs : MemoExpires(p) \/ WorkerDies(p)

Next == (Step /\ Excuse) \/ Restart \/ RestartFails

Spec == Init /\ [][Next]_vars

\* Threads are scheduled, the poll has its interval and jobs come due unless
\* APScheduler is paused.
Fairness ==
    /\ \A t \in Threads : WF_system(ThreadStep(t))
    /\ WF_system(PollStep)
    /\ \A l \in Lists : WF_system(FireStep(l))

FairSpec == Spec /\ Fairness

----------------------------------------------------------------------------
(* Properties                                                              *)

ScheduleTypeOK ==
    /\ row \in [Lists -> Rows \cup {NoRow}]
    /\ paused \in BOOLEAN \cup {NoRow} /\ up \in BOOLEAN /\ apPaused \in BOOLEAN
    /\ job \in [Lists -> Jobs \cup {NoJob}]
    /\ schedTz \in Zones \cup {NoZone} /\ lastTz \in Zones \cup {NoZone}
    /\ lock \in Actors \cup {NoOne}
    /\ req \in [Actors -> Requests]
    /\ gone \subseteq Lists /\ excused \subseteq Lists
    /\ requests \in 0..MaxRequests /\ faults \in 0..MaxFaults /\ crashes \in 0..MaxCrashes

TypeOK == MemoTypeOK /\ ScheduleTypeOK

\* A list on which nobody works has exactly the job of its row, in the zone
\* of the scheduler, unless two worked on it at a time, another process
\* changed it, the read of its row after the commit or at the start failed, or
\* its deletion failed, and no reconcile has passed since.
StoreFollowsRows ==
    up => \A l \in Lists :
        Touching(l) = {} /\ l \notin excused => job[l] = Desired(row[l], schedTz)

\* "Update scheduler after saving changes": a list on which nobody works has
\* the job of its row.
JobsMatchRows ==
    up => \A l \in Lists : Touching(l) = {} => job[l] = Desired(row[l], schedTz)

\* A scheduler that lives and is not paused for good, or again and again, ends
\* up in the zone of the setting, in whatever order saves commit and reconcile,
\* in whichever process, and whichever passes are deferred.
ZoneConverges ==
    <>[](up /\ ~ apPaused) => <>[](/\ lastTz = Effective(setting.raw)
                                  /\ schedTz = Effective(setting.raw))

\* The job of a deleted list leaves the job store, unless the id is taken
\* again, the scheduler is paused or it ends.
OrphansLeave == \A l \in Lists :
    (row[l] = NoRow /\ job[l] # NoJob)
        ~> (job[l] = NoJob \/ row[l] # NoRow \/ IsPaused \/ apPaused \/ ~ up)

\* Every request ends: the reschedule lock is released on every path.
RequestsEnd == \A t \in Threads : ~ At(t, "idle") ~> At(t, "idle")

=============================================================================
