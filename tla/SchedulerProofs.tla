-------------------------- MODULE SchedulerProofs --------------------------
(***************************************************************************)
(* What the scheduler promises for every number of processes, threads and  *)
(* lists.                                                                  *)
(***************************************************************************)
EXTENDS Scheduler, TzMemoProofs

\* What threads do with the memo are its own steps, and nothing else touches it.
LEMMA ThreadMemo ==
  ASSUME NEW t \in Threads, Start(t) \/ ThreadStep(t) \/ ThreadFails(t)
  PROVE  [MemoNext]_memoVars
<1>1. CASE Start(t)
  <2>1. CASE \E op \in Ops, l \in Lists, want \in Rows : StartChange(t, op, l, want)
    BY <2>1 DEF StartChange
  <2>2. CASE \E l \in Lists, want \in Rows : StartCreate(t, l, want)
    BY <2>2 DEF StartCreate
  <2>3. CASE \E l \in Lists : StartDelete(t, l)
    BY <2>3 DEF StartDelete
  <2>4. CASE \E op \in Ops : StartPause(t, op)
    BY <2>4 DEF StartPause
  <2>5. CASE \E raw \in Settings : StartSave(t, raw)
    BY <2>5 DEF StartSave, MemoNext
  <2>6. CASE StartPage(t)
    BY <2>6 DEF StartPage, MemoNext
  <2>7. CASE ConnectService(t)
    BY <2>7 DEF ConnectService
  <2> QED
    BY <1>1, <2>1, <2>2, <2>3, <2>4, <2>5, <2>6, <2>7 DEF Start
<1>2. CASE ListStep(t)
  BY <1>2 DEF ListStep, CommitChange, CommitFindsNothing, Reread, BuildTrigger, AddJob,
              RemoveJob, DropJob, EraseRow
<1>3. CASE SaveStep(t)
  <2>1. ProcOf[t] \in Procs
    BY ThreadsAssumption
  <2>2. CASE DropMemo(t)
    BY <2>1, <2>2 DEF DropMemo, MemoNext
  <2>3. CASE AskTimezone(t) \/ ReadTimezone(t) \/ UseTimezone(t)
    BY <2>3 DEF AskTimezone, ReadTimezone, UseTimezone, MemoNext
  <2> QED
    BY <1>3, <2>2, <2>3 DEF SaveStep
<1>4. CASE SetScheduler(t) \/ ReadRows(t) \/ Reconcile(t)
  BY <1>4 DEF SetScheduler, ReadRows, Reconcile, ApplyRows, Stamp
<1>5. CASE ThreadFails(t)
  BY <1>5 DEF ThreadFails, EraseFails, RereadFails, ReadTimezoneFails, ReadRowsFails, MemoNext
<1> QED
  BY <1>1, <1>2, <1>3, <1>4, <1>5 DEF ThreadStep

\* A step of the system is a step of the memo or leaves it alone.
LEMMA SystemMemo == [Next]_vars => [MemoNext]_memoVars
<1> SUFFICES ASSUME [Next]_vars
             PROVE  [MemoNext]_memoVars
  OBVIOUS
<1>1. CASE \E t \in Threads : Start(t) \/ ThreadStep(t) \/ ThreadFails(t)
  BY <1>1, ThreadMemo
<1>2. CASE PollStep \/ PollTickFails
  BY <1>2 DEF PollStep, PollTickFails, PollTick, PollReads, PollRests, PollReconciles,
              Reconcile, ApplyRows, Stamp
<1>3. CASE \E l \in Lists : FireStep(l)
  BY <1>3 DEF FireStep, FindNoList, DropOrphan
<1>4. CASE \E p \in Procs : MemoExpires(p) \/ WorkerDies(p)
  BY <1>4 DEF MemoExpires, WorkerDies, MemoNext
<1>5. CASE Restart \/ RestartFails
  BY <1>5 DEF Restart, RestartFails, Replaced, MemoNext
<1>6. CASE UNCHANGED vars
  BY <1>6 DEF vars, system, memoVars
<1> QED
  BY <1>1, <1>2, <1>3, <1>4, <1>5, <1>6 DEF Next, Step

\* The scheduler implements the memo: within the requests, passes of the poll
\* and restarts of the whole program, _get_timezone_record and
\* invalidate_app_timezone_memo are called as the memo assumes.
THEOREM SchedulerImplementsMemo == Spec => MemoSpec
<1>1. Init => MemoInit
  BY DEF Init
<1> QED
  BY <1>1, SystemMemo, PTL DEF Spec, MemoSpec

\* So the memo of no worker keeps a setting older than the last save of that
\* worker, and a save reconciles into the zone it has saved or a later one.
THEOREM SchedulerMemoCurrent == Spec => [](MemoIsCurrent /\ ReadsSeeSaves)
  BY SchedulerImplementsMemo, MemoCurrent, PTL

=============================================================================
