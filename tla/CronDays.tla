------------------------------- MODULE CronDays -------------------------------
(***************************************************************************)
(* The days on which one list is imported, from the cron expression that a *)
(* user stores to the trigger that fires (listarr/services/scheduler.py).  *)
(*                                                                         *)
(* cronsim takes a day of the month and a day of the week that are both    *)
(* restricted as alternatives, APScheduler requires both; APScheduler      *)
(* drops the step of a range of month names and what "#" says.  An         *)
(* expression is accepted when the next three days agree, and checked      *)
(* again whenever its job is built.                                        *)
(*                                                                         *)
(* Time passes in days; the hour and the minute of an expression are fixed *)
(* and today's is still to come (no clock is set forward or back).  A      *)
(* month has MonthLen days and a year YearLen months, so that the calendar *)
(* repeats.                                                                *)
(***************************************************************************)
EXTENDS CronField

CONSTANTS
    MonthLen,   \* bound: days of a month
    YearLen,    \* bound: months of a year
    Crons,      \* expressions: dom, a set of days; month, two sets; dow, a field
    NoCron

\* dom.star: the field starts with "*"; dom.builds: APScheduler knows its syntax.
\* month: what cronsim and what APScheduler make of the field.
ASSUME CalendarAssumption == MonthLen \in 1..35 /\ YearLen \in Nat \ {0}
ASSUME CronsAssumption ==
    /\ Crons \subseteq [dom : [star : BOOLEAN, builds : BOOLEAN, days : SUBSET Nat],
                        month : [posix : SUBSET Nat, ap : SUBSET Nat],
                        dow : Fields]
    /\ NoCron \notin Crons

Cycle == 7 * MonthLen * YearLen
Days == 0..(Cycle - 1)

VARIABLES
    now,        \* today
    cron,       \* schedule_cron of the list
    active,     \* is_active of the list
    pending,    \* a request has stored the list and not yet scheduled it
    job,        \* the expression of the trigger in the job store
    shown,      \* the three runs shown when the cron was stored, in days from now
    ran         \* the list was imported today

vars == <<now, cron, active, pending, job, shown, ran>>

OnDom(e, n) == (n % MonthLen) + 1 \in e.dom.days

MonthOf(n) == ((n \div MonthLen) % YearLen) + 1
WeekOf(n) == ((n % MonthLen) \div 7) + 1

OnPosixDow(e, n) == n % 7 \in PosixDays(e.dow, WeekOf(n))

\* Both fields restrict the days.
Mixed(e) == ~ e.dom.star /\ ~ e.dow[1].star

PosixDay(e, n) ==
    /\ MonthOf(n) \in e.month.posix
    /\ IF Mixed(e) THEN OnDom(e, n) \/ OnPosixDow(e, n) ELSE OnDom(e, n) /\ OnPosixDow(e, n)

ApDay(e, n) == MonthOf(n) \in e.month.ap /\ OnDom(e, n) /\ n % 7 \in ApDays(e.dow)

\* Both libraries read each field alike, once translated.
Plain(e) == e.month.posix = e.month.ap /\ Weekly(e.dow)

\* The days of the calendar on which an expression matches.
PosixSet == [e \in Crons |-> {n \in Days : PosixDay(e, n)}]
ApSet == [e \in Crons |-> {n \in Days : ApDay(e, n)}]

\* Days from n to the first of S; a whole cycle if there is none.
Wait(S, n) ==
    CHOOSE d \in 0..Cycle :
        /\ d = Cycle \/ (n + d) % Cycle \in S
        /\ \A c \in 0..(d - 1) : (n + c) % Cycle \notin S

NextThree(S, n) ==
    LET first == Wait(S, n)
        second == first + 1 + Wait(S, n + first + 1)
        third == second + 1 + Wait(S, n + second + 1)
    IN  <<first, second, third>>

\* Mutant: an expression that never matches is not refused.
ValidUnlimited(e, n) ==
    /\ PosixParses(e.dow)
    /\ e.dom.builds /\ ApBuilds(e.dow)
    /\ NextThree(ApSet[e], n) = NextThree(PosixSet[e], n)

\* Mutant: the trigger is not compared with the runs that were shown.
ValidIfBuilt(e, n) ==
    PosixParses(e.dow) /\ PosixSet[e] # {} /\ e.dom.builds /\ ApBuilds(e.dow)

\* validate_cron_expression: both accept the expression, some day matches,
\* and the next three runs agree.
Valid(e, n) ==
    /\ PosixParses(e.dow)
    /\ PosixSet[e] # {}
    /\ e.dom.builds /\ ApBuilds(e.dow)
    /\ NextThree(ApSet[e], n) = NextThree(PosixSet[e], n)

\* Mutant: inactive lists have a next run.
NextRunOfAnyRow == IF cron = NoCron THEN Cycle ELSE Wait(PosixSet[cron], now)

\* get_next_run_time in the process of the scheduler, and in the others.
NextRunOfJob == IF job = NoCron THEN Cycle ELSE Wait(ApSet[job], now)
NextRunOfRow == IF cron = NoCron \/ ~ active THEN Cycle ELSE Wait(PosixSet[cron], now)

Init ==
    /\ now \in Days
    /\ cron = NoCron /\ active = TRUE /\ pending = FALSE
    /\ job = NoCron
    /\ shown = {}
    /\ ran = FALSE

----------------------------------------------------------------------------

\* A route validates the cron, stores it and shows the next three runs.
StoreCron(e) ==
    /\ ~ pending
    /\ Valid(e, now)
    /\ cron' = e
    /\ LET runs == NextThree(PosixSet[e], now) IN shown' = {runs[i] : i \in 1..3}
    /\ pending' = active
    /\ UNCHANGED <<now, active, job, ran>>

\* A cron that is removed takes the job with it.
ClearCron ==
    /\ ~ pending
    /\ cron' = NoCron /\ job' = NoCron /\ shown' = {}
    /\ UNCHANGED <<now, active, pending, ran>>

\* Mutant: activating leaves the schedule to the next start.
ToggleFlagOnly ==
    /\ ~ pending
    /\ active' = ~ active
    /\ job' = IF active' THEN job ELSE NoCron
    /\ shown' = {}
    /\ UNCHANGED <<now, cron, pending, ran>>

\* toggle_list: deactivating removes the job, activating schedules the cron.
Toggle ==
    /\ ~ pending
    /\ active' = ~ active
    /\ pending' = (active' /\ cron # NoCron)
    /\ job' = IF active' THEN job ELSE NoCron
    /\ shown' = {}
    /\ UNCHANGED <<now, cron, ran>>

\* schedule_list: it validates again, and keeps the former job on an error.
ScheduleList ==
    /\ pending
    /\ pending' = FALSE
    /\ job' = IF Valid(cron, now) THEN cron ELSE job
    /\ UNCHANGED <<now, cron, active, shown, ran>>

\* reconcile_scheduler_jobs, and the loading of the schedules at a start: every
\* cron is validated again, and the job of one that fails is removed.
Reconcile ==
    /\ job' = IF cron # NoCron /\ active /\ Valid(cron, now) THEN cron ELSE NoCron
    /\ UNCHANGED <<now, cron, active, pending, shown, ran>>

\* The hour of today comes and the trigger fires or not.
Day ==
    /\ ran' = (job # NoCron /\ now \in ApSet[job])
    /\ now' = (now + 1) % Cycle
    /\ shown' = {d - 1 : d \in shown \ {0}}
    /\ UNCHANGED <<cron, active, pending, job>>

Next ==
    \/ \E e \in Crons : StoreCron(e)
    \/ ClearCron \/ Toggle \/ ScheduleList \/ Reconcile \/ Day

\* Days pass.
Spec == Init /\ [][Next]_vars /\ WF_vars(Day)

----------------------------------------------------------------------------
(* Properties                                                              *)

\* A list is imported on POSIX days of the expression that was scheduled, and,
\* unless that restricts both the days of the month and of the week, on all of
\* them: 0 and 7 are Sunday, whatever ranges, lists and steps are written.
\* (Not so for mon#1 or a stepped range of month names, which pass validation
\* while the next three runs agree: APScheduler then fires on more days.)
FiresOnPosixDays ==
    [][Day /\ job # NoCron /\ Plain(job) =>
          /\ ran' => PosixDay(job, now)
          /\ PosixDay(job, now) /\ ~ Mixed(job) => ran']_vars

\* The three runs that were shown when the cron was stored take place, as long
\* as the cron is the one that is scheduled, whatever its fields.
ShownRunsHappen == [][Day /\ job = cron /\ 0 \in shown => ran']_vars

\* A cron that was accepted stays accepted, whenever it is validated again, if
\* it is plain and restricts the days in one way: an active list has the job of
\* its cron.  (The job of another one is removed by the first reconcile that
\* finds the next three runs to differ.)
AcceptedStaysScheduled ==
    active /\ cron # NoCron /\ Plain(cron) /\ ~ Mixed(cron) /\ ~ pending => job = cron

\* All processes tell the same next run of a plain expression, if the days are
\* restricted in one way; otherwise those that do not run the scheduler may name
\* an earlier one.
NextRunAgrees ==
    (job = cron \/ ~ active) /\ ~ pending /\ (cron # NoCron => Plain(cron)) =>
        /\ NextRunOfRow <= NextRunOfJob
        /\ cron # NoCron /\ ~ Mixed(cron) => NextRunOfRow = NextRunOfJob

\* No trigger waits forever: a list that is scheduled is imported, or its
\* schedule changes.
ScheduledListRuns == \A e \in Crons : job = e ~> ran \/ job # e

=============================================================================
