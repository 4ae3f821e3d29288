---------------------------- MODULE SchedulerMC ----------------------------
(* Instances of Scheduler for TLC: threads m1 and m2 in the process that    *)
(* runs the scheduler, o1 in the other one.                                 *)
EXTENDS Scheduler, TLC

CONSTANTS m1, m2, o1, Other, c1

MCProcOf == (m1 :> Main) @@ (m2 :> Main) @@ (o1 :> Other)

\* Between them the threads of Main serve every kind of request, and every
\* pair of kinds that works on the same state in two threads.
MCOps ==
    (m1 :> {"edit", "toggle", "create", "delete", "page", "pause"}) @@
    (m2 :> {"update", "save", "resume"}) @@
    (o1 :> {"edit", "delete", "save"})

\* For liveness: what moves the zone, what stops the poll and what leaves
\* orphans.
MCLiveOps ==
    (m1 :> {"pause", "connect"}) @@ (m2 :> {"save", "resume"}) @@
    (o1 :> {"delete", "save"})

\* At the start a list is scheduled or does not exist.
MCRows == {NoRow, [cron |-> c1, active |-> TRUE]}

=============================================================================
