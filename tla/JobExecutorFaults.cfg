SPECIFICATION Spec

CONSTANTS
    Procs = {p1, p2}
    Tasks = {t1, t2}
    Lists = {l1}
    Clearers = {c1}
    NoTask = NoTask
    NoProc = NoProc
    NoList = NoList
    MaxJobs = 2
    MaxWorkers = 1
    IdleTimeout = 1
    MaxCrashes = 1
    DbMayFail = TRUE
    ThreadMayFail = TRUE

SYMMETRY Symmetry
INVARIANT OneRunningPerList
PROPERTIES RunningRowsAreKept LooseTableSpec

\* The submissions are bounded: once all are over nothing is left to do.
CHECK_DEADLOCK FALSE
