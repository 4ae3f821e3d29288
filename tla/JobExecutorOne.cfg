SPECIFICATION Spec

CONSTANTS
    Procs = {p1}
    Tasks = {t1, t2}
    Lists = {l1, l2}
    Clearers = {c1}
    NoTask = NoTask
    NoProc = NoProc
    NoList = NoList
    MaxJobs = 2
    MaxWorkers = 2
    IdleTimeout = 1
    MaxCrashes = 1
    DbMayFail = FALSE
    ThreadMayFail = FALSE

SYMMETRY Symmetry
INVARIANT TypeOK
INVARIANT OneImportPerList
INVARIANT CheckedListStaysFree
INVARIANT RunningRowHasSettler
PROPERTY TableSpec

\* The submissions are bounded: once all are over nothing is left to do.
CHECK_DEADLOCK FALSE
