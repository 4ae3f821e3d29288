SPECIFICATION FairSpec

CONSTANTS
    Procs = {p1}
    Tasks = {t1, t2}
    Lists = {l1}
    Clearers = {}
    NoTask = NoTask
    NoProc = NoProc
    NoList = NoList
    MaxJobs = 2
    MaxWorkers = 1
    IdleTimeout = 1
    MaxCrashes = 1
    DbMayFail = FALSE
    ThreadMayFail = FALSE

PROPERTY JobsSettle
PROPERTY StopEventsDrain

\* The submissions are bounded: once all are over nothing is left to do.
CHECK_DEADLOCK FALSE
