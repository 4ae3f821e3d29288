SPECIFICATION Spec

CONSTANTS
    m1 = m1
    m2 = m2
    o1 = o1
    Other = Other
    c1 = c1
    Main = Main
    Poll = Poll
    Procs = {Main, Other}
    Threads = {m1, m2, o1}
    ProcOf <- MCProcOf
    Settings = {NoSetting, rome}
    NoSetting = NoSetting
    Zones = {utc, rome}
    Fallback = utc
    NoZone = NoZone
    Unset = Unset
    MaxSaves = 2
    MaxList = 1
    Crons = {c1}
    NoCron = NoCron
    NoRow = NoRow
    NoJob = NoJob
    NoOne = NoOne
    StartRows <- MCRows
    StartFlags = {FALSE}
    OpsOf <- MCOps
    MaxRequests = 2
    MaxFaults = 1
    MaxCrashes = 1

INVARIANT TypeOK
INVARIANT StoreFollowsRows
INVARIANT MemoIsCurrent
INVARIANT ReadsSeeSaves

\* Requests are bounded, and after the death of Main nothing polls.
CHECK_DEADLOCK FALSE
