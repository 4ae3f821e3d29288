SPECIFICATION FairSpec

CONSTANTS
    m1 = m1
    m2 = m2
    o1 = o1
    Other = Other
    c1 = c1
    Main = Main
    Poll = Poll
    Procs = {Main, Other}
    Threads = {m1, m2, o1}
    ProcOf <- MCProcOf
    Settings = {NoSetting, rome}
    NoSetting = NoSetting
    Zones = {utc, rome}
    Fallback = utc
    NoZone = NoZone
    Unset = Unset
    MaxSaves = 1
    MaxList = 1
    Crons = {c1}
    NoCron = NoCron
    NoRow = NoRow
    NoJob = NoJob
    NoOne = NoOne
    StartRows <- MCRows
    StartFlags = {NoRow}
    OpsOf <- MCLiveOps
    MaxRequests = 3
    MaxFaults = 1
    MaxCrashes = 0

PROPERTY ZoneConverges
PROPERTY OrphansLeave
PROPERTY RequestsEnd

\* Requests are bounded, and nothing polls while the scheduler is paused.
CHECK_DEADLOCK FALSE
