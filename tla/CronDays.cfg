SPECIFICATION Spec

CONSTANTS
    MonthLen = 8
    YearLen = 2
    Crons <- MCCrons
    NoCron = NoCron

INVARIANT AcceptedStaysScheduled
INVARIANT NextRunAgrees
PROPERTY FiresOnPosixDays
PROPERTY ShownRunsHappen
PROPERTY ScheduledListRuns
