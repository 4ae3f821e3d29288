\* Two threads, two feeds, caches of two entries, two loops.
CONSTANTS
    t1 = t1
    t2 = t2
    us = us
    None = None
    Threads <- MCThreads
    Feeds <- MCFeeds
    Regional <- MCRegional
    Regions <- MCRegions
    Total <- MCTotal
    PageSize = 2
    Limits <- MCLimits
    MaxPage = 2
    Ttl <- MCTtl
    Cache <- MCCache
    CacheSize = 2
    RequestTime = 1
    MaxTime = 2
    MaxLoops = 2
SPECIFICATION FairSpec
INVARIANTS EntryIsTrue TakesTheTop FullUnlessMissed FoundIsThere
PROPERTIES AnswersAreFresh LoopEnds
