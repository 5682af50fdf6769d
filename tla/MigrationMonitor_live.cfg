SPECIFICATION FairSpec
CONSTANTS
    Reqs = {r1}
    Stops = {s1}
    Watchers = {w1, w2}
    NoReq = NoReq
    NoWatcher = NoWatcher
    Nobody = Nobody
    Corrupt = Corrupt
    FaultyDisk = TRUE
    MaxRestarts = 1
 
PROPERTY PersistedIsResumed
PROPERTY CancelledWatcherEnds
CHECK_DEADLOCK FALSE
