SPECIFICATION Spec
CONSTANTS
    Reqs = {r1, r2}
    Stops = {s1}
    Watchers = {w1, w2, w3}
    NoReq = NoReq
    NoWatcher = NoWatcher
    Nobody = Nobody
    Corrupt = Corrupt
    FaultyDisk = FALSE
    MaxRestarts = 1
SYMMETRY Symmetry
INVARIANT SingleFlight
INVARIANT StopDrained
INVARIANT SoakSurvives
INVARIANT EffectsNotRepeated
CHECK_DEADLOCK FALSE
