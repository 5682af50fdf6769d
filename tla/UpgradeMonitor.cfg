SPECIFICATION FairSpec
CONSTANTS
    c1 = c1
    c2 = c2
    o1 = o1
    o2 = o2
    Crs = {c1, c2}
    Ops = {o1, o2}
    NoOp = NoOp
    OpOf <- OpOf2
    Age <- Age2
    Outcomes = {"nil", "error", "panic"}
    MaxWrites = 2
    MaxRotations = 1
    MaxRestarts = 1
INVARIANT OneExecution
INVARIANT ExecutedOnce
INVARIANT NothingMissed
 
PROPERTY ReadyIsExecuted
PROPERTY OutageIsVisible
