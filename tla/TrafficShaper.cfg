SPECIFICATION FairSpec
CONSTANTS
    p1 = p1
    p2 = p2
    ip1 = ip1
    ip2 = ip2
    m1 = m1
    m2 = m2
    NoPod = NoPod
    NoURL = NoURL
    NoDigest = NoDigest
    Pods <- OnePod
    PodURL <- OwnAddress
    URLs <- PodURLs
    Replicas = 1
    Faults = TRUE
    Disconnects = TRUE
    MaxFlaps = 0
    BaseURL = NoURL
    Memberships <- TwoMemberships
    MaxChanges = 0
    MaxOperator = 0
    MaxRestarts = 1
PROPERTY ImplementsPoll
PROPERTY ReadyIsReconciled
CHECK_DEADLOCK FALSE
