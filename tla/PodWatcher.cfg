SPECIFICATION ReconnectSpec
CONSTANTS
    p1 = p1
    ip1 = ip1
    NoPod = NoPod
    NoURL = NoURL
    Pods <- OnePod
    PodURL <- OwnAddress
    Replicas = 1
    Faults = TRUE
    Disconnects = TRUE
    MaxFlaps = 2
    MaxRestarts = 1
INVARIANT DedupeIsSound
PROPERTY ReadyIsShaped
CHECK_DEADLOCK FALSE
