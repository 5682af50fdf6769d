SPECIFICATION FairPollSpec
CONSTANTS
    u1 = u1
    u2 = u2
    m1 = m1
    m2 = m2
    NoURL = NoURL
    NoDigest = NoDigest
    URLs <- TwoURLs
    BaseURL = NoURL
    Memberships <- TwoMemberships
    MaxChanges = 1
    MaxOperator = 1
    MaxRestarts = 1
INVARIANT WakeupPending
PROPERTY SkipIsForEndpoint
PROPERTY Converges
