SPECIFICATION Spec
CONSTANTS
    SoloOperatorEnabled = TRUE
    MaxFaults = 1
    Sessions <- MCSessions
    canonicalBNPolicies <- MCcanonicalBNPolicies
    obsoleteBNPolicies <- MCobsoleteBNPolicies
INVARIANT GoalReached
INVARIANT UninstallRecovers
INVARIANT Rerun
INVARIANT Undone
 
PROPERTY DataIsSafe
 
PROPERTY MonitorGoesFirst
PROPERTY KeepsLifecycle
CHECK_DEADLOCK FALSE
