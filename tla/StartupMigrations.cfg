SPECIFICATION FairSpec
CONSTANTS
    Binaries = {1, 2, 3, 4}
    Origins <- AnyOrigin
    MaxFailures = 2
    MaxOutages = 1
 
INVARIANT RestartedOnce
 
