SPECIFICATION FairSpec
CONSTANTS
    Attempt = {a1}
    NoAttempt = none
    RemoteData = {1}
    PushV1 = FALSE
    Shared = FALSE
    Repush = FALSE
    MaxWrites = 1
    MaxCrashes = 0
    MaxFaults = 0
    MaxVer = 3
PROPERTY RetryReconciles
