SPECIFICATION FairSpec
CONSTANTS
    Attempt = {a1, a2}
    NoAttempt = none
    RemoteData = {1}
    PushV1 = FALSE
    Shared = TRUE
    Repush = FALSE
    MaxWrites = 0
    MaxCrashes = 2
    MaxFaults = 0
    MaxVer = 3
INVARIANTS
    RecoveryIdempotent
PROPERTIES
    RecoverySettles
