SPECIFICATION Spec
CONSTANTS
    Attempt = {a1, a2}
    NoAttempt = none
    RemoteData = {1}
    PushV1 = FALSE
    Shared = TRUE
    Repush = FALSE
    MaxWrites = 2
    MaxCrashes = 1
    MaxFaults = 0
    MaxVer = 3
INVARIANT RecoveryIdempotent
