SPECIFICATION Spec
CONSTANTS
    Attempt = {a1, a2}
    NoAttempt = none
    RemoteData = {1}
    PushV1 = FALSE
    Shared = FALSE
    Repush = TRUE
    MaxWrites = 0
    MaxCrashes = 1
    MaxFaults = 0
    MaxVer = 3
INVARIANT RecoveryIdempotent
