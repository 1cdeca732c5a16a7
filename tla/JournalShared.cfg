SPECIFICATION Spec
SYMMETRY AttemptSymmetry
CONSTANTS
    Attempt = {a1, a2}
    NoAttempt = none
    RemoteData = {1}
    PushV1 = FALSE
    Shared = TRUE
    Repush = FALSE
    MaxWrites = 2
    MaxCrashes = 2
    MaxFaults = 0
    MaxVer = 3
INVARIANTS
    RolledBackRestored
    RemoteNeverAuthored
PROPERTIES
    NoAdoptionAfterRevoke
