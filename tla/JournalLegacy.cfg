SPECIFICATION Spec
SYMMETRY AttemptSymmetry
CONSTANTS
    Attempt = {a1, a2}
    NoAttempt = none
    RemoteData = {1}
    PushV1 = TRUE
    Shared = FALSE
    Repush = TRUE
    MaxWrites = 2
    MaxCrashes = 1
    MaxFaults = 1
    MaxVer = 3
INVARIANTS
    TypeOK
    NoUserWriteLost
    AdoptedNeverUndone
    CommittedWasIndexed
    OriginalRetained
