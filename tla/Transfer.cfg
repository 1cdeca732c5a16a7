CONSTANTS
    c1 = c1
    c2 = c2
    c3 = c3
    c4 = c4
    Chunk = {c1, c2, c3, c4}
    Source = {s1, s2}
    Honest = {s2}
    Manifest <- MCManifest
    Size <- MCSize
    Reserve = 1
    Destination = 1
    MinFree = 2
    MaxFree = 6
    MaxOutside = 1
    Rotten = {c1}
    Fillable = {c1, c2}
    Streams = 2
    PerFetch = 1
    Batch = 2
    MaxInflight = 2
    MaxQueued = 3
SPECIFICATION Spec
INVARIANTS Accounted HonestSuffices
PROPERTIES WritesKeepReserve ImplementsStaging
CHECK_DEADLOCK FALSE
