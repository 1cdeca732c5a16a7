SPECIFICATION Spec
SYMMETRY ClientSymmetry
CONSTANTS
    c1 = c1
    c2 = c2
    dir = dir
    Replica = {s, a, b}
    Server = s
    Resolver = resolver
    Content = {c1, c2}
    Directory = dir
    StateHash <- MCStateHash
    Path <- OnePath
    Disturb = FALSE
    MaxEdits = 3
    MaxFailures = 0
INVARIANTS
    TypeOK
    EqualClockSameState
    CounterCovers
    ConflictCopyKept
    SnapshotExact
PROPERTIES
    KnowledgeGrows
