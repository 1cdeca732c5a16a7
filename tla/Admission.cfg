SPECIFICATION Spec
SYMMETRY AdmissionSymmetry
CONSTANTS
    Process = {p, q}
    Path <- NestedPaths
    Share = {m, n}
    Legacy = legacy
    Nobody = nobody
    NoRoot = noroot
INVARIANTS
    LeasesDisjoint
    PrivateNeverPublic
    BindingSurvives
