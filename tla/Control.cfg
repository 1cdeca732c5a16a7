CONSTANTS
    Id = {f1, f2}
    Root = {r1, r2}
    Device = {d1}
    Caller = {c1, c2}
    None = None
    MaxCalls = 3
    MaxFaults = 2
    MaxDrops = 1
SPECIFICATION Spec
INVARIANTS Reopens Agreement
SYMMETRY Symmetry
