\* A caller that disconnects in the middle of its operation leaves a worker that is
\* not as it is saved, though nothing failed (MaxFaults = 0).  Not kept by the code.
CONSTANTS
    Id = {f1}
    Root = {r1}
    Device = {d1}
    Caller = {c1}
    None = None
    MaxCalls = 2
    MaxFaults = 0
    MaxDrops = 1
SPECIFICATION Spec
INVARIANTS AgreementThroughout
