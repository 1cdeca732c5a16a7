CONSTANTS
    Path = {p, q}
    None = None
    MaxOwner = 2
    MaxUser = 2
    MaxStop = 1
SPECIFICATION Spec
INVARIANTS LocalWorkKept
PROPERTIES NeverOlder Settles
