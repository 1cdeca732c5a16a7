CONSTANTS
    a = a
    d = d
    x = x
    Root = Root
    None = None
    Path = {a, d, x}
    Dir = {d}
    Parent <- MCParent
    Order <- MCOrder
    Flaky = {Root, d, x}
    OddIn = {Root, d}
    MaxEdits = 5
    MaxWait = 2
SPECIFICATION Spec
INVARIANTS RowsObserved
PROPERTIES NoFalseDeletion HistoryGrows CatchesUp
