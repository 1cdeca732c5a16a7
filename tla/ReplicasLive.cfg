SPECIFICATION FairSpec
CONSTANTS
    c1 = c1
    c2 = c2
    dir = dir
    Replica = {s, a}
    Server = s
    Resolver = resolver
    Content = {c1, c2}
    Directory = dir
    StateHash <- MCStateHash
    Path <- TwoPaths
    Disturb = TRUE
    MaxEdits = 3
    MaxFailures = 1
PROPERTIES
    Converges
