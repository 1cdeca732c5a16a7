SPECIFICATION CatalogSpec
CONSTANTS
    Peer = {p1, p2}
    Writer = {w1, w2}
    Replica = {owner, resolver, a, b}
    Owner = owner
    Resolver = resolver
    Retained = {a}
    None = none
    MaxCounter = 1
SYMMETRY Symmetric
INVARIANTS CeilingsCover DistinctAuthors Loadable
PROPERTY CountersOwned
