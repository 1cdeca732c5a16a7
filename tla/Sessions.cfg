SPECIFICATION ServersSpec
CONSTANTS
    Peer = {p1, p2}
    ReadOnlyPeer = {}
    Revocable = {p1}
    Session = {s1, s2}
    Pause = pause
    None = none
    Direct = {d1, d2}
    Swarm = {w1}
    Stream = {t1, t2}
    Caller = {c1, c2}
    Nobody = nobody
    Limit = 2
    SwarmLimit = 1
    Inflight = 2
INVARIANTS
    QuietAfterReturn
    ServerQuiet
PROPERTY CallsReturn
