\* One agent, two connections, one session, under the fairness of the event loop.
SPECIFICATION FairSpec
CONSTANTS
    Agents = {a1}
    Conns = {c1, c2}
    Channels = {s1}
    MaxSessions = 1
    HeartbeatSeconds = 1
    MaxTime = 0
    NoAgent = NoAgent
    NoConn = NoConn
CHECK_DEADLOCK FALSE
PROPERTY RevokedTunnelEnds
