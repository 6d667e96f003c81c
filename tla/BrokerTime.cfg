\* One agent, two connections, one session; the clock runs for two heartbeat intervals,
\* under the fairness of the event loop.
SPECIFICATION FairSpec
CONSTANTS
    Agents = {a1}
    Conns = {c1, c2}
    Channels = {s1}
    MaxSessions = 1
    HeartbeatSeconds = 1
    MaxTime = 2
    NoAgent = NoAgent
    NoConn = NoConn
CHECK_DEADLOCK FALSE
PROPERTIES
    StaleFailsClosed
    LossTearsDown
