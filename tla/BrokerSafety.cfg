\* Two agents, two connections that may race for one slot, two sessions and room for one per agent.
SPECIFICATION Spec
CONSTANTS
    Agents = {a1, a2}
    Conns = {c1, c2}
    Channels = {s1, s2}
    MaxSessions = 1
    HeartbeatSeconds = 1
    MaxTime = 0
    NoAgent = NoAgent
    NoConn = NoConn
SYMMETRY Symmetry
CHECK_DEADLOCK FALSE
INVARIANTS
    ServingIsRegistered
    RoutesLead
    NoOrphanStream
PROPERTIES
    IntruderHarmless
    RefinesDirectory
