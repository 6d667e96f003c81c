\* Two sessions share one tunnel: two data frames to the node on one, two back on the other,
\* a silent heartbeat interval; sshd may fail, and the event loops are fair.
SPECIFICATION FairSpec
CONSTANTS
    s1 = s1
    Channels = {s1, s2}
    Faults = {"local"}
    HighWater = 0
    MaxDown <- BusyOnly
    MaxUp <- OtherOnly
    MaxIdle = 1
CHECK_DEADLOCK FALSE
INVARIANTS
    BytesInOrder
    AgentNeverConfused
    OnlyCrossingKills
    NoStrayConnection
    AgentBackpressure
PROPERTY CloseReachesNode
