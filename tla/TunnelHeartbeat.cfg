\* One session at most, under fairness, and two heartbeat intervals without traffic.
SPECIFICATION FairSpec
CONSTANTS
    s1 = s1
    Channels = {s1}
    Faults = {}
    HighWater = 0
    MaxDown <- Single
    MaxUp <- Single
    MaxIdle = 2
CHECK_DEADLOCK FALSE
PROPERTY HeartbeatRevives
