\* Two frames either way; the sizes on both sides of every limit, and two values of
\* frame_max_bytes that validation turns away.
SPECIFICATION FairSpec
CONSTANTS
    Sizes = {0, 2, 65536, 1048576, 1048577, 16777216}
    ForeignSizes = {0, 2, 16777217}
    ServerLimits = {65535, 65536, 1048576, 16777216, 16777217}
    MinLimit = 65536
    MaxLimit = 16777216
    AgentLimit = 1048576
    Chunk = 65536
    MaxFrames = 2
    NoFrame = NoFrame
CHECK_DEADLOCK FALSE
INVARIANTS
    OwnFramesAccepted
    CleanEndIsWhole
PROPERTIES
    RefinesFifo
    ReaderKeepsUp
