\* Every fault may strike: two inputs, two chunks of output.
SPECIFICATION FairSpec
CONSTANTS
    Faults = {"db", "audit", "replay", "tunnel", "node"}
    MaxInput = 2
    MaxOutput = 2
CHECK_DEADLOCK FALSE
INVARIANTS
    NothingUnrecorded
    AuditTruthful
    ReplayMatchesRow
PROPERTIES
    RefinesRow
    ExitPersists
    HangupOnOpenBridgePersists
    ReplayFailureEnds
