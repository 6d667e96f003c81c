\* No faults: the user hangs up whenever it suits.
SPECIFICATION FairSpec
CONSTANTS
    Faults = {}
    MaxInput = 2
    MaxOutput = 2
CHECK_DEADLOCK FALSE
PROPERTY HangupPersists
