\* Two tokens, two requests at a time and four altogether.
SPECIFICATION Spec
CONSTANTS
    Tokens = {t1, t2}
    Requests = {r1, r2}
    MaxFailures = 1
    MaxSource = 3
    MaxAttempts = 4
    None = None
SYMMETRY Symmetry
CHECK_DEADLOCK FALSE
INVARIANTS
    BurntIsCounted
    SingleUse
    IdentityIsEnrolled
    TrailLeadsHome
    GuessesBounded
