\* Unlimited attempts or three, a backoff capped at 6 s after three doublings, three faults.
\* A float overflows at attempt 1024; here at attempt 5, with the cap long reached.
SPECIFICATION FairSpec
CONSTANTS
    Limits = {0, 3}
    MaxDelay = 6
    OverflowAt = 5
    MaxFaults = 3
CHECK_DEADLOCK FALSE
PROPERTIES
    RefusedBacksOff
    AgentReturns
    DeadCredentialsStayDead
    RevokedGoesStale
