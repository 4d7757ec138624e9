SPECIFICATION Spec
CONSTANTS
    Opportunistic = TRUE
    LeaseMs = 2
    DrainMs = 1
    TermMs = 1
    Interval = 1
    MaxTime = 4
    MaxEpoch = 2
    MaxAsked = 1
    MaxPipe = 1
INVARIANTS AuthorityIsCurrent ExpiryIsDeadline
PROPERTY NeverRevived
CHECK_DEADLOCK FALSE
