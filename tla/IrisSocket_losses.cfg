\* Two connections, one attempt to get the second, every way to lose one, and
\* a process that may be stopped at any time.
SPECIFICATION FairSpec
CONSTANTS
    MaxConn     = 2
    MaxAttempts = 1
INVARIANTS
    NeverDeaf
    SoleListener
    QuietAfterClose
PROPERTIES
    CloseReturns
    StallNoticed
CHECK_DEADLOCK FALSE
