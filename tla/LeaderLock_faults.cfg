\* Three processes that start, stop, stall and die; every Redis call may fail.
\* The unit of time is 5 seconds: the lock lives for 20, the ticker fires
\* every 10.
SPECIFICATION FairSpec
CONSTANTS
    Instance = {i1, i2, i3}
    Nil      = Nil
    Ttl      = 4
    Period   = 2
    MayStall = TRUE
INVARIANTS
    OneLeaderWhenCalm
    InTime
PROPERTIES
    DeposedEnds
    LockComesFree
