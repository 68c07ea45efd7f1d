\* Three commands and room for two engine processes; every talk with a process
\* may fail, every process may die, every deadline may pass.
SPECIFICATION FairSpec
CONSTANTS
    Caller   = {c1, c2, c3}
    Capacity = 2
    Nil      = Nil
INVARIANTS
    Accounting
    Exclusive
    NoOrphan
    AnswerIsOwn
PROPERTIES
    EveryoneReturns
CHECK_DEADLOCK FALSE
