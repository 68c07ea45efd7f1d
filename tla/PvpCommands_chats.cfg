\* Two users, two chats, two commands in flight, games of up to two moves,
\* the transport that falls back to HTTP, and one fault.
SPECIFICATION Spec
CONSTANTS
    User    = {u1, u2}
    Room    = {r1, r2}
    Handler = {h1, h2}
    NoOne   = NoOne
    Nil     = Nil
    MaxPly  = 2
    Transport = "auto"
    DryRun    = FALSE
    RetryMax  = 3
SYMMETRY Symmetry
CHECK_DEADLOCK FALSE
INVARIANTS
    TypeOK
    EveryMoveShown
    VerdictTold
PROPERTIES
    InOrder
