\* No faults, fair handlers: one channel, two commands in flight.
SPECIFICATION FairSpec
CONSTANTS
    User    = {u1, u2, u3}
    Room    = {r1}
    Code    = {c1}
    GameId  = {g1, g2}
    Handler = {h1, h2}
    NoOne   = NoOne
    Nil     = Nil
    MayFail = FALSE
INVARIANTS
    AtMostTwo

    
