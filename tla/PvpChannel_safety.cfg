\* One channel, three users who race for its seats, one game, every fault.
SPECIFICATION Spec
CONSTANTS
    User    = {u1, u2, u3}
    Room    = {r1}
    Code    = {c1}
    GameId  = {g1}
    Handler = {h1, h2}
    NoOne   = NoOne
    Nil     = Nil
    MayFail = TRUE
SYMMETRY Symmetry
INVARIANTS
    
    Inductive
