\* One user, two games one after the other, two commands in flight, every
\* fault.  A game ends by resignation or by the engine's move.
SPECIFICATION Spec
CONSTANTS
    User    = {u1}
    Player  = {p1}
    Uuid    = {g1, g2}
    Result  = {"loss"}
    Handler = {h1, h2}
    MaxPly  = 2
    MayFail = TRUE
    Nil     = Nil
SYMMETRY Symmetry
INVARIANTS
    CountsBacked
    PlayersTurn
    SettledWhenCalm
    Inductive
PROPERTIES
    ImplementsGame
