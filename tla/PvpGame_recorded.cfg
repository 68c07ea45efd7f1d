SPECIFICATION FairSpec
CONSTANTS
    User    = {u1, u2}
    Room    = {r1}
    GameId  = {g1}
    Handler = {h1, h2}
    NoOne   = NoOne
    Nil     = Nil
    AnyRoom = AnyRoom
    MaxPly  = 2
    MayFail = FALSE
PROPERTIES
    FinalRecorded
