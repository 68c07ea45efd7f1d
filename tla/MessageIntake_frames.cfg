CONSTANTS
    Post = {m1, m2}
    Author = {ann, bot}
    Ignored = {bot}
    Key = {k1, k2}
    Listener = {l1, l2}
    Process = {p1, p2}
    Ttl = 1
    Spread = 1
    Nil = Nil
SPECIFICATION Spec
SYMMETRY Symmetry
CHECK_DEADLOCK FALSE
INVARIANTS
    HandledOnce
    NotLost
