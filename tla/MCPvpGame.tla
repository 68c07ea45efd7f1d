---------------------------- MODULE MCPvpGame ----------------------------
(* Instances of PvpGame for TLC. *)
EXTENDS PvpGame, TLC

\* Users, rooms, ids and goroutines are interchangeable: nothing orders them.
Symmetry == Permutations(User) \cup Permutations(Room)
            \cup Permutations(GameId) \cup Permutations(Handler)
==========================================================================
