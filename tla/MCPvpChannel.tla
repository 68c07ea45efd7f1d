---------------------------- MODULE MCPvpChannel ----------------------------
(* Small instances of PvpChannel for TLC. *)
EXTENDS PvpChannel, TLC

\* Users, rooms, codes, games and handlers are interchangeable: no
\* definition names one of them.  Not used where a liveness property is checked.
Symmetry == Permutations(User) \cup Permutations(Room) \cup Permutations(Code)
            \cup Permutations(GameId) \cup Permutations(Handler)
=============================================================================
