---------------------------- MODULE MCPvpCommands ----------------------------
(* Small instances of PvpCommands for TLC. *)
EXTENDS PvpCommands, TLC

\* No definition names a user, a room or a handler.
Symmetry == Permutations(User) \cup Permutations(Room) \cup Permutations(Handler)
=============================================================================
