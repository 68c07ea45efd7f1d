--------------------------- MODULE MCSoloSession ---------------------------
(***************************************************************************)
(* SoloSession for TLC: goroutines, session uuids and names are each       *)
(* interchangeable.                                                        *)
(***************************************************************************)
EXTENDS SoloSession, TLC

Symmetry == Permutations(Handler) \cup Permutations(Uuid) \cup Permutations(Player)
=============================================================================
