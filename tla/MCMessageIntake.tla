--------------------------- MODULE MCMessageIntake ---------------------------
(* Instance for TLC: see MessageIntake_frames.cfg. *)
EXTENDS MessageIntake, TLC

Symmetry == Permutations(Post) \cup Permutations(Key)
                \cup Permutations(Listener) \cup Permutations(Process)
=============================================================================
