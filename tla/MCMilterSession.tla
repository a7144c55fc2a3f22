--------------------------- MODULE MCMilterSession ---------------------------
(* MilterSession for TLC: sessions and objects are interchangeable.        *)
EXTENDS MilterSession, TLC

Symmetry == Permutations(Session) \cup Permutations(Object)

=============================================================================
