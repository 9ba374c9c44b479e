--------------------------- MODULE MCFreeSegments ---------------------------
(* Small instances of FreeSegments. *)
EXTENDS FreeSegments, TLC

CONSTANTS s1, s2, s3, s4, s5, w1, w2, w3

Symmetry == Permutations(Segments)
=============================================================================
