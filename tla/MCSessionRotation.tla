------------------------- MODULE MCSessionRotation -------------------------
(* Small instances of SessionRotation for TLC. *)
EXTENDS SessionRotation, TLC

Symmetry == Permutations(Request)
=============================================================================
