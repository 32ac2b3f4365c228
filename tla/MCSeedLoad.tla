----------------------------- MODULE MCSeedLoad -----------------------------
(* Small instances of SeedLoad for TLC. *)
EXTENDS SeedLoad, TLC

\* Turns, processes and loaders have no order and no names in the code.
Symmetry == Permutations(Turn) \cup Permutations(Process) \cup Permutations(Loader)
=============================================================================
