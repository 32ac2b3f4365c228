-------------------------- MODULE MCSummarization --------------------------
(* Small instances of Summarization for TLC. *)
EXTENDS Summarization, TLC

\* Requests are alike until they arrive, and so are workers.
Symmetry == Permutations(Request) \cup Permutations(Worker)
=============================================================================
