---------------------------- MODULE MCChatTurns ----------------------------
(* Small instances of ChatTurns for TLC. *)
EXTENDS ChatTurns, TLC

\* Requests are alike until they arrive, and so are workers.
Symmetry == Permutations(Request) \cup Permutations(Worker)
=============================================================================
