--------------------------- MODULE MCTurnPipeline ---------------------------
(* The instance of TurnPipeline that TLC checks: the real one. *)
EXTENDS TurnPipeline

\* _REGEN_COUNTER.
RegenCounters == [guest |-> 2, invite |-> 4]
=============================================================================
