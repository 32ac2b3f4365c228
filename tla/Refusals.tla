------------------------------ MODULE Refusals ------------------------------
(***************************************************************************)
(* Which messages the refusal of another one releases. A refused message   *)
(* does not join its worker's turn queue: its handler goes straight to the *)
(* advisory lock (ChatService._discard_pending_group), where it competes   *)
(* with messages the visitor sends afterwards.                             *)
(***************************************************************************)
EXTENDS ChatTurns

VARIABLE later  \* history: the requests still to come when one is refused

RefusalInit == Init /\ later = [r \in Request |-> {}]

RefusalNext ==
  /\ Next
  /\ later' = [r \in Request |->
       IF pc[r] = "idle" /\ pc'[r] = "gate" THEN {q \in Request \ {r} : pc[q] = "idle"}
       ELSE later[r]]

RefusalSpec == RefusalInit /\ [][RefusalNext]_<<vars, later>>

-----------------------------------------------------------------------------
\* What handle_chat_turn says of a refusal: "If this conversation is holding a
\* message the readiness gate said to wait on, that held message was waiting
\* for THIS one". A refusal then releases nothing that was sent after it.
RefusalReleasesEarlier ==
  [][\A r \in Request : pc[r] = "release" /\ pc'[r] = "done" =>
       \A q \in later[r] :
         own[q] # 0 /\ rows[own[q]] = "user" => rows'[own[q]] = "user"]_<<vars, later>>
=============================================================================
