--------------------------- MODULE MessageLedger ---------------------------
(***************************************************************************)
(* What a conversation promises about the messages a visitor sends: each   *)
(* one has a single fate, reached once and never revised, and the messages *)
(* that wait for an answer are settled together. "The turn answers the     *)
(* pending group, not just user_message" (context_gatherer.py), and a      *)
(* failed or refused turn takes the whole group with it (chat_service.py). *)
(***************************************************************************)
CONSTANT Message

VARIABLE fate

Final == {"answered", "ignored", "dropped"}
Fates == {"unsent", "pending"} \cup Final

Pending == {m \in Message : fate[m] = "pending"}

LedgerTypeOK == fate \in [Message -> Fates]

Init == fate = [m \in Message |-> "unsent"]

\* The message is stored.
Send(m) ==
  /\ fate[m] = "unsent"
  /\ fate' = [fate EXCEPT ![m] = "pending"]

\* Everything that waits is replied to, deliberately left without a reply, or
\* taken out of the conversation.
Settle(f) ==
  /\ Pending # {}
  /\ fate' = [m \in Message |-> IF m \in Pending THEN f ELSE fate[m]]

\* The message of a failed turn is taken out alone, when the release of its
\* whole group failed too.
Withdraw(m) ==
  /\ fate[m] = "pending"
  /\ fate' = [fate EXCEPT ![m] = "dropped"]

Next ==
  \/ \E m \in Message : Send(m) \/ Withdraw(m)
  \/ \E f \in Final : Settle(f)

Spec == Init /\ [][Next]_fate
=============================================================================
