----------------------------- MODULE TurnQueue -----------------------------
(***************************************************************************)
(* What RateControlService.turn promises a session: its turns run one at a *)
(* time, in the order in which they asked, each from when it begins to     *)
(* when it leaves. This is the queue ChatTurns builds on.                  *)
(***************************************************************************)
EXTENDS Sequences, SequencesExt

CONSTANTS Request, Session

VARIABLES
  line,   \* session -> the requests that asked for a turn, in order
  inside  \* the requests whose turn has begun

Init ==
  /\ line = [s \in Session |-> <<>>]
  /\ inside = {}

\* With nobody ahead, the turn may begin at once.
Join(s, r) ==
  /\ \A t \in Session : ~Contains(line[t], r)
  /\ line' = [line EXCEPT ![s] = Append(@, r)]
  /\ \/ UNCHANGED inside
     \/ line[s] = <<>> /\ inside' = inside \cup {r}

Begin(s, r) ==
  /\ line[s] # <<>> /\ Head(line[s]) = r
  /\ inside' = inside \cup {r}
  /\ UNCHANGED line

\* The turn ends, or its request gives up waiting.
Leave(s, r) ==
  /\ Contains(line[s], r)
  /\ line' = [line EXCEPT ![s] = RemoveFirst(@, r)]
  /\ inside' = inside \ {r}

Next == \E s \in Session, r \in Request : Join(s, r) \/ Begin(s, r) \/ Leave(s, r)

Spec == Init /\ [][Next]_<<line, inside>>
=============================================================================
