------------------------------ MODULE ModelRun ------------------------------
(***************************************************************************)
(* What the rest of the service may rely on about one run of the models:   *)
(* it declines, or it keeps every draft it rejects for review until one    *)
(* passes or the last one is rejected, or it fails, at any time. ChatTurns *)
(* takes its steps Judge, RejectAttempt, Compose, GiveUp and RunFails from *)
(* here.                                                                   *)
(***************************************************************************)
EXTENDS Naturals

VARIABLES
  attempts,  \* the drafts this run may have audited
  skip,      \* a continue: the readiness gate is not asked
  held,      \* there are messages waiting for an answer
  rejected,  \* review rows of rejected drafts
  exhausted, \* the review row that all drafts were rejected
  verdict    \* what the run came to

inputs == <<attempts, skip, held>>
vars   == <<inputs, rejected, exhausted, verdict>>

Init ==
  /\ attempts \in Nat \ {0} /\ skip \in BOOLEAN /\ held \in BOOLEAN
  /\ rejected = 0 /\ ~exhausted /\ verdict = "none"

Conclude(d) == verdict = "none" /\ verdict' = d /\ UNCHANGED <<inputs, rejected>>

\* A continue with nothing held needs no reply; a gated message may be held
\* back. A message that finds nothing waiting is answered anyway.
Decline ==
  /\ rejected = 0 /\ skip # held
  /\ \E d \in {"wait", "no_reply"} : (skip => d = "no_reply") /\ Conclude(d)
  /\ UNCHANGED exhausted

Reject ==
  /\ verdict = "none" /\ rejected < attempts
  /\ rejected' = rejected + 1
  /\ UNCHANGED <<inputs, exhausted, verdict>>

Compose ==
  /\ rejected < attempts /\ (skip => held)
  /\ \/ Conclude("reply")
     \/ rejected = 0 /\ Conclude("notice")
  /\ UNCHANGED exhausted

GiveUp == rejected = attempts /\ exhausted' = TRUE /\ Conclude("fallback")

\* The last row may be committed although the run is not told so.
Fail ==
  /\ exhausted' \in {exhausted, rejected = attempts}
  /\ Conclude("failed")

Next == Decline \/ Reject \/ Compose \/ GiveUp \/ Fail

Spec == Init /\ [][Next]_vars
=============================================================================
