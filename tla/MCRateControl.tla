--------------------------- MODULE MCRateControl ---------------------------
(* Small instances of RateControl for TLC. *)
EXTENDS RateControl

\* Seconds, counts and allowances, scaled down so that all are met.
Intervals == [guest |-> 2, invite |-> 1]
Caps      == [guest |-> 2, invite |-> 3]
Quotas    == [guest |-> 1, invite |-> 2]
=============================================================================
