---------------------------- MODULE MCQuotaPeriods ----------------------------
(* Instances of QuotaPeriods for TLC.                                      *)
EXTENDS QuotaPeriods

\* A short month after a longer one, and a longer one again.
Lengths == [m \in 0..(MaxMonth + Period) |-> IF m = 1 THEN 1 ELSE 2]
=============================================================================
