-------------------------- MODULE MCRetentionRules --------------------------
(* Instances of RetentionRules for TLC.                                    *)
EXTENDS RetentionRules, TLC

CONSTANTS w1, w2, w3, a, b, c

\* A run w1 and two restarts of it, w2 and w3, with a rule each.
OfEach == (a :> w1) @@ (b :> w2) @@ (c :> w3)
Families == (w1 :> "f") @@ (w2 :> "f") @@ (w3 :> "f")
=============================================================================
