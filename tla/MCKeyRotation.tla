---------------------------- MODULE MCKeyRotation ----------------------------
(* Instances of KeyRotation for TLC.                                       *)
EXTENDS KeyRotation, TLC

\* Two users and a session; values, users, rotations and servers are alike.
Symmetry == Permutations(Secrets) \cup Permutations(Users)
              \cup Permutations(Rotators) \cup Permutations(Servers)
=============================================================================
