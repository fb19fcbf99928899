-------------------------- MODULE MCWorkflowStatus --------------------------
(* Instances of WorkflowStatus for TLC.                                    *)
EXTENDS WorkflowStatus, TLC

CONSTANTS w1, w2, alice

\* All workflows belong to one user, who is charged for the sum.
OneOwner == [w \in Workflows |-> alice]

Symmetry == Permutations(Workflows) \cup Permutations(Workers)
=============================================================================
