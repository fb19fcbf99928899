---------------------------- MODULE MCRunNumbers ----------------------------
(* Instances of RunNumbers for TLC.                                        *)
EXTENDS RunNumbers, TLC

CONSTANT analysis

OneName == {<<analysis>>}

Processes == Permutations(Clients)
=============================================================================
