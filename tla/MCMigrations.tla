--------------------------- MODULE MCMigrations ---------------------------
EXTENDS Migrations, TLC

CONSTANTS u1, u2, s1, t1, t2, j1, r1, f1, f2

symmetry == Permutations(Users) \cup Permutations(Texts) \cup Permutations(Families)

Shipped  == {{}, {0, 1}}
NoOthers == {}
Stops    == {0, 11, 14, 17, 19}
=============================================================================
