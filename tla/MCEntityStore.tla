---------------------------- MODULE MCEntityStore ----------------------------
EXTENDS EntityStore, TLC

MCLows == {-1, 1}
MCHighs == {0, 1}

Symmetry == Permutations(Threads) \cup Permutations(Ids) \cup Permutations(Tenants)
=============================================================================
