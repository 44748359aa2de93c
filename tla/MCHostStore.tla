---------------------------- MODULE MCHostStore ----------------------------
EXTENDS HostStore, TLC

CONSTANTS i1, i2, k1

MCIds == {i1, i2}
MCSecrets == {k1}

SymmetricIds == Permutations(MCIds)
=============================================================================
