------------------------- MODULE MCConnectionStore -------------------------
EXTENDS ConnectionStore, TLC
CallSymmetry == Permutations(Call)
=============================================================================
