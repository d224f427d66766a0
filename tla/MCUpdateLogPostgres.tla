------------------------- MODULE MCUpdateLogPostgres -------------------------
EXTENDS UpdateLogPostgres, TLC
CONSTANTS r1, r2, r3, d1, d2

MCReq == {r1, r2, r3}
MCTwoReq == {r1, r2}
MCData == {d1, d2}
MCFloorArg == -1..(MaxSeq + 1)
MCSinceArg == 0..MaxSeq
Symmetry == Permutations({r1, r2, r3}) \union Permutations({d1, d2})
SymmetryTwo == Permutations({r1, r2}) \union Permutations({d1, d2})
=============================================================================
