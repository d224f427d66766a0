-------------------------- MODULE MCUpdateLogLocal --------------------------
(***************************************************************************)
(* Model-checking instance of UpdateLogLocal.                              *)
(***************************************************************************)
EXTENDS UpdateLogLocal

CONSTANTS r1, r2, d1, d2

MCReq == {r1, r2}
MCData == {d1, d2}
(* Below 0 and above any head, so that both clamps bite.                    *)
MCFloorArg == -1..(MaxSeq + 1)
MCSinceArg == 0..2
=============================================================================
