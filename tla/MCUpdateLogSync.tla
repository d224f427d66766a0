---------------------------- MODULE MCUpdateLogSync ----------------------------
(***************************************************************************)
(* Model-checking instance of UpdateLogSync.                                   *)
(***************************************************************************)
EXTENDS UpdateLogSync, TLC

CONSTANTS s1, s2

MCSessions == {s1, s2}

(* Sessions are interchangeable: nothing orders them and no property names  *)
(* one.  (Not used with the temporal properties.)                           *)
Symmetry == Permutations(MCSessions)
=============================================================================
