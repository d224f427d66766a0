---------------------------- MODULE MCOpLogSync ----------------------------
(***************************************************************************)
(* Model-checking instance of OpLogSync.                                   *)
(***************************************************************************)
EXTENDS OpLogSync, TLC

CONSTANTS s1, s2

MCSessions == {s1, s2}

(* Sessions are interchangeable: nothing orders them and no property names  *)
(* one.  (Not used with the temporal properties.)                           *)
Symmetry == Permutations(MCSessions)
=============================================================================
