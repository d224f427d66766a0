----------------------------- MODULE MCFileStore -----------------------------
(***************************************************************************)
(* Model-checking instance of FileStore.                                   *)
(***************************************************************************)
EXTENDS FileStore, TLC

CONSTANTS r1, r2

(* Handlers are interchangeable: nothing orders them.                       *)
Symmetry == Permutations({r1, r2})
=============================================================================
