----------------------------- MODULE MCServices -----------------------------
(***************************************************************************)
(* Services for TLC: three accounts, three signers' settings, two requests *)
(* at a time, and limits small enough to be reached and crossed.           *)
(***************************************************************************)
EXTENDS Services, TLC

CONSTANTS r1, r2

(* A local store without faults, and Postgres with a read that fails or a  *)
(* request that dies.                                                      *)
MCSetting == {<<"local", "parallel", 1>>, <<"postgres", "sequential", 0>>}

(* Two invites, good for one account each.                                 *)
MCMaxUses == <<1, 1>>

(* Floors below, between and above the heads that occur.                   *)
MCFloorArg == {-1, 1, 2, 4}

(* Requests are interchangeable: nothing orders them.                      *)
Symmetry == Permutations({r1, r2})
=============================================================================
