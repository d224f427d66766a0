------------------------------ MODULE MCClients ------------------------------
(***************************************************************************)
(* Clients for TLC: two sessions, two edits each.                          *)
(***************************************************************************)
EXTENDS Clients, TLC

CONSTANTS s1, s2

(* Sessions are interchangeable: nothing orders them and no property names *)
(* one.                                                                    *)
Symmetry == Permutations({s1, s2})
=============================================================================
