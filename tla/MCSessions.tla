----------------------------- MODULE MCSessions -----------------------------
(***************************************************************************)
(* Sessions for TLC: two tabs of a file and two saves under way, one tab   *)
(* and two saves or two tabs and one save at a time; two peers, one        *)
(* invited to read or to write; two boxes and the cloud; two tabs of one   *)
(* account that a third tab watches.                                       *)
(***************************************************************************)
EXTENDS Sessions, TLC

CONSTANTS t1, t2

MCCapability == {<<"rw", "rw">>, <<"rw", "ro">>}
MCAccount == [t \in {t1, t2} |-> "theirs"]

(* The watched tabs are interchangeable: they are of one account.          *)
Symmetry == Permutations({t1, t2})
=============================================================================
