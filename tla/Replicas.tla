------------------------------- MODULE Replicas -------------------------------
(***************************************************************************)
(* The tabs that have a document open and the op ids they mint.  The id    *)
(* "wall_counter_replica" is ordered by opIdLess (grid.js, tree.js) on its  *)
(* Lamport counter c, then on the replica r; the wall clock only makes two  *)
(* ids differ, and at, the number of the operation, stands for it.          *)
(* Replica ids are compared as strings: they are numbers here.              *)
(***************************************************************************)
EXTENDS Naturals, FiniteSets, Sequences

CONSTANTS Tab,      \* replicas; a tab keeps its id across reloads (sessionStorage)
          Browser,  \* the localStorage areas
          Home      \* Home[t]: the browser tab t runs in

ASSUME ReplicaAssumption ==
  /\ Tab \subseteq Nat \ {0}
  /\ Home \in [Tab -> Browser]

Less(a, b) == a.c < b.c \/ (a.c = b.c /\ a.r < b.r)

(* The ids minted so far are pairwise ordered: no replica reused a counter. *)
Unique(ops) == \A a, b \in ops : a.c = b.c /\ a.r = b.r => a = b

Observe(clock, counters) ==
  CHOOSE m \in counters \union {clock} :
    \A n \in counters \union {clock} : n <= m
=============================================================================
