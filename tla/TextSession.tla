------------------------------ MODULE TextSession ------------------------------
(***************************************************************************)
(* src/lib/crdt/text.js, the RGA of characters, and DocsCollabSession of   *)
(* src/lib/crdt/index.js, which broadcasts its ops, asks its peers for     *)
(* their snapshots when it joins, and keeps one of its own in              *)
(* localStorage, in a key that the tabs of one browser share.  An op that  *)
(* was sent may reach a session at any time, in any order, any number of   *)
(* times or never.  A code point is identified by the number of the op     *)
(* that inserted it.  The tests drive this session; no editor mounts it,   *)
(* since Docs edits through yP2PSession.js.                                *)
(***************************************************************************)
EXTENDS Replicas, SequencesExt

CONSTANTS MaxRun,  \* bound: characters one edit deletes, or inserts
          MaxOps   \* bound: ops ever minted

VARIABLES tab,    \* tab[t]: the session of t
          store,  \* store[b]: the snapshot in localStorage
          sent    \* ops broadcast so far

vars == <<tab, store, sent>>

Root == [c |-> 0, r |-> 0]
Id == [c : Nat \ {0}, r : Tab]
Node == [id : Id, p : Id \union {Root}, at : Nat \ {0}]
Snapshot == [nodes : SUBSET Node, deleted : SUBSET Id]

(* seen is history: what the ops that reached the session say.             *)
Session == [open : BOOLEAN, clock : Nat, nodes : SUBSET Node,
            deleted : SUBSET Id, pending : SUBSET Id, due : BOOLEAN,
            seen : Snapshot]

Nothing == [nodes |-> {}, deleted |-> {}]
NoSession == [open |-> FALSE, clock |-> 0, nodes |-> {}, deleted |-> {},
              pending |-> {}, due |-> FALSE, seen |-> Nothing]

Init ==
  /\ tab = [t \in Tab |-> NoSession]
  /\ store = [b \in Browser |-> Nothing]
  /\ sent = {}

-----------------------------------------------------------------------------
Ids(nodes) == {n.id : n \in nodes}

(* Mutated form of Children: in the order they were typed.                 *)
ChildrenAscending(nodes, p) ==
  SetToSortSeq({n.id : n \in {m \in nodes : m.p = p}}, Less)

(* _insertChild keeps the children of a node in descending order.          *)
Children(nodes, p) ==
  SetToSortSeq({n.id : n \in {m \in nodes : m.p = p}},
               LAMBDA a, b : Less(b, a))

(* _visibleIds, _collectVisible, _walk: depth first from the root, so that *)
(* what hangs from a node not yet seen is not shown.                       *)
VisibleIds(s) ==
  LET walk[p \in {Root} \union Ids(s.nodes)] ==
        LET Shown(k) == (IF k \in s.deleted THEN << >> ELSE <<k>>) \o walk[k]
            children == Children(s.nodes, p)
        IN  FlattenSeq([i \in DOMAIN children |-> Shown(children[i])])
  IN  walk[Root]

(* apply, of an insert: of an id that is there already it does nothing;    *)
(* one whose delete came first is born deleted.                            *)
ApplyInsert(s, op) ==
  LET new == [id |-> op.id, p |-> op.p, at |-> op.at]
  IN  IF op.id \in Ids(s.nodes) THEN s
      ELSE [s EXCEPT !.clock = Observe(@, {op.id.c}),
                     !.nodes = @ \union {new},
                     !.deleted = @ \union (s.pending \intersect {op.id}),
                     !.pending = @ \ {op.id}]

(* Mutated form of ApplyDelete: one whose target is not there is dropped.  *)
ApplyDeleteIfThere(s, op) ==
  [s EXCEPT !.clock = Observe(@, {op.id.c}),
            !.deleted = @ \union (Ids(s.nodes) \intersect {op.t})]

(* apply, of a delete: one whose target is not there waits for it.         *)
ApplyDelete(s, op) ==
  [s EXCEPT !.clock = Observe(@, {op.id.c}),
            !.deleted = @ \union (Ids(s.nodes) \intersect {op.t}),
            !.pending = @ \union ({op.t} \ Ids(s.nodes))]

Saw(s, op) ==
  IF op.k = "insert"
    THEN [s EXCEPT !.seen.nodes =
                @ \union {[id |-> op.id, p |-> op.p, at |-> op.at]}]
    ELSE [s EXCEPT !.seen.deleted = @ \union {op.t}]
Apply(s, op) ==
  Saw(IF op.k = "insert" THEN ApplyInsert(s, op) ELSE ApplyDelete(s, op), op)

Shows(s) == [nodes |-> s.nodes, deleted |-> s.deleted]

(* A change of what is shown starts the timer of the snapshot anew.        *)
Applied(s, ops) ==
  LET after == FoldLeft(Apply, s, ops)
  IN  [after EXCEPT !.due = @ \/ Shows(after) # Shows(s)]

(* The ops a snapshot stands for: all inserts, then all deletes.           *)
SnapshotOps(snap) ==
  LET gone == {n \in snap.nodes : n.id \in snap.deleted}
  IN  SetToSeq({[k |-> "insert", id |-> n.id, p |-> n.p, at |-> n.at] :
                  n \in snap.nodes})
      \o SetToSeq({[k |-> "delete", id |-> n.id, t |-> n.id] : n \in gone})

(* Mutated form of Restored: the clock starts from nothing.                *)
RestoredClockless(snap) ==
  [NoSession EXCEPT !.nodes = snap.nodes, !.deleted = snap.deleted,
                    !.seen = snap]

(* restore: the clock is seeded past every id of the snapshot.  The        *)
(* deletes that waited for their target are not part of one.               *)
Restored(snap) ==
  [NoSession EXCEPT !.clock = Observe(0, {n.id.c : n \in snap.nodes}),
                    !.nodes = snap.nodes, !.deleted = snap.deleted,
                    !.seen = snap]

(* join: restore, then ask every peer for its snapshot.                    *)
Join(t) ==
  /\ ~tab[t].open
  /\ tab' = [tab EXCEPT ![t] = [Restored(store[Home[t]]) EXCEPT !.open = TRUE]]
  /\ UNCHANGED <<store, sent>>

(* diffToOps, of an edit that replaces gone characters after the first i   *)
(* by typed new ones: it deletes from right to left, then hangs each new   *)
(* character from the one before it.                                       *)
DiffToOps(s, t, i, gone, typed) ==
  LET there == VisibleIds(s)
      Minted(j) == [c |-> s.clock + j, r |-> t]
      Before(j) == IF j > gone + 1 THEN Minted(j - 1)
                   ELSE IF i = 0 THEN Root ELSE there[i]
  IN  [j \in 1..(gone + typed) |->
        IF j <= gone
          THEN [k |-> "delete", id |-> Minted(j), t |-> there[i + gone + 1 - j]]
          ELSE [k |-> "insert", id |-> Minted(j), p |-> Before(j),
                at |-> Cardinality(sent) + j]]

(* applyLocal, with what the session shows as the text before the edit.    *)
ApplyLocal(t, i, gone, typed) ==
  LET ops == DiffToOps(tab[t], t, i, gone, typed)
  IN  /\ tab[t].open /\ gone + typed > 0
      /\ Cardinality(sent) + gone + typed <= MaxOps
      /\ i + gone <= Len(VisibleIds(tab[t]))
      /\ tab' = [tab EXCEPT ![t] = [Applied(@, ops) EXCEPT !.due = TRUE]]
      /\ sent' = sent \union ToSet(ops)
      /\ UNCHANGED store

(* _onPeerMessage: an op; the snapshot that answers a session that joined, *)
(* which it merges, each node of it as an op.  Of one that takes long the  *)
(* ops may as well come by themselves.                                     *)
ReceiveOp(t, op) ==
  /\ tab[t].open /\ op.id.r # t
  /\ tab' = [tab EXCEPT ![t] = Applied(@, <<op>>)]
  /\ UNCHANGED <<store, sent>>
ReceiveSnapshot(t, from) ==
  /\ tab[t].open /\ tab[from].open /\ t # from
  /\ tab' = [tab EXCEPT ![t] = Applied(@, SnapshotOps(Shows(tab[from])))]
  /\ UNCHANGED <<store, sent>>

(* The timer of _scheduleSnapshotFlush.                                    *)
Flush(t) ==
  /\ tab[t].open /\ tab[t].due
  /\ store' = [store EXCEPT ![Home[t]] = Shows(tab[t])]
  /\ tab' = [tab EXCEPT ![t].due = FALSE]
  /\ UNCHANGED sent

(* leave, which stops the timer; or the tab is closed.                     *)
Leave(t) ==
  /\ tab[t].open
  /\ tab' = [tab EXCEPT ![t] = NoSession]
  /\ UNCHANGED <<store, sent>>

Next ==
  \E t \in Tab :
       \/ Join(t) \/ Flush(t) \/ Leave(t)
       \/ \E op \in sent : ReceiveOp(t, op)
       \/ \E from \in Tab : ReceiveSnapshot(t, from)
       \/ \E i \in 0..MaxOps, gone, typed \in 0..MaxRun :
            ApplyLocal(t, i, gone, typed)
Spec == Init /\ [][Next]_vars

-----------------------------------------------------------------------------
Op == [k : {"insert"}, id : Id, p : Id \union {Root}, at : Nat \ {0}]
      \union [k : {"delete"}, id : Id, t : Id]
TypeOK ==
  /\ tab \in [Tab -> Session]
  /\ store \in [Browser -> Snapshot]
  /\ sent \subseteq Op

(* No tab minted an id twice, as one does whose last edits were in no      *)
(* snapshot when it was closed.                                            *)
NoIdReused ==
  \A a, b \in sent : a.id = b.id => a = b

(* A session holds every character some op that reached it inserted, and   *)
(* shows those that no op that reached it deleted: in whatever order they  *)
(* came, as ops or in snapshots, and across reloads.                       *)
ShowsWhatItHasSeen ==
  NoIdReused =>
    \A t \in Tab :
      LET s == tab[t]
      IN  /\ s.nodes = s.seen.nodes
          /\ s.deleted = s.seen.deleted \intersect Ids(s.nodes)

(* What is typed at a place is shown there, and nothing else moves: no     *)
(* session mints an id below one it shows.                                 *)
LandsWhereTyped ==
  \A t \in {u \in Tab : tab[u].open} :
    LET there == VisibleIds(tab[t])
        new == [c |-> tab[t].clock + 1, r |-> t]
    IN  new \notin {op.id : op \in sent} =>
          \A i \in 0..Len(there) :
            VisibleIds(FoldLeft(Apply, tab[t],
                                DiffToOps(tab[t], t, i, 0, 1)))
              = InsertAt(there, i + 1, new)
=============================================================================
