------------------------------ MODULE SlideTree ------------------------------
(***************************************************************************)
(* src/lib/crdt/tree.js: the slides of a deck as a replicated ordered tree *)
(* of depth one (the editor gives every slide the root as parent).  A      *)
(* slide has a position, last writer wins; a grow-only delete mark; and,   *)
(* per object, the stamp of its last set and of its last removal.  A       *)
(* scalar property of a slide is merged as an object that is never         *)
(* removed.                                                                *)
(*                                                                         *)
(* The node of a slide is named after its insert, whose id insertSlide     *)
(* returns; the editor does not keep it and names a slide by an id of its  *)
(* own in every later call, which makes a node of that name: Own.  Ops     *)
(* reach a session in any order, any number of times or never; one that    *)
(* comes before the insert of its slide, or has none, makes a stub, which  *)
(* has no position.  The localStorage half of TreeSession is that of       *)
(* GridSession and is left out; so is the legacy whole-slide op, which no  *)
(* session sends.                                                          *)
(***************************************************************************)
EXTENDS Replicas

CONSTANTS Object,
          OrdKey,   \* the keys ordKeyBetween returns
          MaxOps    \* bound: ops ever minted

VARIABLES tab,    \* tab[t]: the TreeSession of t
          sent,   \* ops broadcast so far
          ghosts  \* history: stubs that came in a snapshot

vars == <<tab, sent, ghosts>>

Own == MaxOps + 1
Slide == 1..Own
Id == [c : Nat, r : Tab \union {0}, at : 0..Own]
NoId == [c |-> 0, r |-> 0, at |-> 0]
OwnId == [NoId EXCEPT !.at = Own]  \* opIdLess puts it below every op id
NoKey == "none"

Op == [kind : {"insert", "move", "set", "remove", "delete"}, id : Id,
       target : Id, key : OrdKey \union {NoKey}, object : Object]

Node == [known : BOOLEAN, key : OrdKey \union {NoKey}, ordId : Id,
         obj : [Object -> Id], tomb : [Object -> Id], deleted : BOOLEAN]
NoNode == [known |-> FALSE, key |-> NoKey, ordId |-> NoId,
           obj |-> [o \in Object |-> NoId], tomb |-> [o \in Object |-> NoId],
           deleted |-> FALSE]
NewSession == [clock |-> 0, nodes |-> [n \in Slide |-> NoNode], seen |-> {}]

Init ==
  /\ tab = [t \in Tab |-> NewSession]
  /\ sent = {} /\ ghosts = {}

-----------------------------------------------------------------------------
(* TreeCRDT.apply and SlideState, on one node.                             *)
Positioned(node, id, key) == [node EXCEPT !.key = key, !.ordId = id]

Inserted(node, id, key) ==
  IF node.ordId = NoId \/ Less(node.ordId, id)
    THEN [Positioned(node, id, key) EXCEPT !.known = TRUE] ELSE node

Moved(node, id, key) ==
  IF node.ordId = NoId \/ (~Less(id, node.ordId) /\ id # node.ordId)
    THEN [Positioned(node, id, key) EXCEPT !.known = TRUE] ELSE node

(* _setObject, which revives what an older removal hid, and _tombObject.   *)
SetObject(node, o, id) ==
  IF node.obj[o] # NoId /\ ~Less(node.obj[o], id) THEN node
  ELSE [node EXCEPT !.obj[o] = id,
                    !.tomb[o] = IF Less(@, id) THEN NoId ELSE @]
TombObject(node, o, id) ==
  IF node.tomb[o] # NoId /\ ~Less(node.tomb[o], id) THEN node
  ELSE [node EXCEPT !.tomb[o] = id]

Applied(node, op) ==
  LET known == [node EXCEPT !.known = TRUE]
  IN  CASE op.kind = "insert" -> Inserted(node, op.id, op.key)
        [] op.kind = "move"   -> Moved(node, op.id, op.key)
        [] op.kind = "set"    -> SetObject(known, op.object, op.id)
        [] op.kind = "remove" -> TombObject(known, op.object, op.id)
        [] op.kind = "delete" -> [known EXCEPT !.deleted = TRUE]

(* Mutated form of Ingested: the counter of an op is not observed.         *)
IngestedWithoutObserving(session, op) ==
  [session EXCEPT !.clock = Observe(@, {op.target.c}),
                  !.nodes[op.target.at] = Applied(@, op),
                  !.seen = @ \union {op}]

Ingested(session, op) ==
  [session EXCEPT !.clock = Observe(@, {op.id.c, op.target.c}),
                  !.nodes[op.target.at] = Applied(@, op),
                  !.seen = @ \union {op}]

Visible(session, n) == session.nodes[n].known /\ ~session.nodes[n].deleted

(* toSlide: an object whose removal is not older than its last set is      *)
(* gone.                                                                   *)
Shown(node, o) ==
  IF node.tomb[o] # NoId /\ ~Less(node.tomb[o], node.obj[o])
    THEN NoId ELSE node.obj[o]

(* Local ops are ticked, applied, broadcast and logged: the i-th of a call *)
(* has the id NextId(t, i).                                                *)
NextId(t, i) == [c |-> tab[t].clock + i, r |-> t, at |-> Cardinality(sent) + i]
LocalOp(kind, id, target, key, o) ==
  [kind |-> kind, id |-> id, target |-> target, key |-> key, object |-> o]
Mint(t, op) ==
  /\ Cardinality(sent) < MaxOps
  /\ tab' = [tab EXCEPT ![t] = Ingested(@, op)]
  /\ sent' = sent \union {op}
  /\ UNCHANGED ghosts
NodeId(n) ==
  IF n = Own THEN OwnId ELSE CHOOSE id \in {op.id : op \in sent} : id.at = n
AnyObject == CHOOSE o \in Object : TRUE

(* insertSlide calls setSlide with the slide's content.                    *)
InsertSlide(t, key, o) ==
  LET id == NextId(t, 1)
      insert == LocalOp("insert", id, id, key, AnyObject)
      set == LocalOp("set", NextId(t, 2), id, NoKey, o)
  IN  /\ Cardinality(sent) + 1 < MaxOps
      /\ tab' = [tab EXCEPT ![t] = Ingested(Ingested(@, insert), set)]
      /\ sent' = sent \union {insert, set}
      /\ UNCHANGED ghosts
Named(t, n) == n = Own \/ Visible(tab[t], n)
MoveSlide(t, n, key) ==
  /\ Named(t, n)
  /\ Mint(t, LocalOp("move", NextId(t, 1), NodeId(n), key, AnyObject))
DeleteSlide(t, n) ==
  /\ Named(t, n)
  /\ Mint(t, LocalOp("delete", NextId(t, 1), NodeId(n), NoKey, AnyObject))

(* setSlide sends the entries that differ from what the slide shows, each  *)
(* with a stamp of its own: here, one.                                     *)
SetSlide(t, n, o) ==
  /\ Named(t, n)
  /\ \/ Mint(t, LocalOp("set", NextId(t, 1), NodeId(n), NoKey, o))
     \/ /\ Shown(tab[t].nodes[n], o) # NoId
        /\ Mint(t, LocalOp("remove", NextId(t, 1), NodeId(n), NoKey, o))

(* _ingestTreeOp, from the fabric or the durable log.                      *)
Receive(t, op) ==
  /\ tab' = [tab EXCEPT ![t] = Ingested(@, op)]
  /\ UNCHANGED <<sent, ghosts>>

(* _ingestSnapshotNodes, one node: an insert under the node's own id, with *)
(* the position it has now; a move when it was moved since; the union of   *)
(* the entries; the delete.                                                *)
MergedEntries(mine, theirs) ==
  [mine EXCEPT
     !.obj = [o \in Object |-> SetObject(mine, o, theirs.obj[o]).obj[o]],
     !.tomb = [o \in Object |->
        LET set == IF theirs.obj[o] = NoId THEN mine
                   ELSE SetObject(mine, o, theirs.obj[o])
        IN  IF theirs.tomb[o] = NoId THEN set.tomb[o]
            ELSE TombObject(set, o, theirs.tomb[o]).tomb[o]]]

(* Mutated form of MergedNode: the order key of a node that exists is left *)
(* as it was.                                                              *)
MergedNodeWithoutMove(mine, theirs, n) ==
  LET placed == Inserted(mine, NodeId(n), theirs.key)
      merged == MergedEntries(placed, theirs)
  IN  IF theirs.known
        THEN [merged EXCEPT !.known = TRUE, !.deleted = @ \/ theirs.deleted]
        ELSE mine

MergedNode(mine, theirs, n) ==
  LET placed == Inserted(mine, NodeId(n), theirs.key)
      moved == IF theirs.ordId \in {NoId, NodeId(n)} THEN placed
               ELSE Moved(placed, theirs.ordId, theirs.key)
      merged == MergedEntries(moved, theirs)
  IN  IF theirs.known
        THEN [merged EXCEPT !.known = TRUE, !.deleted = @ \/ theirs.deleted]
        ELSE mine
CountersOf(node) ==
  {node.ordId.c} \union {node.obj[o].c : o \in Object}
                 \union {node.tomb[o].c : o \in Object}
Merge(t, u) ==
  LET theirs == tab[u].nodes
  IN  /\ tab' = [tab EXCEPT ![t] =
           [clock |-> Observe(@.clock,
                              UNION {CountersOf(theirs[n]) : n \in Slide}),
            nodes |-> [n \in Slide |-> MergedNode(@.nodes[n], theirs[n], n)],
            seen |-> @.seen \union tab[u].seen]]
      /\ ghosts' = ghosts \union
           {n \in Slide \ {Own} : theirs[n].known /\ theirs[n].ordId = NoId}
      /\ UNCHANGED sent

Step(t) ==
  \/ \E key \in OrdKey, o \in Object : InsertSlide(t, key, o)
  \/ \E n \in Slide :
       \/ DeleteSlide(t, n)
       \/ \E key \in OrdKey : MoveSlide(t, n, key)
       \/ \E o \in Object : SetSlide(t, n, o)
  \/ \E op \in sent : Receive(t, op)
  \/ \E u \in Tab \ {t} : Merge(t, u)

Next == \E t \in Tab : Step(t)
Spec == Init /\ [][Next]_vars

-----------------------------------------------------------------------------
TypeOK ==
  /\ \A t \in Tab : /\ tab[t].clock \in Nat /\ tab[t].seen \subseteq sent
                    /\ tab[t].nodes \in [Slide -> Node]
  /\ sent \subseteq Op /\ ghosts \subseteq Slide

(* What the ops in seen say of slide n, whatever their order: the position *)
(* of the highest insert or move; an object its highest set wrote, unless  *)
(* a removal is above it; deleted once a delete is there.                  *)
Of(seen, n, kinds) == {op \in seen : op.target.at = n /\ op.kind \in kinds}
Highest(ops) ==
  IF ops = {} THEN NoId
  ELSE (CHOOSE a \in ops : \A b \in ops : ~Less(a.id, b.id)).id
ObjectOps(seen, n, o, kind) == {op \in Of(seen, n, {kind}) : op.object = o}
Says(session, n) ==
  LET node == session.nodes[n]
      seen == session.seen
      placed == Of(seen, n, {"insert", "move"})
  IN  /\ node.deleted <=> Of(seen, n, {"delete"}) # {}
      /\ node.ordId = Highest(placed) \/ (n = Own /\ placed = {})
      /\ placed # {} =>
           \E op \in placed : op.id = node.ordId /\ op.key = node.key
      /\ \A o \in Object :
           LET set == Highest(ObjectOps(seen, n, o, "set"))
               removed == Highest(ObjectOps(seen, n, o, "remove"))
           IN  Shown(node, o) = IF Less(set, removed) THEN NoId ELSE set

(* Every session shows exactly what the ops it has seen say, so two that   *)
(* have seen the same ops show the same deck: inserts, moves, edits and    *)
(* deletes commute, an edit of one object never takes a concurrent edit of *)
(* another along, and joining by snapshot loses none.  The exception is a  *)
(* slide that came in a snapshot of a session that had not seen its        *)
(* insert: the joiner places it at the snapshot's empty key, and the       *)
(* insert, when it comes, has no effect any more.                          *)
ShowsWhatItHasSeen ==
  \A t \in Tab : \A n \in Slide \ ghosts : Says(tab[t], n)

(* No way in leaves the clock below a stamp the session holds: its next    *)
(* move or edit is above everything it shows.  (A joiner stamps such a     *)
(* slide with an id whose counter it has not observed.)                    *)
NextEditWins ==
  \A t \in Tab : \A n \in Slide \ ghosts :
    \A c \in CountersOf(tab[t].nodes[n]) : c <= tab[t].clock
=============================================================================
