----------------------------- MODULE GridSession -----------------------------
(***************************************************************************)
(* src/lib/crdt/grid.js: the last-writer-wins grid that the tabs editing   *)
(* one sheet share.  Each session applies its own edits at once, sends     *)
(* them to the fabric and the durable update log, and keeps a snapshot and *)
(* a capped op log in localStorage, in keys that all tabs of one browser   *)
(* share.  An op that was sent may reach a session at any time, any number *)
(* of times or never.  What a cell holds, a value or the tombstone of a    *)
(* clear, is identified by the op that wrote it.                           *)
(***************************************************************************)
EXTENDS Replicas, Functions

CONSTANTS Cell,
          MaxOplog,  \* MAX_OPLOG
          MaxEdits   \* bound: ops ever minted

VARIABLES tab,     \* tab[t]: the GridSession of t
          store,   \* store[b]: the two localStorage keys of the sheet
          sent,    \* ops broadcast so far
          evicted  \* history: evicted[b], the ops the cap pushed off

vars == <<tab, store, sent, evicted>>

Op == [c : Nat \ {0}, r : Tab, at : Nat \ {0}, cell : Cell]
NoOp(k) == [c |-> 0, r |-> 0, at |-> 0, cell |-> k]
NoCells == [k \in Cell |-> NoOp(k)]
Cells == {f \in [Cell -> Op \union {NoOp(k) : k \in Cell}] :
            \A k \in Cell : f[k].cell = k}

(* seen is history: the ops whose effect the state includes.               *)
Snapshot == [cells : Cells, seen : SUBSET Op]
Session == [open : BOOLEAN, clock : Nat, cells : Cells, seen : SUBSET Op]
Store == [snap : Snapshot, log : Seq(Op)]

NoSnapshot == [cells |-> NoCells, seen |-> {}]
NoSession == [open |-> FALSE, clock |-> 0, cells |-> NoCells, seen |-> {}]

Init ==
  /\ tab = [t \in Tab |-> NoSession]
  /\ store = [b \in Browser |-> [snap |-> NoSnapshot, log |-> << >>]]
  /\ sent = {}
  /\ evicted = [b \in Browser |-> {}]

-----------------------------------------------------------------------------
(* Mutated form of Applies: the last op to arrive wins.                    *)
AppliesByArrival(cells, op) == op.at # cells[op.cell].at

(* GridCRDT.apply.                                                         *)
Applies(cells, op) == op.at # cells[op.cell].at /\ ~Less(op, cells[op.cell])
Apply(cells, op) ==
  IF Applies(cells, op) THEN [cells EXCEPT ![op.cell] = op] ELSE cells

LogOps(b) == {store[b].log[i] : i \in 1..Len(store[b].log)}

(* What applying the ops to cells, one after the other, leaves: at every   *)
(* cell one of those that no other is above.                               *)
Replayed(cells, ops, result) ==
  \A k \in Cell :
    LET there == {cells[k]} \union {op \in ops : op.cell = k}
    IN  result[k] \in there /\ \A op \in there : ~Less(result[k], op)

SnapshotOf(session) == [cells |-> session.cells, seen |-> session.seen]

(* Mutated form of SaveLocal: the op log is reset with every snapshot, as  *)
(* the comment on the cap says.                                            *)
SaveLocalClearingLog(local, session) ==
  [snap |-> SnapshotOf(session), log |-> << >>]

(* saveLocal writes the snapshot key; the op log stays.                    *)
SaveLocal(local, session) == [local EXCEPT !.snap = SnapshotOf(session)]

(* _persistOp: append to the op log, and splice the oldest off past the    *)
(* cap.                                                                    *)
PersistOp(local, op) ==
  [local EXCEPT !.log = IF Len(@) < MaxOplog THEN Append(@, op)
                                             ELSE Append(Tail(@), op)]
PushedOff(local) ==
  IF Len(local.log) < MaxOplog THEN {} ELSE {Head(local.log)}

(* new GridSession: _loadLocal restores the snapshot and observes its      *)
(* counters, then replays the op log, whose counters it does not observe.  *)
Open(t) ==
  LET local == store[Home[t]]
  IN  /\ ~tab[t].open
      /\ \E cells \in
           [Cell -> LogOps(Home[t]) \union Range(local.snap.cells)] :
           /\ Replayed(local.snap.cells, LogOps(Home[t]), cells)
           /\ tab' = [tab EXCEPT ![t] =
                [open |-> TRUE,
                 clock |-> Observe(0, {local.snap.cells[k].c : k \in Cell}),
                 cells |-> cells,
                 seen |-> local.snap.seen \union LogOps(Home[t])]]
      /\ UNCHANGED <<store, sent, evicted>>

(* Mutated form of Minted: the clock is not advanced.                      *)
MintedWithoutTick(t, k) ==
  [c |-> tab[t].clock, r |-> t, at |-> Cardinality(sent) + 1, cell |-> k]

(* setCell or clearCell, and the saveLocal of the editor's handleChange.   *)
(* The op is broadcast and logged even when apply refused it.              *)
Minted(t, k) ==
  [c |-> tab[t].clock + 1, r |-> t, at |-> Cardinality(sent) + 1, cell |-> k]
Edited(t, op) ==
  [tab[t] EXCEPT !.clock = op.c, !.cells = Apply(@, op),
                 !.seen = @ \union {op}]
Edit(t, k) ==
  LET op == Minted(t, k)
      b == Home[t]
  IN  /\ tab[t].open /\ Cardinality(sent) < MaxEdits
      /\ tab' = [tab EXCEPT ![t] = Edited(t, op)]
      /\ store' = [store EXCEPT ![b] =
                     SaveLocal(PersistOp(@, op), Edited(t, op))]
      /\ evicted' = [evicted EXCEPT ![b] = @ \union PushedOff(store[b])]
      /\ sent' = sent \union {op}

(* _ingestGridOp, from the fabric or the durable log.                      *)
Receive(t, op) ==
  LET b == Home[t]
  IN  /\ tab[t].open
      /\ tab' = [tab EXCEPT ![t] =
           [@ EXCEPT !.clock = Observe(@, {op.c}),
                     !.cells = Apply(@, op), !.seen = @ \union {op}]]
      /\ IF Applies(tab[t].cells, op)
           THEN /\ store' = [store EXCEPT ![b] = PersistOp(@, op)]
                /\ evicted' =
                     [evicted EXCEPT ![b] = @ \union PushedOff(store[b])]
           ELSE UNCHANGED <<store, evicted>>
      /\ UNCHANGED sent

(* Mutated form of Merged: the counters of merged cells are not observed.  *)
MergedWithoutObserving(session, snap) ==
  [session EXCEPT
     !.cells = [k \in Cell |->
                  IF snap.cells[k].at # 0 /\ Applies(@, snap.cells[k])
                    THEN snap.cells[k] ELSE @[k]],
     !.seen = @ \union snap.seen]

(* _ingestSnapshotCells: per cell, observe the counter and apply; then     *)
(* save. The snapshot is one a session posted, or the update log retained, *)
(* at any time: of a session that had received the ops S and no others.    *)
Merged(session, snap) ==
  [session EXCEPT
     !.clock = Observe(@, {snap.cells[k].c : k \in Cell}),
     !.cells = [k \in Cell |->
                  IF snap.cells[k].at # 0 /\ Applies(@, snap.cells[k])
                    THEN snap.cells[k] ELSE @[k]],
     !.seen = @ \union snap.seen]
Merge(t, S) ==
  /\ tab[t].open
  /\ \E cells \in [Cell -> S \union Range(NoCells)] :
       LET session == Merged(tab[t], [cells |-> cells, seen |-> S])
       IN  /\ Replayed(NoCells, S, cells)
           /\ tab' = [tab EXCEPT ![t] = session]
           /\ store' = [store EXCEPT ![Home[t]] = SaveLocal(@, session)]
  /\ UNCHANGED <<sent, evicted>>

(* destroy; the tab may open the sheet again.                              *)
Close(t) ==
  /\ tab[t].open
  /\ store' = [store EXCEPT ![Home[t]] = SaveLocal(@, tab[t])]
  /\ tab' = [tab EXCEPT ![t] = NoSession]
  /\ UNCHANGED <<sent, evicted>>

(* A reload or a crash of the tab: nothing is saved.                       *)
Kill(t) ==
  /\ tab[t].open
  /\ tab' = [tab EXCEPT ![t] = NoSession]
  /\ UNCHANGED <<store, sent, evicted>>

Step(t) ==
  \/ Open(t) \/ Close(t) \/ Kill(t)
  \/ \E k \in Cell : Edit(t, k)
  \/ \E op \in sent : Receive(t, op)
  \/ \E S \in SUBSET sent : Merge(t, S)

Next == \E t \in Tab : Step(t)
Spec == Init /\ [][Next]_vars

-----------------------------------------------------------------------------
TypeOK ==
  /\ tab \in [Tab -> Session]
  /\ \A b \in Browser : store[b].snap \in Snapshot /\ LogOps(b) \subseteq Op
  /\ sent \subseteq Op
  /\ \A b \in Browser : evicted[b] \subseteq sent

(* Two sessions that include the same ops show the same cells, whatever    *)
(* the order, the duplicates and the reloads by which they got them - as   *)
(* long as no replica minted one counter twice, for then their ids tie.    *)
Converged ==
  Unique(sent) =>
    \A t, u \in Tab :
      tab[t].open /\ tab[u].open /\ tab[t].seen = tab[u].seen
        => tab[t].cells = tab[u].cells

(* A session whose clock has passed every counter it holds never falls     *)
(* behind again, so its next edit wins over what it shows: every way in    *)
(* observes the counters before it applies.                                *)
Covers(session) == \A k \in Cell : session.cells[k].c <= session.clock
ClockKeepsUp(t) ==
  tab[t].open /\ Covers(tab[t]) => Covers(tab[t]')
ClockNeverFallsBehind == [][\A t \in Tab : ClockKeepsUp(t)]_vars

(* What an edit wrote in a browser is restored, or something above it is,  *)
(* when a tab of that browser opens the sheet - although the tabs          *)
(* overwrite each other's snapshot - unless the cap pushed it off the op   *)
(* log.                                                                    *)
EditsSurviveReload ==
  \A b \in Browser :
    \A op \in {o \in sent : Home[o.r] = b} \ evicted[b] :
      \/ ~Less(store[b].snap.cells[op.cell], op)
      \/ \E o \in LogOps(b) : o.cell = op.cell /\ ~Less(o, op)
=============================================================================
