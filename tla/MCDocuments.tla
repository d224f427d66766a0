----------------------------- MODULE MCDocuments -----------------------------
(***************************************************************************)
(* Small instances of the CRDT sessions that editors keep: a sheet, a deck *)
(* and a text.  A behaviour is one of a single component, the part chosen  *)
(* at first; the others stay as they were, so their state spaces add up.   *)
(***************************************************************************)
EXTENDS Replicas, TLC

CONSTANTS b1, k1, o1

VARIABLES part,
          gridTab, store, gridSent, evicted,
          treeTab, treeSent, ghosts,
          textTab, textStore, textSent

gridVars == <<gridTab, store, gridSent, evicted>>
treeVars == <<treeTab, treeSent, ghosts>>
textVars == <<textTab, textStore, textSent>>

MCHome == [t \in Tab |-> b1]

Grid == INSTANCE GridSession WITH
  Cell <- {k1}, MaxOplog <- 2, MaxEdits <- 2, tab <- gridTab, sent <- gridSent

Tree == INSTANCE SlideTree WITH
  Object <- {o1}, OrdKey <- {"m"}, MaxOps <- 4,
  tab <- treeTab, sent <- treeSent

Text == INSTANCE TextSession WITH
  MaxRun <- 2, MaxOps <- 3,
  tab <- textTab, store <- textStore, sent <- textSent

Init ==
  /\ part \in {"grid", "tree", "text"}
  /\ Grid!Init /\ Tree!Init /\ Text!Init

Next ==
  /\ \/ part = "grid" /\ Grid!Next /\ UNCHANGED <<treeVars, textVars>>
     \/ part = "tree" /\ Tree!Next /\ UNCHANGED <<gridVars, textVars>>
     \/ part = "text" /\ Text!Next /\ UNCHANGED <<gridVars, treeVars>>
  /\ UNCHANGED part

vars == <<part, gridVars, treeVars, textVars>>
Spec == Init /\ [][Next]_vars

-----------------------------------------------------------------------------
(* The type invariant of the part that moves.                              *)
TypeOK ==
  /\ part = "grid" => Grid!TypeOK
  /\ part = "tree" => Tree!TypeOK
  /\ part = "text" => Text!TypeOK

(* grid.js: an edit is restored from localStorage, or one above it is.     *)
GridEditsSurviveReload == part = "grid" => Grid!EditsSurviveReload

(* grid.js: no way in leaves a clock behind what the session shows.        *)
GridClockNeverFallsBehind ==
  [][part = "grid" => \A t \in Tab : Grid!ClockKeepsUp(t)]_gridVars

(* grid.js, tree.js, text.js: sheets that include the same ops show the    *)
(* same cells, and a deck or a text shows what the ops it has seen say, in *)
(* whatever order they came, live or in a snapshot.                        *)
ShowsWhatItHasSeen ==
  /\ part = "grid" => Grid!Converged
  /\ part = "tree" => Tree!ShowsWhatItHasSeen
  /\ part = "text" => Text!ShowsWhatItHasSeen

(* tree.js, text.js: the next op of a session is above everything that it  *)
(* shows, so that an edit has its effect and lands where it was made.      *)
NextEditLands ==
  /\ part = "tree" => Tree!NextEditWins
  /\ part = "text" => Text!LandsWhereTyped
=============================================================================
