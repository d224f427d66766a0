------------------------------- MODULE Clients -------------------------------
(***************************************************************************)
(* The update log's two clients, OpLogSync (Sheets, Slides) and            *)
(* UpdateLogSync (Docs, Whiteboard), over the endpoints of LogService.  A  *)
(* document has one kind of editor: a behaviour is one of the client       *)
(* chosen at first, and the other's own variables stay as they were.       *)
(***************************************************************************)
EXTENDS FrameLog

CONSTANTS
  Session, MaxFaults, MaxOps, SnapshotEvery,
  OpsFrame, OpsAdviseAt, OpsSwitchOff, OpsFabric,
  YjsFrame, YjsAdviseAt, YjsSwitchOff, YjsFabric

(* updates.go, updateLog.js: sizes, thresholds and budgets are counts.     *)
ASSUME ClientsAreSet ==
  /\ MaxFaults \in Nat /\ MaxOps \in Nat /\ SnapshotEvery \in Nat \ {0}
  /\ {OpsFrame, OpsAdviseAt, YjsFrame, YjsAdviseAt} \subseteq Nat
  /\ {OpsSwitchOff, OpsFabric, YjsSwitchOff, YjsFabric} \subseteq BOOLEAN

VARIABLES snap, frames, served, wire, faults, accepted,
          layer, client, submitted, early, raced, heard, overlapped

serviceVars == <<snap, frames, served, wire, faults, accepted>>
clientVars == <<layer, client, submitted, early, raced, heard, overlapped>>

Ops == INSTANCE OpLogSync WITH
  MaxFrame <- OpsFrame, AdviseAt <- OpsAdviseAt,
  CanSwitchOff <- OpsSwitchOff, Fabric <- OpsFabric

Yjs == INSTANCE UpdateLogSync WITH
  MaxFrame <- YjsFrame, AdviseAt <- YjsAdviseAt,
  CanSwitchOff <- YjsSwitchOff, Fabric <- YjsFabric

Init ==
  /\ layer \in {"ops", "yjs"}
  /\ IF layer = "ops" THEN Ops!Init /\ early = {} /\ raced = {} /\ heard = FALSE
                      ELSE Yjs!Init /\ submitted = {}

Next ==
  \/ /\ layer = "ops" /\ Ops!Next
     /\ UNCHANGED <<layer, early, raced, heard>>
  \/ /\ layer = "yjs" /\ Yjs!Next
     /\ UNCHANGED <<layer, submitted>>

vars == <<serviceVars, clientVars>>
Spec == Init /\ [][Next]_vars

-----------------------------------------------------------------------------
(* opLogSync.js, updateLog.js: an op that the layer was given is waiting,  *)
(* under way or logged, whatever is lost; an edit of a Yjs document that   *)
(* does not race an append is logged, or the layer is dirty.               *)
NothingDropped ==
  /\ layer = "ops" => Ops!NothingDropped
  /\ layer = "yjs" => Yjs!NothingDropped

(* coveredSeq is "the highest seq we have integrated", as long as sessions *)
(* use the log one after the other.                                        *)
CoveredTruthful ==
  /\ layer = "ops" => Ops!CoveredTruthful
  /\ layer = "yjs" => Yjs!CoveredTruthful

(* updatelog.go: a compaction loses nothing that was stored, as long as    *)
(* sessions use the log one after the other.                               *)
AloneRecoverable ==
  /\ layer = "ops" => Ops!AloneRecoverable
  /\ layer = "yjs" => Yjs!AloneRecoverable

(* updateLog.js: a fresh document that replays the log integrates all of   *)
(* it, as long as no edit raced an append and what came peer to peer was   *)
(* logged when it was counted as flushed.                                  *)
LogIntegrates == layer = "yjs" => Yjs!LogIntegrates
=============================================================================
