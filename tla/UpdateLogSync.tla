---------------------------- MODULE UpdateLogSync ----------------------------
(***************************************************************************)
(* src/lib/collab/updateLog.js, the client half of the update log for the  *)
(* Yjs documents (Docs, Whiteboard), with the editor effects that drive it *)
(* (DocsEditor.jsx, WhiteboardEditor.jsx).  Where OpLogSync buffers ops,   *)
(* UpdateLogSync keeps one dirty flag and the state vector of the last     *)
(* flush, _flushedSV, and appends what the document has beyond it.         *)
(*                                                                         *)
(* As in OpLogSync an action is what runs between two awaits.  A struct    *)
(* <<s, k>> is the k-th item of Yjs client s; a Y.Doc of session s is the  *)
(* set of structs it was given.  Yjs integrates a client's structs in      *)
(* clock order: those beyond a gap wait, in the document and in what it    *)
(* encodes, until the gap is filled.  The deterministic content seed is in *)
(* every document and in no frame, and is left out.                        *)
(***************************************************************************)
EXTENDS LogService

CONSTANTS SnapshotEvery,  \* own appends before the client compacts
          MaxOps,         \* bound: edits per session
          Fabric          \* whether the deployment has a peering backend

VARIABLES client,  \* client[s]: the UpdateLogSync object and its Y.Doc
          early,   \* history: edits made before the sync had subscribed
          raced,   \* history: edits made while an append was under way
          heard,   \* history: a session counted edits of others as flushed
                   \* that the log did not have
          overlapped  \* history: two sessions have used the log at once

history == <<early, raced, heard, overlapped>>
vars == <<serviceVars, client, history>>

Struct == Session \X (1..MaxOps)
Seqs == 0..(2 * MaxOps * Cardinality(Session) + 2 * MaxFaults + 2)

(* Y.encodeStateVector: per Yjs client, how far its structs are integrated. *)
StateVector(doc) ==
  [t \in Session |->
     Max({k \in 0..MaxOps : \A j \in 1..k : <<t, j>> \in doc})]

(* Y.encodeStateAsUpdate(doc, sv): what doc holds beyond sv, the structs    *)
(* waiting for a gap included.                                              *)
Beyond(doc, sv) == {x \in doc : x[2] > sv[x[1]]}

(* What the user sees of a document.                                        *)
Integrated(doc) == doc \ Beyond(doc, StateVector(doc))

Client == [ phase     : {"unopened", "hydrating", "live", "off", "stopped", "gone"},
            awaiting  : {"none", "load", "update", "snapshot"},
            doc       : SUBSET Struct,            \* _ydoc
            dirty     : BOOLEAN,                  \* _dirty
            flushedSV : [Session -> 0..MaxOps],   \* _flushedSV
            timer     : BOOLEAN,                  \* _timer is set
            enabled   : BOOLEAN,                  \* _enabled
            covered   : Seqs,                     \* coveredSeq
            appends   : 0..SnapshotEvery ]        \* _appendsSinceSnapshot, saturated

NewClient == [ phase |-> "unopened", awaiting |-> "none", doc |-> {},
               dirty |-> FALSE, flushedSV |-> StateVector({}), timer |-> FALSE,
               enabled |-> TRUE, covered |-> 0, appends |-> 0 ]

Init ==
  /\ ServiceInit
  /\ client = [s \in Session |-> NewClient]
  /\ early = {} /\ raced = {} /\ heard = FALSE /\ overlapped = FALSE

-----------------------------------------------------------------------------
Become(s, c) == client' = [client EXCEPT ![s] = c]

(* Reading the reply closes the exchange.                                   *)
Read(s, kind) ==
  /\ client[s].phase # "gone" /\ wire[s].kind = kind
  /\ Send(s, Idle)

(* The session uses the log, or a request of it is still under way.         *)
Busy(s) ==
  \/ client[s].phase \in {"hydrating", "live"} \/ client[s].awaiting # "none"
  \/ wire[s].kind \in Requests \union {"appended"}

(* What s counts as flushed when its document is doc: all of it.            *)
Counts(s, doc) ==
  /\ heard' = (heard \/ ~ {x \in doc : x[1] # s} \subseteq Recoverable)
  /\ UNCHANGED <<early, raced, overlapped>>

(* The editor has seeded its Y.Doc and starts the sync: constructor, then   *)
(* hydrate().                                                               *)
Open(s) ==
  /\ client[s].phase = "unopened"
  /\ Become(s, [client[s] EXCEPT !.phase = "hydrating", !.awaiting = "load"])
  /\ Send(s, LoadRequest)
  /\ overlapped' = (overlapped \/ \E t \in Session : Busy(t))
  /\ UNCHANGED <<early, raced, heard>>

(* Mutated form of Hydrated: the frames are not applied.                    *)
HydratedWithoutFrames(s) ==
  LET log == wire[s].log
      merged == client[s].doc \union log.snapshot.data
  IN  /\ client[s].awaiting = "load"
      /\ Read(s, "log")
      /\ Become(s, [client[s] EXCEPT
           !.awaiting = "none",
           !.phase = IF @ = "hydrating" THEN "live" ELSE @,
           !.doc = merged, !.covered = log.head,
           !.flushedSV = StateVector(merged)])
      /\ Counts(s, merged)

(* hydrate() resumes with the log: apply the snapshot and the frames, take  *)
(* the state vector of the merged document as flushed, and start(), unless  *)
(* the effect was cancelled meanwhile.                                      *)
Hydrated(s) ==
  LET log == wire[s].log
      merged == client[s].doc \union log.snapshot.data
                  \union UNION {f.data : f \in log.frames}
  IN  /\ client[s].awaiting = "load"
      /\ Read(s, "log")
      /\ Become(s, [client[s] EXCEPT
           !.awaiting = "none",
           !.phase = IF @ = "hydrating" THEN "live" ELSE @,
           !.doc = merged, !.covered = log.head,
           !.flushedSV = StateVector(merged)])
      /\ Counts(s, merged)

(* hydrate() fails, with a 404 or anything else: the layer is disabled.     *)
HydrateFails(s) ==
  /\ client[s].awaiting = "load"
  /\ Read(s, "notFound") \/ Read(s, "failure")
  /\ Become(s, [client[s] EXCEPT
       !.awaiting = "none", !.enabled = FALSE,
       !.phase = IF @ = "hydrating" THEN "off" ELSE @])
  /\ UNCHANGED history

(* A local edit.  Once subscribed, _onLocalUpdate marks the document dirty  *)
(* and arms the timer.                                                      *)
Edit(s) ==
  LET c == client[s]
      struct == <<s, StateVector(c.doc)[s] + 1>>
  IN  /\ c.phase \in {"hydrating", "live", "off"}
      /\ struct \in Struct
      /\ Become(s, [c EXCEPT !.doc = @ \union {struct},
                             !.dirty = @ \/ c.phase = "live",
                             !.timer = @ \/ (c.phase = "live" /\ c.enabled)])
      /\ early' = early \union IF c.phase = "live" THEN {} ELSE {struct}
      /\ raced' = raced \union IF c.awaiting = "update" THEN {struct} ELSE {}
      /\ UNCHANGED <<heard, overlapped>>
      /\ Quiet

(* A state vector exchange with another open editor over the peer-to-peer   *)
(* fabric: applied as a remote update, so it does not mark the doc dirty.   *)
Gossip(s, t) ==
  /\ Fabric
  /\ {client[s].phase, client[t].phase} \subseteq {"hydrating", "live", "off"}
  /\ LET missing == Beyond(client[t].doc, StateVector(client[s].doc))
     IN  /\ ~ missing \subseteq client[s].doc
         /\ Become(s, [client[s] EXCEPT !.doc = @ \union missing])
  /\ Quiet
  /\ UNCHANGED history

-----------------------------------------------------------------------------
(* Mutated form of Flush: the delta starts one struct too late.             *)
FlushOffByOne(s, c) ==
  LET newest == [t \in Session |-> c.flushedSV[t] + 1]
  IN  IF c.enabled /\ c.awaiting = "none" /\ c.dirty
        THEN /\ Become(s, [c EXCEPT !.awaiting = "update"])
             /\ Send(s, UpdateRequest(Beyond(c.doc, newest)))
        ELSE Become(s, c) /\ Quiet

(* flush() up to its await: the delta since the last flush is sent.         *)
Flush(s, c) ==
  IF c.enabled /\ c.awaiting = "none" /\ c.dirty
    THEN /\ Become(s, [c EXCEPT !.awaiting = "update"])
         /\ Send(s, UpdateRequest(Beyond(c.doc, c.flushedSV)))
    ELSE Become(s, c) /\ Quiet

(* The debounce timer fires.                                                *)
TimerFires(s) ==
  /\ client[s].timer
  /\ Flush(s, [client[s] EXCEPT !.timer = FALSE])
  /\ UNCHANGED history

(* Mutated form of Flushed: the snapshot is the delta, not the whole state. *)
FlushedSnapshotsDelta(s) ==
  LET reply == wire[s]
      c == [client[s] EXCEPT !.covered = reply.seq, !.dirty = FALSE,
                             !.flushedSV = StateVector(client[s].doc),
                             !.appends = IF @ < SnapshotEvery THEN @ + 1 ELSE @]
  IN  /\ client[s].awaiting = "update"
      /\ client[s].phase # "gone" /\ reply.kind = "ok"
      /\ IF c.appends = SnapshotEvery \/ reply.compact
           THEN /\ Become(s, [c EXCEPT !.awaiting = "snapshot"])
                /\ Send(s, SnapshotRequest(Beyond(c.doc, client[s].flushedSV),
                                           c.covered))
           ELSE /\ Become(s, [c EXCEPT !.awaiting = "none"])
                /\ Send(s, Idle)
      /\ Counts(s, c.doc)

(* flush() resumes with the frame's seq: it becomes coveredSeq, the state   *)
(* vector of the document as it is now counts as flushed, the dirty flag is *)
(* cleared, and on the client's own budget or the server's advice the same  *)
(* flush goes on to snapshot().                                             *)
Flushed(s) ==
  LET reply == wire[s]
      c == [client[s] EXCEPT !.covered = reply.seq, !.dirty = FALSE,
                             !.flushedSV = StateVector(client[s].doc),
                             !.appends = IF @ < SnapshotEvery THEN @ + 1 ELSE @]
  IN  /\ client[s].awaiting = "update"
      /\ client[s].phase # "gone" /\ reply.kind = "ok"
      /\ IF c.appends = SnapshotEvery \/ reply.compact
           THEN /\ Become(s, [c EXCEPT !.awaiting = "snapshot"])
                /\ Send(s, SnapshotRequest(c.doc, c.covered))
           ELSE /\ Become(s, [c EXCEPT !.awaiting = "none"])
                /\ Send(s, Idle)
      /\ Counts(s, c.doc)

(* Mutated form of FlushFails: the dirty flag is cleared all the same.      *)
FlushFailsClean(s) ==
  /\ client[s].awaiting = "update"
  /\ \E kind \in {"notFound", "failure"} :
       /\ Read(s, kind)
       /\ Become(s, [client[s] EXCEPT !.awaiting = "none", !.dirty = FALSE,
                                      !.enabled = @ /\ kind # "notFound"])
  /\ UNCHANGED history

(* flush() fails: a 404 disables; after any other error the document stays  *)
(* dirty, and no timer is armed.                                            *)
FlushFails(s) ==
  /\ client[s].awaiting = "update"
  /\ \E kind \in {"notFound", "failure"} :
       /\ Read(s, kind)
       /\ Become(s, [client[s] EXCEPT !.awaiting = "none",
                                      !.enabled = @ /\ kind # "notFound"])
  /\ UNCHANGED history

(* snapshot() resumes: the snapshot's own seq becomes coveredSeq.           *)
Compacted(s) ==
  /\ client[s].awaiting = "snapshot"
  /\ Read(s, "ok")
  /\ Become(s, [client[s] EXCEPT !.awaiting = "none", !.covered = wire[s].seq,
                                 !.appends = 0])
  /\ UNCHANGED history

(* snapshot() fails: a 404 disables, a 409 or any other error is ignored.   *)
CompactFails(s) ==
  /\ client[s].awaiting = "snapshot"
  /\ \E kind \in {"notFound", "conflict", "failure"} :
       /\ Read(s, kind)
       /\ Become(s, [client[s] EXCEPT !.awaiting = "none",
                                      !.enabled = @ /\ kind # "notFound"])
  /\ UNCHANGED history

-----------------------------------------------------------------------------
(* The editor unmounts.  stop() detaches, clears the timer and flushes; on  *)
(* a session that was never started it does nothing.                        *)
Stop(s) ==
  LET c == client[s]
      stopped == [c EXCEPT !.phase = "stopped", !.timer = FALSE]
  IN  /\ \/ c.phase = "live" /\ Flush(s, stopped)
         \/ c.phase \in {"hydrating", "off"} /\ Become(s, stopped) /\ Quiet
      /\ UNCHANGED history

(* The tab dies.  A request on the wire may still be carried out.           *)
Kill(s) ==
  /\ client[s].phase \notin {"unopened", "gone"}
  /\ Become(s, [NewClient EXCEPT !.phase = "gone"])
  /\ Quiet
  /\ UNCHANGED history

Resume(s) ==
  \/ Hydrated(s) \/ HydrateFails(s) \/ Flushed(s) \/ FlushFails(s)
  \/ Compacted(s) \/ CompactFails(s)

Editor(s) ==
  \/ Open(s) \/ Edit(s) \/ TimerFires(s) \/ Stop(s) \/ Kill(s)
  \/ \E t \in Session \ {s} : Gossip(s, t)

Server == Service /\ UNCHANGED <<client, history>>

Next == Server \/ \E s \in Session : Editor(s) \/ Resume(s)

Spec == Init /\ [][Next]_vars

-----------------------------------------------------------------------------
TypeOK ==
  /\ client \in [Session -> Client]
  /\ {early, raced} \subseteq SUBSET Struct /\ {heard, overlapped} \subseteq BOOLEAN
  /\ served \in BOOLEAN /\ faults \in 0..MaxFaults
  /\ frames \subseteq accepted
  /\ \A s \in Session :
       LET c == client[s]
       IN  /\ c.timer => c.phase = "live"
           /\ c.awaiting = "load" => c.covered = 0 /\ ~c.dirty

(* An edit of a subscribed session that did not race an append is in a      *)
(* frame the server stored, or lies beyond _flushedSV with the dirty flag   *)
(* set, so that a later flush sends it, until the layer is disabled or the  *)
(* tab dies.                                                                *)
(* About flush(): clear the flag and advance _flushedSV only on success.    *)
NothingDropped ==
  \A s \in Session :
    LET c == client[s]
        held == {x \in c.doc : x[1] = s} \ (early \union raced \union Logged)
    IN  c.phase \in {"live", "stopped"} /\ c.enabled /\ held # {} =>
          c.dirty /\ held \subseteq Beyond(c.doc, c.flushedSV)

(* coveredSeq is "highest seq we have integrated": as long as sessions use  *)
(* the log one after the other, every frame stored up to it has been        *)
(* applied to the session's document, whatever was lost or stored twice.    *)
CoveredTruthful ==
  \A s \in Session :
    ~overlapped =>
      UNION {f.data : f \in {g \in accepted : g.seq <= client[s].covered}}
        \subseteq client[s].doc

(* As long as sessions use the log one after the other, compaction loses    *)
(* nothing: a struct of a stored frame is in what a fresh load gives back.  *)
AloneRecoverable == ~overlapped => Logged \subseteq Recoverable

(* "Nothing dropped": a fresh document that replays the log integrates all  *)
(* of it, no struct waiting for one that was never logged, as long as no    *)
(* edit was made while an exchange was under way, and what came peer to     *)
(* peer was in the log by the time it was counted as flushed.               *)
LogIntegrates ==
  ~overlapped /\ early = {} /\ raced = {} /\ ~heard =>
    Integrated(Recoverable) = Recoverable

(* "Edits arriving during the append are captured by the NEXT flush": when  *)
(* a live session is at rest and not dirty, what the user typed since it    *)
(* started is in the log.                                                   *)
CleanIsLogged ==
  \A s \in Session :
    LET c == client[s]
    IN  c.phase = "live" /\ c.enabled /\ c.awaiting = "none" /\ ~c.dirty =>
          {x \in c.doc : x[1] = s} \ early \subseteq Logged \union snap.data
=============================================================================
