------------------------------ MODULE OpLogSync ------------------------------
(***************************************************************************)
(* src/lib/collab/opLogSync.js, the client half of the update log for the  *)
(* op-based CRDTs (Sheets, Slides), and the editor effects that drive it:  *)
(* one session is one mount of an editor (SheetsEditor.jsx,                *)
(* SlidesEditor.jsx): hydrate from the log, then subscribe to local ops,   *)
(* buffer them, append a batch when the debounce timer fires, compact now  *)
(* and then, and flush once more when the editor unmounts.                 *)
(*                                                                         *)
(* JavaScript runs one callback at a time, so an action is what runs       *)
(* between two awaits; each await is on the session's one open exchange,   *)
(* wire[s] of LogService.  client[s].awaiting names the await the session  *)
(* is at; _flushing is awaiting an update or a snapshot.                   *)
(*                                                                         *)
(* An op is <<s, n>>, the n-th edit made in session s.  The CRDTs' merge   *)
(* is commutative and idempotent, so a replica's state is the set of ops   *)
(* it has merged, and a snapshot carries that set.  Every session runs in a *)
(* browser profile of its own: the CRDT session's localStorage copy is      *)
(* empty when it opens.                                                     *)
(***************************************************************************)
EXTENDS LogService

CONSTANTS SnapshotEvery,  \* own appends before the client compacts
          MaxOps,         \* bound: edits per session
          Fabric          \* whether the deployment has a peering backend

ASSUME SyncAssumption ==
  /\ SnapshotEvery \in Nat \ {0} /\ MaxOps \in Nat
  /\ Fabric \in BOOLEAN

VARIABLES client,     \* client[s]: the OpLogSync object and its CRDT session
          submitted,  \* history: ops the subscription handed to OpLogSync
          overlapped  \* history: two sessions have used the log at once

history == <<submitted, overlapped>>
vars == <<serviceVars, client, history>>

Op == Session \X (1..MaxOps)
Seq1 == 0..(2 * MaxOps * Cardinality(Session) + 2 * MaxFaults + 2)

Client == [ phase    : {"unopened", "hydrating", "live", "off", "stopped", "gone"},
            awaiting : {"none", "load", "update", "snapshot"},
            doc      : SUBSET Op,       \* ops merged by the CRDT session
            buffer   : SUBSET Op,       \* _buffer
            batch    : SUBSET Op,       \* flush()'s batch, while it awaits
            timer    : BOOLEAN,         \* _timer is set
            enabled  : BOOLEAN,         \* _enabled
            covered  : Seq1,            \* coveredSeq
            appends  : 0..SnapshotEvery ]  \* _appendsSinceSnapshot, saturated

NewClient == [ phase |-> "unopened", awaiting |-> "none", doc |-> {},
               buffer |-> {}, batch |-> {}, timer |-> FALSE, enabled |-> TRUE,
               covered |-> 0, appends |-> 0 ]

Init ==
  /\ ServiceInit
  /\ client = [s \in Session |-> NewClient]
  /\ submitted = {} /\ overlapped = FALSE

-----------------------------------------------------------------------------
Become(s, c) == client' = [client EXCEPT ![s] = c]

(* Reading the reply closes the exchange.                                   *)
Read(s, kind) ==
  /\ client[s].phase # "gone" /\ wire[s].kind = kind
  /\ Send(s, Idle)

(* The session uses the log, or a request of it is still under way.         *)
Busy(s) ==
  \/ client[s].phase \in {"hydrating", "live"} \/ client[s].awaiting # "none"
  \/ wire[s].kind \in Requests \union {"appended"}

(* The editor mounts: a fresh CRDT session, a fresh OpLogSync, hydrate().   *)
Open(s) ==
  /\ client[s].phase = "unopened"
  /\ Become(s, [client[s] EXCEPT !.phase = "hydrating", !.awaiting = "load"])
  /\ Send(s, LoadRequest)
  /\ overlapped' = (overlapped \/ \E t \in Session : Busy(t))
  /\ UNCHANGED submitted

(* Mutated form of Hydrated: the frames are not replayed.                   *)
HydratedWithoutFrames(s) ==
  LET log == wire[s].log
  IN  /\ client[s].awaiting = "load"
      /\ Read(s, "log")
      /\ Become(s, [client[s] EXCEPT
           !.awaiting = "none",
           !.phase = IF @ = "hydrating" THEN "live" ELSE @,
           !.doc = @ \union log.snapshot.data,
           !.covered = log.head])
      /\ UNCHANGED history

(* hydrate() resumes with the log: merge the snapshot, replay the frames,   *)
(* and start() in the same microtask turn.  After an unmount start() finds  *)
(* a destroyed CRDT session, which emits nothing.                           *)
Hydrated(s) ==
  LET log == wire[s].log
  IN  /\ client[s].awaiting = "load"
      /\ Read(s, "log")
      /\ Become(s, [client[s] EXCEPT
           !.awaiting = "none",
           !.phase = IF @ = "hydrating" THEN "live" ELSE @,
           !.doc = @ \union log.snapshot.data
                     \union UNION {f.data : f \in log.frames},
           !.covered = log.head])
      /\ UNCHANGED history

(* hydrate() fails, with a 404 or anything else: the layer is disabled.     *)
HydrateFails(s) ==
  /\ client[s].awaiting = "load"
  /\ Read(s, "notFound") \/ Read(s, "failure")
  /\ Become(s, [client[s] EXCEPT
       !.awaiting = "none", !.enabled = FALSE,
       !.phase = IF @ = "hydrating" THEN "off" ELSE @])
  /\ UNCHANGED history

(* A local edit.  The CRDT session emits it; OpLogSync hears of it only     *)
(* once it has subscribed, buffers it and arms the timer.                   *)
Edit(s) ==
  LET c == client[s]
      op == <<s, 1 + Cardinality(c.doc \intersect ({s} \X (1..MaxOps)))>>
  IN  /\ c.phase \in {"hydrating", "live", "off"}
      /\ op \in Op
      /\ IF c.phase = "live"
           THEN /\ Become(s, [c EXCEPT !.doc = @ \union {op},
                                       !.buffer = @ \union {op},
                                       !.timer = @ \/ c.enabled])
                /\ submitted' = submitted \union {op}
           ELSE /\ Become(s, [c EXCEPT !.doc = @ \union {op}])
                /\ UNCHANGED submitted
      /\ UNCHANGED overlapped
      /\ Quiet

(* The peer-to-peer fabric delivers one op of another open editor.  It is   *)
(* merged, and not emitted as a local op.                                   *)
Gossip(s, t) ==
  /\ Fabric
  /\ {client[s].phase, client[t].phase} \subseteq {"hydrating", "live", "off"}
  /\ \E op \in client[t].doc \ client[s].doc :
       Become(s, [client[s] EXCEPT !.doc = @ \union {op}])
  /\ Quiet
  /\ UNCHANGED history

-----------------------------------------------------------------------------
CanFlush(c) == c.enabled /\ c.awaiting = "none" /\ c.buffer # {}

(* Mutated form of Flush: the buffer is cleared before the batch is taken.  *)
FlushSendsEmpty(s, c) ==
  IF CanFlush(c)
    THEN /\ Become(s, [c EXCEPT !.awaiting = "update", !.batch = {},
                                !.buffer = {}])
         /\ Send(s, UpdateRequest({}))
    ELSE Become(s, c) /\ Quiet

(* flush() up to its await: the batch is taken out of the buffer and sent.  *)
(* c is the session's state as the caller of flush() left it.               *)
Flush(s, c) ==
  IF CanFlush(c)
    THEN /\ Become(s, [c EXCEPT !.awaiting = "update", !.batch = c.buffer,
                                !.buffer = {}])
         /\ Send(s, UpdateRequest(c.buffer))
    ELSE Become(s, c) /\ Quiet

(* The debounce timer fires.                                                *)
TimerFires(s) ==
  /\ client[s].timer
  /\ Flush(s, [client[s] EXCEPT !.timer = FALSE])
  /\ UNCHANGED history

(* Mutated form of Flushed: the snapshot is built from the session's own    *)
(* ops, without what it hydrated.                                           *)
FlushedSnapshotsOwnOps(s) ==
  LET reply == wire[s]
      c == [client[s] EXCEPT !.batch = {}, !.covered = reply.seq,
                             !.appends = IF @ < SnapshotEvery THEN @ + 1 ELSE @]
  IN  /\ client[s].awaiting = "update"
      /\ client[s].phase # "gone" /\ reply.kind = "ok"
      /\ IF c.appends = SnapshotEvery \/ reply.compact
           THEN /\ Become(s, [c EXCEPT !.awaiting = "snapshot"])
                /\ Send(s, SnapshotRequest({op \in c.doc : op[1] = s}, c.covered))
           ELSE /\ Become(s, [c EXCEPT !.awaiting = "none"])
                /\ Send(s, Idle)
      /\ UNCHANGED history

(* flush() resumes with the frame's seq: it becomes coveredSeq, and on the  *)
(* client's own budget or the server's advice the same flush goes on to     *)
(* snapshot(), posting the whole state with floor = coveredSeq.             *)
Flushed(s) ==
  LET reply == wire[s]
      c == [client[s] EXCEPT !.batch = {}, !.covered = reply.seq,
                             !.appends = IF @ < SnapshotEvery THEN @ + 1 ELSE @]
  IN  /\ client[s].awaiting = "update"
      /\ client[s].phase # "gone" /\ reply.kind = "ok"
      /\ IF c.appends = SnapshotEvery \/ reply.compact
           THEN /\ Become(s, [c EXCEPT !.awaiting = "snapshot"])
                /\ Send(s, SnapshotRequest(c.doc, c.covered))
           ELSE /\ Become(s, [c EXCEPT !.awaiting = "none"])
                /\ Send(s, Idle)
      /\ UNCHANGED history

(* flush() resumes with a 404: disabled, the batch is dropped.              *)
FlushNotFound(s) ==
  /\ client[s].awaiting = "update"
  /\ Read(s, "notFound")
  /\ Become(s, [client[s] EXCEPT !.awaiting = "none", !.enabled = FALSE,
                                 !.batch = {}])
  /\ UNCHANGED history

(* Mutated form of FlushFails: the batch is not put back.                   *)
FlushForgetsBatch(s) ==
  /\ client[s].awaiting = "update"
  /\ Read(s, "failure")
  /\ Become(s, [client[s] EXCEPT !.awaiting = "none", !.batch = {}])
  /\ UNCHANGED history

(* flush() resumes with any other error: the batch is re-queued for the     *)
(* next flush, and no timer is armed.                                       *)
FlushFails(s) ==
  /\ client[s].awaiting = "update"
  /\ Read(s, "failure")
  /\ Become(s, [client[s] EXCEPT !.awaiting = "none", !.batch = {},
                                 !.buffer = @ \union client[s].batch])
  /\ UNCHANGED history

(* snapshot() resumes: the snapshot's own seq becomes coveredSeq.           *)
Compacted(s) ==
  /\ client[s].awaiting = "snapshot"
  /\ Read(s, "ok")
  /\ Become(s, [client[s] EXCEPT !.awaiting = "none", !.covered = wire[s].seq,
                                 !.appends = 0])
  /\ UNCHANGED history

(* Mutated form of CompactFails: the 409 is not caught, and _flushing stays *)
(* set.                                                                     *)
CompactThrowsConflict(s) ==
  /\ client[s].awaiting = "snapshot"
  /\ \E kind \in {"notFound", "failure"} :
       /\ Read(s, kind)
       /\ Become(s, [client[s] EXCEPT !.awaiting = "none",
                                      !.enabled = @ /\ kind # "notFound"])
  /\ UNCHANGED history

(* snapshot() fails: a 404 disables, a 409 or any other error is ignored.   *)
CompactFails(s) ==
  /\ client[s].awaiting = "snapshot"
  /\ \E kind \in {"notFound", "conflict", "failure"} :
       /\ Read(s, kind)
       /\ Become(s, [client[s] EXCEPT !.awaiting = "none",
                                      !.enabled = @ /\ kind # "notFound"])
  /\ UNCHANGED history

-----------------------------------------------------------------------------
(* The editor unmounts.  stop() detaches, clears the timer and flushes; on  *)
(* a session that was never started it does nothing.                        *)
Stop(s) ==
  LET c == client[s]
      stopped == [c EXCEPT !.phase = "stopped", !.timer = FALSE]
  IN  /\ \/ c.phase = "live" /\ Flush(s, stopped)
         \/ c.phase \in {"hydrating", "off"} /\ Become(s, stopped) /\ Quiet
      /\ UNCHANGED history

(* The tab dies.  A request on the wire may still be carried out.           *)
Kill(s) ==
  /\ client[s].phase \notin {"unopened", "gone"}
  /\ Become(s, [NewClient EXCEPT !.phase = "gone"])
  /\ Quiet
  /\ UNCHANGED history

Resume(s) ==
  \/ Hydrated(s) \/ HydrateFails(s) \/ Flushed(s) \/ FlushNotFound(s)
  \/ FlushFails(s) \/ Compacted(s) \/ CompactFails(s)

Editor(s) ==
  \/ Open(s) \/ Edit(s) \/ TimerFires(s) \/ Stop(s) \/ Kill(s)
  \/ \E t \in Session \ {s} : Gossip(s, t)

Server == Service /\ UNCHANGED <<client, history>>

Next == Server \/ \E s \in Session : Editor(s) \/ Resume(s)

Spec == Init /\ [][Next]_vars

(* The browser fires timers and resumes promises, and the server answers;   *)
(* that users edit, open or close editors is not assumed.                   *)
Fairness ==
  \A s \in Session :
    /\ WF_vars(TimerFires(s))
    /\ WF_vars(Resume(s))
    /\ WF_vars(Serve(s) /\ UNCHANGED <<client, history>>)

FairSpec == Spec /\ Fairness

-----------------------------------------------------------------------------
TypeOK ==
  /\ client \in [Session -> Client]
  /\ submitted \subseteq Op /\ overlapped \in BOOLEAN
  /\ served \in BOOLEAN /\ faults \in 0..MaxFaults
  /\ frames \subseteq accepted
  /\ \A s \in Session :
       LET c == client[s]
       IN  /\ c.timer => c.phase = "live"
           /\ c.batch # {} => c.awaiting = "update"
           /\ c.awaiting = "load" => c.covered = 0
           /\ c.buffer \subseteq c.doc /\ c.buffer \intersect c.batch = {}

(* Whatever the interleaving of timers, replies and failures, an op that    *)
(* OpLogSync was handed is in its buffer, in the batch under way or in a    *)
(* frame the server stored, until the layer is disabled or the tab dies.    *)
(* About flush(): take the batch, re-queue it on failure.                   *)
NothingDropped ==
  \A s \in Session :
    client[s].phase # "gone" /\ client[s].enabled =>
      {op \in submitted : op[1] = s}
        \subseteq client[s].buffer \union client[s].batch \union Logged

(* coveredSeq is "the highest seq we have integrated": as long as sessions  *)
(* use the log one after the other, every frame stored up to it has been    *)
(* merged into the session's document, whatever was lost or stored twice.   *)
CoveredTruthful ==
  \A s \in Session :
    ~overlapped =>
      UNION {f.data : f \in {g \in accepted : g.seq <= client[s].covered}}
        \subseteq client[s].doc

(* "Compaction can never drop a peer's un-merged work": an op of a frame    *)
(* the server stored is in what a fresh load gives back.                    *)
AckedRecoverable == Logged \subseteq Recoverable

(* It is, as long as sessions use the log one after the other.              *)
AloneRecoverable == ~overlapped => AckedRecoverable

(* Every await of a session that is not killed ends: no reply leaves        *)
(* _flushing set.                                                           *)
EveryAwaitEnds ==
  \A s \in Session :
    client[s].awaiting # "none" ~> client[s].awaiting = "none"

(* An op buffered under an armed timer, while no flush is under way, gets   *)
(* logged unless the editor closes first, the endpoints turn out to be gone *)
(* or a request is lost.                                                    *)
ArmedTimerLogs ==
  \A op \in Op :
    LET c == client[op[1]]
    IN  (c.timer /\ c.awaiting = "none" /\ op \in c.buffer)
          ~> (op \in Logged \/ c.phase # "live" \/ ~c.enabled \/ faults > 0)

(* "Ops arriving during the append are captured by the next flush" and     *)
(* stop() flushes "any buffered ops": while nothing is lost, an op that     *)
(* OpLogSync buffered gets logged unless the tab dies.                      *)
BufferedOpsLogged ==
  \A op \in Op :
    LET c == client[op[1]]
    IN  op \in c.buffer ~> (op \in Logged \/ c.phase = "gone")
=============================================================================
