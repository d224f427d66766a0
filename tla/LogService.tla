----------------------------- MODULE LogService -----------------------------
(***************************************************************************)
(* GET and POST /api/files/:id/updates (backend/handlers/updates.go) as a  *)
(* client session meets them: one document's log, served or switched off   *)
(* (the persistence.updatelog flag), behind a network that may lose a      *)
(* request or the answer to one that was carried out.                      *)
(*                                                                         *)
(* The store is taken at its interface (DurableLog): each call is atomic.  *)
(* A frame's data is the set of CRDT items it carries.  wire[s] is the one *)
(* exchange a session can have open: the request until the server takes    *)
(* it, then the reply until the session reads it.                          *)
(*                                                                         *)
(* accepted is a history variable: every update frame ever appended.       *)
(***************************************************************************)
EXTENDS FrameLog

CONSTANTS Session,    \* editor sessions, each opened at most once
          MaxFrame,   \* items an update frame may carry (the 256 KiB cap)
          AdviseAt,   \* CompactAdviseThreshold
          MaxFaults,  \* bound: lost requests and replies, and the flag's end
          CanSwitchOff \* whether the deployment may turn the flag off

ASSUME ServiceAssumption ==
  /\ MaxFrame \in Nat /\ AdviseAt \in Nat /\ MaxFaults \in Nat
  /\ CanSwitchOff \in BOOLEAN

VARIABLES snap, frames, served, wire, faults, accepted

serviceVars == <<snap, frames, served, wire, faults, accepted>>

Idle == [kind |-> "idle"]
LoadRequest == [kind |-> "load"]
UpdateRequest(items) == [kind |-> "update", items |-> items]
SnapshotRequest(items, floor) ==
  [kind |-> "snapshot", items |-> items, floor |-> floor]

(* The reply to an update the server has not finished composing: Pending is *)
(* a second call into the store, after the append.                          *)
Appended(seq) == [kind |-> "appended", seq |-> seq]

LogReply(answer) == [kind |-> "log", log |-> answer]
OkReply(seq, compact) == [kind |-> "ok", seq |-> seq, compact |-> compact]
NotFound == [kind |-> "notFound"]    \* 404
Conflict == [kind |-> "conflict"]    \* 409, stale snapshot
Failure == [kind |-> "failure"]      \* any other status, or no answer

Requests == {"load", "update", "snapshot"}
Replies == {"log", "ok", "notFound", "conflict", "failure"}

(* What a fresh load would give back.                                       *)
Recoverable == snap.data \union UNION {f.data : f \in Above(frames, snap.floor)}

-----------------------------------------------------------------------------
ServiceInit ==
  /\ snap = NoSnapshot
  /\ frames = {}
  /\ served = TRUE
  /\ wire = [s \in Session |-> Idle]
  /\ faults = 0
  /\ accepted = {}

Answer(s, reply) == wire' = [wire EXCEPT ![s] = reply]

(* List: load from 0.                                                       *)
ServeLoad(s) ==
  /\ served /\ wire[s].kind = "load"
  /\ Answer(s, LogReply(LoadAnswer(snap, frames, 0)))
  /\ UNCHANGED <<snap, frames, served, faults, accepted>>

(* Append of an update within the size cap.                                 *)
ServeUpdate(s) ==
  LET seq == HeadSeq(snap, frames) + 1
      frame == UpdateFrame(seq, wire[s].items)
  IN  /\ served /\ wire[s].kind = "update"
      /\ Cardinality(wire[s].items) <= MaxFrame
      /\ frames' = frames \union {frame}
      /\ accepted' = accepted \union {frame}
      /\ Answer(s, Appended(seq))
      /\ UNCHANGED <<snap, served, faults>>

(* 413: an update over the cap.                                             *)
RefuseOversize(s) ==
  /\ served /\ wire[s].kind = "update"
  /\ Cardinality(wire[s].items) > MaxFrame
  /\ Answer(s, Failure)
  /\ UNCHANGED <<snap, frames, served, faults, accepted>>

(* Pending, and with it the advice to compact.                              *)
Advise(s) ==
  /\ wire[s].kind = "appended"
  /\ Answer(s, OkReply(wire[s].seq, Pending(snap, frames) >= AdviseAt))
  /\ UNCHANGED <<snap, frames, served, faults, accepted>>

(* Pending fails: its error is swallowed and nothing is advised.            *)
PendingFails(s) ==
  /\ faults < MaxFaults
  /\ wire[s].kind = "appended"
  /\ Answer(s, OkReply(wire[s].seq, FALSE))
  /\ faults' = faults + 1
  /\ UNCHANGED <<snap, frames, served, accepted>>

(* Append of a snapshot: prune up to its floor, or 409.                     *)
ServeSnapshot(s) ==
  LET head == HeadSeq(snap, frames)
      floor == ClampFloor(wire[s].floor, head)
  IN  /\ served /\ wire[s].kind = "snapshot"
      /\ IF Stale(snap, floor)
           THEN Answer(s, Conflict) /\ UNCHANGED <<snap, frames>>
           ELSE /\ snap' = Snapshot(head + 1, floor, wire[s].items)
                /\ frames' = Above(frames, floor)
                /\ Answer(s, OkReply(head + 1, FALSE))
      /\ UNCHANGED <<served, faults, accepted>>

(* The endpoints are gone.                                                  *)
ServeNotFound(s) ==
  /\ ~served /\ wire[s].kind \in Requests
  /\ Answer(s, NotFound)
  /\ UNCHANGED <<snap, frames, served, faults, accepted>>

(* The request does not arrive, or is refused with nothing stored (ACL,     *)
(* suspended account, quota, 5xx), or the answer to a stored one is lost:   *)
(* the session sees the same.                                               *)
Lose(s) ==
  /\ faults < MaxFaults
  /\ wire[s].kind \in Requests \union {"appended", "log", "ok", "conflict"}
  /\ Answer(s, Failure)
  /\ faults' = faults + 1
  /\ UNCHANGED <<snap, frames, served, accepted>>

SwitchOff ==
  /\ CanSwitchOff /\ served
  /\ served' = FALSE
  /\ UNCHANGED <<snap, frames, wire, faults, accepted>>

Serve(s) ==
  \/ ServeLoad(s) \/ ServeUpdate(s) \/ RefuseOversize(s) \/ Advise(s)
  \/ ServeSnapshot(s) \/ ServeNotFound(s)

(* The session's side of an exchange: a request put on the wire, or Idle    *)
(* once the reply is read; and a step that leaves the service alone.        *)
Send(s, request) ==
  /\ wire' = [wire EXCEPT ![s] = request]
  /\ UNCHANGED <<snap, frames, served, faults, accepted>>

Quiet == UNCHANGED serviceVars

(* Every item the log was ever given.                                       *)
Logged == UNION {f.data : f \in accepted}

Service == SwitchOff \/ \E s \in Session : Serve(s) \/ Lose(s) \/ PendingFails(s)
=============================================================================
