----------------------------- MODULE DurableLog -----------------------------
(***************************************************************************)
(* What the Store interface of backend/updatelog promises its callers,     *)
(* with no files, tables, locks or pruning: one ever-growing sequence of   *)
(* everything accepted, in which an entry's position is its seq, and the   *)
(* latest accepted snapshot.                                               *)
(*                                                                         *)
(* Req is the set of concurrent callers.  out[r] is the reply r has got    *)
(* and not consumed yet.  A call is atomic here; a reply may get lost      *)
(* (crash, dropped connection), an accepted entry may not.                 *)
(***************************************************************************)
EXTENDS FrameLog, Sequences

CONSTANTS Req,      \* concurrent callers
          Data,     \* opaque frame payloads
          FloorArg, \* floors a snapshot may be posted with
          SinceArg  \* positions a reader may ask from

VARIABLES log,      \* every entry ever accepted, [kind, data]
          snap,     \* the latest accepted snapshot
          out       \* the reply each caller holds

vars == <<log, snap, out>>

(* Replies.  An update's frame carries floor 0, as the JSON omits it.       *)
NoReply == [kind |-> "none"]
Failed == [kind |-> "error"]
StaleReply == [kind |-> "stale"]
FrameReply(seq, floor) == [kind |-> "frame", seq |-> seq, floor |-> floor]
LogReply(answer) == [kind |-> "log", log |-> answer]

Entry(kind, data) == [kind |-> kind, data |-> data]

(* Every update ever accepted, as a frame.                                  *)
Updates ==
  {UpdateFrame(i, log[i].data) :
     i \in {j \in DOMAIN log : log[j].kind = "update"}}

Init ==
  /\ log = <<>>
  /\ snap = NoSnapshot
  /\ out = [r \in Req |-> NoReply]

AppendUpdate(r, d) ==
  /\ out[r] = NoReply
  /\ log' = Append(log, Entry("update", d))
  /\ out' = [out EXCEPT ![r] = FrameReply(Len(log) + 1, 0)]
  /\ UNCHANGED snap

AppendSnapshot(r, d, f) ==
  LET floor == ClampFloor(f, Len(log))
  IN  /\ out[r] = NoReply
      /\ floor >= snap.floor
      /\ log' = Append(log, Entry("snapshot", d))
      /\ snap' = Snapshot(Len(log) + 1, floor, d)
      /\ out' = [out EXCEPT ![r] = FrameReply(Len(log) + 1, floor)]

RejectSnapshot(r, f) ==
  /\ out[r] = NoReply
  /\ ClampFloor(f, Len(log)) < snap.floor
  /\ out' = [out EXCEPT ![r] = StaleReply]
  /\ UNCHANGED <<log, snap>>

(* The reader is owed the snapshot if it is behind it, and every update     *)
(* accepted since the floor or since its own position, whichever is later.  *)
Load(r, since) ==
  /\ out[r] = NoReply
  /\ out' = [out EXCEPT ![r] =
       LogReply([ snapshot |-> IF since < snap.floor THEN snap ELSE NoSnapshot,
                  frames   |-> {u \in Updates :
                                  u.seq > since /\ u.seq > snap.floor},
                  head     |-> Len(log) ])]
  /\ UNCHANGED <<log, snap>>

(* The store reports an error and has changed nothing.                      *)
Fail(r) ==
  /\ out[r] = NoReply
  /\ out' = [out EXCEPT ![r] = Failed]
  /\ UNCHANGED <<log, snap>>

(* The replies of the callers in R are consumed, or lost.                   *)
Consume(R) ==
  /\ R # {}
  /\ out' = [r \in Req |-> IF r \in R THEN NoReply ELSE out[r]]
  /\ UNCHANGED <<log, snap>>

WriteNext ==
  \/ \E r \in Req, d \in Data : AppendUpdate(r, d)
  \/ \E r \in Req, d \in Data, f \in FloorArg : AppendSnapshot(r, d, f)
  \/ \E r \in Req, f \in FloorArg : RejectSnapshot(r, f)
  \/ \E r \in Req : Fail(r)
  \/ \E R \in SUBSET Req : Consume(R)

Next == WriteNext \/ \E r \in Req, s \in SinceArg : Load(r, s)

(* The writers' half of the promise, and the whole of it.                   *)
WriteSpec == Init /\ [][WriteNext]_vars
Spec == Init /\ [][Next]_vars
=============================================================================
