--------------------------- MODULE UpdateLogLocal ---------------------------
(***************************************************************************)
(* LocalStore of backend/updatelog/updatelog.go: the frame log of one      *)
(* document kept as files in a directory, f<seq>.json per update frame and *)
(* snapshot.json.  Req are the HTTP handlers that call the store at the    *)
(* same time.  A process mutex serialises them, but nothing makes the      *)
(* several file operations of one call atomic against a crash: a snapshot  *)
(* is renamed into place and only then are the frames it subsumes unlinked *)
(* one by one, each unlink being allowed to fail unnoticed.                *)
(*                                                                         *)
(* On disk: snap, frames.  In memory, lost in a crash: mu and each call's  *)
(* pc, args, seen, todo and reply.  log is a history variable: everything  *)
(* the store ever made durable, in order; no action reads it but for the   *)
(* bound MaxSeq.                                                           *)
(***************************************************************************)
EXTENDS FrameLog, Sequences

CONSTANTS Req,      \* handlers that call the store concurrently
          Data,     \* opaque frame payloads
          FloorArg, \* floors a snapshot is posted with
          SinceArg, \* positions a reader asks from
          Nobody,   \* the mutex is free
          MaxSeq    \* bound: seqs assigned before writers stop

ASSUME LocalAssumption ==
  /\ Nobody \notin Req
  /\ FloorArg \subseteq Int
  /\ SinceArg \subseteq Nat
  /\ MaxSeq \in Nat

VARIABLES snap, frames, mu, pc, args, seen, todo, reply, log

disk == <<snap, frames>>
vars == <<snap, frames, mu, pc, args, seen, todo, reply, log>>

Abstract == INSTANCE DurableLog WITH
              out <- [r \in Req |-> IF pc[r] \in {"prune", "done"}
                                      THEN reply[r] ELSE [kind |-> "none"]]

UpdateArgs == [op : {"update"}, data : Data, floor : {0}, since : {0}]
SnapshotArgs == [op : {"snapshot"}, data : Data, floor : FloorArg, since : {0}]
LoadArgs == [op : {"load"}, floor : {0}, since : SinceArg]
Args == UpdateArgs \union SnapshotArgs \union LoadArgs
NoArgs == [op |-> "none", floor |-> 0, since |-> 0]

NothingSeen == [snap |-> NoSnapshot, frames |-> {}]

-----------------------------------------------------------------------------
Init ==
  /\ snap = NoSnapshot
  /\ frames = {}
  /\ mu = Nobody
  /\ pc = [r \in Req |-> "idle"]
  /\ args = [r \in Req |-> NoArgs]
  /\ seen = [r \in Req |-> NothingSeen]
  /\ todo = [r \in Req |-> {}]
  /\ reply = [r \in Req |-> Abstract!NoReply]
  /\ log = <<>>

Goto(r, label) == pc' = [pc EXCEPT ![r] = label]

(* The deferred unlock and return.                                          *)
Return(r, value) ==
  /\ Goto(r, "done")
  /\ mu' = Nobody
  /\ reply' = [reply EXCEPT ![r] = value]

(* A handler calls Append or Load.                                          *)
Call(r, a) ==
  /\ pc[r] = "idle"
  /\ a.op # "load" =>
       Len(log) + Cardinality({q \in Req : pc[q] # "idle"}) < MaxSeq
  /\ Goto(r, "lock")
  /\ args' = [args EXCEPT ![r] = a]
  /\ UNCHANGED <<snap, frames, mu, seen, todo, reply, log>>

(* Mutated form of Lock: the call reads the directory without the mutex.    *)
LockWithoutWaiting(r) ==
  /\ pc[r] = "lock"
  /\ mu' = r
  /\ Goto(r, "list")
  /\ seen' = [seen EXCEPT ![r].snap = snap]
  /\ UNCHANGED <<snap, frames, args, todo, reply, log>>

(* s.mu.Lock, then the first half of headLocked: readSnapshot.              *)
Lock(r) ==
  /\ pc[r] = "lock"
  /\ mu = Nobody
  /\ mu' = r
  /\ Goto(r, "list")
  /\ seen' = [seen EXCEPT ![r].snap = snap]
  /\ UNCHANGED <<snap, frames, args, todo, reply, log>>

(* The second half, listFrames: an Append goes on to write.                 *)
List(r) ==
  /\ pc[r] = "list"
  /\ args[r].op # "load"
  /\ seen' = [seen EXCEPT ![r].frames = frames]
  /\ Goto(r, args[r].op)
  /\ UNCHANGED <<snap, frames, mu, args, todo, reply, log>>

(* Load lists the frames, answers and unlocks.                              *)
Load(r) ==
  /\ pc[r] = "list"
  /\ args[r].op = "load"
  /\ Return(r, Abstract!LogReply(
                 LoadAnswer(seen[r].snap, frames, args[r].since)))
  /\ seen' = [seen EXCEPT ![r] = NothingSeen]
  /\ UNCHANGED <<snap, frames, args, todo, log>>

NextSeq(r) == HeadSeq(seen[r].snap, seen[r].frames) + 1
Floor(r) == ClampFloor(args[r].floor, HeadSeq(seen[r].snap, seen[r].frames))

(* writeJSON of an update: the rename replaces a file of the same name.     *)
WriteFrame(r) ==
  /\ pc[r] = "update"
  /\ frames' = {f \in frames : f.seq # NextSeq(r)}
                 \union {UpdateFrame(NextSeq(r), args[r].data)}
  /\ log' = Append(log, Abstract!Entry("update", args[r].data))
  /\ Return(r, Abstract!FrameReply(NextSeq(r), 0))
  /\ seen' = [seen EXCEPT ![r] = NothingSeen]
  /\ UNCHANGED <<snap, args, todo>>

(* Mutated form of RejectStale: an early return that does not unlock.       *)
RejectStaleLocked(r) ==
  /\ pc[r] = "snapshot"
  /\ Stale(seen[r].snap, Floor(r))
  /\ Goto(r, "done")
  /\ reply' = [reply EXCEPT ![r] = Abstract!StaleReply]
  /\ seen' = [seen EXCEPT ![r] = NothingSeen]
  /\ UNCHANGED <<snap, frames, mu, args, todo, log>>

(* A snapshot that would regress the retained one is refused.               *)
RejectStale(r) ==
  /\ pc[r] = "snapshot"
  /\ Stale(seen[r].snap, Floor(r))
  /\ Return(r, Abstract!StaleReply)
  /\ seen' = [seen EXCEPT ![r] = NothingSeen]
  /\ UNCHANGED <<snap, frames, args, todo, log>>

(* Mutated form of WriteSnapshot: every frame listed is to be unlinked.     *)
WriteSnapshotPruningAll(r) ==
  /\ pc[r] = "snapshot"
  /\ ~Stale(seen[r].snap, Floor(r))
  /\ snap' = Snapshot(NextSeq(r), Floor(r), args[r].data)
  /\ todo' = [todo EXCEPT ![r] = {f.seq : f \in seen[r].frames}]
  /\ log' = Append(log, Abstract!Entry("snapshot", args[r].data))
  /\ reply' = [reply EXCEPT ![r] = Abstract!FrameReply(NextSeq(r), Floor(r))]
  /\ Goto(r, "prune")
  /\ seen' = [seen EXCEPT ![r] = NothingSeen]
  /\ UNCHANGED <<frames, mu, args>>

(* writeJSON of a snapshot; the frames to unlink are those listed before.   *)
WriteSnapshot(r) ==
  /\ pc[r] = "snapshot"
  /\ ~Stale(seen[r].snap, Floor(r))
  /\ snap' = Snapshot(NextSeq(r), Floor(r), args[r].data)
  /\ todo' = [todo EXCEPT ![r] =
                {f.seq : f \in {g \in seen[r].frames : g.seq <= Floor(r)}}]
  /\ log' = Append(log, Abstract!Entry("snapshot", args[r].data))
  /\ reply' = [reply EXCEPT ![r] = Abstract!FrameReply(NextSeq(r), Floor(r))]
  /\ Goto(r, "prune")
  /\ seen' = [seen EXCEPT ![r] = NothingSeen]
  /\ UNCHANGED <<frames, mu, args>>

(* A file operation fails: MkdirAll, the reading of snapshot.json or of the *)
(* directory, or writeJSON, which then has renamed nothing into place.      *)
FileError(r) ==
  /\ \/ pc[r] \in {"list", "update"}
     \/ pc[r] = "snapshot" /\ ~Stale(seen[r].snap, Floor(r))
  /\ Return(r, Abstract!Failed)
  /\ seen' = [seen EXCEPT ![r] = NothingSeen]
  /\ UNCHANGED <<snap, frames, args, todo, log>>

(* os.Remove of the next subsumed frame, lowest seq first; its error is     *)
(* ignored, and then the frame stays.                                       *)
Prune(r) ==
  /\ pc[r] = "prune"
  /\ \E seq \in todo[r] :
       /\ \A s \in todo[r] : seq <= s
       /\ todo' = [todo EXCEPT ![r] = @ \ {seq}]
       /\ \/ frames' = {f \in frames : f.seq # seq}
          \/ UNCHANGED frames
  /\ UNCHANGED <<snap, mu, pc, args, seen, reply, log>>

Pruned(r) ==
  /\ pc[r] = "prune"
  /\ todo[r] = {}
  /\ Return(r, reply[r])
  /\ UNCHANGED <<snap, frames, args, seen, todo, log>>

(* The handler writes its HTTP response.                                    *)
Respond(r) ==
  /\ pc[r] = "done"
  /\ Goto(r, "idle")
  /\ args' = [args EXCEPT ![r] = NoArgs]
  /\ reply' = [reply EXCEPT ![r] = Abstract!NoReply]
  /\ UNCHANGED <<snap, frames, mu, seen, todo, log>>

(* The process dies and restarts: only the directory survives.              *)
Crash ==
  /\ \E r \in Req : pc[r] # "idle"
  /\ mu' = Nobody
  /\ pc' = [r \in Req |-> "idle"]
  /\ args' = [r \in Req |-> NoArgs]
  /\ seen' = [r \in Req |-> NothingSeen]
  /\ todo' = [r \in Req |-> {}]
  /\ reply' = [r \in Req |-> Abstract!NoReply]
  /\ UNCHANGED <<snap, frames, log>>

Step(r) ==
  \/ Lock(r) \/ List(r) \/ Load(r) \/ WriteFrame(r) \/ RejectStale(r)
  \/ WriteSnapshot(r) \/ FileError(r) \/ Prune(r) \/ Pruned(r) \/ Respond(r)

Next ==
  \/ \E r \in Req, a \in Args : Call(r, a)
  \/ \E r \in Req : Step(r)
  \/ Crash

Spec == Init /\ [][Next]_vars

(* The server schedules every handler that can run, and a mutex hands over  *)
(* to a waiter; callers may stop calling and the process need not crash.    *)
FairSpec ==
  /\ Spec
  /\ \A r \in Req : WF_vars(Step(r)) /\ SF_vars(Lock(r))

-----------------------------------------------------------------------------
Labels == {"idle", "lock", "list", "update", "snapshot", "prune", "done"}
Seqs == Nat
StoredFrame == [seq : Seqs, data : Data]
StoredSnapshot == {NoSnapshot} \union [seq : Seqs, floor : Seqs, data : Data]

Answer == [snapshot : StoredSnapshot, frames : SUBSET StoredFrame, head : Seqs]
Replies ==
  {Abstract!NoReply, Abstract!Failed, Abstract!StaleReply}
    \union [kind : {"frame"}, seq : Seqs, floor : Seqs]
    \union [kind : {"log"}, log : Answer]

(* The shapes of the disk and of every handler's locals.                    *)
TypeOK ==
  /\ snap \in StoredSnapshot
  /\ frames \subseteq StoredFrame
  /\ mu \in Req \union {Nobody}
  /\ pc \in [Req -> Labels]
  /\ args \in [Req -> Args \union {NoArgs}]
  /\ seen \in [Req -> [snap : StoredSnapshot, frames : SUBSET StoredFrame]]
  /\ todo \in [Req -> SUBSET Seqs]
  /\ reply \in [Req -> Replies]
  /\ log \in Seq([kind : {"update", "snapshot"}, data : Data])

(* The highest seq recomputed from the directory is the number of entries   *)
(* ever made durable: whatever was pruned, left over or crashed in between, *)
(* headLocked neither forgets a seq (which would then be assigned twice)    *)
(* nor skips one.                                                           *)
HeadNeverLost == HeadSeq(snap, frames) = Len(log)

(* The package doc's promise: every update above the retained floor is on   *)
(* disk exactly as it was accepted, whatever was compacted around it, and   *)
(* nothing else is on disk but subsumed frames whose unlink did not happen. *)
TailRetained ==
  /\ \A u \in Abstract!Updates : u.seq > snap.floor => u \in frames
  /\ frames \subseteq Abstract!Updates

(* Why the two above hold, as an inductive invariant.  Whoever is between   *)
(* Lock and its return owns the mutex; what it has read of the directory is *)
(* still what the directory holds; the entry with the highest seq is there, *)
(* as a frame or as the snapshot; and only subsumed frames get unlinked,    *)
(* which can never be that highest entry.                                   *)
LockOwned ==
  \A r \in Req : pc[r] \in {"list", "update", "snapshot", "prune"} <=> mu = r

ViewCurrent ==
  \A r \in Req :
    /\ pc[r] \in {"list", "update", "snapshot"} => seen[r].snap = snap
    /\ pc[r] \in {"update", "snapshot"} => seen[r].frames = frames

CallMatches ==
  \A r \in Req :
    /\ pc[r] \in {"lock", "list"} => args[r] \in Args
    /\ pc[r] = "update" => args[r] \in UpdateArgs
    /\ pc[r] = "snapshot" => args[r] \in SnapshotArgs

HighestOnDisk ==
  /\ snap.seq <= Len(log)
  /\ \A f \in frames : f.seq <= Len(log)
  /\ snap.seq = Len(log) \/ \E f \in frames : f.seq = Len(log)

FloorBelowSnapshot == snap.floor < snap.seq \/ (snap.floor = 0 /\ snap.seq = 0)

PruneSafe == \A r \in Req : \A s \in todo[r] : pc[r] = "prune" => s <= snap.floor

IInv ==
  /\ TypeOK /\ LockOwned /\ ViewCurrent /\ CallMatches
  /\ HighestOnDisk /\ FloorBelowSnapshot /\ PruneSafe /\ TailRetained

(* A retained snapshot is only ever replaced by one that incorporates at    *)
(* least as much, and an unlinked frame is one the snapshot incorporates.   *)
CompactionNeverRegresses ==
  [][ /\ snap'.floor >= snap.floor
      /\ \A f \in frames \ frames' : f.seq <= snap'.floor ]_disk

(* LocalStore implements the Store interface: each call takes effect at one *)
(* instant between its invocation and its reply, a snapshot at its rename,  *)
(* and every Load answers with exactly what was accepted before it.         *)
ImplementsDurableLog == Abstract!Spec

(* Every call that is waiting for the mutex is answered (or dies with the   *)
(* process): no return path of Append or Load leaves the mutex held.        *)
EveryCallReturns ==
  \A r \in Req : pc[r] = "lock" ~> pc[r] \in {"done", "idle"}
=============================================================================
