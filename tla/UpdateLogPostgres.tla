-------------------------- MODULE UpdateLogPostgres --------------------------
(***************************************************************************)
(* PostgresStore of backend/updatelog/postgres.go: the frame log of one    *)
(* document as rows of two tables.  Req are the calls in progress, from    *)
(* any number of server processes.  An Append is one READ COMMITTED        *)
(* transaction that takes the file's advisory lock first: what it writes   *)
(* becomes visible to the others, all at once, when it commits.  A Load is *)
(* three statements on the pool, outside any transaction and any lock, so  *)
(* commits of others fall between them.                                    *)
(*                                                                         *)
(* snap, frames are the committed rows.  lock is the advisory lock.  log   *)
(* is a history variable, everything ever committed, and raised[r] records *)
(* whether a compaction committed while r's Load was under way.            *)
(***************************************************************************)
EXTENDS FrameLog, Sequences

CONSTANTS Req, Data, FloorArg, SinceArg,
          Nobody,   \* the advisory lock is free
          MaxSeq    \* bound: seqs assigned before writers stop

VARIABLES snap, frames, lock, pc, args, seen, reply, log, raised

tables == <<snap, frames>>
vars == <<snap, frames, lock, pc, args, seen, reply, log, raised>>

(* Writers only: a reader's reply is not part of what is implemented.       *)
Abstract == INSTANCE DurableLog WITH
              out <- [r \in Req |-> IF pc[r] = "done" /\ args[r].op # "load"
                                      THEN reply[r] ELSE [kind |-> "none"]]

UpdateArgs == [op : {"update"}, data : Data, floor : {0}, since : {0}]
SnapshotArgs == [op : {"snapshot"}, data : Data, floor : FloorArg, since : {0}]
LoadArgs == [op : {"load"}, floor : {0}, since : SinceArg]
Args == UpdateArgs \union SnapshotArgs \union LoadArgs
NoArgs == [op |-> "none", floor |-> 0, since |-> 0]

NothingSeen == [snap |-> NoSnapshot, head |-> 0]

-----------------------------------------------------------------------------
Init ==
  /\ snap = NoSnapshot
  /\ frames = {}
  /\ lock = Nobody
  /\ pc = [r \in Req |-> "idle"]
  /\ args = [r \in Req |-> NoArgs]
  /\ seen = [r \in Req |-> NothingSeen]
  /\ reply = [r \in Req |-> Abstract!NoReply]
  /\ log = <<>>
  /\ raised = [r \in Req |-> FALSE]

Goto(r, label) == pc' = [pc EXCEPT ![r] = label]

(* A call ends; if it held the transaction, the advisory lock goes with it. *)
Return(r, value) ==
  /\ Goto(r, "done")
  /\ lock' = IF lock = r THEN Nobody ELSE lock
  /\ reply' = [reply EXCEPT ![r] = value]
  /\ seen' = [seen EXCEPT ![r] = NothingSeen]

Call(r, a) ==
  /\ pc[r] = "idle"
  /\ a.op # "load" =>
       Len(log) + Cardinality({q \in Req : pc[q] # "idle"}) < MaxSeq
  /\ Goto(r, IF a.op = "load" THEN "loadSnapshot" ELSE "begin")
  /\ args' = [args EXCEPT ![r] = a]
  /\ UNCHANGED <<snap, frames, lock, seen, reply, log, raised>>

(* Mutated form of Begin: the transaction takes no advisory lock.           *)
BeginUnlocked(r) ==
  /\ pc[r] = "begin"
  /\ Goto(r, "head")
  /\ UNCHANGED <<snap, frames, lock, args, seen, reply, log, raised>>

(* BEGIN and pg_advisory_xact_lock.                                         *)
Begin(r) ==
  /\ pc[r] = "begin"
  /\ lock = Nobody
  /\ lock' = r
  /\ Goto(r, "head")
  /\ UNCHANGED <<snap, frames, args, seen, reply, log, raised>>

(* headTx: one statement over both tables.                                  *)
ReadHead(r) ==
  /\ pc[r] = "head"
  /\ seen' = [seen EXCEPT ![r].head = HeadSeq(snap, frames)]
  /\ Goto(r, IF args[r].op = "update" THEN "insert" ELSE "floor")
  /\ UNCHANGED <<snap, frames, lock, args, reply, log, raised>>

Floor(r) == ClampFloor(args[r].floor, seen[r].head)

(* SELECT floor: a regressing snapshot is refused and the tx rolled back.   *)
ReadFloor(r) ==
  /\ pc[r] = "floor"
  /\ IF Stale(snap, Floor(r))
       THEN Return(r, Abstract!StaleReply)
       ELSE Goto(r, "upsert") /\ UNCHANGED <<lock, seen, reply>>
  /\ UNCHANGED <<snap, frames, args, log, raised>>

(* COMMIT of INSERT INTO file_updates, whose key is (file_id, seq).         *)
CommitUpdate(r) ==
  /\ pc[r] = "insert"
  /\ LET seq == seen[r].head + 1
     IN  /\ \A f \in frames : f.seq # seq
         /\ frames' = frames \union {UpdateFrame(seq, args[r].data)}
         /\ log' = Append(log, Abstract!Entry("update", args[r].data))
         /\ Return(r, Abstract!FrameReply(seq, 0))
  /\ UNCHANGED <<snap, args, raised>>

(* Mutated form of CommitSnapshot: the DELETE prunes up to the new seq.     *)
CommitSnapshotPruningAll(r) ==
  /\ pc[r] = "upsert"
  /\ LET seq == seen[r].head + 1
     IN  /\ snap' = Snapshot(seq, Floor(r), args[r].data)
         /\ log' = Append(log, Abstract!Entry("snapshot", args[r].data))
         /\ Return(r, Abstract!FrameReply(seq, Floor(r)))
         /\ frames' = Above(frames, seq)
  /\ raised' = [q \in Req |->
                 \/ raised[q]
                 \/ pc[q] \in {"loadHead", "loadFrames"} /\ Floor(r) > snap.floor]
  /\ UNCHANGED args

(* COMMIT of the snapshot's upsert and of the DELETE of what it subsumes.   *)
CommitSnapshot(r) ==
  /\ pc[r] = "upsert"
  /\ LET seq == seen[r].head + 1
     IN  /\ snap' = Snapshot(seq, Floor(r), args[r].data)
         /\ log' = Append(log, Abstract!Entry("snapshot", args[r].data))
         /\ Return(r, Abstract!FrameReply(seq, Floor(r)))
  /\ frames' = Above(frames, Floor(r))
  /\ raised' = [q \in Req |->
                 \/ raised[q]
                 \/ pc[q] \in {"loadHead", "loadFrames"} /\ Floor(r) > snap.floor]
  /\ UNCHANGED args

(* A statement or the connection fails, or the server process dies: the     *)
(* database rolls the transaction back.                                     *)
Abort(r) ==
  /\ pc[r] \notin {"idle", "done"}
  /\ Return(r, Abstract!Failed)
  /\ UNCHANGED <<snap, frames, args, log, raised>>

(* Load, first statement: scanSnapshot.                                     *)
LoadSnapshot(r) ==
  /\ pc[r] = "loadSnapshot"
  /\ seen' = [seen EXCEPT ![r].snap = snap]
  /\ Goto(r, "loadHead")
  /\ UNCHANGED <<snap, frames, lock, args, reply, log, raised>>

(* Second statement: Head.                                                  *)
LoadHead(r) ==
  /\ pc[r] = "loadHead"
  /\ seen' = [seen EXCEPT ![r].head = HeadSeq(snap, frames)]
  /\ Goto(r, "loadFrames")
  /\ UNCHANGED <<snap, frames, lock, args, reply, log, raised>>

(* Mutated form of LoadFrames: the tail starts at the snapshot's own seq.   *)
LoadFramesAboveSnapshot(r) ==
  LET behind == args[r].since < seen[r].snap.floor
  IN  /\ pc[r] = "loadFrames"
      /\ Return(r, Abstract!LogReply(
           [ snapshot |-> IF behind THEN seen[r].snap ELSE NoSnapshot,
             frames   |-> Above(frames, IF behind THEN seen[r].snap.seq
                                                  ELSE args[r].since),
             head     |-> seen[r].head ]))
      /\ UNCHANGED <<snap, frames, args, log, raised>>

(* Third statement: the frames above max(since, floor), and the answer.     *)
LoadFrames(r) ==
  LET behind == args[r].since < seen[r].snap.floor
  IN  /\ pc[r] = "loadFrames"
      /\ Return(r, Abstract!LogReply(
           [ snapshot |-> IF behind THEN seen[r].snap ELSE NoSnapshot,
             frames   |-> Above(frames, IF behind THEN seen[r].snap.floor
                                                  ELSE args[r].since),
             head     |-> seen[r].head ]))
      /\ UNCHANGED <<snap, frames, args, log, raised>>

Respond(r) ==
  /\ pc[r] = "done"
  /\ Goto(r, "idle")
  /\ args' = [args EXCEPT ![r] = NoArgs]
  /\ reply' = [reply EXCEPT ![r] = Abstract!NoReply]
  /\ raised' = [raised EXCEPT ![r] = FALSE]
  /\ UNCHANGED <<snap, frames, lock, seen, log>>

Next ==
  \/ \E r \in Req, a \in Args : Call(r, a)
  \/ \E r \in Req :
       \/ Begin(r) \/ ReadHead(r) \/ ReadFloor(r) \/ CommitUpdate(r)
       \/ CommitSnapshot(r) \/ Abort(r) \/ Respond(r)
       \/ LoadSnapshot(r) \/ LoadHead(r) \/ LoadFrames(r)

Spec == Init /\ [][Next]_vars

-----------------------------------------------------------------------------
Labels == {"idle", "begin", "head", "floor", "insert", "upsert",
           "loadSnapshot", "loadHead", "loadFrames", "done"}
Seqs == Nat
StoredFrame == [seq : Seqs, data : Data]
StoredSnapshot == {NoSnapshot} \union [seq : Seqs, floor : Seqs, data : Data]

(* The shapes of the tables and of every call's locals.                     *)
TypeOK ==
  /\ snap \in StoredSnapshot
  /\ frames \subseteq StoredFrame
  /\ lock \in Req \union {Nobody}
  /\ pc \in [Req -> Labels]
  /\ args \in [Req -> Args \union {NoArgs}]
  /\ seen \in [Req -> [snap : StoredSnapshot, head : Seqs]]
  /\ \A r \in Req :
       reply[r].kind \in {"none", "error", "stale", "frame", "log"}
  /\ log \in Seq([kind : {"update", "snapshot"}, data : Data])
  /\ raised \in [Req -> BOOLEAN]

(* The tables hold every update above the floor as it was committed, and    *)
(* nothing else.                                                            *)
TailRetained == frames = {u \in Abstract!Updates : u.seq > snap.floor}

(* The writers' half of the Store interface holds.                          *)
ImplementsWriters == Abstract!WriteSpec

(* The updates a finished Load claims to cover (they are above the caller's *)
(* position and not above the returned head) but does not deliver.          *)
Missing(r) ==
  {u \in Abstract!Updates :
     /\ args[r].since < u.seq
     /\ u.seq <= reply[r].log.head
     /\ u \notin reply[r].log.frames
     /\ u.seq > reply[r].log.snapshot.floor}

Loaded(r) == reply[r].kind = "log"

(* Package doc: a Load returns the snapshot "plus every frame the caller is *)
(* missing".  The three statements are not one transaction, so this fails.  *)
LoadComplete == \A r \in Req : Loaded(r) => Missing(r) = {}

(* What does hold: a Load misses an update only if a compaction committed   *)
(* while it was under way, and only updates the retained snapshot is said   *)
(* to incorporate, so that loading again from 0 gets them.                  *)
TornLoadOnlyByCompaction ==
  \A r \in Req :
    Loaded(r) => /\ Missing(r) # {} => raised[r]
                 /\ \A u \in Missing(r) : u.seq <= snap.floor
=============================================================================
