------------------------------ MODULE FrameLog ------------------------------
(***************************************************************************)
(* The per-file frame log of backend/updatelog: the pure rules that the    *)
(* filesystem store and the Postgres store share.  A log is what survives  *)
(* on the server for one document:                                         *)
(*                                                                         *)
(*   frames - the update frames present, a set of [seq, data];             *)
(*   snap   - the one retained snapshot, [seq, floor, data]: the whole     *)
(*            state of the document as its poster saw it, said to          *)
(*            incorporate every frame with seq <= floor.                   *)
(*                                                                         *)
(* A frame's data is opaque to the server, so it stays a parameter here.   *)
(* Sequence numbers start at 1, so the snapshot with seq 0 is "none".      *)
(***************************************************************************)
EXTENDS Integers, FiniteSetsExt

(* readSnapshot's nil.  The comparisons the code makes on a missing         *)
(* snapshot without asking for nil (head starts at 0, floor starts at 0)    *)
(* come out the same for this record.                                       *)
NoSnapshot == [seq |-> 0, floor |-> 0, data |-> {}]

UpdateFrame(seq, data) == [seq |-> seq, data |-> data]

Snapshot(seq, floor, data) == [seq |-> seq, floor |-> floor, data |-> data]

-----------------------------------------------------------------------------
(* Mutated form of HeadSeq: the snapshot's own seq is forgotten, so a log   *)
(* pruned down to its snapshot starts numbering again.                      *)
HeadSeqIgnoringSnapshot(snap, frames) == Max({0} \union {f.seq : f \in frames})

(* headLocked: the highest seq ever assigned, recomputed from what is kept. *)
HeadSeq(snap, frames) == Max({snap.seq} \union {f.seq : f \in frames})

(* Mutated form of ClampFloor: a negative floor is let through.             *)
ClampFloorToHead(floor, head) == IF floor > head THEN head ELSE floor

(* Clamp to what actually exists: a snapshot can only incorporate seqs      *)
(* already assigned.                                                        *)
ClampFloor(floor, head) ==
  IF floor < 0 THEN 0 ELSE IF floor > head THEN head ELSE floor

(* Mutated form of Stale: an equal floor is taken for a regression too.     *)
StaleOrEqual(snap, floor) == snap.seq # 0 /\ floor <= snap.floor

(* Mutated form of Stale: every floor is taken.                             *)
StaleNever(snap, floor) == FALSE

(* A snapshot whose floor is below the retained one is refused.             *)
Stale(snap, floor) == snap.seq # 0 /\ floor < snap.floor

Above(frames, low) == {f \in frames : f.seq > low}

(* Pending: the un-compacted tail.                                          *)
Pending(snap, frames) == Cardinality(Above(frames, snap.floor))

(* Mutated form of LoadAnswer: the snapshot is handed over, but the frames  *)
(* are cut off at the snapshot's own seq instead of at its floor.           *)
LoadAnswerAboveSnapshot(snap, frames, since) ==
  LET behind == since < snap.floor
  IN  [ snapshot |-> IF behind THEN snap ELSE NoSnapshot,
        frames   |-> Above(frames, IF behind THEN snap.seq ELSE since),
        head     |-> HeadSeq(snap, frames) ]

(* Load(since): a caller behind the floor gets the snapshot and every frame *)
(* above the floor; a caller at or past it gets only its missing tail.      *)
LoadAnswer(snap, frames, since) ==
  LET behind == since < snap.floor
  IN  [ snapshot |-> IF behind THEN snap ELSE NoSnapshot,
        frames   |-> Above(frames, IF behind THEN snap.floor ELSE since),
        head     |-> HeadSeq(snap, frames) ]

=============================================================================
