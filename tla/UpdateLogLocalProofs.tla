------------------------ MODULE UpdateLogLocalProofs ------------------------
(***************************************************************************)
(* Theorems about UpdateLogLocal, for every set of callers and payloads,   *)
(* every floor and position and every bound.                               *)
(***************************************************************************)
EXTENDS UpdateLogLocal, TLAPS

(* A set of integers has one maximum: a member above all others.            *)
LEMMA MaxIs ==
  ASSUME NEW S, S \subseteq Int, NEW m \in S, \A x \in S : x <= m
  PROVE  Max(S) = m
<1>1. \A y \in S : m >= y
  OBVIOUS
<1>2. /\ Max(S) \in S
      /\ \A y \in S : Max(S) >= y
  BY <1>1 DEF Max
<1>3. Max(S) \in Int /\ m \in Int /\ Max(S) >= m /\ Max(S) <= m
  BY <1>2
<1> QED
  BY <1>3

(* ClampFloor stays between 0 and the head.                                 *)
LEMMA ClampBounds ==
  ASSUME NEW f \in Int, NEW h \in Nat
  PROVE  ClampFloor(f, h) \in Nat /\ ClampFloor(f, h) <= h
BY DEF ClampFloor

-----------------------------------------------------------------------------
Log == Seq([kind : {"update", "snapshot"}, data : Data])

(* The recomputed head is the number of entries, given the two facts about  *)
(* the directory that bound it from both sides.                             *)
LEMMA HeadIs ==
  ASSUME TypeOK, HighestOnDisk
  PROVE  HeadSeq(snap, frames) = Len(log)
<1> DEFINE S == {snap.seq} \union {f.seq : f \in frames}
<1>1. snap.seq \in Nat /\ \A f \in frames : f.seq \in Nat
  BY DEF TypeOK, StoredSnapshot, StoredFrame, Seqs, NoSnapshot
<1>2. S \subseteq Int /\ Len(log) \in S /\ \A x \in S : x <= Len(log)
  BY <1>1 DEF HighestOnDisk
<1>3. Max(S) = Len(log)
  BY <1>2, MaxIs
<1> QED
  BY <1>3 DEF HeadSeq

(* Recording a snapshot in the history adds no update.                      *)
LEMMA UpdatesAfterSnapshot ==
  ASSUME log \in Log, NEW d \in Data,
         log' = Append(log, Abstract!Entry("snapshot", d))
  PROVE  Abstract!Updates' = Abstract!Updates
<1>1. /\ Len(log') = Len(log) + 1 /\ DOMAIN log' = 1..(Len(log) + 1)
      /\ DOMAIN log = 1..Len(log) /\ Len(log) \in Nat
      /\ \A i \in 1..Len(log) : log'[i] = log[i]
      /\ log'[Len(log) + 1].kind = "snapshot"
  BY DEF Abstract!Entry, Log
<1>2. {j \in DOMAIN log' : log'[j].kind = "update"}
        = {j \in DOMAIN log : log[j].kind = "update"}
  BY <1>1
<1> QED
  BY <1>1, <1>2 DEF Abstract!Updates, Abstract!UpdateFrame

(* Recording an update adds exactly its frame, under the next seq.          *)
LEMMA UpdatesAfterUpdate ==
  ASSUME log \in Log, NEW d \in Data,
         log' = Append(log, Abstract!Entry("update", d))
  PROVE  Abstract!Updates'
           = Abstract!Updates \union {UpdateFrame(Len(log) + 1, d)}
<1>1. /\ Len(log') = Len(log) + 1 /\ DOMAIN log' = 1..(Len(log) + 1)
      /\ DOMAIN log = 1..Len(log) /\ Len(log) \in Nat
      /\ \A i \in 1..Len(log) : log'[i] = log[i]
      /\ log'[Len(log) + 1] = [kind |-> "update", data |-> d]
  BY DEF Abstract!Entry, Log
<1>2. {j \in DOMAIN log' : log'[j].kind = "update"}
        = {j \in DOMAIN log : log[j].kind = "update"} \union {Len(log) + 1}
  BY <1>1
<1> QED
  BY <1>1, <1>2 DEF Abstract!Updates, Abstract!UpdateFrame, UpdateFrame

(* Every frame of the history carries a seq between 1 and its length.       *)
LEMMA UpdatesBounded ==
  ASSUME log \in Log
  PROVE  \A u \in Abstract!Updates :
           u.seq \in 1..Len(log) /\ u \in StoredFrame
<1>1. /\ DOMAIN log = 1..Len(log) /\ Len(log) \in Nat
      /\ \A i \in 1..Len(log) : log[i].data \in Data
  <2> DEFINE R == [kind : {"update", "snapshot"}, data : Data]
  <2>1. log \in Seq(R)
    BY DEF Log
  <2> HIDE DEF R
  <2>2. /\ DOMAIN log = 1..Len(log) /\ Len(log) \in Nat
        /\ \A i \in 1..Len(log) : log[i] \in R
    BY <2>1
  <2> QED
    BY <2>2 DEF R
<1>2. TAKE u \in Abstract!Updates
<1>3. PICK i \in 1..Len(log) : u = [seq |-> i, data |-> log[i].data]
  BY <1>1, <1>2 DEF Abstract!Updates, Abstract!UpdateFrame
<1> QED
  BY <1>1, <1>3 DEF StoredFrame, Seqs

-----------------------------------------------------------------------------
(* An empty directory and no call in progress.                              *)
LEMMA InitIInv == Init => IInv
<1> SUFFICES ASSUME Init PROVE IInv
  OBVIOUS
<1>1. TypeOK
  <2>1. reply \in [Req -> Replies]
    BY DEF Init, Replies
  <2>2. seen \in [Req -> [snap : StoredSnapshot, frames : SUBSET StoredFrame]]
    BY DEF Init, NothingSeen, StoredSnapshot
  <2> QED
    BY <2>1, <2>2 DEF Init, TypeOK, StoredSnapshot, Labels
<1>2. LockOwned /\ ViewCurrent /\ CallMatches /\ PruneSafe
  BY LocalAssumption DEF Init, LockOwned, ViewCurrent, CallMatches, PruneSafe
<1>3. HighestOnDisk /\ FloorBelowSnapshot
  BY DEF Init, HighestOnDisk, FloorBelowSnapshot, NoSnapshot
<1>4. TailRetained
  <2>1. Abstract!Updates = {}
    BY DEF Init, Abstract!Updates
  <2> QED
    BY <2>1 DEF Init, TailRetained
<1> QED
  BY <1>1, <1>2, <1>3, <1>4 DEF IInv

(* A call arrives.                                                          *)
LEMMA CallKeeps ==
  ASSUME IInv, NEW r \in Req, NEW a \in Args, Call(r, a)
  PROVE  IInv'
<1>1. TypeOK'
  BY DEF IInv, TypeOK, Call, Goto, Labels
<1>2. LockOwned' /\ ViewCurrent' /\ PruneSafe'
  BY DEF IInv, TypeOK, LockOwned, ViewCurrent, PruneSafe, Call, Goto
<1>3. CallMatches'
  BY DEF IInv, TypeOK, CallMatches, Call, Goto
<1>4. HighestOnDisk' /\ FloorBelowSnapshot' /\ TailRetained'
  BY DEF IInv, HighestOnDisk, FloorBelowSnapshot, TailRetained, Call,
         Abstract!Updates
<1> QED
  BY <1>1, <1>2, <1>3, <1>4 DEF IInv

(* The mutex is taken only when free, and snapshot.json read under it.      *)
LEMMA LockKeeps ==
  ASSUME IInv, NEW r \in Req, Lock(r)
  PROVE  IInv'
<1>1. TypeOK'
  BY DEF IInv, TypeOK, Lock, Goto, Labels
<1>2. LockOwned'
  BY LocalAssumption DEF IInv, TypeOK, LockOwned, Lock, Goto
<1>3. ViewCurrent' /\ CallMatches' /\ PruneSafe'
  BY DEF IInv, TypeOK, ViewCurrent, CallMatches, PruneSafe, Lock, Goto
<1>4. HighestOnDisk' /\ FloorBelowSnapshot' /\ TailRetained'
  BY DEF IInv, HighestOnDisk, FloorBelowSnapshot, TailRetained, Lock,
         Abstract!Updates
<1> QED
  BY <1>1, <1>2, <1>3, <1>4 DEF IInv

(* Reading the frames completes the view of an Append.                      *)
LEMMA ListKeeps ==
  ASSUME IInv, NEW r \in Req, List(r)
  PROVE  IInv'
<1>1. args[r].op \in {"update", "snapshot"} /\ args[r] \in Args
  BY DEF IInv, CallMatches, List, Args, UpdateArgs, SnapshotArgs, LoadArgs
<1>2. TypeOK'
  BY <1>1 DEF IInv, TypeOK, List, Goto, Labels
<1>3. LockOwned' /\ PruneSafe'
  BY <1>1 DEF IInv, TypeOK, LockOwned, PruneSafe, List, Goto
<1>4. ViewCurrent'
  BY <1>1 DEF IInv, TypeOK, ViewCurrent, List, Goto
<1>5. CallMatches'
  BY <1>1 DEF IInv, TypeOK, CallMatches, List, Goto,
              Args, UpdateArgs, SnapshotArgs, LoadArgs
<1>6. HighestOnDisk' /\ FloorBelowSnapshot' /\ TailRetained'
  BY DEF IInv, HighestOnDisk, FloorBelowSnapshot, TailRetained, List,
         Abstract!Updates
<1> QED
  BY <1>2, <1>3, <1>4, <1>5, <1>6 DEF IInv

(* Giving up the mutex disturbs neither the disk nor another call's view.   *)
LEMMA ReturnKeeps ==
  ASSUME IInv, NEW r \in Req, mu = r, NEW value \in Replies, Return(r, value),
         seen' = [seen EXCEPT ![r] = NothingSeen] \/ seen' = seen,
         UNCHANGED <<snap, frames, args, todo, log>>
  PROVE  IInv'
<1>1. TypeOK'
  BY DEF IInv, TypeOK, Return, Goto, Labels, NothingSeen, StoredSnapshot
<1>2. LockOwned'
  BY LocalAssumption DEF IInv, TypeOK, LockOwned, Return, Goto
<1>3. ViewCurrent'
  BY DEF IInv, TypeOK, ViewCurrent, Return, Goto
<1>4. CallMatches' /\ PruneSafe'
  BY DEF IInv, TypeOK, CallMatches, PruneSafe, Return, Goto
<1>5. HighestOnDisk' /\ FloorBelowSnapshot' /\ TailRetained'
  BY DEF IInv, HighestOnDisk, FloorBelowSnapshot, TailRetained,
         Abstract!Updates
<1> QED
  BY <1>1, <1>2, <1>3, <1>4, <1>5 DEF IInv

(* A Load's answer has the shape the callers expect.                        *)
LEMMA LoadKeeps ==
  ASSUME IInv, NEW r \in Req, Load(r)
  PROVE  IInv'
<1> DEFINE answer == LoadAnswer(seen[r].snap, frames, args[r].since)
<1>1. mu = r /\ seen[r].snap = snap
  BY DEF IInv, LockOwned, ViewCurrent, Load
<1>2. HeadSeq(snap, frames) \in Nat
  BY HeadIs DEF IInv, TypeOK
<1>3. answer \in Answer
  BY <1>1, <1>2 DEF LoadAnswer, Answer, Above, IInv, TypeOK, StoredSnapshot, Seqs
<1>4. Abstract!LogReply(answer) \in Replies
  BY <1>3 DEF Abstract!LogReply, Replies
<1> QED
  BY <1>1, <1>4, ReturnKeeps DEF Load

(* The mutex holder gives up without having written.                        *)
LEMMA RejectStaleKeeps ==
  ASSUME IInv, NEW r \in Req, RejectStale(r)
  PROVE  IInv'
<1>1. mu = r /\ Abstract!StaleReply \in Replies
  BY DEF IInv, LockOwned, RejectStale, Replies
<1> QED
  BY <1>1, ReturnKeeps DEF RejectStale

(* Nor does a failed write leave anything behind.                           *)
LEMMA FileErrorKeeps ==
  ASSUME IInv, NEW r \in Req, FileError(r)
  PROVE  IInv'
<1>1. mu = r /\ Abstract!Failed \in Replies
  BY DEF IInv, LockOwned, FileError, Replies
<1> QED
  BY <1>1, ReturnKeeps DEF FileError

(* All subsumed frames were tried.                                          *)
LEMMA PrunedKeeps ==
  ASSUME IInv, NEW r \in Req, Pruned(r)
  PROVE  IInv'
<1>1. mu = r /\ reply[r] \in Replies
  BY DEF IInv, TypeOK, LockOwned, Pruned
<1> QED
  BY <1>1, ReturnKeeps DEF Pruned

(* The next seq is one past the history, and a clamped floor is within it.  *)
LEMMA NextSeqIs ==
  ASSUME IInv, NEW r \in Req, pc[r] \in {"update", "snapshot"}
  PROVE  /\ NextSeq(r) = Len(log) + 1
         /\ args[r].data \in Data
         /\ Len(log) \in Nat
         /\ pc[r] = "snapshot" => Floor(r) \in Nat /\ Floor(r) <= Len(log)
<1>1. seen[r].snap = snap /\ seen[r].frames = frames
  BY DEF IInv, ViewCurrent
<1>2. HeadSeq(seen[r].snap, seen[r].frames) = Len(log)
  BY <1>1, HeadIs DEF IInv
<1>3. Len(log) \in Nat
  BY DEF IInv, TypeOK
<1>4. args[r] \in UpdateArgs \union SnapshotArgs
      /\ (pc[r] = "snapshot" => args[r].floor \in Int)
  BY LocalAssumption DEF IInv, CallMatches, SnapshotArgs
<1> QED
  BY <1>2, <1>3, <1>4, ClampBounds
  DEF NextSeq, Floor, UpdateArgs, SnapshotArgs

(* A new frame is the new highest entry, and no frame had its name.         *)
LEMMA WriteFrameKeeps ==
  ASSUME IInv, NEW r \in Req, WriteFrame(r)
  PROVE  IInv'
<1> DEFINE n == Len(log) + 1
           new == UpdateFrame(n, args[r].data)
<1>1. /\ NextSeq(r) = n /\ n \in Nat /\ Len(log) = n - 1
      /\ args[r].data \in Data /\ log \in Log
  BY NextSeqIs DEF WriteFrame, IInv, TypeOK, Log
<1>2. mu = r
  BY DEF IInv, LockOwned, WriteFrame
<1>3. \A f \in frames : f.seq < n /\ f \in StoredFrame
  BY <1>1, UpdatesBounded DEF IInv, TypeOK, TailRetained
<1>4. frames' = frames \union {new}
  BY <1>1, <1>3 DEF WriteFrame, StoredFrame, Seqs
<1>5. /\ log' = Append(log, Abstract!Entry("update", args[r].data))
      /\ log' \in Log /\ Len(log') = n
  BY <1>1 DEF WriteFrame, Log, Abstract!Entry
<1>6. new \in StoredFrame /\ new.seq = n
  BY <1>1 DEF UpdateFrame, StoredFrame, Seqs
<1>7. reply' \in [Req -> Replies]
  BY <1>1 DEF IInv, TypeOK, WriteFrame, Return, Replies, Abstract!FrameReply, Seqs
<1>8. TypeOK'
  BY <1>4, <1>5, <1>6, <1>7
  DEF IInv, TypeOK, WriteFrame, Return, Goto, Labels, Log, NothingSeen,
      StoredSnapshot
<1>9. LockOwned'
  BY <1>2, LocalAssumption DEF IInv, TypeOK, LockOwned, WriteFrame, Return, Goto
<1>10. ViewCurrent'
  <2>1. \A q \in Req \ {r} : pc[q] \notin {"list", "update", "snapshot"}
    BY <1>2 DEF IInv, LockOwned
  <2> QED
    BY <2>1 DEF IInv, TypeOK, ViewCurrent, WriteFrame, Return, Goto
<1>11. CallMatches' /\ PruneSafe'
  BY DEF IInv, TypeOK, CallMatches, PruneSafe, WriteFrame, Return, Goto
<1>12. HighestOnDisk' /\ FloorBelowSnapshot'
  <2>1. snap' = snap /\ snap.seq <= Len(log) /\ snap.seq \in Nat
    BY DEF IInv, TypeOK, HighestOnDisk, WriteFrame, StoredSnapshot, NoSnapshot, Seqs
  <2>2. snap'.seq <= n
    BY <2>1, <1>1
  <2>3. \A f \in frames' : f.seq <= n
    BY <1>1, <1>3, <1>4, <1>6 DEF StoredFrame, Seqs
  <2>4. HighestOnDisk'
    BY <2>2, <2>3, <1>4, <1>5, <1>6 DEF HighestOnDisk
  <2> QED
    BY <2>1, <2>4 DEF IInv, FloorBelowSnapshot
<1>13. TailRetained'
  <2>1. Abstract!Updates' = Abstract!Updates \union {new}
    BY <1>1, <1>5, UpdatesAfterUpdate
  <2>2. snap' = snap
    BY DEF WriteFrame
  <2> QED
    BY <2>1, <2>2, <1>4 DEF IInv, TailRetained
<1> QED
  BY <1>8, <1>9, <1>10, <1>11, <1>12, <1>13 DEF IInv

(* A new snapshot is the new highest entry; it subsumes up to its floor,    *)
(* which is not below the old one, so what must be on disk only shrinks.    *)
LEMMA WriteSnapshotKeeps ==
  ASSUME IInv, NEW r \in Req, WriteSnapshot(r)
  PROVE  IInv' /\ snap'.floor >= snap.floor
<1> DEFINE n == Len(log) + 1
<1>1. /\ NextSeq(r) = n /\ n \in Nat /\ Len(log) = n - 1
      /\ args[r].data \in Data /\ log \in Log
      /\ Floor(r) \in Nat /\ Floor(r) < n
  BY NextSeqIs DEF WriteSnapshot, IInv, TypeOK, Log
<1>2. mu = r /\ seen[r].snap = snap /\ seen[r].frames = frames
  BY DEF IInv, LockOwned, ViewCurrent, WriteSnapshot
<1>3. \A f \in frames : f.seq < n /\ f \in StoredFrame
  BY <1>1, UpdatesBounded DEF IInv, TypeOK, TailRetained
<1>4. /\ snap'.seq = n /\ snap'.floor = Floor(r)
      /\ snap' \in StoredSnapshot /\ frames' = frames
  BY <1>1 DEF WriteSnapshot, Snapshot, StoredSnapshot, Seqs
<1>5. /\ log' = Append(log, Abstract!Entry("snapshot", args[r].data))
      /\ log' \in Log /\ Len(log') = n
  BY <1>1 DEF WriteSnapshot, Log, Abstract!Entry
<1>6. snap.floor \in Nat /\ snap'.floor >= snap.floor
  <2>1. snap.seq \in Nat /\ snap.floor \in Nat /\ (snap.seq = 0 => snap.floor = 0)
    BY DEF IInv, TypeOK, FloorBelowSnapshot, StoredSnapshot, NoSnapshot, Seqs
  <2>2. ~Stale(snap, Floor(r))
    BY <1>2 DEF WriteSnapshot
  <2> QED
    BY <1>1, <1>4, <2>1, <2>2 DEF Stale
<1>7. reply' \in [Req -> Replies]
  BY <1>1 DEF IInv, TypeOK, WriteSnapshot, Replies, Abstract!FrameReply, Seqs
<1>8. todo' \in [Req -> SUBSET Nat] /\ \A s \in todo'[r] : s <= Floor(r)
  BY <1>2, <1>3 DEF IInv, TypeOK, WriteSnapshot, StoredFrame, Seqs
<1>9. TypeOK'
  BY <1>4, <1>5, <1>7, <1>8
  DEF IInv, TypeOK, WriteSnapshot, Goto, Labels, Log, NothingSeen,
      StoredSnapshot, Seqs
<1>10. LockOwned'
  BY <1>2 DEF IInv, TypeOK, LockOwned, WriteSnapshot, Goto
<1>11. ViewCurrent' /\ PruneSafe'
  <2>1. \A q \in Req \ {r} : pc[q] \notin {"list", "update", "snapshot", "prune"}
    BY <1>2 DEF IInv, LockOwned
  <2>2. ViewCurrent'
    BY <2>1 DEF IInv, TypeOK, ViewCurrent, WriteSnapshot, Goto
  <2>3. PruneSafe'
    BY <2>1, <1>4, <1>8 DEF IInv, TypeOK, PruneSafe, WriteSnapshot, Goto
  <2> QED
    BY <2>2, <2>3
<1>12. CallMatches'
  BY DEF IInv, TypeOK, CallMatches, WriteSnapshot, Goto
<1>13. HighestOnDisk' /\ FloorBelowSnapshot'
  BY <1>1, <1>3, <1>4, <1>5
  DEF HighestOnDisk, FloorBelowSnapshot, StoredFrame, Seqs
<1>14. TailRetained'
  <2>1. Abstract!Updates' = Abstract!Updates
    BY <1>1, <1>5, UpdatesAfterSnapshot
  <2>2. \A u \in Abstract!Updates : u.seq \in Nat
    BY <1>1, UpdatesBounded
  <2>3. \A u \in Abstract!Updates : u.seq > snap'.floor => u.seq > snap.floor
    BY <2>2, <1>1, <1>4, <1>6
  <2> QED
    BY <2>1, <2>3, <1>4 DEF IInv, TailRetained
<1> QED
  BY <1>6, <1>9, <1>10, <1>11, <1>12, <1>13, <1>14 DEF IInv

(* Only subsumed frames are unlinked, and those are below the snapshot.     *)
LEMMA PruneKeeps ==
  ASSUME IInv, NEW r \in Req, Prune(r)
  PROVE  /\ IInv'
         /\ snap' = snap
         /\ \A f \in frames \ frames' : f.seq <= snap.floor
<1>1. PICK seq \in todo[r] :
        /\ todo' = [todo EXCEPT ![r] = @ \ {seq}]
        /\ frames' = {f \in frames : f.seq # seq} \/ frames' = frames
  BY DEF Prune
<1>2. mu = r /\ seq <= snap.floor /\ seq \in Nat
  BY DEF IInv, TypeOK, LockOwned, PruneSafe, Prune, Seqs
<1>3. UNCHANGED <<snap, mu, pc, args, seen, reply, log>>
  BY DEF Prune
<1>4. /\ frames' \subseteq frames
      /\ \A f \in frames \ frames' : f.seq <= snap.floor
      /\ \A f \in frames : f.seq > snap.floor => f \in frames'
  <2>1. snap.floor \in Nat /\ \A f \in frames : f.seq \in Nat
    BY DEF IInv, TypeOK, StoredSnapshot, NoSnapshot, StoredFrame, Seqs
  <2> QED
    BY <2>1, <1>1, <1>2
<1>5. TypeOK' /\ LockOwned' /\ CallMatches'
  BY <1>1, <1>3, <1>4 DEF IInv, TypeOK, LockOwned, CallMatches
<1>6. ViewCurrent'
  <2>1. \A q \in Req : pc[q] \notin {"update", "snapshot"}
    BY <1>2 DEF IInv, LockOwned, Prune
  <2> QED
    BY <2>1, <1>3 DEF IInv, ViewCurrent
<1>7. PruneSafe'
  BY <1>1, <1>3 DEF IInv, TypeOK, PruneSafe
<1>8. HighestOnDisk' /\ FloorBelowSnapshot'
  <2>1. /\ snap.floor \in Nat /\ snap.seq \in Nat /\ Len(log) \in Nat
        /\ \A f \in frames : f.seq \in Nat /\ f.seq >= 1
    BY UpdatesBounded
    DEF IInv, TypeOK, TailRetained, StoredSnapshot, NoSnapshot, StoredFrame,
        Seqs, Log
  <2>2. CASE snap.seq = Len(log)
    BY <2>2, <1>3, <1>4 DEF IInv, HighestOnDisk, FloorBelowSnapshot
  <2>3. CASE \E f \in frames : f.seq = Len(log) /\ snap.seq < Len(log)
    <3>1. PICK f \in frames : f.seq = Len(log)
      BY <2>3
    <3>2. f.seq > snap.floor
      BY <2>1, <2>3, <3>1 DEF IInv, FloorBelowSnapshot
    <3> QED
      BY <3>1, <3>2, <1>3, <1>4 DEF IInv, HighestOnDisk, FloorBelowSnapshot
  <2> QED
    BY <2>1, <2>2, <2>3 DEF IInv, HighestOnDisk
<1>9. TailRetained'
  BY <1>3, <1>4 DEF IInv, TailRetained, Abstract!Updates
<1> QED
  BY <1>3, <1>4, <1>5, <1>6, <1>7, <1>8, <1>9 DEF IInv

(* The caller gets its response, or has gone away.                          *)
LEMMA RespondKeeps ==
  ASSUME IInv, NEW r \in Req, Respond(r)
  PROVE  IInv'
<1>1. TypeOK'
  BY DEF IInv, TypeOK, Respond, Goto, Labels, Replies
<1>2. LockOwned' /\ ViewCurrent' /\ CallMatches' /\ PruneSafe'
  BY DEF IInv, TypeOK, LockOwned, ViewCurrent, CallMatches, PruneSafe,
         Respond, Goto
<1>3. HighestOnDisk' /\ FloorBelowSnapshot' /\ TailRetained'
  BY DEF IInv, HighestOnDisk, FloorBelowSnapshot, TailRetained, Respond,
         Abstract!Updates
<1> QED
  BY <1>1, <1>2, <1>3 DEF IInv

(* After a crash nobody is in a call, so only the disk has to be right.     *)
LEMMA CrashKeeps ==
  ASSUME IInv, Crash
  PROVE  IInv'
<1>1. TypeOK'
  BY DEF IInv, TypeOK, Crash, Labels, Replies, NothingSeen, StoredSnapshot
<1>2. LockOwned' /\ ViewCurrent' /\ CallMatches' /\ PruneSafe'
  BY LocalAssumption
  DEF IInv, LockOwned, ViewCurrent, CallMatches, PruneSafe, Crash
<1>3. HighestOnDisk' /\ FloorBelowSnapshot' /\ TailRetained'
  BY DEF IInv, HighestOnDisk, FloorBelowSnapshot, TailRetained, Crash,
         Abstract!Updates
<1> QED
  BY <1>1, <1>2, <1>3 DEF IInv

(* And a step of somebody else.                                             *)
LEMMA StutterKeeps == IInv /\ UNCHANGED vars => IInv'
BY DEF IInv, TypeOK, LockOwned, ViewCurrent, CallMatches, HighestOnDisk,
       FloorBelowSnapshot, PruneSafe, TailRetained, Abstract!Updates, vars

-----------------------------------------------------------------------------
(* The invariant is inductive.                                              *)
LEMMA NextKeepsIInv == IInv /\ [Next]_vars => IInv'
<1> SUFFICES ASSUME IInv, [Next]_vars PROVE IInv'
  OBVIOUS
<1>1. CASE \E r \in Req, a \in Args : Call(r, a)
  BY <1>1, CallKeeps
<1>2. CASE \E r \in Req : Step(r)
  <2> PICK r \in Req : Step(r)
    BY <1>2
  <2> QED
    BY LockKeeps, ListKeeps, LoadKeeps, WriteFrameKeeps, RejectStaleKeeps,
       WriteSnapshotKeeps, FileErrorKeeps, PruneKeeps, PrunedKeeps,
       RespondKeeps DEF Step
<1>3. CASE Crash
  BY <1>3, CrashKeeps
<1>4. CASE UNCHANGED vars
  BY <1>4, StutterKeeps
<1> QED
  BY <1>1, <1>2, <1>3, <1>4 DEF Next

(* The inductive invariant holds of every execution.                        *)
THEOREM Invariance == Spec => []IInv
BY InitIInv, NextKeepsIInv, PTL DEF Spec

(* The disk and every handler's locals keep their shapes.                   *)
THEOREM TypeCorrect == Spec => []TypeOK
<1>1. IInv => TypeOK
  BY DEF IInv
<1> QED
  BY <1>1, Invariance, PTL

(* headLocked of updatelog.go, which recomputes the head from whatever the  *)
(* directory holds, never forgets an assigned seq: whatever the order of    *)
(* calls, failed unlinks and crashes, it equals the number of entries made  *)
(* durable, so no seq is ever assigned twice.                               *)
THEOREM HeadCorrect == Spec => []HeadNeverLost
<1>1. IInv => HeadNeverLost
  BY HeadIs DEF IInv, HeadNeverLost
<1> QED
  BY <1>1, Invariance, PTL

(* The package doc's "preserved" clause: every accepted update above the    *)
(* retained snapshot's floor is on disk unchanged.                          *)
THEOREM TailCorrect == Spec => []TailRetained
<1>1. IInv => TailRetained
  BY DEF IInv
<1> QED
  BY <1>1, Invariance, PTL

-----------------------------------------------------------------------------
(* A new frame displaces none: its name is not on disk yet.                 *)
LEMMA WriteFrameAdds ==
  ASSUME IInv, NEW r \in Req, WriteFrame(r)
  PROVE  /\ frames' = frames \union {UpdateFrame(Len(log) + 1, args[r].data)}
         /\ snap' = snap
<1>1. NextSeq(r) = Len(log) + 1 /\ Len(log) \in Nat /\ log \in Log
  BY NextSeqIs DEF WriteFrame, IInv, TypeOK, Log
<1>2. \A f \in frames : f.seq < Len(log) + 1 /\ f.seq \in Nat
  BY <1>1, UpdatesBounded DEF IInv, TailRetained
<1> QED
  BY <1>1, <1>2 DEF WriteFrame

(* The floor of the retained snapshot never goes down, and only frames at   *)
(* or below it are ever unlinked: whoever snapshots, in whatever order.     *)
THEOREM NeverRegresses == Spec => CompactionNeverRegresses
<1> DEFINE Allowed == /\ snap'.floor >= snap.floor
                      /\ \A f \in frames \ frames' : f.seq <= snap'.floor
<1>1. IInv /\ [Next]_vars => [Allowed]_disk
  <2> SUFFICES ASSUME IInv, [Next]_vars, ~ UNCHANGED disk
               PROVE  Allowed
    OBVIOUS
  <2>1. snap.floor \in Nat
    BY DEF IInv, TypeOK, StoredSnapshot, NoSnapshot, Seqs
  <2>2. PICK r \in Req : WriteFrame(r) \/ WriteSnapshot(r) \/ Prune(r)
    BY DEF Next, Step, vars, disk, Call, Crash, Lock, List, Load, RejectStale,
           FileError, Pruned, Respond
  <2>3. CASE WriteFrame(r)
    BY <2>1, <2>3, WriteFrameAdds
  <2>4. CASE WriteSnapshot(r)
    BY <2>4, WriteSnapshotKeeps DEF WriteSnapshot
  <2>5. CASE Prune(r)
    BY <2>1, <2>5, PruneKeeps
  <2> QED
    BY <2>2, <2>3, <2>4, <2>5
<1> QED
  BY <1>1, Invariance, PTL DEF Spec, CompactionNeverRegresses

-----------------------------------------------------------------------------
(* The reply a caller holds, as the abstract store sees it.                 *)
Out == [r \in Req |-> IF pc[r] \in {"prune", "done"}
                        THEN reply[r] ELSE [kind |-> "none"]]

(* Load hands over exactly the accepted updates the caller is owed: the     *)
(* frames of the directory that are not subsumed are the accepted updates   *)
(* above the floor, and a subsumed leftover is never above the bound.       *)
LEMMA LoadAnswerIs ==
  ASSUME IInv, NEW since \in Nat
  PROVE  LoadAnswer(snap, frames, since)
           = [ snapshot |-> IF since < snap.floor THEN snap ELSE NoSnapshot,
               frames   |-> {u \in Abstract!Updates :
                               u.seq > since /\ u.seq > snap.floor},
               head     |-> Len(log) ]
<1> DEFINE low == IF since < snap.floor THEN snap.floor ELSE since
<1>1. HeadSeq(snap, frames) = Len(log)
  BY HeadIs DEF IInv
<1>2. snap.floor \in Nat /\ \A u \in Abstract!Updates : u.seq \in Nat
  BY UpdatesBounded DEF IInv, TypeOK, Log, StoredSnapshot, NoSnapshot, Seqs
<1>3. Above(frames, low)
        = {u \in Abstract!Updates : u.seq > since /\ u.seq > snap.floor}
  BY <1>2 DEF IInv, TailRetained, Above
<1> QED
  BY <1>1, <1>3 DEF LoadAnswer

(* When r's call returns value, the abstract caller r gets that reply and   *)
(* the others keep theirs.                                                  *)
LEMMA OutAfter ==
  ASSUME IInv, NEW r \in Req, NEW value, pc[r] \notin {"prune", "done"},
         \E label \in {"prune", "done"} : pc' = [pc EXCEPT ![r] = label],
         reply' = [reply EXCEPT ![r] = value]
  PROVE  /\ Out[r] = Abstract!NoReply
         /\ Out' = [Out EXCEPT ![r] = value]
BY DEF IInv, TypeOK, Out, Abstract!NoReply

(* A call that has not reached its reply yet, or keeps it, changes nothing  *)
(* the abstract store shows.                                                *)
LEMMA OutUnchanged ==
  ASSUME IInv, NEW r \in Req, NEW label \in Labels,
         pc' = [pc EXCEPT ![r] = label], reply' = reply,
         label \in {"prune", "done"} <=> pc[r] \in {"prune", "done"}
  PROVE  Out' = Out
BY DEF IInv, TypeOK, Out

(* One step of the filesystem store is one step of the abstract one, or     *)
(* none: locking, listing and unlinking are invisible.                      *)
LEMMA StepRefines == IInv /\ [Next]_vars => [Abstract!Next]_(Abstract!vars)
<1> USE DEF Out
<1> SUFFICES ASSUME IInv, [Next]_vars
             PROVE  Abstract!Next \/ UNCHANGED <<log, snap, Out>>
  BY DEF Abstract!vars
<1>1. ASSUME NEW r \in Req, NEW a \in Args, Call(r, a)
      PROVE  UNCHANGED <<log, snap, Out>>
  BY <1>1, OutUnchanged DEF Call, Goto, Labels
<1>2. ASSUME NEW r \in Req, Lock(r) \/ List(r)
      PROVE  UNCHANGED <<log, snap, Out>>
  <2>1. CASE Lock(r)
    BY <2>1, OutUnchanged DEF Lock, Goto, Labels
  <2>2. CASE List(r)
    <3>1. args[r].op \in {"update", "snapshot"}
      BY <2>2 DEF IInv, CallMatches, List, Args, UpdateArgs, SnapshotArgs, LoadArgs
    <3> QED
      BY <3>1, <2>2, OutUnchanged DEF List, Goto, Labels
  <2> QED
    BY <1>2, <2>1, <2>2
<1>3. ASSUME NEW r \in Req, Prune(r) \/ Pruned(r)
      PROVE  UNCHANGED <<log, snap, Out>>
  <2>1. CASE Prune(r)
    BY <2>1 DEF Prune
  <2>2. CASE Pruned(r)
    <3>1. reply' = reply
      BY <2>2 DEF Pruned, Return, IInv, TypeOK
    <3> QED
      BY <3>1, <2>2, OutUnchanged DEF Pruned, Return, Goto, Labels
  <2> QED
    BY <1>3, <2>1, <2>2
<1>4. ASSUME NEW r \in Req, Load(r)
      PROVE  \E s \in SinceArg : Abstract!Load(r, s)
  <2>1. args[r].since \in SinceArg
    BY <1>4 DEF IInv, CallMatches, Load, Args, UpdateArgs, SnapshotArgs, LoadArgs
  <2>2. PICK s \in SinceArg : s = args[r].since
    BY <2>1
  <2>3. seen[r].snap = snap /\ s \in Nat
    BY <1>4, <2>2, LocalAssumption DEF IInv, ViewCurrent, Load
  <2>4. Abstract!Load(r, s)
    BY <1>4, <2>2, <2>3, LoadAnswerIs, OutAfter
    DEF Load, Return, Goto, Abstract!Load, Abstract!NoSnapshot, NoSnapshot
  <2> QED
    BY <2>4
<1>5. ASSUME NEW r \in Req, WriteFrame(r)
      PROVE  \E d \in Data : Abstract!AppendUpdate(r, d)
  <2>1. PICK d \in Data : d = args[r].data
    BY <1>5, NextSeqIs DEF WriteFrame
  <2>2. Abstract!AppendUpdate(r, d)
    BY <1>5, <2>1, NextSeqIs, WriteFrameAdds, OutAfter
    DEF WriteFrame, Return, Goto, Abstract!AppendUpdate
  <2> QED
    BY <2>2
<1>6. ASSUME NEW r \in Req, pc[r] = "snapshot"
      PROVE  \E d \in Data, f \in FloorArg :
               /\ d = args[r].data /\ f = args[r].floor
               /\ NextSeq(r) = Len(log) + 1
               /\ Floor(r) = Abstract!ClampFloor(f, Len(log))
               /\ seen[r].snap = snap
               /\ snap.floor \in Nat /\ Floor(r) \in Nat
  <2>1. PICK d \in Data, f \in FloorArg : d = args[r].data /\ f = args[r].floor
    BY <1>6 DEF IInv, CallMatches, SnapshotArgs
  <2>2. /\ NextSeq(r) = Len(log) + 1 /\ Floor(r) \in Nat
        /\ seen[r].snap = snap /\ seen[r].frames = frames
    BY <1>6, NextSeqIs DEF IInv, ViewCurrent
  <2>3. Floor(r) = Abstract!ClampFloor(f, Len(log))
    BY <2>1, <2>2, HeadIs DEF IInv, Floor, ClampFloor, Abstract!ClampFloor
  <2>4. snap.floor \in Nat
    BY DEF IInv, TypeOK, StoredSnapshot, NoSnapshot, Seqs
  <2> QED
    BY <2>1, <2>2, <2>3, <2>4
<1>7. ASSUME NEW r \in Req, RejectStale(r)
      PROVE  \E f \in FloorArg : Abstract!RejectSnapshot(r, f)
  <2>1. PICK f \in FloorArg :
          /\ Floor(r) = Abstract!ClampFloor(f, Len(log))
          /\ seen[r].snap = snap
          /\ snap.floor \in Nat /\ Floor(r) \in Nat
    BY <1>7, <1>6 DEF RejectStale
  <2>2. Abstract!RejectSnapshot(r, f)
    BY <1>7, <2>1, OutAfter
    DEF RejectStale, Return, Goto, Stale, Abstract!RejectSnapshot
  <2> QED
    BY <2>2
<1>8. ASSUME NEW r \in Req, WriteSnapshot(r)
       PROVE  \E d \in Data, f \in FloorArg : Abstract!AppendSnapshot(r, d, f)
  <2>1. PICK d \in Data, f \in FloorArg :
          /\ d = args[r].data /\ f = args[r].floor
          /\ NextSeq(r) = Len(log) + 1
          /\ Floor(r) = Abstract!ClampFloor(f, Len(log))
          /\ seen[r].snap = snap
          /\ snap.floor \in Nat /\ Floor(r) \in Nat
    BY <1>8, <1>6 DEF WriteSnapshot
  <2>2. Floor(r) >= snap.floor
    <3>1. snap.seq \in Nat /\ (snap.seq = 0 => snap.floor = 0)
      BY DEF IInv, TypeOK, FloorBelowSnapshot, StoredSnapshot, NoSnapshot, Seqs
    <3> QED
      BY <1>8, <2>1, <3>1 DEF WriteSnapshot, Stale
  <2>3. /\ log' = Append(log, Abstract!Entry("snapshot", d))
        /\ snap' = Abstract!Snapshot(Len(log) + 1, Floor(r), d)
        /\ reply' = [reply EXCEPT ![r] =
                       Abstract!FrameReply(Len(log) + 1, Floor(r))]
    BY <1>8, <2>1 DEF WriteSnapshot, Snapshot, Abstract!Snapshot
  <2>4. /\ Out[r] = Abstract!NoReply
        /\ Out' = [Out EXCEPT ![r] = Abstract!FrameReply(Len(log) + 1, Floor(r))]
    BY <1>8, <2>3, OutAfter DEF WriteSnapshot, Goto
  <2>5. Abstract!AppendSnapshot(r, d, f)
    BY <2>1, <2>2, <2>3, <2>4 DEF Abstract!AppendSnapshot
  <2> QED
    BY <2>5
<1>9. ASSUME NEW r \in Req, FileError(r)
      PROVE  Abstract!Fail(r)
  BY <1>9, OutAfter DEF FileError, Return, Goto, Abstract!Fail
<1>10. ASSUME NEW r \in Req, Respond(r)
      PROVE  Abstract!Consume({r})
  BY <1>10 DEF Respond, Goto, Abstract!Consume, Abstract!NoReply, IInv, TypeOK
<1>11. ASSUME Crash
       PROVE  Abstract!Consume(Req)
  BY <1>11 DEF Crash, Abstract!Consume, Abstract!NoReply
<1>12. CASE \E r \in Req : Step(r)
  <2> HIDE DEF Out
  <2>1. PICK r \in Req : Step(r)
    BY <1>12
  <2>2. CASE Lock(r) \/ List(r) \/ Prune(r) \/ Pruned(r)
    BY <2>2, <1>2, <1>3
  <2>3. CASE Load(r)
    BY <2>3, <1>4 DEF Abstract!Next
  <2>4. CASE WriteFrame(r)
    BY <2>4, <1>5 DEF Abstract!Next, Abstract!WriteNext
  <2>5. CASE RejectStale(r)
    BY <2>5, <1>7 DEF Abstract!Next, Abstract!WriteNext
  <2>6. CASE WriteSnapshot(r)
    BY <2>6, <1>8 DEF Abstract!Next, Abstract!WriteNext
  <2>7. CASE FileError(r)
    BY <2>7, <1>9 DEF Abstract!Next, Abstract!WriteNext
  <2>8. CASE Respond(r)
    BY <2>8, <1>10 DEF Abstract!Next, Abstract!WriteNext
  <2> QED
    BY <2>1, <2>2, <2>3, <2>4, <2>5, <2>6, <2>7, <2>8 DEF Step
<1>13. CASE Crash
  BY <1>13, <1>11 DEF Abstract!Next, Abstract!WriteNext
<1>14. CASE UNCHANGED vars
  BY <1>14 DEF vars
<1> QED
  BY <1>1, <1>12, <1>13, <1>14 DEF Next

(* The filesystem store implements the Store interface: for callers it is   *)
(* an atomic keep-everything log, crashes and failed unlinks included.      *)
THEOREM Refinement == Spec => ImplementsDurableLog
<1>1. Init => Abstract!Init
  BY DEF Init, Abstract!Init, NoSnapshot, Abstract!NoSnapshot, Abstract!NoReply
<1> QED
  BY <1>1, StepRefines, Invariance, PTL
  DEF Spec, ImplementsDurableLog, Abstract!Spec

=============================================================================
