------------------------ MODULE UpdateLogPostgresProofs ------------------------
(***************************************************************************)
(* Theorems about UpdateLogPostgres, for every set of calls and payloads,  *)
(* every floor and position and every bound.  The advisory lock makes an   *)
(* Append see the head and the floor it will act on; what is left open is  *)
(* a Load, whose three statements nothing holds together.                  *)
(***************************************************************************)
EXTENDS UpdateLogPostgres, TLAPS

(* What the constants are: the ids of calls, and numbers.                  *)
Sizes == Nobody \notin Req /\ FloorArg \subseteq Int /\ SinceArg \subseteq Nat

Log == Seq([kind : {"update", "snapshot"}, data : Data])

(* Replies, with the answer of a Load spelled out.                         *)
Answer == [snapshot : StoredSnapshot, frames : SUBSET StoredFrame, head : Nat]
Replies ==
  [kind : {"none", "error", "stale"}]
    \union [kind : {"frame"}, seq : Nat, floor : Nat]
    \union [kind : {"log"}, log : Answer]

Writing == {"head", "floor", "insert", "upsert"}
Loading == {"loadHead", "loadFrames"}

(* The transaction under way, and no other, has the lock.                  *)
LockOwned == \A r \in Req : pc[r] \in Writing <=> lock = r

(* Under the lock the head a transaction has read is the number of entries *)
(* committed, and its floor is not below the retained one.                 *)
HeadCurrent ==
  \A r \in Req :
    /\ pc[r] \in {"floor", "insert", "upsert"} => seen[r].head = Len(log)
    /\ pc[r] = "upsert" => ~Stale(snap, Floor(r))

(* Which arguments a call may have at which statement.                     *)
CallMatches ==
  \A r \in Req :
    /\ pc[r] \in {"begin", "head"} => args[r] \in UpdateArgs \union SnapshotArgs
    /\ pc[r] = "insert" => args[r] \in UpdateArgs
    /\ pc[r] \in {"floor", "upsert"} => args[r] \in SnapshotArgs
    /\ pc[r] \in Loading \union {"loadSnapshot"} => args[r] \in LoadArgs

(* The entry committed last is the highest one in the tables.              *)
HighestInTables ==
  /\ Len(log) \in {snap.seq} \union {f.seq : f \in frames}
  /\ snap.seq <= Len(log) /\ \A f \in frames : f.seq <= Len(log)
FloorBelowSnapshot == IF snap.seq = 0 THEN snap.floor = 0
                                      ELSE snap.floor < snap.seq

(* A Load has read a snapshot that is not newer than the retained one, and *)
(* has the same floor unless a compaction came in between; the head it has *)
(* read lies in the past.                                                  *)
LoadOfThePast ==
  \A r \in Req : pc[r] \in Loading =>
    /\ seen[r].snap.floor <= snap.floor
    /\ ~raised[r] => seen[r].snap.floor = snap.floor
    /\ pc[r] = "loadFrames" => seen[r].head <= Len(log)

(* An answer speaks of what was committed, and what it misses is below the *)
(* floor of a compaction that committed meanwhile.                         *)
AnswerOfThePast ==
  \A r \in Req : Loaded(r) =>
    /\ pc[r] = "done" /\ args[r] \in LoadArgs
    /\ reply[r].log.head <= Len(log)
    /\ Missing(r) # {} => raised[r]
    /\ \A u \in Missing(r) : u.seq <= snap.floor

IInv ==
  /\ TypeOK /\ reply \in [Req -> Replies]
  /\ LockOwned /\ HeadCurrent /\ CallMatches
  /\ HighestInTables /\ FloorBelowSnapshot /\ TailRetained
  /\ LoadOfThePast /\ AnswerOfThePast

-----------------------------------------------------------------------------
(* A set of integers has one maximum: a member above all others.            *)
LEMMA MaxIs ==
  ASSUME NEW S, S \subseteq Int, NEW m \in S, \A x \in S : x <= m
  PROVE  Max(S) = m
<1>1. \A y \in S : m >= y
  OBVIOUS
<1>2. /\ Max(S) \in S
      /\ \A y \in S : Max(S) >= y
  BY <1>1 DEF Max
<1>3. Max(S) \in Int /\ m \in Int /\ Max(S) >= m /\ Max(S) <= m
  BY <1>2
<1> QED
  BY <1>3

(* ClampFloor stays between 0 and the head.                                 *)
LEMMA ClampBounds ==
  ASSUME NEW f \in Int, NEW h \in Nat
  PROVE  ClampFloor(f, h) \in Nat /\ ClampFloor(f, h) <= h
BY DEF ClampFloor

(* The recomputed head is the number of entries, given the two facts about  *)
(* the tables that bound it from both sides.                                *)
LEMMA HeadIs ==
  ASSUME TypeOK, HighestInTables
  PROVE  HeadSeq(snap, frames) = Len(log)
<1> DEFINE S == {snap.seq} \union {f.seq : f \in frames}
<1>1. snap.seq \in Nat /\ \A f \in frames : f.seq \in Nat
  BY DEF TypeOK, StoredSnapshot, StoredFrame, Seqs, NoSnapshot
<1>2. S \subseteq Int /\ Len(log) \in S /\ \A x \in S : x <= Len(log)
  BY <1>1 DEF HighestInTables
<1>3. Max(S) = Len(log)
  BY <1>2, MaxIs
<1> QED
  BY <1>3 DEF HeadSeq

(* Recording a snapshot in the history adds no update.                      *)
LEMMA UpdatesAfterSnapshot ==
  ASSUME log \in Log, NEW d \in Data,
         log' = Append(log, Abstract!Entry("snapshot", d))
  PROVE  Abstract!Updates' = Abstract!Updates
<1>1. /\ Len(log') = Len(log) + 1 /\ DOMAIN log' = 1..(Len(log) + 1)
      /\ DOMAIN log = 1..Len(log) /\ Len(log) \in Nat
      /\ \A i \in 1..Len(log) : log'[i] = log[i]
      /\ log'[Len(log) + 1].kind = "snapshot"
  BY DEF Abstract!Entry, Log
<1>2. {j \in DOMAIN log' : log'[j].kind = "update"}
        = {j \in DOMAIN log : log[j].kind = "update"}
  BY <1>1
<1> QED
  BY <1>1, <1>2 DEF Abstract!Updates, Abstract!UpdateFrame

(* Recording an update adds exactly its frame, under the next seq.          *)
LEMMA UpdatesAfterUpdate ==
  ASSUME log \in Log, NEW d \in Data,
         log' = Append(log, Abstract!Entry("update", d))
  PROVE  Abstract!Updates'
           = Abstract!Updates \union {UpdateFrame(Len(log) + 1, d)}
<1>1. /\ Len(log') = Len(log) + 1 /\ DOMAIN log' = 1..(Len(log) + 1)
      /\ DOMAIN log = 1..Len(log) /\ Len(log) \in Nat
      /\ \A i \in 1..Len(log) : log'[i] = log[i]
      /\ log'[Len(log) + 1] = [kind |-> "update", data |-> d]
  BY DEF Abstract!Entry, Log
<1>2. {j \in DOMAIN log' : log'[j].kind = "update"}
        = {j \in DOMAIN log : log[j].kind = "update"} \union {Len(log) + 1}
  BY <1>1
<1> QED
  BY <1>1, <1>2 DEF Abstract!Updates, Abstract!UpdateFrame, UpdateFrame

(* Every frame of the history carries a seq between 1 and its length.       *)
LEMMA UpdatesBounded ==
  ASSUME log \in Log
  PROVE  \A u \in Abstract!Updates :
           u.seq \in 1..Len(log) /\ u \in StoredFrame
<1>1. /\ DOMAIN log = 1..Len(log) /\ Len(log) \in Nat
      /\ \A i \in 1..Len(log) : log[i].data \in Data
  <2> DEFINE R == [kind : {"update", "snapshot"}, data : Data]
  <2>1. log \in Seq(R)
    BY DEF Log
  <2> HIDE DEF R
  <2>2. /\ DOMAIN log = 1..Len(log) /\ Len(log) \in Nat
        /\ \A i \in 1..Len(log) : log[i] \in R
    BY <2>1
  <2> QED
    BY <2>2 DEF R
<1>2. TAKE u \in Abstract!Updates
<1>3. PICK i \in 1..Len(log) : u = [seq |-> i, data |-> log[i].data]
  BY <1>1, <1>2 DEF Abstract!Updates, Abstract!UpdateFrame
<1> QED
  BY <1>1, <1>3 DEF StoredFrame, Seqs

(* What a step leaves to the answers given before: the history grows, and  *)
(* so does the retained floor.                                             *)
Grows ==
  /\ Len(log') \in Nat /\ Len(log') >= Len(log)
  /\ \A u \in Abstract!Updates' : 
       u \in Abstract!Updates \/ (u.seq \in Nat /\ u.seq > Len(log))
  /\ snap'.floor \in Nat /\ snap'.floor >= snap.floor

LEMMA StaysGrows ==
  ASSUME IInv, UNCHANGED <<log, snap>>
  PROVE  Grows
<1>1. Abstract!Updates' = Abstract!Updates
  BY DEF Abstract!Updates
<1>2. Len(log) \in Nat /\ snap.floor \in Nat
  BY DEF IInv, TypeOK, StoredSnapshot, NoSnapshot, Seqs
<1> QED
  BY <1>1, <1>2 DEF Grows

(* Answers given before stay right while r's call, which has none, goes on.*)
LEMMA AnswersKept ==
  ASSUME IInv, Grows, NEW r \in Req, ~Loaded(r)',
         \A q \in Req \ {r} :
           /\ pc'[q] = pc[q] /\ args'[q] = args[q] /\ reply'[q] = reply[q]
           /\ raised[q] => raised'[q]
  PROVE  AnswerOfThePast'
<1>1. SUFFICES ASSUME NEW q \in Req \ {r}, Loaded(q)'
               PROVE  /\ pc'[q] = "done" /\ args'[q] \in LoadArgs
                      /\ reply'[q].log.head <= Len(log')
                      /\ Missing(q)' # {} => raised'[q]
                      /\ \A u \in Missing(q)' : u.seq <= snap'.floor
  BY DEF AnswerOfThePast
<1>2. Loaded(q)
  BY <1>1 DEF Loaded
<1>3. /\ pc[q] = "done" /\ args[q] \in LoadArgs
      /\ reply[q].log.head <= Len(log)
      /\ Missing(q) # {} => raised[q]
      /\ \A u \in Missing(q) : u.seq <= snap.floor
  BY <1>2 DEF IInv, AnswerOfThePast
<1>4. reply[q].log.head \in Nat /\ Len(log) \in Nat /\ snap.floor \in Nat
  <2>1. reply[q] \in Replies /\ reply[q].kind = "log"
    BY <1>2 DEF IInv, Loaded
  <2>2. reply[q].log \in Answer
    BY <2>1 DEF Replies
  <2> QED
    BY <2>2 DEF IInv, TypeOK, Answer, StoredSnapshot, NoSnapshot, Seqs
<1>5. \A u \in Missing(q) : u.seq \in Nat
  BY UpdatesBounded DEF IInv, TypeOK, Log, Missing
<1>6. Missing(q)' \subseteq Missing(q)
  <2>1. SUFFICES ASSUME NEW u \in Missing(q)' PROVE u \in Missing(q)
    OBVIOUS
  <2>2. /\ u \in Abstract!Updates' /\ args[q].since < u.seq
        /\ u.seq <= reply[q].log.head /\ u \notin reply[q].log.frames
        /\ u.seq > reply[q].log.snapshot.floor
    BY <2>1 DEF Missing
  <2>3. u \in Abstract!Updates
    BY <1>3, <1>4, <2>2 DEF Grows
  <2> QED
    BY <2>2, <2>3 DEF Missing
<1> QED
  BY <1>1, <1>3, <1>4, <1>5, <1>6 DEF Grows

(* The tables keep what is said of them while nothing commits.             *)
LEMMA TablesKept ==
  ASSUME IInv, UNCHANGED <<snap, frames, log>>
  PROVE  HighestInTables' /\ FloorBelowSnapshot' /\ TailRetained'
BY DEF IInv, HighestInTables, FloorBelowSnapshot, TailRetained,
       Abstract!Updates

(* No call in progress, and empty tables.                                  *)
LEMMA InitIInv == ASSUME Sizes, Init PROVE IInv
<1>1. reply \in [Req -> Replies]
  BY DEF Init, Replies, Abstract!NoReply
<1>2. TypeOK
  <2>1. seen \in [Req -> [snap : StoredSnapshot, head : Seqs]]
    BY DEF Init, NothingSeen, StoredSnapshot, Seqs
  <2>2. \A r \in Req : reply[r].kind \in {"none", "error", "stale", "frame", "log"}
    BY DEF Init, Abstract!NoReply
  <2> QED
    BY <2>1, <2>2 DEF Init, TypeOK, StoredSnapshot, Labels
<1>3. LockOwned /\ HeadCurrent /\ CallMatches /\ LoadOfThePast
  BY DEF Init, Sizes, LockOwned, HeadCurrent, CallMatches, LoadOfThePast,
         Writing, Loading
<1>4. HighestInTables /\ FloorBelowSnapshot
  BY DEF Init, HighestInTables, FloorBelowSnapshot, NoSnapshot
<1>5. TailRetained
  <2>1. Abstract!Updates = {}
    BY DEF Init, Abstract!Updates
  <2> QED
    BY <2>1 DEF Init, TailRetained
<1>6. AnswerOfThePast
  BY DEF Init, AnswerOfThePast, Loaded, Abstract!NoReply
<1> QED
  BY <1>1, <1>2, <1>3, <1>4, <1>5, <1>6 DEF IInv

(* A call arrives.                                                         *)
LEMMA CallKeeps ==
  ASSUME Sizes, IInv, NEW r \in Req, NEW a \in Args, Call(r, a)
  PROVE  IInv'
<1>1. TypeOK' /\ reply' \in [Req -> Replies]
  BY DEF IInv, TypeOK, Call, Goto, Labels
<1>2. LockOwned' /\ HeadCurrent' /\ LoadOfThePast'
  BY DEF IInv, TypeOK, LockOwned, HeadCurrent, LoadOfThePast, Call, Goto,
         Writing, Loading, Floor
<1>3. CallMatches'
  BY DEF IInv, TypeOK, CallMatches, Call, Goto, Loading, Args, UpdateArgs,
         SnapshotArgs, LoadArgs
<1>4. AnswerOfThePast'
  <2>1. ~Loaded(r)'
    BY DEF IInv, AnswerOfThePast, Loaded, Call
  <2> QED
    BY <2>1, StaysGrows, AnswersKept DEF IInv, TypeOK, Call, Goto
<1> QED
  BY <1>1, <1>2, <1>3, <1>4, TablesKept DEF IInv, Call

(* The advisory lock is taken only when free.                              *)
LEMMA BeginKeeps ==
  ASSUME Sizes, IInv, NEW r \in Req, Begin(r)
  PROVE  IInv'
<1>1. TypeOK' /\ reply' \in [Req -> Replies]
  BY DEF IInv, TypeOK, Begin, Goto, Labels
<1>2. LockOwned' /\ HeadCurrent' /\ LoadOfThePast'
  BY DEF IInv, TypeOK, LockOwned, HeadCurrent, LoadOfThePast, Begin, Goto,
         Writing, Loading, Floor, Sizes
<1>3. CallMatches'
  BY DEF IInv, TypeOK, CallMatches, Begin, Goto, Loading
<1>4. AnswerOfThePast'
  <2>1. ~Loaded(r)'
    BY DEF IInv, AnswerOfThePast, Loaded, Begin
  <2> QED
    BY <2>1, StaysGrows, AnswersKept DEF IInv, TypeOK, Begin, Goto
<1> QED
  BY <1>1, <1>2, <1>3, <1>4, TablesKept DEF IInv, Begin

(* The head is read under the lock.                                        *)
LEMMA ReadHeadKeeps ==
  ASSUME Sizes, IInv, NEW r \in Req, ReadHead(r)
  PROVE  IInv'
<1>1. HeadSeq(snap, frames) = Len(log) /\ Len(log) \in Nat
  BY HeadIs DEF IInv, TypeOK
<1>2. TypeOK' /\ reply' \in [Req -> Replies]
  BY <1>1 DEF IInv, TypeOK, ReadHead, Goto, Labels, Seqs
<1>3. LockOwned' /\ HeadCurrent' /\ LoadOfThePast'
  BY <1>1 DEF IInv, TypeOK, LockOwned, HeadCurrent, LoadOfThePast, ReadHead,
              Goto, Writing, Loading, Floor
<1>4. CallMatches'
  BY DEF IInv, TypeOK, CallMatches, ReadHead, Goto, Loading, UpdateArgs,
         SnapshotArgs
<1>5. AnswerOfThePast'
  <2>1. ~Loaded(r)'
    BY DEF IInv, AnswerOfThePast, Loaded, ReadHead
  <2> QED
    BY <2>1, StaysGrows, AnswersKept DEF IInv, TypeOK, ReadHead, Goto
<1> QED
  BY <1>2, <1>3, <1>4, <1>5, TablesKept DEF IInv, ReadHead

(* Ending a call without a commit.                                         *)
LEMMA ReturnKeeps ==
  ASSUME Sizes, IInv, NEW r \in Req, pc[r] \notin {"idle", "done"},
         NEW value \in Replies, value.kind # "log", Return(r, value),
         UNCHANGED <<snap, frames, args, log, raised>>
  PROVE  IInv'
<1>1. TypeOK' /\ reply' \in [Req -> Replies]
  <2>1. value.kind \in {"none", "error", "stale", "frame", "log"}
    BY DEF Replies
  <2>2. NothingSeen \in [snap : StoredSnapshot, head : Seqs]
    BY DEF NothingSeen, StoredSnapshot, Seqs
  <2> QED
    BY <2>1, <2>2 DEF IInv, TypeOK, Return, Goto, Labels
<1>2. LockOwned' /\ HeadCurrent' /\ LoadOfThePast' /\ CallMatches'
  BY DEF IInv, TypeOK, LockOwned, HeadCurrent, LoadOfThePast, CallMatches,
         Return, Goto, Writing, Loading, Floor, Sizes
<1>3. AnswerOfThePast'
  <2>1. ~Loaded(r)'
    BY DEF IInv, Loaded, Return
  <2> QED
    BY <2>1, StaysGrows, AnswersKept DEF IInv, TypeOK, Return, Goto
<1> QED
  BY <1>1, <1>2, <1>3, TablesKept DEF IInv

(* Under the lock the floor is still the one to compare with.              *)
LEMMA ReadFloorKeeps ==
  ASSUME Sizes, IInv, NEW r \in Req, ReadFloor(r)
  PROVE  IInv'
<1>1. CASE Stale(snap, Floor(r))
  <2>1. Abstract!StaleReply \in Replies /\ Abstract!StaleReply.kind = "stale"
    BY DEF Replies, Abstract!StaleReply
  <2> QED
    BY <1>1, <2>1, ReturnKeeps DEF ReadFloor
<1>2. CASE ~Stale(snap, Floor(r))
  <2>1. Goto(r, "upsert") /\ UNCHANGED <<snap, frames, lock, args, seen, reply,
                                          log, raised>>
    BY <1>2 DEF ReadFloor
  <2>2. TypeOK' /\ reply' \in [Req -> Replies]
    BY <2>1 DEF IInv, TypeOK, Goto, Labels
  <2>3. LockOwned' /\ HeadCurrent' /\ LoadOfThePast' /\ CallMatches'
    BY <1>2, <2>1 DEF IInv, TypeOK, LockOwned, HeadCurrent, LoadOfThePast,
                      CallMatches, ReadFloor, Goto, Writing, Loading, Floor
  <2>4. AnswerOfThePast'
    <3>1. ~Loaded(r)'
      BY <2>1 DEF IInv, AnswerOfThePast, Loaded, ReadFloor
    <3> QED
      BY <2>1, <3>1, StaysGrows, AnswersKept DEF IInv, TypeOK, Goto
  <2> QED
    BY <2>1, <2>2, <2>3, <2>4, TablesKept DEF IInv
<1> QED
  BY <1>1, <1>2

(* Whatever fails, the tables are as they were.                            *)
LEMMA AbortKeeps ==
  ASSUME Sizes, IInv, NEW r \in Req, Abort(r)
  PROVE  IInv'
<1>1. Abstract!Failed \in Replies /\ Abstract!Failed.kind = "error"
  BY DEF Replies, Abstract!Failed
<1> QED
  BY <1>1, ReturnKeeps DEF Abort

(* A transaction ends: the lock is free, and nobody else is in one.        *)
LEMMA CommitFrees ==
  ASSUME Sizes, IInv, NEW r \in Req, pc[r] \in Writing, NEW value,
         Return(r, value)
  PROVE  /\ lock' = Nobody
         /\ \A q \in Req : pc'[q] \notin Writing
         /\ LockOwned'
BY DEF Sizes, IInv, TypeOK, LockOwned, Return, Goto, Writing

(* A committed update is the new highest entry: its key was free.          *)
LEMMA CommitUpdateKeeps ==
  ASSUME Sizes, IInv, NEW r \in Req, CommitUpdate(r)
  PROVE  IInv'
<1> DEFINE n == Len(log) + 1
           new == UpdateFrame(n, args[r].data)
<1>1. /\ seen[r].head = Len(log) /\ Len(log) \in Nat /\ n \in Nat
      /\ log \in Log /\ args[r].data \in Data
  BY DEF IInv, TypeOK, HeadCurrent, CallMatches, CommitUpdate, UpdateArgs, Log
<1>2. /\ frames' = frames \union {new} /\ snap' = snap
      /\ log' = Append(log, Abstract!Entry("update", args[r].data))
      /\ Return(r, Abstract!FrameReply(n, 0))
  BY <1>1 DEF CommitUpdate
<1>3. log' \in Log /\ Len(log') = n
  BY <1>1, <1>2 DEF Log, Abstract!Entry
<1>4. new \in StoredFrame /\ new.seq = n
  BY <1>1 DEF UpdateFrame, StoredFrame, Seqs
<1>5. TypeOK' /\ reply' \in [Req -> Replies]
  <2>1. Abstract!FrameReply(n, 0) \in Replies
    BY <1>1 DEF Replies, Abstract!FrameReply
  <2>2. NothingSeen \in [snap : StoredSnapshot, head : Seqs]
    BY DEF NothingSeen, StoredSnapshot, Seqs
  <2>3. reply' \in [Req -> Replies]
    BY <1>2, <2>1 DEF IInv, Return
  <2>4. \A q \in Req : reply'[q].kind \in {"none", "error", "stale", "frame", "log"}
    BY <2>3 DEF Replies
  <2> QED
    BY <1>2, <1>3, <1>4, <2>2, <2>3, <2>4
    DEF IInv, TypeOK, CommitUpdate, Return, Goto, Labels, Log
<1>6. LockOwned' /\ HeadCurrent' /\ CallMatches'
  <2>1. LockOwned' /\ \A q \in Req : pc'[q] \notin Writing
    BY <1>2, CommitFrees DEF CommitUpdate, Writing
  <2>2. \A q \in Req \ {r} : pc'[q] = pc[q]
    BY <1>2 DEF IInv, TypeOK, Return, Goto
  <2>3. pc'[r] = "done" /\ args' = args
    BY <1>2 DEF IInv, TypeOK, CommitUpdate, Return, Goto
  <2> QED
    BY <2>1, <2>2, <2>3 DEF IInv, HeadCurrent, CallMatches, Writing, Loading
<1>7. HighestInTables' /\ FloorBelowSnapshot'
  <2>1. snap.seq <= Len(log) /\ snap.seq \in Nat
    BY DEF IInv, TypeOK, HighestInTables, StoredSnapshot, NoSnapshot, Seqs
  <2>2. snap'.seq <= n
    BY <1>1, <1>2, <2>1
  <2>3. \A f \in frames' : f.seq <= n
    BY <1>1, <1>2, <1>4 DEF IInv, TypeOK, HighestInTables, StoredFrame, Seqs
  <2> QED
    BY <1>2, <1>3, <1>4, <2>2, <2>3
    DEF IInv, HighestInTables, FloorBelowSnapshot
<1>8. Abstract!Updates' = Abstract!Updates \union {new}
  BY <1>1, <1>2, UpdatesAfterUpdate
<1>9. TailRetained'
  <2>1. snap.floor <= Len(log) /\ snap.floor \in Nat
    BY <1>1 DEF IInv, TypeOK, HighestInTables, FloorBelowSnapshot,
                StoredSnapshot, NoSnapshot, Seqs
  <2> QED
    BY <1>1, <1>2, <1>4, <1>8, <2>1 DEF IInv, TailRetained
<1>10. LoadOfThePast'
  BY <1>1, <1>2, <1>3
  DEF IInv, TypeOK, LoadOfThePast, CommitUpdate, Return, Goto, Loading, Seqs
<1>11. AnswerOfThePast'
  <2>1. ~Loaded(r)'
    BY <1>2 DEF IInv, Loaded, Return, Abstract!FrameReply
  <2>2. Grows
    BY <1>1, <1>2, <1>3, <1>4, <1>8
    DEF Grows, IInv, TypeOK, StoredSnapshot, NoSnapshot, Seqs
  <2> QED
    BY <2>1, <2>2, AnswersKept DEF IInv, TypeOK, CommitUpdate, Return, Goto
<1> QED
  BY <1>5, <1>6, <1>7, <1>9, <1>10, <1>11 DEF IInv

(* A committed snapshot is the new highest entry and its floor no lower:   *)
(* what the DELETE takes is what need not be retained any more.            *)
LEMMA CommitSnapshotKeeps ==
  ASSUME Sizes, IInv, NEW r \in Req, CommitSnapshot(r)
  PROVE  IInv'
<1> DEFINE n == Len(log) + 1
           floor == Floor(r)
<1>1. /\ seen[r].head = Len(log) /\ Len(log) \in Nat /\ n \in Nat
      /\ log \in Log /\ args[r].data \in Data
      /\ floor \in Nat /\ floor <= Len(log)
  <2>1. /\ seen[r].head = Len(log) /\ Len(log) \in Nat /\ log \in Log
        /\ args[r].data \in Data /\ args[r].floor \in Int
    BY DEF Sizes, IInv, TypeOK, HeadCurrent, CallMatches, CommitSnapshot,
           SnapshotArgs, Log
  <2>2. /\ ClampFloor(args[r].floor, Len(log)) \in Nat
        /\ ClampFloor(args[r].floor, Len(log)) <= Len(log)
    BY <2>1, ClampBounds
  <2>3. floor = ClampFloor(args[r].floor, Len(log))
    BY <2>1 DEF Floor
  <2> QED
    BY <2>1, <2>2, <2>3
<1>2. snap.floor \in Nat /\ snap.floor <= floor
  BY <1>1 DEF IInv, TypeOK, HeadCurrent, FloorBelowSnapshot, CommitSnapshot,
              Stale, StoredSnapshot, NoSnapshot, Seqs
<1>3. /\ snap' = Snapshot(n, floor, args[r].data)
      /\ frames' = Above(frames, floor)
      /\ log' = Append(log, Abstract!Entry("snapshot", args[r].data))
      /\ Return(r, Abstract!FrameReply(n, floor))
      /\ args' = args
  BY <1>1 DEF CommitSnapshot
<1>4. /\ snap'.seq = n /\ snap'.floor = floor /\ snap' \in StoredSnapshot
  BY <1>1, <1>3 DEF Snapshot, StoredSnapshot, Seqs
<1>5. log' \in Log /\ Len(log') = n
  BY <1>1, <1>3 DEF Log, Abstract!Entry
<1>6. raised' \in [Req -> BOOLEAN] /\ \A q \in Req : raised[q] => raised'[q]
  BY DEF CommitSnapshot, IInv, TypeOK
<1>7. TypeOK' /\ reply' \in [Req -> Replies]
  <2>1. Abstract!FrameReply(n, floor) \in Replies
    BY <1>1 DEF Replies, Abstract!FrameReply
  <2>2. NothingSeen \in [snap : StoredSnapshot, head : Seqs]
    BY DEF NothingSeen, StoredSnapshot, Seqs
  <2>3. reply' \in [Req -> Replies]
    BY <1>3, <2>1 DEF IInv, Return
  <2>4. \A q \in Req : reply'[q].kind \in {"none", "error", "stale", "frame", "log"}
    BY <2>3 DEF Replies
  <2> QED
    BY <1>3, <1>4, <1>5, <1>6, <2>2, <2>3, <2>4
    DEF IInv, TypeOK, Return, Goto, Labels, Log, Above
<1>8. LockOwned' /\ HeadCurrent' /\ CallMatches'
  <2>1. LockOwned' /\ \A q \in Req : pc'[q] \notin Writing
    BY <1>3, CommitFrees DEF CommitSnapshot, Writing
  <2>2. \A q \in Req \ {r} : pc'[q] = pc[q]
    BY <1>3 DEF IInv, TypeOK, Return, Goto
  <2>3. pc'[r] = "done"
    BY <1>3 DEF IInv, TypeOK, Return, Goto
  <2> QED
    BY <1>3, <2>1, <2>2, <2>3 DEF IInv, HeadCurrent, CallMatches, Writing, Loading
<1>9. HighestInTables' /\ FloorBelowSnapshot'
  <2>1. \A f \in frames' : f.seq <= n
    BY <1>1, <1>3 DEF IInv, TypeOK, HighestInTables, StoredFrame, Seqs, Above
  <2> QED
    BY <1>1, <1>4, <1>5, <2>1 DEF HighestInTables, FloorBelowSnapshot
<1>10. Abstract!Updates' = Abstract!Updates
  BY <1>1, <1>3, UpdatesAfterSnapshot
<1>11. TailRetained'
  <2>1. \A u \in Abstract!Updates : u.seq \in Nat
    BY <1>1, UpdatesBounded
  <2> QED
    BY <1>1, <1>2, <1>3, <1>4, <1>10, <2>1 DEF IInv, TailRetained, Above
<1>12. LoadOfThePast'
  <2>1. SUFFICES ASSUME NEW q \in Req, pc'[q] \in Loading
                 PROVE  /\ seen'[q].snap.floor <= snap'.floor
                        /\ ~raised'[q] => seen'[q].snap.floor = snap'.floor
                        /\ pc'[q] = "loadFrames" => seen'[q].head <= Len(log')
    BY DEF LoadOfThePast
  <2>2. q # r /\ pc[q] = pc'[q] /\ seen'[q] = seen[q]
    BY <1>3, <2>1 DEF IInv, TypeOK, Return, Goto, Loading
  <2>3. /\ seen[q].snap.floor <= snap.floor
        /\ ~raised[q] => seen[q].snap.floor = snap.floor
        /\ pc[q] = "loadFrames" => seen[q].head <= Len(log)
        /\ seen[q].snap.floor \in Nat /\ seen[q].head \in Nat
    BY <2>1, <2>2 DEF IInv, TypeOK, LoadOfThePast, StoredSnapshot, NoSnapshot,
                      Seqs
  <2>4. ~raised'[q] => ~raised[q] /\ floor = snap.floor
    BY <1>1, <1>2, <2>1, <2>2 DEF CommitSnapshot, Loading
  <2> QED
    BY <1>1, <1>2, <1>4, <1>5, <2>2, <2>3, <2>4
<1>13. AnswerOfThePast'
  <2>1. ~Loaded(r)'
    BY <1>3 DEF IInv, Loaded, Return, Abstract!FrameReply
  <2>2. Grows
    BY <1>1, <1>2, <1>4, <1>5, <1>10 DEF Grows
  <2> QED
    BY <1>3, <1>6, <2>1, <2>2, AnswersKept DEF IInv, TypeOK, Return, Goto
<1> QED
  BY <1>7, <1>8, <1>9, <1>11, <1>12, <1>13 DEF IInv

(* A Load reads the snapshot retained now.                                 *)
LEMMA LoadSnapshotKeeps ==
  ASSUME Sizes, IInv, NEW r \in Req, LoadSnapshot(r)
  PROVE  IInv'
<1>1. TypeOK' /\ reply' \in [Req -> Replies]
  BY DEF IInv, TypeOK, LoadSnapshot, Goto, Labels
<1>2. LockOwned' /\ HeadCurrent' /\ CallMatches'
  BY DEF IInv, TypeOK, LockOwned, HeadCurrent, CallMatches, LoadSnapshot,
         Goto, Writing, Loading, Floor
<1>3. LoadOfThePast'
  BY DEF IInv, TypeOK, LoadOfThePast, LoadSnapshot, Goto, Loading,
         StoredSnapshot, NoSnapshot, Seqs
<1>4. AnswerOfThePast'
  <2>1. ~Loaded(r)'
    BY DEF IInv, AnswerOfThePast, Loaded, LoadSnapshot
  <2> QED
    BY <2>1, StaysGrows, AnswersKept DEF IInv, TypeOK, LoadSnapshot, Goto
<1> QED
  BY <1>1, <1>2, <1>3, <1>4, TablesKept DEF IInv, LoadSnapshot

(* A Load reads the head, perhaps after others have committed.             *)
LEMMA LoadHeadKeeps ==
  ASSUME Sizes, IInv, NEW r \in Req, LoadHead(r)
  PROVE  IInv'
<1>1. HeadSeq(snap, frames) = Len(log) /\ Len(log) \in Nat
  BY HeadIs DEF IInv, TypeOK
<1>2. TypeOK' /\ reply' \in [Req -> Replies]
  BY <1>1 DEF IInv, TypeOK, LoadHead, Goto, Labels, Seqs
<1>3. LockOwned' /\ HeadCurrent' /\ CallMatches'
  BY DEF IInv, TypeOK, LockOwned, HeadCurrent, CallMatches, LoadHead, Goto,
         Writing, Loading, Floor
<1>4. LoadOfThePast'
  BY <1>1 DEF IInv, TypeOK, LoadOfThePast, LoadHead, Goto, Loading
<1>5. AnswerOfThePast'
  <2>1. ~Loaded(r)'
    BY DEF IInv, AnswerOfThePast, Loaded, LoadHead
  <2> QED
    BY <2>1, StaysGrows, AnswersKept DEF IInv, TypeOK, LoadHead, Goto
<1> QED
  BY <1>2, <1>3, <1>4, <1>5, TablesKept DEF IInv, LoadHead

(* A Load answers.  An update it should have delivered is not in the table *)
(* any more, so the retained floor covers it; the snapshot the Load itself *)
(* read does not, so the floor was raised in between.                      *)
LEMMA LoadFramesKeeps ==
  ASSUME Sizes, IInv, NEW r \in Req, LoadFrames(r)
  PROVE  IInv'
<1> DEFINE s == seen[r].snap
           since == args[r].since
           bound == IF since < s.floor THEN s.floor ELSE since
           answer == [ snapshot |-> IF since < s.floor THEN s ELSE NoSnapshot,
                       frames   |-> Above(frames, bound),
                       head     |-> seen[r].head ]
<1>1. /\ s \in StoredSnapshot /\ s.floor \in Nat /\ seen[r].head \in Nat
      /\ args[r] \in LoadArgs /\ since \in Nat
      /\ snap.floor \in Nat /\ Len(log) \in Nat /\ log \in Log
      /\ NoSnapshot \in StoredSnapshot
  <2>1. seen[r] \in [snap : StoredSnapshot, head : Nat]
    BY DEF IInv, TypeOK, Seqs
  <2>2. args[r] \in LoadArgs
    BY DEF IInv, CallMatches, LoadFrames, Loading
  <2>3. since \in Nat
    BY <2>2 DEF Sizes, LoadArgs
  <2>4. \A x \in StoredSnapshot : x.floor \in Nat
    BY DEF StoredSnapshot, NoSnapshot, Seqs
  <2>5. snap \in StoredSnapshot /\ log \in Log /\ NoSnapshot \in StoredSnapshot
    BY DEF IInv, TypeOK, Log, StoredSnapshot
  <2>6. Len(log) \in Nat
    BY <2>5 DEF Log
  <2> QED
    BY <2>1, <2>2, <2>3, <2>4, <2>5, <2>6
<1>2. /\ s.floor <= snap.floor /\ seen[r].head <= Len(log)
      /\ ~raised[r] => s.floor = snap.floor
  BY DEF IInv, LoadOfThePast, LoadFrames, Loading
<1>3. /\ Return(r, Abstract!LogReply(answer))
      /\ UNCHANGED <<snap, frames, args, log, raised>>
  BY DEF LoadFrames
<1>4. answer \in Answer
  BY <1>1 DEF IInv, TypeOK, Answer, Above, Seqs
<1>5. Abstract!LogReply(answer) = [kind |-> "log", log |-> answer]
  BY DEF Abstract!LogReply
<1>6. Abstract!LogReply(answer) \in Replies
  BY <1>4, <1>5 DEF Replies
<1> HIDE DEF answer
<1>7. TypeOK' /\ reply' \in [Req -> Replies]
  <2>1. NothingSeen \in [snap : StoredSnapshot, head : Seqs]
    BY <1>1 DEF NothingSeen, StoredSnapshot, Seqs
  <2>2. reply' \in [Req -> Replies]
    BY <1>3, <1>6 DEF IInv, Return
  <2>3. \A q \in Req : reply'[q].kind \in {"none", "error", "stale", "frame", "log"}
    BY <2>2 DEF Replies
  <2> QED
    BY <1>3, <2>1, <2>2, <2>3 DEF IInv, TypeOK, Return, Goto, Labels
<1>8. LockOwned' /\ HeadCurrent' /\ LoadOfThePast' /\ CallMatches'
  BY <1>3 DEF IInv, TypeOK, LockOwned, HeadCurrent, LoadOfThePast, CallMatches,
              LoadFrames, Return, Goto, Writing, Loading, Floor, Sizes
<1>9. /\ reply'[r].log = answer /\ pc'[r] = "done"
      /\ \A q \in Req \ {r} : pc'[q] = pc[q] /\ reply'[q] = reply[q]
  BY <1>3, <1>5 DEF IInv, TypeOK, Return, Goto
<1>10. Missing(r)' = {u \in Abstract!Updates :
                        /\ since < u.seq /\ u.seq <= answer.head
                        /\ u \notin answer.frames
                        /\ u.seq > answer.snapshot.floor}
  <2>1. Abstract!Updates' = Abstract!Updates
    BY <1>3 DEF Abstract!Updates
  <2> QED
    BY <1>3, <1>9, <2>1 DEF Missing
<1>11. \A u \in Missing(r)' : u.seq <= snap.floor /\ s.floor < u.seq
  <2>1. SUFFICES ASSUME NEW u \in Missing(r)'
                 PROVE  u.seq <= snap.floor /\ s.floor < u.seq
    OBVIOUS
  <2>2. /\ u \in Abstract!Updates /\ since < u.seq
        /\ u \notin Above(frames, bound)
        /\ since < s.floor => u.seq > s.floor
        /\ u.seq \in Nat
    BY <1>1, <1>10, UpdatesBounded DEF answer
  <2>3. s.floor < u.seq /\ bound < u.seq
    BY <1>1, <2>2
  <2>4. u \notin frames
    BY <2>2, <2>3 DEF Above
  <2> QED
    BY <1>1, <2>2, <2>3, <2>4 DEF IInv, TailRetained
<1>12. AnswerOfThePast'
  <2>1. SUFFICES ASSUME NEW q \in Req, Loaded(q)'
                 PROVE  /\ pc'[q] = "done" /\ args'[q] \in LoadArgs
                        /\ reply'[q].log.head <= Len(log')
                        /\ Missing(q)' # {} => raised'[q]
                        /\ \A u \in Missing(q)' : u.seq <= snap'.floor
    BY DEF AnswerOfThePast
  <2>2. CASE q = r
    <3>1. Missing(r)' # {} => raised[r]
      <4>1. SUFFICES ASSUME NEW u \in Missing(r)' PROVE raised[r]
        OBVIOUS
      <4>2. u.seq \in Nat
        BY <1>1, <1>10, UpdatesBounded
      <4> QED
        BY <1>1, <1>2, <1>11, <4>2
    <3> QED
      BY <1>1, <1>2, <1>3, <1>9, <1>11, <2>2, <3>1 DEF answer
  <2>3. CASE q # r
    <3>1. Loaded(q) /\ Missing(q)' = Missing(q)
      <4>1. Abstract!Updates' = Abstract!Updates
        BY <1>3 DEF Abstract!Updates
      <4> QED
        BY <1>3, <1>9, <2>1, <2>3, <4>1 DEF Loaded, Missing
    <3> QED
      BY <1>3, <1>9, <2>3, <3>1 DEF IInv, AnswerOfThePast
  <2> QED
    BY <2>2, <2>3
<1> QED
  BY <1>3, <1>7, <1>8, <1>12, TablesKept DEF IInv

(* The caller takes its answer.                                            *)
LEMMA RespondKeeps ==
  ASSUME Sizes, IInv, NEW r \in Req, Respond(r)
  PROVE  IInv'
<1>1. TypeOK' /\ reply' \in [Req -> Replies]
  <2>1. Abstract!NoReply \in Replies /\ Abstract!NoReply.kind = "none"
    BY DEF Replies, Abstract!NoReply
  <2> QED
    BY <2>1 DEF IInv, TypeOK, Respond, Goto, Labels
<1>2. LockOwned' /\ HeadCurrent' /\ LoadOfThePast' /\ CallMatches'
  BY DEF IInv, TypeOK, LockOwned, HeadCurrent, LoadOfThePast, CallMatches,
         Respond, Goto, Writing, Loading, Floor
<1>3. AnswerOfThePast'
  <2>1. ~Loaded(r)'
    BY DEF IInv, Loaded, Respond, Abstract!NoReply
  <2> QED
    BY <2>1, StaysGrows, AnswersKept DEF IInv, TypeOK, Respond, Goto
<1> QED
  BY <1>1, <1>2, <1>3, TablesKept DEF IInv, Respond

LEMMA StutterKeeps ==
  ASSUME IInv, UNCHANGED vars
  PROVE  IInv'
<1>1. Abstract!Updates' = Abstract!Updates
  BY DEF vars, Abstract!Updates
<1>2. AnswerOfThePast'
  BY <1>1 DEF IInv, vars, AnswerOfThePast, Loaded, Missing
<1> QED
  BY <1>2, TablesKept
  DEF IInv, vars, TypeOK, LockOwned, HeadCurrent, CallMatches, LoadOfThePast,
      Floor

(* Every step keeps the invariant.                                         *)
LEMMA StepKeepsIInv ==
  ASSUME Sizes, IInv, [Next]_vars
  PROVE  IInv'
<1>1. ASSUME NEW r \in Req, NEW a \in Args, Call(r, a) PROVE IInv'
  BY <1>1, CallKeeps
<1>2. ASSUME NEW r \in Req,
             \/ Begin(r) \/ ReadHead(r) \/ ReadFloor(r) \/ CommitUpdate(r)
             \/ CommitSnapshot(r) \/ Abort(r) \/ Respond(r)
      PROVE  IInv'
  BY <1>2, BeginKeeps, ReadHeadKeeps, ReadFloorKeeps, CommitUpdateKeeps,
     CommitSnapshotKeeps, AbortKeeps, RespondKeeps
<1>3. ASSUME NEW r \in Req, LoadSnapshot(r) \/ LoadHead(r) \/ LoadFrames(r)
      PROVE  IInv'
  BY <1>3, LoadSnapshotKeeps, LoadHeadKeeps, LoadFramesKeeps
<1>4. CASE UNCHANGED vars
  BY <1>4, StutterKeeps
<1> QED
  BY <1>1, <1>2, <1>3, <1>4 DEF Next

-----------------------------------------------------------------------------
(* The inductive invariant holds in every reachable state.                 *)
THEOREM Invariant == ASSUME Sizes PROVE Spec => []IInv
<1>1. Init => IInv
  BY InitIInv
<1>2. IInv /\ [Next]_vars => IInv'
  BY StepKeepsIInv
<1> QED
  BY <1>1, <1>2, PTL DEF Spec

(* The tables, the calls' locals and the replies keep their shapes.        *)
THEOREM Typed == ASSUME Sizes PROVE Spec => []TypeOK
<1>1. IInv => TypeOK
  BY DEF IInv
<1> QED
  BY <1>1, Invariant, PTL

(* The tables hold every update above the floor as committed, and nothing  *)
(* else, whatever transactions and crashes come between.                   *)
THEOREM Retained == ASSUME Sizes PROVE Spec => []TailRetained
<1>1. IInv => TailRetained
  BY DEF IInv
<1> QED
  BY <1>1, Invariant, PTL

(* A Load misses an update only when a compaction committed between its    *)
(* statements, and only one the retained snapshot incorporates.            *)
THEOREM TornOnlyByCompaction ==
  ASSUME Sizes PROVE Spec => []TornLoadOnlyByCompaction
<1>1. IInv => TornLoadOnlyByCompaction
  BY DEF IInv, AnswerOfThePast, TornLoadOnlyByCompaction
<1> QED
  BY <1>1, Invariant, PTL

-----------------------------------------------------------------------------
(* What the writers' callers hold, as the abstract store is given it.      *)
Out == [r \in Req |-> IF pc[r] = "done" /\ args[r].op # "load"
                        THEN reply[r] ELSE [kind |-> "none"]]

(* A step that ends no writer's call is not seen by writers.               *)
LEMMA OutUnchanged ==
  ASSUME IInv, NEW r \in Req, pc[r] # "done" \/ args[r] \in LoadArgs,
         pc'[r] # "done" \/ args'[r] \in LoadArgs,
         \A q \in Req \ {r} :
           pc'[q] = pc[q] /\ args'[q] = args[q] /\ reply'[q] = reply[q]
  PROVE  Out' = Out
BY DEF Out, LoadArgs

(* A step that ends a writer's call hands its reply over.                  *)
LEMMA OutAfter ==
  ASSUME IInv, NEW r \in Req, pc[r] # "done",
         args[r] \in UpdateArgs \union SnapshotArgs, args' = args,
         NEW value, Return(r, value)
  PROVE  /\ Out[r] = Abstract!NoReply
         /\ Out' = [Out EXCEPT ![r] = value]
<1>1. args[r].op # "load"
  BY DEF UpdateArgs, SnapshotArgs
<1> QED
  BY <1>1 DEF IInv, TypeOK, Out, Return, Goto, Abstract!NoReply

(* Each commit is one step of the abstract log, and so is each refusal and *)
(* each failure; everything else writers do, and every Load, is invisible. *)
LEMMA StepRefines ==
  ASSUME Sizes, IInv, [Next]_vars
  PROVE  [Abstract!WriteNext]_(Abstract!vars)
<1> USE DEF Out
<1> SUFFICES Abstract!WriteNext \/ UNCHANGED <<log, snap, Out>>
  BY DEF Abstract!vars
<1> HIDE DEF Out
<1>1. ASSUME NEW r \in Req, NEW a \in Args, Call(r, a)
      PROVE  UNCHANGED <<log, snap, Out>>
  BY <1>1, OutUnchanged DEF IInv, TypeOK, Call, Goto
<1>2. ASSUME NEW r \in Req, Begin(r) \/ ReadHead(r)
      PROVE  UNCHANGED <<log, snap, Out>>
  BY <1>2, OutUnchanged DEF IInv, TypeOK, Begin, ReadHead, Goto
<1>3. ASSUME NEW r \in Req, LoadSnapshot(r) \/ LoadHead(r)
      PROVE  UNCHANGED <<log, snap, Out>>
  BY <1>3, OutUnchanged DEF IInv, TypeOK, LoadSnapshot, LoadHead, Goto
<1>4. ASSUME NEW r \in Req, NEW value, args[r] \in LoadArgs, Return(r, value),
             UNCHANGED <<log, snap, args>>
      PROVE  UNCHANGED <<log, snap, Out>>
  BY <1>4, OutUnchanged DEF IInv, TypeOK, Return, Goto
<1>5. ASSUME NEW r \in Req, LoadFrames(r)
      PROVE  UNCHANGED <<log, snap, Out>>
  BY <1>4, <1>5 DEF IInv, CallMatches, LoadFrames, Loading
<1>6. ASSUME NEW r \in Req, Abort(r)
      PROVE  Abstract!Fail(r) \/ UNCHANGED <<log, snap, Out>>
  <2>1. CASE args[r] \in LoadArgs
    BY <1>4, <1>6, <2>1 DEF Abort
  <2>2. CASE args[r] \in UpdateArgs \union SnapshotArgs
    BY <1>6, <2>2, OutAfter DEF Abort, Abstract!Fail, Out
  <2>3. pc[r] \in {"begin", "head", "floor", "insert", "upsert"} \union
                    {"loadSnapshot", "loadHead", "loadFrames"}
    BY <1>6 DEF Abort, IInv, TypeOK, Labels
  <2> QED
    BY <2>1, <2>2, <2>3 DEF IInv, CallMatches, Loading
<1>7. ASSUME NEW r \in Req, CommitUpdate(r)
      PROVE  \E d \in Data : Abstract!AppendUpdate(r, d)
  <2>1. /\ seen[r].head = Len(log) /\ pc[r] # "done"
        /\ args[r] \in UpdateArgs \union SnapshotArgs /\ args[r].data \in Data
    BY <1>7 DEF CommitUpdate, IInv, HeadCurrent, CallMatches, UpdateArgs
  <2>2. PICK d \in Data : d = args[r].data
    BY <2>1
  <2>3. Abstract!AppendUpdate(r, d)
    BY <1>7, <2>1, <2>2, OutAfter DEF CommitUpdate, Abstract!AppendUpdate, Out
  <2> QED
    BY <2>3
<1>8. ASSUME NEW r \in Req, pc[r] \in {"floor", "upsert"}
      PROVE  /\ args[r] \in UpdateArgs \union SnapshotArgs
             /\ args[r].data \in Data /\ args[r].floor \in FloorArg
             /\ seen[r].head = Len(log) /\ Len(log) \in Nat
             /\ Floor(r) = Abstract!ClampFloor(args[r].floor, Len(log))
             /\ snap.floor \in Nat /\ Floor(r) \in Nat
             /\ snap.seq \in Nat /\ (snap.seq = 0 => snap.floor = 0)
  <2>1. /\ args[r] \in SnapshotArgs /\ seen[r].head = Len(log)
        /\ Len(log) \in Nat
    BY <1>8 DEF IInv, TypeOK, HeadCurrent, CallMatches
  <2>2. args[r].data \in Data /\ args[r].floor \in FloorArg
    BY <2>1 DEF SnapshotArgs
  <2>3. Floor(r) = ClampFloor(args[r].floor, Len(log))
    BY <2>1 DEF Floor
  <2>4. Abstract!ClampFloor(args[r].floor, Len(log)) = Floor(r)
    BY <2>3 DEF Abstract!ClampFloor, ClampFloor
  <2>5. Floor(r) \in Nat
    BY <2>1, <2>2, <2>3, ClampBounds DEF Sizes
  <2>6. /\ snap.floor \in Nat /\ snap.seq \in Nat
        /\ snap.seq = 0 => snap.floor = 0
    BY DEF IInv, TypeOK, FloorBelowSnapshot, StoredSnapshot, NoSnapshot, Seqs
  <2> QED
    BY <2>1, <2>2, <2>4, <2>5, <2>6
<1>9. ASSUME NEW r \in Req, ReadFloor(r)
      PROVE  \/ \E f \in FloorArg : Abstract!RejectSnapshot(r, f)
             \/ UNCHANGED <<log, snap, Out>>
  <2>1. CASE Stale(snap, Floor(r))
    <3>1. /\ args[r] \in UpdateArgs \union SnapshotArgs
          /\ args[r].floor \in FloorArg
          /\ Abstract!ClampFloor(args[r].floor, Len(log)) < snap.floor
      BY <1>8, <1>9, <2>1 DEF ReadFloor, Stale
    <3>2. PICK f \in FloorArg : f = args[r].floor
      BY <3>1
    <3>3. /\ Return(r, Abstract!StaleReply) /\ pc[r] # "done"
          /\ UNCHANGED <<snap, args, log>>
      BY <1>9, <2>1 DEF ReadFloor
    <3>4. Abstract!RejectSnapshot(r, f)
      BY <3>1, <3>3, <3>2, OutAfter DEF Abstract!RejectSnapshot, Out
    <3> QED
      BY <3>4
  <2>2. CASE ~Stale(snap, Floor(r))
    <3>1. /\ Goto(r, "upsert") /\ pc[r] # "done"
          /\ UNCHANGED <<snap, args, log, reply>>
      BY <1>9, <2>2 DEF ReadFloor
    <3> QED
      BY <3>1, OutUnchanged DEF IInv, TypeOK, Goto
  <2> QED
    BY <2>1, <2>2
<1>10. ASSUME NEW r \in Req, CommitSnapshot(r)
       PROVE  \E d \in Data, f \in FloorArg : Abstract!AppendSnapshot(r, d, f)
  <2>0. PICK d \in Data, f \in FloorArg : d = args[r].data /\ f = args[r].floor
    BY <1>8, <1>10 DEF CommitSnapshot
  <2>1. /\ args[r] \in UpdateArgs \union SnapshotArgs
        /\ d = args[r].data /\ f = args[r].floor /\ seen[r].head = Len(log)
        /\ Floor(r) = Abstract!ClampFloor(f, Len(log))
        /\ Floor(r) >= snap.floor
    BY <1>8, <1>10, <2>0 DEF CommitSnapshot, IInv, HeadCurrent, Stale
  <2>2. /\ snap' = Abstract!Snapshot(Len(log) + 1, Floor(r), d)
        /\ log' = Append(log, Abstract!Entry("snapshot", d))
        /\ Return(r, Abstract!FrameReply(Len(log) + 1, Floor(r)))
        /\ args' = args /\ pc[r] # "done"
    BY <1>10, <2>1 DEF CommitSnapshot, Snapshot, Abstract!Snapshot
  <2>3. /\ Out[r] = Abstract!NoReply
        /\ Out' = [Out EXCEPT ![r] = Abstract!FrameReply(Len(log) + 1, Floor(r))]
    BY <2>1, <2>2, OutAfter
  <2>4. Abstract!AppendSnapshot(r, d, f)
    BY <2>1, <2>2, <2>3 DEF Abstract!AppendSnapshot, Out
  <2> QED
    BY <2>4
<1>11. ASSUME NEW r \in Req, Respond(r)
       PROVE  Abstract!Consume({r})
  BY <1>11 DEF IInv, TypeOK, Respond, Goto, Out, Abstract!Consume,
               Abstract!NoReply
<1>12. CASE UNCHANGED vars
  BY <1>12 DEF vars, Out
<1>13. ASSUME NEW r \in Req,
              \/ Begin(r) \/ ReadHead(r) \/ ReadFloor(r) \/ CommitUpdate(r)
              \/ CommitSnapshot(r) \/ Abort(r) \/ Respond(r)
              \/ LoadSnapshot(r) \/ LoadHead(r) \/ LoadFrames(r)
       PROVE  Abstract!WriteNext \/ UNCHANGED <<log, snap, Out>>
  BY <1>2, <1>3, <1>5, <1>6, <1>7, <1>9, <1>10, <1>11, <1>13
  DEF Abstract!WriteNext
<1> QED
  BY <1>1, <1>12, <1>13 DEF Next

(* The two tables and the advisory lock implement the writers' half of the *)
(* Store interface: aborted transactions and dead processes included.      *)
THEOREM WritersRefine == ASSUME Sizes PROVE Spec => ImplementsWriters
<1>1. Init => Abstract!Init
  BY DEF Init, Abstract!Init, NoSnapshot, Abstract!NoSnapshot, Abstract!NoReply
<1>2. IInv /\ [Next]_vars => [Abstract!WriteNext]_(Abstract!vars)
  BY StepRefines
<1> QED
  BY <1>1, <1>2, Invariant, PTL DEF Spec, ImplementsWriters, Abstract!WriteSpec
=============================================================================
