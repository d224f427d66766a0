--------------------------- MODULE ServicesProofs ----------------------------
(***************************************************************************)
(* What the server's components promise, for every value of the constants, *)
(* as properties of Services.  A behaviour of Services is one of a single  *)
(* part, so each proof is of that part: its invariant holds at first, and  *)
(* is kept by every step, while the others stay as they were.              *)
(***************************************************************************)
EXTENDS Services, FiniteSetTheorems, TLAPS

(* The parts proved about in modules of their own.                         *)
SignProof == INSTANCE SigningProofs WITH
  Request <- Handler, MaxCalls <- MaxSignCalls
TreeProof == INSTANCE FoldersProofs WITH
  MaxCalls <- MaxFolds, backend <- storage, request <- folding,
  calls <- folds, muddled <- tangled
RowProof == INSTANCE UpdateLogPostgresProofs WITH Req <- Request, log <- rows

(* A step of Services is one of the part, or changes nothing of it.        *)
LEMMA PartSteps ==
  ASSUME [Next]_vars
  PROVE  /\ part' = part
         /\ part = "sign" => [Sign!Next]_signVars
         /\ part = "accounts" => [Reg!Next]_accountVars
         /\ part = "trust" => [Trust!Next]_trustVars
         /\ part = "quota" => [Quota!Next]_quotaVars
         /\ part = "access" => [Access!Next]_accessVars
         /\ part = "limits" => [Limits!Next]_limitVars
         /\ part = "login" => [Attempts!Next]_loginVars
         /\ part = "folders" => [Tree!Next]_folderVars
         /\ part = "ranges" => [Ranges!Next]_rangeVars
         /\ part = "rows" => [Rows!Next]_rowVars
BY DEF Next, RequestStep, ProviderStep, LogStep, vars, requestVars,
       providerVars, fileVars

-----------------------------------------------------------------------------
(* ProtectedRanges.  Between a save's check and its write either nothing    *)
(* went through, and then what was checked is still what is stored; or     *)
(* something did, and then in Postgres the revision it is based on, if it  *)
(* has one, is an old one.                                                 *)
Saving ==
  [at : {"idle", "check", "save", "write"}, by : {"owner", "guest"},
   base : Int, new : Ranges!Content, unread : BOOLEAN, over : BOOLEAN]
RangeTypes ==
  /\ keeper \in {"local", "postgres"}
  /\ stored \in [rev : Int, cell : Value, on : BOOLEAN]
  /\ saving \in [Request -> Saving]

CheckHolds(q) ==
  /\ q.at = "check" => ~q.over
  /\ q.at \in {"save", "write"} /\ ~q.unread =>
       /\ ~q.over => Ranges!Enforced(q, stored)
       /\ q.over /\ keeper = "postgres" => q.base = 0 \/ q.base < stored.rev

(* In Postgres nothing is between the comparison and the write, and no     *)
(* save is based on a revision to come.                                    *)
SwapIsAtomic(q) ==
  keeper = "postgres" =>
    q.at # "write" /\ (q.at # "idle" => q.base <= stored.rev)

RangeIInv ==
  /\ RangeTypes
  /\ \A r \in Request : CheckHolds(saving[r]) /\ SwapIsAtomic(saving[r])
  /\ intruded = FALSE

(* A slot that is not used is one, at "idle".                              *)
LEMMA IdleIsSaving ==
  ASSUME Value # {}
  PROVE  /\ Ranges!Idle \in Saving /\ Ranges!Idle.at = "idle"
         /\ ~Ranges!Idle.over /\ ~Ranges!Idle.unread
<1> DEFINE v == CHOOSE w \in Value : TRUE
<1>1. v \in Value
  OBVIOUS
<1>2. [cell |-> v, on |-> FALSE] \in Ranges!Content
  BY <1>1 DEF Ranges!Content
<1>. QED BY <1>2 DEF Ranges!Idle, Saving

(* Nothing is under way at first.                                          *)
LEMMA RangeInit == ASSUME Value # {}, Ranges!Init PROVE RangeIInv
<1> DEFINE v == CHOOSE w \in Value : TRUE
<1>1. v \in Value
  OBVIOUS
<1>2. RangeTypes
  BY <1>1, IdleIsSaving DEF Ranges!Init, RangeTypes
<1>3. \A r \in Request : CheckHolds(saving[r]) /\ SwapIsAtomic(saving[r])
  BY IdleIsSaving DEF Ranges!Init, CheckHolds, SwapIsAtomic
<1>. QED BY <1>2, <1>3 DEF Ranges!Init, RangeIInv

(* A step of one request that saves nothing keeps the invariant, if it     *)
(* keeps it for that request.                                              *)
LEMMA SaveGoes ==
  ASSUME RangeIInv, NEW r \in Request, NEW q \in Saving, Ranges!Goes(r, q),
         UNCHANGED <<keeper, stored, intruded>>,
         CheckHolds(q), SwapIsAtomic(q)
  PROVE  RangeIInv'
<1>1. saving' = [saving EXCEPT ![r] = q] /\ saving \in [Request -> Saving]
  BY DEF Ranges!Goes, RangeIInv, RangeTypes
<1>2. RangeTypes'
  BY <1>1 DEF RangeIInv, RangeTypes
<1>3. ASSUME NEW s \in Request
      PROVE  CheckHolds(saving[s])' /\ SwapIsAtomic(saving[s])'
  <2>1. CASE s = r
    <3>1. saving'[s] = q
      BY <1>1, <2>1
    <3>. QED BY <3>1 DEF CheckHolds, SwapIsAtomic, Ranges!Enforced
  <2>2. CASE s # r
    <3>1. saving'[s] = saving[s]
      BY <1>1, <2>2
    <3>2. CheckHolds(saving[s]) /\ SwapIsAtomic(saving[s])
      BY DEF RangeIInv
    <3>. QED BY <3>1, <3>2 DEF CheckHolds, SwapIsAtomic, Ranges!Enforced
  <2>. QED BY <2>1, <2>2
<1>. QED BY <1>2, <1>3 DEF RangeIInv

(* So does one that ends a request.                                        *)
LEMMA SaveEnds ==
  ASSUME Value # {}, RangeIInv, NEW r \in Request, Ranges!Goes(r, Ranges!Idle),
         UNCHANGED <<keeper, stored, intruded>>
  PROVE  RangeIInv'
<1>1. CheckHolds(Ranges!Idle) /\ SwapIsAtomic(Ranges!Idle)
  BY IdleIsSaving DEF CheckHolds, SwapIsAtomic
<1>. QED BY <1>1, IdleIsSaving, SaveGoes

(* A request that is called is not past its check.                         *)
LEMMA SaveCallKeeps ==
  ASSUME Value # {}, RangeIInv, NEW r \in Request, Ranges!Call(r)
  PROVE  RangeIInv'
<1>1. PICK by \in {"owner", "guest"}, base \in Ranges!AsRead..stored.rev,
           new \in Ranges!Content :
        Ranges!Goes(r, [Ranges!Idle EXCEPT !.at = "check", !.by = by,
                                           !.base = base, !.new = new])
  BY DEF Ranges!Call
<1> DEFINE q == [Ranges!Idle EXCEPT !.at = "check", !.by = by, !.base = base,
                             !.new = new]
<1>2. stored.rev \in Int
  BY DEF RangeIInv, RangeTypes
<1>3. base <= stored.rev /\ base \in Int
  BY <1>2 DEF Ranges!AsRead
<1>4. q \in Saving /\ q.at = "check" /\ q.base = base /\ ~q.over
  BY <1>3, IdleIsSaving DEF Saving
<1>5. Ranges!Goes(r, q)
  BY <1>1
<1> HIDE DEF q
<1>6. CheckHolds(q) /\ SwapIsAtomic(q)
  BY <1>3, <1>4 DEF CheckHolds, SwapIsAtomic
<1>. QED BY <1>4, <1>5, <1>6, SaveGoes DEF Ranges!Call

(* A save is past its check with what the check compared.                  *)
LEMMA CheckKeeps ==
  ASSUME Value # {}, RangeIInv, NEW r \in Request, Ranges!Check(r)
  PROVE  RangeIInv'
<1> DEFINE q == saving[r]
           base == IF q.base = Ranges!AsRead THEN stored.rev ELSE q.base
           p == [q EXCEPT !.at = "save", !.base = base]
<1>1. q \in Saving /\ stored.rev \in Int /\ q.at = "check"
  BY DEF RangeIInv, RangeTypes, Ranges!Check
<1>2. ~q.over /\ (keeper = "postgres" => q.base <= stored.rev)
  BY <1>1 DEF RangeIInv, SwapIsAtomic, CheckHolds
<1>3. CASE Ranges!Enforced(q, stored)
  <2>1. Ranges!Goes(r, p)
    BY <1>3 DEF Ranges!Check
  <2>2. base \in Int /\ (keeper = "postgres" => base <= stored.rev)
    BY <1>1, <1>2 DEF Saving
  <2> HIDE DEF base
  <2>3. /\ p \in Saving /\ p.at = "save" /\ p.by = q.by /\ p.base = base
        /\ p.new = q.new /\ p.over = q.over
    BY <1>1, <2>2 DEF Saving
  <2> HIDE DEF p
  <2>4. CheckHolds(p) /\ SwapIsAtomic(p)
    BY <1>2, <1>3, <2>2, <2>3 DEF CheckHolds, SwapIsAtomic, Ranges!Enforced
  <2>. QED BY <2>1, <2>3, <2>4, SaveGoes DEF Ranges!Check
<1>4. CASE ~Ranges!Enforced(q, stored)
  BY <1>4, SaveEnds DEF Ranges!Check
<1>. QED BY <1>3, <1>4

(* A save whose check failed is marked.                                    *)
LEMMA CheckFailsKeeps ==
  ASSUME Value # {}, RangeIInv, NEW r \in Request, Ranges!CheckFails(r)
  PROVE  RangeIInv'
<1> DEFINE q == saving[r]
           p == [q EXCEPT !.at = "save", !.unread = TRUE]
<1>1. q \in Saving /\ q.at = "check"
  BY DEF RangeIInv, RangeTypes, Ranges!CheckFails
<1>2. keeper = "postgres" => q.base <= stored.rev
  BY <1>1 DEF RangeIInv, SwapIsAtomic
<1>3. CASE q.base # Ranges!AsRead
  <2>1. Ranges!Goes(r, p)
    BY <1>3 DEF Ranges!CheckFails
  <2>2. /\ p \in Saving /\ p.at = "save" /\ p.base = q.base
        /\ p.unread = TRUE
    BY <1>1 DEF Saving
  <2> HIDE DEF p
  <2>3. CheckHolds(p) /\ SwapIsAtomic(p)
    BY <1>2, <2>2 DEF CheckHolds, SwapIsAtomic
  <2>. QED BY <2>1, <2>2, <2>3, SaveGoes DEF Ranges!CheckFails
<1>4. CASE q.base = Ranges!AsRead
  BY <1>4, SaveEnds DEF Ranges!CheckFails
<1>. QED BY <1>3, <1>4

(* A write keeps the invariant, if in Postgres it swaps the revision for   *)
(* the next: it intrudes on nothing, and the others are based on old ones. *)
LEMMA WrittenKeeps ==
  ASSUME Value # {}, RangeIInv, NEW r \in Request, NEW rev \in Int,
         saving[r].at \in {"save", "write"}, Ranges!Written(r, rev),
         keeper = "postgres" => /\ saving[r].base \in {0, stored.rev}
                                 /\ rev = stored.rev + 1
  PROVE  RangeIInv'
<1> DEFINE q == saving[r]
           changes == stored.on /\ ~(q.new.cell = stored.cell /\ q.new.on)
           Over(s) == [saving[s] EXCEPT !.over = TRUE]
<1>1. /\ saving \in [Request -> Saving] /\ stored.rev \in Int
      /\ q \in Saving /\ q.new \in Ranges!Content
      /\ CheckHolds(q) /\ keeper \in {"local", "postgres"}
  BY DEF RangeIInv, RangeTypes, Saving
<1>2. stored' = [rev |-> rev, cell |-> q.new.cell, on |-> q.new.on]
  BY DEF Ranges!Written
<1>3. keeper' = keeper
  BY DEF Ranges!Written
<1>4. ASSUME NEW s \in Request
      PROVE  saving'[s] = IF s = r THEN Ranges!Idle
                           ELSE IF saving[s].at \in {"save", "write"}
                             THEN Over(s)
                           ELSE saving[s]
  BY DEF Ranges!Written
<1>5. intruded' = FALSE
  <2>1. intruded' = (intruded \/ (q.by = "guest" /\ changes
          /\ ~(q.unread \/ (q.over /\ (q.base = 0 \/ keeper = "local")))))
    BY DEF Ranges!Written
  <2>2. ~q.unread /\ ~q.over /\ q.by = "guest" => ~changes
    BY <1>1 DEF CheckHolds, Ranges!Enforced
  <2>3. ~q.unread /\ q.over => q.base = 0 \/ keeper = "local"
    BY <1>1 DEF CheckHolds, Saving
  <2> HIDE DEF changes, q
  <2>. QED BY <2>1, <2>2, <2>3 DEF RangeIInv
<1>6. RangeTypes'
  <2>1. ASSUME NEW s \in Request PROVE saving'[s] \in Saving
    <3>1. saving[s] \in Saving
      BY <1>1
    <3>2. Over(s) \in Saving
      BY <3>1 DEF Saving
    <3> HIDE DEF Over
    <3>. QED BY <1>4, <3>1, <3>2, IdleIsSaving
  <2>2. saving' = [s \in Request |-> saving'[s]]
    BY DEF Ranges!Written
  <2>3. saving' \in [Request -> Saving]
    BY <2>1, <2>2
  <2>4. stored' \in [rev : Int, cell : Value, on : BOOLEAN]
    BY <1>1, <1>2 DEF Ranges!Content
  <2>. QED BY <1>1, <1>3, <2>3, <2>4 DEF RangeTypes
<1>7. ASSUME NEW s \in Request
      PROVE  CheckHolds(saving[s])' /\ SwapIsAtomic(saving[s])'
  <2>1. /\ saving[s] \in Saving /\ CheckHolds(saving[s])
        /\ SwapIsAtomic(saving[s])
    BY <1>1 DEF RangeIInv
  <2>2. stored'.rev = rev
    BY <1>2
  <2>3. CASE s = r
    <3>1. saving'[s] = Ranges!Idle
      BY <1>4, <2>3
    <3>. QED BY <3>1, IdleIsSaving DEF CheckHolds, SwapIsAtomic
  <2>4. CASE s # r /\ saving[s].at \in {"save", "write"}
    <3>1. saving'[s] = Over(s)
      BY <1>4, <2>4
    <3>2. /\ Over(s).at = saving[s].at /\ Over(s).base = saving[s].base
          /\ Over(s).over = TRUE
      BY <2>1 DEF Saving
    <3>3. keeper = "postgres" => saving[s].base < rev
      BY <1>1, <2>1, <2>4 DEF SwapIsAtomic, Saving
    <3> HIDE DEF Over
    <3>. QED
      BY <1>1, <1>3, <2>1, <2>2, <2>4, <3>1, <3>2, <3>3
      DEF CheckHolds, SwapIsAtomic, Saving
  <2>5. CASE s # r /\ saving[s].at \notin {"save", "write"}
    <3>1. saving'[s] = saving[s]
      BY <1>4, <2>5
    <3>. QED
      BY <1>1, <1>3, <2>1, <2>2, <2>5, <3>1
      DEF CheckHolds, SwapIsAtomic, Saving
  <2>. QED BY <2>3, <2>4, <2>5
<1>. QED BY <1>5, <1>6, <1>7 DEF RangeIInv

(* A save: refused, compared on the disk, or done in Postgres.             *)
LEMMA SaveKeeps ==
  ASSUME Value # {}, RangeIInv, NEW r \in Request, Ranges!Save(r)
  PROVE  RangeIInv'
<1> DEFINE q == saving[r]
           p == [q EXCEPT !.at = "write", !.base = stored.rev]
<1>1. q \in Saving /\ q.at = "save" /\ stored.rev \in Int /\ CheckHolds(q)
  BY DEF RangeIInv, RangeTypes, Ranges!Save
<1>2. CASE Ranges!Goes(r, Ranges!Idle) /\ UNCHANGED <<keeper, stored, intruded>>
  BY <1>2, SaveEnds
<1>3. CASE /\ keeper = "local"
           /\ Ranges!Goes(r, [q EXCEPT !.at = "write", !.base = stored.rev])
           /\ UNCHANGED <<keeper, stored, intruded>>
  <2>1. Ranges!Goes(r, p)
    BY <1>3
  <2>2. /\ p \in Saving /\ p.at = "write" /\ p.by = q.by /\ p.new = q.new
        /\ p.unread = q.unread /\ p.over = q.over
    BY <1>1 DEF Saving
  <2> HIDE DEF p
  <2>3. CheckHolds(p) /\ SwapIsAtomic(p)
    BY <1>1, <1>3, <2>2 DEF CheckHolds, SwapIsAtomic, Ranges!Enforced
  <2>. QED BY <1>3, <2>1, <2>2, <2>3, SaveGoes
<1>4. CASE Ranges!Swaps(q) /\ keeper = "postgres" /\ Ranges!Written(r, stored.rev + 1)
  <2>1. q.base \in {0, stored.rev}
    BY <1>4 DEF Ranges!Swaps
  <2>2. stored.rev + 1 \in Int
    BY <1>1
  <2>. QED BY <1>1, <1>4, <2>1, <2>2, WrittenKeeps
<1>. QED BY <1>2, <1>3, <1>4 DEF Ranges!Save

(* A write to the disk, whatever was saved since.                          *)
LEMMA WriteKeeps ==
  ASSUME Value # {}, RangeIInv, NEW r \in Request, Ranges!Write(r)
  PROVE  RangeIInv'
<1>1. saving[r] \in Saving /\ saving[r].at = "write"
  BY DEF RangeIInv, RangeTypes, Ranges!Write
<1>2. saving[r].base + 1 \in Int
  BY <1>1 DEF Saving
<1>3. keeper # "postgres"
  BY <1>1 DEF RangeIInv, SwapIsAtomic
<1>. QED BY <1>1, <1>2, <1>3, WrittenKeeps DEF Ranges!Write

(* A step in which nothing changes keeps it.                               *)
LEMMA RangeStutters == ASSUME RangeIInv, UNCHANGED rangeVars PROVE RangeIInv'
BY DEF RangeIInv, RangeTypes, CheckHolds, SwapIsAtomic, Ranges!Enforced,
       rangeVars

(* Every step keeps the invariant.                                         *)
LEMMA RangeStepKeeps ==
  ASSUME Value # {}, RangeIInv, [Ranges!Next]_rangeVars
  PROVE  RangeIInv'
BY SaveCallKeeps, CheckKeeps, CheckFailsKeeps, SaveKeeps,
   WriteKeeps, RangeStutters DEF Ranges!Next

RangesInv == part = "ranges" => RangeIInv

LEMMA RangesStart == Init => RangesInv
BY RangeInit, CellsHoldValues DEF Init, RangesInv

LEMMA RangesGoOn == ASSUME RangesInv, [Next]_vars PROVE RangesInv'
BY PartSteps, RangeStepKeeps, CellsHoldValues DEF RangesInv

(* protected_ranges.go: a protected cell stays as it is, whatever one who  *)
(* may not edit it saves at the revision he read.                          *)
THEOREM CellsAreProtected == Spec => []RangeKept
<1>1. RangesInv => RangeKept
  BY DEF RangesInv, RangeKept, RangeIInv, Ranges!RangeKept
<1> QED
  BY <1>1, RangesStart, RangesGoOn, PTL DEF Spec

-----------------------------------------------------------------------------
(* UpdateLogPostgres.                                                      *)
RowsInv == part = "rows" => RowProof!IInv

LEMMA RowSizes == RowProof!Sizes
BY RequestsAreFinite, PositionsAreNumbers DEF RowProof!Sizes

LEMMA RowsStart == Init => RowsInv
<1>1. Rows!Init => RowProof!Init
  BY DEF Rows!Init, RowProof!Init, Rows!NoArgs, RowProof!NoArgs,
         Rows!NothingSeen, RowProof!NothingSeen, Rows!NoSnapshot,
         RowProof!NoSnapshot, Rows!Abstract!NoReply, RowProof!Abstract!NoReply
<1> QED
  BY <1>1, RowSizes, RowProof!InitIInv DEF Init, RowsInv

LEMMA RowsSame == [Rows!Next]_rowVars => [RowProof!Next]_(RowProof!vars)
<1> USE DEF Rows!Goto, RowProof!Goto, Rows!Return, RowProof!Return,
            Rows!NothingSeen, RowProof!NothingSeen,
            Rows!NoSnapshot, RowProof!NoSnapshot
<1>1. ASSUME NEW r, NEW a PROVE Rows!Call(r, a) <=> RowProof!Call(r, a)
  BY DEF Rows!Call, RowProof!Call, Rows!Cardinality, RowProof!Cardinality
<1>2. Rows!Args = RowProof!Args
  BY DEF Rows!Args, RowProof!Args, Rows!UpdateArgs, RowProof!UpdateArgs,
         Rows!SnapshotArgs, RowProof!SnapshotArgs, Rows!LoadArgs,
         RowProof!LoadArgs
<1>3. Rows!HeadSeq(snap, frames) = RowProof!HeadSeq(snap, frames)
  BY DEF Rows!HeadSeq, RowProof!HeadSeq, Rows!Max, RowProof!Max
<1>4. ASSUME NEW r
      PROVE  /\ Rows!Begin(r) <=> RowProof!Begin(r)
             /\ Rows!ReadHead(r) <=> RowProof!ReadHead(r)
             /\ Rows!LoadSnapshot(r) <=> RowProof!LoadSnapshot(r)
             /\ Rows!LoadHead(r) <=> RowProof!LoadHead(r)
  BY <1>3 DEF Rows!Begin, RowProof!Begin, Rows!ReadHead, RowProof!ReadHead,
              Rows!LoadSnapshot, RowProof!LoadSnapshot,
              Rows!LoadHead, RowProof!LoadHead
<1>5. ASSUME NEW r
      PROVE  /\ Rows!ReadFloor(r) <=> RowProof!ReadFloor(r)
             /\ Rows!CommitUpdate(r) <=> RowProof!CommitUpdate(r)
             /\ Rows!CommitSnapshot(r) <=> RowProof!CommitSnapshot(r)
  BY DEF Rows!ReadFloor, RowProof!ReadFloor, Rows!Floor, RowProof!Floor,
         Rows!ClampFloor, RowProof!ClampFloor, Rows!Stale, RowProof!Stale,
         Rows!CommitUpdate, RowProof!CommitUpdate,
         Rows!CommitSnapshot, RowProof!CommitSnapshot,
         Rows!UpdateFrame, RowProof!UpdateFrame,
         Rows!Snapshot, RowProof!Snapshot, Rows!Above, RowProof!Above,
         Rows!Abstract!Entry, RowProof!Abstract!Entry,
         Rows!Abstract!StaleReply, RowProof!Abstract!StaleReply,
         Rows!Abstract!FrameReply, RowProof!Abstract!FrameReply
<1>6. ASSUME NEW r
      PROVE  /\ Rows!LoadFrames(r) <=> RowProof!LoadFrames(r)
             /\ Rows!Abort(r) <=> RowProof!Abort(r)
             /\ Rows!Respond(r) <=> RowProof!Respond(r)
  BY DEF Rows!LoadFrames, RowProof!LoadFrames, Rows!Above, RowProof!Above,
         Rows!Abort, RowProof!Abort, Rows!Respond, RowProof!Respond,
         Rows!NoArgs, RowProof!NoArgs,
         Rows!Abstract!NoReply, RowProof!Abstract!NoReply,
         Rows!Abstract!Failed, RowProof!Abstract!Failed,
         Rows!Abstract!LogReply, RowProof!Abstract!LogReply
<1> QED
  BY <1>1, <1>2, <1>4, <1>5, <1>6
  DEF Rows!Next, RowProof!Next, rowVars, RowProof!vars

LEMMA RowsGoOn == ASSUME RowsInv, [Next]_vars PROVE RowsInv'
BY RowsSame, PartSteps, RowSizes, RowProof!StepKeepsIInv DEF RowsInv

(* postgres.go: a Load misses an update only if a compaction committed     *)
(* between its statements, and then loading again from 0 gets it.          *)
THEOREM LoadsAreTornOnlyByCompaction == Spec => []TornLoadOnlyByCompaction
<1>1. RowsInv => TornLoadOnlyByCompaction
  BY DEF RowsInv, RowProof!IInv, RowProof!AnswerOfThePast,
         TornLoadOnlyByCompaction, Rows!TornLoadOnlyByCompaction,
         Rows!Loaded, RowProof!Loaded, Rows!Missing, RowProof!Missing,
         Rows!Abstract!Updates, RowProof!Abstract!Updates,
         Rows!Abstract!UpdateFrame, RowProof!Abstract!UpdateFrame
<1> QED
  BY <1>1, RowsStart, RowsGoOn, PTL DEF Spec

(* What the writers of the log show is the same in both readings.          *)
LEMMA WritersSame ==
  ASSUME [RowProof!Abstract!WriteNext]_(RowProof!Abstract!vars)
  PROVE  [Rows!Abstract!WriteNext]_(Rows!Abstract!vars)
<1> USE DEF Rows!Abstract!NoReply, RowProof!Abstract!NoReply
<1>1. ASSUME NEW r, NEW d
      PROVE  Rows!Abstract!AppendUpdate(r, d)
               <=> RowProof!Abstract!AppendUpdate(r, d)
  BY DEF Rows!Abstract!AppendUpdate, RowProof!Abstract!AppendUpdate,
         Rows!Abstract!Entry, RowProof!Abstract!Entry,
         Rows!Abstract!FrameReply, RowProof!Abstract!FrameReply
<1>2. ASSUME NEW r, NEW f
      PROVE  /\ Rows!Abstract!RejectSnapshot(r, f)
                  <=> RowProof!Abstract!RejectSnapshot(r, f)
             /\ \A d : Rows!Abstract!AppendSnapshot(r, d, f)
                         <=> RowProof!Abstract!AppendSnapshot(r, d, f)
  BY DEF Rows!Abstract!AppendSnapshot, RowProof!Abstract!AppendSnapshot,
         Rows!Abstract!RejectSnapshot, RowProof!Abstract!RejectSnapshot,
         Rows!Abstract!ClampFloor, RowProof!Abstract!ClampFloor,
         Rows!Abstract!Snapshot, RowProof!Abstract!Snapshot,
         Rows!Abstract!Entry, RowProof!Abstract!Entry,
         Rows!Abstract!StaleReply, RowProof!Abstract!StaleReply,
         Rows!Abstract!FrameReply, RowProof!Abstract!FrameReply
<1>3. ASSUME NEW r
      PROVE  Rows!Abstract!Fail(r) <=> RowProof!Abstract!Fail(r)
  BY DEF Rows!Abstract!Fail, RowProof!Abstract!Fail,
         Rows!Abstract!Failed, RowProof!Abstract!Failed
<1>4. ASSUME NEW R
      PROVE  Rows!Abstract!Consume(R) <=> RowProof!Abstract!Consume(R)
  BY DEF Rows!Abstract!Consume, RowProof!Abstract!Consume
<1>5. CASE RowProof!Abstract!WriteNext
  BY <1>1, <1>2, <1>3, <1>4, <1>5
  DEF Rows!Abstract!WriteNext, RowProof!Abstract!WriteNext
<1>6. CASE UNCHANGED RowProof!Abstract!vars
  BY <1>6 DEF Rows!Abstract!vars, RowProof!Abstract!vars
<1> QED
  BY <1>5, <1>6

(* postgres.go: what several server processes append, one advisory lock    *)
(* between them, implements the writing half of the Store interface.       *)
THEOREM WritersAreOneLog == Spec => ImplementsWriters
<1>1. Init => (part = "rows" => Rows!Abstract!Init)
  BY DEF Init, Rows!Init, Rows!Abstract!Init, Rows!Abstract!NoReply,
         Rows!Abstract!NoSnapshot, Rows!NoSnapshot
<1>2. RowsInv /\ [Next]_vars =>
        [part = "rows" => [Rows!Abstract!WriteNext]_(Rows!Abstract!vars)]_rowVars
  BY RowsSame, PartSteps, RowSizes, RowProof!StepRefines, WritersSame
  DEF RowsInv
<1> QED
  BY <1>1, <1>2, RowsStart, RowsGoOn, PTL DEF Spec, ImplementsWriters

-----------------------------------------------------------------------------
(* Limiters.  What flowed back into the bucket pays for every request let  *)
(* in: the requests of a mark's time and what the bucket holds add up to a *)
(* burst and the time since.  The window's invariant counts the one under  *)
(* way apart.                                                              *)
BucketPays == allowed.bucket * Cost + Limits!Holds <= Cap + (now - mark)

WindowPays ==
  IF ~entry.there
    THEN allowed.window * Window <= Limit * (Window + (now - mark))
  ELSE IF entry.start < mark
    THEN allowed.window <= entry.count
  ELSE allowed.window * Window
         <= Limit * (Window + (entry.start - mark)) + entry.count * Window

PromisesKept ==
  /\ promised.bucket.due /\ bucket.there =>
       Cost + bucket.last <= bucket.tokens + promised.bucket.at
  /\ promised.window.due /\ entry.there =>
       entry.start + Window <= promised.window.at

LimiterInv == Limits!TypeOK /\ BucketPays /\ WindowPays /\ PromisesKept

-----------------------------------------------------------------------------
(* One more of what is counted costs one size more.                        *)
LEMMA OneMore ==
  ASSUME NEW n \in Nat, NEW size \in Nat
  PROVE  /\ n * size \in Nat
         /\ (n + 1) * size = n * size + size
BY SMT

(* The constants' products are numbers, and the limit costs a window at    *)
(* least.                                                                  *)
LEMMA LimitCosts ==
  /\ Limit * Window \in Nat
  /\ Window <= Limit * Window
BY SMT, LimitsAreSet

(* What the bucket holds is between nothing and its capacity.              *)
LEMMA HoldsBounded ==
  ASSUME Limits!TypeOK
  PROVE  Limits!Holds \in 0..Cap
BY LimitsAreSet DEF Limits!TypeOK, Limits!Holds, Limits!Refilled,
   Limits!Smaller

(* The limiters start with the invariant.                                  *)
LEMMA LimiterStarts == ASSUME Limits!Init PROVE LimiterInv
<1>1. Limits!TypeOK
  BY LimitsAreSet DEF Limits!Init, Limits!TypeOK, Limits!NoBucket,
     Limits!NoEntry, Limits!None, Limits!NoPromise, Limits!Promise
<1>2. BucketPays
  BY LimitsAreSet DEF Limits!Init, BucketPays, Limits!Holds, Limits!NoBucket,
     Limits!None
<1>3. WindowPays
  BY LimitCosts, LimitsAreSet DEF Limits!Init, WindowPays, Limits!NoEntry,
     Limits!None
<1>4. PromisesKept
  BY DEF Limits!Init, PromisesKept, Limits!NoPromise
<1>. QED BY <1>1, <1>2, <1>3, <1>4 DEF LimiterInv

(* A call of the token bucket: if the bucket is new or was idle for long   *)
(* it is as a full one, otherwise what flowed back is added first.         *)
LEMMA AllowBucketKeeps ==
  ASSUME LimiterInv, Limits!AllowBucket
  PROVE  LimiterInv'
<1> DEFINE full == ~bucket.there \/ Limits!Idle
           tokens == IF full THEN Cap ELSE Limits!Refilled
           let == full \/ tokens >= Cost
<1>1. Limits!TypeOK /\ BucketPays /\ WindowPays /\ PromisesKept
  BY DEF LimiterInv
<1>2. /\ tokens \in 0..Cap
      /\ tokens = Limits!Holds
  BY <1>1, LimitsAreSet DEF Limits!TypeOK, Limits!Holds, Limits!Refilled,
     Limits!Smaller, Limits!Idle
<1>3. UNCHANGED <<now, entry, mark>>
  BY DEF Limits!AllowBucket
<1>4. bucket' = [there |-> TRUE, last |-> now,
                 tokens |-> IF let THEN tokens - Cost ELSE tokens]
  BY DEF Limits!AllowBucket
<1>5. IF let THEN Limits!Letting("bucket")
             ELSE Limits!Refusing("bucket", Cost - tokens)
  BY DEF Limits!AllowBucket
<1>6. let => tokens >= Cost
  BY <1>1, <1>2, LimitsAreSet
<1> HIDE DEF let, full, tokens
<1>7. CASE let
  <2>1. /\ allowed' = [bucket |-> allowed.bucket + 1,
                       window |-> allowed.window]
        /\ promised' = [bucket |-> Limits!NoPromise, window |-> promised.window]
    BY <1>1, <1>5, <1>7 DEF Limits!Letting, Limits!TypeOK
  <2>2. /\ bucket' = [there |-> TRUE, last |-> now, tokens |-> tokens - Cost]
        /\ tokens - Cost \in 0..Cap
        /\ now \in Nat /\ mark \in 0..now
    BY <1>1, <1>2, <1>4, <1>6, <1>7, LimitsAreSet DEF Limits!TypeOK
  <2>3. Limits!TypeOK'
    <3>1. bucket' \in [there : BOOLEAN, tokens : 0..Cap, last : 0..now]
      BY <2>2
    <3>2. /\ allowed' \in [bucket : Nat, window : Nat]
          /\ promised' \in [bucket : Limits!Promise, window : Limits!Promise]
      BY <1>1, <2>1 DEF Limits!TypeOK, Limits!NoPromise, Limits!Promise
    <3>. QED BY <1>1, <1>3, <3>1, <3>2 DEF Limits!TypeOK
  <2>4. Limits!Holds' = tokens - Cost
    <3>1. /\ bucket'.there /\ bucket'.tokens = tokens - Cost
          /\ bucket'.last = now /\ now' = now
      BY <1>3, <2>2
    <3>. QED BY <1>2, <2>2, <3>1, LimitsAreSet DEF Limits!Holds,
                Limits!Refilled, Limits!Smaller
  <2>5. allowed.bucket \in Nat /\ allowed'.bucket = allowed.bucket + 1
    BY <1>1, <2>1 DEF Limits!TypeOK
  <2>6. BucketPays'
    <3>1. /\ allowed.bucket * Cost \in Nat
          /\ allowed'.bucket * Cost = allowed.bucket * Cost + Cost
      BY <2>5, OneMore, LimitsAreSet
    <3>2. now \in Nat /\ mark \in Nat
      BY <1>1 DEF Limits!TypeOK
    <3>. QED BY <1>1, <1>2, <1>3, <2>4, <3>1, <3>2, LimitsAreSet DEF
                BucketPays
  <2>7. WindowPays'
    BY <1>1, <1>3, <2>1 DEF WindowPays, Limits!TypeOK
  <2>8. PromisesKept'
    BY <1>1, <1>3, <2>1, <2>2 DEF PromisesKept, Limits!TypeOK,
       Limits!NoPromise
  <2>. QED BY <2>3, <2>6, <2>7, <2>8 DEF LimiterInv
<1>8. CASE ~let
  <2>1. /\ allowed' = allowed
        /\ promised' = [bucket |-> [due |-> TRUE, at |-> now + (Cost - tokens)],
                        window |-> promised.window]
    BY <1>1, <1>5, <1>8 DEF Limits!Refusing, Limits!TypeOK
  <2>2. bucket' = [there |-> TRUE, last |-> now, tokens |-> tokens]
    BY <1>4, <1>8
  <2>3. tokens < Cost
    BY <1>2, <1>8, LimitsAreSet DEF let
  <2>4. Limits!TypeOK'
    <3>1. now \in Nat /\ Cost - tokens \in Nat
      BY <1>1, <1>2, <2>3, LimitsAreSet DEF Limits!TypeOK
    <3>2. bucket' \in [there : BOOLEAN, tokens : 0..Cap, last : 0..now]
      BY <1>2, <2>2, <3>1
    <3>3. promised' \in [bucket : Limits!Promise, window : Limits!Promise]
      BY <1>1, <2>1, <3>1 DEF Limits!TypeOK, Limits!Promise
    <3>. QED BY <1>1, <1>3, <2>1, <3>2, <3>3 DEF Limits!TypeOK
  <2>5. Limits!Holds' = tokens
    <3>1. /\ bucket'.there /\ bucket'.tokens = tokens
          /\ bucket'.last = now /\ now' = now /\ now \in Nat
      BY <1>1, <1>3, <2>2 DEF Limits!TypeOK
    <3>. QED BY <1>2, <3>1, LimitsAreSet DEF Limits!Holds, Limits!Refilled,
                Limits!Smaller
  <2>6. BucketPays'
    BY <1>1, <1>2, <1>3, <2>1, <2>5 DEF BucketPays
  <2>7. WindowPays'
    BY <1>1, <1>3, <2>1 DEF WindowPays, Limits!TypeOK
  <2>8. PromisesKept'
    BY <1>1, <1>2, <1>3, <2>1, <2>2, LimitsAreSet DEF PromisesKept,
       Limits!TypeOK
  <2>. QED BY <2>4, <2>6, <2>7, <2>8 DEF LimiterInv
<1>. QED BY <1>7, <1>8

(* A bucket idle for long enough is pruned: a full one was as good.        *)
LEMMA PruneBucketKeeps ==
  ASSUME LimiterInv, Limits!PruneBucket
  PROVE  LimiterInv'
<1>1. Limits!TypeOK /\ BucketPays /\ WindowPays /\ PromisesKept
  BY DEF LimiterInv
<1>2. /\ bucket' = Limits!NoBucket
      /\ UNCHANGED <<now, entry, mark, allowed, promised>>
  BY DEF Limits!PruneBucket
<1>3. Limits!TypeOK'
  BY <1>1, <1>2, LimitsAreSet DEF Limits!TypeOK, Limits!NoBucket
<1>4. Limits!Holds' = Limits!Holds
  BY <1>1, <1>2, LimitsAreSet DEF Limits!PruneBucket, Limits!Idle,
     Limits!Holds, Limits!Refilled, Limits!Smaller, Limits!NoBucket,
     Limits!TypeOK
<1>5. BucketPays'
  BY <1>1, <1>2, <1>4 DEF BucketPays
<1>6. WindowPays'
  BY <1>1, <1>2 DEF WindowPays
<1>7. PromisesKept'
  BY <1>1, <1>2 DEF PromisesKept, Limits!NoBucket
<1>. QED BY <1>3, <1>5, <1>6, <1>7 DEF LimiterInv

(* Of a window that is over, or of none, what was let in is paid for.      *)
LEMMA OverPays ==
  ASSUME LimiterInv, ~entry.there \/ Limits!Over
  PROVE  allowed.window * Window <= Limit * (Window + (now - mark))
<1>a. Limits!TypeOK /\ WindowPays
  BY DEF LimiterInv
<1>b. now \in Nat /\ mark \in 0..now /\ allowed.window \in Nat
  BY <1>a DEF Limits!TypeOK
<1>1. CASE ~entry.there
  BY <1>a, <1>1 DEF WindowPays
<1>2. CASE entry.there /\ entry.start < mark
  <2>1. /\ entry.start + Window <= now
        /\ allowed.window <= Limit
    BY <1>a, <1>b, <1>2, LimitsAreSet DEF WindowPays, Limits!Over,
       Limits!TypeOK
  <2>2. /\ allowed.window * Window <= Limit * Window
        /\ Limit * Window <= Limit * (Window + (now - mark))
    BY <1>b, <2>1, SMTT(30), LimitsAreSet
  <2>3. /\ allowed.window * Window \in Nat /\ Limit * Window \in Nat
        /\ Limit * (Window + (now - mark)) \in Nat
    BY <1>b, SMTT(30), LimitsAreSet
  <2>. QED BY <2>2, <2>3
<1>3. CASE entry.there /\ ~(entry.start < mark)
  <2>1. /\ entry.start + Window <= now /\ entry.start - mark \in Nat
        /\ entry.count \in 0..Limit /\ entry.start \in Nat
    BY <1>a, <1>b, <1>3, LimitsAreSet DEF Limits!Over, Limits!TypeOK
  <2>2. allowed.window * Window
          <= Limit * (Window + (entry.start - mark)) + entry.count * Window
    BY <1>a, <1>3 DEF WindowPays
  <2>3. entry.count * Window <= Limit * Window
    BY <2>1, SMTT(30), LimitsAreSet
  <2>4. Limit * (Window + (entry.start - mark)) + Limit * Window
          = Limit * (Window + (entry.start + Window - mark))
    BY <1>b, <2>1, SMTT(30), LimitsAreSet
  <2>5. Limit * (Window + (entry.start + Window - mark))
          <= Limit * (Window + (now - mark))
    BY <1>b, <2>1, SMTT(30), LimitsAreSet
  <2>6. /\ allowed.window * Window \in Nat /\ Limit * Window \in Nat
        /\ entry.count * Window \in Nat
        /\ Limit * (Window + (now - mark)) \in Nat
        /\ Limit * (Window + (entry.start - mark)) \in Nat
        /\ Limit * (Window + (entry.start + Window - mark)) \in Nat
    BY <1>b, <2>1, SMTT(30), LimitsAreSet
  <2>. QED BY <2>2, <2>3, <2>4, <2>5, <2>6
<1>. QED BY <1>1, <1>2, <1>3

(* A call of the window in which a new one begins.                         *)
LEMMA WindowBegins ==
  ASSUME LimiterInv, Limits!AllowWindow, ~entry.there \/ Limits!Over
  PROVE  LimiterInv'
<1>1. Limits!TypeOK /\ BucketPays /\ WindowPays /\ PromisesKept
  BY DEF LimiterInv
<1>2. /\ entry' = [there |-> TRUE, count |-> 1, start |-> now]
      /\ Limits!Letting("window")
      /\ UNCHANGED <<now, bucket, mark>>
  BY DEF Limits!AllowWindow
<1>3. /\ allowed' = [bucket |-> allowed.bucket,
                     window |-> allowed.window + 1]
      /\ promised' = [bucket |-> promised.bucket, window |-> Limits!NoPromise]
  BY <1>1, <1>2 DEF Limits!Letting, Limits!TypeOK
<1>4. /\ now \in Nat /\ mark \in 0..now
      /\ allowed.window \in Nat /\ allowed'.window = allowed.window + 1
  BY <1>1, <1>3 DEF Limits!TypeOK
<1>5. Limits!TypeOK'
  <2>1. entry' \in [there : BOOLEAN, count : 0..Limit, start : 0..now]
    BY <1>2, <1>4, LimitsAreSet
  <2>2. /\ allowed' \in [bucket : Nat, window : Nat]
        /\ promised' \in [bucket : Limits!Promise, window : Limits!Promise]
    BY <1>1, <1>3 DEF Limits!TypeOK, Limits!NoPromise, Limits!Promise
  <2>. QED BY <1>1, <1>2, <2>1, <2>2 DEF Limits!TypeOK
<1>6. BucketPays'
  BY <1>1, <1>2, <1>3 DEF BucketPays, Limits!Holds, Limits!Refilled,
     Limits!Smaller
<1>7. WindowPays'
  <2>1. allowed.window * Window <= Limit * (Window + (now - mark))
    BY OverPays
  <2>2. /\ allowed.window * Window \in Nat
        /\ (allowed.window + 1) * Window = allowed.window * Window + Window
        /\ 1 * Window = Window
    BY <1>4, OneMore, LimitsAreSet
  <2>3. Limit * (Window + (now - mark)) \in Nat
    BY <1>4, SMTT(30), LimitsAreSet
  <2>4. (allowed.window + 1) * Window
          <= Limit * (Window + (now - mark)) + 1 * Window
    BY <2>1, <2>2, <2>3, LimitsAreSet
  <2>5. /\ entry'.there /\ entry'.start = now /\ entry'.count = 1
        /\ mark' = mark /\ now' = now /\ ~(now < mark)
    BY <1>2, <1>4
  <2>. QED BY <1>4, <2>4, <2>5 DEF WindowPays
<1>8. PromisesKept'
  BY <1>1, <1>2, <1>3 DEF PromisesKept, Limits!NoPromise
<1>. QED BY <1>5, <1>6, <1>7, <1>8 DEF LimiterInv

(* A call of the window under way, which counts or is refused.             *)
LEMMA WindowGoesOn ==
  ASSUME LimiterInv, Limits!AllowWindow, entry.there, ~Limits!Over
  PROVE  LimiterInv'
<1>1. Limits!TypeOK /\ BucketPays /\ WindowPays /\ PromisesKept
  BY DEF LimiterInv
<1>2. /\ now \in Nat /\ mark \in 0..now
      /\ entry.start \in 0..now /\ entry.count \in 0..Limit
      /\ allowed.window \in Nat
      /\ now - entry.start < Window
  BY <1>1, LimitsAreSet DEF Limits!TypeOK, Limits!Over
<1>3. UNCHANGED <<now, bucket, mark>>
  BY DEF Limits!AllowWindow
<1>4. CASE entry.count < Limit
  <2>1. /\ entry' = [entry EXCEPT !.count = @ + 1]
        /\ Limits!Letting("window")
    BY <1>2, <1>4, LimitsAreSet DEF Limits!AllowWindow
  <2>2. /\ entry' = [there |-> TRUE, count |-> entry.count + 1,
                     start |-> entry.start]
        /\ allowed' = [bucket |-> allowed.bucket,
                       window |-> allowed.window + 1]
        /\ promised' = [bucket |-> promised.bucket, window |-> Limits!NoPromise]
    BY <1>1, <2>1 DEF Limits!Letting, Limits!TypeOK
  <2>3. Limits!TypeOK'
    <3>1. entry' \in [there : BOOLEAN, count : 0..Limit, start : 0..now]
      BY <1>2, <1>4, <2>2, LimitsAreSet
    <3>2. /\ allowed' \in [bucket : Nat, window : Nat]
          /\ promised' \in [bucket : Limits!Promise, window : Limits!Promise]
      BY <1>1, <2>2 DEF Limits!TypeOK, Limits!NoPromise, Limits!Promise
    <3>. QED BY <1>1, <1>3, <3>1, <3>2 DEF Limits!TypeOK
  <2>4. BucketPays'
    BY <1>1, <1>3, <2>2 DEF BucketPays, Limits!Holds, Limits!Refilled,
       Limits!Smaller
  <2>5. /\ entry'.there /\ entry'.start = entry.start /\ mark' = mark
        /\ entry'.count = entry.count + 1
        /\ allowed'.window = allowed.window + 1
    BY <1>3, <2>2
  <2>6. WindowPays'
    <3>1. CASE entry.start < mark
      BY <1>1, <1>2, <2>5, <3>1 DEF WindowPays
    <3>2. CASE ~(entry.start < mark)
      <4>1. allowed.window * Window
              <= Limit * (Window + (entry.start - mark)) + entry.count * Window
        BY <1>1, <3>2 DEF WindowPays
      <4>2. /\ allowed.window * Window \in Nat
            /\ (allowed.window + 1) * Window = allowed.window * Window + Window
            /\ entry.count * Window \in Nat
            /\ (entry.count + 1) * Window = entry.count * Window + Window
        BY <1>2, OneMore, LimitsAreSet
      <4>3. Limit * (Window + (entry.start - mark)) \in Nat
        BY <1>2, <3>2, SMTT(30), LimitsAreSet
      <4>4. (allowed.window + 1) * Window
              <= Limit * (Window + (entry.start - mark))
                 + (entry.count + 1) * Window
        BY <4>1, <4>2, <4>3, LimitsAreSet
      <4>. QED BY <2>5, <3>2, <4>4 DEF WindowPays
    <3>. QED BY <3>1, <3>2
  <2>7. PromisesKept'
    BY <1>1, <1>3, <2>2 DEF PromisesKept, Limits!NoPromise
  <2>. QED BY <2>3, <2>4, <2>6, <2>7 DEF LimiterInv
<1>5. CASE ~(entry.count < Limit)
  <2>1. /\ entry' = entry
        /\ Limits!Refusing("window", Window - (now - entry.start))
    BY <1>2, <1>5, LimitsAreSet DEF Limits!AllowWindow
  <2>2. /\ allowed' = allowed
        /\ promised' =
             [bucket |-> promised.bucket,
              window |-> [due |-> TRUE,
                          at |-> now + (Window - (now - entry.start))]]
    BY <1>1, <2>1 DEF Limits!Refusing, Limits!TypeOK
  <2>3. now + (Window - (now - entry.start)) = entry.start + Window
    BY <1>2, LimitsAreSet
  <2>4. Limits!TypeOK'
    <3>1. promised' \in [bucket : Limits!Promise, window : Limits!Promise]
      BY <1>1, <1>2, <2>2, <2>3, LimitsAreSet DEF Limits!TypeOK,
         Limits!Promise
    <3>. QED BY <1>1, <1>3, <2>1, <2>2, <3>1 DEF Limits!TypeOK
  <2>5. BucketPays'
    BY <1>1, <1>3, <2>2 DEF BucketPays, Limits!Holds, Limits!Refilled,
       Limits!Smaller
  <2>6. WindowPays'
    BY <1>1, <1>3, <2>1, <2>2 DEF WindowPays
  <2>7. PromisesKept'
    BY <1>1, <1>2, <1>3, <2>1, <2>2, <2>3, LimitsAreSet DEF PromisesKept
  <2>. QED BY <2>4, <2>5, <2>6, <2>7 DEF LimiterInv
<1>. QED BY <1>4, <1>5

(* A window that is over is pruned: the next one pays as it would have.    *)
LEMMA PruneWindowKeeps ==
  ASSUME LimiterInv, Limits!PruneWindow
  PROVE  LimiterInv'
<1>1. Limits!TypeOK /\ BucketPays /\ WindowPays /\ PromisesKept
  BY DEF LimiterInv
<1>2. /\ entry' = Limits!NoEntry /\ Limits!Over
      /\ UNCHANGED <<now, bucket, mark, allowed, promised>>
  BY DEF Limits!PruneWindow
<1>3. Limits!TypeOK'
  BY <1>1, <1>2, LimitsAreSet DEF Limits!TypeOK, Limits!NoEntry
<1>4. BucketPays'
  BY <1>1, <1>2 DEF BucketPays, Limits!Holds, Limits!Refilled, Limits!Smaller
<1>5. WindowPays'
  BY <1>1, <1>2, OverPays DEF WindowPays, Limits!NoEntry
<1>6. PromisesKept'
  BY <1>1, <1>2 DEF PromisesKept, Limits!NoEntry
<1>. QED BY <1>3, <1>4, <1>5, <1>6 DEF LimiterInv

(* Time passes: it pays for what flows back.                               *)
LEMMA TickKeeps == ASSUME LimiterInv, Limits!Tick PROVE LimiterInv'
<1>1. Limits!TypeOK /\ BucketPays /\ WindowPays /\ PromisesKept
  BY DEF LimiterInv
<1>2. /\ now' = now + 1
      /\ UNCHANGED <<bucket, entry, mark, allowed, promised>>
  BY DEF Limits!Tick
<1>3. now \in Nat /\ mark \in 0..now
  BY <1>1 DEF Limits!TypeOK
<1>4. Limits!TypeOK'
  <2>1. /\ bucket' \in [there : BOOLEAN, tokens : 0..Cap, last : 0..now']
        /\ entry' \in [there : BOOLEAN, count : 0..Limit, start : 0..now']
    BY <1>1, <1>2, <1>3 DEF Limits!TypeOK
  <2>. QED BY <1>1, <1>2, <1>3, <2>1 DEF Limits!TypeOK
<1>5. BucketPays'
  <2>1. /\ Limits!Holds' <= Limits!Holds + 1
        /\ Limits!Holds' \in Nat /\ Limits!Holds \in Nat
    BY <1>1, <1>2, <1>3, LimitsAreSet DEF Limits!Holds, Limits!Refilled,
       Limits!Smaller, Limits!TypeOK
  <2>2. allowed.bucket * Cost \in Nat
    BY <1>1, OneMore, LimitsAreSet DEF Limits!TypeOK
  <2>. QED BY <1>1, <1>2, <1>3, <2>1, <2>2, LimitsAreSet DEF BucketPays
<1>6. WindowPays'
  <2>1. CASE ~entry.there
    <3>1. allowed.window * Window <= Limit * (Window + (now - mark))
      BY <1>1, <2>1 DEF WindowPays
    <3>2. Limit * (Window + (now - mark)) <= Limit * (Window + (now + 1 - mark))
      BY <1>3, SMTT(30), LimitsAreSet
    <3>3. /\ allowed.window * Window \in Nat
          /\ Limit * (Window + (now - mark)) \in Nat
          /\ Limit * (Window + (now + 1 - mark)) \in Nat
      BY <1>1, <1>3, SMTT(30), LimitsAreSet DEF Limits!TypeOK
    <3>4. allowed.window * Window <= Limit * (Window + (now + 1 - mark))
      BY <3>1, <3>2, <3>3
    <3>5. /\ mark' = mark /\ entry' = entry /\ allowed' = allowed
          /\ now' - mark' = now + 1 - mark
      BY <1>2, <1>3
    <3>6. allowed'.window * Window <= Limit * (Window + (now' - mark'))
      BY <3>4, <3>5, Zenon
    <3>7. ~entry'.there
      BY <2>1, <3>5
    <3>. QED BY <3>6, <3>7, Zenon DEF WindowPays
  <2>2. CASE entry.there
    BY <1>1, <1>2, <2>2 DEF WindowPays
  <2>. QED BY <2>1, <2>2
<1>7. PromisesKept'
  BY <1>1, <1>2 DEF PromisesKept
<1>. QED BY <1>4, <1>5, <1>6, <1>7 DEF LimiterInv

(* To count from here starts from nothing.                                 *)
LEMMA MarkKeeps == ASSUME LimiterInv, Limits!Mark PROVE LimiterInv'
<1>1. Limits!TypeOK /\ BucketPays /\ WindowPays /\ PromisesKept
  BY DEF LimiterInv
<1>2. /\ mark' = now /\ allowed' = Limits!None
      /\ UNCHANGED <<now, bucket, entry, promised>>
  BY DEF Limits!Mark
<1>3. /\ now \in Nat
      /\ entry.start \in 0..now /\ entry.count \in 0..Limit
  BY <1>1 DEF Limits!TypeOK
<1>4. Limits!TypeOK'
  BY <1>1, <1>2, <1>3 DEF Limits!TypeOK, Limits!None
<1>5. BucketPays'
  <2>1. Limits!Holds' = Limits!Holds /\ Limits!Holds \in 0..Cap
    BY <1>1, <1>2, HoldsBounded DEF Limits!Holds, Limits!Refilled,
       Limits!Smaller
  <2>. QED BY <1>2, <1>3, <2>1, LimitsAreSet DEF BucketPays, Limits!None
<1>6. WindowPays'
  <2>1. /\ allowed'.window = 0 /\ 0 * Window = 0
        /\ mark' = now /\ now' = now /\ entry' = entry
    BY <1>2, LimitsAreSet DEF Limits!None
  <2>2. CASE ~entry.there
    BY <1>3, <2>1, <2>2, LimitCosts, LimitsAreSet DEF WindowPays
  <2>3. CASE entry.there /\ entry.start < now
    BY <1>3, <2>1, <2>3, LimitsAreSet DEF WindowPays
  <2>4. CASE entry.there /\ entry.start = now
    <3>1. entry.count * Window \in Nat
      BY <1>3, OneMore, LimitsAreSet
    <3>2. Window + (entry.start - now) = Window
      BY <1>3, <2>4, LimitsAreSet
    <3>3. 0 <= Limit * (Window + (entry.start - now)) + entry.count * Window
      BY <3>1, <3>2, LimitCosts
    <3>. QED BY <1>3, <2>1, <2>4, <3>3 DEF WindowPays
  <2>. QED BY <1>3, <2>2, <2>3, <2>4
<1>7. PromisesKept'
  BY <1>1, <1>2 DEF PromisesKept
<1>. QED BY <1>4, <1>5, <1>6, <1>7 DEF LimiterInv

(* What the invariant says of the requests let in, and of who waited.      *)
LEMMA LimiterInvSuffices == ASSUME LimiterInv PROVE Limits!LimitsAsTold
<1>1. Limits!TypeOK /\ BucketPays /\ WindowPays /\ PromisesKept
  BY DEF LimiterInv
<1>2. /\ now \in Nat /\ mark \in 0..now
      /\ entry.start \in 0..now /\ entry.count \in 0..Limit
      /\ allowed.bucket \in Nat /\ allowed.window \in Nat
  BY <1>1 DEF Limits!TypeOK
<1>3. Limits!BurstBounded
  <2>1. allowed.bucket * Cost \in Nat
    BY <1>2, OneMore, LimitsAreSet
  <2>. QED BY <1>1, <1>2, <2>1, HoldsBounded, LimitsAreSet DEF BucketPays,
              Limits!BurstBounded
<1>4. Limits!WindowBounded
  <2>1. /\ Limit * Window \in Nat
        /\ Limit * (Window + (now - mark)) \in Nat
        /\ Limit * (2 * Window + (now - mark)) \in Nat
        /\ Limit * (2 * Window + (now - mark))
             = Limit * (Window + (now - mark)) + Limit * Window
        /\ allowed.window * Window \in Nat
    BY <1>2, SMTT(30), LimitsAreSet
  <2>2. CASE ~entry.there
    BY <1>1, <2>1, <2>2 DEF WindowPays, Limits!WindowBounded
  <2>3. CASE entry.there /\ entry.start < mark
    <3>1. allowed.window * Window <= Limit * Window
      BY <1>1, <1>2, <2>3, SMTT(30), LimitsAreSet DEF WindowPays
    <3>. QED BY <2>1, <3>1 DEF Limits!WindowBounded
  <2>4. CASE entry.there /\ ~(entry.start < mark)
    <3>1. allowed.window * Window
            <= Limit * (Window + (entry.start - mark)) + entry.count * Window
      BY <1>1, <2>4 DEF WindowPays
    <3>2. /\ entry.count * Window <= Limit * Window
          /\ Limit * (Window + (entry.start - mark))
               <= Limit * (Window + (now - mark))
          /\ entry.count * Window \in Nat
          /\ Limit * (Window + (entry.start - mark)) \in Nat
      BY <1>2, <2>4, SMTT(30), LimitsAreSet
    <3>. QED BY <2>1, <3>1, <3>2 DEF Limits!WindowBounded
  <2>. QED BY <2>2, <2>3, <2>4
<1>5. Limits!WaitIsEnough
  BY <1>1, <1>2, LimitsAreSet DEF Limits!WaitIsEnough, PromisesKept,
     Limits!Holds, Limits!Refilled, Limits!Smaller, Limits!Over,
     Limits!TypeOK, Limits!Promise
<1>. QED BY <1>3, <1>4, <1>5 DEF Limits!LimitsAsTold

(* Every step keeps the invariant.                                         *)
LEMMA LimiterStepKeeps ==
  ASSUME LimiterInv, [Limits!Next]_limitVars
  PROVE  LimiterInv'
<1>1. CASE Limits!AllowBucket
  BY <1>1, AllowBucketKeeps
<1>2. CASE Limits!PruneBucket
  BY <1>2, PruneBucketKeeps
<1>3. CASE Limits!AllowWindow
  <2>1. CASE entry.there /\ ~Limits!Over
    BY <1>3, <2>1, WindowGoesOn
  <2>2. CASE ~(entry.there /\ ~Limits!Over)
    BY <1>3, <2>2, WindowBegins
  <2>. QED BY <2>1, <2>2
<1>4. CASE Limits!PruneWindow
  BY <1>4, PruneWindowKeeps
<1>5. CASE Limits!Tick
  BY <1>5, TickKeeps
<1>6. CASE Limits!Mark
  BY <1>6, MarkKeeps
<1>7. CASE UNCHANGED limitVars
  BY <1>7 DEF limitVars, LimiterInv, Limits!TypeOK, BucketPays, WindowPays,
     PromisesKept, Limits!Holds, Limits!Refilled, Limits!Smaller
<1>. QED BY <1>1, <1>2, <1>3, <1>4, <1>5, <1>6, <1>7 DEF Limits!Next

LimitsInv == part = "limits" => LimiterInv

LEMMA LimitsStart == Init => LimitsInv
BY LimiterStarts DEF Init, LimitsInv

LEMMA LimitsGoOn == ASSUME LimitsInv, [Next]_vars PROVE LimitsInv'
BY PartSteps, LimiterStepKeeps DEF LimitsInv

LEMMA LimitsAreTold ==
  ASSUME LimitsInv PROVE part = "limits" => Limits!LimitsAsTold
BY LimiterInvSuffices DEF LimitsInv

-----------------------------------------------------------------------------
(* Introspection.  What was learnt of a valid credential, in the cache or  *)
(* under way, is no older than the time it has left says; and a session    *)
(* outlives what is cached of it.                                          *)
Learnt == [at : {"idle", "asked", "answered"}, valid : BOOLEAN, left : Nat]

TrustTypes ==
  /\ expires \in Nat \union {Trust!Never} /\ valid \in BOOLEAN
  /\ cache \in [valid : BOOLEAN, left : Nat]
  /\ introspection \in [Request -> Learnt]
  /\ age \in Nat /\ worst \in Nat

CacheIsRecent ==
  cache.valid /\ cache.left > 0 =>
    /\ age + cache.left <= TrustTTL + Timeout
    /\ expires = Trust!Never \/ expires >= cache.left

AnswerIsRecent(r) ==
  /\ introspection[r].left <= Timeout
  /\ introspection[r].at = "answered" /\ introspection[r].valid =>
       age + introspection[r].left <= Timeout

TrustIInv ==
  /\ TrustTypes /\ (valid => age = 0)
  /\ CacheIsRecent
  /\ \A r \in Request : AnswerIsRecent(r)
  /\ worst <= TrustTTL + Timeout /\ late = FALSE

TrustInv == part = "trust" => TrustIInv

LEMMA TrustStart == Init => TrustInv
<1>1. SUFFICES ASSUME Trust!Init PROVE TrustIInv
  BY DEF Init, TrustInv
<1>2. TrustTypes
  BY <1>1, LimitsAreSet DEF Trust!Init, TrustTypes, Learnt, Trust!Idle,
                            Trust!MaxAge, Trust!Never
<1> QED
  BY <1>1, <1>2, LimitsAreSet
  DEF Trust!Init, TrustIInv, CacheIsRecent, AnswerIsRecent, Trust!Idle

(* One is let in by what is recent, and of a session before it expires.    *)
LEMMA GrantIsRecent ==
  ASSUME TrustIInv, NEW isValid \in BOOLEAN, Trust!Grant(isValid),
         isValid => age <= TrustTTL + Timeout /\ expires # 0
  PROVE  worst' \in Nat /\ worst' <= TrustTTL + Timeout /\ late' = FALSE
BY DEF TrustIInv, TrustTypes, Trust!Grant

(* A fresh cache is recent.                                                *)
LEMMA FreshIsRecent ==
  ASSUME TrustIInv, Trust!Fresh, cache.valid
  PROVE  age <= TrustTTL + Timeout /\ expires # 0
BY LimitsAreSet
DEF TrustIInv, TrustTypes, CacheIsRecent, Trust!Fresh, Trust!Never

LEMMA PresentKeeps ==
  ASSUME TrustIInv, NEW r \in Request, Trust!Present(r)
  PROVE  TrustIInv'
<1>1. worst' \in Nat /\ worst' <= TrustTTL + Timeout /\ late' = FALSE
  BY GrantIsRecent, FreshIsRecent DEF Trust!Present, TrustIInv, TrustTypes
<1>2. /\ introspection' \in [Request -> Learnt]
      /\ \A q \in Request :
           \/ introspection'[q] = introspection[q]
           \/ /\ introspection'[q].at = "asked"
              /\ introspection'[q].left = Timeout
  <2> DEFINE started == [at |-> "asked", valid |-> FALSE, left |-> Timeout]
  <2>1. /\ started \in Learnt /\ introspection \in [Request -> Learnt]
        /\ started.at = "asked" /\ started.left = Timeout
    BY LimitsAreSet DEF Learnt, TrustIInv, TrustTypes
  <2>2. \/ introspection' = introspection
        \/ introspection' = [introspection EXCEPT ![r] = started]
    BY DEF Trust!Present, Trust!Idle
  <2> HIDE DEF started
  <2> QED
    BY <2>1, <2>2
<1> QED
  BY <1>1, <1>2, LimitsAreSet
  DEF Trust!Present, TrustIInv, TrustTypes, CacheIsRecent, AnswerIsRecent

LEMMA ReplyKeeps ==
  ASSUME TrustIInv, NEW r \in Request, Trust!Reply(r)
  PROVE  TrustIInv'
<1>1. /\ introspection' \in [Request -> Learnt]
      /\ \A q \in Request : AnswerIsRecent(q)'
  <2> DEFINE old == introspection[r]
             answered == [old EXCEPT !.at = "answered", !.valid = valid]
  <2>1. /\ introspection \in [Request -> Learnt] /\ old \in Learnt
        /\ old.left <= Timeout /\ valid \in BOOLEAN /\ age' = age
        /\ answered \in Learnt
    BY DEF Trust!Reply, TrustIInv, TrustTypes, Learnt, AnswerIsRecent
  <2>2. introspection' = [introspection EXCEPT ![r] = answered]
    BY <2>1 DEF Trust!Reply
  <2>3. /\ answered.at = "answered" /\ answered.valid = valid
        /\ answered.left = old.left /\ old.left \in Nat
    BY <2>1 DEF Learnt
  <2> HIDE DEF answered
  <2>4. /\ introspection' \in [Request -> Learnt]
        /\ introspection'[r] = answered
        /\ \A q \in Request \ {r} : introspection'[q] = introspection[q]
    BY <2>1, <2>2
  <2>5. AnswerIsRecent(r)'
    BY <2>1, <2>3, <2>4, LimitsAreSet DEF TrustIInv, AnswerIsRecent
  <2>6. \A q \in Request \ {r} : AnswerIsRecent(q)'
    BY <2>1, <2>4 DEF TrustIInv, AnswerIsRecent
  <2> QED
    BY <2>4, <2>5, <2>6
<1> QED
  BY <1>1 DEF Trust!Reply, TrustIInv, TrustTypes, CacheIsRecent

LEMMA IntrospectedKeeps ==
  ASSUME TrustIInv, NEW r \in Request, Trust!Introspected(r)
  PROVE  TrustIInv'
<1>1. /\ introspection[r] \in Learnt /\ introspection[r].at = "answered"
      /\ introspection[r].valid \in BOOLEAN
  BY DEF Trust!Introspected, TrustIInv, TrustTypes, Learnt
<1>2. PICK isValid \in BOOLEAN :
        isValid <=> introspection[r].valid /\ expires # 0
  BY ZenonT(10)
<1>3. isValid => age <= Timeout /\ expires # 0
  BY <1>1, <1>2, LimitsAreSet
  DEF TrustIInv, TrustTypes, AnswerIsRecent, Learnt
<1>4. /\ cache' = Trust!Remembered(isValid) /\ Trust!Grant(isValid)
      /\ UNCHANGED <<expires, age>>
  BY <1>1, <1>2 DEF Trust!Introspected
<1>7. worst' \in Nat /\ worst' <= TrustTTL + Timeout /\ late' = FALSE
  <2>1. isValid => age <= TrustTTL + Timeout /\ expires # 0
    BY <1>3, LimitsAreSet DEF TrustIInv, TrustTypes
  <2> QED
    BY <1>4, <2>1, GrantIsRecent
<1>5. /\ introspection' \in [Request -> Learnt]
      /\ \A q \in Request :
           \/ introspection'[q] = introspection[q]
           \/ introspection'[q].at = "idle" /\ introspection'[q].left = 0
  BY DEF Trust!Introspected, TrustIInv, TrustTypes, Learnt, Trust!Idle
<1>6. cache' \in [valid : BOOLEAN, left : Nat] /\ CacheIsRecent'
  <2> DEFINE t == Trust!Trusted(isValid)
  <2>1. t \in Nat /\ t <= TrustTTL
    BY LimitsAreSet DEF TrustIInv, TrustTypes, Trust!Trusted, Trust!Never
  <2>2. isValid => expires = Trust!Never \/ expires >= t
    BY LimitsAreSet DEF TrustIInv, TrustTypes, Trust!Trusted, Trust!Never
  <2>3. CASE t = 0
    BY <1>4, <2>3 DEF Trust!Remembered, TrustIInv, TrustTypes, CacheIsRecent
  <2>4. CASE t # 0
    <3>1. cache' = [valid |-> isValid, left |-> t]
      BY <1>4, <2>4 DEF Trust!Remembered
    <3> HIDE DEF t
    <3>2. cache' \in [valid : BOOLEAN, left : Nat]
      BY <2>1, <3>1
    <3> QED
      BY <1>3, <1>4, <2>1, <2>2, <3>1, <3>2, LimitsAreSet
      DEF TrustIInv, TrustTypes, CacheIsRecent
  <2> QED
    BY <2>3, <2>4
<1> QED
  BY <1>5, <1>6, <1>7, LimitsAreSet
  DEF Trust!Introspected, TrustIInv, TrustTypes, AnswerIsRecent

LEMMA UnavailableKeeps ==
  ASSUME TrustIInv, NEW r \in Request, Trust!Unavailable(r)
  PROVE  TrustIInv'
<1>1. worst' \in Nat /\ worst' <= TrustTTL + Timeout /\ late' = FALSE
  BY GrantIsRecent, FreshIsRecent DEF Trust!Unavailable, TrustIInv, TrustTypes
<1>2. /\ introspection' \in [Request -> Learnt]
      /\ \A q \in Request :
           \/ introspection'[q] = introspection[q]
           \/ introspection'[q].at = "idle" /\ introspection'[q].left = 0
  BY DEF Trust!Unavailable, TrustIInv, TrustTypes, Learnt, Trust!Idle
<1> QED
  BY <1>1, <1>2, LimitsAreSet
  DEF Trust!Unavailable, TrustIInv, TrustTypes, CacheIsRecent, AnswerIsRecent

LEMMA ChangeKeeps == ASSUME TrustIInv, Trust!Change PROVE TrustIInv'
<1>1. age' \in Nat /\ age' <= age /\ valid' \in BOOLEAN /\ (valid' => age' = 0)
  BY DEF Trust!Change, TrustIInv, TrustTypes
<1>2. TrustTypes' /\ UNCHANGED <<expires, cache, introspection, worst, late>>
  BY <1>1 DEF Trust!Change, TrustIInv, TrustTypes
<1>3. CacheIsRecent'
  BY <1>1, <1>2, LimitsAreSet DEF TrustIInv, TrustTypes, CacheIsRecent
<1>4. \A r \in Request : AnswerIsRecent(r)'
  BY <1>1, <1>2, LimitsAreSet DEF TrustIInv, TrustTypes, AnswerIsRecent, Learnt
<1> QED
  BY <1>1, <1>2, <1>3, <1>4 DEF TrustIInv

(* Time passes for all alike: what was learnt ages as its time runs out.   *)
LEMMA TrustTickKeeps == ASSUME TrustIInv, Trust!Tick PROVE TrustIInv'
<1>1. age' \in Nat /\ age' <= age + 1 /\ (valid => age' = 0)
  BY LimitsAreSet DEF Trust!Tick, TrustIInv, TrustTypes, Trust!MaxAge
<1>2. /\ cache' \in [valid : BOOLEAN, left : Nat] /\ cache'.valid = cache.valid
      /\ cache'.left > 0 => cache'.left = cache.left - 1
  BY DEF Trust!Tick, TrustIInv, TrustTypes, Trust!Less1
<1>3. /\ expires' \in Nat \union {Trust!Never}
      /\ expires = Trust!Never => expires' = Trust!Never
      /\ expires > 0 => expires' = expires - 1
  BY DEF Trust!Tick, TrustIInv, TrustTypes, Trust!Less1, Trust!Never
<1>4. introspection' \in [Request -> Learnt]
  BY DEF Trust!Tick, TrustIInv, TrustTypes, Learnt, Trust!Less1
<1>5. CacheIsRecent'
  BY <1>1, <1>2, <1>3, LimitsAreSet
  DEF TrustIInv, TrustTypes, CacheIsRecent, Trust!Never
<1>6. ASSUME NEW r \in Request PROVE AnswerIsRecent(r)'
  <2>1. introspection[r] \in Learnt /\ AnswerIsRecent(r)
    BY DEF TrustIInv, TrustTypes
  <2>2. introspection'[r] = [introspection[r] EXCEPT !.left = Trust!Less1(@)]
    BY DEF Trust!Tick
  <2>3. introspection[r].at = "answered" => introspection[r].left > 0
    BY DEF Trust!Tick, Trust!Idle
  <2> QED
    BY <1>1, <2>1, <2>2, <2>3, LimitsAreSet
    DEF TrustIInv, TrustTypes, AnswerIsRecent, Learnt, Trust!Less1
<1> QED
  BY <1>1, <1>2, <1>3, <1>4, <1>5, <1>6 DEF Trust!Tick, TrustIInv, TrustTypes

LEMMA TrustGoesOn == ASSUME TrustInv, [Next]_vars PROVE TrustInv'
<1>1. SUFFICES ASSUME TrustIInv, [Trust!Next]_trustVars PROVE TrustIInv'
  BY PartSteps DEF TrustInv
<1>2. CASE UNCHANGED trustVars
  BY <1>1, <1>2
  DEF trustVars, TrustIInv, TrustTypes, CacheIsRecent, AnswerIsRecent
<1> QED
  BY <1>1, <1>2, PresentKeeps, ReplyKeeps, IntrospectedKeeps,
     UnavailableKeeps, ChangeKeeps, TrustTickKeeps DEF Trust!Next

(* session.go, apikey.go, enforce.go: nobody is let in on an answer older  *)
(* than the cache and the time-out allow, or after the session's expiry,   *)
(* in whichever order overlapping answers come.                            *)
THEOREM TrustIsAlwaysRecent == Spec => []TrustIsRecent
<1>1. TrustInv => TrustIsRecent
  BY DEF TrustInv, TrustIInv, TrustIsRecent, Trust!TrustIsRecent
<1> QED
  BY <1>1, TrustStart, TrustGoesOn, PTL DEF Spec

-----------------------------------------------------------------------------
(* Login.  What was guessed, and what those under way and an open record   *)
(* may yet add, is paid for by the time that passed: a record that opens   *)
(* again was locked, or not seen, for the time of a lockout.               *)
Most == MaxAttempts + Cardinality(Request) - 1
Guess == [count : 0..(MaxAttempts - 1), lock : 0..Lockout, quiet : Nat]
Busy == {r \in Request : attempt[r] # 0}
Astray == {r \in Request : attempt[r] \notin {0, current}}
CountNow == IF current = 0 THEN 0 ELSE record[current].count
Locked == current # 0 /\ record[current].lock > 0

(* n guesses are no more than m + 2 lockouts allow, m of them over by t.   *)
Paid(n, t) ==
  \E m \in Int : m >= -1 /\ m * Lockout <= t /\ n <= Most * (2 + m)

LoginTypes ==
  /\ record \in [Attempts!Record -> Guess]
  /\ current \in Attempts!Record \union {0}
  /\ attempt \in [Request -> Attempts!Record \union {0}]
  /\ guesses \in Nat /\ elapsed \in Nat

(* Of the time since an entry was last seen, what a lockout would take.    *)
Waited(q) == IF q < Lockout THEN q ELSE Lockout

OpenPays ==
  ~Locked => Paid(guesses + Most - CountNow + Cardinality(Astray), elapsed)
LockedPays ==
  Locked => Paid(guesses + Cardinality(Busy),
                 elapsed + record[current].lock - Lockout)
QuietPays ==
  current # 0 => Paid(guesses + Cardinality(Busy),
                      elapsed - Waited(record[current].quiet))

UnusedAreNew ==
  \A i \in Attempts!Record :
    i \notin Attempts!Held \union {current} => record[i] = Attempts!NewRecord

LoginIInv ==
  LoginTypes /\ OpenPays /\ LockedPays /\ QuietPays /\ UnusedAreNew
LoginInv == part = "login" => LoginIInv

(* A count is of whatever set, in whichever module it is written.          *)
LEMMA CardinalityIs ==
  ASSUME NEW S PROVE Attempts!Cardinality(S) = Cardinality(S)
BY DEF Attempts!Cardinality, Cardinality

LEMMA MostIs ==
  /\ Cardinality(Request) \in Nat /\ Most \in Int /\ Most >= 0
  /\ Request # {} => Cardinality(Request) >= 1 /\ Most >= MaxAttempts
<1>1. Cardinality(Request) \in Nat /\ (Request # {} => Cardinality(Request) # 0)
  BY RequestsAreFinite, FS_CardinalityType, FS_EmptySet
<1> QED
  BY <1>1, LimitsAreSet DEF Most

(* Less is paid for by more time.                                          *)
LEMMA PaidByLater ==
  ASSUME NEW n \in Int, NEW t \in Int, Paid(n, t),
         NEW k \in Int, NEW u \in Int, k <= n, t <= u
  PROVE  Paid(k, u)
<1>1. PICK m \in Int : m >= -1 /\ m * Lockout <= t /\ n <= Most * (2 + m)
  BY DEF Paid
<1>2. m * Lockout \in Int /\ Most * (2 + m) \in Int
  BY <1>1, LimitsAreSet, MostIs
<1>3. m * Lockout <= u /\ k <= Most * (2 + m)
  BY <1>1, <1>2
<1> QED
  BY <1>1, <1>3 DEF Paid

(* The time of one lockout pays for as many guesses as fit one.            *)
LEMMA PaidByLockout ==
  ASSUME NEW n \in Int, NEW t \in Int, Paid(n, t)
  PROVE  Paid(n + Most, t + Lockout)
<1>1. PICK m \in Int : m >= -1 /\ m * Lockout <= t /\ n <= Most * (2 + m)
  BY DEF Paid
<1>2. /\ (m + 1) * Lockout = m * Lockout + Lockout
      /\ Most * (2 + (m + 1)) = Most * (2 + m) + Most
      /\ m * Lockout \in Int /\ Most * (2 + m) \in Int
  BY <1>1, LimitsAreSet, MostIs
<1>3. m + 1 \in Int /\ m + 1 >= -1
  BY <1>1
<1>4. (m + 1) * Lockout <= t + Lockout /\ n + Most <= Most * (2 + (m + 1))
  BY <1>1, <1>2, LimitsAreSet, MostIs
<1> QED
  BY <1>3, <1>4 DEF Paid

(* At first that many are free, and as many again in an open record.       *)
LEMMA PaidAtFirst ==
  ASSUME NEW n \in Int
  PROVE  /\ n <= Most => Paid(n, 0 - Lockout)
         /\ n <= Most + Most => Paid(n, 0)
<1>1. /\ (-1) * Lockout = 0 - Lockout /\ 0 * Lockout = 0
      /\ Most * (2 + (-1)) = Most /\ Most * (2 + 0) = Most + Most
  BY LimitsAreSet, MostIs
<1>2. n <= Most => Paid(n, 0 - Lockout)
  BY <1>1, LimitsAreSet DEF Paid
<1>3. n <= Most + Most => Paid(n, 0)
  BY <1>1 DEF Paid
<1> QED
  BY <1>2, <1>3

LEMMA BusyAreFinite ==
  /\ IsFiniteSet(Busy) /\ IsFiniteSet(Astray)
  /\ Cardinality(Busy) \in Nat /\ Cardinality(Astray) \in Nat
  /\ Cardinality(Astray) <= Cardinality(Busy)
  /\ Cardinality(Busy) <= Cardinality(Request)
<1>1. Busy \in SUBSET Request /\ Astray \in SUBSET Busy
  BY DEF Busy, Astray
<1>2. IsFiniteSet(Busy) /\ Cardinality(Busy) <= Cardinality(Request)
  BY <1>1, RequestsAreFinite, FS_Subset
<1>3. IsFiniteSet(Astray) /\ Cardinality(Astray) <= Cardinality(Busy)
  BY <1>1, <1>2, FS_Subset
<1> QED
  BY <1>2, <1>3, FS_CardinalityType

(* While a login may begin, some record is neither in the map nor held.    *)
LEMMA SomeAreUnused ==
  ASSUME LoginTypes, NEW r \in Request, attempt[r] = 0
  PROVE  /\ Attempts!Unused \in Attempts!Record
         /\ Attempts!Unused \notin Attempts!Held \union {current}
<1> DEFINE H == Attempts!Held
           f == [q \in Busy |-> attempt[q]]
           K == Cardinality(Request)
<1>1. K \in Nat /\ Attempts!Record = 1..(K + 1)
  BY MostIs, CardinalityIs DEF Attempts!Record
<1>2. Cardinality(Busy) <= K - 1
  <2>1. Busy \in SUBSET (Request \ {r})
    BY DEF Busy
  <2>2. IsFiniteSet(Request \ {r}) /\ Cardinality(Request \ {r}) = K - 1
    BY RequestsAreFinite, FS_RemoveElement
  <2> QED
    BY <2>1, <2>2, FS_Subset
<1>3. f \in Surjection(Busy, H)
  BY DEF Surjection, Busy, Attempts!Held
<1>4. IsFiniteSet(H) /\ Cardinality(H) <= Cardinality(Busy)
  BY <1>3, BusyAreFinite, FS_Surjection
<1>5. IsFiniteSet(H \union {current}) /\ Cardinality(H \union {current}) <= K
  <2>1. /\ Cardinality(H) \in Nat /\ Cardinality(Busy) \in Nat
        /\ IsFiniteSet(H \union {current})
        /\ \/ Cardinality(H \union {current}) = Cardinality(H)
           \/ Cardinality(H \union {current}) = Cardinality(H) + 1
    BY <1>4, BusyAreFinite, FS_AddElement, FS_CardinalityType
  <2> HIDE DEF H
  <2> QED
    BY <1>1, <1>2, <1>4, <2>1
<1>6. ~(1..(K + 1) \subseteq H \union {current})
  <2>1. SUFFICES ASSUME 1..(K + 1) \subseteq H \union {current} PROVE FALSE
    OBVIOUS
  <2>2. Cardinality(1..(K + 1)) = K + 1
    BY <1>1, FS_Interval
  <2>3. Cardinality(1..(K + 1)) <= Cardinality(H \union {current})
    BY <1>5, <2>1, FS_Subset
  <2>4. Cardinality(H \union {current}) \in Nat
    BY <1>5, FS_CardinalityType
  <2> QED
    BY <1>1, <1>5, <2>2, <2>3, <2>4
<1>7. PICK i \in Attempts!Record : i \notin H \union {current}
  BY <1>1, <1>6
<1> QED
  BY <1>7 DEF Attempts!Unused

(* No login, and no record.                                                *)
LEMMA LoginStart == Init => LoginInv
<1>1. SUFFICES ASSUME Attempts!Init PROVE LoginIInv
  BY DEF Init, LoginInv
<1>2. LoginTypes /\ UnusedAreNew
  BY <1>1, LimitsAreSet
  DEF Attempts!Init, LoginTypes, UnusedAreNew, Guess, Attempts!NewRecord
<1>3. Busy = {} /\ Astray = {} /\ current = 0 /\ ~Locked /\ CountNow = 0
  BY <1>1 DEF Attempts!Init, Busy, Astray, Locked, CountNow
<1>4. Paid(guesses + Most - CountNow + Cardinality(Astray), elapsed)
  <2>1. Cardinality({}) = 0 /\ guesses = 0 /\ elapsed = 0
    BY <1>1, FS_EmptySet DEF Attempts!Init
  <2>2. guesses + Most - CountNow + Cardinality(Astray) = Most
    BY <1>3, <2>1, MostIs
  <2> QED
    BY <2>1, <2>2, MostIs, PaidAtFirst
<1> QED
  BY <1>2, <1>3, <1>4 DEF LoginIInv, OpenPays, LockedPays, QuietPays, Waited

(* A login ends: what it held is free, unless the map has it too.          *)
LEMMA FinishIs ==
  ASSUME LoginIInv, NEW r \in Request, NEW f \in [Attempts!Record -> Guess],
         Attempts!Finish(r, f),
         \A i \in Attempts!Record : i # attempt[r] => f[i] = record[i]
  PROVE  /\ record' \in [Attempts!Record -> Guess] /\ current' = current
         /\ attempt' \in [Request -> Attempts!Record \union {0}]
         /\ UnusedAreNew'
         /\ current # 0 => record'[current] = f[current]
         /\ Cardinality(Busy)' = Cardinality(Busy) - 1
         /\ Cardinality(Astray)' = IF attempt[r] = current
                                     THEN Cardinality(Astray)
                                     ELSE Cardinality(Astray) - 1
<1> DEFINE kept == {attempt[q] : q \in Request \ {r}} \union {current}
<1>1. /\ attempt[r] # 0 /\ attempt' = [attempt EXCEPT ![r] = 0]
      /\ current' = current
      /\ record' = [i \in Attempts!Record |->
                      IF i \in kept THEN f[i] ELSE Attempts!NewRecord]
  BY DEF Attempts!Finish, Attempts!Keep
<1>2. LoginTypes /\ UnusedAreNew /\ Attempts!NewRecord \in Guess
  BY LimitsAreSet DEF LoginIInv, Guess, Attempts!NewRecord
<1>3. /\ record' \in [Attempts!Record -> Guess]
      /\ attempt' \in [Request -> Attempts!Record \union {0}]
  BY <1>1, <1>2 DEF LoginTypes
<1>4. current # 0 => record'[current] = f[current]
  BY <1>1, <1>2 DEF LoginTypes
<1>5. UnusedAreNew'
  <2>1. SUFFICES ASSUME NEW i \in Attempts!Record,
                        i \notin Attempts!Held' \union {current}
                 PROVE  record'[i] = Attempts!NewRecord
    BY <1>1 DEF UnusedAreNew, Attempts!NewRecord
  <2>2. i # 0
    BY MostIs, CardinalityIs DEF Attempts!Record
  <2>3. \A q \in Request \ {r} : attempt[q] # i
    BY <1>1, <1>2, <2>1, <2>2 DEF Attempts!Held, LoginTypes
  <2> QED
    BY <1>1, <2>1, <2>3
<1>6. Busy' = Busy \ {r} /\ r \in Busy
  BY <1>1, <1>2 DEF Busy, LoginTypes
<1>7. Astray' = Astray \ {r} /\ (r \in Astray <=> attempt[r] # current)
  BY <1>1, <1>2 DEF Astray, LoginTypes
<1>8. /\ Cardinality(Busy') = Cardinality(Busy) - 1
      /\ Cardinality(Astray') = IF r \in Astray THEN Cardinality(Astray) - 1
                                                ELSE Cardinality(Astray)
  BY <1>6, <1>7, BusyAreFinite, FS_RemoveElement
<1> QED
  BY <1>1, <1>3, <1>4, <1>5, <1>7, <1>8

(* The numbers that the payments are about.                                *)
LEMMA GuessNumbers ==
  ASSUME LoginTypes
  PROVE  /\ current # 0 =>
              /\ record[current] \in Guess
              /\ record[current].count \in 0..(MaxAttempts - 1)
              /\ record[current].lock \in 0..Lockout
              /\ record[current].quiet \in Nat
         /\ CountNow \in Nat /\ CountNow <= MaxAttempts - 1
         /\ guesses \in Nat /\ elapsed \in Nat
<1>1. current # 0 => record[current] \in Guess
  BY DEF LoginTypes
<1> QED
  BY <1>1, LimitsAreSet DEF LoginTypes, Guess, CountNow

(* Where no more guesses are made than logins end, and none is counted     *)
(* less, nothing more is to be paid for.                                   *)
LEMMA NoMoreToPay ==
  ASSUME LoginIInv, LoginTypes', current' = current, elapsed' = elapsed,
         current # 0 => /\ record'[current].lock = record[current].lock
                        /\ record'[current].quiet = record[current].quiet,
         Cardinality(Busy)' \in Int, Cardinality(Astray)' \in Int,
         guesses' \in Int, CountNow' \in Int,
         guesses' + Cardinality(Busy)' <= guesses + Cardinality(Busy),
         guesses' - CountNow' + Cardinality(Astray)'
           <= guesses - CountNow + Cardinality(Astray)
  PROVE  OpenPays' /\ LockedPays' /\ QuietPays'
<1> DEFINE A == Cardinality(Busy)
           S == Cardinality(Astray)
<1>1. LoginTypes /\ OpenPays /\ LockedPays /\ QuietPays /\ Locked' = Locked
  BY DEF LoginIInv, Locked
<1>2. A \in Nat /\ S \in Nat /\ Most \in Int /\ A' \in Int /\ S' \in Int
  BY BusyAreFinite, MostIs
<1>3. /\ guesses' + A' <= guesses + A
      /\ guesses' - CountNow' + S' <= guesses - CountNow + S
  OBVIOUS
<1> HIDE DEF A, S
<1>4. OpenPays'
  <2>1. SUFFICES ASSUME ~Locked
                 PROVE  Paid(guesses' + Most - CountNow' + S', elapsed)
    BY <1>1 DEF OpenPays, S
  <2>2. Paid(guesses + Most - CountNow + S, elapsed)
    BY <1>1, <2>1 DEF OpenPays, S
  <2> QED
    BY <1>1, <1>2, <1>3, <2>2, GuessNumbers, PaidByLater
<1>5. LockedPays'
  <2>1. SUFFICES ASSUME Locked
                 PROVE  Paid(guesses' + A', elapsed + record[current].lock - Lockout)
    BY <1>1 DEF LockedPays, Locked, A
  <2>2. Paid(guesses + A, elapsed + record[current].lock - Lockout)
    BY <1>1, <2>1 DEF LockedPays, A
  <2> QED
    BY <1>1, <1>2, <1>3, <2>1, <2>2, GuessNumbers, PaidByLater, LimitsAreSet
    DEF Locked
<1>6. QuietPays'
  <2> DEFINE w == IF record[current].quiet < Lockout
                    THEN record[current].quiet ELSE Lockout
  <2>1. SUFFICES ASSUME current # 0 PROVE Paid(guesses' + A', elapsed - w)
    BY DEF QuietPays, Waited, A
  <2>2. Paid(guesses + A, elapsed - w) /\ w \in Nat
    BY <1>1, <2>1, GuessNumbers, LimitsAreSet DEF QuietPays, Waited, A
  <2> HIDE DEF w
  <2> QED
    BY <1>1, <1>2, <1>3, <2>2, GuessNumbers, PaidByLater
<1> QED
  BY <1>4, <1>5, <1>6

LEMMA MalformedKeeps ==
  ASSUME LoginIInv, NEW r \in Request, Attempts!Malformed(r)
  PROVE  LoginIInv'
<1>1. LoginTypes
  BY DEF LoginIInv
<1>2. /\ record' \in [Attempts!Record -> Guess] /\ current' = current
      /\ attempt' \in [Request -> Attempts!Record \union {0}]
      /\ UnusedAreNew'
      /\ current # 0 => record'[current] = record[current]
      /\ Cardinality(Busy)' = Cardinality(Busy) - 1
      /\ Cardinality(Astray)' \in {Cardinality(Astray), Cardinality(Astray) - 1}
      /\ guesses' = guesses /\ elapsed' = elapsed
  BY <1>1, FinishIs DEF Attempts!Malformed, LoginTypes
<1>3. LoginTypes' /\ CountNow' = CountNow
  BY <1>1, <1>2 DEF LoginTypes, CountNow
<1>4. OpenPays' /\ LockedPays' /\ QuietPays'
  BY <1>1, <1>2, <1>3, BusyAreFinite, GuessNumbers, NoMoreToPay
<1> QED
  BY <1>2, <1>3, <1>4 DEF LoginIInv

(* A failure is counted, or locks the record.                              *)
LEMMA CountedIs ==
  ASSUME NEW c \in Guess
  PROVE  LET after == Attempts!Counted(c)
         IN  /\ after \in Guess /\ after.quiet = c.quiet
             /\ IF c.count + 1 >= MaxAttempts
                  THEN after.lock = Lockout /\ after.count = 0
                  ELSE after.lock = c.lock /\ after.count = c.count + 1
<1>1. /\ c.count \in 0..(MaxAttempts - 1) /\ c.lock \in 0..Lockout
      /\ c.quiet \in Nat /\ Lockout \in 0..Lockout /\ 0 \in 0..(MaxAttempts - 1)
  BY LimitsAreSet DEF Guess
<1>2. CASE c.count + 1 >= MaxAttempts
  <2>1. Attempts!Counted(c) = [c EXCEPT !.lock = Lockout, !.count = 0]
    BY <1>2 DEF Attempts!Counted
  <2> QED
    BY <1>1, <1>2, <2>1 DEF Guess
<1>3. CASE ~(c.count + 1 >= MaxAttempts)
  <2>1. Attempts!Counted(c) = [c EXCEPT !.count = c.count + 1]
    BY <1>3 DEF Attempts!Counted
  <2>2. c.count + 1 \in 0..(MaxAttempts - 1)
    BY <1>1, <1>3, LimitsAreSet
  <2> QED
    BY <1>1, <1>3, <2>1, <2>2 DEF Guess
<1> QED
  BY <1>2, <1>3

(* A wrong password: one guess more, of one login less.  Counted into the  *)
(* record in the map it takes a guess that was free, or locks it.          *)
LEMMA FailKeeps ==
  ASSUME LoginIInv, NEW r \in Request, Attempts!Fail(r)
  PROVE  LoginIInv'
<1> DEFINE i == attempt[r]
           c == record[i]
           after == Attempts!Counted(c)
           f == [record EXCEPT ![i] = after]
<1>1. /\ LoginTypes /\ i \in Attempts!Record /\ c \in Guess
      /\ record \in [Attempts!Record -> Guess]
  BY DEF LoginIInv, LoginTypes, Attempts!Fail, Attempts!Finish
<1>2. /\ after \in Guess /\ after.quiet = c.quiet
      /\ IF c.count + 1 >= MaxAttempts
           THEN after.lock = Lockout /\ after.count = 0
           ELSE after.lock = c.lock /\ after.count = c.count + 1
  BY <1>1, CountedIs
<1>3. Attempts!Finish(r, f) /\ guesses' = guesses + 1 /\ elapsed' = elapsed
  BY DEF Attempts!Fail
<1> HIDE DEF after
<1>4. /\ f \in [Attempts!Record -> Guess] /\ f[i] = after
      /\ \A j \in Attempts!Record : j # i => f[j] = record[j]
  BY <1>1, <1>2
<1> HIDE DEF f
<1>5. /\ record' \in [Attempts!Record -> Guess] /\ current' = current
      /\ attempt' \in [Request -> Attempts!Record \union {0}]
      /\ UnusedAreNew'
      /\ current # 0 => record'[current] = f[current]
      /\ Cardinality(Busy)' = Cardinality(Busy) - 1
      /\ Cardinality(Astray)' = IF i = current THEN Cardinality(Astray)
                                               ELSE Cardinality(Astray) - 1
  BY <1>3, <1>4, FinishIs
<1>6. LoginTypes'
  BY <1>1, <1>3, <1>5 DEF LoginTypes
<1>7. CASE i # current
  <2>1. current # 0 => record'[current] = record[current]
    BY <1>1, <1>4, <1>5, <1>7 DEF LoginTypes
  <2>2. CountNow' = CountNow
    BY <1>5, <2>1 DEF CountNow
  <2> QED
    BY <1>1, <1>3, <1>5, <1>6, <1>7, <2>1, <2>2, BusyAreFinite, GuessNumbers,
       NoMoreToPay DEF LoginIInv
<1>8. CASE i = current /\ c.count + 1 < MaxAttempts
  <2>1. record'[current] = after /\ current # 0 /\ c.count \in Nat
    BY <1>1, <1>4, <1>5, <1>8, LimitsAreSet
       DEF Attempts!Fail, Attempts!Finish, Guess
  <2>2. CountNow' = CountNow + 1
    BY <1>1, <1>2, <1>5, <1>8, <2>1, LimitsAreSet DEF CountNow, Guess
  <2> QED
    BY <1>1, <1>2, <1>3, <1>5, <1>6, <1>8, <2>1, <2>2, BusyAreFinite,
       GuessNumbers, NoMoreToPay, LimitsAreSet DEF LoginIInv
<1>9. CASE i = current /\ c.count + 1 >= MaxAttempts
  <2> DEFINE A == Cardinality(Busy)
             S == Cardinality(Astray)
  <2>1. /\ record'[current] = after /\ current # 0
        /\ after.lock = Lockout /\ after.quiet = c.quiet
        /\ CountNow = MaxAttempts - 1
    BY <1>1, <1>2, <1>4, <1>5, <1>9, LimitsAreSet
    DEF Attempts!Fail, Attempts!Finish, Guess, CountNow
  <2>2. /\ A \in Nat /\ S \in Nat /\ A' = A - 1 /\ Most \in Int
        /\ guesses \in Nat /\ elapsed \in Nat
        /\ Cardinality(Request) \in Nat /\ A <= Cardinality(Request)
    BY <1>1, <1>5, BusyAreFinite, MostIs, GuessNumbers
  <2> HIDE DEF A, S
  <2>3. Locked'
    BY <1>5, <2>1, LimitsAreSet DEF Locked
  <2>4. Paid(guesses + A, elapsed)
    <3>1. CASE ~Locked
      <4>1. Paid(guesses + Most - CountNow + S, elapsed)
        BY <3>1 DEF LoginIInv, OpenPays, S
      <4>2. guesses + A <= guesses + Most - CountNow + S
        BY <2>1, <2>2, LimitsAreSet DEF Most
      <4> QED
        BY <2>1, <2>2, <4>1, <4>2, PaidByLater, LimitsAreSet
    <3>2. CASE Locked
      <4>1. Paid(guesses + A, elapsed + record[current].lock - Lockout)
        BY <3>2 DEF LoginIInv, LockedPays, A
      <4> QED
        BY <1>1, <2>1, <2>2, <4>1, GuessNumbers, PaidByLater, LimitsAreSet
    <3> QED
      BY <3>1, <3>2
  <2>5. guesses' + A' = guesses + A /\ elapsed' + Lockout - Lockout = elapsed
    BY <1>3, <2>2, LimitsAreSet
  <2>6. OpenPays'
    BY <2>3 DEF OpenPays
  <2>7. LockedPays'
    BY <1>5, <2>1, <2>4, <2>5 DEF LockedPays, A
  <2>8. QuietPays'
    <3>1. QuietPays /\ c = record[current]
      BY <1>9 DEF LoginIInv
    <3> QED
      BY <1>3, <1>5, <2>1, <2>5, <3>1 DEF QuietPays, Waited, A
  <2> QED
    BY <1>5, <1>6, <2>6, <2>7, <2>8 DEF LoginIInv
<1> QED
  BY <1>1, <1>7, <1>8, <1>9, LimitsAreSet DEF Guess

(* Where counting starts again, what is under way is free.                 *)
LEMMA PaidAgain ==
  ASSUME LoginTypes', guesses' = 0, elapsed' = 0, Request # {},
         current' # 0 => /\ record'[current'].lock \in 0..Lockout
                         /\ record'[current'].quiet \in Nat,
         CountNow' \in Nat,
         Cardinality(Busy)' \in 0..Cardinality(Request),
         Cardinality(Astray)' \in 0..Cardinality(Request)
  PROVE  OpenPays' /\ LockedPays' /\ QuietPays'
<1> DEFINE A == Cardinality(Busy)
           S == Cardinality(Astray)
<1>1. /\ Cardinality(Request) \in Nat /\ Most \in Int
      /\ Cardinality(Request) <= Most
  BY MostIs, LimitsAreSet DEF Most
<1>2. A' \in Nat /\ S' \in Nat /\ A' <= Most /\ S' <= Most
  BY <1>1
<1> HIDE DEF A, S
<1>3. Paid(0 + Most - CountNow' + S', 0)
  BY <1>1, <1>2, PaidAtFirst
<1>4. Paid(0 + A', 0 - Lockout)
  BY <1>1, <1>2, PaidAtFirst
<1>5. OpenPays'
  BY <1>3 DEF OpenPays, S
<1>6. LockedPays'
  <2>1. SUFFICES ASSUME Locked'
                 PROVE  Paid(0 + A', 0 + record'[current'].lock - Lockout)
    BY DEF LockedPays, A
  <2> QED
    BY <1>2, <1>4, <2>1, PaidByLater, LimitsAreSet DEF Locked
<1>7. QuietPays'
  <2> DEFINE w == IF record'[current'].quiet < Lockout
                    THEN record'[current'].quiet ELSE Lockout
  <2>1. SUFFICES ASSUME current' # 0 PROVE Paid(0 + A', 0 - w)
    BY DEF QuietPays, Waited, A
  <2>2. w \in Nat /\ w <= Lockout
    BY <2>1, LimitsAreSet
  <2> HIDE DEF w
  <2> QED
    BY <1>2, <1>4, <2>2, PaidByLater, LimitsAreSet
<1> QED
  BY <1>5, <1>6, <1>7

(* The right password.                                                     *)
LEMMA SucceedKeeps ==
  ASSUME LoginIInv, NEW r \in Request, Attempts!Succeed(r)
  PROVE  LoginIInv'
<1> DEFINE i == attempt[r]
           c == record[i]
           f == [record EXCEPT ![i].count = 0, ![i].lock = 0]
<1>1. /\ LoginTypes /\ i \in Attempts!Record /\ c \in Guess
      /\ record \in [Attempts!Record -> Guess]
  BY DEF LoginIInv, LoginTypes, Attempts!Succeed, Attempts!Finish
<1>2. /\ Attempts!Finish(r, f) /\ guesses' = 0 /\ elapsed' = 0
  BY DEF Attempts!Succeed
<1>3. f \in [Attempts!Record -> Guess]
  <2>1. [c EXCEPT !.count = 0, !.lock = 0] \in Guess
    <3>1. 0 \in 0..(MaxAttempts - 1) /\ 0 \in 0..Lockout
      BY LimitsAreSet
    <3> QED
      BY <1>1, <3>1 DEF Guess
  <2>2. f = [record EXCEPT ![i] = [c EXCEPT !.count = 0, !.lock = 0]]
    BY <1>1
  <2> QED
    BY <1>1, <2>1, <2>2
<1>4. \A j \in Attempts!Record : j # i => f[j] = record[j]
  BY <1>1
<1> HIDE DEF f
<1>5. /\ record' \in [Attempts!Record -> Guess] /\ current' = current
      /\ attempt' \in [Request -> Attempts!Record \union {0}]
      /\ UnusedAreNew'
      /\ Cardinality(Busy)' = Cardinality(Busy) - 1
      /\ Cardinality(Astray)' = IF i = current THEN Cardinality(Astray)
                                               ELSE Cardinality(Astray) - 1
  BY <1>2, <1>3, <1>4, FinishIs
<1>6. LoginTypes'
  BY <1>1, <1>2, <1>5 DEF LoginTypes
<1>7. /\ current' # 0 => /\ record'[current'].lock \in 0..Lockout
                         /\ record'[current'].quiet \in Nat
                         /\ record'[current'].count \in Nat
  BY <1>6, LimitsAreSet DEF LoginTypes, Guess
<1>8. CountNow' \in Nat
  BY <1>7 DEF CountNow
<1>9. Cardinality(Busy) # 0 /\ (i # current => Cardinality(Astray) # 0)
  <2>1. r \in Busy /\ (i # current => r \in Astray)
    BY DEF Busy, Astray, Attempts!Succeed, Attempts!Finish
  <2> QED
    BY <2>1, BusyAreFinite, FS_EmptySet
<1>10. /\ Cardinality(Busy)' \in 0..Cardinality(Request)
       /\ Cardinality(Astray)' \in 0..Cardinality(Request)
  BY <1>5, <1>9, BusyAreFinite, MostIs
<1>11. OpenPays' /\ LockedPays' /\ QuietPays'
  BY <1>2, <1>6, <1>7, <1>8, <1>10, PaidAgain
<1> QED
  BY <1>5, <1>6, <1>11 DEF LoginIInv

(* The record goes from the map: quiet for so long, it was open for the    *)
(* time of a lockout, or counting starts again.                            *)
LEMMA DropKeeps ==
  ASSUME LoginIInv, Attempts!Sweep \/ Attempts!PushOut
  PROVE  LoginIInv'
<1> DEFINE A == Cardinality(Busy)
<1>1. LoginTypes /\ Attempts!NewRecord \in Guess
  BY LimitsAreSet DEF LoginIInv, Guess, Attempts!NewRecord
<1>2. /\ current' = 0 /\ attempt' = attempt
      /\ record' = [i \in Attempts!Record |->
           IF i \in Attempts!Held THEN record[i] ELSE Attempts!NewRecord]
      /\ current # 0
  BY DEF Attempts!Sweep, Attempts!PushOut, Attempts!Drop, Attempts!Keep,
         Attempts!Quiet
<1>3. guesses' \in Nat /\ elapsed' \in Nat
  BY <1>1 DEF Attempts!Sweep, Attempts!PushOut, LoginTypes
<1>4. LoginTypes'
  BY <1>1, <1>2, <1>3 DEF LoginTypes
<1>5. UnusedAreNew'
  BY <1>2 DEF UnusedAreNew, Attempts!Held, Attempts!NewRecord
<1>6. Busy' = Busy /\ Astray' = Busy /\ CountNow' = 0 /\ ~Locked'
  BY <1>2 DEF Busy, Astray, CountNow, Locked
<1>7. CASE Attempts!PushOut
  <2>1. CASE Request # {}
    <3>1. A \in 0..Cardinality(Request)
      BY BusyAreFinite, MostIs
    <3> QED
      BY <1>2, <1>4, <1>5, <1>6, <1>7, <2>1, <3>1, PaidAgain
      DEF Attempts!PushOut, LoginIInv
  <2>2. CASE Request = {}
    <3>1. Busy = {} /\ A = 0
      BY <2>2, FS_EmptySet DEF Busy
    <3>2. Paid(0 + Most - 0 + 0, 0)
      BY MostIs, PaidAtFirst
    <3> QED
      BY <1>2, <1>4, <1>5, <1>6, <1>7, <3>1, <3>2
      DEF Attempts!PushOut, LoginIInv, OpenPays, LockedPays, QuietPays, Waited
  <2> QED
    BY <2>1, <2>2
<1>8. CASE Attempts!Sweep
  <2>1. guesses' = guesses /\ elapsed' = elapsed
    BY <1>8 DEF Attempts!Sweep
  <2>2. Paid(guesses + A, elapsed - Lockout)
    <3>1. record[current].quiet > AttemptTTL /\ record[current].quiet \in Nat
      BY <1>1, <1>2, <1>8, GuessNumbers DEF Attempts!Sweep, Attempts!Quiet
    <3>2. ~(record[current].quiet < Lockout)
      BY <3>1, LimitsAreSet
    <3> QED
      BY <1>2, <3>2 DEF LoginIInv, QuietPays, Waited
  <2>3. Paid(guesses + Most - 0 + A, elapsed)
    <3>1. /\ A \in Nat /\ Most \in Int /\ guesses \in Nat /\ elapsed \in Nat
          /\ Lockout \in Nat
      BY <1>1, BusyAreFinite, MostIs, GuessNumbers, LimitsAreSet
    <3> HIDE DEF A
    <3>2. /\ guesses + A \in Int /\ elapsed - Lockout \in Int
          /\ guesses + Most - 0 + A = guesses + A + Most
          /\ elapsed = elapsed - Lockout + Lockout
      BY <3>1
    <3> QED
      BY <2>2, <3>2, PaidByLockout
  <2> QED
    BY <1>2, <1>4, <1>5, <1>6, <2>1, <2>3
    DEF LoginIInv, OpenPays, LockedPays, QuietPays, Waited
<1> QED
  BY <1>7, <1>8

(* Time pays: for what is locked as its lock runs out, and for what is     *)
(* quiet as it stays so.                                                   *)
LEMMA LoginTickKeeps == ASSUME LoginIInv, Attempts!Tick PROVE LoginIInv'
<1> DEFINE A == Cardinality(Busy)
           S == Cardinality(Astray)
           c == record[current]
           older(d) == [d EXCEPT !.lock = IF @ = 0 THEN 0 ELSE @ - 1,
                                 !.quiet = IF @ > AttemptTTL THEN @ ELSE @ + 1]
<1>1. LoginTypes /\ OpenPays /\ LockedPays /\ QuietPays /\ UnusedAreNew
  BY DEF LoginIInv
<1>2. /\ elapsed' = elapsed + 1 /\ guesses' = guesses
      /\ current' = current /\ attempt' = attempt
      /\ record' = [i \in Attempts!Record |->
           IF i \notin Attempts!Held \cup {current} THEN record[i]
                                                    ELSE older(record[i])]
  BY DEF Attempts!Tick
<1>3. \A d \in Guess :
        /\ older(d) \in Guess /\ older(d).count = d.count
        /\ older(d).lock = IF d.lock = 0 THEN 0 ELSE d.lock - 1
        /\ older(d).quiet = IF d.quiet > AttemptTTL THEN d.quiet ELSE d.quiet + 1
  <2> TAKE d \in Guess
  <2>1. /\ d.lock \in 0..Lockout /\ d.quiet \in Nat
        /\ (IF d.lock = 0 THEN 0 ELSE d.lock - 1) \in 0..Lockout
        /\ (IF d.quiet > AttemptTTL THEN d.quiet ELSE d.quiet + 1) \in Nat
    BY LimitsAreSet DEF Guess
  <2> QED
    BY <2>1 DEF Guess
<1> HIDE DEF older
<1>4. LoginTypes' /\ UnusedAreNew' /\ CountNow' = CountNow
  <2>1. record' \in [Attempts!Record -> Guess]
    BY <1>1, <1>2, <1>3 DEF LoginTypes
  <2>2. LoginTypes'
    BY <1>1, <1>2, <2>1 DEF LoginTypes
  <2>3. UnusedAreNew'
    BY <1>1, <1>2 DEF UnusedAreNew, Attempts!Held, Attempts!NewRecord
  <2>4. CountNow' = CountNow
    BY <1>1, <1>2, <1>3 DEF CountNow, LoginTypes
  <2> QED
    BY <2>2, <2>3, <2>4
<1>5. current # 0 =>
        /\ c \in Guess /\ c.lock \in 0..Lockout /\ c.quiet \in Nat
        /\ record'[current] = older(c)
  BY <1>1, <1>2, GuessNumbers DEF LoginTypes
<1>6. /\ A' = A /\ S' = S /\ A \in Nat /\ S \in Nat /\ S <= A
      /\ Most \in Int /\ Most >= 0 /\ CountNow \in Nat
      /\ guesses \in Nat /\ elapsed \in Nat /\ Lockout \in Nat
  BY <1>1, <1>2, BusyAreFinite, MostIs, GuessNumbers, LimitsAreSet
  DEF Busy, Astray
<1> HIDE DEF A, S
<1>7. OpenPays'
  <2>1. SUFFICES ASSUME ~Locked'
                 PROVE  Paid(guesses + Most - CountNow + S, elapsed + 1)
    BY <1>2, <1>4, <1>6 DEF OpenPays, S
  <2>2. CASE ~Locked
    <3>1. Paid(guesses + Most - CountNow + S, elapsed)
      BY <1>1, <2>2 DEF OpenPays, S
    <3> QED
      BY <1>6, <3>1, PaidByLater
  <2>3. CASE Locked
    <3>1. current # 0 /\ c.lock = 1
      BY <1>2, <1>3, <1>5, <2>1, <2>3 DEF Locked
    <3>2. Paid(guesses + A, elapsed + 1 - Lockout)
      BY <1>1, <2>3, <3>1 DEF LockedPays, A
    <3>3. Paid(guesses + A + Most, elapsed + 1 - Lockout + Lockout)
      BY <1>6, <3>2, PaidByLockout
    <3> QED
      BY <1>6, <3>3, PaidByLater
  <2> QED
    BY <2>2, <2>3
<1>8. LockedPays'
  <2>1. SUFFICES ASSUME Locked'
                 PROVE  Paid(guesses + A,
                             elapsed + 1 + record'[current].lock - Lockout)
    BY <1>2, <1>6 DEF LockedPays, A
  <2>2. current # 0 /\ c.lock > 0 /\ record'[current].lock = c.lock - 1
    BY <1>2, <1>3, <1>5, <2>1 DEF Locked
  <2>3. Paid(guesses + A, elapsed + c.lock - Lockout)
    BY <1>1, <2>2 DEF LockedPays, Locked, A
  <2>4. elapsed + 1 + (c.lock - 1) - Lockout = elapsed + c.lock - Lockout
    BY <1>5, <1>6, <2>2
  <2> QED
    BY <2>2, <2>3, <2>4
<1>9. QuietPays'
  <2>1. SUFFICES ASSUME current' # 0
                 PROVE  Paid(guesses' + A',
                             elapsed' - Waited(record'[current'].quiet))
    BY DEF QuietPays, A
  <2>2. current # 0 /\ Paid(guesses + A, elapsed - Waited(c.quiet))
    BY <1>1, <1>2, <2>1 DEF QuietPays, A
  <2>3. record'[current'].quiet \in {c.quiet, c.quiet + 1} /\ c.quiet \in Nat
    BY <1>2, <1>3, <1>5, <2>2
  <2>4. PICK q \in {c.quiet, c.quiet + 1} : q = record'[current'].quiet
    BY <2>3
  <2>5. /\ Waited(c.quiet) \in Int /\ Waited(q) \in Int
        /\ Waited(q) <= Waited(c.quiet) + 1
    BY <1>6, <2>3, <2>4 DEF Waited
  <2>6. Paid(guesses + A, elapsed + 1 - Waited(q))
    BY <1>6, <2>2, <2>5, PaidByLater
  <2>7. guesses' + A' = guesses + A /\ elapsed' = elapsed + 1
    BY <1>2, <1>6
  <2>8. Waited(record'[current'].quiet) = Waited(q)
    BY <2>4
  <2>9. elapsed' - Waited(record'[current'].quiet) = elapsed + 1 - Waited(q)
    BY <1>6, <2>5, <2>7, <2>8
  <2> QED
    BY <2>6, <2>7, <2>9
<1> QED
  BY <1>4, <1>7, <1>8, <1>9 DEF LoginIInv

(* What Begin leaves: the record it looked at, seen just now, is in the    *)
(* map; unless that is locked, the login holds it.                         *)
LEMMA BeginTakes ==
  ASSUME LoginIInv, NEW r \in Request, Attempts!Begin(r), NEW x,
         current' = x, x \in Attempts!Record,
         record' = [i \in Attempts!Record |->
           IF i \in Attempts!Held \cup {x}
             THEN [record EXCEPT ![x].quiet = 0][i] ELSE Attempts!NewRecord],
         attempt' = IF record[x].lock > 0
                      THEN attempt ELSE [attempt EXCEPT ![r] = x]
  PROVE  /\ LoginTypes' /\ UnusedAreNew' /\ x # 0
         /\ record'[x].count = record[x].count
         /\ record'[x].lock = record[x].lock
         /\ record'[x].quiet = 0
         /\ guesses' = guesses /\ elapsed' = elapsed
<1>1. /\ LoginTypes /\ UnusedAreNew /\ attempt[r] = 0
      /\ guesses' = guesses /\ elapsed' = elapsed
  BY DEF LoginIInv, Attempts!Begin
<1>2. /\ record \in [Attempts!Record -> Guess] /\ record[x] \in Guess
      /\ Attempts!NewRecord \in Guess
  BY <1>1, LimitsAreSet DEF LoginTypes, Guess, Attempts!NewRecord
<1>3. [record[x] EXCEPT !.quiet = 0] \in Guess
  BY <1>2 DEF Guess
<1>4. [record EXCEPT ![x].quiet = 0] \in [Attempts!Record -> Guess]
  BY <1>2, <1>3
<1>5. LoginTypes'
  BY <1>1, <1>2, <1>4 DEF LoginTypes
<1>6. record'[x] = [record[x] EXCEPT !.quiet = 0]
  BY <1>2
<1>7. x # 0
  BY MostIs, CardinalityIs DEF Attempts!Record
<1>8. UnusedAreNew'
  <2>1. SUFFICES ASSUME NEW i \in Attempts!Record,
                        i \notin Attempts!Held' \union {x}
                 PROVE  record'[i] = Attempts!NewRecord
    BY DEF UnusedAreNew, Attempts!NewRecord
  <2>2. i # 0
    BY MostIs, CardinalityIs DEF Attempts!Record
  <2>3. i \notin Attempts!Held
    BY <1>1, <2>1, <2>2 DEF LoginTypes, Attempts!Held
  <2> QED
    BY <2>1, <2>3
<1> QED
  BY <1>1, <1>2, <1>5, <1>6, <1>7, <1>8 DEF Guess

LEMMA BeginFoundKeeps ==
  ASSUME LoginIInv, NEW r \in Request, Attempts!Begin(r), current # 0,
         current' = current,
         Attempts!Keep([record EXCEPT ![current'].quiet = 0],
                       Attempts!Held \cup {current'}),
         attempt' = IF record[current'].lock > 0
                      THEN attempt ELSE [attempt EXCEPT ![r] = current']
  PROVE  LoginIInv'
<1> DEFINE A == Cardinality(Busy)
           S == Cardinality(Astray)
           c == record[current]
<1>1. LoginTypes /\ OpenPays /\ LockedPays /\ attempt[r] = 0
  BY DEF LoginIInv, Attempts!Begin
<1>2. /\ LoginTypes' /\ UnusedAreNew' /\ guesses' = guesses
      /\ elapsed' = elapsed /\ record'[current].count = c.count
      /\ record'[current].lock = c.lock /\ record'[current].quiet = 0
  BY <1>1, BeginTakes DEF Attempts!Keep, LoginTypes
<1>3. CountNow' = CountNow /\ Locked' = Locked /\ (Locked <=> c.lock > 0)
  BY <1>2 DEF CountNow, Locked
<1>4. /\ A \in Nat /\ S \in Nat /\ Most \in Int /\ Lockout \in Nat
      /\ guesses \in Nat /\ elapsed \in Nat /\ CountNow \in Nat
      /\ c.lock \in 0..Lockout /\ CountNow <= MaxAttempts - 1
      /\ Cardinality(Request) \in Nat /\ MaxAttempts \in Nat
  BY <1>1, BusyAreFinite, MostIs, GuessNumbers, LimitsAreSet
<1>5. Astray' = Astray
  BY <1>1 DEF Astray, LoginTypes
<1>6. /\ Locked => A' = A
      /\ ~Locked => A' = A + 1 /\ A + 1 <= Cardinality(Request)
  <2>1. CASE Locked
    BY <1>3, <2>1 DEF Busy
  <2>2. CASE ~Locked
    <3>1. Busy' = Busy \union {r} /\ r \notin Busy
      BY <1>1, <1>3, <2>2 DEF Busy, LoginTypes
    <3>2. Cardinality(Busy \union {r}) = A + 1
      BY <3>1, BusyAreFinite, FS_AddElement
    <3>3. Busy \union {r} \in SUBSET Request
      BY DEF Busy
    <3>4. Cardinality(Busy \union {r}) <= Cardinality(Request)
      BY <3>3, RequestsAreFinite, FS_Subset
    <3> QED
      BY <2>2, <3>1, <3>2, <3>4
  <2> QED
    BY <2>1, <2>2
<1> HIDE DEF A, S
<1>7. OpenPays'
  BY <1>1, <1>2, <1>3, <1>5 DEF OpenPays
<1>8. LockedPays'
  BY <1>1, <1>2, <1>3, <1>6 DEF LockedPays, Locked, A
<1>9. Paid(guesses + A', elapsed)
  <2>1. CASE Locked
    <3>1. Paid(guesses + A, elapsed + c.lock - Lockout)
      BY <1>1, <2>1 DEF LockedPays, A
    <3>2. /\ elapsed + c.lock - Lockout \in Int
          /\ elapsed + c.lock - Lockout <= elapsed
      BY <1>4
    <3>3. A' = A /\ guesses + A \in Int /\ guesses + A <= guesses + A
      BY <1>4, <1>6, <2>1
    <3>4. Paid(guesses + A, elapsed)
      <4> DEFINE t == elapsed + c.lock - Lockout
      <4>1. t \in Int /\ t <= elapsed /\ Paid(guesses + A, t)
        BY <3>1, <3>2
      <4> HIDE DEF t
      <4> QED
        BY <1>4, <3>3, <4>1, PaidByLater
    <3> QED
      BY <3>3, <3>4
  <2>2. CASE ~Locked
    <3>1. Paid(guesses + Most - CountNow + S, elapsed)
      BY <1>1, <2>2 DEF OpenPays, S
    <3>2. A' <= Most - CountNow + S
      BY <1>4, <1>6, <2>2 DEF Most
    <3> QED
      BY <1>4, <1>6, <2>2, <3>1, <3>2, PaidByLater
  <2> QED
    BY <2>1, <2>2
<1>10. QuietPays'
  <2>1. elapsed - 0 = elapsed /\ 0 < Lockout
    BY <1>4, LimitsAreSet
  <2> QED
    BY <1>2, <1>9, <2>1 DEF QuietPays, Waited, A
<1> QED
  BY <1>2, <1>7, <1>8, <1>10 DEF LoginIInv

LEMMA BeginNewKeeps ==
  ASSUME LoginIInv, NEW r \in Request, Attempts!Begin(r),
         current = 0 \/ Attempts!Quiet, current' = Attempts!Unused,
         Attempts!Keep([record EXCEPT ![current'].quiet = 0],
                       Attempts!Held \cup {current'}),
         attempt' = IF record[current'].lock > 0
                      THEN attempt ELSE [attempt EXCEPT ![r] = current']
  PROVE  LoginIInv'
<1> DEFINE A == Cardinality(Busy)
<1>1. LoginTypes /\ OpenPays /\ QuietPays /\ UnusedAreNew /\ attempt[r] = 0
  BY DEF LoginIInv, Attempts!Begin
<1>2. PICK x \in Attempts!Record :
        x = Attempts!Unused /\ x \notin Attempts!Held \union {current}
  BY <1>1, SomeAreUnused
<1>3. record[x].count = 0 /\ record[x].lock = 0
  BY <1>1, <1>2 DEF UnusedAreNew, Attempts!NewRecord
<1>4. /\ current' = x
      /\ record' = [i \in Attempts!Record |->
           IF i \in Attempts!Held \cup {x}
             THEN [record EXCEPT ![x].quiet = 0][i] ELSE Attempts!NewRecord]
      /\ attempt' = IF record[x].lock > 0
                      THEN attempt ELSE [attempt EXCEPT ![r] = x]
  BY <1>2 DEF Attempts!Keep
<1>5. /\ LoginTypes' /\ UnusedAreNew' /\ guesses' = guesses /\ x # 0
      /\ elapsed' = elapsed /\ record'[x].count = 0
      /\ record'[x].lock = 0 /\ record'[x].quiet = 0
      /\ attempt' = [attempt EXCEPT ![r] = x]
  <2>1. /\ LoginTypes' /\ UnusedAreNew' /\ x # 0
        /\ record'[x].count = record[x].count
        /\ record'[x].lock = record[x].lock
        /\ record'[x].quiet = 0
        /\ guesses' = guesses /\ elapsed' = elapsed
    BY <1>4, BeginTakes
  <2>2. attempt' = [attempt EXCEPT ![r] = x]
    BY <1>3, <1>4
  <2> QED
    BY <1>3, <2>1, <2>2
<1>6. CountNow' = 0 /\ ~Locked' /\ current' = x
  BY <1>4, <1>5 DEF CountNow, Locked
<1>7. Busy' = Busy \union {r} /\ r \notin Busy /\ Astray' = Busy
  <2>1. \A q \in Busy : attempt[q] # x
    BY <1>2 DEF Busy, Attempts!Held
  <2> QED
    BY <1>1, <1>5, <1>6, <2>1 DEF Busy, Astray, LoginTypes
<1>8. A + 1 <= Cardinality(Request) /\ Cardinality(Busy)' = A + 1
  <2>1. Cardinality(Busy \union {r}) = A + 1
    BY <1>7, BusyAreFinite, FS_AddElement
  <2>2. Busy \union {r} \in SUBSET Request
    BY DEF Busy
  <2>3. Cardinality(Busy \union {r}) <= Cardinality(Request)
    BY <2>2, RequestsAreFinite, FS_Subset
  <2> QED
    BY <1>7, <2>1, <2>3
<1>9. /\ A \in Nat /\ Most \in Int /\ Lockout \in Nat
      /\ guesses \in Nat /\ elapsed \in Nat /\ MaxAttempts >= 1
      /\ Cardinality(Request) \in Nat /\ MaxAttempts \in Nat
  BY <1>1, BusyAreFinite, MostIs, GuessNumbers, LimitsAreSet
<1>10. Paid(guesses + Most - 0 + A, elapsed)
  <2>1. CASE current = 0
    <3>1. Astray = Busy /\ CountNow = 0 /\ ~Locked
      BY <2>1 DEF Astray, Busy, CountNow, Locked
    <3> QED
      BY <1>1, <3>1 DEF OpenPays
  <2>2. CASE current # 0
    <3>1. record[current].quiet > AttemptTTL /\ record[current].quiet \in Nat
      BY <1>1, <2>2, GuessNumbers DEF Attempts!Quiet
    <3>2. ~(record[current].quiet < Lockout)
      BY <3>1, LimitsAreSet
    <3>3. Paid(guesses + A, elapsed - Lockout)
      BY <1>1, <2>2, <3>2 DEF QuietPays, Waited
    <3> HIDE DEF A
    <3>4. Paid(guesses + A + Most, elapsed - Lockout + Lockout)
      BY <1>9, <3>3, PaidByLockout
    <3> QED
      BY <1>9, <3>4, PaidByLater
  <2> QED
    BY <2>1, <2>2
<1> HIDE DEF A
<1>11. Paid(guesses + (A + 1), elapsed)
  <2>1. guesses + (A + 1) <= guesses + Most - 0 + A
    BY <1>8, <1>9 DEF Most
  <2> QED
    BY <1>9, <1>10, <2>1, PaidByLater
<1>12. OpenPays' /\ LockedPays'
  BY <1>5, <1>6, <1>7, <1>10 DEF OpenPays, LockedPays, A
<1>13. QuietPays'
  <2>1. elapsed - 0 = elapsed /\ 0 < Lockout
    BY <1>9, LimitsAreSet
  <2> QED
    BY <1>5, <1>6, <1>8, <1>11, <2>1 DEF QuietPays, Waited, A
<1> QED
  BY <1>5, <1>12, <1>13 DEF LoginIInv

LEMMA LoginGoesOn == ASSUME LoginInv, [Next]_vars PROVE LoginInv'
<1>1. SUFFICES ASSUME LoginIInv, [Attempts!Next]_loginVars PROVE LoginIInv'
  BY PartSteps DEF LoginInv
<1>2. ASSUME NEW r \in Request, Attempts!Begin(r) PROVE LoginIInv'
  BY <1>1, <1>2, BeginFoundKeeps, BeginNewKeeps DEF Attempts!Begin
<1>3. CASE UNCHANGED loginVars
  BY <1>1, <1>3
  DEF loginVars, LoginIInv, LoginTypes, OpenPays, LockedPays, QuietPays, Waited,
      UnusedAreNew, Attempts!Held, Attempts!NewRecord, Busy, Astray,
      CountNow, Locked
<1> QED
  BY <1>1, <1>2, <1>3, MalformedKeeps, FailKeeps, SucceedKeeps, DropKeeps,
     LoginTickKeeps DEF Attempts!Next

(* What is paid for is within the bound, in whole lockouts.                *)
LEMMA GuessesArePaid == ASSUME LoginIInv PROVE Attempts!GuessesBounded
<1> DEFINE whole == elapsed \div Lockout
<1>1. /\ guesses \in Nat /\ elapsed \in Nat /\ CountNow \in Nat
      /\ CountNow <= MaxAttempts - 1
      /\ current # 0 => record[current].lock \in 0..Lockout
  BY GuessNumbers DEF LoginIInv
<1>2. Paid(guesses, elapsed)
  <2>1. /\ Cardinality(Busy) \in Nat /\ Cardinality(Astray) \in Nat
        /\ Most - CountNow >= 0
    BY <1>1, BusyAreFinite, MostIs, LimitsAreSet DEF Most
  <2>2. CASE ~Locked
    BY <1>1, <2>1, <2>2, MostIs, PaidByLater DEF LoginIInv, OpenPays
  <2>3. CASE Locked
    BY <1>1, <2>1, <2>3, PaidByLater, LimitsAreSet
    DEF LoginIInv, LockedPays, Locked
  <2> QED
    BY <2>2, <2>3
<1>3. PICK m \in Int :
        m >= -1 /\ m * Lockout <= elapsed /\ guesses <= Most * (2 + m)
  BY <1>2 DEF Paid
<1>4. whole \in Int /\ m <= whole
  BY <1>1, <1>3, LimitsAreSet
<1>5. Most * (2 + m) <= Most * (2 + whole)
  BY <1>3, <1>4, MostIs
<1> QED
  BY <1>1, <1>3, <1>4, <1>5, MostIs, CardinalityIs
  DEF Attempts!GuessesBounded, Most

(* tokenbucket.go, ratelimit.go, auth.go: from any moment on, no more is   *)
(* let in than the limiters are set to, and no more wrong passwords than   *)
(* the lockout allows, whatever overlaps, is swept or pushed out.          *)
THEOREM LimitsAreAsTold == Spec => []LimitsAsTold
<1>1. LimitsInv /\ LoginInv => LimitsAsTold
  BY LimitsAreTold, GuessesArePaid DEF LimitsAsTold, LoginInv
<1> QED
  BY <1>1, LimitsStart, LimitsGoOn, LoginStart, LoginGoesOn, PTL DEF Spec

-----------------------------------------------------------------------------
(* Signing.                                                                *)
SignInv == part = "sign" => SignProof!IInv

LEMMA SignersNumbered == SignProof!Numbered
BY SignersAreNumbered DEF SignProof!Numbered

LEMMA SignStart == Init => SignInv
<1>1. Sign!Init => SignProof!Init
  BY DEF Sign!Init, SignProof!Init, Sign!Event, SignProof!Event,
         Sign!SignedBy, SignProof!SignedBy, Sign!AsSent, SignProof!AsSent,
         Sign!NotSealed, SignProof!NotSealed, Sign!NoRequest,
         SignProof!NoRequest
<1> QED
  BY <1>1, SignersNumbered, SignProof!InitIInv DEF Init, SignInv

LEMMA SameCalls ==
  ASSUME NEW r \in Handler
  PROVE  /\ \A p : Sign!Continue(r, p) = SignProof!Continue(r, p)
         /\ \A action, by, todo, mine :
              Sign!Begin(r, action, by, todo, mine) =
                SignProof!Begin(r, action, by, todo, mine)
<1>1. \A p : Sign!Continue(r, p) = SignProof!Continue(r, p)
  BY DEF Sign!Continue, SignProof!Continue, Sign!NothingToUpsert,
         SignProof!NothingToUpsert, Sign!NoRequest, SignProof!NoRequest,
         Sign!SignedBy, SignProof!SignedBy, Sign!AsSent, SignProof!AsSent
<1>2. Sign!NoRequest = SignProof!NoRequest /\ Sign!Plan = SignProof!Plan
  BY DEF Sign!NoRequest, SignProof!NoRequest, Sign!SignedBy,
         SignProof!SignedBy, Sign!AsSent, SignProof!AsSent, Sign!Plan,
         SignProof!Plan
<1>3. ASSUME NEW action, NEW by, NEW todo, NEW mine
      PROVE  Sign!Begin(r, action, by, todo, mine) =
               SignProof!Begin(r, action, by, todo, mine)
  <2> DEFINE p == [Sign!NoRequest EXCEPT
                     !.action = action, !.by = by, !.todo = todo,
                     !.plan = Sign!Plan[action], !.base = env, !.mine = mine]
  <2>1. Sign!Continue(r, p) = SignProof!Continue(r, p)
    BY <1>1
  <2>2. p = [SignProof!NoRequest EXCEPT
               !.action = action, !.by = by, !.todo = todo,
               !.plan = SignProof!Plan[action], !.base = env, !.mine = mine]
    BY <1>2, Zenon
  <2> QED
    BY <2>1, <2>2, Zenon DEF Sign!Begin, SignProof!Begin, Sign!Idle,
                             SignProof!Idle
<1> QED
  BY <1>1, <1>3

LEMMA SameSteps ==
  ASSUME NEW r \in Handler
  PROVE  /\ Sign!Send(r) = SignProof!Send(r)
         /\ Sign!Cancel(r) = SignProof!Cancel(r)
         /\ Sign!Download(r) = SignProof!Download(r)
         /\ \A s \in Signer :
              /\ Sign!GetSignerView(r, s) = SignProof!GetSignerView(r, s)
              /\ Sign!Complete(r, s) = SignProof!Complete(r, s)
              /\ Sign!Decline(r, s) = SignProof!Decline(r, s)
         /\ Sign!Fetch(r) = SignProof!Fetch(r)
         /\ Sign!Replace(r) = SignProof!Replace(r)
         /\ Sign!Write(r) = SignProof!Write(r)
         /\ Sign!Stamp(r) = SignProof!Stamp(r)
         /\ Sign!StoreSealedPDF(r) = SignProof!StoreSealedPDF(r)
         /\ Sign!List(r) = SignProof!List(r)
         /\ Sign!ListFails(r) = SignProof!ListFails(r)
         /\ Sign!AppendAuditEvent(r) = SignProof!AppendAuditEvent(r)
         /\ Sign!Die(r) = SignProof!Die(r)
<1>1. Sign!Send(r) = SignProof!Send(r)
  BY SameCalls DEF Sign!Send, SignProof!Send
<1>2. Sign!Cancel(r) = SignProof!Cancel(r)
  BY SameCalls DEF Sign!Cancel, SignProof!Cancel
<1>3. Sign!Download(r) = SignProof!Download(r)
  BY SameCalls DEF Sign!Download, SignProof!Download, Sign!AllSigned,
         SignProof!AllSigned, Sign!NotSealed, SignProof!NotSealed
<1>4. \A s \in Signer :
        /\ Sign!GetSignerView(r, s) = SignProof!GetSignerView(r, s)
        /\ Sign!Complete(r, s) = SignProof!Complete(r, s)
        /\ Sign!Decline(r, s) = SignProof!Decline(r, s)
  BY SameCalls DEF Sign!GetSignerView, SignProof!GetSignerView, Sign!Locked,
         SignProof!Locked, Sign!Complete, SignProof!Complete,
         Sign!Completed, SignProof!Completed, Sign!AllSigned,
         SignProof!AllSigned, Sign!Active, SignProof!Active, Sign!Decline,
         SignProof!Decline
<1>5. Sign!Fetch(r) = SignProof!Fetch(r)
  BY SameCalls DEF Sign!Fetch, SignProof!Fetch, Sign!Step, SignProof!Step, Sign!Idle,
         SignProof!Idle
<1>6. Sign!Replace(r) = SignProof!Replace(r)
  BY SameCalls DEF Sign!Replace, SignProof!Replace, Sign!Step, SignProof!Step,
         Sign!Idle, SignProof!Idle, Sign!Popped, SignProof!Popped,
         Sign!SignedBy, SignProof!SignedBy, Sign!AsSent, SignProof!AsSent
<1>7. Sign!Write(r) = SignProof!Write(r)
  BY SameCalls DEF Sign!Write, SignProof!Write, Sign!Step, SignProof!Step, Sign!Idle,
         SignProof!Idle, Sign!Popped, SignProof!Popped, Sign!Unlocked,
         SignProof!Unlocked, Sign!SignedBy, SignProof!SignedBy,
         Sign!AsSent, SignProof!AsSent
<1>8. /\ Sign!Stamp(r) = SignProof!Stamp(r)
      /\ Sign!StoreSealedPDF(r) = SignProof!StoreSealedPDF(r)
  BY SameCalls DEF Sign!Stamp, SignProof!Stamp, Sign!StoreSealedPDF,
         SignProof!StoreSealedPDF, Sign!Step, SignProof!Step, Sign!Idle,
         SignProof!Idle, Sign!Popped, SignProof!Popped, Sign!SignedBy,
         SignProof!SignedBy, Sign!AsSent, SignProof!AsSent
<1>9. /\ Sign!List(r) = SignProof!List(r)
      /\ Sign!ListFails(r) = SignProof!ListFails(r)
  BY SameCalls DEF Sign!List, SignProof!List, Sign!ListFails, SignProof!ListFails,
         Sign!Latest, SignProof!Latest, Sign!Step, SignProof!Step,
         Sign!Idle, SignProof!Idle, Sign!Popped, SignProof!Popped,
         Sign!SignedBy, SignProof!SignedBy, Sign!AsSent, SignProof!AsSent
<1>10. Sign!AppendAuditEvent(r) = SignProof!AppendAuditEvent(r)
  BY SameCalls DEF Sign!AppendAuditEvent, SignProof!AppendAuditEvent, Sign!Appending,
         SignProof!Appending, Sign!Remaining, SignProof!Remaining,
         Sign!Event, SignProof!Event, Sign!Step, SignProof!Step, Sign!Idle,
         SignProof!Idle, Sign!Popped, SignProof!Popped, Sign!SignedBy,
         SignProof!SignedBy, Sign!AsSent, SignProof!AsSent
<1>11. Sign!Die(r) = SignProof!Die(r)
  BY SameCalls DEF Sign!Die, SignProof!Die, Sign!Idle, SignProof!Idle,
         Sign!NoRequest, SignProof!NoRequest, Sign!SignedBy,
         SignProof!SignedBy, Sign!AsSent, SignProof!AsSent
<1> QED
  BY <1>1, <1>2, <1>3, <1>4, <1>5, <1>6, <1>7, <1>8, <1>9, <1>10, <1>11

LEMMA SignGoesOn == ASSUME SignInv, [Next]_vars PROVE SignInv'
<1>1. Sign!Update => SignProof!Update
  BY DEF Sign!Update, SignProof!Update
<1>2. Sign!Next => SignProof!Next
  BY <1>1, SameSteps DEF Sign!Next, SignProof!Next
<1>3. [Sign!Next]_signVars => [SignProof!Next]_(SignProof!vars)
  BY <1>2 DEF signVars, SignProof!vars
<1> QED
  BY <1>3, PartSteps, SignersNumbered, SignProof!StepKeepsIInv DEF SignInv

LEMMA SignHolds ==
  ASSUME SignInv, part = "sign"
  PROVE  /\ Sign!ChainIntact /\ Sign!SealVerifies /\ Sign!FinalHashIsOfSeal
         /\ Sign!SignatureKept /\ Sign!CompletedIsSigned
<1>1. SignProof!ChainIntact => Sign!ChainIntact
  BY DEF Sign!ChainIntact, SignProof!ChainIntact, Sign!Links,
         SignProof!Links, Sign!Before, SignProof!Before, Sign!Latest,
         SignProof!Latest
<1>2. SignProof!SealVerifies => Sign!SealVerifies
  BY DEF Sign!SealVerifies, SignProof!SealVerifies, Sign!SignedEvents,
         SignProof!SignedEvents, Sign!Links, SignProof!Links, Sign!Before,
         SignProof!Before, Sign!Latest, SignProof!Latest, Sign!NotSealed,
         SignProof!NotSealed
<1>3. SignProof!FinalHashIsOfSeal => Sign!FinalHashIsOfSeal
  BY DEF Sign!FinalHashIsOfSeal, SignProof!FinalHashIsOfSeal, Sign!Sealing,
         SignProof!Sealing, Sign!Idle, SignProof!Idle, Sign!Remaining,
         SignProof!Remaining
<1>4. /\ SignProof!SignatureKept => Sign!SignatureKept
      /\ SignProof!CompletedIsSigned => Sign!CompletedIsSigned
  BY DEF Sign!SignatureKept, SignProof!SignatureKept,
         Sign!CompletedIsSigned, SignProof!CompletedIsSigned,
         Sign!SignedEvents, SignProof!SignedEvents, Sign!Idle,
         SignProof!Idle
<1> QED
  BY <1>1, <1>2, <1>3, <1>4, SignProof!IInvSuffices DEF SignInv

(* signing.go, orchestration.go: the audit chain links, whatever handlers  *)
(* overlap, except where two events were made at once or the events could  *)
(* not be read - for any number of signers and of requests at a time.      *)
THEOREM AuditChainLinks == Spec => []SignChainIntact
<1>1. SignInv => SignChainIntact
  BY SignHolds DEF SignChainIntact
<1> QED
  BY <1>1, SignStart, SignGoesOn, PTL DEF Spec

(* seal.go, signing.go: what is sealed was signed by every signer and      *)
(* verifies; the hash in the envelope is that of the stored PDF, unless a  *)
(* Download is under way or died, or another request wrote over it.        *)
THEOREM SealsAreTrue == Spec => []SignSealIsTrue
<1>1. SignInv => SignSealIsTrue
  BY SignHolds DEF SignSealIsTrue
<1> QED
  BY <1>1, SignStart, SignGoesOn, PTL DEF Spec

(* signing.go: a signature that was logged is in the envelope with its     *)
(* values, unless its request is still to write it or died, or another     *)
(* wrote over it; and a completed envelope was signed by all.              *)
THEOREM SignaturesAreKept == Spec => []SignSignaturesKept
<1>1. SignInv => SignSignaturesKept
  BY SignHolds DEF SignSignaturesKept
<1> QED
  BY <1>1, SignStart, SignGoesOn, PTL DEF Spec

-----------------------------------------------------------------------------
(* FileAccess.                                                             *)
Role == Access!Grantable \union {Access!None}
FileRequest ==
  [at : {"idle", "access1", "access2", "role1", "role2", "act", "share",
         "set", "unshare", "demote", "drop1", "drop2"},
   does : {"read", "comment", "edit", "share", "transfer", "delete"},
   by : Account, to : Account, role : Role, owns : BOOLEAN,
   prev : Account \union {Access!None}, had : 0..4, taken : BOOLEAN]

AccessTypes ==
  /\ owner \in Account \union {Access!None}
  /\ share \in [Account -> Role]
  /\ access \in [Request -> FileRequest]
  /\ exists \in BOOLEAN /\ unfounded \in BOOLEAN /\ muddled \in BOOLEAN
  /\ granted \subseteq Account

(* What account a may do now.                                              *)
LevelOf(a) == Access!Level[Access!RoleOf(a, owner, share)]

(* A check that goes on knows at least of what its account may do, has had *)
(* a role if its first lookup let it through, and notes what is taken.     *)
Founded(q) ==
  q.at \in Access!Checking =>
    /\ LevelOf(q.by) <= q.had
    /\ q.had > 0 /\ LevelOf(q.by) = 0 => q.taken
    /\ q.at # "access1" => owner # Access!None \/ q.taken
    /\ q.at \in {"access2", "role2"} /\ q.owns => q.had = 4
    /\ q.at \in {"role1", "role2"} => q.had > 0 \/ q.taken

(* The file has an owner until it is dropped.                              *)
Owned ==
  /\ exists => owner # Access!None
  /\ \A r \in Request : access[r].at \in {"drop1", "drop2"} => ~exists

(* One transfer at a time knows both owners; who was given access has a    *)
(* role, or is the previous owner, whose share is to follow.               *)
OneTransfer(r, s) ==
  access[r].at \in Access!Transfer /\ access[s].at \in Access!Transfer => r = s
Passing(r) == access[r].at \in {"unshare", "demote"}
InOrder ==
  exists /\ ~muddled =>
    /\ \A r, s \in Request : OneTransfer(r, s)
    /\ \A r \in Request :
         /\ access[r].at = "set" => /\ access[r].prev = owner
                                    /\ access[r].to # owner
         /\ Passing(r) => access[r].to = owner
    /\ \A a \in granted :
         \/ owner = a \/ share[a] # Access!None
         \/ \E r \in Request : Passing(r) /\ access[r].prev = a

AccessIInv ==
  /\ AccessTypes /\ ~unfounded
  /\ \A r \in Request : Founded(access[r])
  /\ Owned /\ InOrder
AccessInv == part = "access" => AccessIInv

LEMMA Levels ==
  /\ \A role \in Role \union {"owner"} :
       /\ Access!Level[role] \in 0..4
       /\ Access!Level[role] = 0 <=> role = Access!None
       /\ Access!Level[role] = 4 <=> role = "owner"
  /\ Access!Level[Access!None] = 0 /\ Access!Level["owner"] = 4
BY DEF Role, Access!Grantable, Access!None, Access!Level

LEMMA NeedLevels ==
  ASSUME NEW does \in {"read", "comment", "edit", "share", "transfer",
                       "delete"}
  PROVE  Access!Level[Access!Needs[does]] \in 1..4
BY DEF Access!Needs, Access!Level

LEMMA LevelsOf ==
  ASSUME AccessTypes, NEW a \in Account
  PROVE  /\ LevelOf(a) \in 0..4
         /\ owner = Access!None => LevelOf(a) = 0
         /\ owner = a => LevelOf(a) = 4
         /\ owner \notin {a, Access!None} =>
              /\ LevelOf(a) = Access!Level[share[a]]
              /\ share[a] # Access!None => LevelOf(a) > 0
<1>1. share[a] \in Role /\ "owner" \notin Role /\ a # Access!None
  BY FilesHaveOwners
  DEF AccessTypes, Role, Access!Grantable, Access!None
<1>2. CASE owner = Access!None
  BY <1>1, <1>2, Levels DEF LevelOf, Access!RoleOf
<1>3. CASE owner = a
  BY <1>1, <1>3, Levels DEF LevelOf, Access!RoleOf
<1>4. CASE owner \notin {a, Access!None}
  <2>1. Access!RoleOf(a, owner, share) = share[a]
    BY <1>4 DEF Access!RoleOf
  <2> QED
    BY <1>1, <1>4, <2>1, Levels DEF LevelOf
<1> QED
  BY <1>1, <1>2, <1>3, <1>4

LEMMA AccessStart == Init => AccessInv
<1> SUFFICES ASSUME Access!Init PROVE AccessIInv
  BY DEF Init, AccessInv
<1>1. /\ owner = FirstOwner /\ exists = TRUE /\ unfounded = FALSE
      /\ share = [a \in Account |-> IF a = FirstViewer THEN "viewer"
                                                       ELSE Access!None]
      /\ access = [r \in Request |-> Access!Idle] /\ muddled = FALSE
      /\ granted = {FirstOwner, FirstViewer}
  BY DEF Access!Init
<1>2. Access!Idle \in FileRequest /\ Access!Idle.at = "idle"
  BY FilesHaveOwners DEF Access!Idle, FileRequest, Role, Access!None
<1>3. share \in [Account -> Role]
  BY <1>1 DEF Role, Access!Grantable
<1>4. AccessTypes
  BY <1>1, <1>2, <1>3, FilesHaveOwners DEF AccessTypes
<1>5. \A r \in Request : access[r].at = "idle"
  BY <1>1, <1>2
<1>6. \A r \in Request : Founded(access[r])
  BY <1>5 DEF Founded, Access!Checking
<1>7. Owned
  BY <1>1, <1>5, FilesHaveOwners DEF Owned, Access!None
<1>8. InOrder
  <2>1. \A r \in Request : access[r].at \notin Access!Transfer
    BY <1>5 DEF Access!Transfer
  <2>2. \A a \in granted : owner = a \/ share[a] # Access!None
    BY <1>1, FilesHaveOwners DEF Access!None
  <2> QED
    BY <1>5, <2>1, <2>2 DEF InOrder, OneTransfer, Passing
<1> QED
  BY <1>1, <1>4, <1>6, <1>7, <1>8 DEF AccessIInv

(* A request that goes from what is no change to what is none.             *)
Changing == Access!Transfer \union {"drop1", "drop2"}
LEMMA LookupKeeps ==
  ASSUME AccessIInv, NEW r \in Request, NEW q \in FileRequest,
         access[r].at \notin Changing, q.at \notin Changing,
         access' = [access EXCEPT ![r] = q], Founded(q), ~unfounded',
         unfounded' \in BOOLEAN,
         UNCHANGED <<owner, share, exists, granted, muddled>>
  PROVE  AccessIInv'
<1>1. AccessTypes /\ Owned /\ InOrder /\ \A s \in Request : Founded(access[s])
  BY DEF AccessIInv
<1>2. AccessTypes'
  BY <1>1 DEF AccessTypes
<1>3. \A s \in Request : access'[s] = IF s = r THEN q ELSE access[s]
  BY <1>1 DEF AccessTypes
<1>4. \A s \in Request : Founded(access[s])'
  BY <1>1, <1>3 DEF Founded, LevelOf
<1>5. \A s \in Request :
        access'[s].at \in Changing \/ access[s].at \in Changing
          => access'[s] = access[s]
  BY <1>3
<1>6. Owned'
  BY <1>1, <1>5 DEF Owned, Changing
<1>7. InOrder'
  <2>1. /\ \A s \in Request : Passing(s)' <=> Passing(s)
        /\ \A s \in Request : Passing(s) => access'[s] = access[s]
        /\ \A s, t \in Request : OneTransfer(s, t)' <=> OneTransfer(s, t)
    BY <1>5 DEF Passing, OneTransfer, Changing, Access!Transfer
  <2>2. \A s \in Request : access'[s].at = "set" => access'[s] = access[s]
    BY <1>5 DEF Changing, Access!Transfer
  <2> QED
    BY <1>1, <2>1, <2>2 DEF InOrder
<1> QED
  BY <1>2, <1>4, <1>6, <1>7 DEF AccessIInv

LEMMA IdleIsNothing ==
  /\ Access!Idle \in FileRequest /\ Access!Idle.at = "idle"
  /\ Founded(Access!Idle)
BY FilesHaveOwners
DEF Access!Idle, FileRequest, Role, Access!None, Founded, Access!Checking

LEMMA CallKeeps ==
  ASSUME AccessIInv, NEW r \in Request, Access!Call(r) PROVE AccessIInv'
<1>1. PICK does \in DOMAIN Access!Needs, by, to \in Account,
           role \in Access!Grantable \union {Access!None} :
        Access!Goes(r, [Access!Idle EXCEPT
                          !.at = "access1", !.does = does, !.by = by,
                          !.to = to, !.role = role,
                          !.had = Access!Level[
                                    Access!RoleOf(by, owner, share)]])
  BY DEF Access!Call
<1>2. PICK q : q = [Access!Idle EXCEPT !.at = "access1", !.does = does,
                      !.by = by, !.to = to, !.role = role,
                      !.had = LevelOf(by)]
  OBVIOUS
<1>3. LevelOf(by) \in 0..4
  BY LevelsOf DEF AccessIInv
<1>4. does \in {"read", "comment", "edit", "share", "transfer", "delete"}
  BY DEF Access!Needs
<1>5. /\ q \in FileRequest /\ q.at = "access1" /\ q.by = by
      /\ q.had = LevelOf(by) /\ q.owns = FALSE
  BY <1>2, <1>3, <1>4, FilesHaveOwners
  DEF Access!Idle, FileRequest, Access!None, Role
<1>6. Founded(q)
  BY <1>3, <1>5 DEF Founded
<1>7. access[r].at = "idle" /\ access' = [access EXCEPT ![r] = q]
  BY <1>1, <1>2, IdleIsNothing DEF Access!Call, Access!Goes, LevelOf
<1>8. /\ UNCHANGED <<owner, share, exists, granted, muddled, unfounded>>
      /\ ~unfounded' /\ unfounded' \in BOOLEAN
  BY DEF Access!Call, AccessIInv, AccessTypes
<1> QED
  BY <1>5, <1>6, <1>7, <1>8, LookupKeeps DEF Changing, Access!Transfer

LEMMA FindOwnerKeeps ==
  ASSUME AccessIInv, NEW r \in Request, Access!FindOwner(r) PROVE AccessIInv'
<1> DEFINE q == access[r]
<1>1. AccessTypes /\ Founded(q) /\ q \in FileRequest /\ q.at = "access1"
  BY DEF AccessIInv, AccessTypes, Access!FindOwner
<1>2. /\ UNCHANGED <<owner, share, exists, granted, muddled, unfounded>>
      /\ ~unfounded' /\ unfounded' \in BOOLEAN
  BY DEF Access!FindOwner, AccessIInv, AccessTypes
<1>3. CASE owner = Access!None
  <2>1. access' = [access EXCEPT ![r] = Access!Idle]
    BY <1>3 DEF Access!FindOwner, Access!End, Access!Goes
  <2> QED
    BY <1>1, <1>2, <2>1, IdleIsNothing, LookupKeeps
    DEF Changing, Access!Transfer
<1>4. CASE owner # Access!None
  <2>1. PICK p : p = [q EXCEPT !.at = "access2", !.owns = owner = q.by]
    OBVIOUS
  <2>2. access' = [access EXCEPT ![r] = p]
    BY <1>4, <2>1 DEF Access!FindOwner, Access!Goes
  <2>3. /\ p \in FileRequest /\ p.at = "access2" /\ p.by = q.by
        /\ p.had = q.had /\ p.taken = q.taken /\ p.owns = (owner = q.by)
        /\ q.by \in Account /\ q.had \in 0..4
    BY <1>1, <2>1 DEF FileRequest
  <2>4. Founded(p)
    <3>1. LevelOf(q.by) <= q.had /\ (q.had > 0 /\ LevelOf(q.by) = 0 => q.taken)
      BY <1>1 DEF Founded, Access!Checking
    <3>2. owner = q.by => q.had = 4
      BY <1>1, <2>3, <3>1, LevelsOf
    <3> QED
      BY <1>4, <2>3, <3>1, <3>2 DEF Founded
  <2> QED
    BY <1>1, <1>2, <2>2, <2>3, <2>4, LookupKeeps
    DEF Changing, Access!Transfer
<1> QED
  BY <1>3, <1>4

LEMMA CanAccessKeeps ==
  ASSUME AccessIInv, NEW r \in Request, Access!CanAccess(r) PROVE AccessIInv'
<1> DEFINE q == access[r]
           may == q.owns \/ share[q.by] # Access!None
<1>1. AccessTypes /\ Founded(q) /\ q \in FileRequest /\ q.at = "access2"
  BY DEF AccessIInv, AccessTypes, Access!CanAccess
<1>2. /\ UNCHANGED <<owner, share, exists, granted, muddled>>
      /\ unfounded' = (unfounded \/ (/\ may /\ q.does = "read"
                                     /\ q.had = 0 /\ ~q.taken))
      /\ ~unfounded
  BY DEF Access!CanAccess, AccessIInv
<1>3. may => q.had > 0 \/ q.taken
  BY <1>1, LevelsOf DEF Founded, Access!Checking, FileRequest
<1>4. ~unfounded' /\ unfounded' \in BOOLEAN
  <2>1. ~(may /\ q.had = 0 /\ ~q.taken)
    BY <1>1, <1>3 DEF FileRequest
  <2> HIDE DEF may
  <2> QED
    BY <1>2, <2>1
<1>5. CASE may /\ q.does # "read"
  <2>1. PICK p : p = [q EXCEPT !.at = "role1"]
    OBVIOUS
  <2>2. access' = [access EXCEPT ![r] = p]
    BY <1>5, <2>1 DEF Access!CanAccess, Access!Goes
  <2>3. /\ p \in FileRequest /\ p.at = "role1" /\ p.by = q.by
        /\ p.had = q.had /\ p.taken = q.taken /\ p.owns = q.owns
    BY <1>1, <2>1 DEF FileRequest
  <2>4. Founded(p)
    BY <1>1, <1>3, <1>5, <2>3 DEF Founded, Access!Checking
  <2> QED
    BY <1>1, <1>2, <1>4, <2>2, <2>3, <2>4, LookupKeeps
    DEF Changing, Access!Transfer
<1>6. CASE ~(may /\ q.does # "read")
  <2>1. access' = [access EXCEPT ![r] = Access!Idle]
    BY <1>6 DEF Access!CanAccess, Access!End, Access!Goes
  <2> QED
    BY <1>1, <1>2, <1>4, <2>1, IdleIsNothing, LookupKeeps
    DEF Changing, Access!Transfer
<1> QED
  BY <1>5, <1>6

LEMMA DecidedKeeps ==
  ASSUME AccessIInv, NEW r \in Request, NEW role,
         access[r].at \in {"role1", "role2"}, Access!Decided(r, role),
         Access!Suffices(access[r].does, role) =>
           \/ access[r].taken
           \/ access[r].had >= Access!Level[Access!Needs[access[r].does]],
         UNCHANGED <<owner, share, exists, granted, muddled>>
  PROVE  AccessIInv'
<1> DEFINE q == access[r]
           ok == Access!Suffices(q.does, role)
           need == Access!Level[Access!Needs[q.does]]
<1>1. AccessTypes /\ q \in FileRequest /\ ~unfounded
  BY DEF AccessIInv, AccessTypes
<1>2. ~unfounded' /\ unfounded' \in BOOLEAN
  <2>1. ~(ok /\ ~q.taken /\ q.had < need)
    BY <1>1, NeedLevels DEF FileRequest
  <2>2. unfounded' = (unfounded \/ (ok /\ ~q.taken /\ q.had < need))
    BY DEF Access!Decided
  <2> HIDE DEF ok, need
  <2> QED
    BY <1>1, <2>1, <2>2
<1>3. \/ access' = [access EXCEPT ![r] = Access!Idle]
      \/ access' = [access EXCEPT ![r] = [q EXCEPT !.at = "act"]]
  BY DEF Access!Decided, Access!Goes, Access!End
<1>4. [q EXCEPT !.at = "act"] \in FileRequest
  BY <1>1 DEF FileRequest
<1>5. [q EXCEPT !.at = "act"].at = "act"
  BY <1>1 DEF FileRequest
<1>6. Founded([q EXCEPT !.at = "act"])
  BY <1>5 DEF Founded, Access!Checking
<1> QED
  BY <1>2, <1>3, <1>4, <1>5, <1>6, IdleIsNothing, LookupKeeps
  DEF Changing, Access!Transfer

LEMMA GetRoleKeeps ==
  ASSUME AccessIInv, NEW r \in Request, Access!GetRole(r) PROVE AccessIInv'
<1> DEFINE q == access[r]
           need == Access!Level[Access!Needs[q.does]]
<1>1. /\ AccessTypes /\ Founded(q) /\ q \in FileRequest /\ q.by \in Account
      /\ q.had \in 0..4 /\ share[q.by] \in Role /\ ~unfounded
  BY DEF AccessIInv, AccessTypes, FileRequest
<1>2. UNCHANGED <<owner, share, exists, granted, muddled>>
  BY DEF Access!GetRole
<1>3. need \in 1..4
  BY <1>1, NeedLevels DEF FileRequest
<1>4. CASE q.at = "role1" /\ owner = Access!None /\ Access!Decided(r, Access!None)
  <2>1. q.taken
    BY <1>1, <1>4 DEF Founded, Access!Checking
  <2> QED
    BY <1>2, <1>4, <2>1, DecidedKeeps
<1>5. CASE /\ q.at = "role1" /\ owner # Access!None /\ unfounded' = unfounded
           /\ access' = [access EXCEPT ![r] =
                           [q EXCEPT !.at = "role2", !.owns = owner = q.by]]
  <2>1. PICK p : p = [q EXCEPT !.at = "role2", !.owns = owner = q.by]
    OBVIOUS
  <2>2. /\ p \in FileRequest /\ p.at = "role2" /\ p.by = q.by
        /\ p.had = q.had /\ p.taken = q.taken /\ p.owns = (owner = q.by)
    BY <1>1, <2>1 DEF FileRequest
  <2>3. /\ LevelOf(q.by) <= q.had /\ (q.had > 0 /\ LevelOf(q.by) = 0 => q.taken)
        /\ q.had > 0 \/ q.taken
    BY <1>1, <1>5 DEF Founded, Access!Checking
  <2>4. owner = q.by => q.had = 4
    BY <1>1, <2>3, LevelsOf
  <2>5. Founded(p)
    BY <1>5, <2>2, <2>3, <2>4 DEF Founded
  <2>6. ~unfounded' /\ unfounded' \in BOOLEAN
    BY <1>1, <1>5 DEF AccessTypes
  <2> QED
    BY <1>2, <1>5, <2>1, <2>2, <2>5, <2>6, LookupKeeps
    DEF Changing, Access!Transfer
<1>6. CASE /\ q.at = "role2"
           /\ Access!Decided(r, IF q.owns THEN "owner" ELSE share[q.by])
  <2>1. /\ LevelOf(q.by) <= q.had /\ (q.had > 0 /\ LevelOf(q.by) = 0 => q.taken)
        /\ q.had > 0 \/ q.taken
        /\ owner # Access!None \/ q.taken
        /\ q.owns => q.had = 4
    BY <1>1, <1>6 DEF Founded, Access!Checking
  <2>2. CASE q.owns
    BY <1>1, <1>2, <1>3, <1>6, <2>1, <2>2, DecidedKeeps
  <2>3. CASE ~q.owns /\ owner = q.by
    <3>1. q.had = 4
      BY <1>1, <2>1, <2>3, LevelsOf
    <3> QED
      BY <1>1, <1>2, <1>3, <1>6, <3>1, DecidedKeeps
  <2>4. CASE ~q.owns /\ owner # q.by /\ ~q.taken
    <3>1. LevelOf(q.by) = Access!Level[share[q.by]]
      BY <1>1, <2>1, <2>4, LevelsOf
    <3>2. share[q.by] # Access!None
      BY <1>1, <2>1, <2>4, <3>1, Levels
    <3>3. Access!Suffices(q.does, share[q.by]) => q.had >= need
      BY <1>1, <1>3, <2>1, <3>1, <3>2, Levels DEF Access!Suffices
    <3> QED
      BY <1>2, <1>6, <2>4, <3>3, DecidedKeeps
  <2>5. CASE q.taken
    BY <1>2, <1>6, <2>5, DecidedKeeps
  <2> QED
    BY <2>2, <2>3, <2>4, <2>5
<1> QED
  BY <1>4, <1>5, <1>6 DEF Access!GetRole, Access!Goes

LEMMA ShareKeeps ==
  ASSUME AccessIInv, NEW r \in Request, Access!Share(r) PROVE AccessIInv'
<1> DEFINE q == access[r]
<1>1. AccessTypes /\ q \in FileRequest /\ q.at = "act" /\ ~unfounded
  BY DEF AccessIInv, AccessTypes, Access!Share
<1>2. /\ UNCHANGED <<owner, share, exists, granted, muddled, unfounded>>
      /\ ~unfounded' /\ unfounded' \in BOOLEAN
  BY <1>1 DEF Access!Share, AccessTypes
<1>3. PICK p : p = [q EXCEPT !.at = "share"]
  OBVIOUS
<1>4. p \in FileRequest /\ p.at = "share"
  BY <1>1, <1>3 DEF FileRequest
<1>5. \/ access' = [access EXCEPT ![r] = Access!Idle]
      \/ access' = [access EXCEPT ![r] = p]
  BY <1>3 DEF Access!Share, Access!Goes, Access!End
<1>6. Founded(p)
  BY <1>4 DEF Founded, Access!Checking
<1> QED
  BY <1>1, <1>2, <1>4, <1>5, <1>6, IdleIsNothing, LookupKeeps
  DEF Changing, Access!Transfer

(* What a change of the ACL does to the checks under way.                  *)
LEMMA StoreKeepsChecks ==
  ASSUME AccessIInv, NEW r \in Request,
         NEW own \in Account \union {Access!None},
         NEW roles \in [Account -> Role], NEW next \in FileRequest,
         next.at \notin Access!Checking, Access!Store(r, own, roles, next)
  PROVE  /\ owner' = own /\ share' = roles
         /\ access' \in [Request -> FileRequest] /\ access'[r] = next
         /\ \A s \in Request : Founded(access[s])'
         /\ \A s \in Request : s # r =>
              /\ access'[s].at = access[s].at
              /\ access'[s].prev = access[s].prev
              /\ access'[s].to = access[s].to
<1> DEFINE level(q) == Access!Level[Access!RoleOf(q.by, own, roles)]
           Seen(q) == Access!Seen(q, own, roles)
<1>1. /\ AccessTypes /\ access \in [Request -> FileRequest]
      /\ \A s \in Request : Founded(access[s])
  BY DEF AccessIInv, AccessTypes
<1>2. owner' = own /\ share' = roles
  BY DEF Access!Store
<1>3. access' = [s \in Request |->
        IF s = r THEN next
        ELSE IF access[s].at \in Access!Checking THEN Seen(access[s])
        ELSE access[s]]
  BY DEF Access!Store
<1>4. \A q \in FileRequest : level(q) \in 0..4
  <2> TAKE q \in FileRequest
  <2>1. Access!RoleOf(q.by, own, roles) \in Role \union {"owner"}
    BY DEF Access!RoleOf, FileRequest, Role
  <2> QED
    BY <2>1, Levels
<1> HIDE DEF level
<1>5. \A q \in FileRequest :
        /\ Seen(q) \in FileRequest
        /\ Seen(q).at = q.at /\ Seen(q).prev = q.prev /\ Seen(q).to = q.to
        /\ Seen(q).by = q.by /\ Seen(q).owns = q.owns
        /\ Seen(q).had \in 0..4 /\ q.had \in 0..4
        /\ level(q) <= Seen(q).had /\ q.had <= Seen(q).had
        /\ Seen(q).had \in {q.had, level(q)}
        /\ q.taken \/ own = Access!None => Seen(q).taken
        /\ level(q) = 0 /\ q.had > 0 => Seen(q).taken
  <2> TAKE q \in FileRequest
  <2>1. level(q) \in 0..4 /\ q.had \in 0..4 /\ q.taken \in BOOLEAN
    BY <1>4 DEF FileRequest
  <2>2. Seen(q) =
          [q EXCEPT !.had = IF level(q) > q.had THEN level(q) ELSE q.had,
                    !.taken = \/ q.taken \/ own = Access!None
                              \/ level(q) = 0 /\ q.had > 0]
    BY DEF Access!Seen, level, FileRequest
  <2> DEFINE h == IF level(q) > q.had THEN level(q) ELSE q.had
             t == q.taken \/ own = Access!None \/ (level(q) = 0 /\ q.had > 0)
  <2>3. /\ h \in 0..4 /\ h \in {q.had, level(q)}
        /\ level(q) <= h /\ q.had <= h
        /\ t \in BOOLEAN /\ (q.taken \/ own = Access!None => t)
        /\ level(q) = 0 /\ q.had > 0 => t
    BY <2>1
  <2>4. Seen(q) = [q EXCEPT !.had = h, !.taken = t]
    BY <2>2
  <2> HIDE DEF Seen, h, t
  <2> QED
    BY <2>1, <2>3, <2>4 DEF FileRequest
<1> HIDE DEF Seen
<1>6. access' \in [Request -> FileRequest]
  BY <1>1, <1>3, <1>5
<1>7. ASSUME NEW s \in Request PROVE Founded(access[s])'
  <2> DEFINE q == access[s]
  <2>1. CASE s = r \/ q.at \notin Access!Checking
    BY <1>1, <1>3, <2>1 DEF Founded
  <2>2. CASE s # r /\ q.at \in Access!Checking
    <3>1. q \in FileRequest /\ access'[s] = Seen(q) /\ Founded(q)
      BY <1>1, <1>3, <2>2
    <3>2. PICK p \in FileRequest : p = Seen(q)
      BY <1>5, <3>1
    <3>3. /\ p.at = q.at /\ p.by = q.by /\ p.owns = q.owns
          /\ p.had \in 0..4 /\ q.had \in 0..4
          /\ level(q) <= p.had /\ q.had <= p.had
          /\ p.had \in {q.had, level(q)} /\ level(q) \in 0..4
          /\ q.taken \/ own = Access!None => p.taken
          /\ level(q) = 0 /\ q.had > 0 => p.taken
      BY <1>4, <1>5, <3>1, <3>2
    <3>4. /\ q.at # "access1" => owner # Access!None \/ q.taken
          /\ q.at \in {"access2", "role2"} /\ q.owns => q.had = 4
          /\ q.at \in {"role1", "role2"} => q.had > 0 \/ q.taken
      BY <2>2, <3>1 DEF Founded
    <3>5. PICK n \in 0..4 : n = level(q)
      BY <3>3
    <3>6. /\ n <= p.had /\ (p.had > 0 /\ n = 0 => p.taken)
          /\ own # Access!None \/ p.taken
          /\ p.at \in {"access2", "role2"} /\ p.owns => p.had = 4
          /\ p.at \in {"role1", "role2"} => p.had > 0 \/ p.taken
      BY <3>3, <3>4, <3>5
    <3>7. access'[s] = p /\ Access!Level[Access!RoleOf(p.by, own, roles)] = n
      BY <3>1, <3>2, <3>3, <3>5 DEF level
    <3> QED
      BY <1>2, <3>6, <3>7 DEF Founded, LevelOf
  <2> QED
    BY <2>1, <2>2
<1> QED
  BY <1>1, <1>2, <1>3, <1>5, <1>6, <1>7

LEMMA ShareWithRoleKeeps ==
  ASSUME AccessIInv, NEW r \in Request, Access!ShareWithRole(r)
  PROVE  AccessIInv'
<1> DEFINE q == access[r]
<1>1. /\ AccessTypes /\ Owned /\ InOrder /\ ~unfounded
      /\ q \in FileRequest /\ q.at = "share" /\ q.to \in Account
      /\ q.role \in Role
  BY DEF AccessIInv, AccessTypes, Access!ShareWithRole, FileRequest
<1>2. PICK roles : roles = [share EXCEPT ![q.to] = q.role]
  OBVIOUS
<1>3. /\ Access!Store(r, owner, roles, Access!Idle)
      /\ UNCHANGED <<exists, unfounded, muddled>>
      /\ granted' = IF q.role = Access!None THEN granted \ {q.to}
                                            ELSE granted \union {q.to}
  BY <1>2 DEF Access!ShareWithRole
<1>4. roles \in [Account -> Role] /\ owner \in Account \union {Access!None}
  BY <1>1, <1>2 DEF AccessTypes
<1>5. /\ owner' = owner /\ share' = roles
      /\ access' \in [Request -> FileRequest] /\ access'[r].at = "idle"
      /\ \A s \in Request : Founded(access[s])'
      /\ \A s \in Request : s # r =>
           /\ access'[s].at = access[s].at
           /\ access'[s].prev = access[s].prev
           /\ access'[s].to = access[s].to
  BY <1>3, <1>4, StoreKeepsChecks, IdleIsNothing DEF Access!Checking
<1>6. AccessTypes'
  BY <1>1, <1>3, <1>4, <1>5 DEF AccessTypes
<1>7. Owned'
  BY <1>1, <1>3, <1>5 DEF Owned
<1>8. InOrder'
  <2>1. \A s \in Request : Passing(s)' <=> Passing(s)
    BY <1>1, <1>5 DEF Passing
  <2>2. \A s \in Request : access'[s].at \in Access!Transfer => s # r
    BY <1>5 DEF Access!Transfer
  <2>3. \A s \in Request : Passing(s) => s # r
    BY <1>1 DEF Passing
  <2>4. SUFFICES ASSUME exists, ~muddled
                 PROVE  \A a \in granted' :
                          \/ owner = a \/ roles[a] # Access!None
                          \/ \E s \in Request : Passing(s) /\ access[s].prev = a
    BY <1>1, <1>3, <1>5, <2>1, <2>2, <2>3
    DEF InOrder, OneTransfer, Access!Transfer
  <2> QED
    BY <1>1, <1>2, <1>3, <2>4 DEF InOrder, AccessTypes
<1> QED
  BY <1>1, <1>3, <1>5, <1>6, <1>7, <1>8 DEF AccessIInv

(* A transfer begins: the previous owner is the owner, another is to be.   *)
LEMMA TransferOwnerKeeps ==
  ASSUME AccessIInv, NEW r \in Request, Access!TransferOwner(r)
  PROVE  AccessIInv'
<1> DEFINE q == access[r]
           prev == IF owner = Access!None THEN q.by ELSE owner
<1>1. /\ AccessTypes /\ Owned /\ InOrder /\ ~unfounded
      /\ q \in FileRequest /\ q.at = "act"
      /\ \A s \in Request : Founded(access[s])
  BY DEF AccessIInv, AccessTypes, Access!TransferOwner
<1>2. UNCHANGED <<owner, share, exists, granted, unfounded>>
  BY DEF Access!TransferOwner
<1>3. CASE ~exists \/ q.to = prev
  <2>1. access' = [access EXCEPT ![r] = Access!Idle] /\ muddled' = muddled
    BY <1>3 DEF Access!TransferOwner, Access!End, Access!Goes
  <2>2. ~unfounded' /\ unfounded' \in BOOLEAN
    BY <1>1, <1>2 DEF AccessTypes
  <2> QED
    BY <1>1, <1>2, <2>1, <2>2, IdleIsNothing, LookupKeeps
    DEF Changing, Access!Transfer
<1>4. CASE exists /\ q.to # prev
  <2>1. PICK p : p = [q EXCEPT !.at = "set", !.prev = prev]
    OBVIOUS
  <2>2. /\ access' = [access EXCEPT ![r] = p]
        /\ muddled' = (muddled \/ \E s \in Request :
                                    access[s].at \in Access!Transfer)
    BY <1>4, <2>1 DEF Access!TransferOwner, Access!Goes
  <2>3. /\ prev = owner /\ p \in FileRequest /\ p.at = "set"
        /\ p.prev = owner /\ p.to # owner
    BY <1>1, <1>4, <2>1 DEF FileRequest, Owned, AccessTypes
  <2>4. \A s \in Request : access'[s] = IF s = r THEN p ELSE access[s]
    BY <1>1, <2>2 DEF AccessTypes
  <2>5. muddled' \in BOOLEAN
    BY <1>1, <2>2 DEF AccessTypes
  <2>6. AccessTypes'
    BY <1>1, <1>2, <2>2, <2>3, <2>5 DEF AccessTypes
  <2>7. \A s \in Request : Founded(access[s])'
    BY <1>1, <1>2, <2>3, <2>4 DEF Founded, LevelOf, Access!Checking
  <2>8. Owned'
    BY <1>1, <1>2, <2>3, <2>4 DEF Owned
  <2>9. ASSUME exists', ~muddled'
        PROVE  /\ \A s, t \in Request : OneTransfer(s, t)'
               /\ \A s \in Request :
                    /\ access'[s].at = "set" => /\ access'[s].prev = owner
                                                /\ access'[s].to # owner
                    /\ Passing(s)' => access'[s].to = owner
               /\ \A a \in granted :
                    \/ owner = a \/ share[a] # Access!None
                    \/ \E s \in Request : Passing(s)' /\ access'[s].prev = a
    <3>1. /\ exists /\ ~muddled
          /\ \A s \in Request : access[s].at \notin Access!Transfer
      BY <1>2, <2>2, <2>9
    <3>2. \A s \in Request : ~Passing(s) /\ ~Passing(s)'
      BY <2>3, <2>4, <3>1 DEF Passing, Access!Transfer
    <3>3. \A s \in Request : access'[s].at \in Access!Transfer => s = r
      BY <2>4, <3>1
    <3> QED
      BY <1>1, <2>3, <2>4, <3>1, <3>2, <3>3
      DEF InOrder, OneTransfer, Access!Transfer
  <2>10. InOrder'
    BY <1>2, <2>9 DEF InOrder
  <2> QED
    BY <1>1, <1>2, <2>6, <2>7, <2>8, <2>10 DEF AccessIInv
<1> QED
  BY <1>3, <1>4

LEMMA SetOwnerKeeps ==
  ASSUME AccessIInv, NEW r \in Request, Access!SetOwner(r) PROVE AccessIInv'
<1> DEFINE q == access[r]
<1>1. /\ AccessTypes /\ Owned /\ InOrder /\ ~unfounded
      /\ q \in FileRequest /\ q.at = "set" /\ q.to \in Account
  BY DEF AccessIInv, AccessTypes, Access!SetOwner, FileRequest
<1>2. PICK p : p = [q EXCEPT !.at = "unshare"]
  OBVIOUS
<1>3. /\ p \in FileRequest /\ p.at = "unshare" /\ p.to = q.to
      /\ p.prev = q.prev
  BY <1>1, <1>2 DEF FileRequest
<1>4. /\ Access!Store(r, q.to, share, p)
      /\ UNCHANGED <<exists, unfounded, muddled>>
      /\ granted' = granted \union {q.to}
  BY <1>2 DEF Access!SetOwner
<1>5. /\ owner' = q.to /\ share' = share
      /\ access' \in [Request -> FileRequest] /\ access'[r] = p
      /\ \A s \in Request : Founded(access[s])'
      /\ \A s \in Request : s # r =>
           /\ access'[s].at = access[s].at
           /\ access'[s].prev = access[s].prev
           /\ access'[s].to = access[s].to
  BY <1>1, <1>3, <1>4, StoreKeepsChecks DEF Access!Checking, AccessTypes
<1>6. AccessTypes'
  BY <1>1, <1>4, <1>5 DEF AccessTypes
<1>7. Owned'
  BY <1>1, <1>3, <1>4, <1>5, FilesHaveOwners DEF Owned, Access!None
<1>8. ASSUME exists', ~muddled'
      PROVE  /\ \A s, t \in Request : OneTransfer(s, t)'
             /\ \A s \in Request :
                  /\ access'[s].at = "set" => /\ access'[s].prev = owner'
                                              /\ access'[s].to # owner'
                  /\ Passing(s)' => access'[s].to = owner'
             /\ \A a \in granted' :
                  \/ owner' = a \/ share'[a] # Access!None
                  \/ \E s \in Request : Passing(s)' /\ access'[s].prev = a
  <2>1. exists /\ ~muddled
    BY <1>4, <1>8
  <2>2. \A s \in Request : s # r => access[s].at \notin Access!Transfer
    BY <1>1, <2>1 DEF InOrder, OneTransfer, Access!Transfer
  <2>3. \A s \in Request : access'[s].at \in Access!Transfer => s = r
    BY <1>5, <2>2
  <2>4. \A s \in Request : (Passing(s)' <=> s = r) /\ ~Passing(s)
    BY <1>1, <1>3, <1>5, <2>2 DEF Passing, Access!Transfer
  <2>5. q.prev = owner /\ access'[r].prev = owner
    BY <1>1, <1>3, <1>5, <2>1 DEF InOrder
  <2>6. \A a \in granted : owner = a \/ share[a] # Access!None
    BY <1>1, <2>1, <2>4 DEF InOrder
  <2>7. \A s \in Request : access'[s].at # "set"
    BY <1>3, <1>5, <2>3 DEF Access!Transfer
  <2> QED
    BY <1>3, <1>4, <1>5, <2>3, <2>4, <2>5, <2>6, <2>7 DEF OneTransfer
<1>9. InOrder'
  BY <1>8 DEF InOrder
<1> QED
  BY <1>1, <1>4, <1>5, <1>6, <1>7, <1>9 DEF AccessIInv

LEMMA UnshareKeeps ==
  ASSUME AccessIInv, NEW r \in Request, Access!Unshare(r) PROVE AccessIInv'
<1> DEFINE q == access[r]
<1>1. /\ AccessTypes /\ Owned /\ InOrder /\ ~unfounded
      /\ q \in FileRequest /\ q.at = "unshare" /\ q.to \in Account
  BY DEF AccessIInv, AccessTypes, Access!Unshare, FileRequest
<1>2. PICK p, roles : /\ p = [q EXCEPT !.at = "demote"]
                      /\ roles = [share EXCEPT ![q.to] = Access!None]
  OBVIOUS
<1>3. /\ p \in FileRequest /\ p.at = "demote" /\ p.to = q.to
      /\ p.prev = q.prev /\ roles \in [Account -> Role]
  BY <1>1, <1>2 DEF FileRequest, AccessTypes, Role
<1>4. /\ Access!Store(r, owner, roles, p)
      /\ UNCHANGED <<exists, unfounded, muddled, granted>>
  BY <1>2 DEF Access!Unshare
<1>5. /\ owner' = owner /\ share' = roles
      /\ access' \in [Request -> FileRequest] /\ access'[r] = p
      /\ \A s \in Request : Founded(access[s])'
      /\ \A s \in Request : s # r =>
           /\ access'[s].at = access[s].at
           /\ access'[s].prev = access[s].prev
           /\ access'[s].to = access[s].to
  BY <1>1, <1>3, <1>4, StoreKeepsChecks DEF Access!Checking, AccessTypes
<1>6. AccessTypes'
  BY <1>1, <1>3, <1>4, <1>5 DEF AccessTypes
<1>7. Owned'
  BY <1>1, <1>3, <1>4, <1>5 DEF Owned
<1>8. ASSUME exists', ~muddled'
      PROVE  /\ \A s, t \in Request : OneTransfer(s, t)'
             /\ \A s \in Request :
                  /\ access'[s].at = "set" => /\ access'[s].prev = owner'
                                              /\ access'[s].to # owner'
                  /\ Passing(s)' => access'[s].to = owner'
             /\ \A a \in granted' :
                  \/ owner' = a \/ share'[a] # Access!None
                  \/ \E s \in Request : Passing(s)' /\ access'[s].prev = a
  <2>1. exists /\ ~muddled
    BY <1>4, <1>8
  <2>2. \A s \in Request : s # r => access[s].at \notin Access!Transfer
    BY <1>1, <2>1 DEF InOrder, OneTransfer, Access!Transfer
  <2>3. \A s \in Request : access'[s].at \in Access!Transfer => s = r
    BY <1>5, <2>2
  <2>4. \A s \in Request : (Passing(s)' <=> s = r) /\ (Passing(s) <=> s = r)
    BY <1>1, <1>3, <1>5, <2>2 DEF Passing, Access!Transfer
  <2>5. q.to = owner /\ access'[r].prev = q.prev
    BY <1>1, <1>3, <1>5, <2>1, <2>4 DEF InOrder
  <2>6. \A a \in granted :
          owner = a \/ share[a] # Access!None \/ q.prev = a
    BY <1>1, <2>1, <2>4 DEF InOrder
  <2>7. \A s \in Request : access'[s].at # "set"
    BY <1>3, <1>5, <2>3 DEF Access!Transfer
  <2>8. \A a \in granted : a # owner => roles[a] = share[a]
    BY <1>1, <1>2, <2>5 DEF AccessTypes
  <2> QED
    BY <1>3, <1>4, <1>5, <2>3, <2>4, <2>5, <2>6, <2>7, <2>8 DEF OneTransfer
<1>9. InOrder'
  BY <1>8 DEF InOrder
<1> QED
  BY <1>1, <1>4, <1>5, <1>6, <1>7, <1>9 DEF AccessIInv

LEMMA DemoteKeeps ==
  ASSUME AccessIInv, NEW r \in Request, Access!Demote(r) PROVE AccessIInv'
<1> DEFINE q == access[r]
<1>1. /\ AccessTypes /\ Owned /\ InOrder /\ ~unfounded
      /\ q \in FileRequest /\ q.at = "demote"
  BY DEF AccessIInv, AccessTypes, Access!Demote
<1>2. PICK roles : roles = [share EXCEPT ![q.prev] = "editor"]
  OBVIOUS
<1>3. roles \in [Account -> Role]
  BY <1>1, <1>2 DEF AccessTypes, Role, Access!Grantable
<1>4. /\ Access!Store(r, owner, roles, Access!Idle)
      /\ UNCHANGED <<exists, unfounded, muddled, granted>>
  BY <1>2 DEF Access!Demote
<1>5. /\ owner' = owner /\ share' = roles
      /\ access' \in [Request -> FileRequest] /\ access'[r].at = "idle"
      /\ \A s \in Request : Founded(access[s])'
      /\ \A s \in Request : s # r =>
           /\ access'[s].at = access[s].at
           /\ access'[s].prev = access[s].prev
           /\ access'[s].to = access[s].to
  BY <1>1, <1>3, <1>4, StoreKeepsChecks, IdleIsNothing
  DEF Access!Checking, AccessTypes
<1>6. AccessTypes'
  BY <1>1, <1>3, <1>4, <1>5 DEF AccessTypes
<1>7. Owned'
  BY <1>1, <1>4, <1>5 DEF Owned
<1>8. ASSUME exists', ~muddled'
      PROVE  /\ \A s \in Request : access'[s].at \notin Access!Transfer
             /\ \A a \in granted' : owner' = a \/ share'[a] # Access!None
  <2>1. exists /\ ~muddled
    BY <1>4, <1>8
  <2>2. \A s \in Request : s # r => access[s].at \notin Access!Transfer
    BY <1>1, <2>1 DEF InOrder, OneTransfer, Access!Transfer
  <2>3. \A s \in Request : access'[s].at \notin Access!Transfer
    BY <1>5, <2>2 DEF Access!Transfer
  <2>4. \A s \in Request : Passing(s) <=> s = r
    BY <1>1, <2>2 DEF Passing, Access!Transfer
  <2>5. \A a \in granted :
          owner = a \/ share[a] # Access!None \/ q.prev = a
    BY <1>1, <2>1, <2>4 DEF InOrder
  <2>6. \A a \in Account :
          roles[a] = IF a = q.prev THEN "editor" ELSE share[a]
    BY <1>1, <1>2 DEF AccessTypes
  <2> QED
    BY <1>1, <1>4, <1>5, <2>3, <2>5, <2>6 DEF AccessTypes, Access!None
<1>9. InOrder'
  BY <1>8 DEF InOrder, OneTransfer, Passing, Access!Transfer
<1> QED
  BY <1>1, <1>4, <1>5, <1>6, <1>7, <1>9 DEF AccessIInv

LEMMA CutShortKeeps ==
  ASSUME AccessIInv, NEW r \in Request, Access!CutShort(r) PROVE AccessIInv'
<1>1. /\ AccessTypes /\ Owned /\ ~unfounded
      /\ access' = [access EXCEPT ![r] = Access!Idle] /\ muddled' = TRUE
      /\ UNCHANGED <<owner, share, exists, granted, unfounded>>
      /\ \A s \in Request : Founded(access[s])
  BY DEF AccessIInv, Access!CutShort, Access!End, Access!Goes
<1>2. AccessTypes'
  BY <1>1, IdleIsNothing DEF AccessTypes
<1>3. \A s \in Request : Founded(access[s])'
  BY <1>1, IdleIsNothing DEF AccessTypes, Founded, LevelOf, Access!Checking
<1>4. Owned'
  BY <1>1, IdleIsNothing DEF AccessTypes, Owned
<1> QED
  BY <1>1, <1>2, <1>3, <1>4 DEF AccessIInv, InOrder

LEMMA DeleteKeeps ==
  ASSUME AccessIInv, NEW r \in Request, Access!Delete(r) PROVE AccessIInv'
<1>1. /\ AccessTypes /\ Owned /\ ~unfounded /\ exists' = FALSE
      /\ UNCHANGED <<owner, share, granted, muddled, unfounded>>
      /\ \A s \in Request : Founded(access[s])
  BY DEF AccessIInv, Access!Delete
<1>2. PICK p : p = [access[r] EXCEPT !.at = "drop1"]
  OBVIOUS
<1>3. p \in FileRequest /\ p.at = "drop1"
  BY <1>1, <1>2 DEF AccessTypes, FileRequest
<1>4. \/ access' = [access EXCEPT ![r] = p]
      \/ access' = [access EXCEPT ![r] = Access!Idle]
  BY <1>2 DEF Access!Delete, Access!End, Access!Goes
<1>5. AccessTypes'
  BY <1>1, <1>3, <1>4, IdleIsNothing DEF AccessTypes
<1>6. \A s \in Request : Founded(access[s])'
  BY <1>1, <1>3, <1>4, IdleIsNothing
  DEF AccessTypes, Founded, LevelOf, Access!Checking
<1> QED
  BY <1>1, <1>5, <1>6 DEF AccessIInv, InOrder, Owned

LEMMA DropKeepsAccess ==
  ASSUME AccessIInv, NEW r \in Request, Access!Drop(r) PROVE AccessIInv'
<1>1. /\ AccessTypes /\ Owned /\ ~unfounded /\ ~exists
      /\ access[r] \in FileRequest
  BY DEF AccessIInv, AccessTypes, Owned, Access!Drop
<1>2. UNCHANGED <<exists, unfounded, muddled>> /\ granted' = {}
  BY DEF Access!Drop
<1>3. PICK p : p = [access[r] EXCEPT !.at = "drop2"]
  OBVIOUS
<1>4. p \in FileRequest /\ p.at = "drop2"
  BY <1>1, <1>3 DEF FileRequest
<1>5. PICK none : none = [a \in Account |-> Access!None]
  OBVIOUS
<1>6. none \in [Account -> Role] /\ share \in [Account -> Role]
  BY <1>1, <1>5 DEF AccessTypes, Role
<1>7. \/ Access!Store(r, Access!None, share, p)
      \/ Access!Store(r, owner, none, Access!Idle)
  BY <1>3, <1>5 DEF Access!Drop
<1>8. /\ owner' \in Account \union {Access!None}
      /\ share' \in [Account -> Role]
      /\ access' \in [Request -> FileRequest]
      /\ \A s \in Request : Founded(access[s])'
  BY <1>1, <1>4, <1>6, <1>7, StoreKeepsChecks, IdleIsNothing
  DEF Access!Checking, AccessTypes
<1>9. AccessTypes'
  BY <1>1, <1>2, <1>8 DEF AccessTypes
<1> QED
  BY <1>1, <1>2, <1>8, <1>9 DEF AccessIInv, InOrder, Owned

LEMMA AccessGoesOn == ASSUME AccessInv, [Next]_vars PROVE AccessInv'
<1>1. SUFFICES ASSUME AccessIInv, [Access!Next]_accessVars PROVE AccessIInv'
  BY PartSteps DEF AccessInv
<1>2. CASE UNCHANGED accessVars
  BY <1>1, <1>2
  DEF accessVars, AccessIInv, AccessTypes, Founded, LevelOf, Owned, InOrder,
      OneTransfer, Passing
<1>3. CASE Access!Next
  BY <1>1, <1>3, CallKeeps, FindOwnerKeeps, CanAccessKeeps, GetRoleKeeps,
     ShareKeeps, ShareWithRoleKeeps, TransferOwnerKeeps, SetOwnerKeeps,
     UnshareKeeps, DemoteKeeps, CutShortKeeps, DeleteKeeps, DropKeepsAccess
  DEF Access!Next
<1> QED
  BY <1>1, <1>2, <1>3

(* file_authz.go, fileacl/store.go: whoever is let through had the role    *)
(* while it was checked, and nobody loses access but by who takes it, for  *)
(* any number of accounts and of requests at a time.                       *)
THEOREM FilesAreOpenByRole == Spec => []AccessIsByRole
<1>1. ASSUME AccessIInv PROVE Access!NobodyLockedOut
  <2>1. SUFFICES ASSUME exists, ~muddled, NEW a \in granted,
                        \A r \in Request : access[r].at \notin Access!Transfer
                 PROVE  Access!RoleOf(a, owner, share) # Access!None
    BY DEF Access!NobodyLockedOut
  <2>2. owner # Access!None /\ (owner = a \/ share[a] # Access!None)
    BY <1>1, <2>1
    DEF AccessIInv, Owned, InOrder, Passing, Access!Transfer
  <2> QED
    BY <2>2 DEF Access!RoleOf, Access!None
<1>2. AccessInv => AccessIsByRole
  BY <1>1
  DEF AccessInv, AccessIsByRole, AccessIInv, Access!LetThroughWithRole
<1> QED
  BY <1>2, AccessStart, AccessGoesOn, PTL DEF Spec

-----------------------------------------------------------------------------
(* Folders.                                                                *)
TreeInv == part = "folders" => TreeProof!IInv

LEMMA FoldersNumbered == TreeProof!Numbered
BY FoldersAreNumbered, FS_CardinalityType DEF TreeProof!Numbered

LEMMA TreeStart == Init => TreeInv
<1>1. Tree!Init => TreeProof!Init
  BY DEF Tree!Init, TreeProof!Init, Tree!Root, TreeProof!Root, Tree!Gone,
         TreeProof!Gone, Tree!Idle, TreeProof!Idle
<1> QED
  BY <1>1, FoldersNumbered, TreeProof!InitIInv DEF Init, TreeInv

LEMMA SameWalk ==
  \A rows_, f : Tree!Above(rows_, f) = TreeProof!Above(rows_, f)
BY DEF Tree!Above, TreeProof!Above, Tree!Climb, TreeProof!Climb, Tree!Root,
       TreeProof!Root, Tree!Cardinality, TreeProof!Cardinality

LEMMA SameFolderSteps ==
  ASSUME NEW r \in Request
  PROVE  /\ Tree!Call(r) = TreeProof!Call(r)
         /\ Tree!Get(r) = TreeProof!Get(r)
         /\ Tree!Target(r) = TreeProof!Target(r)
         /\ Tree!TargetFolder(r) = TreeProof!TargetFolder(r)
         /\ Tree!Walk(r) = TreeProof!Walk(r)
         /\ Tree!UpdateFolder(r) = TreeProof!UpdateFolder(r)
         /\ Tree!WriteFolder(r) = TreeProof!WriteFolder(r)
         /\ Tree!CreateFolder(r) = TreeProof!CreateFolder(r)
         /\ Tree!RecordOwner(r) = TreeProof!RecordOwner(r)
         /\ Tree!MoveFile(r) = TreeProof!MoveFile(r)
         /\ Tree!DeleteFolder(r) = TreeProof!DeleteFolder(r)
         /\ Tree!ListFiles(r) = TreeProof!ListFiles(r)
         /\ Tree!Reparent(r) = TreeProof!Reparent(r)
         /\ Tree!DropOwner(r) = TreeProof!DropOwner(r)
<1> USE DEF Tree!Root, TreeProof!Root, Tree!Gone, TreeProof!Gone, Tree!Idle,
            TreeProof!Idle, Tree!Updates, TreeProof!Updates, Tree!FileMoves,
            TreeProof!FileMoves, Tree!history, TreeProof!history, Tree!Goes,
            TreeProof!Goes, Tree!To, TreeProof!To, Tree!End, TreeProof!End
<1>1. Tree!Call(r) = TreeProof!Call(r)
  BY DEF Tree!Call, TreeProof!Call
<1>2. Tree!Get(r) = TreeProof!Get(r)
  BY DEF Tree!Get, TreeProof!Get
<1>3. Tree!Target(r) = TreeProof!Target(r)
  BY DEF Tree!Target, TreeProof!Target
<1>4. Tree!TargetFolder(r) = TreeProof!TargetFolder(r)
  BY DEF Tree!TargetFolder, TreeProof!TargetFolder
<1>5. Tree!Walk(r) = TreeProof!Walk(r)
  BY SameWalk DEF Tree!Walk, TreeProof!Walk, Tree!IsDescendant,
                  TreeProof!IsDescendant
<1>6. Tree!UpdateFolder(r) = TreeProof!UpdateFolder(r)
  BY DEF Tree!UpdateFolder, TreeProof!UpdateFolder, Tree!Writes,
         TreeProof!Writes
<1>7. Tree!WriteFolder(r) = TreeProof!WriteFolder(r)
  BY DEF Tree!WriteFolder, TreeProof!WriteFolder, Tree!Writes, TreeProof!Writes
<1>8. Tree!CreateFolder(r) = TreeProof!CreateFolder(r)
  BY DEF Tree!CreateFolder, TreeProof!CreateFolder
<1>9. Tree!RecordOwner(r) = TreeProof!RecordOwner(r)
  BY DEF Tree!RecordOwner, TreeProof!RecordOwner
<1>10. Tree!MoveFile(r) = TreeProof!MoveFile(r)
  BY DEF Tree!MoveFile, TreeProof!MoveFile, Tree!Holds, TreeProof!Holds
<1>11. Tree!DeleteFolder(r) = TreeProof!DeleteFolder(r)
  BY DEF Tree!DeleteFolder, TreeProof!DeleteFolder, Tree!Holds, TreeProof!Holds
<1>12. Tree!ListFiles(r) = TreeProof!ListFiles(r)
  BY DEF Tree!ListFiles, TreeProof!ListFiles
<1>13. Tree!Reparent(r) = TreeProof!Reparent(r)
  BY DEF Tree!Reparent, TreeProof!Reparent, Tree!Holds, TreeProof!Holds
<1>14. Tree!DropOwner(r) = TreeProof!DropOwner(r)
  BY DEF Tree!DropOwner, TreeProof!DropOwner
<1> QED
  BY <1>1, <1>2, <1>3, <1>4, <1>5, <1>6, <1>7, <1>8, <1>9, <1>10, <1>11,
     <1>12, <1>13, <1>14

LEMMA TreeGoesOn == ASSUME TreeInv, [Next]_vars PROVE TreeInv'
<1>1. Tree!Next => TreeProof!Next
  BY SameFolderSteps DEF Tree!Next, TreeProof!Next
<1>2. [Tree!Next]_folderVars => [TreeProof!Next]_(TreeProof!vars)
  BY <1>1 DEF folderVars, TreeProof!vars
<1> QED
  BY <1>2, PartSteps, FoldersNumbered, TreeProof!StepKeepsIInv DEF TreeInv

(* folders.go, files.go: no folder gets inside itself, folders and the     *)
(* file are where they were put, and what was deleted in Postgres stays    *)
(* deleted - for any number of folders and of requests at a time.          *)
THEOREM FoldersStayATree == Spec => []FolderTree
<1>1. ASSUME TreeProof!FolderTree PROVE Tree!FolderTree
  <2>1. Tree!NoCircle
    BY <1>1, SameWalk
    DEF TreeProof!FolderTree, Tree!NoCircle, TreeProof!NoCircle
  <2>2. Tree!FolderKept
    BY <1>1 DEF TreeProof!FolderTree, Tree!FolderKept, TreeProof!FolderKept,
                Tree!Gone, TreeProof!Gone
  <2>3. Tree!FileFound
    BY <1>1 DEF TreeProof!FolderTree, Tree!FileFound, TreeProof!FileFound,
                Tree!Gone, TreeProof!Gone, Tree!Root, TreeProof!Root,
                Tree!Deleting, TreeProof!Deleting
  <2>4. Tree!DeletedStays
    BY <1>1 DEF TreeProof!FolderTree, Tree!DeletedStays,
                TreeProof!DeletedStays, Tree!Gone, TreeProof!Gone
  <2> QED
    BY <2>1, <2>2, <2>3, <2>4 DEF Tree!FolderTree
<1>2. TreeInv => FolderTree
  BY <1>1, FoldersNumbered, TreeProof!IInvSuffices DEF TreeInv, FolderTree
<1> QED
  BY <1>2, TreeStart, TreeGoesOn, PTL DEF Spec

-----------------------------------------------------------------------------
(* Accounts.                                                               *)
Later == {"members", "invites", "exists", "insert", "consume", "mint"}

AccountTypes ==
  /\ Reg!TypeOK /\ IsFiniteSet(users)
  /\ admitted \in [Invite -> SUBSET Account]
  /\ \A i \in Invite : IsFiniteSet(admitted[i])
  /\ unasked \subseteq Account
  /\ \A i \in Invite : invite[i].used <= MaxUses[i]

(* A handler that is let in by an invite redeems that one.                 *)
Redeems(p) ==
  /\ p.valid => /\ p.token \in Invite /\ p.at \in Later
                /\ invite[p.token].minted
  /\ p.at = "consume" => p.valid
  /\ p.at = "first" => p.account \notin Reserved

(* Of an invite whose uses were counted in time one handler makes use, and *)
(* it has let in no more than its uses say, but for the one that is to be  *)
(* counted.                                                                *)
Counted(i) ==
  i \notin contested =>
    /\ \A p, q \in Reg!Using(i) : p = q
    /\ Cardinality(admitted[i]) <= MaxUses[i]
    /\ ~invite[i].over /\ Reg!Using(i) = {} =>
         Cardinality(admitted[i]) <= invite[i].used
    /\ \A q \in Reg!Using(i) :
         IF registration[q].at = "consume"
           THEN /\ Cardinality(admitted[i]) <= invite[i].used + 1
                /\ invite[i].used < MaxUses[i]
           ELSE /\ Cardinality(admitted[i]) <= invite[i].used
                /\ invite[i].used < MaxUses[i]

Bootstrap ==
  /\ \A a, b \in unasked : a = b
  /\ unasked # {} => users # {}
  /\ unasked \intersect Reserved = {}

AccountIInv ==
  /\ AccountTypes /\ Bootstrap
  /\ \A r \in Handler : Redeems(registration[r])
  /\ \A i \in Invite : Counted(i)
AccountInv == part = "accounts" => AccountIInv

LEMMA NobodyAsks ==
  /\ Reg!NoRequest \in Reg!RequestState /\ ~Reg!NoRequest.valid
  /\ Reg!NoRequest.at = "none"
BY FilesHaveOwners DEF Reg!NoRequest, Reg!RequestState, Reg!NoInvite

LEMMA AccountStart == Init => AccountInv
<1> SUFFICES ASSUME Reg!Init PROVE AccountIInv
  BY DEF Init, AccountInv
<1>1. /\ users = {} /\ invite = [i \in Invite |-> Reg!NewInvite]
      /\ registration = [r \in Handler |-> Reg!NoRequest]
      /\ admitted = [i \in Invite |-> {}] /\ unasked = {} /\ contested = {}
  BY DEF Reg!Init
<1>2. Cardinality({}) = 0 /\ IsFiniteSet({})
  BY FS_EmptySet
<1>3. AccountTypes
  BY <1>1, <1>2, NobodyAsks, InvitesHaveUses
  DEF AccountTypes, Reg!TypeOK, Reg!NewInvite
<1>4. \A r \in Handler : Redeems(registration[r])
  BY <1>1, NobodyAsks DEF Redeems
<1>5. \A i \in Invite : Reg!Using(i) = {}
  BY <1>1, NobodyAsks DEF Reg!Using
<1>6. \A i \in Invite : Counted(i)
  BY <1>1, <1>2, <1>5, InvitesHaveUses DEF Counted, Reg!NewInvite
<1> QED
  BY <1>1, <1>3, <1>4, <1>6 DEF AccountIInv, Bootstrap

(* A handler that goes on as it is, or ends before it lets anyone in.      *)
LEMMA MoveKeeps ==
  ASSUME AccountIInv, NEW r \in Handler, NEW p \in Reg!RequestState,
         registration' = [registration EXCEPT ![r] = p],
         registration[r].at # "consume", p.at # "consume",
         p.valid => /\ registration[r].valid /\ p.at \in Later
                    /\ p.token = registration[r].token,
         p.at = "first" => p.account \notin Reserved,
         UNCHANGED <<users, invite, admitted, unasked>>,
         contested \subseteq contested'
  PROVE  AccountIInv'
<1>1. /\ AccountTypes /\ Bootstrap
      /\ \A s \in Handler : Redeems(registration[s])
      /\ \A i \in Invite : Counted(i)
      /\ registration \in [Handler -> Reg!RequestState]
  BY DEF AccountIInv, AccountTypes, Reg!TypeOK
<1>2. \A s \in Handler :
        registration'[s] = IF s = r THEN p ELSE registration[s]
  BY <1>1
<1>3. AccountTypes'
  <2>1. Reg!TypeOK'
    BY <1>1 DEF AccountTypes, Reg!TypeOK
  <2> QED
    BY <1>1, <2>1 DEF AccountTypes
<1>4. Bootstrap'
  BY <1>1 DEF Bootstrap
<1>5. \A s \in Handler : Redeems(registration[s])'
  BY <1>1, <1>2 DEF Redeems
<1>6. ASSUME NEW i \in Invite PROVE Counted(i)'
  <2>1. /\ Reg!Using(i)' \subseteq Reg!Using(i)
        /\ Reg!Using(i) \subseteq Reg!Using(i)' \union {r}
        /\ \A q \in Reg!Using(i)' : registration'[q].at = "consume"
                                      <=> registration[q].at = "consume"
    BY <1>2 DEF Reg!Using
  <2>2. SUFFICES ASSUME i \notin contested'
                 PROVE  Counted(i)'
    BY DEF Counted
  <2>3. CASE Reg!Using(i)' = {} /\ Reg!Using(i) # {}
    <3>1. r \in Reg!Using(i)
      BY <2>1, <2>3
    <3> QED
      BY <1>1, <2>1, <2>2, <2>3, <3>1 DEF Counted
  <2>4. CASE Reg!Using(i)' # {} \/ Reg!Using(i) = {}
    BY <1>1, <2>1, <2>2, <2>4 DEF Counted
  <2> QED
    BY <2>3, <2>4
<1> QED
  BY <1>3, <1>4, <1>5, <1>6 DEF AccountIInv

LEMMA BeginKeeps ==
  ASSUME AccountIInv, NEW call \in Reg!RequestState, Reg!Begin(call),
         ~call.valid, call.at \notin {"consume", "first"}
  PROVE  AccountIInv'
<1>1. PICK r \in Handler :
        /\ registration[r].at = "none"
        /\ registration' = [registration EXCEPT ![r] = call]
  BY DEF Reg!Begin, Reg!At
<1>2. UNCHANGED <<users, invite, admitted, unasked, contested>>
  BY DEF Reg!Begin, Reg!Stores, Reg!History
<1> QED
  BY <1>1, <1>2, MoveKeeps

LEMMA CallsKeep ==
  ASSUME AccountIInv,
         \/ Reg!MintInvite
         \/ \E a \in Account, i \in Invite \union {Reg!NoInvite},
               sure \in BOOLEAN : Reg!Register(a, i, sure)
  PROVE  AccountIInv'
<1>1. CASE Reg!MintInvite
  <2>1. PICK call : call = [Reg!NoRequest EXCEPT !.at = "members",
                                                 !.minting = TRUE]
    OBVIOUS
  <2>2. call \in Reg!RequestState /\ ~call.valid /\ call.at = "members"
    BY <2>1, NobodyAsks DEF Reg!RequestState
  <2> QED
    BY <1>1, <2>1, <2>2, BeginKeeps DEF Reg!MintInvite
<1>2. ASSUME NEW a \in Account, NEW i \in Invite \union {Reg!NoInvite},
             NEW sure \in BOOLEAN, Reg!Register(a, i, sure)
      PROVE  AccountIInv'
  <2>1. PICK call : call = [Reg!NoRequest EXCEPT
                              !.at = "hasUsers", !.account = a, !.token = i,
                              !.asked = sure]
    OBVIOUS
  <2>2. call \in Reg!RequestState /\ ~call.valid /\ call.at = "hasUsers"
    BY <2>1, NobodyAsks DEF Reg!RequestState
  <2> QED
    BY <1>2, <2>1, <2>2, BeginKeeps DEF Reg!Register
<1> QED
  BY <1>1, <1>2

LEMMA HasUsersKeeps ==
  ASSUME AccountIInv, NEW r \in Handler, Reg!HasUsers(r) PROVE AccountIInv'
<1>1. /\ registration[r] \in Reg!RequestState /\ Redeems(registration[r])
      /\ registration \in [Handler -> Reg!RequestState]
      /\ registration[r].at = "hasUsers"
  BY DEF AccountIInv, AccountTypes, Reg!TypeOK, Reg!HasUsers, Reg!At
<1>2. PICK has \in BOOLEAN :
        registration' = [registration EXCEPT ![r].hasUsers = has,
                                             ![r].at = "valid"]
  BY DEF Reg!HasUsers
<1>3. PICK p : p = [registration[r] EXCEPT !.hasUsers = has, !.at = "valid"]
  OBVIOUS
<1>4. registration' = [registration EXCEPT ![r] = p]
  BY <1>1, <1>2, <1>3
<1>5. p \in Reg!RequestState /\ ~p.valid /\ p.at = "valid"
  BY <1>1, <1>3 DEF Reg!RequestState, Redeems, Later
<1>6. UNCHANGED <<users, invite, admitted, unasked, contested>>
  BY DEF Reg!HasUsers, Reg!Stores, Reg!History
<1> QED
  BY <1>1, <1>4, <1>5, <1>6, MoveKeeps

(* An invite is valid while a use is left; two that ask before either is   *)
(* counted contest it.                                                     *)
LEMMA ValidKeeps ==
  ASSUME AccountIInv, NEW r \in Handler, Reg!Valid(r) PROVE AccountIInv'
<1> DEFINE q == registration[r]
           passes == ~q.asked /\ q.token # Reg!NoInvite
                      /\ Reg!Redeemable(q.token)
           authorized == q.asked \/ passes
           refused == \/ q.account \in Reserved /\ ~authorized
                      \/ q.hasUsers /\ ~authorized
           step == IF authorized THEN "members" ELSE "first"
<1>1. /\ AccountTypes /\ Bootstrap
      /\ \A s \in Handler : Redeems(registration[s])
      /\ \A i \in Invite : Counted(i)
      /\ registration \in [Handler -> Reg!RequestState]
      /\ q \in Reg!RequestState /\ q.at = "valid" /\ ~q.valid
  BY DEF AccountIInv, AccountTypes, Reg!TypeOK, Reg!Valid, Reg!At, Redeems,
         Later
<1>2. /\ UNCHANGED <<users, invite, admitted, unasked>>
      /\ contested' = IF passes /\ Reg!Using(q.token) # {}
                        THEN contested \union {q.token} ELSE contested
      /\ registration' =
           IF refused THEN [registration EXCEPT ![r] = Reg!NoRequest]
           ELSE [registration EXCEPT ![r].valid = passes, ![r].at = step]
  BY DEF Reg!Valid, Reg!Stores, Reg!Answer
<1>3. contested \subseteq contested' /\ passes \in BOOLEAN
  BY <1>2
<1>4. CASE refused
  BY <1>1, <1>2, <1>3, <1>4, NobodyAsks, MoveKeeps
<1>5. CASE ~refused
  <2>1. PICK p : p = [q EXCEPT !.valid = passes, !.at = step]
    OBVIOUS
  <2>2. registration' = [registration EXCEPT ![r] = p]
    BY <1>1, <1>2, <1>5, <2>1
  <2>3. /\ p \in Reg!RequestState /\ p.valid = passes /\ p.at = step
        /\ p.token = q.token /\ p.account = q.account
    BY <1>1, <1>3, <2>1 DEF Reg!RequestState
  <2>4. p.at = "first" => p.account \notin Reserved
    BY <1>5, <2>3
  <2>5. p.at \in {"members", "first"}
    BY <2>3
  <2>6. CASE ~passes
    BY <1>1, <1>2, <1>3, <2>2, <2>3, <2>4, <2>5, <2>6, MoveKeeps
  <2>7. CASE passes
    <3>1. /\ q.token \in Invite /\ p.at = "members" /\ p.valid
          /\ Reg!Redeemable(q.token)
      BY <1>1, <2>3, <2>7 DEF Reg!RequestState
    <3>2. \A s \in Handler :
            registration'[s] = IF s = r THEN p ELSE registration[s]
      BY <1>1, <2>2
    <3>3. AccountTypes'
      <4>1. Reg!TypeOK'
        BY ZenonT(20), <1>1, <1>2, <2>2, <2>3 DEF AccountTypes, Reg!TypeOK
      <4> QED
        BY <1>1, <1>2, <4>1 DEF AccountTypes
    <3>4. \A s \in Handler : Redeems(registration[s])'
      BY ZenonT(20), <1>1, <1>2, <2>3, <3>1, <3>2 DEF Redeems, Later, Reg!Redeemable
    <3>5. Bootstrap'
      BY <1>1, <1>2 DEF Bootstrap
    <3>6. ASSUME NEW i \in Invite PROVE Counted(i)'
      <4>1. SUFFICES ASSUME i \notin contested' PROVE Counted(i)'
        BY DEF Counted
      <4>2. CASE i # q.token
        <5>1. /\ Reg!Using(i)' = Reg!Using(i) /\ r \notin Reg!Using(i)
          BY <1>1, <2>3, <3>2, <4>2 DEF Reg!Using
        <5>2. \A s \in Reg!Using(i) : registration'[s] = registration[s]
          BY <3>2, <5>1 DEF Reg!Using
        <5>3. /\ Counted(i) /\ i \notin contested
              /\ admitted' = admitted /\ invite' = invite
          BY <1>1, <1>2, <1>3, <4>1
        <5> QED
          BY <5>1, <5>2, <5>3 DEF Counted
      <4>3. CASE i = q.token
        <5>1. Reg!Using(i) = {} /\ i \notin contested
          BY <1>2, <2>7, <4>1, <4>3
        <5>2. Reg!Using(i)' = {r} /\ registration'[r].at = "members"
          BY <2>3, <3>1, <3>2, <4>3, <5>1 DEF Reg!Using
        <5>3. /\ Cardinality(admitted[i]) <= invite[i].used
              /\ invite[i].used < MaxUses[i]
              /\ Cardinality(admitted[i]) <= MaxUses[i]
          BY <1>1, <3>1, <4>3, <5>1 DEF Counted, Reg!Redeemable
        <5> QED
          BY <1>2, <5>2, <5>3 DEF Counted
      <4> QED
        BY <4>2, <4>3
    <3> QED
      BY <3>3, <3>4, <3>5, <3>6 DEF AccountIInv
  <2> QED
    BY <2>6, <2>7
<1> QED
  BY <1>4, <1>5

LEMMA RegisterFirstKeeps ==
  ASSUME AccountIInv, NEW r \in Handler, Reg!RegisterFirst(r)
  PROVE  AccountIInv'
<1>1. /\ AccountTypes /\ Bootstrap /\ Redeems(registration[r])
      /\ registration[r] \in Reg!RequestState /\ registration[r].at = "first"
      /\ registration' = [registration EXCEPT ![r] = Reg!NoRequest]
      /\ UNCHANGED <<invite, admitted, contested>>
  BY DEF AccountIInv, AccountTypes, Reg!TypeOK, Reg!RegisterFirst, Reg!At,
         Reg!Answer
<1>2. CASE users # {}
  <2>1. UNCHANGED <<users, unasked>>
    BY <1>2 DEF Reg!RegisterFirst
  <2> QED
    BY <1>1, <2>1, NobodyAsks, MoveKeeps
<1>3. CASE users = {}
  <2>1. PICK a \in Account : a = registration[r].account /\ a \notin Reserved
    BY <1>1 DEF Redeems, Reg!RequestState
  <2>2. users' = {a} /\ unasked' = {a}
    BY <1>1, <1>3, <2>1 DEF Reg!RegisterFirst, Bootstrap
  <2>3. /\ \A s \in Handler : Redeems(registration[s])
        /\ \A i \in Invite : Counted(i)
        /\ ~registration[r].valid
    BY <1>1 DEF AccountIInv, Redeems, Later
  <2>4. \A s \in Handler :
          registration'[s] = IF s = r THEN Reg!NoRequest ELSE registration[s]
    BY <1>1 DEF AccountTypes, Reg!TypeOK
  <2>5. AccountTypes'
    <3>1. Reg!TypeOK'
      BY <1>1, <2>2, NobodyAsks DEF AccountTypes, Reg!TypeOK
    <3>2. IsFiniteSet(users')
      BY <2>2, FS_Singleton
    <3> QED
      BY <1>1, <2>2, <3>1, <3>2 DEF AccountTypes
  <2>6. Bootstrap'
    BY <2>1, <2>2 DEF Bootstrap
  <2>7. \A s \in Handler : Redeems(registration[s])'
    BY <1>1, <2>3, <2>4, NobodyAsks DEF Redeems
  <2>8. ASSUME NEW i \in Invite PROVE Counted(i)'
    <3>1. Reg!Using(i)' = Reg!Using(i) /\ r \notin Reg!Using(i)
      BY <2>3, <2>4, NobodyAsks DEF Reg!Using
    <3>2. \A s \in Reg!Using(i) : registration'[s] = registration[s]
      BY <2>4, <3>1 DEF Reg!Using
    <3> QED
      BY <1>1, <2>3, <3>1, <3>2 DEF Counted
  <2> QED
    BY <2>5, <2>6, <2>7, <2>8 DEF AccountIInv
<1> QED
  BY <1>2, <1>3

LEMMA ChecksKeep ==
  ASSUME AccountIInv, NEW r \in Handler,
         Reg!CountUsers(r) \/ Reg!Gate(r) \/ Reg!Exists(r)
  PROVE  AccountIInv'
<1> DEFINE q == registration[r]
<1>1. /\ q \in Reg!RequestState /\ q.at \in {"members", "invites", "exists"}
      /\ registration \in [Handler -> Reg!RequestState]
      /\ Reg!Cardinality(users) \in Nat
  BY FS_CardinalityType
  DEF AccountIInv, AccountTypes, Reg!TypeOK, Reg!CountUsers, Reg!Gate,
      Reg!Exists, Reg!At, Reg!Cardinality, Cardinality
<1>2. UNCHANGED <<users, invite, admitted, unasked, contested>>
  BY DEF Reg!CountUsers, Reg!Gate, Reg!Exists, Reg!Stores, Reg!History
<1>3. PICK seats \in Nat, at \in {"invites", "mint", "exists", "insert"} :
        \/ registration' = [registration EXCEPT ![r] = Reg!NoRequest]
        \/ registration' = [registration EXCEPT ![r].seats = seats,
                                                ![r].at = at]
  <2>1. CASE Reg!CountUsers(r)
    BY <1>1, <2>1 DEF Reg!CountUsers
  <2>2. CASE Reg!Gate(r) \/ Reg!Exists(r)
    <3>1. \E at \in {"mint", "exists", "insert"} :
            \/ registration' = [registration EXCEPT ![r] = Reg!NoRequest]
            \/ registration' = [registration EXCEPT ![r].at = at]
      BY <2>2 DEF Reg!Gate, Reg!Exists, Reg!GoTo, Reg!Answer
    <3>2. /\ q.seats \in Nat
          /\ \A at : [registration EXCEPT ![r].at = at] =
                     [registration EXCEPT ![r].seats = q.seats, ![r].at = at]
      BY <1>1 DEF Reg!RequestState
    <3> QED
      BY <3>1, <3>2
  <2> QED
    BY <2>1, <2>2
<1>4. PICK p : p = [q EXCEPT !.seats = seats, !.at = at]
  OBVIOUS
<1>5. /\ p \in Reg!RequestState /\ p.valid = q.valid /\ p.token = q.token
      /\ p.at = at
  BY <1>1, <1>4 DEF Reg!RequestState
<1>6. \/ registration' = [registration EXCEPT ![r] = Reg!NoRequest]
      \/ registration' = [registration EXCEPT ![r] = p]
  BY <1>1, <1>3, <1>4
<1>7. at \in Later /\ at \notin {"consume", "first"}
  BY DEF Later
<1> QED
  BY <1>1, <1>2, <1>5, <1>6, <1>7, NobodyAsks, MoveKeeps

LEMMA MintKeeps ==
  ASSUME AccountIInv, NEW r \in Handler, Reg!Mint(r) PROVE AccountIInv'
<1>1. /\ AccountTypes /\ Bootstrap
      /\ \A s \in Handler : Redeems(registration[s])
      /\ \A i \in Invite : Counted(i)
      /\ registration \in [Handler -> Reg!RequestState]
      /\ registration[r].at = "mint"
  BY DEF AccountIInv, AccountTypes, Reg!TypeOK, Reg!Mint, Reg!At
<1>2. PICK j \in Invite : invite' = [invite EXCEPT ![j].minted = TRUE]
  BY DEF Reg!Mint
<1>3. /\ registration' = [registration EXCEPT ![r] = Reg!NoRequest]
      /\ UNCHANGED <<users, admitted, unasked, contested>>
  BY DEF Reg!Mint, Reg!Answer
<1>4. \A s \in Handler :
        registration'[s] = IF s = r THEN Reg!NoRequest ELSE registration[s]
  BY <1>1, <1>3
<1>5. /\ invite' \in [Invite ->
                        [minted : BOOLEAN, used : Nat, over : BOOLEAN]]
      /\ \A i \in Invite : /\ invite'[i].used = invite[i].used
                           /\ invite'[i].over = invite[i].over
                           /\ invite[i].minted => invite'[i].minted
  BY <1>1, <1>2 DEF AccountTypes, Reg!TypeOK
<1>6. AccountTypes'
  <2>1. Reg!TypeOK'
    BY <1>1, <1>3, <1>5, NobodyAsks DEF AccountTypes, Reg!TypeOK
  <2> QED
    BY <1>1, <1>3, <1>5, <2>1 DEF AccountTypes
<1>7. Bootstrap' /\ \A s \in Handler : Redeems(registration[s])'
  BY <1>1, <1>3, <1>4, <1>5, NobodyAsks DEF Bootstrap, Redeems
<1>8. ASSUME NEW i \in Invite PROVE Counted(i)'
  <2>1. /\ Reg!Using(i)' \subseteq Reg!Using(i)
        /\ Reg!Using(i) \subseteq Reg!Using(i)' \union {r}
        /\ \A q \in Reg!Using(i)' : registration'[q].at = registration[q].at
    BY <1>4, NobodyAsks DEF Reg!Using
  <2> QED
    BY <1>1, <1>3, <1>5, <2>1 DEF Counted
<1> QED
  BY <1>6, <1>7, <1>8 DEF AccountIInv

LEMMA RevokeKeeps ==
  ASSUME AccountIInv, NEW j \in Invite, Reg!RevokeInvite(j)
  PROVE  AccountIInv'
<1>1. /\ AccountTypes /\ Bootstrap
      /\ \A s \in Handler : Redeems(registration[s])
      /\ \A i \in Invite : Counted(i)
  BY DEF AccountIInv
<1>2. /\ invite' = [invite EXCEPT ![j].over = TRUE]
      /\ UNCHANGED <<users, registration, admitted, unasked, contested>>
  BY DEF Reg!RevokeInvite, Reg!History
<1>3. /\ invite' \in [Invite ->
                        [minted : BOOLEAN, used : Nat, over : BOOLEAN]]
      /\ \A i \in Invite : /\ invite'[i].used = invite[i].used
                           /\ invite'[i].minted = invite[i].minted
                           /\ invite[i].over => invite'[i].over
  BY <1>1, <1>2 DEF AccountTypes, Reg!TypeOK
<1>4. AccountTypes'
  <2>1. Reg!TypeOK'
    BY <1>1, <1>2, <1>3 DEF AccountTypes, Reg!TypeOK
  <2> QED
    BY <1>1, <1>2, <1>3, <2>1 DEF AccountTypes
<1>5. Bootstrap' /\ \A s \in Handler : Redeems(registration[s])'
  BY <1>1, <1>2, <1>3 DEF Bootstrap, Redeems
<1>6. ASSUME NEW i \in Invite PROVE Counted(i)'
  <2>1. Reg!Using(i)' = Reg!Using(i)
    BY <1>2 DEF Reg!Using
  <2> QED
    BY <1>1, <1>2, <1>3, <2>1 DEF Counted
<1> QED
  BY <1>4, <1>5, <1>6 DEF AccountIInv

(* An account is in before its invite is counted.                          *)
LEMMA InsertKeeps ==
  ASSUME AccountIInv, NEW r \in Handler, Reg!Insert(r) PROVE AccountIInv'
<1> DEFINE p == registration[r]
<1>1. /\ AccountTypes /\ Bootstrap
      /\ \A s \in Handler : Redeems(registration[s])
      /\ \A i \in Invite : Counted(i)
      /\ registration \in [Handler -> Reg!RequestState]
      /\ p \in Reg!RequestState /\ p.at = "insert"
      /\ UNCHANGED <<invite, unasked, contested>>
  BY DEF AccountIInv, AccountTypes, Reg!TypeOK, Reg!Insert, Reg!At
<1>2. CASE p.account \in users
  <2>1. /\ registration' = [registration EXCEPT ![r] = Reg!NoRequest]
        /\ UNCHANGED <<users, admitted>>
    BY <1>2 DEF Reg!Insert, Reg!Answer
  <2> QED
    BY <1>1, <2>1, NobodyAsks, MoveKeeps
<1>3. CASE p.account \notin users
  <2>1. /\ users' = users \union {p.account} /\ p.account \in Account
        /\ IsFiniteSet(users')
    BY <1>1, <1>3, FS_AddElement DEF Reg!Insert, Reg!RequestState, AccountTypes
  <2>2. Bootstrap'
    BY <1>1, <2>1 DEF Bootstrap
  <2>3. CASE ~p.valid
    <3>1. /\ registration' = [registration EXCEPT ![r] = Reg!NoRequest]
          /\ admitted' = admitted
      BY <1>3, <2>3 DEF Reg!Insert, Reg!Answer
    <3>2. \A s \in Handler :
            registration'[s] = IF s = r THEN Reg!NoRequest
                                        ELSE registration[s]
      BY <1>1, <3>1
    <3>3. AccountTypes'
      <4>1. Reg!TypeOK'
        BY <1>1, <2>1, <3>1, NobodyAsks DEF AccountTypes, Reg!TypeOK
      <4> QED
        BY <1>1, <2>1, <3>1, <4>1 DEF AccountTypes
    <3>4. \A s \in Handler : Redeems(registration[s])'
      BY <1>1, <3>2, NobodyAsks DEF Redeems
    <3>5. ASSUME NEW i \in Invite PROVE Counted(i)'
      <4>1. Reg!Using(i)' = Reg!Using(i) /\ r \notin Reg!Using(i)
        BY <2>3, <3>2, NobodyAsks DEF Reg!Using
      <4>2. \A s \in Reg!Using(i) : registration'[s] = registration[s]
        BY <3>2, <4>1 DEF Reg!Using
      <4> QED
        BY <1>1, <3>1, <4>1, <4>2 DEF Counted
    <3> QED
      BY <2>2, <3>3, <3>4, <3>5 DEF AccountIInv
  <2>4. CASE p.valid
    <3>1. PICK j \in Invite : j = p.token /\ invite[j].minted
      BY <1>1, <2>4 DEF Redeems
    <3>2. /\ registration' = [registration EXCEPT ![r].at = "consume"]
          /\ admitted' = [admitted EXCEPT ![j] = @ \union {p.account}]
      BY <1>3, <2>4, <3>1 DEF Reg!Insert, Reg!GoTo
    <3>3. PICK q : q = [p EXCEPT !.at = "consume"]
      OBVIOUS
    <3>4. /\ q \in Reg!RequestState /\ q.at = "consume" /\ q.valid = p.valid
          /\ q.token = p.token /\ registration' = [registration EXCEPT ![r] = q]
      BY <1>1, <3>2, <3>3 DEF Reg!RequestState
    <3>5. \A s \in Handler :
            registration'[s] = IF s = r THEN q ELSE registration[s]
      BY <1>1, <3>4
    <3>6. \A i \in Invite :
            admitted'[i] = IF i = j THEN admitted[j] \union {p.account}
                                    ELSE admitted[i]
      BY <1>1, <3>2 DEF AccountTypes
    <3>7. /\ IsFiniteSet(admitted'[j]) /\ Cardinality(admitted[j]) \in Nat
          /\ Cardinality(admitted'[j]) <= Cardinality(admitted[j]) + 1
      <4>1. IsFiniteSet(admitted[j]) /\ Cardinality(admitted[j]) \in Nat
        BY <1>1, FS_CardinalityType DEF AccountTypes
      <4>2. /\ IsFiniteSet(admitted[j] \union {p.account})
            /\ Cardinality(admitted[j] \union {p.account}) <=
                 Cardinality(admitted[j]) + 1
        <5> DEFINE S == admitted[j]
        <5>1. IsFiniteSet(S) /\ Cardinality(S) \in Nat
          BY <4>1
        <5> HIDE DEF S
        <5>2. /\ IsFiniteSet(S \union {p.account})
              /\ Cardinality(S \union {p.account}) =
                   IF p.account \in S THEN Cardinality(S) ELSE Cardinality(S) + 1
          BY <5>1, FS_AddElement
        <5>3. Cardinality(S \union {p.account}) <= Cardinality(S) + 1
          BY <5>1, <5>2
        <5> QED
          BY <5>2, <5>3 DEF S
      <4> QED
        BY <3>6, <4>1, <4>2
    <3>8. AccountTypes'
      <4>1. Reg!TypeOK'
        BY <1>1, <2>1, <3>4 DEF AccountTypes, Reg!TypeOK
      <4>2. admitted' \in [Invite -> SUBSET Account]
        BY <1>1, <2>1, <3>2 DEF AccountTypes
      <4> QED
        BY <1>1, <2>1, <3>6, <3>7, <4>1, <4>2 DEF AccountTypes
    <3>9. \A s \in Handler : Redeems(registration[s])'
      BY <1>1, <2>4, <3>1, <3>4, <3>5 DEF Redeems, Later
    <3>10. ASSUME NEW i \in Invite PROVE Counted(i)'
      <4>1. Reg!Using(i)' = Reg!Using(i)
        BY <3>4, <3>5 DEF Reg!Using
      <4>2. CASE i # j
        <5>1. r \notin Reg!Using(i)
          BY <3>1, <4>2 DEF Reg!Using
        <5>2. \A s \in Reg!Using(i) : registration'[s] = registration[s]
          BY <3>5, <5>1 DEF Reg!Using
        <5>3. Counted(i) /\ admitted'[i] = admitted[i] /\ invite' = invite
          BY <1>1, <3>6, <4>2
        <5> QED
          BY <1>1, <4>1, <5>2, <5>3 DEF Counted
      <4>3. CASE i = j
        <5>1. r \in Reg!Using(j)
          BY <2>4, <3>1 DEF Reg!Using
        <5>2. SUFFICES ASSUME j \notin contested PROVE Counted(j)'
          BY <1>1, <4>3 DEF Counted
        <5>3. /\ \A s, t \in Reg!Using(j) : s = t
              /\ Cardinality(admitted[j]) <= invite[j].used
              /\ invite[j].used < MaxUses[j]
          BY <1>1, <5>1, <5>2 DEF Counted
        <5>4. invite[j].used \in Nat /\ MaxUses[j] \in Nat
          BY <1>1, InvitesHaveUses DEF AccountTypes, Reg!TypeOK
        <5>5. Cardinality(admitted'[j]) \in Nat
          BY <3>7, FS_CardinalityType
        <5>6. \A s \in Reg!Using(j) : registration'[s].at = "consume"
          BY <3>4, <3>5, <5>1, <5>3
        <5>7. Cardinality(admitted'[j]) <= invite[j].used + 1
          BY <3>7, <5>3, <5>4, <5>5
        <5>8. Cardinality(admitted'[j]) <= MaxUses[j]
          BY <5>3, <5>4, <5>5, <5>7
        <5> QED
          BY <1>1, <4>1, <4>3, <5>1, <5>3, <5>6, <5>7, <5>8 DEF Counted
      <4> QED
        BY <4>2, <4>3
    <3> QED
      BY <2>2, <3>8, <3>9, <3>10 DEF AccountIInv
  <2> QED
    BY <2>3, <2>4
<1> QED
  BY <1>2, <1>3

LEMMA ConsumeKeeps ==
  ASSUME AccountIInv, NEW r \in Handler,
         Reg!Consume(r) \/ Reg!ConsumeFails(r)
  PROVE  AccountIInv'
<1> DEFINE p == registration[r]
<1>1. /\ AccountTypes /\ Bootstrap
      /\ \A s \in Handler : Redeems(registration[s])
      /\ \A i \in Invite : Counted(i)
      /\ registration \in [Handler -> Reg!RequestState]
      /\ p \in Reg!RequestState /\ p.at = "consume"
      /\ registration' = [registration EXCEPT ![r] = Reg!NoRequest]
      /\ UNCHANGED <<users, admitted, unasked>>
  BY DEF AccountIInv, AccountTypes, Reg!TypeOK, Reg!Consume,
         Reg!ConsumeFails, Reg!At, Reg!Answer, Reg!Stores, Reg!History
<1>2. PICK j \in Invite : j = p.token /\ invite[j].minted /\ p.valid
  BY <1>1 DEF Redeems
<1>3. /\ contested \subseteq contested'
      /\ \/ invite' = invite /\ j \in contested'
         \/ invite' = invite /\ ~Reg!Redeemable(j)
         \/ /\ invite' = [invite EXCEPT ![j].used = @ + 1]
            /\ Reg!Redeemable(j)
  BY <1>2 DEF Reg!Consume, Reg!ConsumeFails, Reg!Stores, Reg!History
<1>4. invite[j].used \in Nat /\ MaxUses[j] \in Nat
  BY <1>1, InvitesHaveUses DEF AccountTypes, Reg!TypeOK
<1>5. /\ invite' \in [Invite ->
                        [minted : BOOLEAN, used : Nat, over : BOOLEAN]]
      /\ \A i \in Invite : /\ invite'[i].minted = invite[i].minted
                           /\ invite'[i].over = invite[i].over
                           /\ i # j => invite'[i].used = invite[i].used
                           /\ invite'[i].used <= MaxUses[i]
  <2>1. CASE invite' = invite
    BY <1>1, <2>1 DEF AccountTypes, Reg!TypeOK
  <2>2. CASE /\ invite' = [invite EXCEPT ![j].used = @ + 1]
             /\ Reg!Redeemable(j)
    <3>1. invite[j].used + 1 \in Nat /\ invite[j].used + 1 <= MaxUses[j]
      BY <1>4, <2>2 DEF Reg!Redeemable
    <3> QED
      BY <1>1, <2>2, <3>1 DEF AccountTypes, Reg!TypeOK
  <2> QED
    BY <1>3, <2>1, <2>2
<1>6. \A s \in Handler :
        registration'[s] = IF s = r THEN Reg!NoRequest ELSE registration[s]
  BY <1>1
<1>7. AccountTypes'
  <2>1. Reg!TypeOK'
    BY <1>1, <1>5, NobodyAsks DEF AccountTypes, Reg!TypeOK
  <2> QED
    BY <1>1, <1>5, <2>1 DEF AccountTypes
<1>8. Bootstrap' /\ \A s \in Handler : Redeems(registration[s])'
  BY <1>1, <1>5, <1>6, NobodyAsks DEF Bootstrap, Redeems
<1>9. ASSUME NEW i \in Invite PROVE Counted(i)'
  <2>1. SUFFICES ASSUME i \notin contested' PROVE Counted(i)'
    BY DEF Counted
  <2>2. Counted(i) /\ i \notin contested
    BY <1>1, <1>3, <2>1
  <2>3. CASE i # j
    <3>1. Reg!Using(i)' = Reg!Using(i) /\ r \notin Reg!Using(i)
      BY <1>2, <1>6, <2>3, NobodyAsks DEF Reg!Using
    <3>2. \A s \in Reg!Using(i) : registration'[s] = registration[s]
      BY <1>6, <3>1 DEF Reg!Using
    <3> QED
      BY <1>1, <1>5, <2>2, <2>3, <3>1, <3>2 DEF Counted
  <2>4. CASE i = j
    <3>1. r \in Reg!Using(j)
      BY <1>2 DEF Reg!Using
    <3>2. /\ \A s, t \in Reg!Using(j) : s = t
          /\ Cardinality(admitted[j]) <= invite[j].used + 1
          /\ Cardinality(admitted[j]) <= MaxUses[j]
          /\ invite[j].used < MaxUses[j]
      BY <1>1, <2>2, <2>4, <3>1 DEF Counted
    <3>3. Reg!Using(j)' = {}
      BY <1>6, <3>1, <3>2, NobodyAsks DEF Reg!Using
    <3>4. ~invite'[j].over => Cardinality(admitted[j]) <= invite'[j].used
      <4>1. SUFFICES ASSUME ~invite[j].over
                     PROVE  Cardinality(admitted[j]) <= invite'[j].used
        BY <1>5
      <4>2. invite' = [invite EXCEPT ![j].used = @ + 1]
        BY <1>2, <1>3, <2>1, <2>4, <3>2, <4>1 DEF Reg!Redeemable
      <4>3. invite'[j].used = invite[j].used + 1
        BY <1>1, <4>2 DEF AccountTypes, Reg!TypeOK
      <4> QED
        BY <3>2, <4>3
    <3> QED
      BY <1>1, <2>4, <3>2, <3>3, <3>4 DEF Counted
  <2> QED
    BY <2>3, <2>4
<1> QED
  BY <1>7, <1>8, <1>9 DEF AccountIInv

LEMMA AccountGoesOn == ASSUME AccountInv, [Next]_vars PROVE AccountInv'
<1>1. SUFFICES ASSUME AccountIInv, [Reg!Next]_accountVars PROVE AccountIInv'
  BY PartSteps DEF AccountInv
<1>2. CASE UNCHANGED accountVars
  BY <1>1, <1>2
  DEF accountVars, AccountIInv, AccountTypes, Reg!TypeOK, Bootstrap, Redeems,
      Counted, Reg!Using
<1>3. CASE Reg!MintInvite \/ \E a \in Account :
             \/ Reg!Register(a, Reg!NoInvite, TRUE)
             \/ \E i \in Invite \union {Reg!NoInvite} : Reg!Register(a, i, FALSE)
  BY <1>1, <1>3, CallsKeep
<1>4. ASSUME NEW r \in Handler,
             \/ Reg!HasUsers(r) \/ Reg!Valid(r) \/ Reg!RegisterFirst(r)
             \/ Reg!CountUsers(r) \/ Reg!Gate(r) \/ Reg!Mint(r)
             \/ Reg!Exists(r) \/ Reg!Insert(r) \/ Reg!Consume(r)
             \/ Reg!ConsumeFails(r)
      PROVE  AccountIInv'
  BY <1>1, <1>4, HasUsersKeeps, ValidKeeps, RegisterFirstKeeps, ChecksKeep,
     MintKeeps, InsertKeeps, ConsumeKeeps
<1> QED
  BY <1>1, <1>2, <1>3, <1>4, RevokeKeeps DEF Reg!Next

(* auth.go, invites/store.go: an invite lets in as many accounts as it has *)
(* uses, unless two registrations contest it or its counting failed; and   *)
(* one account at most, with no reserved id, came without authorisation.   *)
THEOREM AccountsAreLetIn == Spec => []AccountsAreAuthorised
<1>1. ASSUME AccountIInv PROVE Reg!OneBootstrap
  <2>1. \E a \in Account : unasked \in {{}, {a}}
    BY <1>1, FilesHaveOwners DEF AccountIInv, AccountTypes, Bootstrap
  <2>2. Cardinality(unasked) <= 1
    BY <2>1, FS_EmptySet, FS_Singleton
  <2> QED
    BY <1>1, <2>2
    DEF Reg!OneBootstrap, AccountIInv, Bootstrap, Reg!Cardinality, Cardinality
<1>2. ASSUME AccountIInv PROVE Reg!InvitesAreCounted
  <2>1. \A S : Reg!Cardinality(S) = Cardinality(S)
    BY DEF Reg!Cardinality, Cardinality
  <2> QED
    BY <1>2, <2>1
    DEF Reg!InvitesAreCounted, AccountIInv, AccountTypes, Counted
<1>3. AccountInv => AccountsAreAuthorised
  BY <1>1, <1>2 DEF AccountInv, AccountsAreAuthorised
<1> QED
  BY <1>3, AccountStart, AccountGoesOn, PTL DEF Spec
-----------------------------------------------------------------------------
(* Seats.  A handler that has counted the seats knows of room for what it  *)
(* adds, until another adds something.                                     *)
Open == {i \in Invite : Reg!Redeemable(i)}
Taken == Cardinality(users) + Cardinality(Open)
Room(p) ==
  /\ p.at = "invites" =>
       Cardinality(users) <= p.seats + Cardinality(unasked)
  /\ p.at \in {"exists", "insert", "mint"} =>
       Taken < MaxSeats + Cardinality(unasked)
SeatsIInv ==
  MaxSeats # 0 /\ ~seatsCrossed =>
    /\ Taken <= MaxSeats + Cardinality(unasked)
    /\ \A r \in Handler : Room(registration[r])
SeatsInv == part = "accounts" => SeatsIInv

LEMMA SeatsAreFinite ==
  ASSUME AccountIInv
  PROVE  /\ IsFiniteSet(users) /\ Cardinality(users) \in Nat
         /\ IsFiniteSet(Open) /\ Cardinality(Open) \in Nat
         /\ IsFiniteSet(unasked) /\ Cardinality(unasked) \in Nat
         /\ \A S \in SUBSET Open : Cardinality(S) \in Nat
                                   /\ Cardinality(S) <= Cardinality(Open)
<1>1. IsFiniteSet(users)
  BY DEF AccountIInv, AccountTypes
<1>2. IsFiniteSet(Open)
  BY InvitesHaveUses, FS_Subset DEF Open
<1>3. IsFiniteSet(unasked)
  <2>1. \E a : unasked \subseteq {a}
    BY DEF AccountIInv, Bootstrap
  <2> QED
    BY <2>1, FS_Singleton, FS_Subset
<1>4. \A S \in SUBSET Open : Cardinality(S) \in Nat
                             /\ Cardinality(S) <= Cardinality(Open)
  BY <1>2, FS_Subset, FS_CardinalityType
<1> QED
  BY <1>1, <1>2, <1>3, <1>4, FS_CardinalityType

LEMMA SeatsKeep ==
  ASSUME AccountIInv, SeatsIInv,
         UNCHANGED <<users, unasked>>, Open' \subseteq Open,
         ~seatsCrossed' => ~seatsCrossed,
         \A r \in Handler :
           \/ registration'[r] = registration[r]
           \/ MaxSeats # 0 /\ ~seatsCrossed' => Room(registration'[r])
  PROVE  SeatsIInv'
<1>1. Cardinality(Open') \in Nat /\ Cardinality(Open') <= Cardinality(Open)
  BY SeatsAreFinite
<1>2. Cardinality(users) \in Nat /\ Cardinality(Open) \in Nat
      /\ Cardinality(unasked) \in Nat /\ MaxSeats \in Nat
  BY SeatsAreFinite, LimitsAreSet
<1> SUFFICES ASSUME MaxSeats # 0, ~seatsCrossed'
             PROVE  /\ Taken' <= MaxSeats + Cardinality(unasked)
                    /\ \A r \in Handler : Room(registration[r])'
  BY DEF SeatsIInv
<1>3. Taken' <= Taken /\ Taken \in Nat /\ Taken' \in Nat
  BY <1>1, <1>2 DEF Taken
<1>4. Taken <= MaxSeats + Cardinality(unasked)
  BY DEF SeatsIInv
<1>5. ASSUME NEW r \in Handler PROVE Room(registration[r])'
  <2> PICK p : p = registration'[r]
    OBVIOUS
  <2>1. Room(p)
    BY DEF SeatsIInv
  <2>2. Room(p)'
    BY <1>2, <1>3, <2>1 DEF Room
  <2> QED
    BY <2>2
<1> QED
  BY <1>2, <1>3, <1>4, <1>5

LEMMA NoHandlerAdds ==
  Room(Reg!NoRequest)
BY NobodyAsks DEF Room

LEMMA SeatsBegin ==
  ASSUME AccountIInv, SeatsIInv, NEW call \in Reg!RequestState,
         call.at \in {"hasUsers", "members"}, Reg!Begin(call)
  PROVE  SeatsIInv'
<1>1. PICK r \in Handler : registration' = [registration EXCEPT ![r] = call]
  BY DEF Reg!Begin
<1>2. UNCHANGED <<users, unasked, seatsCrossed, invite>>
  BY DEF Reg!Begin, Reg!Stores, Reg!History
<1>3. Open' = Open
  BY <1>2 DEF Open, Reg!Redeemable
<1>4. registration \in [Handler -> Reg!RequestState]
  BY DEF AccountIInv, AccountTypes, Reg!TypeOK
<1>5. \A s \in Handler : registration'[s] = registration[s] \/ registration'[s] = call
  BY <1>1, <1>4
<1> QED
  BY <1>2, <1>3, <1>5, SeatsKeep DEF Room

(* The handlers' steps that add nothing.                                   *)
LEMMA SeatsGoOn ==
  ASSUME AccountIInv, SeatsIInv, NEW r \in Handler,
         \/ Reg!HasUsers(r) \/ Reg!Valid(r) \/ Reg!CountUsers(r)
         \/ Reg!Gate(r) \/ Reg!Exists(r) \/ Reg!Consume(r)
         \/ Reg!ConsumeFails(r)
  PROVE  SeatsIInv'
<1> PICK d : d = registration[r]
  OBVIOUS
<1>1. registration \in [Handler -> Reg!RequestState] /\ d \in Reg!RequestState
  BY DEF AccountIInv, AccountTypes, Reg!TypeOK
<1>2. UNCHANGED <<users, unasked, seatsCrossed>>
  BY DEF Reg!HasUsers, Reg!Valid, Reg!CountUsers, Reg!Gate, Reg!Exists,
         Reg!Consume, Reg!ConsumeFails, Reg!Stores, Reg!History
<1>3. Open' \subseteq Open
  <2>1. CASE Reg!Consume(r)
    <3> PICK i : i = d.token
      OBVIOUS
    <3>1. invite' = [invite EXCEPT ![i].used = @ + 1] \/ invite' = invite
      BY <2>1 DEF Reg!Consume
    <3>2. invite \in [Invite -> [minted : BOOLEAN, used : Nat, over : BOOLEAN]]
      BY DEF AccountIInv, AccountTypes, Reg!TypeOK
    <3>3. \A j \in Invite : /\ invite'[j].minted = invite[j].minted
                            /\ invite'[j].over = invite[j].over
                            /\ invite[j].used \in Nat /\ invite'[j].used \in Nat
                            /\ invite[j].used <= invite'[j].used
      BY <3>1, <3>2
    <3>4. \A j \in Invite : MaxUses[j] \in Nat
      BY InvitesHaveUses
    <3> QED
      BY <3>3, <3>4 DEF Open, Reg!Redeemable
  <2>2. CASE ~Reg!Consume(r)
    <3>1. invite' = invite
      BY <2>2 DEF Reg!HasUsers, Reg!Valid, Reg!CountUsers, Reg!Gate,
                  Reg!Exists, Reg!ConsumeFails, Reg!Stores
    <3> QED
      BY <3>1 DEF Open, Reg!Redeemable
  <2> QED
    BY <2>1, <2>2
<1>4. PICK p : /\ registration' = [registration EXCEPT ![r] = p]
               /\ MaxSeats # 0 /\ ~seatsCrossed => Room(p)
  <2>1. CASE Reg!HasUsers(r) \/ Reg!Valid(r) \/ Reg!ConsumeFails(r) \/ Reg!Consume(r)
    <3>1. \E p : /\ registration' = [registration EXCEPT ![r] = p]
                 /\ p = Reg!NoRequest \/ p.at \in {"valid", "members", "first"}
      BY <1>1, <2>1 DEF Reg!HasUsers, Reg!Valid, Reg!ConsumeFails, Reg!Consume,
                        Reg!Answer, Reg!RequestState
    <3> QED
      BY <3>1, NoHandlerAdds DEF Room
  <2>2. CASE Reg!CountUsers(r)
    <3> PICK p : p = [d EXCEPT !.seats = Cardinality(users), !.at = "invites"]
      OBVIOUS
    <3>1. registration' = [registration EXCEPT ![r] = p]
      <4>1. /\ d.at = "members"
            /\ registration' = [registration EXCEPT
                                  ![r].seats = Reg!Cardinality(users),
                                  ![r].at = "invites"]
        BY <2>2 DEF Reg!CountUsers, Reg!At
      <4>2. Reg!Cardinality(users) = Cardinality(users)
        BY DEF Reg!Cardinality, Cardinality
      <4> QED
        BY <1>1, <4>1, <4>2
    <3>2. p.at = "invites" /\ p.seats = Cardinality(users)
      BY <1>1 DEF Reg!RequestState
    <3>3. Cardinality(users) <= Cardinality(users) + Cardinality(unasked)
      BY SeatsAreFinite
    <3>4. Room(p)
      BY <3>2, <3>3 DEF Room
    <3> QED
      BY <3>1, <3>4
  <2>3. CASE Reg!Gate(r)
    <3>1. CASE Reg!Answer(r)
      BY <3>1, NoHandlerAdds DEF Reg!Answer
    <3>2. CASE ~Reg!Answer(r)
      <4> PICK next : next = IF d.minting THEN "mint" ELSE "exists"
        OBVIOUS
      <4> PICK p : p = [d EXCEPT !.at = next]
        OBVIOUS
      <4>1. /\ d.at = "invites" /\ registration' = [registration EXCEPT ![r] = p]
            /\ Reg!Allowed(d.seats + Reg!Cardinality(Open))
        BY <2>3, <3>2 DEF Reg!Gate, Reg!At, Reg!GoTo, Open
      <4>2. Reg!Cardinality(Open) = Cardinality(Open)
        BY DEF Reg!Cardinality, Cardinality
      <4>3. p.at \in {"mint", "exists"}
        BY <1>1 DEF Reg!RequestState
      <4>4. ASSUME MaxSeats # 0, ~seatsCrossed PROVE Room(p)
        <5>1. Cardinality(users) <= d.seats + Cardinality(unasked)
          BY <4>1, <4>4 DEF SeatsIInv, Room
        <5>2. d.seats + Cardinality(Open) < MaxSeats
          BY <4>1, <4>2, <4>4 DEF Reg!Allowed
        <5>3. d.seats \in Nat /\ MaxSeats \in Nat
          BY <1>1, LimitsAreSet DEF Reg!RequestState
        <5>4. Taken < MaxSeats + Cardinality(unasked)
          BY <5>1, <5>2, <5>3, SeatsAreFinite DEF Taken
        <5> QED
          BY <4>3, <5>4 DEF Room
      <4> QED
        BY <4>1, <4>4
    <3> QED
      BY <3>1, <3>2
  <2>4. CASE Reg!Exists(r)
    <3>1. CASE Reg!Answer(r)
      BY <3>1, NoHandlerAdds DEF Reg!Answer
    <3>2. CASE ~Reg!Answer(r)
      <4> PICK p : p = [d EXCEPT !.at = "insert"]
        OBVIOUS
      <4>1. d.at = "exists" /\ registration' = [registration EXCEPT ![r] = p]
        BY <2>4, <3>2 DEF Reg!Exists, Reg!At, Reg!GoTo
      <4>2. p.at = "insert"
        BY <1>1 DEF Reg!RequestState
      <4> QED
        BY <4>1, <4>2 DEF Room, SeatsIInv
    <3> QED
      BY <3>1, <3>2
  <2> QED
    BY <2>1, <2>2, <2>3, <2>4
<1>5. \A s \in Handler : registration'[s] = registration[s]
                         \/ (MaxSeats # 0 /\ ~seatsCrossed => Room(registration'[s]))
  BY <1>1, <1>4
<1> QED
  BY <1>2, <1>3, <1>5, SeatsKeep

(* An account or an invite more: of the handlers, none but the one that    *)
(* adds it had counted, or the two crossed.                                *)
LEMMA SeatsAdd ==
  ASSUME AccountIInv, SeatsIInv, NEW r \in Handler,
         registration[r].at \in {"insert", "mint"},
         UNCHANGED unasked, seatsCrossed' = (seatsCrossed \/ Reg!Adding # {r}),
         Taken' \in Nat, Taken' <= Taken + 1,
         NEW p, registration' = [registration EXCEPT ![r] = p],
         p.at \notin {"invites", "exists", "insert", "mint"}
  PROVE  SeatsIInv'
<1> SUFFICES ASSUME MaxSeats # 0, ~seatsCrossed'
             PROVE  /\ Taken' <= MaxSeats + Cardinality(unasked)
                    /\ \A s \in Handler : Room(registration[s])'
  BY DEF SeatsIInv
<1>1. Reg!Adding = {r} /\ ~seatsCrossed
  OBVIOUS
<1>2. registration \in [Handler -> Reg!RequestState]
  BY DEF AccountIInv, AccountTypes, Reg!TypeOK
<1>3. Taken < MaxSeats + Cardinality(unasked)
  BY <1>1 DEF SeatsIInv, Room
<1>4. Taken \in Nat /\ MaxSeats \in Nat /\ Cardinality(unasked) \in Nat
  BY SeatsAreFinite, LimitsAreSet DEF Taken
<1>5. \A s \in Handler :
        registration'[s].at \notin {"invites", "exists", "insert", "mint"}
  BY <1>1, <1>2 DEF Reg!Adding
<1> QED
  BY <1>3, <1>4, <1>5 DEF Room

LEMMA SeatsMint ==
  ASSUME AccountIInv, SeatsIInv, NEW r \in Handler, Reg!Mint(r) PROVE SeatsIInv'
<1>1. PICK i \in Invite : invite' = [invite EXCEPT ![i].minted = TRUE]
  BY DEF Reg!Mint
<1>2. Open' \subseteq Open \union {i}
  <2>1. invite \in [Invite -> [minted : BOOLEAN, used : Nat, over : BOOLEAN]]
    BY DEF AccountIInv, AccountTypes, Reg!TypeOK
  <2>2. \A j \in Invite : j # i => invite'[j] = invite[j]
    BY <1>1, <2>1
  <2> QED
    BY <2>2 DEF Open, Reg!Redeemable
<1>3. /\ IsFiniteSet(Open \union {i})
      /\ Cardinality(Open \union {i}) <= Cardinality(Open) + 1
      /\ Cardinality(Open \union {i}) \in Nat
  <2>1. /\ IsFiniteSet(Open \union {i})
        /\ Cardinality(Open \union {i}) =
             IF i \in Open THEN Cardinality(Open) ELSE Cardinality(Open) + 1
    BY SeatsAreFinite, FS_AddElement
  <2> QED
    BY <2>1, SeatsAreFinite
<1>4. /\ Cardinality(Open') <= Cardinality(Open \union {i})
      /\ Cardinality(Open') \in Nat
  BY <1>2, <1>3, FS_Subset, FS_CardinalityType
<1>5. users' = users
  BY DEF Reg!Mint
<1>6. Taken' \in Nat /\ Taken' <= Taken + 1
  BY <1>3, <1>4, <1>5, SeatsAreFinite DEF Taken
<1> QED
  BY <1>6, NobodyAsks, SeatsAdd DEF Reg!Mint, Reg!At, Reg!Answer

LEMMA SeatsInsert ==
  ASSUME AccountIInv, SeatsIInv, NEW r \in Handler, Reg!Insert(r)
  PROVE  SeatsIInv'
<1> PICK d : d = registration[r]
  OBVIOUS
<1>1. /\ d.at = "insert" /\ UNCHANGED <<invite, unasked>>
      /\ registration \in [Handler -> Reg!RequestState] /\ d \in Reg!RequestState
  BY DEF AccountIInv, AccountTypes, Reg!TypeOK, Reg!Insert, Reg!At
<1>2. Open' = Open
  BY <1>1 DEF Open, Reg!Redeemable
<1>3. CASE d.account \in users
  <2>1. UNCHANGED <<users, seatsCrossed>> /\ Reg!Answer(r)
    BY <1>3 DEF Reg!Insert
  <2>2. \A s \in Handler : \/ registration'[s] = registration[s]
                           \/ registration'[s] = Reg!NoRequest
    BY <1>1, <2>1 DEF Reg!Answer
  <2> QED
    BY <1>1, <1>2, <2>1, <2>2, NoHandlerAdds, SeatsKeep
<1>4. CASE d.account \notin users
  <2>1. /\ users' = users \union {d.account}
        /\ seatsCrossed' = (seatsCrossed \/ Reg!Adding # {r})
    BY <1>4 DEF Reg!Insert
  <2>2. \E p : /\ registration' = [registration EXCEPT ![r] = p]
               /\ p.at \in {"consume", "none"}
    <3>1. CASE Reg!Answer(r)
      BY <3>1, NobodyAsks DEF Reg!Answer
    <3>2. CASE Reg!GoTo(r, "consume")
      <4> PICK p : p = [d EXCEPT !.at = "consume"]
        OBVIOUS
      <4>1. registration' = [registration EXCEPT ![r] = p] /\ p.at = "consume"
        BY <1>1, <3>2 DEF Reg!GoTo, Reg!RequestState
      <4> QED
        BY <4>1
    <3> QED
      BY <1>4, <3>1, <3>2 DEF Reg!Insert
  <2>3. Cardinality(users') \in Nat /\ Cardinality(users') <= Cardinality(users) + 1
    <3> PICK a : a = d.account
      OBVIOUS
    <3>1. Cardinality(users \union {a}) =
            IF a \in users THEN Cardinality(users) ELSE Cardinality(users) + 1
      BY SeatsAreFinite, FS_AddElement
    <3> QED
      BY <2>1, <3>1, SeatsAreFinite
  <2>4. Taken' \in Nat /\ Taken' <= Taken + 1
    BY <1>2, <2>3, SeatsAreFinite DEF Taken
  <2> QED
    BY <1>1, <2>1, <2>2, <2>4, SeatsAdd
<1> QED
  BY <1>3, <1>4

(* The first account is one that nobody asked for, too.                    *)
LEMMA SeatsFirst ==
  ASSUME AccountIInv, SeatsIInv, NEW r \in Handler, Reg!RegisterFirst(r)
  PROVE  SeatsIInv'
<1>1. /\ UNCHANGED <<invite, seatsCrossed>> /\ Reg!Answer(r)
      /\ registration \in [Handler -> Reg!RequestState]
  BY DEF AccountIInv, AccountTypes, Reg!TypeOK, Reg!RegisterFirst
<1>2. Open' = Open
  BY <1>1 DEF Open, Reg!Redeemable
<1>3. \A s \in Handler : \/ registration'[s] = registration[s]
                         \/ registration'[s] = Reg!NoRequest
  BY <1>1 DEF Reg!Answer
<1>4. CASE users # {}
  <2>1. UNCHANGED <<users, unasked>>
    BY <1>4 DEF Reg!RegisterFirst
  <2> QED
    BY <1>1, <1>2, <1>3, <2>1, NoHandlerAdds, SeatsKeep
<1>5. CASE users = {}
  <2>1. PICK a : a = registration[r].account
    OBVIOUS
  <2>2. unasked = {} /\ users' = {a} /\ unasked' = {a}
    BY <1>5, <2>1 DEF Reg!RegisterFirst, AccountIInv, Bootstrap
  <2>3. /\ Cardinality(users) = 0 /\ Cardinality(unasked) = 0
        /\ Cardinality(users') = 1 /\ Cardinality(unasked') = 1
    BY <1>5, <2>2, FS_EmptySet, FS_Singleton
  <2>4. MaxSeats \in Nat /\ Cardinality(Open) \in Nat
    BY SeatsAreFinite, LimitsAreSet
  <2>5. Taken = Cardinality(Open) /\ Taken' = 1 + Cardinality(Open)
    BY <1>2, <2>3, <2>4 DEF Taken
  <2>6. ASSUME MaxSeats # 0, ~seatsCrossed
        PROVE  /\ Taken <= MaxSeats
               /\ \A s \in Handler : Room(registration[s])
    BY <2>3, <2>4, <2>6 DEF SeatsIInv
  <2>7. ASSUME MaxSeats # 0, ~seatsCrossed, NEW s \in Handler
        PROVE  Room(registration[s])'
    <3>1. CASE registration'[s] = Reg!NoRequest
      BY <3>1, NobodyAsks DEF Room
    <3>2. CASE registration'[s] = registration[s]
      <4>1. registration[s].seats \in Nat
        BY <1>1 DEF Reg!RequestState
      <4> QED
        BY <2>3, <2>4, <2>5, <2>6, <2>7, <3>2, <4>1 DEF Room
    <3> QED
      BY <1>3, <3>1, <3>2
  <2> QED
    BY <1>1, <2>3, <2>4, <2>5, <2>6, <2>7 DEF SeatsIInv
<1> QED
  BY <1>4, <1>5

LEMMA SeatsRevoke ==
  ASSUME AccountIInv, SeatsIInv, NEW i \in Invite, Reg!RevokeInvite(i)
  PROVE  SeatsIInv'
<1>1. /\ invite \in [Invite -> [minted : BOOLEAN, used : Nat, over : BOOLEAN]]
      /\ invite' = [invite EXCEPT ![i].over = TRUE]
      /\ UNCHANGED <<users, unasked, registration, seatsCrossed>>
  BY DEF AccountIInv, AccountTypes, Reg!TypeOK, Reg!RevokeInvite, Reg!History
<1>2. \A j \in Invite : invite'[j] = invite[j] \/ invite'[j].over
  BY <1>1
<1>3. Open' \subseteq Open
  BY <1>2 DEF Open, Reg!Redeemable
<1> QED
  BY <1>1, <1>3, SeatsKeep

LEMMA SeatsStart == Init => SeatsInv
<1> SUFFICES ASSUME Reg!Init PROVE SeatsIInv
  BY DEF Init, SeatsInv
<1>1. /\ users = {} /\ unasked = {} /\ invite = [i \in Invite |-> Reg!NewInvite]
      /\ registration = [r \in Handler |-> Reg!NoRequest]
  BY DEF Reg!Init
<1>2. Open = {}
  BY <1>1 DEF Open, Reg!Redeemable, Reg!NewInvite
<1>3. Taken = 0 /\ Cardinality(unasked) = 0 /\ MaxSeats \in Nat
  BY <1>1, <1>2, FS_EmptySet, LimitsAreSet DEF Taken
<1> QED
  BY <1>1, <1>3, NoHandlerAdds DEF SeatsIInv

LEMMA SeatsGo ==
  ASSUME AccountInv, SeatsInv, [Next]_vars PROVE SeatsInv'
<1>1. SUFFICES ASSUME AccountIInv, SeatsIInv, [Reg!Next]_accountVars
               PROVE  SeatsIInv'
  BY PartSteps DEF AccountInv, SeatsInv
<1>2. CASE UNCHANGED accountVars
  BY <1>1, <1>2 DEF accountVars, SeatsIInv, Taken, Open, Room, Reg!Redeemable
<1>4. CASE Reg!MintInvite
  <2> PICK call : call = [Reg!NoRequest EXCEPT !.at = "members",
                                               !.minting = TRUE]
    OBVIOUS
  <2>1. call \in Reg!RequestState /\ call.at = "members"
    BY NobodyAsks DEF Reg!RequestState
  <2> QED
    BY <1>1, <1>4, <2>1, SeatsBegin DEF Reg!MintInvite
<1>5. ASSUME NEW a \in Account, NEW i \in Invite \union {Reg!NoInvite},
             NEW b \in BOOLEAN, Reg!Register(a, i, b)
      PROVE  SeatsIInv'
  <2> PICK call : call = [Reg!NoRequest EXCEPT !.at = "hasUsers",
                            !.account = a, !.token = i, !.asked = b]
    OBVIOUS
  <2>1. call \in Reg!RequestState /\ call.at = "hasUsers"
    BY NobodyAsks DEF Reg!RequestState
  <2> QED
    BY <1>1, <1>5, <2>1, SeatsBegin DEF Reg!Register
<1>6. ASSUME NEW r \in Handler,
             \/ Reg!HasUsers(r) \/ Reg!Valid(r) \/ Reg!RegisterFirst(r)
             \/ Reg!CountUsers(r) \/ Reg!Gate(r) \/ Reg!Mint(r)
             \/ Reg!Exists(r) \/ Reg!Insert(r) \/ Reg!Consume(r)
             \/ Reg!ConsumeFails(r)
      PROVE  SeatsIInv'
  BY <1>1, <1>6, SeatsGoOn, SeatsFirst, SeatsMint, SeatsInsert
<1>7. 0 \in Invite \union {Reg!NoInvite} /\ Reg!NoInvite = 0
  BY DEF Reg!NoInvite
<1> QED
  BY <1>1, <1>2, <1>4, <1>5, <1>6, <1>7, SeatsRevoke DEF Reg!Next

LEMMA SeatsAreHeld == ASSUME SeatsIInv PROVE Reg!SeatsWithinCap
<1>1. \A S : Reg!Cardinality(S) = Cardinality(S)
  BY DEF Reg!Cardinality, Cardinality
<1> QED
  BY <1>1 DEF SeatsIInv, Reg!SeatsWithinCap, Reg!SeatsTaken, Taken, Open

-----------------------------------------------------------------------------
(* StorageQuota.  A sum over requests is the number of pairs of a request  *)
(* and one of its bytes: with that, the sums of the model are cardinalities *)
(* of finite sets.                                                         *)
BytesOf(g, T) == {p \in T \X Nat : p[2] \in 1..g[p[1]]}

LEMMA BytesAreCounted ==
  ASSUME NEW R, IsFiniteSet(R), NEW g \in [R -> Nat]
  PROVE  \A T \in SUBSET R :
           /\ IsFiniteSet(BytesOf(g, T)) /\ Cardinality(BytesOf(g, T)) \in Nat
           /\ T = {} => Cardinality(BytesOf(g, T)) = 0
           /\ \A r \in T : Cardinality(BytesOf(g, T)) =
                             g[r] + Cardinality(BytesOf(g, T \ {r}))
<1> DEFINE fine(T) == IsFiniteSet(BytesOf(g, T))
           Of(r) == {r} \X (1..g[r])
<1>1. BytesOf(g, {}) = {}
  BY DEF BytesOf
<1>2. ASSUME NEW r \in R
      PROVE  IsFiniteSet(Of(r)) /\ Cardinality(Of(r)) = g[r]
  <2>1. IsFiniteSet({r}) /\ Cardinality({r}) = 1
    BY FS_Singleton
  <2>2. IsFiniteSet(1..g[r]) /\ Cardinality(1..g[r]) = g[r]
    <3>1. 1 \in Int /\ g[r] \in Int /\ 1 <= g[r] + 1
      OBVIOUS
    <3> QED
      BY <3>1, FS_Interval
  <2>3. IsFiniteSet({r} \X (1..g[r])) /\ Cardinality({r} \X (1..g[r])) = 1 * g[r]
    BY ONLY <2>1, <2>2, FS_Product
  <2> QED
    BY <2>3
<1>3. ASSUME NEW T \in SUBSET R, NEW r \in T
      PROVE  /\ BytesOf(g, T) = BytesOf(g, T \ {r}) \union Of(r)
             /\ BytesOf(g, T \ {r}) \cap Of(r) = {}
  <2>1. 1..g[r] \subseteq Nat
    OBVIOUS
  <2> QED
    BY <2>1 DEF BytesOf
<1>4. \A T \in SUBSET R : fine(T)
  <2> SUFFICES ASSUME NEW T0 \in SUBSET R, ~fine(T0) PROVE FALSE
    OBVIOUS
  <2> PICK bad : bad = {T \in SUBSET R : ~fine(T)}
    OBVIOUS
  <2>1. bad \subseteq SUBSET R /\ bad # {}
    BY DEF fine
  <2>2. \E T \in bad : \A U \in bad : U \subseteq T => U = T
    <3>1. IsWellFoundedOn(StrictSubsetOrdering(R), SUBSET R)
      BY FS_StrictSubsetOrderingWellFounded, FS_FiniteSubsetsOfFinite
    <3>2. PICK T \in bad : \A U \in bad : ~ (<<U, T>> \in StrictSubsetOrdering(R))
      BY <2>1, <3>1, WFMin
    <3> QED
      BY <2>1, <3>2 DEF StrictSubsetOrdering
  <2>3. PICK T \in bad : \A U \in bad : U \subseteq T => U = T
    BY <2>2
  <2>4. T # {}
    BY <1>1, <2>1, FS_EmptySet
  <2>5. PICK r : r \in T
    BY <2>4
  <2>6. T \ {r} \in SUBSET R /\ T \ {r} \notin bad
    BY <2>3, <2>5
  <2>7. fine(T \ {r})
    BY <2>6
  <2>8. fine(T)
    <3>1. r \in R /\ T \in SUBSET R /\ IsFiniteSet(BytesOf(g, T \ {r}))
      BY <2>1, <2>5, <2>7
    <3>2. IsFiniteSet(Of(r)) /\ BytesOf(g, T) = BytesOf(g, T \ {r}) \union Of(r)
      BY <1>2, <1>3, <2>5, <3>1
    <3> HIDE DEF Of
    <3>3. IsFiniteSet(BytesOf(g, T \ {r}) \union Of(r))
      BY ONLY <3>1, <3>2, FS_Union
    <3> QED
      BY <3>2, <3>3
  <2> QED
    BY <2>8
<1> SUFFICES ASSUME NEW T \in SUBSET R
             PROVE  /\ IsFiniteSet(BytesOf(g, T)) /\ Cardinality(BytesOf(g, T)) \in Nat
                    /\ T = {} => Cardinality(BytesOf(g, T)) = 0
                    /\ \A r \in T : Cardinality(BytesOf(g, T)) =
                                      g[r] + Cardinality(BytesOf(g, T \ {r}))
  OBVIOUS
<1>5. IsFiniteSet(BytesOf(g, T)) /\ Cardinality(BytesOf(g, T)) \in Nat
  BY <1>4, FS_CardinalityType
<1>6. T = {} => Cardinality(BytesOf(g, T)) = 0
  BY <1>1, FS_EmptySet
<1>7. ASSUME NEW r \in T
      PROVE  Cardinality(BytesOf(g, T)) = g[r] + Cardinality(BytesOf(g, T \ {r}))
  <2> DEFINE A == BytesOf(g, T \ {r})
  <2>1. IsFiniteSet(A) /\ Cardinality(A) \in Nat
    BY <1>4, FS_CardinalityType
  <2>2. IsFiniteSet(Of(r)) /\ Cardinality(Of(r)) = g[r]
    BY <1>2
  <2>3. Cardinality(A \cap Of(r)) = 0
    BY <1>3, FS_EmptySet
  <2> HIDE DEF A, Of
  <2>4. Cardinality(A \union Of(r)) = Cardinality(A) + g[r] - 0
    BY <2>1, <2>2, <2>3, FS_Union
  <2>5. BytesOf(g, T) = A \union Of(r)
    BY <1>3 DEF A
  <2>6. g[r] \in Nat
    OBVIOUS
  <2>7. Cardinality(BytesOf(g, T)) = g[r] + Cardinality(A)
    BY <2>1, <2>4, <2>5, <2>6
  <2> QED
    BY <2>7 DEF A
<1> QED
  BY <1>5, <1>6, <1>7

UploadTypes ==
  /\ committed \in Nat /\ reserved \in Nat
  /\ upload \in [Request -> [at : {"idle", "write", "commit", "release"},
                             bytes : Nat, active : BOOLEAN]]
  /\ written \in [reserved : Nat, unlimited : Nat]
UploadBytes == [r \in Request |-> Quota!Bytes(r)]

LEMMA SumIsCount ==
  ASSUME UploadTypes, NEW T \in SUBSET Request
  PROVE  Quota!MapThenSumSet(Quota!Bytes, T) = Cardinality(BytesOf(UploadBytes, T))
<1> PICK g : g = UploadBytes
  OBVIOUS
<1>1. g \in [Request -> Nat] /\ \A r \in Request : g[r] = Quota!Bytes(r)
  BY DEF UploadTypes, UploadBytes, Quota!Bytes
<1> DEFINE some(s) == CHOOSE x \in s : TRUE
           Fits(h) == h = [s \in SUBSET T |->
                        IF s = {} THEN 0
                        ELSE Quota!Bytes(some(s)) + h[s \ {some(s)}]]
           count(s) == Cardinality(BytesOf(g, s))
<1>2. Quota!MapThenSumSet(Quota!Bytes, T) = (CHOOSE h : Fits(h))[T]
  BY DEF Quota!MapThenSumSet, Quota!MapThenFoldSet
<1>3. \A s \in SUBSET T : /\ count(s) \in Nat /\ (s = {} => count(s) = 0)
                          /\ \A r \in s : count(s) = g[r] + count(s \ {r})
  BY <1>1, RequestsAreFinite, BytesAreCounted
<1>4. \A s \in SUBSET T : s # {} => some(s) \in s
  OBVIOUS
<1> HIDE DEF count, some
<1>5. Fits([s \in SUBSET T |-> count(s)])
  <2> DEFINE c == [s \in SUBSET T |-> count(s)]
  <2>1. ASSUME NEW s \in SUBSET T
        PROVE  c[s] = IF s = {} THEN 0
                      ELSE Quota!Bytes(some(s)) + c[s \ {some(s)}]
    <3>1. CASE s = {}
      BY <1>3, <3>1
    <3>2. CASE s # {}
      <4>1. some(s) \in s /\ some(s) \in Request /\ s \ {some(s)} \in SUBSET T
        BY <1>4, <3>2
      <4>2. count(s) = g[some(s)] + count(s \ {some(s)})
        BY <1>3, <4>1
      <4> QED
        BY <1>1, <3>2, <4>1, <4>2
    <3> QED
      BY <3>1, <3>2
  <2> HIDE DEF c
  <2>2. c = [s \in SUBSET T |-> c[s]]
    BY DEF c
  <2>3. Fits(c)
    BY <2>1, <2>2
  <2> QED
    BY <2>3 DEF c
<1>6. PICK h : h = (CHOOSE k : Fits(k)) /\ Fits(h)
  <2> HIDE DEF Fits
  <2> QED
    BY <1>5
<1>7. \A s \in SUBSET T : h[s] = count(s)
  <2> SUFFICES ASSUME NEW s0 \in SUBSET T, h[s0] # count(s0) PROVE FALSE
    OBVIOUS
  <2> PICK bad : bad = {s \in SUBSET T : h[s] # count(s)}
    OBVIOUS
  <2>1. bad \subseteq SUBSET T /\ bad # {}
    OBVIOUS
  <2>2. IsFiniteSet(T)
    BY RequestsAreFinite, FS_Subset
  <2>3. IsWellFoundedOn(StrictSubsetOrdering(T), SUBSET T)
    BY <2>2, FS_StrictSubsetOrderingWellFounded, FS_FiniteSubsetsOfFinite
  <2>4. PICK s \in bad : \A u \in bad : ~ (<<u, s>> \in StrictSubsetOrdering(T))
    BY <2>1, <2>3, WFMin
  <2>5. \A u \in bad : u \subseteq s => u = s
    BY <2>1, <2>4 DEF StrictSubsetOrdering
  <2>6. h[s] = IF s = {} THEN 0 ELSE Quota!Bytes(some(s)) + h[s \ {some(s)}]
    BY <1>6, <2>1
  <2>7. s # {}
    BY <1>3, <2>6
  <2>8. some(s) \in s /\ some(s) \in Request /\ s \ {some(s)} \in SUBSET T
    BY <1>4, <2>7
  <2>9. h[s \ {some(s)}] = count(s \ {some(s)})
    BY <2>5, <2>8
  <2> QED
    BY <1>1, <1>3, <2>6, <2>7, <2>8, <2>9
<1> QED
  BY <1>2, <1>6, <1>7 DEF count

QuotaIInv ==
  /\ UploadTypes
  /\ reserved = Cardinality(BytesOf(UploadBytes, Request))
  /\ committed + reserved <= MaxStorage
  /\ written.reserved =
       committed + Cardinality(BytesOf(UploadBytes, Quota!Uncommitted))

(* A step of one write changes its own share of the sums.                  *)
Share(p) == IF p.active THEN p.bytes ELSE 0
Unsaved(p) == IF p.at = "commit" THEN Share(p) ELSE 0
LEMMA OneUploads ==
  ASSUME UploadTypes, NEW r \in Request,
         NEW p \in [at : {"idle", "write", "commit", "release"},
                    bytes : Nat, active : BOOLEAN],
         upload' = [upload EXCEPT ![r] = p]
  PROVE  \E a \in Nat, u \in Nat :
           /\ Cardinality(BytesOf(UploadBytes, Request)) = a + Share(upload[r])
           /\ Cardinality(BytesOf(UploadBytes', Request)) = a + Share(p)
           /\ Cardinality(BytesOf(UploadBytes, Quota!Uncommitted)) =
                u + Unsaved(upload[r])
           /\ Cardinality(BytesOf(UploadBytes', Quota!Uncommitted')) =
                u + Unsaved(p)
<1> PICK g : g = UploadBytes
  OBVIOUS
<1> PICK h : h = UploadBytes'
  OBVIOUS
<1> PICK V : V = Quota!Uncommitted
  OBVIOUS
<1> PICK W : W = Quota!Uncommitted'
  OBVIOUS
<1>1. /\ g \in [Request -> Nat] /\ h \in [Request -> Nat]
      /\ g[r] = Share(upload[r]) /\ h[r] = Share(p)
      /\ \A q \in Request : q # r => g[q] = h[q]
  BY DEF UploadTypes, UploadBytes, Quota!Bytes, Share
<1>2. /\ V \in SUBSET Request /\ W \in SUBSET Request
      /\ V \ {r} = W \ {r}
      /\ r \in V <=> upload[r].at = "commit"
      /\ r \in W <=> p.at = "commit"
  BY DEF UploadTypes, Quota!Uncommitted
<1>3. \A T \in SUBSET Request :
        /\ Cardinality(BytesOf(g, T)) \in Nat
        /\ \A q \in T : Cardinality(BytesOf(g, T)) =
                          g[q] + Cardinality(BytesOf(g, T \ {q}))
  BY <1>1, RequestsAreFinite, BytesAreCounted
<1>4. \A T \in SUBSET Request :
        /\ Cardinality(BytesOf(h, T)) \in Nat
        /\ \A q \in T : Cardinality(BytesOf(h, T)) =
                          h[q] + Cardinality(BytesOf(h, T \ {q}))
  BY <1>1, RequestsAreFinite, BytesAreCounted
<1>5. \A T \in SUBSET Request : r \notin T => BytesOf(g, T) = BytesOf(h, T)
  <2> SUFFICES ASSUME NEW T \in SUBSET Request, r \notin T
               PROVE  BytesOf(g, T) = BytesOf(h, T)
    OBVIOUS
  <2>1. \A q \in T : g[q] = h[q]
    BY <1>1
  <2> QED
    BY <2>1 DEF BytesOf
<1> PICK A : A = Request \ {r}
  OBVIOUS
<1> PICK U : U = V \ {r}
  OBVIOUS
<1>6. A \in SUBSET Request /\ r \notin A /\ U \in SUBSET Request /\ r \notin U
  BY <1>2
<1>7. /\ Cardinality(BytesOf(g, Request)) = Share(upload[r]) + Cardinality(BytesOf(g, A))
      /\ Cardinality(BytesOf(h, Request)) = Share(p) + Cardinality(BytesOf(g, A))
  BY <1>1, <1>3, <1>4, <1>5, <1>6
<1>8. Cardinality(BytesOf(g, V)) = Unsaved(upload[r]) + Cardinality(BytesOf(g, U))
  <2>1. CASE r \in V
    BY <1>1, <1>2, <1>3, <2>1 DEF Unsaved
  <2>2. CASE r \notin V
    <3>1. U = V
      BY <2>2
    <3>2. Unsaved(upload[r]) = 0 /\ Cardinality(BytesOf(g, U)) \in Nat
      BY <1>2, <1>3, <1>6, <2>2 DEF Unsaved
    <3> QED
      BY <3>1, <3>2
  <2> QED
    BY <2>1, <2>2
<1>9. Cardinality(BytesOf(h, W)) = Unsaved(p) + Cardinality(BytesOf(g, U))
  <2>1. BytesOf(h, U) = BytesOf(g, U) /\ U = W \ {r}
    BY <1>2, <1>5, <1>6
  <2>2. CASE r \in W
    BY <1>1, <1>2, <1>4, <2>1, <2>2 DEF Unsaved
  <2>3. CASE r \notin W
    <3>1. U = W
      BY <2>1, <2>3
    <3>2. Cardinality(BytesOf(h, W)) = Cardinality(BytesOf(g, U))
      BY <2>1, <3>1
    <3>3. Unsaved(p) = 0 /\ Cardinality(BytesOf(g, U)) \in Nat
      BY <1>2, <1>3, <1>6, <2>3 DEF Unsaved
    <3> QED
      BY <3>2, <3>3
  <2> QED
    BY <2>2, <2>3
<1>10. /\ Cardinality(BytesOf(g, A)) \in Nat /\ Cardinality(BytesOf(g, U)) \in Nat
       /\ Share(upload[r]) \in Nat /\ Share(p) \in Nat
       /\ Unsaved(upload[r]) \in Nat /\ Unsaved(p) \in Nat
  BY <1>3, <1>6 DEF UploadTypes, Share, Unsaved
<1> QED
  BY <1>7, <1>8, <1>9, <1>10

LEMMA NothingToUpload ==
  ASSUME UploadTypes, \A r \in Request : upload[r] = Quota!Idle
  PROVE  /\ Cardinality(BytesOf(UploadBytes, Request)) = 0
         /\ Cardinality(BytesOf(UploadBytes, Quota!Uncommitted)) = 0
<1>1. BytesOf(UploadBytes, Request) = {}
  BY DEF BytesOf, UploadBytes, Quota!Bytes, Quota!Idle
<1>2. BytesOf(UploadBytes, Quota!Uncommitted) = {}
  BY DEF BytesOf, Quota!Uncommitted, Quota!Idle
<1> QED
  BY <1>1, <1>2, FS_EmptySet

LEMMA QuotaInit == ASSUME Quota!Init PROVE QuotaIInv
<1>1. UploadTypes
  BY DEF Quota!Init, UploadTypes, Quota!Idle, Quota!NothingWritten
<1>2. \A r \in Request : upload[r] = Quota!Idle
  BY DEF Quota!Init
<1> QED
  BY <1>1, <1>2, NothingToUpload, LimitsAreSet
  DEF QuotaIInv, Quota!Init, Quota!NothingWritten

LEMMA RestartKeeps == ASSUME QuotaIInv, Quota!Restart PROVE QuotaIInv'
<1> PICK none : none = [r \in Request |-> Quota!Idle]
  OBVIOUS
<1>1. UploadTypes'
  BY DEF Quota!Restart, UploadTypes, Quota!Idle, Quota!NothingWritten
<1>2. BytesOf(UploadBytes', Request) = {}
  BY DEF BytesOf, UploadBytes, Quota!Bytes, Quota!Idle, Quota!Restart
<1>3. BytesOf(UploadBytes', Quota!Uncommitted') = {}
  BY DEF BytesOf, Quota!Uncommitted, Quota!Idle, Quota!Restart
<1> QED
  BY <1>1, <1>2, <1>3, FS_EmptySet, LimitsAreSet
  DEF QuotaIInv, Quota!Restart, Quota!NothingWritten

LEMMA GateStorageKeeps ==
  ASSUME QuotaIInv, NEW r \in Request, NEW bytes \in Size,
         NEW unlimited \in BOOLEAN, Quota!GateStorage(r, bytes, unlimited)
  PROVE  QuotaIInv'
<1> PICK p : p = [at |-> "write", bytes |-> bytes, active |-> ~unlimited]
  OBVIOUS
<1>1. bytes \in Nat /\ p \in [at : {"idle", "write", "commit", "release"},
                              bytes : Nat, active : BOOLEAN]
  BY LimitsAreSet
<1>2. /\ upload[r] = Quota!Idle /\ upload' = [upload EXCEPT ![r] = p]
      /\ unlimited \/ committed + reserved + bytes <= MaxStorage
      /\ reserved' = IF unlimited THEN reserved ELSE reserved + bytes
      /\ UNCHANGED <<committed, written>>
  BY DEF Quota!GateStorage, Quota!Fits
<1>3. UploadTypes'
  BY <1>1, <1>2 DEF QuotaIInv, UploadTypes
<1>4. /\ Share(upload[r]) = 0 /\ Unsaved(upload[r]) = 0 /\ Unsaved(p) = 0
      /\ Share(p) = IF unlimited THEN 0 ELSE bytes
  <2>1. p.at = "write" /\ p.bytes = bytes /\ p.active = ~unlimited
    OBVIOUS
  <2>2. upload[r].active = FALSE /\ upload[r].at = "idle"
    BY <1>2 DEF Quota!Idle
  <2> QED
    BY <2>1, <2>2 DEF Share, Unsaved
<1>5. PICK a \in Nat, u \in Nat :
        /\ Cardinality(BytesOf(UploadBytes, Request)) = a + Share(upload[r])
        /\ Cardinality(BytesOf(UploadBytes', Request)) = a + Share(p)
        /\ Cardinality(BytesOf(UploadBytes, Quota!Uncommitted)) =
             u + Unsaved(upload[r])
        /\ Cardinality(BytesOf(UploadBytes', Quota!Uncommitted')) =
             u + Unsaved(p)
  BY <1>1, <1>2, OneUploads DEF QuotaIInv
<1> QED
  BY <1>1, <1>2, <1>3, <1>4, <1>5, LimitsAreSet DEF QuotaIInv, UploadTypes

LEMMA UploadGoesOn ==
  ASSUME QuotaIInv, NEW r \in Request,
         \/ Quota!Write(r) \/ Quota!WriteFails(r) \/ Quota!Commit(r)
         \/ Quota!Release(r)
  PROVE  QuotaIInv'
<1> PICK d : d = upload[r]
  OBVIOUS
<1>1. d \in [at : {"idle", "write", "commit", "release"},
             bytes : Nat, active : BOOLEAN]
  BY DEF QuotaIInv, UploadTypes
<1> PICK bytes : bytes = Share(d)
  OBVIOUS
<1>2. bytes \in Nat
  BY <1>1 DEF Share
<1>3. PICK p \in [at : {"idle", "write", "commit", "release"},
                  bytes : Nat, active : BOOLEAN] :
        /\ upload' = [upload EXCEPT ![r] = p]
        /\ \/ /\ d.at = "write" /\ p.at = "commit" /\ Share(p) = bytes
              /\ written' \in [reserved : Nat, unlimited : Nat]
              /\ written'.reserved = written.reserved + bytes
              /\ UNCHANGED <<committed, reserved>>
           \/ /\ d.at = "write" /\ p.at = "release" /\ Share(p) = bytes
              /\ UNCHANGED <<committed, reserved, written>>
           \/ /\ d.at = "commit" /\ p = Quota!Idle
              /\ reserved' = reserved - bytes /\ committed' = committed + bytes
              /\ UNCHANGED written
           \/ /\ d.at = "release" /\ p = Quota!Idle
              /\ reserved' = reserved - bytes
              /\ UNCHANGED <<committed, written>>
  <2>1. CASE Quota!Write(r)
    <3> PICK p : p = [d EXCEPT !.at = "commit"]
      OBVIOUS
    <3>1. upload' = [upload EXCEPT ![r] = p] /\ d.at = "write"
          /\ UNCHANGED <<committed, reserved>>
      BY <2>1 DEF Quota!Write
    <3>2. p \in [at : {"idle", "write", "commit", "release"},
                 bytes : Nat, active : BOOLEAN]
          /\ p.at = "commit" /\ Share(p) = bytes
      BY <1>1 DEF Share
    <3>3. CASE d.active
      <4>1. written' = [written EXCEPT !.reserved = @ + d.bytes] /\ bytes = d.bytes
        BY <2>1, <3>3 DEF Quota!Write, Share
      <4>2. /\ written' \in [reserved : Nat, unlimited : Nat]
            /\ written'.reserved = written.reserved + bytes
        BY <1>1, <4>1 DEF QuotaIInv, UploadTypes
      <4> QED
        BY <3>1, <3>2, <4>2
    <3>4. CASE ~d.active
      <4>1. written' = [written EXCEPT !.unlimited = @ + d.bytes] /\ bytes = 0
        BY <2>1, <3>4 DEF Quota!Write, Share
      <4>2. /\ written' \in [reserved : Nat, unlimited : Nat]
            /\ written'.reserved = written.reserved + bytes
        BY <1>1, <4>1 DEF QuotaIInv, UploadTypes
      <4> QED
        BY <3>1, <3>2, <4>2
    <3> QED
      BY <3>3, <3>4
  <2>2. CASE Quota!WriteFails(r)
    <3> PICK p : p = [d EXCEPT !.at = "release"]
      OBVIOUS
    <3>1. upload' = [upload EXCEPT ![r] = p] /\ d.at = "write"
          /\ UNCHANGED <<committed, reserved, written>>
      BY <2>2 DEF Quota!WriteFails
    <3>2. p \in [at : {"idle", "write", "commit", "release"},
                 bytes : Nat, active : BOOLEAN]
          /\ p.at = "release" /\ Share(p) = bytes
      BY <1>1 DEF Share
    <3> QED
      BY <3>1, <3>2
  <2>3. CASE Quota!Commit(r) \/ Quota!Release(r)
    <3>1. Quota!Idle \in [at : {"idle", "write", "commit", "release"},
                          bytes : Nat, active : BOOLEAN]
      BY DEF Quota!Idle
    <3> QED
      BY <2>3, <3>1 DEF Quota!Commit, Quota!Release, Share
  <2> QED
    BY <2>1, <2>2, <2>3
<1>4. PICK a \in Nat, u \in Nat :
        /\ Cardinality(BytesOf(UploadBytes, Request)) = a + Share(d)
        /\ Cardinality(BytesOf(UploadBytes', Request)) = a + Share(p)
        /\ Cardinality(BytesOf(UploadBytes, Quota!Uncommitted)) = u + Unsaved(d)
        /\ Cardinality(BytesOf(UploadBytes', Quota!Uncommitted')) =
             u + Unsaved(p)
  BY <1>3, OneUploads DEF QuotaIInv
<1>5. Share(Quota!Idle) = 0 /\ Quota!Idle.at = "idle"
  BY DEF Share, Quota!Idle
<1>6. Unsaved(d) \in Nat /\ Unsaved(p) \in Nat
  BY <1>1 DEF Unsaved, Share
<1>7. /\ committed \in Nat /\ reserved \in Nat /\ written.reserved \in Nat
      /\ reserved = a + bytes /\ committed + reserved <= MaxStorage
      /\ written.reserved = committed + u + Unsaved(d)
      /\ MaxStorage \in Nat
      /\ written \in [reserved : Nat, unlimited : Nat]
      /\ upload \in [Request -> [at : {"idle", "write", "commit", "release"},
                                 bytes : Nat, active : BOOLEAN]]
  BY <1>4, <1>6, LimitsAreSet DEF QuotaIInv, UploadTypes
<1>8. /\ reserved' \in Nat /\ committed' \in Nat
      /\ written' \in [reserved : Nat, unlimited : Nat]
      /\ reserved' = a + Share(p) /\ committed' + reserved' <= MaxStorage
      /\ written'.reserved = committed' + (u + Unsaved(p))
  BY <1>2, <1>3, <1>5, <1>6, <1>7 DEF Unsaved
<1>9. UploadTypes'
  BY <1>3, <1>7, <1>8 DEF UploadTypes
<1> QED
  BY <1>4, <1>8, <1>9 DEF QuotaIInv

QuotaInv == part = "quota" => QuotaIInv
LEMMA QuotaStart == Init => QuotaInv
BY QuotaInit DEF Init, QuotaInv

LEMMA QuotaGoesOn == ASSUME QuotaInv, [Next]_vars PROVE QuotaInv'
<1> SUFFICES ASSUME QuotaIInv, [Quota!Next]_quotaVars PROVE QuotaIInv'
  BY PartSteps DEF QuotaInv
<1>2. CASE UNCHANGED quotaVars
  BY <1>2 DEF quotaVars, QuotaIInv, UploadTypes, UploadBytes, Quota!Bytes,
              Quota!Uncommitted
<1>3. CASE Quota!Next
  BY <1>3, RestartKeeps, GateStorageKeeps, UploadGoesOn DEF Quota!Next
<1> QED
  BY <1>2, <1>3

LEMMA QuotaIsHeld == ASSUME QuotaIInv PROVE Quota!QuotaHeld
<1>1. Quota!Uncommitted \in SUBSET Request
  BY DEF Quota!Uncommitted
<1> QED
  BY <1>1, SumIsCount DEF QuotaIInv, Quota!QuotaHeld

(* enforce.go, auth.go, admin.go: reservations and commitments of storage  *)
(* keep within the cap and each write is counted once, across restarts;    *)
(* and members and invites keep within the seats, unless two checks        *)
(* overlapped - for any number of accounts, invites and requests at a time.*)
THEOREM PlanLimitsAreHeld == Spec => []PlanLimitsHeld
<1>1. AccountInv /\ SeatsInv /\ QuotaInv => PlanLimitsHeld
  BY SeatsAreHeld, QuotaIsHeld DEF SeatsInv, AccountInv, QuotaInv, PlanLimitsHeld
<1>2. Init => AccountInv /\ SeatsInv /\ QuotaInv
  BY AccountStart, SeatsStart, QuotaStart
<1>3. AccountInv /\ SeatsInv /\ QuotaInv /\ [Next]_vars
        => (AccountInv /\ SeatsInv /\ QuotaInv)'
  BY AccountGoesOn, SeatsGo, QuotaGoesOn
<1> QED
  BY <1>1, <1>2, <1>3, PTL DEF Spec

=============================================================================
