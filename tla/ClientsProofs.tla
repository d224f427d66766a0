---------------------------- MODULE ClientsProofs ----------------------------
(***************************************************************************)
(* Theorems about both log clients, for any number of sessions and edits,  *)
(* any cap, threshold and number of faults.  What a client and the service *)
(* do to the exchanges, the log and the seqs is the same in both, and is   *)
(* proved once, of steps that stand for those of either (Exchange).  Then  *)
(* each client is shown to take such steps, and its own buffer, or dirty   *)
(* flag and state vector, is followed.                                     *)
(***************************************************************************)
EXTENDS Clients, WellFoundedInduction, TLAPS

Item == Session \X (1..MaxOps)
Frame == [seq : Nat \ {0}, data : SUBSET Item]

Highest == HeadSeq(snap, frames)
Logged == UNION {f.data : f \in accepted}
Recoverable == snap.data \union UNION {f.data : f \in Above(frames, snap.floor)}

(* What a load's answer holds.                                             *)
Contents(log) == log.snapshot.data \union UNION {f.data : f \in log.frames}

-----------------------------------------------------------------------------
(* The highest seq was given to something that is kept.                    *)
StoreOK ==
  /\ frames \subseteq accepted /\ accepted \subseteq Frame
  /\ snap \in [seq : Nat, floor : Nat, data : SUBSET Item]
  /\ snap.floor = 0 => snap.data = {}
  /\ Highest \in Nat /\ snap.floor <= Highest /\ snap.seq <= Highest
  /\ \A f \in accepted : f.seq <= Highest
  /\ Highest = snap.seq \/ \E f \in frames : f.seq = Highest

(* What travels is made of items and of seqs that have been given.         *)
MessageOK(w) ==
  /\ w.kind = "update" => w.items \in SUBSET Item
  /\ w.kind = "snapshot" =>
       w.items \in SUBSET Item /\ w.floor \in Nat \ {0} /\ w.floor <= Highest
  /\ w.kind \in {"appended", "ok"} => w.seq \in Nat \ {0} /\ w.seq <= Highest
  /\ w.kind = "log" =>
       /\ w.log.head \in Nat /\ w.log.head <= Highest
       /\ Contents(w.log) \subseteq Item

(* The reply fits the await, and the await the phase.                      *)
Fits(c, kind) ==
  /\ c.phase # "gone" =>
       /\ c.awaiting = "none" => kind = "idle"
       /\ c.awaiting = "load" => kind \in {"load", "log", "notFound", "failure"}
       /\ c.awaiting = "update" =>
            kind \in {"update", "appended", "ok", "notFound", "failure"}
       /\ c.awaiting = "snapshot" =>
            kind \in {"snapshot", "ok", "conflict", "notFound", "failure"}
  /\ c.phase \in {"unopened", "off", "gone"} => c.awaiting = "none"
  /\ c.phase = "hydrating" => c.awaiting = "load"
  /\ c.phase = "live" => c.awaiting # "load"
  /\ c.awaiting \in {"none", "load", "update", "snapshot"}

SessionOK(c) == c.doc \in SUBSET Item /\ c.covered \in Nat /\ c.covered <= Highest

(* The session uses the log, or a request of it is still under way.        *)
Using(c, w) ==
  \/ c.phase \in {"hydrating", "live"} \/ c.awaiting # "none"
  \/ w.kind \in {"load", "update", "snapshot", "appended"}

(* What a session that uses the log alone knows of it.                     *)
Writes(c) == c.phase = "live" \/ c.awaiting \in {"update", "snapshot"}
Truthful(c) == \A f \in accepted : f.seq <= c.covered => f.data \subseteq c.doc
Knows(c, w) ==
  /\ Truthful(c)
  /\ Writes(c) => Logged \subseteq c.doc
  /\ c.awaiting = "load" /\ w.kind = "log" => Contents(w.log) = Recoverable
  /\ c.awaiting = "update" /\ w.kind = "update" => w.items \subseteq c.doc
  /\ w.kind = "snapshot" => Logged \subseteq w.items

AloneOK ==
  ~overlapped =>
    /\ \A s, t \in Session :
         Using(client[s], wire[s]) /\ Using(client[t], wire[t]) => s = t
    /\ Logged \subseteq Recoverable
    /\ \A s \in Session : Knows(client[s], wire[s])

ExchangeInv ==
  /\ StoreOK
  /\ \A s \in Session :
       /\ MessageOK(wire[s]) /\ SessionOK(client[s])
       /\ Fits(client[s], wire[s].kind)
  /\ AloneOK

-----------------------------------------------------------------------------
(* The steps.  One session at a time changes, or its exchange.             *)
OthersStay(s) ==
  \A t \in Session \ {s} : client'[t] = client[t] /\ wire'[t] = wire[t]
Looks(s, w) == client'[s] = client[s] /\ wire'[s] = w
Turns(s, phase, awaiting, doc, covered) ==
  /\ client'[s].phase = phase /\ client'[s].awaiting = awaiting
  /\ client'[s].doc = doc /\ client'[s].covered = covered

StoreStays == UNCHANGED <<snap, frames, accepted>>

(* The service's.                                                          *)
Replies(s, w) ==
  /\ Looks(s, w) /\ StoreStays
  /\ \/ wire[s].kind # "idle" /\ w.kind \in {"failure", "notFound"}
     \/ wire[s].kind = "snapshot" /\ w.kind = "conflict"
     \/ wire[s].kind = "appended" /\ w.kind = "ok" /\ w.seq = wire[s].seq
     \/ /\ wire[s].kind = "load" /\ w.kind = "log"
        /\ w.log = LoadAnswer(snap, frames, 0)
Appends(s) ==
  LET frame == UpdateFrame(Highest + 1, wire[s].items)
  IN  /\ wire[s].kind = "update"
      /\ frames' = frames \union {frame} /\ accepted' = accepted \union {frame}
      /\ snap' = snap
      /\ client'[s] = client[s]
      /\ wire'[s].kind = "appended" /\ wire'[s].seq = Highest + 1
Compacts(s) ==
  LET floor == ClampFloor(wire[s].floor, Highest)
  IN  /\ wire[s].kind = "snapshot"
      /\ snap' = Snapshot(Highest + 1, floor, wire[s].items)
      /\ frames' = Above(frames, floor) /\ accepted' = accepted
      /\ client'[s] = client[s]
      /\ wire'[s].kind = "ok" /\ wire'[s].seq = Highest + 1
Serves(s) == (\E w : Replies(s, w)) \/ Appends(s) \/ Compacts(s)

(* The session's.                                                          *)
Opens(s) ==
  LET c == client[s]
  IN  /\ c.phase = "unopened"
      /\ Turns(s, "hydrating", "load", c.doc, c.covered)
      /\ wire'[s].kind = "load"
      /\ overlapped' =
           (overlapped \/ \E t \in Session : Using(client[t], wire[t]))
Hydrates(s) ==
  LET c == client[s]
  IN  /\ c.phase # "gone" /\ c.awaiting = "load" /\ wire[s].kind = "log"
      /\ Turns(s, IF c.phase = "hydrating" THEN "live" ELSE c.phase, "none",
               c.doc \union Contents(wire[s].log), wire[s].log.head)
      /\ wire'[s].kind = "idle"
Ends(s) ==
  LET c == client[s]
  IN  /\ c.phase # "gone" /\ c.awaiting # "none"
      /\ \E n \in {c.covered} \union
                  IF c.awaiting = "snapshot" /\ wire[s].kind = "ok"
                    THEN {wire[s].seq} ELSE {} :
           Turns(s, IF c.phase = "hydrating" THEN "off" ELSE c.phase, "none",
                 c.doc, n)
      /\ wire'[s].kind = "idle"
Merges(s) ==
  LET c == client[s]
  IN  /\ wire'[s] = wire[s]
      /\ \E items \in SUBSET Item :
           Turns(s, c.phase, c.awaiting, c.doc \union items, c.covered)
Unmounts(s) ==
  LET c == client[s]
  IN  /\ c.phase \in {"hydrating", "live", "off"} /\ wire'[s] = wire[s]
      /\ Turns(s, "stopped", c.awaiting, c.doc, c.covered)
Sends(s) ==
  LET c == client[s]
  IN  /\ c.phase = "live" /\ c.awaiting = "none"
      /\ \E phase \in {"live", "stopped"} :
           Turns(s, phase, "update", c.doc, c.covered)
      /\ wire'[s].kind = "update" /\ wire'[s].items \subseteq c.doc
Goes(s) ==
  LET c == client[s]
  IN  /\ c.phase # "gone" /\ c.awaiting = "update" /\ wire[s].kind = "ok"
      /\ \/ /\ Turns(s, c.phase, "none", c.doc, wire[s].seq)
            /\ wire'[s].kind = "idle"
         \/ /\ Turns(s, c.phase, "snapshot", c.doc, wire[s].seq)
            /\ wire'[s].kind = "snapshot" /\ wire'[s].items = c.doc
            /\ wire'[s].floor = wire[s].seq
Dies(s) == wire'[s] = wire[s] /\ Turns(s, "gone", "none", {}, 0)

Acts(s) ==
  \/ Opens(s) \/ /\ overlapped' = overlapped
                 /\ \/ Hydrates(s) \/ Ends(s) \/ Merges(s) \/ Unmounts(s)
                    \/ Sends(s) \/ Goes(s) \/ Dies(s)
Exchanges ==
  \/ UNCHANGED <<snap, frames, accepted, wire, client, overlapped>>
  \/ \E s \in Session :
       /\ OthersStay(s)
       /\ \/ overlapped' = overlapped /\ Serves(s)
          \/ StoreStays /\ Acts(s)

-----------------------------------------------------------------------------
(* What the operators say.                                                 *)
LEMMA MaxIs ==
  ASSUME NEW S \in SUBSET Int, NEW m \in S, \A x \in S : x <= m
  PROVE  Max(S) = m
<1>1. \A y \in S : m >= y
  OBVIOUS
<1>2. Max(S) \in S /\ \A y \in S : Max(S) >= y
  BY <1>1 DEF Max
<1>3. Max(S) \in Int /\ m \in Int /\ Max(S) >= m /\ Max(S) <= m
  BY <1>2
<1> QED
  BY <1>3

LEMMA HeadIs ==
  ASSUME NEW sn, NEW fs, NEW h \in Nat,
         sn.seq \in Nat, sn.seq <= h, \A f \in fs : f.seq \in Nat /\ f.seq <= h,
         h = sn.seq \/ \E f \in fs : f.seq = h
  PROVE  HeadSeq(sn, fs) = h
<1> DEFINE S == {sn.seq} \union {f.seq : f \in fs}
<1>1. S \in SUBSET Int /\ h \in S /\ \A x \in S : x <= h
  OBVIOUS
<1> HIDE DEF S
<1>2. Max(S) = h
  BY <1>1, MaxIs
<1> QED
  BY <1>2 DEF HeadSeq, S

(* A fresh load is given all that can be recovered.                        *)
LEMMA LoadIsAll ==
  ASSUME StoreOK
  PROVE  /\ Contents(LoadAnswer(snap, frames, 0)) = Recoverable
         /\ LoadAnswer(snap, frames, 0).head = Highest
<1>1. snap.floor \in Nat
  BY DEF StoreOK
<1>2. LoadAnswer(snap, frames, 0).head = Highest
  BY DEF LoadAnswer, Highest
<1>3. CASE 0 < snap.floor
  BY <1>2, <1>3 DEF LoadAnswer, Contents, Recoverable
<1>4. CASE ~ 0 < snap.floor
  <2>1. snap.floor = 0 /\ snap.data = {}
    BY <1>1, <1>4 DEF StoreOK
  <2> QED
    BY <1>2, <1>4, <2>1 DEF LoadAnswer, Contents, Recoverable, NoSnapshot
<1> QED
  BY <1>3, <1>4

LEMMA ClampBounds ==
  ASSUME NEW f \in Nat \ {0}, NEW h \in Nat, f <= h
  PROVE  ClampFloor(f, h) = f
BY DEF ClampFloor

LEMMA ItemsLogged ==
  ASSUME StoreOK PROVE Logged \subseteq Item /\ Recoverable \subseteq Item
                       /\ Recoverable \subseteq Logged \union snap.data
BY DEF StoreOK, Logged, Recoverable, Above, Frame

-----------------------------------------------------------------------------
(* Steps that leave the log as it is.                                      *)
LEMMA LogStays ==
  ASSUME StoreOK, StoreStays
  PROVE  /\ StoreOK' /\ Highest' = Highest
         /\ Logged' = Logged /\ Recoverable' = Recoverable
BY DEF StoreOK, StoreStays, Highest, Logged, Recoverable

LEMMA StaysOK ==
  ASSUME StoreOK, StoreStays, NEW c, NEW w
  PROVE  /\ MessageOK(w) => MessageOK(w)'
         /\ SessionOK(c) => SessionOK(c)'
         /\ Knows(c, w) => Knows(c, w)'
<1>1. accepted' = accepted /\ snap' = snap /\ frames' = frames
  BY DEF StoreStays
<1> QED
  BY <1>1, LogStays DEF MessageOK, SessionOK, Knows, Truthful

LEMMA QuietKeeps ==
  ASSUME ExchangeInv, StoreStays, NEW s \in Session, OthersStay(s),
         NEW c, NEW w, client'[s] = c, wire'[s] = w,
         MessageOK(w), SessionOK(c), Fits(c, w.kind),
         ~overlapped' =>
           /\ ~overlapped /\ (Logged \subseteq Recoverable => Knows(c, w))
           /\ Using(c, w) =>
                \/ Using(client[s], wire[s])
                \/ \A t \in Session : ~Using(client[t], wire[t])
  PROVE  ExchangeInv'
<1>1. StoreOK' /\ Highest' = Highest /\ Logged' = Logged
        /\ Recoverable' = Recoverable
  BY LogStays DEF ExchangeInv
<1>2. ASSUME NEW t \in Session, t # s
      PROVE  client'[t] = client[t] /\ wire'[t] = wire[t]
  BY <1>2 DEF OthersStay
<1>3. ASSUME NEW t \in Session
      PROVE  (/\ MessageOK(wire[t]) /\ SessionOK(client[t])
              /\ Fits(client[t], wire[t].kind))'
  <2>1. CASE t = s
    BY <2>1, StaysOK DEF ExchangeInv, Fits
  <2>2. CASE t # s
    BY <1>2, <2>2, StaysOK DEF ExchangeInv, Fits
  <2> QED
    BY <2>1, <2>2
<1>4. ASSUME ~overlapped' PROVE ~overlapped /\ AloneOK
  BY <1>4 DEF ExchangeInv
<1>5. ASSUME ~overlapped', NEW t \in Session PROVE Knows(client[t], wire[t])'
  <2>1. CASE t = s
    BY <1>4, <1>5, <2>1, StaysOK DEF ExchangeInv, AloneOK
  <2>2. CASE t # s
    BY <1>2, <1>4, <1>5, <2>2, StaysOK DEF ExchangeInv, AloneOK
  <2> QED
    BY <2>1, <2>2
<1>6. ASSUME ~overlapped', NEW t \in Session, NEW u \in Session,
             Using(client[t], wire[t])', Using(client[u], wire[u])'
      PROVE  t = u
  <2>1. CASE t = s /\ u # s
    BY <1>2, <1>4, <1>6, <2>1 DEF AloneOK, Using
  <2>2. CASE t # s /\ u = s
    BY <1>2, <1>4, <1>6, <2>2 DEF AloneOK, Using
  <2>3. CASE t # s /\ u # s
    BY <1>2, <1>4, <1>6, <2>3 DEF AloneOK, Using
  <2> QED
    BY <2>1, <2>2, <2>3
<1>7. AloneOK'
  BY <1>1, <1>4, <1>5, <1>6 DEF AloneOK
<1> QED
  BY <1>1, <1>3, <1>7 DEF ExchangeInv

LEMMA RepliesKeep ==
  ASSUME ExchangeInv, NEW s \in Session, OthersStay(s), overlapped' = overlapped,
         NEW w, Replies(s, w)
  PROVE  ExchangeInv'
<1>1. /\ MessageOK(wire[s]) /\ SessionOK(client[s])
      /\ Fits(client[s], wire[s].kind) /\ StoreOK
      /\ ~overlapped => Knows(client[s], wire[s])
  BY DEF ExchangeInv, AloneOK
<1>2. client'[s] = client[s] /\ wire'[s] = w /\ StoreStays
  BY DEF Replies, Looks
<1>3. SUFFICES /\ MessageOK(w) /\ Fits(client[s], w.kind)
               /\ Using(client[s], w) => Using(client[s], wire[s])
               /\ Knows(client[s], wire[s]) => Knows(client[s], w)
  BY <1>1, <1>2, QuietKeeps DEF AloneOK
<1>4. CASE wire[s].kind # "idle" /\ w.kind \in {"failure", "notFound"}
  BY <1>1, <1>4 DEF MessageOK, Fits, Using, Knows
<1>5. CASE wire[s].kind = "snapshot" /\ w.kind = "conflict"
  BY <1>1, <1>5 DEF MessageOK, Fits, Using, Knows
<1>6. CASE wire[s].kind = "appended" /\ w.kind = "ok" /\ w.seq = wire[s].seq
  BY <1>1, <1>6 DEF MessageOK, Fits, Using, Knows
<1>7. CASE /\ wire[s].kind = "load" /\ w.kind = "log"
           /\ w.log = LoadAnswer(snap, frames, 0)
  <2>1. /\ Contents(w.log) = Recoverable /\ w.log.head = Highest
        /\ Recoverable \subseteq Item /\ Highest \in Nat
    BY <1>1, <1>7, LoadIsAll, ItemsLogged DEF StoreOK
  <2> QED
    BY <1>1, <1>7, <2>1 DEF MessageOK, Fits, Using, Knows
<1> QED
  BY <1>4, <1>5, <1>6, <1>7 DEF Replies

LEMMA OpensKeep ==
  ASSUME ExchangeInv, NEW s \in Session, OthersStay(s), StoreStays, Opens(s)
  PROVE  ExchangeInv'
<1>1. /\ SessionOK(client[s]) /\ Fits(client[s], wire[s].kind)
      /\ ~overlapped => Knows(client[s], wire[s])
  BY DEF ExchangeInv, AloneOK
<1> PICK c, w : client'[s] = c /\ wire'[s] = w
  OBVIOUS
<1>2. /\ c.phase = "hydrating" /\ c.awaiting = "load" /\ w.kind = "load"
      /\ c.doc = client[s].doc /\ c.covered = client[s].covered
      /\ client[s].phase = "unopened"
  BY DEF Opens, Turns
<1>3. MessageOK(w) /\ SessionOK(c) /\ Fits(c, w.kind)
  BY <1>1, <1>2 DEF MessageOK, SessionOK, Fits
<1>4. ASSUME ~overlapped'
      PROVE  ~overlapped /\ \A t \in Session : ~Using(client[t], wire[t])
  BY <1>4 DEF Opens
<1>5. Knows(client[s], wire[s]) => Knows(c, w)
  BY <1>2 DEF Knows, Truthful, Writes
<1> QED
  BY <1>1, <1>3, <1>4, <1>5, QuietKeeps

(* What a session does in the course of an exchange.                       *)
LEMMA TurnKeeps ==
  ASSUME ExchangeInv, NEW s \in Session, OthersStay(s), StoreStays,
         overlapped' = overlapped,
         NEW c, NEW w, client'[s] = c, wire'[s] = w,
         MessageOK(w), SessionOK(c), Fits(c, w.kind),
         Using(c, w) => Using(client[s], wire[s]),
         Logged \subseteq Recoverable /\ Knows(client[s], wire[s]) => Knows(c, w)
  PROVE  ExchangeInv'
BY QuietKeeps DEF ExchangeInv, AloneOK

LEMMA HydratesKeep ==
  ASSUME ExchangeInv, NEW s \in Session, OthersStay(s), StoreStays,
         overlapped' = overlapped, Hydrates(s)
  PROVE  ExchangeInv'
<1>1. /\ SessionOK(client[s]) /\ MessageOK(wire[s]) /\ StoreOK
      /\ Fits(client[s], wire[s].kind)
  BY DEF ExchangeInv
<1> PICK c, w : client'[s] = c /\ wire'[s] = w
  OBVIOUS
<1> PICK old, log : old = client[s] /\ log = wire[s].log
  OBVIOUS
<1>2. /\ old.phase # "gone" /\ old.awaiting = "load" /\ wire[s].kind = "log"
      /\ c.phase = IF old.phase = "hydrating" THEN "live" ELSE old.phase
      /\ c.awaiting = "none" /\ c.doc = old.doc \union Contents(log)
      /\ c.covered = log.head /\ w.kind = "idle"
  BY DEF Hydrates, Turns
<1>3. MessageOK(w) /\ SessionOK(c)
  BY <1>1, <1>2 DEF MessageOK, SessionOK
<1>4. Fits(c, w.kind)
  BY <1>1, <1>2 DEF Fits
<1>5. Using(c, w) => Using(client[s], wire[s])
  BY <1>2 DEF Using
<1>6. ASSUME Logged \subseteq Recoverable, Knows(client[s], wire[s])
      PROVE  Knows(c, w)
  <2>1. Logged \subseteq c.doc
    BY <1>2, <1>6 DEF Knows
  <2> QED
    BY <1>2, <2>1 DEF Knows, Truthful, Logged
<1> QED
  BY <1>3, <1>4, <1>5, <1>6, TurnKeeps

LEMMA EndsKeep ==
  ASSUME ExchangeInv, NEW s \in Session, OthersStay(s), StoreStays,
         overlapped' = overlapped, Ends(s)
  PROVE  ExchangeInv'
<1>1. /\ SessionOK(client[s]) /\ MessageOK(wire[s]) /\ StoreOK
      /\ Fits(client[s], wire[s].kind)
  BY DEF ExchangeInv
<1> PICK c, w : client'[s] = c /\ wire'[s] = w
  OBVIOUS
<1> PICK old : old = client[s]
  OBVIOUS
<1>2. /\ old.phase # "gone" /\ old.awaiting # "none"
      /\ c.phase = IF old.phase = "hydrating" THEN "off" ELSE old.phase
      /\ c.awaiting = "none" /\ c.doc = old.doc /\ w.kind = "idle"
      /\ \/ c.covered = old.covered
         \/ /\ old.awaiting = "snapshot" /\ wire[s].kind = "ok"
            /\ c.covered = wire[s].seq
  BY DEF Ends, Turns
<1>3. MessageOK(w) /\ SessionOK(c)
  BY <1>1, <1>2 DEF MessageOK, SessionOK
<1>4. Fits(c, w.kind)
  BY <1>1, <1>2 DEF Fits
<1>5. Using(c, w) => Using(client[s], wire[s])
  BY <1>2 DEF Using
<1>6. ASSUME Knows(client[s], wire[s]) PROVE Knows(c, w)
  <2>1. Truthful(c)
    BY <1>2, <1>6 DEF Knows, Truthful, Writes, Logged
  <2>2. Writes(c) => Writes(old)
    BY <1>2 DEF Writes
  <2> QED
    BY <1>2, <1>6, <2>1, <2>2 DEF Knows
<1> QED
  BY <1>3, <1>4, <1>5, <1>6, TurnKeeps

LEMMA MergesKeep ==
  ASSUME ExchangeInv, NEW s \in Session, OthersStay(s), StoreStays,
         overlapped' = overlapped, Merges(s)
  PROVE  ExchangeInv'
<1>1. /\ SessionOK(client[s]) /\ MessageOK(wire[s])
      /\ Fits(client[s], wire[s].kind)
  BY DEF ExchangeInv
<1> PICK c, w : client'[s] = c /\ wire'[s] = w
  OBVIOUS
<1>2. /\ w = wire[s] /\ c.phase = client[s].phase
      /\ c.awaiting = client[s].awaiting /\ c.covered = client[s].covered
      /\ client[s].doc \subseteq c.doc
      /\ SessionOK(client[s]) => c.doc \in SUBSET Item
  BY DEF Merges, Turns, SessionOK
<1>3. MessageOK(w) /\ SessionOK(c)
  BY <1>1, <1>2 DEF SessionOK
<1>4. Fits(c, w.kind)
  BY <1>1, <1>2 DEF Fits
<1>5. Using(c, w) => Using(client[s], wire[s])
  BY <1>2 DEF Using
<1>6. ASSUME Knows(client[s], wire[s]) PROVE Knows(c, w)
  BY <1>2, <1>6 DEF Knows, Truthful, Writes
<1> QED
  BY <1>3, <1>4, <1>5, <1>6, TurnKeeps

LEMMA UnmountsKeep ==
  ASSUME ExchangeInv, NEW s \in Session, OthersStay(s), StoreStays,
         overlapped' = overlapped, Unmounts(s)
  PROVE  ExchangeInv'
<1>1. /\ SessionOK(client[s]) /\ MessageOK(wire[s])
      /\ Fits(client[s], wire[s].kind)
  BY DEF ExchangeInv
<1> PICK c, w : client'[s] = c /\ wire'[s] = w
  OBVIOUS
<1>2. /\ w = wire[s] /\ c.phase = "stopped" /\ client[s].phase # "gone"
      /\ c.awaiting = client[s].awaiting /\ c.covered = client[s].covered
      /\ client[s].doc = c.doc
  BY DEF Unmounts, Turns
<1>3. MessageOK(w) /\ SessionOK(c)
  BY <1>1, <1>2 DEF SessionOK
<1>4. Fits(c, w.kind)
  BY <1>1, <1>2 DEF Fits
<1>5. Using(c, w) => Using(client[s], wire[s])
  BY <1>2 DEF Using
<1>6. ASSUME Knows(client[s], wire[s]) PROVE Knows(c, w)
  BY <1>2, <1>6 DEF Knows, Truthful, Writes
<1> QED
  BY <1>3, <1>4, <1>5, <1>6, TurnKeeps

LEMMA SendsKeep ==
  ASSUME ExchangeInv, NEW s \in Session, OthersStay(s), StoreStays,
         overlapped' = overlapped, Sends(s)
  PROVE  ExchangeInv'
<1>1. SessionOK(client[s])
  BY DEF ExchangeInv
<1> PICK c, w : client'[s] = c /\ wire'[s] = w
  OBVIOUS
<1>2. /\ w.kind = "update" /\ w.items \subseteq c.doc
      /\ client[s].phase = "live" /\ c.phase \in {"live", "stopped"}
      /\ c.awaiting = "update" /\ c.covered = client[s].covered
      /\ client[s].doc = c.doc
  BY DEF Sends, Turns
<1>3. MessageOK(w) /\ SessionOK(c) /\ Fits(c, w.kind)
  BY <1>1, <1>2 DEF SessionOK, MessageOK, Fits
<1>5. Using(c, w) => Using(client[s], wire[s])
  BY <1>2 DEF Using
<1>6. ASSUME Knows(client[s], wire[s]) PROVE Knows(c, w)
  BY <1>2, <1>6 DEF Knows, Truthful, Writes
<1> QED
  BY <1>3, <1>5, <1>6, TurnKeeps

LEMMA GoesKeep ==
  ASSUME ExchangeInv, NEW s \in Session, OthersStay(s), StoreStays,
         overlapped' = overlapped, Goes(s)
  PROVE  ExchangeInv'
<1>1. SessionOK(client[s]) /\ MessageOK(wire[s]) /\ Fits(client[s], wire[s].kind)
  BY DEF ExchangeInv
<1> PICK c, w, old : client'[s] = c /\ wire'[s] = w /\ client[s] = old
  OBVIOUS
<1>2. /\ old.phase # "gone" /\ old.awaiting = "update" /\ wire[s].kind = "ok"
      /\ c.phase = old.phase /\ c.covered = wire[s].seq /\ c.doc = old.doc
      /\ \/ c.awaiting = "none" /\ w.kind = "idle"
         \/ /\ c.awaiting = "snapshot" /\ w.kind = "snapshot"
            /\ w.items = c.doc /\ w.floor = wire[s].seq
  BY DEF Goes, Turns
<1>3. MessageOK(w) /\ SessionOK(c)
  BY <1>1, <1>2 DEF SessionOK, MessageOK
<1>4. Fits(c, w.kind)
  BY <1>1, <1>2 DEF Fits
<1>5. Using(c, w) => Using(client[s], wire[s])
  BY <1>2 DEF Using
<1>6. ASSUME Knows(client[s], wire[s]) PROVE Knows(c, w)
  <2>1. Logged \subseteq c.doc
    BY <1>2, <1>6 DEF Knows, Writes
  <2>2. Truthful(c)
    BY <2>1 DEF Truthful, Logged
  <2> QED
    BY <1>2, <2>1, <2>2 DEF Knows
<1> QED
  BY <1>3, <1>4, <1>5, <1>6, TurnKeeps

LEMMA DiesKeep ==
  ASSUME ExchangeInv, NEW s \in Session, OthersStay(s), StoreStays,
         overlapped' = overlapped, Dies(s)
  PROVE  ExchangeInv'
<1>1. MessageOK(wire[s]) /\ StoreOK
  BY DEF ExchangeInv
<1> PICK c, w : client'[s] = c /\ wire'[s] = w
  OBVIOUS
<1>2. /\ w = wire[s] /\ c.phase = "gone" /\ c.awaiting = "none"
      /\ c.doc = {} /\ c.covered = 0
  BY DEF Dies, Turns
<1>3. MessageOK(w) /\ SessionOK(c) /\ Fits(c, w.kind)
  BY <1>1, <1>2 DEF SessionOK, Fits, StoreOK
<1>5. Using(c, w) => Using(client[s], wire[s])
  BY <1>2 DEF Using
<1>6. ASSUME Knows(client[s], wire[s]) PROVE Knows(c, w)
  <2>1. Truthful(c)
    BY <1>1, <1>2 DEF Truthful, StoreOK, Frame
  <2> QED
    BY <1>2, <1>6, <2>1 DEF Knows, Writes
<1> QED
  BY <1>3, <1>5, <1>6, TurnKeeps

-----------------------------------------------------------------------------
(* Steps that change the log.                                              *)
LEMMA AppendedIs ==
  ASSUME StoreOK, NEW s \in Session, Appends(s), MessageOK(wire[s])
  PROVE  /\ StoreOK' /\ Highest' = Highest + 1
         /\ Logged' = Logged \union wire[s].items
         /\ Recoverable' = Recoverable \union wire[s].items
<1> PICK frame : frame = UpdateFrame(Highest + 1, wire[s].items)
  OBVIOUS
<1>1. /\ frames' = frames \union {frame} /\ accepted' = accepted \union {frame}
      /\ snap' = snap /\ wire[s].kind = "update"
  BY DEF Appends
<1>2. /\ frame \in Frame /\ frame.seq = Highest + 1
      /\ frame.data = wire[s].items
  BY <1>1 DEF UpdateFrame, Frame, StoreOK, MessageOK
<1>3. Highest' = Highest + 1
  <2>1. /\ snap' = snap /\ snap.seq \in Nat /\ snap.seq <= Highest + 1
        /\ Highest + 1 \in Nat
        /\ \A f \in frames' : f.seq \in Nat /\ f.seq <= Highest + 1
        /\ \E f \in frames' : f.seq = Highest + 1
    BY <1>1, <1>2 DEF StoreOK, Frame
  <2>2. HeadSeq(snap', frames') = Highest + 1
    BY <2>1, HeadIs
  <2> QED
    BY <2>2 DEF Highest
<1>4. Logged' = Logged \union wire[s].items
  BY <1>1, <1>2 DEF Logged
<1>5. Above(frames', snap'.floor) = Above(frames, snap.floor) \union {frame}
  BY <1>1, <1>2 DEF Above, StoreOK
<1>6. Recoverable' = Recoverable \union wire[s].items
  <2> PICK old : old = Above(frames, snap.floor)
    OBVIOUS
  <2>1. /\ Recoverable = snap.data \union UNION {f.data : f \in old}
        /\ Recoverable' = snap.data \union UNION {f.data : f \in old \union {frame}}
    BY <1>1, <1>5 DEF Recoverable
  <2> QED
    BY <1>2, <2>1
<1>7. StoreOK'
  BY <1>1, <1>2, <1>3 DEF StoreOK, Frame
<1> QED
  BY <1>3, <1>4, <1>6, <1>7

LEMMA CompactedIs ==
  ASSUME StoreOK, NEW s \in Session, Compacts(s), MessageOK(wire[s])
  PROVE  /\ StoreOK' /\ Highest' = Highest + 1 /\ Logged' = Logged
         /\ wire[s].items \subseteq Recoverable'
         /\ Logged \subseteq wire[s].items => Recoverable' = wire[s].items
<1> PICK floor : floor = wire[s].floor
  OBVIOUS
<1>1. floor \in Nat \ {0} /\ floor <= Highest /\ Highest \in Nat
  BY DEF Compacts, MessageOK, StoreOK
<1>2. /\ snap' = Snapshot(Highest + 1, floor, wire[s].items)
      /\ frames' = Above(frames, floor) /\ accepted' = accepted
      /\ wire[s].items \in SUBSET Item
  BY <1>1, ClampBounds DEF Compacts, MessageOK
<1>3. /\ snap'.seq = Highest + 1 /\ snap'.floor = floor
      /\ snap'.data = wire[s].items
      /\ snap' \in [seq : Nat, floor : Nat, data : SUBSET Item]
  BY <1>1, <1>2 DEF Snapshot
<1>4. /\ frames' \subseteq frames /\ frames' \subseteq accepted
      /\ \A f \in frames' : f.data \subseteq Logged
  BY <1>2 DEF Above, StoreOK, Logged
<1>5. Highest' = Highest + 1
  <2>1. /\ Highest + 1 \in Nat /\ snap'.seq <= Highest + 1
        /\ \A f \in frames' : f.seq \in Nat /\ f.seq <= Highest + 1
    BY <1>1, <1>3, <1>4 DEF StoreOK, Frame
  <2>2. HeadSeq(snap', frames') = Highest + 1
    BY <1>1, <1>3, <2>1, HeadIs
  <2> QED
    BY <2>2 DEF Highest
<1>6. Logged' = Logged
  BY <1>2 DEF Logged
<1>7. StoreOK'
  BY <1>1, <1>2, <1>3, <1>4, <1>5 DEF StoreOK, Frame
<1>8. Recoverable' = wire[s].items
                       \union UNION {f.data : f \in Above(frames', floor)}
  BY <1>3 DEF Recoverable
<1>9. UNION {f.data : f \in Above(frames', floor)} \subseteq Logged
  BY <1>4 DEF Above
<1> QED
  BY <1>5, <1>6, <1>7, <1>8, <1>9

(* As the log grows, what is in order stays so.                            *)
LEMMA GrowsOK ==
  ASSUME Highest \in Nat, Highest' = Highest + 1, NEW c, NEW w
  PROVE  /\ MessageOK(w) => MessageOK(w)'
         /\ SessionOK(c) => SessionOK(c)'
BY DEF MessageOK, SessionOK

(* A session that keeps out of the log while another writes to it.         *)
LEMMA IdleKnows ==
  ASSUME StoreOK, NEW c, NEW w, ~Using(c, w), Truthful(c), SessionOK(c),
         \A f \in accepted' : f \in accepted \/ f.seq = Highest + 1
  PROVE  Knows(c, w)'
<1>1. Truthful(c)'
  BY DEF Truthful, SessionOK, StoreOK
<1> QED
  BY <1>1 DEF Knows, Using, Writes

LEMMA AppendsKeep ==
  ASSUME ExchangeInv, NEW s \in Session, OthersStay(s),
         overlapped' = overlapped, Appends(s)
  PROVE  ExchangeInv'
<1>1. /\ StoreOK /\ MessageOK(wire[s]) /\ SessionOK(client[s])
      /\ Fits(client[s], wire[s].kind)
  BY DEF ExchangeInv
<1>2. /\ StoreOK' /\ Highest' = Highest + 1
      /\ Logged' = Logged \union wire[s].items
      /\ Recoverable' = Recoverable \union wire[s].items
  BY <1>1, AppendedIs
<1> PICK c, w : c = client[s] /\ w = wire'[s]
  OBVIOUS
<1>3. /\ wire[s].kind = "update" /\ client'[s] = c
      /\ w.kind = "appended" /\ w.seq = Highest + 1
  BY DEF Appends
<1>4. \A f \in accepted' :
        f \in accepted \/ (f.seq = Highest + 1 /\ f.data = wire[s].items)
  <2> PICK frame : frame = UpdateFrame(Highest + 1, wire[s].items)
    OBVIOUS
  <2>1. frame.seq = Highest + 1 /\ frame.data = wire[s].items
    BY DEF UpdateFrame
  <2>2. accepted' = accepted \union {frame}
    BY DEF Appends
  <2> QED
    BY <2>1, <2>2
<1>5. Highest \in Nat
  BY <1>1 DEF StoreOK
<1>6. MessageOK(w)' /\ SessionOK(c)' /\ Fits(c, w.kind)
  BY <1>1, <1>2, <1>3, <1>5, GrowsOK DEF MessageOK, Fits
<1>7. ASSUME NEW t \in Session
      PROVE  (/\ MessageOK(wire[t]) /\ SessionOK(client[t])
              /\ Fits(client[t], wire[t].kind))'
  <2>1. CASE t = s
    BY <1>3, <1>6, <2>1 DEF Fits
  <2>2. CASE t # s
    BY <1>2, <1>5, <2>2, GrowsOK DEF OthersStay, ExchangeInv, Fits
  <2> QED
    BY <2>1, <2>2
<1>8. ASSUME ~overlapped PROVE AloneOK'
  <2>1. /\ Logged \subseteq Recoverable
        /\ \A t \in Session : Knows(client[t], wire[t])
        /\ Using(c, wire[s])
        /\ \A t \in Session : Using(client[t], wire[t]) => t = s
    BY <1>3, <1>8 DEF ExchangeInv, AloneOK, Using
  <2>2. Knows(c, w)'
    <3>1. Truthful(c)'
      BY <1>1, <1>4, <1>5, <2>1 DEF Knows, Truthful, SessionOK
    <3>2. Writes(c) => Logged' \subseteq c.doc
      BY <1>1, <1>2, <1>3, <2>1 DEF Knows, Writes, Fits
    <3> QED
      BY <1>3, <3>1, <3>2 DEF Knows, Writes
  <2>3. ASSUME NEW t \in Session, t # s
        PROVE  ~Using(client[t], wire[t])' /\ Knows(client[t], wire[t])'
    <3>1. client'[t] = client[t] /\ wire'[t] = wire[t]
      BY <2>3 DEF OthersStay
    <3>2. ~Using(client[t], wire[t]) /\ Truthful(client[t]) /\ SessionOK(client[t])
      BY <2>1, <2>3 DEF Knows, ExchangeInv
    <3>3. Knows(client[t], wire[t])'
      BY <1>1, <1>4, <3>1, <3>2, IdleKnows
    <3> QED
      BY <3>1, <3>2, <3>3 DEF Using
  <2>4. Logged' \subseteq Recoverable'
    BY <1>2, <2>1
  <2>5. \A t \in Session : Knows(client[t], wire[t])'
    BY <1>3, <2>2, <2>3 DEF Knows, Truthful, Writes
  <2> QED
    BY <2>3, <2>4, <2>5 DEF AloneOK
<1>9. AloneOK'
  BY <1>8 DEF AloneOK
<1> QED
  BY <1>2, <1>7, <1>9 DEF ExchangeInv

LEMMA CompactsKeep ==
  ASSUME ExchangeInv, NEW s \in Session, OthersStay(s),
         overlapped' = overlapped, Compacts(s)
  PROVE  ExchangeInv'
<1>1. /\ StoreOK /\ MessageOK(wire[s]) /\ SessionOK(client[s])
      /\ Fits(client[s], wire[s].kind)
  BY DEF ExchangeInv
<1>2. /\ StoreOK' /\ Highest' = Highest + 1 /\ Logged' = Logged
      /\ Logged \subseteq wire[s].items => Recoverable' = wire[s].items
  BY <1>1, CompactedIs
<1> PICK c, w : c = client[s] /\ w = wire'[s]
  OBVIOUS
<1>3. /\ wire[s].kind = "snapshot" /\ client'[s] = c
      /\ w.kind = "ok" /\ w.seq = Highest + 1 /\ accepted' = accepted
  BY DEF Compacts
<1>5. Highest \in Nat
  BY <1>1 DEF StoreOK
<1>6. MessageOK(w)' /\ SessionOK(c)' /\ Fits(c, w.kind)
  BY <1>1, <1>2, <1>3, <1>5, GrowsOK DEF MessageOK, Fits
<1>7. ASSUME NEW t \in Session
      PROVE  (/\ MessageOK(wire[t]) /\ SessionOK(client[t])
              /\ Fits(client[t], wire[t].kind))'
  <2>1. CASE t = s
    BY <1>3, <1>6, <2>1 DEF Fits
  <2>2. CASE t # s
    BY <1>2, <1>5, <2>2, GrowsOK DEF OthersStay, ExchangeInv, Fits
  <2> QED
    BY <2>1, <2>2
<1>8. ASSUME ~overlapped PROVE AloneOK'
  <2>1. /\ Logged \subseteq wire[s].items
        /\ \A t \in Session : Knows(client[t], wire[t])
        /\ Using(c, wire[s])
        /\ \A t \in Session : Using(client[t], wire[t]) => t = s
    BY <1>3, <1>8 DEF ExchangeInv, AloneOK, Using, Knows
  <2>2. Knows(c, w)'
    BY <1>2, <1>3, <2>1 DEF Knows, Truthful, Writes
  <2>3. ASSUME NEW t \in Session, t # s
        PROVE  ~Using(client[t], wire[t])' /\ Knows(client[t], wire[t])'
    <3>1. client'[t] = client[t] /\ wire'[t] = wire[t]
      BY <2>3 DEF OthersStay
    <3>2. ~Using(client[t], wire[t]) /\ Truthful(client[t]) /\ SessionOK(client[t])
      BY <2>1, <2>3 DEF Knows, ExchangeInv
    <3>3. Knows(client[t], wire[t])'
      BY <1>1, <1>3, <3>1, <3>2, IdleKnows
    <3> QED
      BY <3>1, <3>2, <3>3 DEF Using
  <2>5. \A t \in Session : Knows(client[t], wire[t])'
    BY <1>3, <2>2, <2>3 DEF Knows, Truthful, Writes
  <2> QED
    BY <1>2, <2>1, <2>3, <2>5 DEF AloneOK
<1>9. AloneOK'
  BY <1>8 DEF AloneOK
<1> QED
  BY <1>2, <1>7, <1>9 DEF ExchangeInv

LEMMA ExchangeKeeps ==
  ASSUME ExchangeInv, Exchanges
  PROVE  ExchangeInv'
<1>1. CASE UNCHANGED <<snap, frames, accepted, wire, client, overlapped>>
  <2>1. StoreStays
    BY <1>1 DEF StoreStays
  <2>2. /\ StoreOK' /\ Logged' = Logged /\ Recoverable' = Recoverable
    BY <2>1, LogStays DEF ExchangeInv
  <2>3. wire' = wire /\ client' = client /\ overlapped' = overlapped
    BY <1>1
  <2>4. ASSUME NEW t \in Session
        PROVE  (/\ MessageOK(wire[t]) /\ SessionOK(client[t])
                /\ Fits(client[t], wire[t].kind))'
    BY <2>1, <2>3, StaysOK DEF ExchangeInv, Fits
  <2>5. AloneOK'
    <3>1. ASSUME ~overlapped, NEW t \in Session PROVE Knows(client[t], wire[t])'
      BY <2>1, <2>3, <3>1, StaysOK DEF ExchangeInv, AloneOK
    <3> QED
      BY <2>2, <2>3, <3>1 DEF ExchangeInv, AloneOK, Using
  <2> QED
    BY <2>2, <2>4, <2>5 DEF ExchangeInv
<1>2. ASSUME NEW s \in Session, OthersStay(s), overlapped' = overlapped,
             Serves(s)
      PROVE  ExchangeInv'
  BY <1>2, RepliesKeep, AppendsKeep, CompactsKeep DEF Serves
<1>3. ASSUME NEW s \in Session, OthersStay(s), StoreStays, Acts(s)
      PROVE  ExchangeInv'
  BY <1>3, OpensKeep, HydratesKeep, EndsKeep, MergesKeep, UnmountsKeep,
     SendsKeep, GoesKeep, DiesKeep DEF Acts
<1> QED
  BY <1>1, <1>2, <1>3 DEF Exchanges

-----------------------------------------------------------------------------
(* OpLogSync.  The log's rules are those above, under the client's name.   *)
LEMMA OpsRules ==
  /\ Ops!HeadSeq(snap, frames) = Highest
  /\ \A floor : Ops!ClampFloor(floor, Highest) = ClampFloor(floor, Highest)
  /\ \A low : Ops!Above(frames, low) = Above(frames, low)
  /\ Ops!LoadAnswer(snap, frames, 0) = LoadAnswer(snap, frames, 0)
  /\ Ops!Logged = Logged /\ Ops!Recoverable = Recoverable
  /\ Ops!Op = Item /\ Ops!NoSnapshot = NoSnapshot
  /\ \A seq, data : Ops!UpdateFrame(seq, data) = UpdateFrame(seq, data)
  /\ \A seq, floor, data :
       Ops!Snapshot(seq, floor, data) = Snapshot(seq, floor, data)
<1>1. Ops!HeadSeq(snap, frames) = Highest
  BY DEF Ops!HeadSeq, HeadSeq, Highest, Ops!Max, Max
<1>2. \A low : Ops!Above(frames, low) = Above(frames, low)
  BY DEF Ops!Above, Above
<1>3. Ops!NoSnapshot = NoSnapshot
  BY DEF Ops!NoSnapshot, NoSnapshot
<1>4. Ops!LoadAnswer(snap, frames, 0) = LoadAnswer(snap, frames, 0)
  BY <1>1, <1>2, <1>3 DEF Ops!LoadAnswer, LoadAnswer, Highest
<1>5. Ops!Recoverable = Recoverable
  BY <1>2 DEF Ops!Recoverable, Recoverable
<1> QED
  BY <1>1, <1>2, <1>3, <1>4, <1>5
  DEF Ops!ClampFloor, ClampFloor, Ops!Logged, Logged, Ops!Op, Item,
      Ops!UpdateFrame, UpdateFrame, Ops!Snapshot, Snapshot

(* One exchange changes.                                                   *)
Wired == wire = [t \in Session |-> wire[t]]
LEMMA OneWire ==
  ASSUME Wired, NEW s \in Session, NEW w, wire' = [wire EXCEPT ![s] = w]
  PROVE  /\ Wired' /\ wire'[s] = w
         /\ \A t \in Session \ {s} : wire'[t] = wire[t]
BY DEF Wired

(* What the service did in a step.                                         *)
Served ==
  \/ UNCHANGED <<snap, frames, accepted, wire>>
  \/ \E s \in Session : OthersStay(s) /\ Serves(s)

LEMMA OpsServes ==
  ASSUME Wired, Ops!Service, client' = client
  PROVE  Wired' /\ Served
<1>1. CASE Ops!SwitchOff
  BY <1>1 DEF Ops!SwitchOff, Served, Wired
<1>2. SUFFICES ASSUME NEW s \in Session,
                      Ops!Serve(s) \/ Ops!Lose(s) \/ Ops!PendingFails(s)
               PROVE  Wired' /\ OthersStay(s) /\ Serves(s)
  BY <1>1 DEF Ops!Service, Served
<1>3. ASSUME NEW w, Ops!Answer(s, w)
      PROVE  /\ Wired' /\ OthersStay(s) /\ wire'[s] = w
             /\ client'[s] = client[s]
  BY <1>3, OneWire DEF Ops!Answer, OthersStay
<1>4. ASSUME NEW w, Ops!Answer(s, w), StoreStays, Replies(s, w)
      PROVE  Wired' /\ OthersStay(s) /\ Serves(s)
  BY <1>3, <1>4 DEF Serves
<1>5. CASE Ops!ServeLoad(s)
  <2> PICK w : w = Ops!LogReply(Ops!LoadAnswer(snap, frames, 0))
    OBVIOUS
  <2>1. /\ Ops!Answer(s, w) /\ StoreStays /\ wire[s].kind = "load"
        /\ w.kind = "log" /\ w.log = LoadAnswer(snap, frames, 0)
    BY <1>5, OpsRules DEF Ops!ServeLoad, Ops!LogReply, StoreStays
  <2> QED
    BY <1>3, <1>4, <2>1 DEF Replies, Looks
<1>6. CASE Ops!ServeUpdate(s)
  <2> PICK w : w = Ops!Appended(Highest + 1)
    OBVIOUS
  <2>1. w.kind = "appended" /\ w.seq = Highest + 1
    BY DEF Ops!Appended
  <2>2. /\ Ops!Answer(s, w) /\ snap' = snap /\ wire[s].kind = "update"
        /\ frames' = frames \union {UpdateFrame(Highest + 1, wire[s].items)}
        /\ accepted' = accepted \union {UpdateFrame(Highest + 1, wire[s].items)}
    BY <1>6, OpsRules DEF Ops!ServeUpdate
  <2> QED
    BY <1>3, <2>1, <2>2 DEF Appends, Serves
<1>7. CASE Ops!RefuseOversize(s) \/ Ops!ServeNotFound(s) \/ Ops!Lose(s)
  <2>1. PICK w \in {Ops!Failure, Ops!NotFound} : Ops!Answer(s, w)
    BY <1>7 DEF Ops!RefuseOversize, Ops!ServeNotFound, Ops!Lose
  <2>2. /\ StoreStays /\ wire[s].kind # "idle"
        /\ w.kind \in {"failure", "notFound"}
    BY <1>7 DEF Ops!RefuseOversize, Ops!ServeNotFound, Ops!Lose, Ops!Requests,
                Ops!Failure, Ops!NotFound, StoreStays
  <2> QED
    BY <1>3, <1>4, <2>1, <2>2 DEF Replies, Looks
<1>8. CASE Ops!Advise(s) \/ Ops!PendingFails(s)
  <2>1. PICK compact : Ops!Answer(s, Ops!OkReply(wire[s].seq, compact))
    BY <1>8 DEF Ops!Advise, Ops!PendingFails
  <2> PICK w : w = Ops!OkReply(wire[s].seq, compact)
    OBVIOUS
  <2>2. /\ StoreStays /\ wire[s].kind = "appended"
        /\ w.kind = "ok" /\ w.seq = wire[s].seq
    BY <1>8 DEF Ops!Advise, Ops!PendingFails, Ops!OkReply, StoreStays
  <2> QED
    BY <1>3, <1>4, <2>1, <2>2 DEF Replies, Looks
<1>9. CASE Ops!ServeSnapshot(s)
  <2> PICK floor : floor = ClampFloor(wire[s].floor, Highest)
    OBVIOUS
  <2>1. CASE Ops!Stale(snap, floor)
    <3> PICK w : w = Ops!Conflict
      OBVIOUS
    <3>1. /\ Ops!Answer(s, w) /\ StoreStays /\ wire[s].kind = "snapshot"
          /\ w.kind = "conflict"
      BY <1>9, <2>1, OpsRules DEF Ops!ServeSnapshot, Ops!Conflict, StoreStays
    <3> QED
      BY <1>3, <1>4, <3>1 DEF Replies, Looks
  <2>2. CASE ~Ops!Stale(snap, floor)
    <3> PICK w : w = Ops!OkReply(Highest + 1, FALSE)
      OBVIOUS
    <3>1. w.kind = "ok" /\ w.seq = Highest + 1
      BY DEF Ops!OkReply
    <3>2. /\ Ops!Answer(s, w) /\ wire[s].kind = "snapshot"
          /\ snap' = Snapshot(Highest + 1, floor, wire[s].items)
          /\ frames' = Above(frames, floor) /\ accepted' = accepted
      BY <1>9, <2>2, OpsRules DEF Ops!ServeSnapshot
    <3> QED
      BY <1>3, <3>1, <3>2 DEF Compacts, Serves
  <2> QED
    BY <2>1, <2>2
<1> QED
  BY <1>2, <1>5, <1>6, <1>7, <1>8, <1>9 DEF Ops!Serve

-----------------------------------------------------------------------------
(* What an OpLogSync has, and where an op is that it was given.            *)
OpsClient ==
  [ phase : {"unopened", "hydrating", "live", "off", "stopped", "gone"},
    awaiting : {"none", "load", "update", "snapshot"},
    doc : SUBSET Item, buffer : SUBSET Item, batch : SUBSET Item,
    timer : BOOLEAN, enabled : BOOLEAN, covered : Nat, appends : Nat ]

OpsHolds(s, c, w, logged, given) ==
  /\ c.timer => c.phase = "live"
  /\ c.buffer \subseteq c.doc /\ c.batch \subseteq c.doc
  /\ c.awaiting # "update" => c.batch = {}
  /\ c.awaiting = "update" /\ w.kind = "update" => w.items = c.batch
  /\ c.awaiting = "update" /\ w.kind \in {"appended", "ok"} =>
       c.batch \subseteq logged
  /\ c.phase # "gone" /\ c.enabled =>
       {op \in given : op[1] = s}
         \subseteq c.buffer \union c.batch \union logged

OpsTypes == Wired /\ client \in [Session -> OpsClient]
OpsInv ==
  /\ OpsTypes /\ ExchangeInv
  /\ \A s \in Session : OpsHolds(s, client[s], wire[s], Logged, submitted)

LEMMA OpsHoldsOn ==
  ASSUME NEW s, NEW c, NEW w, NEW logged, NEW given, NEW logged2, NEW given2,
         OpsHolds(s, c, w, logged, given), logged \subseteq logged2,
         \A op \in given2 : op \in given \/ op[1] # s
  PROVE  OpsHolds(s, c, w, logged2, given2)
BY DEF OpsHolds

(* An update's frame is logged.                                            *)
LEMMA LogGrows ==
  ASSUME NEW seq, NEW items,
         accepted' = accepted \union {UpdateFrame(seq, items)}
  PROVE  Logged' = Logged \union items
<1>1. UpdateFrame(seq, items).data = items
  BY DEF UpdateFrame
<1> QED
  BY <1>1 DEF Logged

(* The service's steps.                                                    *)
LEMMA OpsServedKeeps ==
  ASSUME OpsInv, Ops!Service, client' = client, submitted' = submitted,
         overlapped' = overlapped
  PROVE  OpsInv'
<1>1. Wired' /\ Served
  BY OpsServes DEF OpsInv, OpsTypes
<1>2. Exchanges
  BY <1>1 DEF Served, Exchanges
<1>3. ExchangeInv'
  BY <1>2, ExchangeKeeps DEF OpsInv
<1>4. ASSUME NEW s \in Session, OthersStay(s), Serves(s), NEW t \in Session
      PROVE  OpsHolds(t, client[t], wire'[t], Logged', submitted)
  <2>1. Logged \subseteq Logged'
    <3>1. CASE \E w : Replies(s, w)
      BY <3>1, LogStays DEF Replies, OpsInv, ExchangeInv
    <3>2. CASE Appends(s)
      BY <3>2, LogGrows DEF Appends
    <3>3. CASE Compacts(s)
      BY <3>3 DEF Compacts, Logged
    <3> QED
      BY <1>4, <3>1, <3>2, <3>3 DEF Serves
  <2>2. OpsHolds(t, client[t], wire[t], Logged', submitted)
    BY <2>1, OpsHoldsOn DEF OpsInv
  <2>3. CASE t # s
    BY <1>4, <2>2, <2>3 DEF OthersStay
  <2>4. CASE t = s
    <3> PICK c, w : c = client[s] /\ w = wire'[s]
      OBVIOUS
    <3>1. OpsHolds(s, c, wire[s], Logged', submitted) /\ Fits(c, wire[s].kind)
      BY <2>2, <2>4 DEF OpsInv, ExchangeInv
    <3>2. OpsHolds(s, c, wire[s], Logged, submitted)
      BY DEF OpsInv
    <3>3. /\ w.kind # "update"
          /\ w.kind \in {"appended", "ok"} =>
               \/ wire[s].kind \in {"snapshot", "appended"}
               \/ wire[s].kind = "update" /\ wire[s].items \subseteq Logged'
      <4>1. CASE \E v : Replies(s, v)
        BY <4>1 DEF Replies, Looks
      <4>2. CASE Appends(s)
        BY <4>2, LogGrows DEF Appends
      <4>3. CASE Compacts(s)
        BY <4>3 DEF Compacts
      <4> QED
        BY <1>4, <4>1, <4>2, <4>3 DEF Serves
    <3>4. c.awaiting = "update" /\ w.kind \in {"appended", "ok"} =>
            c.batch \subseteq Logged'
      <4> SUFFICES ASSUME c.awaiting = "update", w.kind \in {"appended", "ok"}
                   PROVE  c.batch \subseteq Logged'
        OBVIOUS
      <4>1. c.phase = "gone" => c.awaiting = "none"
        BY <3>1 DEF Fits
      <4>2. wire[s].kind # "snapshot"
        BY <3>1, <4>1 DEF Fits
      <4>3. CASE wire[s].kind = "appended"
        BY <3>1, <4>3 DEF OpsHolds
      <4>4. CASE wire[s].kind = "update" /\ wire[s].items \subseteq Logged'
        BY <3>2, <4>4 DEF OpsHolds
      <4> QED
        BY <3>3, <4>2, <4>3, <4>4
    <3>5. OpsHolds(s, c, w, Logged', submitted)
      BY <3>1, <3>3, <3>4 DEF OpsHolds
    <3> QED
      BY <2>4, <3>5
  <2> QED
    BY <2>3, <2>4
<1>5. ASSUME UNCHANGED <<snap, frames, accepted, wire>>, NEW t \in Session
      PROVE  OpsHolds(t, client[t], wire'[t], Logged', submitted)
  <2>1. Logged' = Logged
    BY <1>5 DEF Logged
  <2> QED
    BY <1>5, <2>1 DEF OpsInv
<1>6. ASSUME NEW t \in Session
      PROVE  OpsHolds(t, client[t], wire'[t], Logged', submitted)
  BY <1>1, <1>4, <1>5, <1>6 DEF Served
<1> QED
  BY <1>1, <1>3, <1>6 DEF OpsInv, OpsTypes

(* A session's step.                                                       *)
LEMMA OpsActKeeps ==
  ASSUME OpsInv, NEW s \in Session, NEW c \in OpsClient, Ops!Become(s, c),
         Wired', \A t \in Session \ {s} : wire'[t] = wire[t], StoreStays,
         \A op \in submitted' : op \in submitted \/ op[1] = s,
         OpsHolds(s, c, wire'[s], Logged, submitted'),
         client'[s] = c => Acts(s)
  PROVE  OpsInv'
<1>1. /\ client'[s] = c /\ client' \in [Session -> OpsClient]
      /\ \A t \in Session \ {s} : client'[t] = client[t]
  BY DEF OpsInv, OpsTypes, Ops!Become
<1>2. OthersStay(s)
  BY <1>1 DEF OthersStay
<1>3. ExchangeInv'
  <2>1. Exchanges
    BY <1>1, <1>2 DEF Exchanges
  <2> QED
    BY <2>1, ExchangeKeeps DEF OpsInv
<1>4. Logged' = Logged
  BY DEF Logged, StoreStays
<1>5. ASSUME NEW t \in Session
      PROVE  OpsHolds(t, client'[t], wire'[t], Logged', submitted')
  <2>1. CASE t = s
    BY <1>1, <1>4, <2>1
  <2>2. CASE t # s
    <3>1. client'[t] = client[t] /\ wire'[t] = wire[t]
      BY <1>1, <2>2
    <3>2. \A op \in submitted' : op \in submitted \/ op[1] # t
      BY <2>2
    <3>3. OpsHolds(t, client[t], wire[t], Logged, submitted)
      BY DEF OpsInv
    <3> QED
      BY <1>4, <3>1, <3>2, <3>3, OpsHoldsOn
  <2> QED
    BY <2>1, <2>2
<1> QED
  BY <1>1, <1>3, <1>5 DEF OpsInv, OpsTypes

LEMMA OpsHave ==
  ASSUME OpsInv, NEW s \in Session
  PROVE  /\ client[s] \in OpsClient /\ Wired
         /\ OpsHolds(s, client[s], wire[s], Logged, submitted)
         /\ Fits(client[s], wire[s].kind) /\ MessageOK(wire[s])
BY DEF OpsInv, OpsTypes, ExchangeInv

LEMMA OpsSends ==
  ASSUME Wired, NEW s \in Session, NEW w, Ops!Send(s, w)
  PROVE  /\ Wired' /\ wire'[s] = w /\ StoreStays
         /\ \A t \in Session \ {s} : wire'[t] = wire[t]
BY OneWire DEF Ops!Send, StoreStays

LEMMA OpsQuiet ==
  ASSUME Wired, Ops!Quiet PROVE Wired' /\ wire' = wire /\ StoreStays
BY DEF Ops!Quiet, Ops!serviceVars, StoreStays, Wired

LEMMA OpsOpenKeeps ==
  ASSUME OpsInv, NEW s \in Session, Ops!Open(s)
  PROVE  OpsInv'
<1> PICK old : old = client[s]
  OBVIOUS
<1> PICK c : c = [old EXCEPT !.phase = "hydrating", !.awaiting = "load"]
  OBVIOUS
<1>1. /\ old \in OpsClient /\ Wired
      /\ OpsHolds(s, old, wire[s], Logged, submitted)
      /\ Fits(old, wire[s].kind)
  BY OpsHave
<1>2. /\ old.phase = "unopened" /\ Ops!Become(s, c)
      /\ Ops!Send(s, Ops!LoadRequest) /\ submitted' = submitted
  BY DEF Ops!Open
<1>3. /\ Wired' /\ wire'[s] = Ops!LoadRequest /\ StoreStays
      /\ \A t \in Session \ {s} : wire'[t] = wire[t]
  BY <1>1, <1>2, OpsSends
<1>4. wire'[s].kind = "load"
  BY <1>3 DEF Ops!LoadRequest
<1>5. /\ c \in OpsClient /\ c.phase = "hydrating" /\ c.awaiting = "load"
      /\ c.doc = old.doc /\ c.covered = old.covered /\ c.buffer = old.buffer
      /\ c.batch = old.batch /\ c.timer = old.timer /\ c.enabled = old.enabled
  BY <1>1 DEF OpsClient
<1>6. old.awaiting # "update"
  BY <1>1, <1>2 DEF Fits
<1>7. OpsHolds(s, c, wire'[s], Logged, submitted')
  BY <1>1, <1>2, <1>5, <1>6 DEF OpsHolds
<1>8. overlapped' = (overlapped \/ \E t \in Session : Using(client[t], wire[t]))
  BY DEF Ops!Open, Ops!Busy, Ops!Requests, Using
<1>9. ASSUME client'[s] = c PROVE Acts(s)
  BY <1>2, <1>4, <1>5, <1>8, <1>9 DEF Acts, Opens, Turns
<1> QED
  BY <1>2, <1>3, <1>5, <1>7, <1>9, OpsActKeeps

LEMMA OpsHydratedKeeps ==
  ASSUME OpsInv, NEW s \in Session, Ops!Hydrated(s)
  PROVE  OpsInv'
<1> PICK old : old = client[s]
  OBVIOUS
<1> PICK log : log = wire[s].log
  OBVIOUS
<1> PICK c : c = [old EXCEPT
                   !.awaiting = "none",
                   !.phase = IF @ = "hydrating" THEN "live" ELSE @,
                   !.doc = @ \union log.snapshot.data
                             \union UNION {f.data : f \in log.frames},
                   !.covered = log.head]
  OBVIOUS
<1>1. /\ old \in OpsClient /\ Wired
      /\ OpsHolds(s, old, wire[s], Logged, submitted)
      /\ Fits(old, wire[s].kind) /\ MessageOK(wire[s])
  BY OpsHave
<1>2. /\ old.phase # "gone" /\ old.awaiting = "load" /\ wire[s].kind = "log"
      /\ Ops!Become(s, c) /\ Ops!Send(s, Ops!Idle)
      /\ submitted' = submitted /\ overlapped' = overlapped
  BY DEF Ops!Hydrated, Ops!Read, Ops!history
<1>3. /\ Wired' /\ wire'[s] = Ops!Idle /\ StoreStays
      /\ \A t \in Session \ {s} : wire'[t] = wire[t]
  BY <1>1, <1>2, OpsSends
<1>4. wire'[s].kind = "idle"
  BY <1>3 DEF Ops!Idle
<1>5. log.head \in Nat /\ Contents(log) \subseteq Item
  BY <1>1, <1>2 DEF MessageOK
<1>6. /\ c.phase = IF old.phase = "hydrating" THEN "live" ELSE old.phase
      /\ c.awaiting = "none" /\ c.doc = old.doc \union Contents(log)
      /\ c.covered = log.head /\ c.buffer = old.buffer
      /\ c.batch = old.batch /\ c.timer = old.timer /\ c.enabled = old.enabled
  BY <1>1 DEF OpsClient, Contents
<1>7. c \in OpsClient
  BY <1>1, <1>5 DEF OpsClient, Contents
<1>8. OpsHolds(s, c, wire'[s], Logged, submitted')
  BY <1>1, <1>2, <1>6 DEF OpsHolds
<1>9. ASSUME client'[s] = c PROVE Acts(s)
  <2>1. Turns(s, IF old.phase = "hydrating" THEN "live" ELSE old.phase, "none",
              old.doc \union Contents(log), log.head)
    BY <1>6, <1>9 DEF Turns
  <2> QED
    BY <1>2, <1>4, <2>1 DEF Acts, Hydrates
<1> QED
  BY <1>2, <1>3, <1>7, <1>8, <1>9, OpsActKeeps

(* An exchange that comes to an end, but for an append's: hydrate() or      *)
(* snapshot() failed, or the snapshot is stored.                            *)
LEMMA OpsEnds ==
  ASSUME OpsInv, NEW s \in Session, NEW c \in OpsClient,
         NEW old \in OpsClient,
         old = client[s],
         old.phase # "gone", old.awaiting \in {"load", "snapshot"},
         Ops!Become(s, c), Ops!Send(s, Ops!Idle),
         submitted' = submitted, overlapped' = overlapped,
         c.awaiting = "none",
         c.phase = IF old.phase = "hydrating" THEN "off" ELSE old.phase,
         c.doc = old.doc, c.buffer = old.buffer, c.batch = old.batch,
         c.timer = old.timer, c.enabled => old.enabled,
         \/ c.covered = old.covered
         \/ /\ old.awaiting = "snapshot" /\ wire[s].kind = "ok"
            /\ c.covered = wire[s].seq
  PROVE  OpsInv'
<1>1. /\ old \in OpsClient /\ Wired
      /\ OpsHolds(s, old, wire[s], Logged, submitted)
      /\ Fits(old, wire[s].kind)
  BY OpsHave
<1>2. /\ Wired' /\ wire'[s] = Ops!Idle /\ StoreStays
      /\ \A t \in Session \ {s} : wire'[t] = wire[t]
  BY <1>1, OpsSends
<1>3. wire'[s].kind = "idle"
  BY <1>2 DEF Ops!Idle
<1>4. OpsHolds(s, c, wire'[s], Logged, submitted')
  BY <1>1, <1>3 DEF OpsHolds
<1>5. ASSUME client'[s] = c PROVE Acts(s)
  <2>1. Turns(s, IF old.phase = "hydrating" THEN "off" ELSE old.phase, "none",
              old.doc, c.covered)
    BY <1>5 DEF Turns
  <2>2. c.covered \in {old.covered} \union
                  IF old.awaiting = "snapshot" /\ wire[s].kind = "ok"
                    THEN {wire[s].seq} ELSE {}
    OBVIOUS
  <2>3. Ends(s)
    BY <1>3, <2>1, <2>2 DEF Ends
  <2> QED
    BY <2>3 DEF Acts
<1> QED
  BY <1>2, <1>4, <1>5, OpsActKeeps

LEMMA OpsEndKeeps ==
  ASSUME OpsInv, NEW s \in Session,
         Ops!HydrateFails(s) \/ Ops!Compacted(s) \/ Ops!CompactFails(s)
  PROVE  OpsInv'
<1> PICK old : old = client[s]
  OBVIOUS
<1>1. /\ old \in OpsClient /\ Fits(old, wire[s].kind) /\ MessageOK(wire[s])
  BY OpsHave
<1>2. /\ old.phase # "gone" /\ Ops!Send(s, Ops!Idle)
      /\ submitted' = submitted /\ overlapped' = overlapped
  BY DEF Ops!HydrateFails, Ops!Compacted, Ops!CompactFails, Ops!Read, Ops!history
<1>3. CASE Ops!HydrateFails(s)
  <2> PICK c : c = [old EXCEPT !.awaiting = "none", !.enabled = FALSE,
                      !.phase = IF @ = "hydrating" THEN "off" ELSE @]
    OBVIOUS
  <2>1. Ops!Become(s, c) /\ old.awaiting = "load"
    BY <1>3 DEF Ops!HydrateFails
  <2>2. /\ c \in OpsClient /\ c.awaiting = "none" /\ ~c.enabled
        /\ c.phase = IF old.phase = "hydrating" THEN "off" ELSE old.phase
        /\ c.doc = old.doc /\ c.buffer = old.buffer /\ c.batch = old.batch
        /\ c.timer = old.timer /\ c.covered = old.covered
    BY <1>1 DEF OpsClient
  <2> QED
    <3>1. old \in OpsClient
      BY <1>1
    <3>2. old.awaiting \in {"load", "snapshot"}
      BY <2>1
    <3>3. Ops!Become(s, c) /\ Ops!Send(s, Ops!Idle)
      BY <1>2, <2>1
    <3>4. c.enabled => old.enabled
      BY <2>2
    <3>5. \/ c.covered = old.covered
         \/ /\ old.awaiting = "snapshot" /\ wire[s].kind = "ok"
            /\ c.covered = wire[s].seq
      BY <2>2
    <3>6. c.phase = IF old.phase = "hydrating" THEN "off" ELSE old.phase
      BY <2>2
    <3> QED
      BY <1>2, <2>2, <3>1, <3>2, <3>3, <3>4, <3>5, <3>6, OpsEnds
<1>4. CASE Ops!Compacted(s)
  <2> PICK seq : seq = wire[s].seq
    OBVIOUS
  <2> PICK c : c = [old EXCEPT !.awaiting = "none", !.covered = seq,
                               !.appends = 0]
    OBVIOUS
  <2>1. /\ Ops!Become(s, c) /\ old.awaiting = "snapshot"
        /\ wire[s].kind = "ok"
    BY <1>4 DEF Ops!Compacted, Ops!Read
  <2>2. seq \in Nat /\ old.phase # "hydrating"
    BY <1>1, <2>1 DEF MessageOK, Fits
  <2>3. /\ c \in OpsClient /\ c.awaiting = "none" /\ (c.enabled => old.enabled)
        /\ c.phase = old.phase
        /\ c.doc = old.doc /\ c.buffer = old.buffer /\ c.batch = old.batch
        /\ c.timer = old.timer /\ c.covered = seq
    BY <1>1, <2>2 DEF OpsClient
  <2> QED
    <3>1. old \in OpsClient
      BY <1>1
    <3>2. old.awaiting \in {"load", "snapshot"}
      BY <2>1
    <3>3. Ops!Become(s, c) /\ Ops!Send(s, Ops!Idle)
      BY <1>2, <2>1
    <3>4. c.enabled => old.enabled
      BY <2>3
    <3>5. \/ c.covered = old.covered
         \/ /\ old.awaiting = "snapshot" /\ wire[s].kind = "ok"
            /\ c.covered = wire[s].seq
      BY <2>1, <2>3
    <3>6. c.phase = IF old.phase = "hydrating" THEN "off" ELSE old.phase
      BY <2>2, <2>3
    <3> QED
      BY <1>2, <2>3, <3>1, <3>2, <3>3, <3>4, <3>5, <3>6, OpsEnds
<1>5. CASE Ops!CompactFails(s)
  <2>1. PICK kind \in {"notFound", "conflict", "failure"} :
          Ops!Become(s, [old EXCEPT !.awaiting = "none",
                                    !.enabled = @ /\ kind # "notFound"])
    BY <1>5 DEF Ops!CompactFails
  <2> PICK c : c = [old EXCEPT !.awaiting = "none",
                               !.enabled = @ /\ kind # "notFound"]
    OBVIOUS
  <2>2. Ops!Become(s, c) /\ old.awaiting = "snapshot"
    BY <1>5, <2>1 DEF Ops!CompactFails
  <2>3. old.phase # "hydrating"
    BY <1>1, <2>2 DEF Fits
  <2>4. /\ c \in OpsClient /\ c.awaiting = "none" /\ (c.enabled => old.enabled)
        /\ c.phase = old.phase
        /\ c.doc = old.doc /\ c.buffer = old.buffer /\ c.batch = old.batch
        /\ c.timer = old.timer /\ c.covered = old.covered
    BY <1>1 DEF OpsClient
  <2> QED
    <3>1. old \in OpsClient
      BY <1>1
    <3>2. old.awaiting \in {"load", "snapshot"}
      BY <2>2
    <3>3. Ops!Become(s, c) /\ Ops!Send(s, Ops!Idle)
      BY <1>2, <2>2
    <3>4. c.enabled => old.enabled
      BY <2>4
    <3>5. \/ c.covered = old.covered
         \/ /\ old.awaiting = "snapshot" /\ wire[s].kind = "ok"
            /\ c.covered = wire[s].seq
      BY <2>2, <2>4
    <3>6. c.phase = IF old.phase = "hydrating" THEN "off" ELSE old.phase
      BY <2>3, <2>4
    <3> QED
      BY <1>2, <2>4, <3>1, <3>2, <3>3, <3>4, <3>5, <3>6, OpsEnds
<1> QED
  BY <1>3, <1>4, <1>5

(* Only the document grows, and what goes with it.                         *)
LEMMA OpsMerges ==
  ASSUME OpsInv, NEW s \in Session, NEW c \in OpsClient,
         NEW old \in OpsClient, old = client[s],
         Ops!Become(s, c), Ops!Quiet, overlapped' = overlapped,
         c.phase = old.phase, c.awaiting = old.awaiting,
         old.doc \subseteq c.doc, c.covered = old.covered,
         \A op \in submitted' : op \in submitted \/ op[1] = s,
         OpsHolds(s, c, wire[s], Logged, submitted')
  PROVE  OpsInv'
<1>1. Wired' /\ wire' = wire /\ StoreStays
  BY OpsHave, OpsQuiet
<1>2. ASSUME client'[s] = c PROVE Acts(s)
  <2>1. old.doc \union c.doc = c.doc /\ c.doc \in SUBSET Item
    BY DEF OpsClient
  <2>0. Turns(s, old.phase, old.awaiting, old.doc \union c.doc, old.covered)
    BY <1>2, <2>1 DEF Turns
  <2>2. Merges(s)
    BY <1>1, <2>0, <2>1 DEF Merges
  <2> QED
    BY <2>2 DEF Acts
<1> QED
  BY <1>1, <1>2, OpsActKeeps

LEMMA OpsEditKeeps ==
  ASSUME OpsInv, NEW s \in Session, Ops!Edit(s)
  PROVE  OpsInv'
<1> PICK old : old = client[s]
  OBVIOUS
<1> PICK op : op = <<s, 1 + Ops!Cardinality(old.doc \intersect ({s} \X (1..MaxOps)))>>
  OBVIOUS
<1>1. /\ old \in OpsClient /\ OpsHolds(s, old, wire[s], Logged, submitted)
  BY OpsHave
<1>2. op \in Item /\ Ops!Quiet /\ overlapped' = overlapped /\ op[1] = s
  BY OpsRules DEF Ops!Edit
<1>3. CASE old.phase = "live"
  <2> PICK c : c = [old EXCEPT !.doc = @ \union {op}, !.buffer = @ \union {op},
                               !.timer = @ \/ old.enabled]
    OBVIOUS
  <2>1. Ops!Become(s, c) /\ submitted' = submitted \union {op}
    BY <1>3 DEF Ops!Edit
  <2>2. /\ c \in OpsClient /\ c.phase = old.phase /\ c.awaiting = old.awaiting
        /\ c.doc = old.doc \union {op} /\ c.buffer = old.buffer \union {op}
        /\ c.covered = old.covered /\ c.batch = old.batch
        /\ (c.enabled <=> old.enabled)
    BY <1>1, <1>2 DEF OpsClient
  <2>3. OpsHolds(s, c, wire[s], Logged, submitted')
    BY <1>1, <1>3, <2>1, <2>2 DEF OpsHolds
  <2>4. \A x \in submitted' : x \in submitted \/ x[1] = s
    BY <1>2, <2>1
  <2>5. Ops!Become(s, c) /\ old.doc \subseteq c.doc
    BY <2>1, <2>2
  <2> QED
    BY <1>1, <1>2, <2>2, <2>3, <2>4, <2>5, OpsMerges, ZenonT(60)
<1>4. CASE old.phase # "live"
  <2> PICK c : c = [old EXCEPT !.doc = @ \union {op}]
    OBVIOUS
  <2>1. Ops!Become(s, c) /\ submitted' = submitted
    BY <1>4 DEF Ops!Edit
  <2>2. /\ c \in OpsClient /\ c.phase = old.phase /\ c.awaiting = old.awaiting
        /\ c.doc = old.doc \union {op} /\ c.buffer = old.buffer
        /\ c.covered = old.covered /\ c.batch = old.batch
        /\ (c.enabled <=> old.enabled) /\ (c.timer <=> old.timer)
    BY <1>1, <1>2 DEF OpsClient
  <2>3. OpsHolds(s, c, wire[s], Logged, submitted')
    BY <1>1, <2>1, <2>2 DEF OpsHolds
  <2> QED
    BY <1>1, <1>2, <2>1, <2>2, <2>3, OpsMerges
<1> QED
  BY <1>3, <1>4

LEMMA OpsGossipKeeps ==
  ASSUME OpsInv, NEW s \in Session, NEW t \in Session, Ops!Gossip(s, t)
  PROVE  OpsInv'
<1> PICK old : old = client[s]
  OBVIOUS
<1>1. /\ old \in OpsClient /\ OpsHolds(s, old, wire[s], Logged, submitted)
      /\ client[t] \in OpsClient
  BY OpsHave
<1>2. Ops!Quiet /\ overlapped' = overlapped /\ submitted' = submitted
  BY DEF Ops!Gossip, Ops!history
<1>3. PICK op \in client[t].doc : Ops!Become(s, [old EXCEPT !.doc = @ \union {op}])
  BY DEF Ops!Gossip
<1> PICK c : c = [old EXCEPT !.doc = @ \union {op}]
  OBVIOUS
<1>4. op \in Item
  BY <1>1, <1>3 DEF OpsClient
<1>5. /\ c \in OpsClient /\ c.phase = old.phase /\ c.awaiting = old.awaiting
      /\ c.doc = old.doc \union {op} /\ c.buffer = old.buffer
      /\ c.covered = old.covered /\ c.batch = old.batch
      /\ (c.enabled <=> old.enabled) /\ (c.timer <=> old.timer)
  BY <1>1, <1>4 DEF OpsClient
<1>6. OpsHolds(s, c, wire[s], Logged, submitted')
  BY <1>1, <1>2, <1>5 DEF OpsHolds
<1> QED
  BY <1>1, <1>2, <1>3, <1>4, <1>5, <1>6, OpsMerges

(* stop() of a session that does not flush.                                *)
LEMMA OpsUnmounts ==
  ASSUME OpsInv, NEW s \in Session, NEW old \in OpsClient, old = client[s],
         old.phase \in {"hydrating", "live", "off"},
         Ops!Become(s, [old EXCEPT !.phase = "stopped", !.timer = FALSE]),
         Ops!Quiet, submitted' = submitted, overlapped' = overlapped
  PROVE  OpsInv'
<1> PICK c : c = [old EXCEPT !.phase = "stopped", !.timer = FALSE]
  OBVIOUS
<1>1. Wired' /\ wire' = wire /\ StoreStays
  BY OpsHave, OpsQuiet
<1>2. OpsHolds(s, old, wire[s], Logged, submitted)
  BY OpsHave
<1>3. /\ c \in OpsClient /\ c.phase = "stopped" /\ c.awaiting = old.awaiting
      /\ c.doc = old.doc /\ c.buffer = old.buffer
      /\ c.covered = old.covered /\ c.batch = old.batch
      /\ (c.enabled <=> old.enabled) /\ ~c.timer
  BY DEF OpsClient
<1>4. OpsHolds(s, c, wire'[s], Logged, submitted')
  BY <1>1, <1>2, <1>3 DEF OpsHolds
<1>5. ASSUME client'[s] = c PROVE Acts(s)
  <2>1. Turns(s, "stopped", old.awaiting, old.doc, old.covered)
    BY <1>3, <1>5 DEF Turns
  <2>2. Unmounts(s)
    BY <1>1, <2>1 DEF Unmounts
  <2> QED
    BY <2>2 DEF Acts
<1> QED
  BY <1>1, <1>3, <1>4, <1>5, OpsActKeeps

(* flush(), from the timer or from stop().                                 *)
LEMMA OpsFlushKeeps ==
  ASSUME OpsInv, NEW s \in Session, NEW old \in OpsClient, old = client[s],
         old.phase = "live", NEW phase \in {"live", "stopped"},
         Ops!Flush(s, [old EXCEPT !.phase = phase, !.timer = FALSE]),
         submitted' = submitted, overlapped' = overlapped
  PROVE  OpsInv'
<1> PICK mid : mid = [old EXCEPT !.phase = phase, !.timer = FALSE]
  OBVIOUS
<1>1. Wired /\ OpsHolds(s, old, wire[s], Logged, submitted)
  BY OpsHave
<1>2. /\ mid \in OpsClient /\ mid.phase = phase /\ mid.awaiting = old.awaiting
      /\ mid.doc = old.doc /\ mid.buffer = old.buffer
      /\ mid.covered = old.covered /\ mid.batch = old.batch
      /\ (mid.enabled <=> old.enabled) /\ ~mid.timer
  BY DEF OpsClient
<1>3. CASE Ops!CanFlush(mid)
  <2> PICK c : c = [mid EXCEPT !.awaiting = "update", !.batch = mid.buffer,
                               !.buffer = {}]
    OBVIOUS
  <2> PICK w : w = Ops!UpdateRequest(mid.buffer)
    OBVIOUS
  <2>1. Ops!Become(s, c) /\ Ops!Send(s, w) /\ mid.awaiting = "none"
    BY <1>3 DEF Ops!Flush, Ops!CanFlush
  <2>2. w.kind = "update" /\ w.items = mid.buffer
    BY DEF Ops!UpdateRequest
  <2>3. /\ Wired' /\ wire'[s] = w /\ StoreStays
        /\ \A t \in Session \ {s} : wire'[t] = wire[t]
    BY <1>1, <2>1, OpsSends
  <2>4. /\ c \in OpsClient /\ c.phase = phase /\ c.awaiting = "update"
        /\ c.doc = old.doc /\ c.buffer = {}
        /\ c.covered = old.covered /\ c.batch = old.buffer
        /\ (c.enabled <=> old.enabled) /\ ~c.timer
    <3>1. /\ c \in OpsClient /\ c.phase = mid.phase /\ c.awaiting = "update"
          /\ c.doc = mid.doc /\ c.buffer = {}
          /\ c.covered = mid.covered /\ c.batch = mid.buffer
          /\ (c.enabled <=> mid.enabled) /\ (c.timer <=> mid.timer)
      BY <1>2 DEF OpsClient
    <3> QED
      BY <1>2, <3>1
  <2>5. OpsHolds(s, c, wire'[s], Logged, submitted')
    BY <1>1, <1>2, <2>1, <2>2, <2>3, <2>4 DEF OpsHolds
  <2>6. ASSUME client'[s] = c PROVE Acts(s)
    <3>1. Turns(s, phase, "update", old.doc, old.covered)
      BY <2>4, <2>6 DEF Turns
    <3>2. wire'[s].kind = "update" /\ wire'[s].items \subseteq old.doc
      BY <1>1, <1>2, <2>2, <2>3 DEF OpsHolds
    <3>3. Sends(s)
      BY <1>2, <2>1, <3>1, <3>2 DEF Sends
    <3> QED
      BY <3>3 DEF Acts
  <2> QED
    BY <2>1, <2>3, <2>4, <2>5, <2>6, OpsActKeeps
<1>4. CASE ~Ops!CanFlush(mid)
  <2>1. Ops!Become(s, mid) /\ Ops!Quiet
    BY <1>4 DEF Ops!Flush
  <2>2. CASE phase = "stopped"
    BY <2>1, <2>2, OpsUnmounts
  <2>3. CASE phase = "live"
    <3>1. OpsHolds(s, mid, wire[s], Logged, submitted')
      BY <1>1, <1>2, <2>3 DEF OpsHolds
    <3> QED
      BY <1>2, <2>1, <2>3, <3>1, OpsMerges
  <2> QED
    BY <2>2, <2>3
<1> QED
  BY <1>3, <1>4

LEMMA OpsTimerStopKeeps ==
  ASSUME OpsInv, NEW s \in Session, Ops!TimerFires(s) \/ Ops!Stop(s)
  PROVE  OpsInv'
<1> PICK old : old = client[s]
  OBVIOUS
<1>1. old \in OpsClient /\ OpsHolds(s, old, wire[s], Logged, submitted)
  BY OpsHave
<1>2. submitted' = submitted /\ overlapped' = overlapped
  BY DEF Ops!TimerFires, Ops!Stop, Ops!history
<1>3. CASE Ops!TimerFires(s)
  <2>1. old.timer /\ Ops!Flush(s, [old EXCEPT !.timer = FALSE])
    BY <1>3 DEF Ops!TimerFires
  <2>2. old.phase = "live"
    BY <1>1, <2>1 DEF OpsHolds
  <2>3. [old EXCEPT !.timer = FALSE]
          = [old EXCEPT !.phase = "live", !.timer = FALSE]
    BY <1>1, <2>2 DEF OpsClient
  <2> QED
    BY <1>1, <1>2, <2>1, <2>2, <2>3, OpsFlushKeeps
<1>4. CASE Ops!Stop(s)
  <2>1. CASE /\ old.phase = "live"
             /\ Ops!Flush(s, [old EXCEPT !.phase = "stopped", !.timer = FALSE])
    BY <1>1, <1>2, <2>1, OpsFlushKeeps
  <2>2. CASE /\ old.phase \in {"hydrating", "off"} /\ Ops!Quiet
             /\ Ops!Become(s, [old EXCEPT !.phase = "stopped", !.timer = FALSE])
    BY <1>1, <1>2, <2>2, OpsUnmounts
  <2> QED
    BY <1>4, <2>1, <2>2 DEF Ops!Stop
<1> QED
  BY <1>3, <1>4

(* The rest of a flush() that went well: it ends, or goes on to snapshot(). *)
LEMMA OpsGoesOn ==
  ASSUME OpsInv, NEW s \in Session, NEW old \in OpsClient, old = client[s],
         old.awaiting = "update", old.phase # "gone", wire[s].kind = "ok",
         submitted' = submitted, overlapped' = overlapped,
         NEW mid \in OpsClient, mid.phase = old.phase, mid.doc = old.doc,
         mid.covered = wire[s].seq, mid.buffer = old.buffer, mid.batch = {},
         mid.enabled <=> old.enabled, mid.timer <=> old.timer,
         NEW next \in {"none", "snapshot"},
         Ops!Become(s, [mid EXCEPT !.awaiting = next]),
         Ops!Send(s, IF next = "snapshot"
                       THEN Ops!SnapshotRequest(mid.doc, mid.covered)
                       ELSE Ops!Idle)
  PROVE  OpsInv'
<1>1. Wired /\ OpsHolds(s, old, wire[s], Logged, submitted)
  BY OpsHave
<1>2. PICK c \in OpsClient :
        /\ Ops!Become(s, c) /\ c.phase = mid.phase /\ c.awaiting = next
        /\ c.doc = mid.doc /\ c.buffer = mid.buffer
        /\ c.covered = mid.covered /\ c.batch = mid.batch
        /\ (c.enabled <=> mid.enabled) /\ (c.timer <=> mid.timer)
  <2> PICK c : c = [mid EXCEPT !.awaiting = next]
    OBVIOUS
  <2>1. Ops!Become(s, c)
    OBVIOUS
  <2>2. /\ c \in OpsClient /\ c.phase = mid.phase /\ c.awaiting = next
        /\ c.doc = mid.doc /\ c.buffer = mid.buffer
        /\ c.covered = mid.covered /\ c.batch = mid.batch
        /\ (c.enabled <=> mid.enabled) /\ (c.timer <=> mid.timer)
    BY DEF OpsClient
  <2> QED
    BY <2>1, <2>2
<1>3. /\ Wired' /\ StoreStays
      /\ wire'[s] = IF next = "snapshot"
                      THEN Ops!SnapshotRequest(mid.doc, mid.covered)
                      ELSE Ops!Idle
      /\ \A t \in Session \ {s} : wire'[t] = wire[t]
  BY <1>1, OpsSends
<1>4. OpsHolds(s, c, wire'[s], Logged, submitted')
  <2>1. old.batch \subseteq Logged
    BY <1>1 DEF OpsHolds
  <2>2. c.awaiting # "update"
    BY <1>2
  <2> QED
    BY <1>1, <1>2, <2>1, <2>2 DEF OpsHolds
<1>5. ASSUME client'[s] = c PROVE Acts(s)
  <2>1. Turns(s, old.phase, next, old.doc, wire[s].seq)
    BY <1>2, <1>5 DEF Turns
  <2>2. CASE next = "none"
    <3>1. wire'[s].kind = "idle"
      BY <1>3, <2>2 DEF Ops!Idle
    <3>2. Goes(s)
      BY <2>1, <2>2, <3>1 DEF Goes
    <3> QED
      BY <3>2 DEF Acts
  <2>3. CASE next = "snapshot"
    <3>1. /\ wire'[s].kind = "snapshot" /\ wire'[s].items = old.doc
          /\ wire'[s].floor = wire[s].seq
      BY <1>3, <2>3 DEF Ops!SnapshotRequest
    <3>2. Goes(s)
      BY <2>1, <2>3, <3>1 DEF Goes
    <3> QED
      BY <3>2 DEF Acts
  <2> QED
    BY <2>2, <2>3
<1>6. Ops!Become(s, c)
  BY <1>2
<1>7. \A op \in submitted' : op \in submitted \/ op[1] = s
  OBVIOUS
<1> QED
  BY <1>3, <1>4, <1>5, <1>6, <1>7, OpsActKeeps

LEMMA OpsFlushedKeeps ==
  ASSUME OpsInv, NEW s \in Session, Ops!Flushed(s)
  PROVE  OpsInv'
<1> PICK old : old = client[s]
  OBVIOUS
<1> PICK seq : seq = wire[s].seq
  OBVIOUS
<1> PICK n : n = IF old.appends < SnapshotEvery THEN old.appends + 1
                                                ELSE old.appends
  OBVIOUS
<1> PICK mid : mid = [old EXCEPT !.batch = {}, !.covered = seq, !.appends = n]
  OBVIOUS
<1>1. old \in OpsClient /\ MessageOK(wire[s])
  BY OpsHave
<1>2. /\ old.awaiting = "update" /\ old.phase # "gone" /\ wire[s].kind = "ok"
      /\ submitted' = submitted /\ overlapped' = overlapped
  BY DEF Ops!Flushed, Ops!history
<1>3. seq \in Nat
  BY <1>1, <1>2 DEF MessageOK
<1>4. /\ mid \in OpsClient /\ mid.phase = old.phase
      /\ mid.doc = old.doc /\ mid.buffer = old.buffer
      /\ mid.covered = seq /\ mid.batch = {}
      /\ (mid.enabled <=> old.enabled) /\ (mid.timer <=> old.timer)
  <2>1. n \in Nat
    BY <1>1 DEF OpsClient
  <2> QED
    BY <1>1, <1>2, <1>3, <2>1 DEF OpsClient
<1>5. mid = [old EXCEPT !.batch = {}, !.covered = wire[s].seq,
               !.appends = IF @ < SnapshotEvery THEN @ + 1 ELSE @]
  OBVIOUS
<1>6. \/ /\ Ops!Become(s, [mid EXCEPT !.awaiting = "snapshot"])
         /\ Ops!Send(s, Ops!SnapshotRequest(mid.doc, mid.covered))
      \/ /\ Ops!Become(s, [mid EXCEPT !.awaiting = "none"])
         /\ Ops!Send(s, Ops!Idle)
  BY <1>5 DEF Ops!Flushed
<1>7. CASE /\ Ops!Become(s, [mid EXCEPT !.awaiting = "snapshot"])
           /\ Ops!Send(s, Ops!SnapshotRequest(mid.doc, mid.covered))
  BY <1>1, <1>2, <1>4, <1>7, OpsGoesOn
<1>8. CASE /\ Ops!Become(s, [mid EXCEPT !.awaiting = "none"])
           /\ Ops!Send(s, Ops!Idle)
  BY <1>1, <1>2, <1>4, <1>8, OpsGoesOn
<1> QED
  BY <1>6, <1>7, <1>8

LEMMA OpsFlushFailsKeeps ==
  ASSUME OpsInv, NEW s \in Session, Ops!FlushFails(s) \/ Ops!FlushNotFound(s)
  PROVE  OpsInv'
<1> PICK old : old = client[s]
  OBVIOUS
<1>1. /\ old \in OpsClient /\ Wired /\ Fits(old, wire[s].kind)
      /\ OpsHolds(s, old, wire[s], Logged, submitted)
  BY OpsHave
<1>2. /\ old.awaiting = "update" /\ old.phase # "gone" /\ wire[s].kind # "ok"
      /\ Ops!Send(s, Ops!Idle)
      /\ submitted' = submitted /\ overlapped' = overlapped
  BY DEF Ops!FlushFails, Ops!FlushNotFound, Ops!Read, Ops!history
<1>3. /\ Wired' /\ wire'[s] = Ops!Idle /\ StoreStays
      /\ \A t \in Session \ {s} : wire'[t] = wire[t]
  BY <1>1, <1>2, OpsSends
<1>4. wire'[s].kind = "idle"
  BY <1>3 DEF Ops!Idle
<1>5. ASSUME NEW c \in OpsClient, Ops!Become(s, c),
             c.phase = old.phase, c.awaiting = "none", c.doc = old.doc,
             c.covered = old.covered, OpsHolds(s, c, wire'[s], Logged, submitted')
      PROVE  OpsInv'
  <2>1. ASSUME client'[s] = c PROVE Acts(s)
    <3>1. Turns(s, IF old.phase = "hydrating" THEN "off" ELSE old.phase, "none",
                old.doc, old.covered)
      BY <1>1, <1>2, <1>5, <2>1 DEF Turns, Fits
    <3>2. Ends(s)
      BY <1>2, <1>4, <3>1 DEF Ends
    <3> QED
      BY <1>2, <3>2 DEF Acts
  <2>2. \A op \in submitted' : op \in submitted \/ op[1] = s
    BY <1>2
  <2> QED
    BY <1>3, <1>5, <2>1, <2>2, OpsActKeeps
<1>6. CASE Ops!FlushFails(s)
  <2> PICK c : c = [old EXCEPT !.awaiting = "none", !.batch = {},
                               !.buffer = @ \union old.batch]
    OBVIOUS
  <2>1. Ops!Become(s, c)
    BY <1>6 DEF Ops!FlushFails
  <2>2. /\ c \in OpsClient /\ c.phase = old.phase /\ c.awaiting = "none"
        /\ c.doc = old.doc /\ c.buffer = old.buffer \union old.batch
        /\ c.covered = old.covered /\ c.batch = {}
        /\ (c.enabled <=> old.enabled) /\ (c.timer <=> old.timer)
    BY <1>1 DEF OpsClient
  <2>3. OpsHolds(s, c, wire'[s], Logged, submitted')
    BY <1>1, <1>2, <1>4, <2>2 DEF OpsHolds
  <2> QED
    BY <1>5, <2>1, <2>2, <2>3
<1>7. CASE Ops!FlushNotFound(s)
  <2> PICK c : c = [old EXCEPT !.awaiting = "none", !.enabled = FALSE,
                               !.batch = {}]
    OBVIOUS
  <2>1. Ops!Become(s, c)
    BY <1>7 DEF Ops!FlushNotFound
  <2>2. /\ c \in OpsClient /\ c.phase = old.phase /\ c.awaiting = "none"
        /\ c.doc = old.doc /\ c.buffer = old.buffer
        /\ c.covered = old.covered /\ c.batch = {}
        /\ ~c.enabled /\ (c.timer <=> old.timer)
    BY <1>1 DEF OpsClient
  <2>3. OpsHolds(s, c, wire'[s], Logged, submitted')
    BY <1>1, <1>2, <1>4, <2>2 DEF OpsHolds
  <2> QED
    BY <1>5, <2>1, <2>2, <2>3
<1> QED
  BY <1>6, <1>7

LEMMA OpsKillKeeps ==
  ASSUME OpsInv, NEW s \in Session, Ops!Kill(s)
  PROVE  OpsInv'
<1> PICK c : c = [Ops!NewClient EXCEPT !.phase = "gone"]
  OBVIOUS
<1>1. Ops!Become(s, c) /\ Ops!Quiet /\ submitted' = submitted
        /\ overlapped' = overlapped
  BY DEF Ops!Kill, Ops!history
<1>2. Wired' /\ wire' = wire /\ StoreStays
  BY <1>1, OpsHave, OpsQuiet
<1>3. /\ c \in OpsClient /\ c.phase = "gone" /\ c.awaiting = "none"
      /\ c.doc = {} /\ c.buffer = {} /\ c.covered = 0 /\ c.batch = {} /\ ~c.timer
  BY DEF OpsClient, Ops!NewClient
<1>4. OpsHolds(s, c, wire'[s], Logged, submitted')
  BY <1>3 DEF OpsHolds
<1>5. ASSUME client'[s] = c PROVE Acts(s)
  <2>1. Dies(s)
    BY <1>2, <1>3, <1>5 DEF Dies, Turns
  <2> QED
    BY <1>1, <2>1 DEF Acts
<1>6. \A op \in submitted' : op \in submitted \/ op[1] = s
  BY <1>1
<1> QED
  BY <1>1, <1>2, <1>3, <1>4, <1>5, <1>6, OpsActKeeps

LEMMA OpsKeeps ==
  ASSUME OpsInv, Ops!Next PROVE OpsInv'
<1>1. CASE Ops!Server
  BY <1>1, OpsServedKeeps DEF Ops!Server, Ops!history
<1>2. ASSUME NEW s \in Session, Ops!Editor(s) \/ Ops!Resume(s)
      PROVE  OpsInv'
  BY <1>2, OpsOpenKeeps, OpsEditKeeps, OpsTimerStopKeeps, OpsKillKeeps,
     OpsGossipKeeps, OpsHydratedKeeps, OpsEndKeeps, OpsFlushedKeeps,
     OpsFlushFailsKeeps
  DEF Ops!Editor, Ops!Resume
<1> QED
  BY <1>1, <1>2 DEF Ops!Next

LEMMA OpsStarts ==
  ASSUME Ops!Init PROVE OpsInv
<1> PICK c : c = Ops!NewClient
  OBVIOUS
<1>1. /\ c \in OpsClient /\ c.phase = "unopened" /\ c.awaiting = "none"
      /\ c.doc = {} /\ c.buffer = {} /\ c.covered = 0 /\ c.batch = {} /\ ~c.timer
  BY DEF OpsClient, Ops!NewClient
<1>2. /\ snap = [seq |-> 0, floor |-> 0, data |-> {}] /\ frames = {}
      /\ accepted = {} /\ wire = [s \in Session |-> Ops!Idle]
      /\ client = [s \in Session |-> c] /\ submitted = {}
  BY DEF Ops!Init, Ops!ServiceInit, Ops!NoSnapshot
<1>3. Highest = 0
  BY <1>2, HeadIs DEF Highest
<1>4. StoreOK /\ Logged = {}
  BY <1>2, <1>3 DEF StoreOK, Logged
<1>5. Ops!Idle.kind = "idle"
  BY DEF Ops!Idle
<1>6. ASSUME NEW s \in Session
      PROVE  /\ MessageOK(wire[s]) /\ SessionOK(client[s])
             /\ Fits(client[s], wire[s].kind)
             /\ ~Using(client[s], wire[s]) /\ Knows(client[s], wire[s])
             /\ OpsHolds(s, client[s], wire[s], Logged, submitted)
  BY <1>1, <1>2, <1>3, <1>4, <1>5
  DEF MessageOK, SessionOK, Fits, Using, Knows, Truthful, Writes, OpsHolds
<1>7. AloneOK
  BY <1>4, <1>6 DEF AloneOK
<1> QED
  BY <1>1, <1>2, <1>4, <1>6, <1>7 DEF OpsInv, OpsTypes, ExchangeInv, Wired

LEMMA OpsPromises ==
  ASSUME OpsInv
  PROVE  Ops!NothingDropped /\ Ops!CoveredTruthful /\ Ops!AloneRecoverable
<1>1. Ops!NothingDropped
  BY OpsRules DEF OpsInv, OpsHolds, Ops!NothingDropped
<1>2. Ops!AloneRecoverable
  BY OpsRules DEF OpsInv, ExchangeInv, AloneOK, Ops!AloneRecoverable,
                  Ops!AckedRecoverable
<1>3. Ops!CoveredTruthful
  BY DEF OpsInv, ExchangeInv, AloneOK, Knows, Truthful, Ops!CoveredTruthful
<1> QED
  BY <1>1, <1>2, <1>3

-----------------------------------------------------------------------------
(* UpdateLogSync, which meets the same service.                             *)
LEMMA YjsRules ==
  /\ Yjs!HeadSeq(snap, frames) = Highest
  /\ \A floor : Yjs!ClampFloor(floor, Highest) = ClampFloor(floor, Highest)
  /\ \A low : Yjs!Above(frames, low) = Above(frames, low)
  /\ Yjs!LoadAnswer(snap, frames, 0) = LoadAnswer(snap, frames, 0)
  /\ Yjs!Logged = Logged /\ Yjs!Recoverable = Recoverable
  /\ Yjs!Struct = Item /\ Yjs!NoSnapshot = NoSnapshot
  /\ \A seq, data : Yjs!UpdateFrame(seq, data) = UpdateFrame(seq, data)
  /\ \A seq, floor, data :
       Yjs!Snapshot(seq, floor, data) = Snapshot(seq, floor, data)
<1>1. Yjs!HeadSeq(snap, frames) = Highest
  BY DEF Yjs!HeadSeq, HeadSeq, Highest, Yjs!Max, Max
<1>2. \A low : Yjs!Above(frames, low) = Above(frames, low)
  BY DEF Yjs!Above, Above
<1>3. Yjs!NoSnapshot = NoSnapshot
  BY DEF Yjs!NoSnapshot, NoSnapshot
<1>4. Yjs!LoadAnswer(snap, frames, 0) = LoadAnswer(snap, frames, 0)
  BY <1>1, <1>2, <1>3 DEF Yjs!LoadAnswer, LoadAnswer, Highest
<1>5. Yjs!Recoverable = Recoverable
  BY <1>2 DEF Yjs!Recoverable, Recoverable
<1> QED
  BY <1>1, <1>2, <1>3, <1>4, <1>5
  DEF Yjs!ClampFloor, ClampFloor, Yjs!Logged, Logged, Yjs!Struct, Item,
      Yjs!UpdateFrame, UpdateFrame, Yjs!Snapshot, Snapshot


LEMMA YjsServes ==
  ASSUME Wired, Yjs!Service, client' = client
  PROVE  Wired' /\ Served
<1>1. CASE Yjs!SwitchOff
  BY <1>1 DEF Yjs!SwitchOff, Served, Wired
<1>2. SUFFICES ASSUME NEW s \in Session,
                      Yjs!Serve(s) \/ Yjs!Lose(s) \/ Yjs!PendingFails(s)
               PROVE  Wired' /\ OthersStay(s) /\ Serves(s)
  BY <1>1 DEF Yjs!Service, Served
<1>3. ASSUME NEW w, Yjs!Answer(s, w)
      PROVE  /\ Wired' /\ OthersStay(s) /\ wire'[s] = w
             /\ client'[s] = client[s]
  BY <1>3, OneWire DEF Yjs!Answer, OthersStay
<1>4. ASSUME NEW w, Yjs!Answer(s, w), StoreStays, Replies(s, w)
      PROVE  Wired' /\ OthersStay(s) /\ Serves(s)
  BY <1>3, <1>4 DEF Serves
<1>5. CASE Yjs!ServeLoad(s)
  <2> PICK w : w = Yjs!LogReply(Yjs!LoadAnswer(snap, frames, 0))
    OBVIOUS
  <2>1. /\ Yjs!Answer(s, w) /\ StoreStays /\ wire[s].kind = "load"
        /\ w.kind = "log" /\ w.log = LoadAnswer(snap, frames, 0)
    BY <1>5, YjsRules DEF Yjs!ServeLoad, Yjs!LogReply, StoreStays
  <2> QED
    BY <1>3, <1>4, <2>1 DEF Replies, Looks
<1>6. CASE Yjs!ServeUpdate(s)
  <2> PICK w : w = Yjs!Appended(Highest + 1)
    OBVIOUS
  <2>1. w.kind = "appended" /\ w.seq = Highest + 1
    BY DEF Yjs!Appended
  <2>2. /\ Yjs!Answer(s, w) /\ snap' = snap /\ wire[s].kind = "update"
        /\ frames' = frames \union {UpdateFrame(Highest + 1, wire[s].items)}
        /\ accepted' = accepted \union {UpdateFrame(Highest + 1, wire[s].items)}
    BY <1>6, YjsRules DEF Yjs!ServeUpdate
  <2> QED
    BY <1>3, <2>1, <2>2 DEF Appends, Serves
<1>7. CASE Yjs!RefuseOversize(s) \/ Yjs!ServeNotFound(s) \/ Yjs!Lose(s)
  <2>1. PICK w \in {Yjs!Failure, Yjs!NotFound} : Yjs!Answer(s, w)
    BY <1>7 DEF Yjs!RefuseOversize, Yjs!ServeNotFound, Yjs!Lose
  <2>2. /\ StoreStays /\ wire[s].kind # "idle"
        /\ w.kind \in {"failure", "notFound"}
    BY <1>7 DEF Yjs!RefuseOversize, Yjs!ServeNotFound, Yjs!Lose, Yjs!Requests,
                Yjs!Failure, Yjs!NotFound, StoreStays
  <2> QED
    BY <1>3, <1>4, <2>1, <2>2 DEF Replies, Looks
<1>8. CASE Yjs!Advise(s) \/ Yjs!PendingFails(s)
  <2>1. PICK compact : Yjs!Answer(s, Yjs!OkReply(wire[s].seq, compact))
    BY <1>8 DEF Yjs!Advise, Yjs!PendingFails
  <2> PICK w : w = Yjs!OkReply(wire[s].seq, compact)
    OBVIOUS
  <2>2. /\ StoreStays /\ wire[s].kind = "appended"
        /\ w.kind = "ok" /\ w.seq = wire[s].seq
    BY <1>8 DEF Yjs!Advise, Yjs!PendingFails, Yjs!OkReply, StoreStays
  <2> QED
    BY <1>3, <1>4, <2>1, <2>2 DEF Replies, Looks
<1>9. CASE Yjs!ServeSnapshot(s)
  <2> PICK floor : floor = ClampFloor(wire[s].floor, Highest)
    OBVIOUS
  <2>1. CASE Yjs!Stale(snap, floor)
    <3> PICK w : w = Yjs!Conflict
      OBVIOUS
    <3>1. /\ Yjs!Answer(s, w) /\ StoreStays /\ wire[s].kind = "snapshot"
          /\ w.kind = "conflict"
      BY <1>9, <2>1, YjsRules DEF Yjs!ServeSnapshot, Yjs!Conflict, StoreStays
    <3> QED
      BY <1>3, <1>4, <3>1 DEF Replies, Looks
  <2>2. CASE ~Yjs!Stale(snap, floor)
    <3> PICK w : w = Yjs!OkReply(Highest + 1, FALSE)
      OBVIOUS
    <3>1. w.kind = "ok" /\ w.seq = Highest + 1
      BY DEF Yjs!OkReply
    <3>2. /\ Yjs!Answer(s, w) /\ wire[s].kind = "snapshot"
          /\ snap' = Snapshot(Highest + 1, floor, wire[s].items)
          /\ frames' = Above(frames, floor) /\ accepted' = accepted
      BY <1>9, <2>2, YjsRules DEF Yjs!ServeSnapshot
    <3> QED
      BY <1>3, <3>1, <3>2 DEF Compacts, Serves
  <2> QED
    BY <2>1, <2>2
<1> QED
  BY <1>2, <1>5, <1>6, <1>7, <1>8, <1>9 DEF Yjs!Serve

-----------------------------------------------------------------------------
(* The structs of Yjs client s, and what a state vector     *)
(* covers.  A closed set of structs is one that Yjs integrates whole.       *)
Own(s, S) == {x \in S : x[1] = s}
Prefix(sv) == {x \in Item : x[2] <= sv[x[1]]}
Closed(D) == \A x \in D : \A j \in 1..x[2] : <<x[1], j>> \in D

YjsClient ==
  [ phase : {"unopened", "hydrating", "live", "off", "stopped", "gone"},
    awaiting : {"none", "load", "update", "snapshot"},
    doc : SUBSET Item, dirty : BOOLEAN, flushedSV : [Session -> 0..MaxOps],
    timer : BOOLEAN, enabled : BOOLEAN, covered : Nat, appends : Nat ]

(* The edits of a session, but for those in apart, that no frame has.       *)
Unsaved(s, c, logged, apart) == Own(s, c.doc) \ (apart \union logged)

(* They lie beyond the state vector that counts as flushed, under the dirty *)
(* flag, and an append under way carries them.                              *)
YjsHolds(s, c, w, logged, before, apart) ==
  /\ c.timer => c.phase = "live"
  /\ Prefix(c.flushedSV) \subseteq c.doc
  /\ c.phase \in {"unopened", "hydrating", "off"} \/ c.awaiting = "load" =>
       Own(s, c.doc) \subseteq before
  /\ c.phase \in {"live", "stopped"} /\ c.enabled =>
       \/ Unsaved(s, c, logged, apart) = {}
       \/ /\ c.dirty
          /\ Unsaved(s, c, logged, apart) \subseteq Yjs!Beyond(c.doc, c.flushedSV)
  /\ c.awaiting = "update" /\ w.kind = "update" =>
       Unsaved(s, c, logged, apart) \subseteq w.items
  /\ c.awaiting = "update" /\ w.kind \in {"appended", "ok"} =>
       Unsaved(s, c, logged, apart) = {}

(* An edit goes nowhere before it is in its editor's document.              *)
Holdings(c, w) ==
  c.doc \union (IF w.kind \in {"update", "snapshot"} THEN w.items ELSE {})
        \union (IF w.kind = "log" THEN Contents(w.log) ELSE {})
Present ==
  Logged \union snap.data
         \union UNION {Holdings(client[t], wire[t]) : t \in Session}
OwnInv ==
  \A s \in Session :
    client[s].phase # "gone" => Own(s, Present) \subseteq client[s].doc

(* What a later load needs is in the log, or comes with what is sent.       *)
CleanHolds(c, w, rec) ==
  /\ Closed(c.doc)
  /\ Writes(c) => Prefix(c.flushedSV) \subseteq rec
  /\ w.kind = "update" => Closed(rec \union w.items)
  /\ w.kind = "snapshot" => Closed(w.items)
  /\ c.awaiting = "snapshot" /\ w.kind = "snapshot" =>
       Prefix(c.flushedSV) \subseteq w.items
Clean == ~overlapped /\ early = {} /\ raced = {} /\ ~heard
CleanInv ==
  Clean => /\ Closed(Recoverable)
           /\ \A s \in Session : CleanHolds(client[s], wire[s], Recoverable)

YjsTypes ==
  /\ Wired /\ client \in [Session -> YjsClient]
  /\ {heard, overlapped} \subseteq BOOLEAN
YjsInv ==
  /\ YjsTypes /\ ExchangeInv /\ OwnInv /\ CleanInv
  /\ \A s \in Session :
       YjsHolds(s, client[s], wire[s], Logged, early, early \union raced)

-----------------------------------------------------------------------------
(* State vectors.  The least element of a set of naturals.                  *)
LEMMA Least ==
  ASSUME NEW S \in SUBSET Nat, NEW n \in S
  PROVE  \E m \in S : \A k \in S : m <= k
<1>1. IsWellFoundedOn({ss \in Nat \X Nat : ss[1] < ss[2]}, Nat)
  BY NatLessThanWellFounded DEF OpToRel
<1> PICK R : R = {ss \in Nat \X Nat : ss[1] < ss[2]}
  OBVIOUS
<1>2. PICK m \in S : \A k \in S : ~ (<<k, m>> \in R)
  BY <1>1, WFMin
<1>3. ASSUME NEW k \in S PROVE m <= k
  <2>1. <<k, m>> \notin R
    BY <1>2
  <2>2. ~ (k < m)
    BY <2>1
  <2> QED
    BY <2>2
<1> QED
  BY <1>3

(* A state vector says how far the structs of each Yjs client go without a  *)
(* gap.                                                                     *)
LEMMA VectorIs ==
  ASSUME NEW doc \in SUBSET Item, NEW t \in Session
  PROVE  /\ Yjs!StateVector(doc)[t] \in 0..MaxOps
         /\ \A j \in 1..Yjs!StateVector(doc)[t] : <<t, j>> \in doc
         /\ Yjs!StateVector(doc)[t] < MaxOps =>
              <<t, Yjs!StateVector(doc)[t] + 1>> \notin doc
<1> PICK S : S = {k \in 0..MaxOps : \A j \in 1..k : <<t, j>> \in doc}
  OBVIOUS
<1> PICK T : T = {MaxOps - k : k \in S}
  OBVIOUS
<1>1. MaxOps \in Nat
  BY ClientsAreSet
<1>2. 0 \in S
  BY <1>1
<1>3. T \in SUBSET Nat /\ MaxOps \in T
  BY <1>1, <1>2
<1>4. PICK m \in T : \A k \in T : m <= k
  BY <1>3, Least
<1>5. PICK top \in S : m = MaxOps - top
  BY <1>4
<1>6. ASSUME NEW k \in S PROVE k <= top
  <2>1. m <= MaxOps - k
    BY <1>4, <1>6
  <2> QED
    BY <1>1, <1>5, <2>1
<1>7. S \in SUBSET Int
  BY <1>1
<1>8. Max(S) = top
  BY <1>6, <1>7, MaxIs
<1>9. Yjs!StateVector(doc)[t] = top
  BY <1>8 DEF Yjs!StateVector, Yjs!Max, Max
<1>10. top < MaxOps => <<t, top + 1>> \notin doc
  <2> SUFFICES ASSUME top < MaxOps, <<t, top + 1>> \in doc PROVE FALSE
    OBVIOUS
  <2>1. top + 1 \in 0..MaxOps
    BY <1>1
  <2>2. \A j \in 1..(top + 1) : <<t, j>> \in doc
    BY <1>1
  <2>3. top + 1 \in S
    BY <2>1, <2>2
  <2> QED
    BY <1>1, <1>6, <2>3
<1> QED
  BY <1>5, <1>9, <1>10

LEMMA VectorType ==
  ASSUME NEW doc \in SUBSET Item PROVE Yjs!StateVector(doc) \in [Session -> 0..MaxOps]
<1>1. \A t \in Session : Yjs!StateVector(doc)[t] \in 0..MaxOps
  BY VectorIs
<1> QED
  BY <1>1 DEF Yjs!StateVector

(* What a document's own vector covers is in the document.                  *)
LEMMA VectorCovers ==
  ASSUME NEW doc \in SUBSET Item PROVE Prefix(Yjs!StateVector(doc)) \subseteq doc
<1> SUFFICES ASSUME NEW x \in Prefix(Yjs!StateVector(doc)) PROVE x \in doc
  OBVIOUS
<1>1. x \in Item /\ x[2] <= Yjs!StateVector(doc)[x[1]]
  BY DEF Prefix
<1>2. PICK t \in Session, k \in 1..MaxOps : x = <<t, k>>
  BY <1>1 DEF Item
<1>3. k \in 1..Yjs!StateVector(doc)[t]
  BY <1>1, <1>2, VectorType, ClientsAreSet
<1>4. <<t, k>> \in doc
  BY <1>3, VectorIs
<1> QED
  BY <1>2, <1>4

(* A document is what the vector covers of it and what lies beyond.         *)
LEMMA BeyondIs ==
  ASSUME NEW doc \in SUBSET Item, NEW sv \in [Session -> 0..MaxOps]
  PROVE  /\ Yjs!Beyond(doc, sv) \subseteq doc
         /\ doc \subseteq Prefix(sv) \union Yjs!Beyond(doc, sv)
         /\ \A x \in doc : x[2] > sv[x[1]] => x \in Yjs!Beyond(doc, sv)
<1>1. ASSUME NEW x \in doc PROVE x[2] <= sv[x[1]] \/ x[2] > sv[x[1]]
  <2>1. x[1] \in Session /\ x[2] \in Nat
    BY DEF Item
  <2>2. sv[x[1]] \in Nat
    BY <2>1
  <2> QED
    BY <2>1, <2>2
<1> QED
  BY <1>1 DEF Yjs!Beyond, Prefix

(* A closed set of structs is integrated whole.                             *)
LEMMA ClosedIntegrates ==
  ASSUME NEW D \in SUBSET Item, Closed(D)
  PROVE  Yjs!Integrated(D) = D
<1>1. ASSUME NEW x \in Yjs!Beyond(D, Yjs!StateVector(D)) PROVE FALSE
  <2>1. x \in D /\ x[2] > Yjs!StateVector(D)[x[1]]
    BY <1>1 DEF Yjs!Beyond
  <2>2. PICK t \in Session, k \in 1..MaxOps : x = <<t, k>>
    BY <2>1 DEF Item
  <2> PICK n : n = Yjs!StateVector(D)[t]
    OBVIOUS
  <2>3. n \in 0..MaxOps /\ (n < MaxOps => <<t, n + 1>> \notin D)
    BY VectorIs
  <2>4. n < k /\ MaxOps \in Nat
    BY <2>1, <2>2, ClientsAreSet
  <2>5. n + 1 \in 1..k /\ n < MaxOps
    BY <2>3, <2>4
  <2>6. <<t, n + 1>> \in D
    BY <2>1, <2>2, <2>5 DEF Closed
  <2> QED
    BY <2>3, <2>5, <2>6
<1> QED
  BY <1>1 DEF Yjs!Integrated

LEMMA ClosedUnion ==
  ASSUME NEW A, NEW B, Closed(A), Closed(B)
  PROVE  Closed(A \union B)
BY DEF Closed

(* An editor types the next struct of its own.                              *)
LEMMA ClosedEdit ==
  ASSUME NEW D \in SUBSET Item, NEW s \in Session, Closed(D)
  PROVE  Closed(D \union {<<s, Yjs!StateVector(D)[s] + 1>>})
<1> PICK n : n = Yjs!StateVector(D)[s]
  OBVIOUS
<1>1. n \in Nat /\ \A j \in 1..n : <<s, j>> \in D
  <2>1. /\ Yjs!StateVector(D)[s] \in 0..MaxOps
        /\ \A j \in 1..Yjs!StateVector(D)[s] : <<s, j>> \in D
    BY VectorIs
  <2> QED
    BY <2>1, ClientsAreSet
<1>2. ASSUME NEW x \in D \union {<<s, n + 1>>}, NEW j \in 1..x[2]
      PROVE  <<x[1], j>> \in D \union {<<s, n + 1>>}
  <2>1. CASE x \in D
    BY <2>1 DEF Closed
  <2>2. CASE x = <<s, n + 1>>
    <3>1. j \in 1..n \/ j = n + 1
      BY <1>1, <2>2
    <3> QED
      BY <1>1, <2>2, <3>1
  <2> QED
    BY <2>1, <2>2
<1> QED
  BY <1>2 DEF Closed

(* What a state vector exchange brings is all that was missing.             *)
LEMMA ExchangedIs ==
  ASSUME NEW A \in SUBSET Item, NEW B \in SUBSET Item
  PROVE  A \union Yjs!Beyond(B, Yjs!StateVector(A)) = A \union B
<1>1. Yjs!StateVector(A) \in [Session -> 0..MaxOps]
  BY VectorType
<1>2. Prefix(Yjs!StateVector(A)) \subseteq A
  BY VectorCovers
<1> QED
  BY <1>1, <1>2, BeyondIs

-----------------------------------------------------------------------------
LEMMA YjsHoldsOn ==
  ASSUME NEW s, NEW c, NEW w, NEW logged, NEW before, NEW apart,
         NEW logged2, NEW before2, NEW apart2,
         YjsHolds(s, c, w, logged, before, apart), logged \subseteq logged2,
         before \subseteq before2, apart \subseteq apart2
  PROVE  YjsHolds(s, c, w, logged2, before2, apart2)
<1>1. Unsaved(s, c, logged2, apart2) \subseteq Unsaved(s, c, logged, apart)
  BY DEF Unsaved
<1> QED
  BY <1>1 DEF YjsHolds

LEMMA YjsHave ==
  ASSUME YjsInv, NEW s \in Session
  PROVE  /\ client[s] \in YjsClient /\ Wired /\ client[s].doc \in SUBSET Item
         /\ YjsHolds(s, client[s], wire[s], Logged, early, early \union raced)
         /\ Fits(client[s], wire[s].kind) /\ MessageOK(wire[s])
         /\ StoreOK
         /\ Clean => /\ Closed(Recoverable)
                     /\ CleanHolds(client[s], wire[s], Recoverable)
                     /\ Knows(client[s], wire[s]) /\ Logged \subseteq Recoverable
BY DEF YjsInv, YjsTypes, ExchangeInv, CleanInv, Clean, AloneOK, SessionOK

LEMMA YjsSends ==
  ASSUME Wired, NEW s \in Session, NEW w, Yjs!Send(s, w)
  PROVE  /\ Wired' /\ wire'[s] = w /\ StoreStays
         /\ \A t \in Session \ {s} : wire'[t] = wire[t]
BY OneWire DEF Yjs!Send, StoreStays

LEMMA YjsQuiet ==
  ASSUME Wired, Yjs!Quiet PROVE Wired' /\ wire' = wire /\ StoreStays
BY DEF Yjs!Quiet, Yjs!serviceVars, StoreStays, Wired

(* A session's step.                                                        *)
LEMMA YjsActKeeps ==
  ASSUME YjsInv, NEW s \in Session, NEW c \in YjsClient, Yjs!Become(s, c),
         Wired', \A t \in Session \ {s} : wire'[t] = wire[t], StoreStays,
         early \subseteq early', raced \subseteq raced',
         {heard', overlapped'} \subseteq BOOLEAN,
         YjsHolds(s, c, wire'[s], Logged, early', early' \union raced'),
         client'[s] = c => Acts(s),
         c.phase # "gone" =>
           client[s].phase # "gone" /\ client[s].doc \subseteq c.doc,
         \A x \in Holdings(c, wire'[s]) :
           x \in Present \/ (x[1] = s /\ x \in c.doc),
         Clean' => Clean /\ CleanHolds(c, wire'[s], Recoverable)
  PROVE  YjsInv'
<1>1. /\ client'[s] = c /\ client' \in [Session -> YjsClient]
      /\ \A t \in Session \ {s} : client'[t] = client[t]
  BY DEF YjsInv, YjsTypes, Yjs!Become
<1>2. OthersStay(s)
  BY <1>1 DEF OthersStay
<1>3. ExchangeInv'
  <2>1. Exchanges
    BY <1>1, <1>2 DEF Exchanges
  <2> QED
    BY <2>1, ExchangeKeeps DEF YjsInv
<1>4. Logged' = Logged /\ Recoverable' = Recoverable /\ snap' = snap
  BY LogStays DEF YjsInv, ExchangeInv, StoreStays
<1>5. ASSUME NEW t \in Session
      PROVE  YjsHolds(t, client'[t], wire'[t], Logged', early',
                      early' \union raced')
  <2>1. CASE t = s
    BY <1>1, <1>4, <2>1
  <2>2. CASE t # s
    <3>1. client'[t] = client[t] /\ wire'[t] = wire[t]
      BY <1>1, <2>2
    <3>2. YjsHolds(t, client[t], wire[t], Logged, early, early \union raced)
      BY DEF YjsInv
    <3>3. early \union raced \subseteq early' \union raced'
      OBVIOUS
    <3> QED
      BY <1>4, <3>1, <3>2, <3>3, YjsHoldsOn
  <2> QED
    BY <2>1, <2>2
<1>6. OwnInv'
  <2>1. \A x \in Present' : x \in Present \/ (x[1] = s /\ x \in c.doc)
    <3>1. ASSUME NEW t \in Session, t # s
          PROVE  Holdings(client[t], wire[t])' = Holdings(client[t], wire[t])
      BY <1>1, <3>1 DEF Holdings, Contents
    <3> QED
      BY <1>1, <1>4, <3>1 DEF Present
  <2>2. ASSUME NEW t \in Session, client'[t].phase # "gone",
               NEW x \in Present', x[1] = t
        PROVE  x \in client'[t].doc
    <3>1. CASE t = s
      BY <1>1, <2>1, <2>2, <3>1 DEF YjsInv, OwnInv, Own
    <3>2. CASE t # s
      BY <1>1, <2>1, <2>2, <3>2 DEF YjsInv, OwnInv, Own
    <3> QED
      BY <3>1, <3>2
  <2> QED
    BY <2>2 DEF OwnInv, Own
<1>7. CleanInv'
  <2> SUFFICES ASSUME Clean'
               PROVE  /\ Closed(Recoverable')
                      /\ \A t \in Session :
                           CleanHolds(client'[t], wire'[t], Recoverable')
    BY DEF CleanInv, Closed, CleanHolds, Writes, Prefix, Item
  <2>1. Clean /\ Closed(Recoverable)
    BY DEF YjsInv, CleanInv
  <2>2. \A t \in Session : CleanHolds(client[t], wire[t], Recoverable)
    BY <2>1 DEF YjsInv, CleanInv
  <2>3. ASSUME NEW t \in Session
        PROVE  CleanHolds(client'[t], wire'[t], Recoverable')
    BY <1>1, <1>4, <2>2
  <2> QED
    BY <1>4, <2>1, <2>3
<1> QED
  BY <1>1, <1>3, <1>5, <1>6, <1>7 DEF YjsInv, YjsTypes

(* The service's steps.                                                     *)
LEMMA YjsServedHolds ==
  ASSUME YjsInv, NEW s \in Session, OthersStay(s), Serves(s), NEW t \in Session
  PROVE  /\ YjsHolds(t, client[t], wire'[t], Logged', early,
                     early \union raced)
         /\ Holdings(client[t], wire'[t]) \subseteq Present
         /\ Logged' \union snap'.data \subseteq Present
<1>1. Logged \subseteq Logged' /\ StoreOK
  <2>1. CASE \E w : Replies(s, w)
    BY <2>1, LogStays DEF Replies, YjsInv, ExchangeInv
  <2>2. CASE Appends(s)
    BY <2>2, LogGrows DEF Appends, YjsInv, ExchangeInv
  <2>3. CASE Compacts(s)
    BY <2>3 DEF Compacts, Logged, YjsInv, ExchangeInv
  <2> QED
    BY <2>1, <2>2, <2>3 DEF Serves
<1>2. YjsHolds(t, client[t], wire[t], Logged', early, early \union raced)
  BY <1>1, YjsHoldsOn DEF YjsInv
<1>3. /\ Holdings(client[t], wire[t]) \subseteq Present
      /\ Holdings(client[s], wire[s]) \subseteq Present
      /\ Logged \union snap.data \subseteq Present
  BY DEF Present
<1>4. Recoverable \subseteq Present
  BY <1>1, <1>3, ItemsLogged
<1> PICK w : w = wire'[s]
  OBVIOUS
<1>5. /\ Holdings(client[s], w) \subseteq Present
      /\ Logged' \union snap'.data \subseteq Present
  <2>1. CASE \E v : Replies(s, v)
    <3>1. Replies(s, w)
      BY <2>1 DEF Replies, Looks
    <3>2. Logged' = Logged /\ snap' = snap
      BY <1>1, <3>1, LogStays DEF Replies, StoreStays
    <3>3. w.kind \notin {"update", "snapshot"}
      BY <3>1 DEF Replies
    <3>4. w.kind = "log" => Contents(w.log) = Recoverable
      BY <1>1, <3>1, LoadIsAll DEF Replies
    <3> QED
      BY <1>3, <1>4, <3>2, <3>3, <3>4 DEF Holdings
  <2>2. CASE Appends(s)
    <3>1. /\ Logged' = Logged \union wire[s].items /\ snap' = snap
          /\ wire[s].kind = "update" /\ w.kind = "appended"
      BY <2>2, LogGrows DEF Appends
    <3>2. wire[s].items \subseteq Present
      BY <1>3, <3>1 DEF Holdings
    <3> QED
      BY <1>3, <3>1, <3>2 DEF Holdings
  <2>3. CASE Compacts(s)
    <3>1. /\ Logged' = Logged /\ snap'.data = wire[s].items
          /\ wire[s].kind = "snapshot" /\ w.kind = "ok"
      BY <2>3 DEF Compacts, Logged, Snapshot
    <3>2. wire[s].items \subseteq Present
      BY <1>3, <3>1 DEF Holdings
    <3> QED
      BY <1>3, <3>1, <3>2 DEF Holdings
  <2> QED
    BY <2>1, <2>2, <2>3 DEF Serves
<1>6. CASE t # s
  BY <1>2, <1>3, <1>5, <1>6 DEF OthersStay
<1>7. CASE t = s
  <2> PICK c : c = client[s]
    OBVIOUS
  <2>1. /\ YjsHolds(s, c, wire[s], Logged', early, early \union raced)
        /\ Fits(c, wire[s].kind)
    BY <1>2, <1>7, YjsHave
  <2>2. YjsHolds(s, c, wire[s], Logged, early, early \union raced)
    BY YjsHave
  <2>3. /\ w.kind # "update"
        /\ w.kind \in {"appended", "ok"} =>
             \/ wire[s].kind \in {"snapshot", "appended"}
             \/ wire[s].kind = "update" /\ wire[s].items \subseteq Logged'
    <3>1. CASE \E v : Replies(s, v)
      BY <3>1 DEF Replies, Looks
    <3>2. CASE Appends(s)
      BY <3>2, LogGrows DEF Appends
    <3>3. CASE Compacts(s)
      BY <3>3 DEF Compacts
    <3> QED
      BY <3>1, <3>2, <3>3 DEF Serves
  <2>4. c.awaiting = "update" /\ w.kind \in {"appended", "ok"} =>
          Unsaved(s, c, Logged', early \union raced) = {}
    <3> SUFFICES ASSUME c.awaiting = "update", w.kind \in {"appended", "ok"}
                 PROVE  Unsaved(s, c, Logged', early \union raced) = {}
      OBVIOUS
    <3>1. wire[s].kind # "snapshot"
      BY <2>1 DEF Fits
    <3>2. CASE wire[s].kind = "appended"
      BY <2>1, <3>2 DEF YjsHolds
    <3>3. CASE wire[s].kind = "update" /\ wire[s].items \subseteq Logged'
      <4>1. Unsaved(s, c, Logged', early \union raced) \subseteq wire[s].items
        BY <2>1, <3>3 DEF YjsHolds
      <4> QED
        BY <3>3, <4>1 DEF Unsaved
    <3> QED
      BY <2>3, <3>1, <3>2, <3>3
  <2>5. YjsHolds(s, c, w, Logged', early, early \union raced)
    BY <2>1, <2>3, <2>4 DEF YjsHolds
  <2> QED
    BY <1>5, <1>7, <2>5
<1> QED
  BY <1>6, <1>7

LEMMA YjsServedClean ==
  ASSUME YjsInv, NEW s \in Session, OthersStay(s), Serves(s), Clean
  PROVE  /\ Closed(Recoverable')
         /\ \A t \in Session : CleanHolds(client[t], wire'[t], Recoverable')
<1>1. /\ Closed(Recoverable) /\ StoreOK /\ MessageOK(wire[s])
      /\ \A t \in Session : CleanHolds(client[t], wire[t], Recoverable)
      /\ \A t \in Session : Knows(client[t], wire[t])
  BY YjsHave
<1> PICK c, w : c = client[s] /\ w = wire'[s]
  OBVIOUS
<1>2. CleanHolds(c, wire[s], Recoverable) /\ Fits(c, wire[s].kind)
  BY YjsHave
<1>3. \A t \in Session : Using(client[s], wire[s]) /\ Using(client[t], wire[t])
                           => t = s
  BY DEF Clean, YjsInv, ExchangeInv, AloneOK
<1>4. ASSUME wire[s].kind \in {"update", "snapshot"}, NEW rec,
             Closed(rec), CleanHolds(c, w, rec)
      PROVE  \A t \in Session : CleanHolds(client[t], wire'[t], rec)
  <2> SUFFICES ASSUME NEW t \in Session, t # s
               PROVE  CleanHolds(client[t], wire'[t], rec)
    BY <1>4
  <2>1. ~Using(client[t], wire[t]) /\ wire'[t] = wire[t]
    BY <1>3, <1>4 DEF Using, OthersStay
  <2>2. CleanHolds(client[t], wire[t], Recoverable)
    BY <1>1
  <2> QED
    BY <2>1, <2>2 DEF CleanHolds, Using, Writes
<1>5. CASE \E v : Replies(s, v)
  <2>1. Replies(s, w)
    BY <1>5 DEF Replies, Looks
  <2>2. Recoverable' = Recoverable
    BY <1>1, <2>1, LogStays DEF Replies
  <2>3. CleanHolds(c, w, Recoverable)
    BY <1>2, <2>1 DEF CleanHolds, Replies
  <2>4. \A t \in Session : t = s \/ wire'[t] = wire[t]
    BY DEF OthersStay
  <2> QED
    BY <1>1, <2>2, <2>3, <2>4
<1>6. CASE Appends(s)
  <2>1. /\ Recoverable' = Recoverable \union wire[s].items
        /\ wire[s].kind = "update" /\ w.kind = "appended"
    BY <1>1, <1>6, AppendedIs DEF Appends
  <2>2. Closed(Recoverable')
    BY <1>2, <2>1 DEF CleanHolds
  <2>3. CleanHolds(c, w, Recoverable')
    BY <1>2, <2>1 DEF CleanHolds
  <2> QED
    BY <1>4, <2>1, <2>2, <2>3
<1>7. CASE Compacts(s)
  <2>1. wire[s].kind = "snapshot" /\ w.kind = "ok"
    BY <1>7 DEF Compacts
  <2>2. Logged \subseteq wire[s].items
    BY <1>1, <2>1 DEF Knows
  <2>3. Recoverable' = wire[s].items
    BY <1>1, <1>7, <2>2, CompactedIs
  <2>4. Closed(Recoverable')
    BY <1>2, <2>1, <2>3 DEF CleanHolds
  <2>5. Writes(c) => c.awaiting = "snapshot"
    BY <1>2, <2>1 DEF Writes, Fits
  <2>6. CleanHolds(c, w, Recoverable')
    BY <1>2, <2>1, <2>3, <2>5 DEF CleanHolds
  <2> QED
    BY <1>4, <2>1, <2>4, <2>6
<1> QED
  BY <1>5, <1>6, <1>7 DEF Serves

LEMMA YjsServedKeeps ==
  ASSUME YjsInv, Yjs!Service, client' = client, early' = early, raced' = raced,
         heard' = heard, overlapped' = overlapped
  PROVE  YjsInv'
<1>1. Wired' /\ Served
  BY YjsServes DEF YjsInv, YjsTypes
<1>2. Exchanges
  BY <1>1 DEF Served, Exchanges
<1>3. ExchangeInv'
  BY <1>2, ExchangeKeeps DEF YjsInv
<1>4. YjsTypes'
  BY <1>1 DEF YjsInv, YjsTypes
<1>5. CASE UNCHANGED <<snap, frames, accepted, wire>>
  <2>1. Logged' = Logged /\ Recoverable' = Recoverable /\ Present' = Present
    BY <1>5 DEF Logged, Recoverable, Present, Holdings, Contents
  <2>2. Clean' <=> Clean
    BY DEF Clean
  <2>3. wire' = wire
    BY <1>5
  <2>4. OwnInv'
    BY <2>1 DEF YjsInv, OwnInv
  <2>5. CleanInv'
    BY <2>1, <2>2, <2>3
    DEF YjsInv, CleanInv, CleanHolds, Closed, Writes, Prefix, Item
  <2>6. \A t \in Session : YjsHolds(t, client'[t], wire'[t], Logged', early',
                                    early' \union raced')
    BY <2>1, <2>3 DEF YjsInv
  <2> QED
    BY <1>3, <1>4, <2>4, <2>5, <2>6 DEF YjsInv
<1>6. ASSUME NEW s \in Session, OthersStay(s), Serves(s)
      PROVE  YjsInv'
  <2>1. \A t \in Session :
          /\ YjsHolds(t, client[t], wire'[t], Logged', early,
                      early \union raced)
          /\ Holdings(client[t], wire'[t]) \subseteq Present
          /\ Logged' \union snap'.data \subseteq Present
    BY <1>6, YjsServedHolds
  <2>2. Present' \subseteq Present
    BY <1>6, <2>1 DEF Present, Holdings, Contents
  <2>3. OwnInv'
    BY <2>2 DEF YjsInv, OwnInv, Own
  <2>4. CleanInv'
    <3> SUFFICES ASSUME Clean'
                 PROVE  /\ Closed(Recoverable')
                        /\ \A t \in Session :
                             CleanHolds(client'[t], wire'[t], Recoverable')
      BY DEF CleanInv, Closed, CleanHolds, Writes, Prefix, Item
    <3>1. Clean
      BY DEF Clean
    <3> QED
      BY <1>6, <3>1, YjsServedClean
  <2> QED
    BY <1>3, <1>4, <2>1, <2>3, <2>4 DEF YjsInv
<1> QED
  BY <1>1, <1>5, <1>6 DEF Served

-----------------------------------------------------------------------------
LEMMA YjsOpenKeeps ==
  ASSUME YjsInv, NEW s \in Session, Yjs!Open(s)
  PROVE  YjsInv'
<1> PICK old : old = client[s]
  OBVIOUS
<1> PICK c : c = [old EXCEPT !.phase = "hydrating", !.awaiting = "load"]
  OBVIOUS
<1>1. /\ old \in YjsClient /\ Wired
      /\ YjsHolds(s, old, wire[s], Logged, early, early \union raced)
      /\ Clean => CleanHolds(old, wire[s], Recoverable)
  BY YjsHave
<1>2. /\ old.phase = "unopened" /\ Yjs!Become(s, c)
      /\ Yjs!Send(s, Yjs!LoadRequest)
      /\ early' = early /\ raced' = raced /\ heard' = heard
  BY DEF Yjs!Open
<1>3. /\ Wired' /\ wire'[s] = Yjs!LoadRequest /\ StoreStays
      /\ \A t \in Session \ {s} : wire'[t] = wire[t]
  BY <1>1, <1>2, YjsSends
<1>4. wire'[s].kind = "load"
  BY <1>3 DEF Yjs!LoadRequest
<1>5. /\ c \in YjsClient /\ c.phase = "hydrating" /\ c.awaiting = "load"
      /\ c.doc = old.doc /\ c.covered = old.covered
      /\ c.flushedSV = old.flushedSV /\ c.timer = old.timer
  BY <1>1 DEF YjsClient
<1>6. overlapped' = (overlapped \/ \E t \in Session : Using(client[t], wire[t]))
  BY DEF Yjs!Open, Yjs!Busy, Yjs!Requests, Using
<1>7. YjsHolds(s, c, wire'[s], Logged, early', early' \union raced')
  BY <1>1, <1>2, <1>5 DEF YjsHolds
<1>8. ASSUME client'[s] = c PROVE Acts(s)
  BY <1>2, <1>4, <1>5, <1>6, <1>8 DEF Acts, Opens, Turns
<1>9. Holdings(c, wire'[s]) \subseteq Present
  BY <1>4, <1>5 DEF Holdings, Present
<1>10. Clean' => Clean /\ CleanHolds(c, wire'[s], Recoverable)
  BY <1>1, <1>2, <1>4, <1>5, <1>6 DEF Clean, CleanHolds, Writes
<1>11. {heard', overlapped'} \subseteq BOOLEAN
  BY <1>2, <1>6 DEF YjsInv, YjsTypes
<1> QED
  BY <1>2, <1>3, <1>5, <1>7, <1>8, <1>9, <1>10, <1>11, YjsActKeeps

LEMMA YjsHydratedKeeps ==
  ASSUME YjsInv, NEW s \in Session, Yjs!Hydrated(s)
  PROVE  YjsInv'
<1> PICK old : old = client[s]
  OBVIOUS
<1> PICK log : log = wire[s].log
  OBVIOUS
<1> PICK merged : merged = old.doc \union log.snapshot.data
                             \union UNION {f.data : f \in log.frames}
  OBVIOUS
<1> PICK sv : sv = Yjs!StateVector(merged)
  OBVIOUS
<1> PICK c : c = [old EXCEPT
                   !.awaiting = "none",
                   !.phase = IF @ = "hydrating" THEN "live" ELSE @,
                   !.doc = merged, !.covered = log.head, !.flushedSV = sv]
  OBVIOUS
<1>1. /\ old \in YjsClient /\ Wired /\ Fits(old, wire[s].kind)
      /\ YjsHolds(s, old, wire[s], Logged, early, early \union raced)
      /\ MessageOK(wire[s]) /\ old.doc \in SUBSET Item
      /\ Clean => /\ Closed(Recoverable) /\ Knows(old, wire[s])
                  /\ CleanHolds(old, wire[s], Recoverable)
  BY YjsHave
<1>2. /\ old.phase # "gone" /\ old.awaiting = "load" /\ wire[s].kind = "log"
      /\ Yjs!Become(s, c) /\ Yjs!Send(s, Yjs!Idle)
      /\ Yjs!Counts(s, merged)
  BY DEF Yjs!Hydrated, Yjs!Read
<1>3. /\ Wired' /\ wire'[s] = Yjs!Idle /\ StoreStays
      /\ \A t \in Session \ {s} : wire'[t] = wire[t]
  BY <1>1, <1>2, YjsSends
<1>4. wire'[s].kind = "idle"
  BY <1>3 DEF Yjs!Idle
<1>5. log.head \in Nat /\ Contents(log) \subseteq Item
  BY <1>1, <1>2 DEF MessageOK
<1>6. merged = old.doc \union Contents(log) /\ merged \in SUBSET Item
  BY <1>1, <1>5 DEF Contents
<1>7. sv \in [Session -> 0..MaxOps] /\ Prefix(sv) \subseteq merged
  BY <1>6, VectorType, VectorCovers
<1>8. /\ c \in YjsClient
      /\ c.phase = IF old.phase = "hydrating" THEN "live" ELSE old.phase
      /\ c.awaiting = "none" /\ c.doc = merged /\ c.covered = log.head
      /\ c.flushedSV = sv /\ c.timer = old.timer
  BY <1>1, <1>5, <1>6, <1>7 DEF YjsClient
<1>9. /\ early' = early /\ raced' = raced /\ overlapped' = overlapped
      /\ heard' = (heard \/ ~ {x \in merged : x[1] # s} \subseteq Recoverable)
  BY <1>2, YjsRules DEF Yjs!Counts
<1>10. Contents(log) \subseteq Present
  BY <1>2 DEF Present, Holdings
<1>11. Own(s, merged) \subseteq early
  <2>1. Own(s, merged) \subseteq old.doc
    BY <1>2, <1>6, <1>10 DEF YjsInv, OwnInv, Own
  <2> QED
    BY <1>1, <1>2, <2>1 DEF YjsHolds, Own
<1>12. YjsHolds(s, c, wire'[s], Logged, early', early' \union raced')
  <2>1. Unsaved(s, c, Logged, early' \union raced') = {}
    BY <1>8, <1>9, <1>11 DEF Unsaved
  <2> QED
    BY <1>1, <1>2, <1>7, <1>8, <1>9, <1>11, <2>1 DEF YjsHolds, Fits
<1>13. ASSUME client'[s] = c PROVE Acts(s)
  <2>1. Turns(s, IF old.phase = "hydrating" THEN "live" ELSE old.phase, "none",
              old.doc \union Contents(log), log.head)
    BY <1>6, <1>8, <1>13 DEF Turns
  <2> QED
    BY <1>2, <1>4, <1>9, <2>1 DEF Acts, Hydrates
<1>14. Holdings(c, wire'[s]) \subseteq Present
  <2>1. old.doc \subseteq Present
    BY DEF Present, Holdings
  <2> QED
    BY <1>4, <1>6, <1>8, <1>10, <2>1 DEF Holdings
<1>15. Clean' => Clean /\ CleanHolds(c, wire'[s], Recoverable)
  <2> SUFFICES ASSUME Clean' PROVE Clean /\ CleanHolds(c, wire'[s], Recoverable)
    OBVIOUS
  <2>1. Clean /\ {x \in merged : x[1] # s} \subseteq Recoverable /\ early = {}
    BY <1>9 DEF Clean
  <2>2. Contents(log) = Recoverable
    BY <1>1, <1>2, <2>1 DEF Knows
  <2>3. Closed(merged)
    BY <1>1, <1>6, <2>1, <2>2, ClosedUnion DEF CleanHolds
  <2>4. merged \subseteq Recoverable
    BY <1>11, <2>1 DEF Own
  <2> QED
    BY <1>4, <1>7, <1>8, <2>1, <2>3, <2>4 DEF CleanHolds
<1>16. {heard', overlapped'} \subseteq BOOLEAN
  BY <1>9 DEF YjsInv, YjsTypes
<1>17. old.doc \subseteq c.doc
  BY <1>6, <1>8
<1> QED
  BY <1>2, <1>3, <1>8, <1>9, <1>12, <1>13, <1>14, <1>15, <1>16, <1>17,
     YjsActKeeps

(* An exchange that comes to an end without the document counting as        *)
(* flushed.                                                                 *)
LEMMA YjsEnds ==
  ASSUME YjsInv, NEW s \in Session, NEW c \in YjsClient,
         NEW old \in YjsClient, old = client[s],
         old.phase # "gone", old.awaiting # "none",
         Yjs!Become(s, c), Yjs!Send(s, Yjs!Idle),
         early' = early, raced' = raced, heard' = heard,
         overlapped' = overlapped,
         c.awaiting = "none",
         c.phase = IF old.phase = "hydrating" THEN "off" ELSE old.phase,
         c.doc = old.doc, c.dirty = old.dirty, c.flushedSV = old.flushedSV,
         c.timer = old.timer, c.enabled => old.enabled,
         \/ c.covered = old.covered
         \/ /\ old.awaiting = "snapshot" /\ wire[s].kind = "ok"
            /\ c.covered = wire[s].seq
  PROVE  YjsInv'
<1>1. /\ Wired /\ Fits(old, wire[s].kind)
      /\ YjsHolds(s, old, wire[s], Logged, early, early \union raced)
      /\ Clean => CleanHolds(old, wire[s], Recoverable)
  BY YjsHave
<1>2. /\ Wired' /\ wire'[s] = Yjs!Idle /\ StoreStays
      /\ \A t \in Session \ {s} : wire'[t] = wire[t]
  BY <1>1, YjsSends
<1>3. wire'[s].kind = "idle"
  BY <1>2 DEF Yjs!Idle
<1>4. YjsHolds(s, c, wire'[s], Logged, early', early' \union raced')
  <2>1. Unsaved(s, c, Logged, early' \union raced')
          = Unsaved(s, old, Logged, early \union raced)
    BY DEF Unsaved
  <2> QED
    BY <1>1, <1>3, <2>1 DEF YjsHolds, Fits
<1>5. ASSUME client'[s] = c PROVE Acts(s)
  <2>1. Turns(s, IF old.phase = "hydrating" THEN "off" ELSE old.phase, "none",
              old.doc, c.covered)
    BY <1>5 DEF Turns
  <2>2. c.covered \in {old.covered} \union
                  IF old.awaiting = "snapshot" /\ wire[s].kind = "ok"
                    THEN {wire[s].seq} ELSE {}
    OBVIOUS
  <2>3. Ends(s)
    BY <1>3, <2>1, <2>2 DEF Ends
  <2> QED
    BY <2>3 DEF Acts
<1>6. Holdings(c, wire'[s]) \subseteq Present
  <2>1. old.doc \subseteq Present
    BY DEF Present, Holdings
  <2> QED
    BY <1>3, <2>1 DEF Holdings
<1>7. Clean' => Clean /\ CleanHolds(c, wire'[s], Recoverable)
  BY <1>1, <1>3 DEF Clean, CleanHolds, Writes
<1>8. {heard', overlapped'} \subseteq BOOLEAN
  BY DEF YjsInv, YjsTypes
<1> QED
  BY <1>2, <1>4, <1>5, <1>6, <1>7, <1>8, YjsActKeeps

LEMMA YjsEndKeeps ==
  ASSUME YjsInv, NEW s \in Session,
         \/ Yjs!HydrateFails(s) \/ Yjs!Compacted(s) \/ Yjs!CompactFails(s)
         \/ Yjs!FlushFails(s)
  PROVE  YjsInv'
<1> PICK old : old = client[s]
  OBVIOUS
<1>1. /\ old \in YjsClient /\ Fits(old, wire[s].kind) /\ MessageOK(wire[s])
  BY YjsHave
<1>2. /\ old.phase # "gone" /\ Yjs!Send(s, Yjs!Idle) /\ old.awaiting # "none"
      /\ early' = early /\ raced' = raced /\ heard' = heard
      /\ overlapped' = overlapped
  BY DEF Yjs!HydrateFails, Yjs!Compacted, Yjs!CompactFails, Yjs!FlushFails,
         Yjs!Read, Yjs!history
<1>3. CASE Yjs!HydrateFails(s)
  <2> PICK c : c = [old EXCEPT !.awaiting = "none", !.enabled = FALSE,
                      !.phase = IF @ = "hydrating" THEN "off" ELSE @]
    OBVIOUS
  <2>1. Yjs!Become(s, c)
    BY <1>3 DEF Yjs!HydrateFails
  <2>2. /\ c \in YjsClient /\ c.awaiting = "none" /\ ~c.enabled
        /\ c.phase = IF old.phase = "hydrating" THEN "off" ELSE old.phase
        /\ c.doc = old.doc /\ c.dirty = old.dirty
        /\ c.flushedSV = old.flushedSV
        /\ c.timer = old.timer /\ c.covered = old.covered
    BY <1>1 DEF YjsClient
  <2>3. c.enabled => old.enabled
    BY <2>2
  <2>4. \/ c.covered = old.covered
        \/ /\ old.awaiting = "snapshot" /\ wire[s].kind = "ok"
           /\ c.covered = wire[s].seq
    BY <2>2
  <2> QED
    BY <1>1, <1>2, <2>1, <2>2, <2>3, <2>4, YjsEnds
<1>4. CASE Yjs!Compacted(s)
  <2> PICK seq : seq = wire[s].seq
    OBVIOUS
  <2> PICK c : c = [old EXCEPT !.awaiting = "none", !.covered = seq,
                               !.appends = 0]
    OBVIOUS
  <2>1. /\ Yjs!Become(s, c) /\ old.awaiting = "snapshot"
        /\ wire[s].kind = "ok"
    BY <1>4 DEF Yjs!Compacted, Yjs!Read
  <2>2. seq \in Nat /\ old.phase # "hydrating"
    BY <1>1, <2>1 DEF MessageOK, Fits
  <2>3. /\ c \in YjsClient /\ c.awaiting = "none" /\ (c.enabled => old.enabled)
        /\ c.phase = old.phase
        /\ c.doc = old.doc /\ c.dirty = old.dirty
        /\ c.flushedSV = old.flushedSV
        /\ c.timer = old.timer /\ c.covered = seq
    BY <1>1, <2>2 DEF YjsClient
  <2>4. c.phase = IF old.phase = "hydrating" THEN "off" ELSE old.phase
    BY <2>2, <2>3
  <2>5. c.enabled => old.enabled
    BY <2>3
  <2>6. \/ c.covered = old.covered
        \/ /\ old.awaiting = "snapshot" /\ wire[s].kind = "ok"
           /\ c.covered = wire[s].seq
    BY <2>1, <2>3
  <2> QED
    BY <1>1, <1>2, <2>1, <2>3, <2>4, <2>5, <2>6, YjsEnds
<1>5. CASE Yjs!CompactFails(s) \/ Yjs!FlushFails(s)
  <2>1. PICK kind \in {"notFound", "conflict", "failure"} :
          Yjs!Become(s, [old EXCEPT !.awaiting = "none",
                                    !.enabled = @ /\ kind # "notFound"])
    BY <1>5 DEF Yjs!CompactFails, Yjs!FlushFails
  <2> PICK c : c = [old EXCEPT !.awaiting = "none",
                               !.enabled = @ /\ kind # "notFound"]
    OBVIOUS
  <2>2. Yjs!Become(s, c) /\ old.awaiting \in {"update", "snapshot"}
    BY <1>5, <2>1 DEF Yjs!CompactFails, Yjs!FlushFails
  <2>3. old.phase # "hydrating"
    BY <1>1, <2>2 DEF Fits
  <2>4. /\ c \in YjsClient /\ c.awaiting = "none" /\ (c.enabled => old.enabled)
        /\ c.phase = old.phase
        /\ c.doc = old.doc /\ c.dirty = old.dirty
        /\ c.flushedSV = old.flushedSV
        /\ c.timer = old.timer /\ c.covered = old.covered
    BY <1>1 DEF YjsClient
  <2>5. c.phase = IF old.phase = "hydrating" THEN "off" ELSE old.phase
    BY <2>3, <2>4
  <2>6. c.enabled => old.enabled
    BY <2>4
  <2>7. \/ c.covered = old.covered
        \/ /\ old.awaiting = "snapshot" /\ wire[s].kind = "ok"
           /\ c.covered = wire[s].seq
    BY <2>4
  <2> QED
    BY <1>1, <1>2, <2>2, <2>4, <2>5, <2>6, <2>7, YjsEnds
<1> QED
  BY <1>3, <1>4, <1>5

(* Only the document grows, by the session's own edits or by what is about. *)
LEMMA YjsMerges ==
  ASSUME YjsInv, NEW s \in Session, NEW c \in YjsClient,
         NEW old \in YjsClient, old = client[s],
         Yjs!Become(s, c), Yjs!Quiet, overlapped' = overlapped, heard' = heard,
         early \subseteq early', raced \subseteq raced',
         c.phase = old.phase, c.phase # "gone", c.awaiting = old.awaiting,
         old.doc \subseteq c.doc, c.covered = old.covered,
         c.flushedSV = old.flushedSV,
         \A x \in c.doc : x \in Present \/ x[1] = s,
         YjsHolds(s, c, wire[s], Logged, early', early' \union raced'),
         Clean /\ early' = {} /\ raced' = {} => Closed(c.doc)
  PROVE  YjsInv'
<1>1. Wired' /\ wire' = wire /\ StoreStays
  BY YjsHave, YjsQuiet
<1>2. ASSUME client'[s] = c PROVE Acts(s)
  <2>1. old.doc \union c.doc = c.doc /\ c.doc \in SUBSET Item
    BY DEF YjsClient
  <2>0. Turns(s, old.phase, old.awaiting, old.doc \union c.doc, old.covered)
    BY <1>2, <2>1 DEF Turns
  <2>2. Merges(s)
    BY <1>1, <2>0, <2>1 DEF Merges
  <2> QED
    BY <2>2 DEF Acts
<1>3. \A x \in Holdings(c, wire'[s]) : x \in Present \/ (x[1] = s /\ x \in c.doc)
  <2>1. Holdings(c, wire'[s]) \subseteq c.doc \union Holdings(old, wire[s])
    BY <1>1 DEF Holdings
  <2>2. Holdings(old, wire[s]) \subseteq Present
    BY DEF Present
  <2> QED
    BY <2>1, <2>2
<1>4. Clean' => Clean /\ CleanHolds(c, wire'[s], Recoverable)
  <2> SUFFICES ASSUME Clean' PROVE Clean /\ CleanHolds(c, wire'[s], Recoverable)
    OBVIOUS
  <2>1. Clean /\ early' = {} /\ raced' = {}
    BY DEF Clean
  <2>2. CleanHolds(old, wire[s], Recoverable)
    BY <2>1, YjsHave
  <2>3. Closed(c.doc)
    BY <2>1
  <2> QED
    BY <1>1, <2>1, <2>2, <2>3 DEF CleanHolds, Writes
<1>5. {heard', overlapped'} \subseteq BOOLEAN
  BY DEF YjsInv, YjsTypes
<1>6. YjsHolds(s, c, wire'[s], Logged, early', early' \union raced')
  BY <1>1
<1> QED
  BY <1>1, <1>2, <1>3, <1>4, <1>5, <1>6, YjsActKeeps

LEMMA YjsGossipKeeps ==
  ASSUME YjsInv, NEW s \in Session, NEW t \in Session, Yjs!Gossip(s, t)
  PROVE  YjsInv'
<1> PICK old : old = client[s]
  OBVIOUS
<1> PICK missing : missing = Yjs!Beyond(client[t].doc, Yjs!StateVector(old.doc))
  OBVIOUS
<1> PICK c : c = [old EXCEPT !.doc = @ \union missing]
  OBVIOUS
<1>1. /\ old \in YjsClient /\ old.doc \in SUBSET Item
      /\ client[t].doc \in SUBSET Item
      /\ YjsHolds(s, old, wire[s], Logged, early, early \union raced)
      /\ Clean => CleanHolds(old, wire[s], Recoverable)
      /\ Clean => CleanHolds(client[t], wire[t], Recoverable)
  BY YjsHave
<1>2. /\ Yjs!Become(s, c) /\ Yjs!Quiet /\ overlapped' = overlapped
      /\ early' = early /\ raced' = raced /\ heard' = heard
      /\ old.phase # "gone"
  BY DEF Yjs!Gossip, Yjs!history
<1>3. missing \subseteq client[t].doc
  BY DEF Yjs!Beyond
<1>4. /\ c \in YjsClient /\ c.phase = old.phase /\ c.awaiting = old.awaiting
      /\ c.doc = old.doc \union missing /\ c.covered = old.covered
      /\ c.flushedSV = old.flushedSV /\ c.timer = old.timer
      /\ c.dirty = old.dirty /\ c.enabled = old.enabled
  BY <1>1, <1>3 DEF YjsClient
<1>5. missing \subseteq Present /\ old.doc \subseteq Present
  BY <1>3 DEF Present, Holdings
<1>6. Own(s, c.doc) = Own(s, old.doc)
  BY <1>2, <1>4, <1>5 DEF YjsInv, OwnInv, Own
<1>7. YjsHolds(s, c, wire[s], Logged, early', early' \union raced')
  <2>1. Unsaved(s, c, Logged, early' \union raced')
          = Unsaved(s, old, Logged, early \union raced)
    BY <1>2, <1>6 DEF Unsaved
  <2>2. Yjs!Beyond(old.doc, old.flushedSV) \subseteq Yjs!Beyond(c.doc, c.flushedSV)
    BY <1>4 DEF Yjs!Beyond
  <2>3. Prefix(c.flushedSV) \subseteq c.doc
    BY <1>1, <1>4 DEF YjsHolds
  <2> QED
    BY <1>1, <1>2, <1>4, <1>6, <2>1, <2>2, <2>3 DEF YjsHolds
<1>8. Clean => Closed(c.doc)
  <2>1. c.doc = old.doc \union client[t].doc
    BY <1>1, <1>4, ExchangedIs
  <2> QED
    BY <1>1, <2>1, ClosedUnion DEF CleanHolds
<1>9. \A x \in c.doc : x \in Present \/ x[1] = s
  BY <1>4, <1>5
<1>10. old.doc \subseteq c.doc /\ c.phase # "gone"
  BY <1>2, <1>4
<1> QED
  BY <1>1, <1>2, <1>4, <1>7, <1>8, <1>9, <1>10, YjsMerges

(* A local edit: the next struct of the session's own.                      *)
LEMMA YjsEditKeeps ==
  ASSUME YjsInv, NEW s \in Session, Yjs!Edit(s)
  PROVE  YjsInv'
<1> PICK old : old = client[s]
  OBVIOUS
<1> PICK n : n = Yjs!StateVector(old.doc)[s]
  OBVIOUS
<1> PICK x : x = <<s, n + 1>>
  OBVIOUS
<1> PICK c : c = [old EXCEPT !.doc = @ \union {x},
                             !.dirty = @ \/ old.phase = "live",
                             !.timer = @ \/ (old.phase = "live" /\ old.enabled)]
  OBVIOUS
<1>1. /\ old \in YjsClient /\ old.doc \in SUBSET Item
      /\ YjsHolds(s, old, wire[s], Logged, early, early \union raced)
      /\ Clean => CleanHolds(old, wire[s], Recoverable)
      /\ Fits(old, wire[s].kind)
  BY YjsHave
<1>2. /\ Yjs!Become(s, c) /\ Yjs!Quiet /\ overlapped' = overlapped
      /\ heard' = heard /\ old.phase \in {"hydrating", "live", "off"}
      /\ x \in Item /\ x[1] = s
      /\ early' = early \union (IF old.phase = "live" THEN {} ELSE {x})
      /\ raced' = raced \union (IF old.awaiting = "update" THEN {x} ELSE {})
  BY YjsRules DEF Yjs!Edit
<1>3. /\ c \in YjsClient /\ c.phase = old.phase /\ c.awaiting = old.awaiting
      /\ c.doc = old.doc \union {x} /\ c.covered = old.covered
      /\ c.flushedSV = old.flushedSV /\ (c.enabled <=> old.enabled)
      /\ (c.dirty <=> (old.dirty \/ old.phase = "live"))
      /\ (c.timer => old.timer \/ old.phase = "live")
  BY <1>1, <1>2 DEF YjsClient
<1>4. x \in Yjs!Beyond(c.doc, c.flushedSV)
  <2>1. n \in 0..MaxOps /\ (n < MaxOps => x \notin old.doc)
    BY <1>1, VectorIs
  <2>2. n + 1 \in 1..MaxOps /\ n < MaxOps
    <3>1. n + 1 \in 1..MaxOps
      BY <1>2 DEF Item
    <3> QED
      BY <2>1, <3>1, ClientsAreSet
  <2>3. x \notin old.doc
    BY <2>1, <2>2
  <2>4. x \notin Prefix(old.flushedSV)
    BY <1>1, <2>3 DEF YjsHolds
  <2>5. old.flushedSV[s] \in Nat /\ n + 1 \in Nat
    BY <1>1, <2>2, ClientsAreSet DEF YjsClient
  <2>6. x[2] > old.flushedSV[x[1]]
    BY <1>2, <2>4, <2>5 DEF Prefix
  <2> QED
    BY <1>3, <2>6 DEF Yjs!Beyond
<1>5. YjsHolds(s, c, wire[s], Logged, early', early' \union raced')
  <2> PICK apart : apart = early \union raced
    OBVIOUS
  <2> PICK apart2 : apart2 = early' \union raced'
    OBVIOUS
  <2>1. Unsaved(s, c, Logged, apart2) \subseteq Unsaved(s, old, Logged, apart) \union {x}
    BY <1>2, <1>3 DEF Unsaved, Own
  <2>2. old.awaiting = "update" \/ old.phase # "live" =>
          Unsaved(s, c, Logged, apart2) \subseteq Unsaved(s, old, Logged, apart)
    BY <1>2, <1>3 DEF Unsaved, Own
  <2>3. Yjs!Beyond(old.doc, old.flushedSV) \subseteq Yjs!Beyond(c.doc, c.flushedSV)
    BY <1>3 DEF Yjs!Beyond
  <2>4. c.timer => c.phase = "live"
    BY <1>1, <1>3 DEF YjsHolds
  <2>5. Prefix(c.flushedSV) \subseteq c.doc
    BY <1>1, <1>3 DEF YjsHolds
  <2>6. c.phase \in {"unopened", "hydrating", "off"} \/ c.awaiting = "load" =>
          Own(s, c.doc) \subseteq early'
    BY <1>1, <1>2, <1>3 DEF YjsHolds, Fits, Own
  <2>7. c.phase \in {"live", "stopped"} /\ c.enabled =>
          \/ Unsaved(s, c, Logged, apart2) = {}
          \/ /\ c.dirty
             /\ Unsaved(s, c, Logged, apart2) \subseteq Yjs!Beyond(c.doc, c.flushedSV)
    <3> SUFFICES ASSUME c.phase \in {"live", "stopped"} /\ c.enabled
                 PROVE  /\ c.dirty
                        /\ Unsaved(s, c, Logged, apart2)
                             \subseteq Yjs!Beyond(c.doc, c.flushedSV)
      OBVIOUS
    <3>1. old.phase = "live" /\ old.enabled /\ c.dirty
      BY <1>2, <1>3
    <3>2. Unsaved(s, old, Logged, apart) \subseteq Yjs!Beyond(old.doc, old.flushedSV)
      BY <1>1, <3>1 DEF YjsHolds
    <3> QED
      BY <1>4, <2>1, <2>3, <3>1, <3>2
  <2>8. c.awaiting = "update" /\ wire[s].kind = "update" =>
          Unsaved(s, c, Logged, apart2) \subseteq wire[s].items
    BY <1>1, <1>3, <2>2 DEF YjsHolds
  <2>9. c.awaiting = "update" /\ wire[s].kind \in {"appended", "ok"} =>
          Unsaved(s, c, Logged, apart2) = {}
    BY <1>1, <1>3, <2>2 DEF YjsHolds
  <2> QED
    BY <2>4, <2>5, <2>6, <2>7, <2>8, <2>9 DEF YjsHolds
<1>6. Clean => Closed(c.doc)
  BY <1>1, <1>3, ClosedEdit DEF CleanHolds
<1>7. \A y \in c.doc : y \in Present \/ y[1] = s
  <2>1. old.doc \subseteq Present
    BY DEF Present, Holdings
  <2> QED
    BY <1>2, <1>3, <2>1
<1>8. /\ old.doc \subseteq c.doc /\ c.phase # "gone"
      /\ early \subseteq early' /\ raced \subseteq raced'
  BY <1>2, <1>3
<1> QED
  <2>1. old \in YjsClient /\ c \in YjsClient
    BY <1>1, <1>3
  <2>2. /\ Yjs!Become(s, c) /\ Yjs!Quiet /\ overlapped' = overlapped
        /\ heard' = heard
    BY <1>2
  <2>3. /\ c.phase = old.phase /\ c.awaiting = old.awaiting
        /\ c.covered = old.covered /\ c.flushedSV = old.flushedSV
    BY <1>3
  <2>4. Clean /\ early' = {} /\ raced' = {} => Closed(c.doc)
    BY <1>6
  <2> QED
    BY <1>5, <1>7, <1>8, <2>1, <2>2, <2>3, <2>4, YjsMerges

(* stop() of a session that does not flush.                                 *)
LEMMA YjsUnmounts ==
  ASSUME YjsInv, NEW s \in Session, NEW old \in YjsClient, old = client[s],
         old.phase \in {"hydrating", "live", "off"},
         Yjs!Become(s, [old EXCEPT !.phase = "stopped", !.timer = FALSE]),
         Yjs!Quiet, early' = early, raced' = raced, heard' = heard,
         overlapped' = overlapped
  PROVE  YjsInv'
<1> PICK c : c = [old EXCEPT !.phase = "stopped", !.timer = FALSE]
  OBVIOUS
<1>1. /\ Wired' /\ wire' = wire /\ StoreStays
      /\ \A t \in Session \ {s} : wire'[t] = wire[t]
  BY YjsHave, YjsQuiet
<1>2. /\ YjsHolds(s, old, wire[s], Logged, early, early \union raced)
      /\ Clean => CleanHolds(old, wire[s], Recoverable)
      /\ Fits(old, wire[s].kind)
  BY YjsHave
<1>3. /\ c \in YjsClient /\ c.phase = "stopped" /\ c.awaiting = old.awaiting
      /\ c.doc = old.doc /\ (c.dirty <=> old.dirty)
      /\ c.covered = old.covered /\ c.flushedSV = old.flushedSV
      /\ (c.enabled <=> old.enabled) /\ ~c.timer
  BY DEF YjsClient
<1>4. YjsHolds(s, c, wire'[s], Logged, early', early' \union raced')
  <2>1. Unsaved(s, c, Logged, early' \union raced')
          = Unsaved(s, old, Logged, early \union raced)
    BY <1>3 DEF Unsaved
  <2>2. old.phase \in {"hydrating", "off"} =>
          Unsaved(s, old, Logged, early \union raced) = {}
    BY <1>2 DEF YjsHolds, Unsaved
  <2> QED
    BY <1>1, <1>2, <1>3, <2>1, <2>2 DEF YjsHolds
<1>5. ASSUME client'[s] = c PROVE Acts(s)
  <2>1. Turns(s, "stopped", old.awaiting, old.doc, old.covered)
    BY <1>3, <1>5 DEF Turns
  <2>2. Unmounts(s)
    BY <1>1, <2>1 DEF Unmounts
  <2> QED
    BY <2>2 DEF Acts
<1>6. Holdings(c, wire'[s]) \subseteq Present
  BY <1>1, <1>3 DEF Holdings, Present
<1>7. Clean' => Clean /\ CleanHolds(c, wire'[s], Recoverable)
  BY <1>1, <1>2, <1>3 DEF Clean, CleanHolds, Writes
<1>8. {heard', overlapped'} \subseteq BOOLEAN
  BY DEF YjsInv, YjsTypes
<1>9. old.doc \subseteq c.doc /\ old.phase # "gone"
  BY <1>3
<1> QED
  BY <1>1, <1>3, <1>4, <1>5, <1>6, <1>7, <1>8, <1>9, YjsActKeeps

(* flush() of a session that has something to send.                         *)
LEMMA YjsFlushSends ==
  ASSUME YjsInv, NEW s \in Session, NEW old \in YjsClient, old = client[s],
         NEW c \in YjsClient, NEW items \in SUBSET Item,
         items = Yjs!Beyond(old.doc, old.flushedSV),
         old.phase = "live", old.awaiting = "none", old.enabled, old.dirty,
         c.phase \in {"live", "stopped"}, c.awaiting = "update",
         c.doc = old.doc, c.dirty = old.dirty, c.flushedSV = old.flushedSV,
         ~c.timer, c.enabled = old.enabled, c.covered = old.covered,
         Yjs!Become(s, c), Yjs!Send(s, Yjs!UpdateRequest(items)),
         early' = early, raced' = raced, heard' = heard,
         overlapped' = overlapped
  PROVE  YjsInv'
<1>1. /\ Wired /\ old.doc \in SUBSET Item
      /\ YjsHolds(s, old, wire[s], Logged, early, early \union raced)
      /\ Clean => Closed(Recoverable) /\ CleanHolds(old, wire[s], Recoverable)
  BY YjsHave
<1>2. /\ Wired' /\ wire'[s] = Yjs!UpdateRequest(items) /\ StoreStays
      /\ \A t \in Session \ {s} : wire'[t] = wire[t]
  BY <1>1, YjsSends
<1>3. wire'[s].kind = "update" /\ wire'[s].items = items
  BY <1>2 DEF Yjs!UpdateRequest
<1>4. items \subseteq old.doc /\ old.doc \subseteq Prefix(old.flushedSV) \union items
  BY <1>1, BeyondIs DEF YjsClient
<1>5. YjsHolds(s, c, wire'[s], Logged, early', early' \union raced')
  <2>1. Unsaved(s, c, Logged, early' \union raced')
          = Unsaved(s, old, Logged, early \union raced)
    BY DEF Unsaved
  <2>2. Unsaved(s, old, Logged, early \union raced) \subseteq items
    BY <1>1 DEF YjsHolds
  <2> QED
    BY <1>1, <1>3, <2>1, <2>2 DEF YjsHolds
<1>6. ASSUME client'[s] = c PROVE Acts(s)
  <2>1. Turns(s, c.phase, "update", old.doc, old.covered)
    BY <1>6 DEF Turns
  <2>2. Sends(s)
    BY <1>3, <1>4, <2>1 DEF Sends
  <2> QED
    BY <2>2 DEF Acts
<1>7. Holdings(c, wire'[s]) \subseteq Present
  <2>1. old.doc \subseteq Present
    BY DEF Present, Holdings
  <2> QED
    BY <1>3, <1>4, <2>1 DEF Holdings
<1>8. Clean' => Clean /\ CleanHolds(c, wire'[s], Recoverable)
  <2> SUFFICES ASSUME Clean' PROVE Clean /\ CleanHolds(c, wire'[s], Recoverable)
    OBVIOUS
  <2>1. Clean /\ Closed(Recoverable) /\ CleanHolds(old, wire[s], Recoverable)
    BY <1>1 DEF Clean
  <2>2. Prefix(old.flushedSV) \subseteq Recoverable
    BY <2>1 DEF CleanHolds, Writes
  <2>3. Recoverable \union items = Recoverable \union old.doc
    BY <1>4, <2>2
  <2>4. Closed(Recoverable \union items)
    BY <2>1, <2>3, ClosedUnion DEF CleanHolds
  <2> QED
    BY <1>3, <2>1, <2>2, <2>4 DEF CleanHolds
<1>9. {heard', overlapped'} \subseteq BOOLEAN
  BY DEF YjsInv, YjsTypes
<1>10. old.doc \subseteq c.doc /\ old.phase # "gone"
  OBVIOUS
<1> QED
  BY <1>2, <1>5, <1>6, <1>7, <1>8, <1>9, <1>10, YjsActKeeps

(* flush() from the timer, or from stop().                                  *)
LEMMA YjsFlushKeeps ==
  ASSUME YjsInv, NEW s \in Session, NEW old \in YjsClient, old = client[s],
         old.phase = "live", NEW phase \in {"live", "stopped"},
         Yjs!Flush(s, [old EXCEPT !.phase = phase, !.timer = FALSE]),
         early' = early, raced' = raced, heard' = heard,
         overlapped' = overlapped
  PROVE  YjsInv'
<1> PICK c : c = [old EXCEPT !.phase = phase, !.timer = FALSE]
  OBVIOUS
<1>1. /\ c \in YjsClient /\ c.phase = phase /\ c.awaiting = old.awaiting
      /\ c.doc = old.doc /\ c.dirty = old.dirty
      /\ c.flushedSV = old.flushedSV /\ ~c.timer
      /\ c.enabled = old.enabled /\ c.covered = old.covered
  BY DEF YjsClient
<1>2. Yjs!Flush(s, c)
  OBVIOUS
<1>3. CASE c.enabled /\ c.awaiting = "none" /\ c.dirty
  <2> PICK d : d = [c EXCEPT !.awaiting = "update"]
    OBVIOUS
  <2> PICK items : items = Yjs!Beyond(old.doc, old.flushedSV)
    OBVIOUS
  <2>1. /\ Yjs!Become(s, d) /\ Yjs!Send(s, Yjs!UpdateRequest(items))
    <3>1. items = Yjs!Beyond(c.doc, c.flushedSV)
      BY <1>1
    <3> QED
      BY <1>2, <1>3, <3>1 DEF Yjs!Flush
  <2>2. /\ d \in YjsClient /\ d.phase = c.phase
        /\ d.awaiting = "update" /\ d.doc = c.doc /\ d.dirty = c.dirty
        /\ d.flushedSV = c.flushedSV /\ ~d.timer /\ d.enabled = c.enabled
        /\ d.covered = c.covered
    BY <1>1 DEF YjsClient
  <2>3. /\ d.phase \in {"live", "stopped"} /\ d.doc = old.doc
        /\ d.dirty = old.dirty /\ d.flushedSV = old.flushedSV
        /\ d.enabled = old.enabled /\ d.covered = old.covered
    BY <1>1, <2>2
  <2>4. items \in SUBSET Item
    BY DEF YjsClient, Yjs!Beyond
  <2>5. old.awaiting = "none" /\ old.enabled /\ old.dirty
    BY <1>1, <1>3
  <2> QED
    BY <2>1, <2>2, <2>3, <2>4, <2>5, YjsFlushSends
<1>4. CASE ~ (c.enabled /\ c.awaiting = "none" /\ c.dirty)
  <2>1. Yjs!Become(s, c) /\ Yjs!Quiet
    BY <1>2, <1>4 DEF Yjs!Flush
  <2>2. CASE phase = "stopped"
    BY <2>1, <2>2, YjsUnmounts
  <2>3. CASE phase = "live"
    <3>1. /\ YjsHolds(s, old, wire[s], Logged, early, early \union raced)
          /\ Clean => CleanHolds(old, wire[s], Recoverable)
      BY YjsHave
    <3>2. YjsHolds(s, c, wire[s], Logged, early', early' \union raced')
      <4>1. Unsaved(s, c, Logged, early' \union raced')
              = Unsaved(s, old, Logged, early \union raced)
        BY <1>1 DEF Unsaved
      <4> QED
        BY <1>1, <2>3, <3>1, <4>1 DEF YjsHolds
    <3>3. Clean /\ early' = {} /\ raced' = {} => Closed(c.doc)
      BY <1>1, <3>1 DEF CleanHolds
    <3>4. \A x \in c.doc : x \in Present \/ x[1] = s
      BY <1>1 DEF Present, Holdings
    <3>5. /\ c.phase = old.phase /\ c.phase # "gone"
          /\ early \subseteq early' /\ raced \subseteq raced'
          /\ old.doc \subseteq c.doc
      BY <1>1, <2>3
    <3> QED
      BY <1>1, <2>1, <3>2, <3>3, <3>4, <3>5, YjsMerges
  <2> QED
    BY <2>2, <2>3
<1> QED
  BY <1>3, <1>4

LEMMA YjsTimerStopKeeps ==
  ASSUME YjsInv, NEW s \in Session, Yjs!TimerFires(s) \/ Yjs!Stop(s)
  PROVE  YjsInv'
<1> PICK old : old = client[s]
  OBVIOUS
<1>1. /\ old \in YjsClient
      /\ YjsHolds(s, old, wire[s], Logged, early, early \union raced)
  BY YjsHave
<1>2. /\ early' = early /\ raced' = raced /\ heard' = heard
      /\ overlapped' = overlapped
  BY DEF Yjs!TimerFires, Yjs!Stop, Yjs!history
<1>3. CASE Yjs!TimerFires(s)
  <2>1. old.timer /\ Yjs!Flush(s, [old EXCEPT !.timer = FALSE])
    BY <1>3 DEF Yjs!TimerFires
  <2>2. old.phase = "live"
    BY <1>1, <2>1 DEF YjsHolds
  <2>3. [old EXCEPT !.timer = FALSE]
          = [old EXCEPT !.phase = "live", !.timer = FALSE]
    BY <1>1, <2>2 DEF YjsClient
  <2> QED
    BY <1>1, <1>2, <2>1, <2>2, <2>3, YjsFlushKeeps
<1>4. CASE Yjs!Stop(s)
  <2>1. CASE /\ old.phase = "live"
             /\ Yjs!Flush(s, [old EXCEPT !.phase = "stopped", !.timer = FALSE])
    BY <1>1, <1>2, <2>1, YjsFlushKeeps
  <2>2. CASE /\ old.phase \in {"hydrating", "off"} /\ Yjs!Quiet
             /\ Yjs!Become(s, [old EXCEPT !.phase = "stopped", !.timer = FALSE])
    BY <1>1, <1>2, <2>2, YjsUnmounts
  <2> QED
    BY <1>4, <2>1, <2>2 DEF Yjs!Stop
<1> QED
  BY <1>3, <1>4

(* The rest of a flush() that went well: it ends, or goes on to snapshot(). *)
LEMMA YjsGoesOn ==
  ASSUME YjsInv, NEW s \in Session, NEW old \in YjsClient, old = client[s],
         old.awaiting = "update", old.phase # "gone", wire[s].kind = "ok",
         early' = early, raced' = raced, overlapped' = overlapped,
         heard' = (heard \/ ~ {x \in old.doc : x[1] # s} \subseteq Recoverable),
         NEW mid \in YjsClient, mid.phase = old.phase, mid.doc = old.doc,
         mid.covered = wire[s].seq, mid.flushedSV = Yjs!StateVector(old.doc),
         mid.timer => old.timer,
         NEW next \in {"none", "snapshot"},
         Yjs!Become(s, [mid EXCEPT !.awaiting = next]),
         Yjs!Send(s, IF next = "snapshot"
                       THEN Yjs!SnapshotRequest(mid.doc, mid.covered)
                       ELSE Yjs!Idle)
  PROVE  YjsInv'
<1>1. /\ Wired /\ old.doc \in SUBSET Item /\ Fits(old, wire[s].kind)
      /\ YjsHolds(s, old, wire[s], Logged, early, early \union raced)
      /\ Clean => /\ CleanHolds(old, wire[s], Recoverable)
                  /\ Logged \subseteq Recoverable
  BY YjsHave
<1>2. PICK c \in YjsClient :
        /\ Yjs!Become(s, c) /\ c.phase = mid.phase /\ c.awaiting = next
        /\ c.doc = mid.doc /\ c.flushedSV = mid.flushedSV
        /\ c.covered = mid.covered /\ (c.timer => mid.timer)
  <2> PICK c : c = [mid EXCEPT !.awaiting = next]
    OBVIOUS
  <2>1. Yjs!Become(s, c)
    OBVIOUS
  <2>2. /\ c \in YjsClient /\ c.phase = mid.phase /\ c.awaiting = next
        /\ c.doc = mid.doc /\ c.flushedSV = mid.flushedSV
        /\ c.covered = mid.covered /\ (c.timer => mid.timer)
    BY DEF YjsClient
  <2> QED
    BY <2>1, <2>2
<1>3. /\ Wired' /\ StoreStays
      /\ wire'[s] = IF next = "snapshot"
                      THEN Yjs!SnapshotRequest(mid.doc, mid.covered)
                      ELSE Yjs!Idle
      /\ \A t \in Session \ {s} : wire'[t] = wire[t]
  BY <1>1, YjsSends
<1>4. \/ next = "none" /\ wire'[s].kind = "idle"
      \/ /\ next = "snapshot" /\ wire'[s].kind = "snapshot"
         /\ wire'[s].items = old.doc /\ wire'[s].floor = wire[s].seq
  BY <1>3 DEF Yjs!Idle, Yjs!SnapshotRequest
<1>5. Prefix(c.flushedSV) \subseteq old.doc
  BY <1>1, <1>2, VectorCovers
<1>6. Own(s, old.doc) \subseteq early \union raced \union Logged
  BY <1>1 DEF YjsHolds, Unsaved
<1>7. YjsHolds(s, c, wire'[s], Logged, early', early' \union raced')
  <2>1. Unsaved(s, c, Logged, early' \union raced') = {}
    BY <1>2, <1>6 DEF Unsaved
  <2>2. c.phase \notin {"unopened", "hydrating", "off"} /\ c.awaiting # "load"
    BY <1>1, <1>2 DEF Fits
  <2>3. c.timer => c.phase = "live"
    BY <1>1, <1>2 DEF YjsHolds
  <2> QED
    BY <1>2, <1>5, <2>1, <2>2, <2>3 DEF YjsHolds
<1>8. ASSUME client'[s] = c PROVE Acts(s)
  <2>1. Turns(s, old.phase, next, old.doc, wire[s].seq)
    BY <1>2, <1>8 DEF Turns
  <2>2. Goes(s)
    BY <1>4, <2>1 DEF Goes
  <2> QED
    BY <2>2 DEF Acts
<1>9. Holdings(c, wire'[s]) \subseteq Present
  <2>1. old.doc \subseteq Present
    BY DEF Present, Holdings
  <2> QED
    BY <1>2, <1>4, <2>1 DEF Holdings
<1>10. Clean' => Clean /\ CleanHolds(c, wire'[s], Recoverable)
  <2> SUFFICES ASSUME Clean' PROVE Clean /\ CleanHolds(c, wire'[s], Recoverable)
    OBVIOUS
  <2>1. /\ Clean /\ early = {} /\ raced = {}
        /\ {x \in old.doc : x[1] # s} \subseteq Recoverable
    BY DEF Clean
  <2>2. Closed(old.doc) /\ Logged \subseteq Recoverable
    BY <1>1, <2>1 DEF CleanHolds
  <2>3. old.doc \subseteq Recoverable
    BY <1>6, <2>1, <2>2 DEF Own
  <2> QED
    BY <1>2, <1>4, <1>5, <2>1, <2>2, <2>3 DEF CleanHolds
<1>11. {heard', overlapped'} \subseteq BOOLEAN
  BY DEF YjsInv, YjsTypes
<1>12. /\ Yjs!Become(s, c) /\ old.doc \subseteq c.doc
       /\ early \subseteq early' /\ raced \subseteq raced'
  BY <1>2
<1> QED
  BY <1>3, <1>7, <1>8, <1>9, <1>10, <1>11, <1>12, YjsActKeeps

LEMMA YjsFlushedKeeps ==
  ASSUME YjsInv, NEW s \in Session, Yjs!Flushed(s)
  PROVE  YjsInv'
<1> PICK old : old = client[s]
  OBVIOUS
<1> PICK seq : seq = wire[s].seq
  OBVIOUS
<1> PICK n : n = IF old.appends < SnapshotEvery THEN old.appends + 1
                                                ELSE old.appends
  OBVIOUS
<1> PICK sv : sv = Yjs!StateVector(old.doc)
  OBVIOUS
<1> PICK mid : mid = [old EXCEPT !.covered = seq, !.dirty = FALSE,
                                 !.flushedSV = sv, !.appends = n]
  OBVIOUS
<1>1. old \in YjsClient /\ MessageOK(wire[s]) /\ old.doc \in SUBSET Item
  BY YjsHave
<1>2. old.awaiting = "update" /\ old.phase # "gone" /\ wire[s].kind = "ok"
  BY DEF Yjs!Flushed
<1>3. seq \in Nat
  BY <1>1, <1>2 DEF MessageOK
<1>4. /\ mid \in YjsClient /\ mid.phase = old.phase
      /\ mid.doc = old.doc /\ mid.covered = seq
      /\ mid.flushedSV = sv /\ (mid.timer => old.timer)
  <2>1. n \in Nat
    BY <1>1 DEF YjsClient
  <2>2. sv \in [Session -> 0..MaxOps]
    BY <1>1, VectorType
  <2> QED
    BY <1>1, <1>2, <1>3, <2>1, <2>2 DEF YjsClient
<1>5. mid = [old EXCEPT !.covered = wire[s].seq, !.dirty = FALSE,
                        !.flushedSV = Yjs!StateVector(old.doc),
                        !.appends = IF @ < SnapshotEvery THEN @ + 1 ELSE @]
  OBVIOUS
<1>6. \/ /\ Yjs!Become(s, [mid EXCEPT !.awaiting = "snapshot"])
         /\ Yjs!Send(s, Yjs!SnapshotRequest(mid.doc, mid.covered))
      \/ /\ Yjs!Become(s, [mid EXCEPT !.awaiting = "none"])
         /\ Yjs!Send(s, Yjs!Idle)
  BY <1>5 DEF Yjs!Flushed
<1>7. Yjs!Counts(s, old.doc)
  <2>1. Yjs!Counts(s, mid.doc)
    BY <1>5 DEF Yjs!Flushed
  <2> QED
    BY <1>4, <2>1
<1>8. /\ early' = early /\ raced' = raced /\ overlapped' = overlapped
      /\ heard' = (heard \/ ~ {x \in old.doc : x[1] # s} \subseteq Recoverable)
  BY <1>7, YjsRules DEF Yjs!Counts
<1>9. CASE /\ Yjs!Become(s, [mid EXCEPT !.awaiting = "snapshot"])
           /\ Yjs!Send(s, Yjs!SnapshotRequest(mid.doc, mid.covered))
  BY <1>1, <1>2, <1>4, <1>8, <1>9, YjsGoesOn
<1>10. CASE /\ Yjs!Become(s, [mid EXCEPT !.awaiting = "none"])
            /\ Yjs!Send(s, Yjs!Idle)
  BY <1>1, <1>2, <1>4, <1>8, <1>10, YjsGoesOn
<1> QED
  BY <1>6, <1>9, <1>10

LEMMA YjsKillKeeps ==
  ASSUME YjsInv, NEW s \in Session, Yjs!Kill(s)
  PROVE  YjsInv'
<1> PICK c : c = [Yjs!NewClient EXCEPT !.phase = "gone"]
  OBVIOUS
<1>1. /\ Yjs!Become(s, c) /\ Yjs!Quiet /\ early' = early /\ raced' = raced
      /\ heard' = heard /\ overlapped' = overlapped
  BY DEF Yjs!Kill, Yjs!history
<1>2. /\ Wired' /\ wire' = wire /\ StoreStays
      /\ \A t \in Session \ {s} : wire'[t] = wire[t]
      /\ Clean => CleanHolds(client[s], wire[s], Recoverable)
  BY <1>1, YjsHave, YjsQuiet
<1> PICK sv : sv = Yjs!StateVector({})
  OBVIOUS
<1>3. sv \in [Session -> 0..MaxOps] /\ Prefix(sv) = {}
  BY VectorType, VectorCovers
<1>4. /\ c \in YjsClient /\ c.phase = "gone" /\ c.awaiting = "none"
      /\ c.doc = {} /\ c.covered = 0 /\ c.flushedSV = sv /\ ~c.timer
  BY <1>3 DEF YjsClient, Yjs!NewClient
<1>5. YjsHolds(s, c, wire'[s], Logged, early', early' \union raced')
  BY <1>3, <1>4 DEF YjsHolds
<1>6. ASSUME client'[s] = c PROVE Acts(s)
  <2>1. Dies(s)
    BY <1>2, <1>4, <1>6 DEF Dies, Turns
  <2> QED
    BY <1>1, <2>1 DEF Acts
<1>7. Holdings(c, wire'[s]) \subseteq Present
  BY <1>2, <1>4 DEF Holdings, Present
<1>8. Clean' => Clean /\ CleanHolds(c, wire'[s], Recoverable)
  BY <1>1, <1>2, <1>3, <1>4 DEF Clean, CleanHolds, Writes, Closed
<1>9. {heard', overlapped'} \subseteq BOOLEAN
  BY <1>1 DEF YjsInv, YjsTypes
<1> QED
  BY <1>1, <1>2, <1>4, <1>5, <1>6, <1>7, <1>8, <1>9, YjsActKeeps

LEMMA YjsKeeps ==
  ASSUME YjsInv, Yjs!Next PROVE YjsInv'
<1>1. CASE Yjs!Server
  BY <1>1, YjsServedKeeps DEF Yjs!Server, Yjs!history
<1>2. ASSUME NEW s \in Session, Yjs!Editor(s) \/ Yjs!Resume(s)
      PROVE  YjsInv'
  BY <1>2, YjsOpenKeeps, YjsEditKeeps, YjsTimerStopKeeps, YjsKillKeeps,
     YjsGossipKeeps, YjsHydratedKeeps, YjsEndKeeps, YjsFlushedKeeps
  DEF Yjs!Editor, Yjs!Resume
<1> QED
  BY <1>1, <1>2 DEF Yjs!Next

LEMMA YjsStarts ==
  ASSUME Yjs!Init PROVE YjsInv
<1> PICK c : c = Yjs!NewClient
  OBVIOUS
<1> PICK sv : sv = Yjs!StateVector({})
  OBVIOUS
<1>0. sv \in [Session -> 0..MaxOps] /\ Prefix(sv) = {}
  BY VectorType, VectorCovers
<1>1. /\ c \in YjsClient /\ c.phase = "unopened" /\ c.awaiting = "none"
      /\ c.doc = {} /\ c.covered = 0 /\ c.flushedSV = sv /\ ~c.timer
  BY <1>0 DEF YjsClient, Yjs!NewClient
<1>2. /\ snap = [seq |-> 0, floor |-> 0, data |-> {}] /\ frames = {}
      /\ accepted = {} /\ wire = [s \in Session |-> Yjs!Idle]
      /\ client = [s \in Session |-> c] /\ early = {} /\ raced = {}
      /\ heard = FALSE /\ overlapped = FALSE
  BY DEF Yjs!Init, Yjs!ServiceInit, Yjs!NoSnapshot
<1>3. Highest = 0
  BY <1>2, HeadIs DEF Highest
<1>4. StoreOK /\ Logged = {} /\ Recoverable = {}
  BY <1>2, <1>3 DEF StoreOK, Logged, Recoverable, Above
<1>5. Yjs!Idle.kind = "idle"
  BY DEF Yjs!Idle
<1>6. ASSUME NEW s \in Session
      PROVE  /\ MessageOK(wire[s]) /\ SessionOK(client[s])
             /\ Fits(client[s], wire[s].kind)
             /\ ~Using(client[s], wire[s]) /\ Knows(client[s], wire[s])
             /\ YjsHolds(s, client[s], wire[s], Logged, early, early \union raced)
             /\ CleanHolds(client[s], wire[s], Recoverable)
             /\ Holdings(client[s], wire[s]) = {}
  <2>1. client[s] = c /\ wire[s].kind = "idle"
    BY <1>2, <1>5
  <2>2. /\ MessageOK(wire[s]) /\ SessionOK(client[s])
        /\ Fits(client[s], wire[s].kind) /\ ~Using(client[s], wire[s])
    BY <1>1, <1>3, <2>1 DEF MessageOK, SessionOK, Fits, Using
  <2>3. accepted = {}
    BY <1>2
  <2>4. Knows(client[s], wire[s])
    BY <1>1, <2>1, <2>3 DEF Knows, Truthful, Writes
  <2>5. Own(s, c.doc) = {} /\ Prefix(c.flushedSV) = {}
    BY <1>0, <1>1 DEF Own
  <2>6. YjsHolds(s, client[s], wire[s], Logged, early, early \union raced)
    BY <1>1, <2>1, <2>5 DEF YjsHolds
  <2>7. /\ CleanHolds(client[s], wire[s], Recoverable)
        /\ Holdings(client[s], wire[s]) = {}
    BY <1>1, <2>1 DEF CleanHolds, Writes, Closed, Holdings
  <2> QED
    BY <2>2, <2>4, <2>6, <2>7
<1>7. AloneOK
  BY <1>4, <1>6 DEF AloneOK
<1>8. OwnInv
  <2>1. Present = {}
    BY <1>2, <1>4, <1>6 DEF Present
  <2> QED
    BY <2>1 DEF OwnInv, Own
<1>9. CleanInv
  BY <1>4, <1>6 DEF CleanInv, Closed
<1> QED
  BY <1>1, <1>2, <1>4, <1>6, <1>7, <1>8, <1>9
  DEF YjsInv, YjsTypes, ExchangeInv, Wired

LEMMA YjsPromises ==
  ASSUME YjsInv
  PROVE  /\ Yjs!NothingDropped /\ Yjs!CoveredTruthful
         /\ Yjs!AloneRecoverable /\ Yjs!LogIntegrates
<1>1. Yjs!NothingDropped
  BY YjsRules DEF YjsInv, YjsHolds, Unsaved, Own, Yjs!NothingDropped
<1>2. Yjs!AloneRecoverable
  BY YjsRules DEF YjsInv, ExchangeInv, AloneOK, Yjs!AloneRecoverable
<1>3. Yjs!CoveredTruthful
  BY DEF YjsInv, ExchangeInv, AloneOK, Knows, Truthful, Yjs!CoveredTruthful
<1>4. Yjs!LogIntegrates
  <2>1. Clean => Closed(Recoverable)
    BY DEF YjsInv, CleanInv
  <2>2. Recoverable \in SUBSET Item
    BY DEF YjsInv, ExchangeInv, StoreOK, Recoverable, Above, Frame
  <2>3. Clean => Yjs!Integrated(Recoverable) = Recoverable
    BY <2>1, <2>2, ClosedIntegrates
  <2> QED
    BY <2>3, YjsRules DEF Clean, Yjs!LogIntegrates
<1> QED
  BY <1>1, <1>2, <1>3, <1>4

-----------------------------------------------------------------------------
(* A document has one kind of editor.                                       *)
Inv ==
  /\ layer \in {"ops", "yjs"}
  /\ layer = "ops" => OpsInv
  /\ layer = "yjs" => YjsInv

LEMMA InvHolds == Spec => []Inv
<1>1. ASSUME Init PROVE Inv
  BY <1>1, OpsStarts, YjsStarts DEF Init, Inv
<1>2. ASSUME Inv, [Next]_vars PROVE Inv'
  <2>1. CASE layer = "ops" /\ Ops!Next /\ layer' = layer
    BY <1>2, <2>1, OpsKeeps DEF Inv
  <2>2. CASE layer = "yjs" /\ Yjs!Next /\ layer' = layer
    BY <1>2, <2>2, YjsKeeps DEF Inv
  <2>3. CASE UNCHANGED vars
    <3>1. /\ snap' = snap /\ frames' = frames /\ wire' = wire
          /\ accepted' = accepted /\ client' = client /\ layer' = layer
          /\ overlapped' = overlapped /\ submitted' = submitted
          /\ early' = early /\ raced' = raced /\ heard' = heard
      BY <2>3 DEF vars, serviceVars, clientVars
    <3>2. ExchangeInv => ExchangeInv'
      BY <3>1, ExchangeKeeps DEF Exchanges
    <3>3. Logged' = Logged /\ Recoverable' = Recoverable /\ Present' = Present
      BY <3>1 DEF Logged, Recoverable, Present, Holdings, Contents
    <3>4. OpsInv => OpsInv'
      BY <3>1, <3>2, <3>3 DEF OpsInv, OpsTypes, Wired
    <3>5. OwnInv => OwnInv'
      BY <3>1, <3>3 DEF OwnInv
    <3>6. CleanInv => CleanInv'
      BY <3>1, <3>3
      DEF CleanInv, Clean, CleanHolds, Closed, Writes, Prefix, Item
    <3>7. YjsInv => YjsInv'
      BY <3>1, <3>2, <3>3, <3>5, <3>6 DEF YjsInv, YjsTypes, Wired
    <3> QED
      BY <1>2, <3>1, <3>4, <3>7 DEF Inv
  <2> QED
    BY <1>2, <2>1, <2>2, <2>3 DEF Next
<1> QED
  BY <1>1, <1>2, PTL DEF Spec

(* Nothing the layer was given is lost on the way.  An op that OpLogSync    *)
(* took in is buffered, under way or in the log, whatever fails, and an     *)
(* edit of a Yjs document that did not race an append is in the log, or     *)
(* beyond the flushed state vector of a dirty document: flush() of both     *)
(* (opLogSync.js, updateLog.js).                                            *)
THEOREM NothingIsDropped == Spec => []NothingDropped
<1>1. Inv => NothingDropped
  BY OpsPromises, YjsPromises DEF Inv, NothingDropped
<1> QED
  BY <1>1, InvHolds, PTL

(* coveredSeq, which a snapshot gives as its floor, stands for what the     *)
(* session's document has integrated: as long as sessions use the log one   *)
(* after the other, every frame up to it is in the document, whatever was   *)
(* lost, answered late or stored twice.                                     *)
THEOREM CoveredIsIntegrated == Spec => []CoveredTruthful
<1>1. Inv => CoveredTruthful
  BY OpsPromises, YjsPromises DEF Inv, CoveredTruthful
<1> QED
  BY <1>1, InvHolds, PTL

(* Compaction loses nothing: as long as sessions use the log one after the  *)
(* other, a load gives back every item of every frame the server stored,    *)
(* the snapshots of both clients having pruned the rest.                    *)
THEOREM CompactionKeepsAll == Spec => []AloneRecoverable
<1>1. Inv => AloneRecoverable
  BY OpsPromises, YjsPromises DEF Inv, AloneRecoverable
<1> QED
  BY <1>1, InvHolds, PTL

(* A fresh Yjs document that replays the log waits for no struct that was   *)
(* never logged, as long as sessions use the log one after the other, no    *)
(* edit was made while an exchange was under way and what came peer to peer *)
(* was in the log when it was counted as flushed.                           *)
THEOREM ReplayIsWhole == Spec => []LogIntegrates
<1>1. Inv => LogIntegrates
  BY YjsPromises DEF Inv, LogIntegrates
<1> QED
  BY <1>1, InvHolds, PTL
=============================================================================
