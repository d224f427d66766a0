------------------------------ MODULE PeerSession ------------------------------
(***************************************************************************)
(* YP2PCollabSession (crdt/yP2PSession.js): the peers of a room, invited   *)
(* to write or to read, and the Yjs document each of them has.  A session  *)
(* broadcasts the edits made in it, and asks a peer for what it lacks the  *)
(* moment that peer becomes reachable.  Frames are sealed and opened       *)
(* asynchronously, so they overtake one another; the fabric (module        *)
(* Fabric) drops what is sent to a peer that is not reachable, and what is *)
(* under way when a channel closes.                                        *)
(***************************************************************************)
EXTENDS Naturals

CONSTANTS Peer,
          Capability,      \* the capabilities of their links to consider
          MaxEdits,        \* bound: edits of one peer
          MaxLinks         \* bound: channels between two peers, one at a time

VARIABLES cap,      \* cap[p]: the capability of p's link, "rw" or "ro"
          joined,   \* joined[p]: p has joined the room
          made,     \* made[p]: the number of edits made at p
          held,     \* held[p]: the edits p has, those Yjs keeps pending too
          channel,  \* channel[p][q]: p's channel to q, and whether it is open
          sealing,  \* frames being sealed
          wire,     \* frames under way
          lost      \* lost: the pairs between which the relay lost a frame

vars == <<cap, joined, made, held, channel, sealing, wire, lost>>

Writer == {p \in Peer : cap[p] = "rw"}
Edit == Peer \X (1..MaxEdits)
None == [n |-> 0, open |-> FALSE]

(* yu is an edit just made, ask a request with a state vector, sync its    *)
(* answer.  to: the set of peers it is sent to; authoritative: it carries  *)
(* the MAC of a writer.                                                    *)
Frame(type, from, to, what) ==
  [type |-> type, from |-> from, to |-> to, what |-> what,
   authoritative |-> type # "ask" /\ from \in Writer]

Init ==
  /\ cap \in Capability
  /\ joined = [p \in Peer |-> FALSE] /\ made = [p \in Peer |-> 0]
  /\ held = [p \in Peer |-> {}]
  /\ channel = [p \in Peer |-> [q \in Peer |-> None]]
  /\ sealing = {} /\ wire = {} /\ lost = {}

(* Y.encodeStateVector: of each author, what has no gap before it.         *)
StateVector(p) ==
  [a \in Peer |->
     CHOOSE n \in 0..MaxEdits :
       /\ \A i \in 1..n : <<a, i>> \in held[p]
       /\ <<a, n + 1>> \notin held[p]]

(* Y.encodeStateAsUpdate.                                                  *)
Diff(p, vector) == {e \in held[p] : e[2] > vector[e[1]]}

-----------------------------------------------------------------------------
(* An edit in the editor.  Whoever has joined to read cannot make one; who *)
(* has not joined yet, by whichever link, can.                             *)
MakeEdit(p) ==
  /\ made[p] < MaxEdits /\ (joined[p] => p \in Writer)
  /\ LET e == <<p, made[p] + 1>>
     IN  /\ held' = [held EXCEPT ![p] = @ \union {e}]
         /\ sealing' = IF joined[p]
                         THEN sealing \union {Frame("yu", p, Peer \ {p}, {e})}
                         ELSE sealing
  /\ made' = [made EXCEPT ![p] = @ + 1]
  /\ UNCHANGED <<cap, joined, channel, wire, lost>>

(* join, whose own request reaches nobody: no peer is reachable yet.       *)
Join(p) ==
  /\ ~joined[p] /\ joined' = [joined EXCEPT ![p] = TRUE]
  /\ UNCHANGED <<cap, made, held, channel, sealing, wire, lost>>

(* Mutated form of Ask: a peer that becomes reachable is not asked.        *)
AskNobody(p, q) == {}

(* _resyncWith.                                                            *)
Ask(p, q) == {Frame("ask", p, {q}, StateVector(p))}

Under(p, q, n) == {f \in wire : f.from = q /\ f.to = {p} /\ f.n < n}

(* A channel to q opens, the one q has or a new one, and what was under    *)
(* way to p on an older one is gone.  A mailbox of the relay is a channel  *)
(* here as well.                                                           *)
Open(p, q) ==
  /\ joined[p] /\ joined[q] /\ p # q
  /\ \E n \in {channel[q][p].n, channel[q][p].n + 1} :
       /\ n \in (channel[p][q].n + 1)..MaxLinks
       /\ channel' = [channel EXCEPT ![p][q] = [n |-> n, open |-> TRUE]]
       /\ wire' = wire \ Under(p, q, n)
  /\ sealing' = sealing \union Ask(p, q)
  /\ UNCHANGED <<cap, joined, made, held, lost>>

(* The channel closes, for p; q will see it later.                         *)
Close(p, q) ==
  /\ channel[p][q].open
  /\ channel' = [channel EXCEPT ![p][q].open = FALSE]
  /\ wire' = wire \ Under(p, q, channel[p][q].n + 1)
  /\ UNCHANGED <<cap, joined, made, held, sealing, lost>>

(* FabricClient.send, sendTo: to those who are reachable by then.  Of a    *)
(* channel that the other end has left nothing arrives.                    *)
Arrives(p, q) ==
  /\ channel[p][q].open
  /\ \/ channel[q][p].n < channel[p][q].n
     \/ channel[q][p] = channel[p][q]
Send(f) ==
  /\ f \in sealing /\ sealing' = sealing \ {f}
  /\ wire' = wire \union
       {[type |-> f.type, from |-> f.from, to |-> {q}, what |-> f.what,
         authoritative |-> f.authoritative, n |-> channel[f.from][q].n] :
          q \in {q \in f.to : Arrives(f.from, q)}}
  /\ UNCHANGED <<cap, joined, made, held, channel, lost>>

(* Mutated form of Accepts: the MAC is not looked at.                      *)
AcceptsAll(p, f) == TRUE

(* _onPeerFrame: an edit or an answer.  A writer takes it from a writer    *)
(* only, a reader cannot tell.                                             *)
Accepts(p, f) == p \in Writer => f.authoritative
Receive(p, f) ==
  /\ f \in wire /\ f.to = {p} /\ f.type \in {"yu", "sync"}
  /\ channel[p][f.from] = [n |-> f.n, open |-> TRUE]
  /\ held' = IF Accepts(p, f) THEN [held EXCEPT ![p] = @ \union f.what]
                              ELSE held
  /\ wire' = wire \ {f}
  /\ UNCHANGED <<cap, joined, made, channel, sealing, lost>>

(* _onPeerFrame: a request.  An answer with nothing in it is left out.     *)
Answer(p, f) ==
  /\ f \in wire /\ f.to = {p} /\ f.type = "ask"
  /\ channel[p][f.from] = [n |-> f.n, open |-> TRUE]
  /\ LET diff == Diff(p, f.what)
     IN  sealing' = IF diff = {} THEN sealing
                    ELSE sealing \union {Frame("sync", p, {f.from}, diff)}
  /\ wire' = wire \ {f}
  /\ UNCHANGED <<cap, joined, made, held, channel, lost>>

(* The relay loses a deposit, or it was skipped: _relayDeposit swallows    *)
(* its errors.                                                             *)
Lose(f) ==
  /\ f \in wire
  /\ wire' = wire \ {f} /\ lost' = lost \union {{f.from} \union f.to}
  /\ UNCHANGED <<cap, joined, made, held, channel, sealing>>

Next ==
  \/ \E p \in Peer : MakeEdit(p) \/ Join(p)
  \/ \E p, q \in Peer : Open(p, q) \/ Close(p, q)
  \/ \E f \in sealing : Send(f)
  \/ \E f \in wire : Lose(f) \/ \E p \in Peer : Receive(p, f) \/ Answer(p, f)
Spec == Init /\ [][Next]_vars

-----------------------------------------------------------------------------
TypeOK ==
  /\ cap \in Capability
  /\ joined \in [Peer -> BOOLEAN] /\ made \in [Peer -> 0..MaxEdits]
  /\ held \in [Peer -> SUBSET Edit]
  /\ \A p, q \in Peer : channel[p][q] \in [n : 0..MaxLinks, open : BOOLEAN]

(* Nothing is being said between p and q, on the channel both have.        *)
Quiet(p, q) ==
  /\ channel[p][q].open /\ channel[q][p] = channel[p][q]
  /\ \A f \in sealing \union wire :
       ~({p, q} \subseteq {f.from} \union f.to)
  /\ {p, q} \notin lost

(* Whatever a writer did, before joining, cut off or while the channel was *)
(* opening, is with each peer once the two have nothing more to say.       *)
PeersAgree ==
  \A p \in Writer, q \in Peer :
    Quiet(p, q) => {e \in held[p] : e[1] = p} \subseteq held[q]

(* What a reader did before joining never gets into a writer's document,   *)
(* although readers answer requests like everyone.                         *)
ReadersChangeNothing == \A p \in Writer : \A e \in held[p] : e[1] \in Writer
=============================================================================
