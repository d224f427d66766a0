-------------------------------- MODULE Fabric --------------------------------
(***************************************************************************)
(* FabricClient (collab/webrtc/fabric.js) between the two peers of a room, *)
(* over rendezvous signalling (rendezvousSignaling.js): how they come to   *)
(* reach each other, not what they then say.                               *)
(*                                                                         *)
(* A peer finds the other's join on the room's board, and the one with the *)
(* smaller id offers.  Offers and answers go through inboxes, and a        *)
(* negotiation that succeeds ends in a data channel.  Whoever gives up on  *)
(* it falls back to the other's mailbox at the relay: its session then     *)
(* asks for what it lacks (crdt/yP2PSession.js), so something is deposited *)
(* at once, and finding it shows the other that it should fall back too.   *)
(***************************************************************************)
EXTENDS Naturals, Sequences

CONSTANTS MaxOffers, \* bound: negotiations, numbered from 1
          MaxFaults  \* bound: things that go wrong

VARIABLES peer,      \* peer[p]: the client of p and its PeerState of the other
          inbox,     \* inbox[p]: offers and answers on their way to p
          link,      \* link[n]: what the network makes of negotiation n
          mail,      \* mail[p]: something is in p's mailbox
          offers, faults,
          lost,      \* history: a signalling frame or a deposit was lost
          hurried,   \* history: a peer's state changed while it was waiting
                     \* for its offer or answer to be accepted, or by a
                     \* channel of an earlier negotiation
          dropped    \* history: a data channel was closed by the network

vars == <<peer, inbox, link, mail, offers, faults, lost, hurried, dropped>>

Peer == {1, 2}
Other(p) == 3 - p
Offerer == 1     \* the impolite peer: this._peerId < remoteId

(* known: the other's join was dispatched.  n: the negotiation of pc, 0    *)
(* for a blank one or none.  up: the events of its connection so far.      *)
(* Timers: relay, reinit.  posting: an offer or answer is sent, the state  *)
(* not yet set.  stale: the data channel of a closed pc may yet say so.    *)
PeerState ==
  [in : BOOLEAN, known : BOOLEAN,
   state : {"disconnected", "connecting", "connected", "relay"},
   n : 0..MaxOffers, signal : {"none", "offered", "stable", "crossed"},
   up : {"no", "pc", "dc", "failed", "gone"},
   relayTimer : BOOLEAN, reinit : BOOLEAN, left : BOOLEAN, polling : BOOLEAN,
   posting : BOOLEAN, stale : BOOLEAN]
NewPeer ==
  [in |-> TRUE, known |-> FALSE, state |-> "disconnected", n |-> 0,
   signal |-> "none", up |-> "no", relayTimer |-> FALSE, reinit |-> FALSE,
   left |-> FALSE, polling |-> FALSE, posting |-> FALSE, stale |-> FALSE]

Init ==
  /\ peer = [p \in Peer |-> NewPeer]
  /\ inbox = [p \in Peer |-> <<>>] /\ mail = [p \in Peer |-> FALSE]
  /\ link = [n \in 1..MaxOffers |-> "forming"]
  /\ offers = 0 /\ faults = 0
  /\ lost = FALSE /\ hurried = FALSE /\ dropped = FALSE

Transport == <<inbox, link, mail, offers>>
Set(p, s) == peer' = [peer EXCEPT ![p] = s]
Fault == faults < MaxFaults /\ faults' = faults + 1

-----------------------------------------------------------------------------
(* Negotiating.                                                            *)

(* PeerState.reset.  The data channel it closes may still say so.          *)
Reset(s) ==
  [s EXCEPT !.n = 0, !.signal = "none", !.up = "no", !.relayTimer = FALSE,
            !.reinit = FALSE, !.stale = @ \/ s.up \in {"dc", "failed"}]

(* Mutated form of Negotiating: polling begins only with the fallback.     *)
NegotiatingUnheard(s, n, signal) ==
  [Reset(s) EXCEPT !.n = n, !.signal = signal, !.relayTimer = TRUE,
                   !.posting = TRUE]

(* An offer or an answer is on its way, the relay timer runs, and polling  *)
(* has begun.                                                              *)
Negotiating(s, n, signal) ==
  [Reset(s) EXCEPT !.n = n, !.signal = signal, !.relayTimer = TRUE,
                   !.polling = TRUE, !.posting = TRUE]

(* _signaling.signal: an error is swallowed.                               *)
Signal(boxes, to, message) ==
  \/ inbox' = [boxes EXCEPT ![to] = Append(@, message)] /\ UNCHANGED lost
  \/ inbox' = boxes /\ lost' = TRUE

(* _initiatePeer, from the peer state s: only the offerer offers.          *)
InitiatePeer(p, s, again) ==
  /\ hurried' = (hurried \/ s.posting)
  /\ \/ /\ s.state = "connected" \/ p # Offerer
        /\ LET t == IF s.state = "connected" THEN s ELSE Reset(s)
           IN  Set(p, [t EXCEPT !.reinit = again])
        /\ UNCHANGED <<inbox, offers, lost>>
     \/ /\ s.state # "connected" /\ p = Offerer
        /\ offers < MaxOffers /\ offers' = offers + 1
        /\ Set(p, [Negotiating(s, offers', "offered") EXCEPT !.reinit = again])
        /\ Signal(inbox, Other(p), [type |-> "offer", n |-> offers'])

(* The other's join is on the board.  It is dispatched once; heartbeats    *)
(* only refresh its address.                                               *)
Join(p) ==
  /\ peer[p].in /\ ~peer[p].known /\ ~peer[p].left /\ peer[Other(p)].in
  /\ InitiatePeer(p, [peer[p] EXCEPT !.known = TRUE], FALSE)
  /\ UNCHANGED <<link, mail, faults, dropped>>

(* FabricClient.leave, and the tombstone of which the other learns.        *)
Leave(p) ==
  /\ peer[p].in /\ Fault
  /\ Set(p, [NewPeer EXCEPT !.in = FALSE])
  /\ UNCHANGED <<Transport, lost, hurried, dropped>>
Left(p) ==
  /\ peer[p].in /\ peer[p].known /\ ~peer[Other(p)].in
  /\ Set(p, [peer[p] EXCEPT !.known = FALSE, !.left = TRUE, !.reinit = FALSE,
                            !.up = "gone", !.state = "disconnected"])
  /\ UNCHANGED <<Transport, faults, lost, hurried, dropped>>

(* An offer is answered on a new connection.                               *)
Offer(p) ==
  LET m == Head(inbox[p])
  IN  /\ peer[p].in /\ inbox[p] # <<>> /\ m.type = "offer"
      /\ Set(p, Negotiating(peer[p], m.n, "stable"))
      /\ Signal([inbox EXCEPT ![p] = Tail(@)], Other(p),
                [type |-> "answer", n |-> m.n])
      /\ UNCHANGED <<link, mail, offers, faults, hurried, dropped>>

(* An answer to an offer that was replaced is taken for one to the new.    *)
Answer(p) ==
  LET m == Head(inbox[p])
  IN  /\ peer[p].in /\ inbox[p] # <<>> /\ m.type = "answer"
      /\ Set(p, [peer[p] EXCEPT !.signal =
           IF @ # "offered" THEN @
           ELSE IF peer[p].n = m.n THEN "stable" ELSE "crossed"])
      /\ inbox' = [inbox EXCEPT ![p] = Tail(@)]
      /\ UNCHANGED <<link, mail, offers, faults, lost, hurried, dropped>>

(* The frame is accepted, and whatever the state has become, it is set.    *)
Posted(p) ==
  LET s == peer[p]
  IN  /\ s.posting
      /\ Set(p, [s EXCEPT !.posting = FALSE, !.state = "connecting"])
      /\ hurried' = (hurried \/ s.n = 0 \/ s.state \in {"connected", "relay"})
      /\ UNCHANGED <<Transport, faults, lost, dropped>>

(* signaling-open, after a reconnection.                                   *)
SignalingOpen(p) ==
  /\ peer[p].in /\ (peer[p].known \/ peer[p].left)
  /\ peer[p].state = "disconnected"
  /\ Fault
  /\ InitiatePeer(p, peer[p], FALSE)
  /\ UNCHANGED <<link, mail, dropped>>

-----------------------------------------------------------------------------
(* What WebRTC reports.                                                    *)

(* The other has closed the connection, or never had it.                   *)
Deserted(p) ==
  LET o == peer[Other(p)]
  IN  o.n # peer[p].n \/ o.signal = "crossed" \/ o.up = "gone"
Linked(p) == peer[p].n # 0 /\ link[peer[p].n] = "up" /\ ~Deserted(p)
Broken(p) ==
  /\ peer[p].n # 0 /\ peer[p].signal # "offered"
  /\ \/ link[peer[p].n] \in {"failed", "dropped"} \/ Deserted(p)
     \/ peer[p].signal = "crossed"

LinkUp(n) ==
  /\ link[n] = "forming"
  /\ \A p \in Peer : peer[p].n = n /\ peer[p].signal = "stable"
  /\ link' = [link EXCEPT ![n] = "up"]
  /\ UNCHANGED <<peer, inbox, mail, offers, faults, lost, hurried, dropped>>
LinkBreaks(n) ==
  /\ link[n] \in {"forming", "up"} /\ n <= offers /\ Fault
  /\ \/ link' = [link EXCEPT ![n] = "failed"] /\ UNCHANGED dropped
     \/ /\ link[n] = "up" /\ link' = [link EXCEPT ![n] = "dropped"]
        /\ dropped' = TRUE
  /\ UNCHANGED <<peer, inbox, mail, offers, lost, hurried>>

(* connectionState connected, and the data channel open.                   *)
PcConnected(p) ==
  /\ Linked(p) /\ peer[p].up = "no"
  /\ Set(p, [peer[p] EXCEPT !.up = "pc", !.relayTimer = FALSE,
                            !.state = "connected"])
  /\ UNCHANGED <<Transport, faults, lost, hurried, dropped>>
DcOpen(p) ==
  /\ Linked(p) /\ peer[p].up \in {"no", "pc"}
  /\ Set(p, [peer[p] EXCEPT !.up = "dc", !.relayTimer = FALSE,
                            !.reinit = FALSE, !.state = "connected"])
  /\ UNCHANGED <<Transport, faults, lost, hurried, dropped>>

(* _activateRelay.  A deposit needs the other's keys, from its join.       *)
InRelay(s) == [s EXCEPT !.state = "relay", !.polling = TRUE]
ActivateRelay(p, s) ==
  IF s.state = "relay" THEN Set(p, s) /\ UNCHANGED <<mail, faults, lost>>
  ELSE /\ Set(p, InRelay(s))
       /\ \/ /\ s.known /\ mail' = [mail EXCEPT ![Other(p)] = TRUE]
             /\ UNCHANGED <<faults, lost>>
          \/ ~s.known /\ lost' = TRUE /\ UNCHANGED <<mail, faults>>
          \/ Fault /\ lost' = TRUE /\ UNCHANGED mail

(* connectionState failed.                                                 *)
PcFailed(p) ==
  /\ Broken(p) /\ peer[p].up \in {"no", "pc", "dc"}
  /\ ActivateRelay(p, [peer[p] EXCEPT !.relayTimer = FALSE,
       !.up = IF @ = "dc" /\ link[peer[p].n] # "failed" THEN "failed"
                                                        ELSE "gone"])
  /\ UNCHANGED <<inbox, link, offers, hurried, dropped>>

(* The data channel closes: with its connection, or late, after a reset.   *)
Closed(s) == [s EXCEPT !.state = "disconnected", !.reinit = ~s.left]
DcClose(p) ==
  /\ Broken(p) /\ peer[p].up \in {"dc", "failed"}
  /\ link[peer[p].n] # "failed"
  /\ Set(p, [Closed(peer[p]) EXCEPT !.up = "gone"])
  /\ UNCHANGED <<Transport, faults, lost, hurried, dropped>>
StaleClose(p) ==
  /\ peer[p].stale
  /\ Set(p, [Closed(peer[p]) EXCEPT !.stale = FALSE])
  /\ hurried' = (hurried \/ peer[p].state # "disconnected")
  /\ UNCHANGED <<Transport, faults, lost, dropped>>

-----------------------------------------------------------------------------
(* Timers, and polling.                                                    *)

RelayTimer(p) ==
  LET s == [peer[p] EXCEPT !.relayTimer = FALSE]
  IN  /\ peer[p].relayTimer
      /\ \/ s.state = "connected" /\ Set(p, s) /\ UNCHANGED <<mail, faults,
                                                              lost>>
         \/ s.state # "connected" /\ ActivateRelay(p, s)
      /\ UNCHANGED <<inbox, link, offers, hurried, dropped>>

(* _scheduleReinitiate: until connected it sets itself again.              *)
Reinitiate(p) ==
  /\ peer[p].reinit
  /\ InitiatePeer(p, peer[p], peer[p].state # "connected")
  /\ UNCHANGED <<link, mail, faults, dropped>>

(* _relayPoll and _processRelayBlob: something from the other shows that   *)
(* it has fallen back.                                                     *)
Polls(p) == peer[p].polling /\ peer[p].state \in {"relay", "connecting"}
RelayPoll(p) ==
  /\ Polls(p) /\ mail[p]
  /\ IF peer[p].state = "relay"
       THEN /\ mail' = [mail EXCEPT ![p] = FALSE]
            /\ UNCHANGED <<peer, faults, lost>>
       ELSE /\ Set(p, InRelay([peer[p] EXCEPT !.relayTimer = FALSE]))
            /\ mail' = [mail EXCEPT ![p] = FALSE, ![Other(p)] = TRUE]
            /\ UNCHANGED <<faults, lost>>
  /\ UNCHANGED <<inbox, link, offers, hurried, dropped>>
PollingStops(p) ==
  /\ peer[p].polling /\ ~Polls(p)
  /\ Set(p, [peer[p] EXCEPT !.polling = FALSE])
  /\ hurried' = (hurried \/ peer[p].posting)
  /\ UNCHANGED <<Transport, faults, lost, dropped>>

Next ==
  \/ \E p \in Peer :
       \/ Join(p) \/ Leave(p) \/ Left(p) \/ Offer(p) \/ Answer(p) \/ Posted(p)
       \/ SignalingOpen(p) \/ PcConnected(p) \/ DcOpen(p) \/ PcFailed(p)
       \/ DcClose(p) \/ StaleClose(p) \/ RelayTimer(p) \/ Reinitiate(p)
       \/ RelayPoll(p) \/ PollingStops(p)
  \/ \E n \in 1..MaxOffers : LinkUp(n) \/ LinkBreaks(n)
Spec == Init /\ [][Next]_vars

-----------------------------------------------------------------------------
TypeOK ==
  /\ peer \in [Peer -> PeerState]
  /\ link \in [1..MaxOffers -> {"forming", "up", "failed", "dropped"}]
  /\ mail \in [Peer -> BOOLEAN]

(* Nothing more will happen by itself.                                     *)
Settled ==
  \A p \in Peer :
    LET s == peer[p]
    IN  /\ s.in /\ s.known /\ inbox[p] = <<>> /\ ~(Polls(p) /\ mail[p])
        /\ ~(s.relayTimer \/ s.reinit \/ s.posting \/ s.stale)
        /\ ~(Linked(p) /\ s.up \in {"no", "pc"})
        /\ ~(Broken(p) /\ s.up \in {"no", "pc", "dc", "failed"})
        /\ ~(s.signal = "stable" /\ link[s.n] = "forming" /\ ~Deserted(p))

(* Two peers left alone reach each other the same way: not one over a      *)
(* channel, or through the relay, and the other not.  This leaves out that *)
(* a signalling frame or a deposit was lost, that a state changed while an *)
(* offer or answer was being accepted, that a channel of an earlier        *)
(* negotiation closed late, and that the network closed a data channel.    *)
ReachTheSameWay ==
  Settled /\ ~lost /\ ~hurried /\ ~dropped
    => /\ peer[1].state = peer[2].state
       /\ peer[1].state \in {"connected", "relay"}
=============================================================================
