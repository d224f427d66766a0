------------------------------ MODULE Sessions ------------------------------
(***************************************************************************)
(* How an editor's tab keeps in touch: the saves of a whole document, the  *)
(* peer-to-peer session, the fabric under it, who is shown as present over *)
(* it, and the selection of a server.  A behaviour is one of a single      *)
(* component, the part chosen at first; the others stay as they were, so   *)
(* their state spaces add up.                                              *)
(***************************************************************************)
EXTENDS Integers

CONSTANTS
  Part,               \* the components to consider, of those below
  SaveTab, Kind, Save, MaxAtOnce, MaxRetries, MaxSaves, MaxRev,
  MaxSaveFaults,
  Member, Capability, MaxEdits, MaxLinks,
  MaxOffers, MaxFaults,
  Box, Cloud, Request, Revalidate, Timeout, MaxTime, MaxCalls, MaxChanges,
  Tab, Account, Self, Heartbeat, Silence, Delay, MaxClock, MaxComings, MaxLost

ASSUME PartsAreKnown ==
  Part \subseteq {"saves", "peers", "fabric", "endpoints", "presence"}

(* filesStore.js: some tab saves; retries and edits are counts.            *)
ASSUME SavesAreCounted ==
  /\ SaveTab # {} /\ MaxRetries \in Nat /\ MaxSaves \in Nat

(* yP2PSession.js: each peer's link is one of a capability.                *)
ASSUME PeersHaveLinks ==
  /\ Capability # {} /\ Capability \subseteq [Member -> {"rw", "ro"}]
  /\ MaxEdits \in Nat /\ MaxLinks \in Nat

(* fabric.js: offers are numbered.                                         *)
ASSUME OffersAreNumbered == MaxOffers \in Nat

(* endpoints/index.js: the cloud is not a box, and neither is the origin.  *)
ASSUME BasesDiffer ==
  /\ Box # {} /\ Cloud \notin Box
  /\ {"none", "origin"} \intersect (Box \union {Cloud}) = {}
  /\ Revalidate \in Nat /\ Timeout \in Nat

(* presence.js: a frame takes less than a heartbeat, and the silence after *)
(* which a member is forgotten (2.5 heartbeats) leaves room for the frames *)
(* that may be lost.                                                       *)
ASSUME SilenceIsLong ==
  /\ Heartbeat \in Nat /\ Silence \in Nat /\ Delay \in Nat /\ MaxLost \in Nat
  /\ Delay < Heartbeat
  /\ (MaxLost + 1) * Heartbeat + Delay <= Silence

VARIABLES part,
          kind, saveTab, save, draft, server, edits, faults, accepted, crossed,
          cap, joined, made, held, channel, sealing, wire, unsent,
          peer, inbox, link, mail, offers, fabricFaults, lost, hurried, dropped,
          injected, cache, trusted, selected, selectedAt, selecting, request,
          now, calls, changes, probed, doubted, retired, misrouted,
          timer, open, check, heard, net, clock, comings, losses, ended

saveVars == <<kind, saveTab, save, draft, server, edits, faults, accepted,
              crossed>>
peerVars == <<cap, joined, made, held, channel, sealing, wire, unsent>>
fabricVars == <<peer, inbox, link, mail, offers, fabricFaults, lost, hurried,
                dropped>>
endVars == <<injected, cache, trusted, selected, selectedAt, selecting, request,
             now, calls, changes, probed, doubted, retired, misrouted>>
presenceVars == <<timer, open, check, heard, net, clock, comings, losses,
                  ended>>

Saves == INSTANCE FileSave WITH
  Tab <- SaveTab, MaxEdits <- MaxSaves, MaxFaults <- MaxSaveFaults,
  tab <- saveTab

Peers == INSTANCE PeerSession WITH Peer <- Member, lost <- unsent

Fab == INSTANCE Fabric WITH faults <- fabricFaults

Ends == INSTANCE Endpoints

(* The tabs other than the watcher's come and go.                          *)
Shown == INSTANCE Presence WITH
  MaxTime <- MaxClock, MaxChanges <- MaxComings,
  now <- clock, changes <- comings, lost <- losses

(* Each part starts as it would alone; of the parts that will not move one *)
(* initial state is as good as another.                                    *)
Init ==
  /\ part \in Part
  /\ Saves!Init /\ Peers!Init /\ Fab!Init /\ Ends!Init /\ Shown!Init
  /\ part # "saves" => kind = CHOOSE k \in Kind : TRUE
  /\ part # "peers" => cap = CHOOSE c \in Capability : TRUE
  /\ part # "endpoints" => injected.cloud = Ends!NoBase /\ cache = injected
  /\ part # "presence" => \A t \in Tab : timer[t] = Shown!Gone

SaveStep ==
  /\ part = "saves" /\ Saves!Next
  /\ UNCHANGED <<peerVars, fabricVars, endVars, presenceVars>>
CollabStep ==
  /\ \/ part = "peers" /\ Peers!Next /\ UNCHANGED <<fabricVars, presenceVars>>
     \/ part = "fabric" /\ Fab!Next /\ UNCHANGED <<peerVars, presenceVars>>
     \/ part = "presence" /\ Shown!Next /\ UNCHANGED <<peerVars, fabricVars>>
  /\ UNCHANGED <<saveVars, endVars>>
RequestStep ==
  /\ part = "endpoints" /\ Ends!Next
  /\ UNCHANGED <<saveVars, peerVars, fabricVars, presenceVars>>

Next == (SaveStep \/ CollabStep \/ RequestStep) /\ UNCHANGED part

vars == <<part, saveVars, peerVars, fabricVars, endVars, presenceVars>>
Spec == Init /\ [][Next]_vars

-----------------------------------------------------------------------------
(* filesStore.js: what the server has not had is due, or the user is told. *)
SaveUnsavedIsPendingOrTold == part = "saves" => Saves!UnsavedIsPendingOrTold

(* filesStore.js: "saved" is said only of what the server holds.           *)
SaveSavedIsWhatIsShown == part = "saves" => Saves!SavedIsWhatIsShown

(* yP2PSession.js: what a writer did, whenever, is with each peer once the *)
(* two are quiet, and what a reader did before joining is with no writer.  *)
PeersAgree == part = "peers" => Peers!PeersAgree /\ Peers!ReadersChangeNothing

(* fabric.js: two peers left alone reach each other the same way.          *)
FabricReachTheSameWay == part = "fabric" => Fab!ReachTheSameWay

(* presence.js: who has had a channel for long enough is shown, and who    *)
(* has had none for long enough is not.                                    *)
PresenceAsHeard == part = "presence" => Shown!PresenceAsHeard

(* endpoints/index.js, api.js: no request goes to a server that lately     *)
(* failed or was replaced, and none waits without a selection under way.   *)
EndpointsAsProbed == part = "endpoints" => Ends!EndpointsAsProbed
=============================================================================
