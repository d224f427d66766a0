------------------------------- MODULE Presence -------------------------------
(***************************************************************************)
(* Who is shown as present in a document: the PresenceManager of           *)
(* collab/webrtc/presence.js in each tab, over the channels of its fabric. *)
(* A tab says that it is there when a channel opens and at every           *)
(* heartbeat, and forgets an account it has not heard of for a while.  No  *)
(* tab says that it leaves: useCollabFabric is mounted before usePresence, *)
(* so its fabric has no peers left when the manager's leave comes.  The    *)
(* roster is that of one tab, the watcher, who stays; no other's matters   *)
(* to it.                                                                  *)
(***************************************************************************)
EXTENDS Integers

CONSTANTS Tab,        \* the tabs other than the watcher
          Account,    \* Account[t]: whose tab t is
          Self,       \* whose tab the watcher is
          Heartbeat,  \* HEARTBEAT_MS, in ticks
          Silence,    \* TIMEOUT_MS
          Delay,      \* bound: how long a frame may take
          MaxTime,    \* bound: ticks
          MaxChanges, \* bound: tabs that come or go, channels that close
          MaxLost     \* bound: frames lost

VARIABLES timer,  \* timer[t]: ticks to its next interval; Gone without a tab
          open,   \* open[t]: since when its channel to the watcher is; or 0
          check,  \* ticks to the watcher's next interval
          heard,  \* heard[a]: ts of a in the roster; 0 if not in it
          net,    \* the frames under way
          now, changes, lost,
          ended   \* history: ended[t]: when t last left or its channel closed

vars == <<timer, open, check, heard, net, now, changes, lost, ended>>

Gone == -1
Accounts == {Account[t] : t \in Tab}

Init ==
  /\ timer \in [Tab -> {Gone} \union 1..Heartbeat]
  /\ open = [t \in Tab |-> 0]
  /\ check = Heartbeat
  /\ heard = [a \in Accounts |-> 0]
  /\ net = {}
  /\ now = 1 /\ changes = 0 /\ lost = 0
  /\ ended = [t \in Tab |-> 0]

-----------------------------------------------------------------------------
(* Mutated form of Connected: only the heartbeat tells that it is there.   *)
ConnectedQuietly(t) ==
  /\ timer[t] # Gone /\ open[t] = 0
  /\ open' = [open EXCEPT ![t] = now]
  /\ UNCHANGED <<timer, check, heard, net, now, changes, lost, ended>>

(* The fabric's state event: a tab says at once that it is there.          *)
Connected(t) ==
  /\ timer[t] # Gone /\ open[t] = 0
  /\ open' = [open EXCEPT ![t] = now]
  /\ net' = net \union {[from |-> t, sent |-> now]}
  /\ UNCHANGED <<timer, check, heard, now, changes, lost, ended>>

(* A channel closes; it may open again.                                    *)
Closed(t) ==
  /\ open[t] # 0 /\ changes < MaxChanges /\ changes' = changes + 1
  /\ open' = [open EXCEPT ![t] = 0] /\ ended' = [ended EXCEPT ![t] = now]
  /\ UNCHANGED <<timer, check, heard, net, now, lost>>

(* A tab joins; and it leaves, or ends, for good.                          *)
Join(t) ==
  /\ timer[t] = Gone /\ ended[t] = 0 /\ changes < MaxChanges
  /\ changes' = changes + 1
  /\ timer' = [timer EXCEPT ![t] = Heartbeat]
  /\ UNCHANGED <<open, check, heard, net, now, lost, ended>>
Leave(t) ==
  /\ timer[t] # Gone /\ changes < MaxChanges /\ changes' = changes + 1
  /\ timer' = [timer EXCEPT ![t] = Gone] /\ open' = [open EXCEPT ![t] = 0]
  /\ ended' = IF open[t] = 0 THEN ended ELSE [ended EXCEPT ![t] = now]
  /\ UNCHANGED <<check, heard, net, now, lost>>

(* A tab's interval: it says that it is there.                             *)
Beat(t) ==
  /\ timer[t] = 0
  /\ timer' = [timer EXCEPT ![t] = Heartbeat]
  /\ net' = IF open[t] = 0 THEN net
            ELSE net \union {[from |-> t, sent |-> now]}
  /\ UNCHANGED <<open, check, heard, now, changes, lost, ended>>

-----------------------------------------------------------------------------
(* A frame arrives: its account was heard of now, by the watcher's clock.  *)
(* What comes from the watcher's own account is not looked at.             *)
Deliver(m) ==
  /\ net' = net \ {m}
  /\ heard' = IF Account[m.from] = Self THEN heard
              ELSE [heard EXCEPT ![Account[m.from]] = now]
  /\ UNCHANGED <<timer, open, check, now, changes, lost, ended>>
Lose(m) ==
  /\ lost < MaxLost /\ lost' = lost + 1
  /\ net' = net \ {m}
  /\ UNCHANGED <<timer, open, check, heard, now, changes, ended>>

(* Mutated form of Remembered: a frame lost is a member gone.              *)
RememberedBriefly(ts) == ts # 0 /\ now - ts <= Heartbeat

(* Mutated form of Remembered: nobody is forgotten but by a leave.         *)
RememberedAlways(ts) == ts # 0

(* _gc: who is kept.                                                       *)
Remembered(ts) == ts # 0 /\ now - ts <= Silence

(* The watcher's interval forgets whom it has not heard of.                *)
Forget ==
  /\ check = 0 /\ check' = Heartbeat
  /\ heard' = [a \in Accounts |-> IF Remembered(heard[a]) THEN heard[a] ELSE 0]
  /\ UNCHANGED <<timer, open, net, now, changes, lost, ended>>

(* Intervals are on time, and frames within their delay.                   *)
Tick ==
  /\ now < MaxTime /\ now' = now + 1
  /\ check > 0 /\ \A t \in Tab : timer[t] # 0
  /\ \A m \in net : now - m.sent < Delay
  /\ check' = check - 1
  /\ timer' = [t \in Tab |-> IF timer[t] = Gone THEN Gone ELSE timer[t] - 1]
  /\ UNCHANGED <<open, heard, net, changes, lost, ended>>

Next ==
  \/ \E t \in Tab : Connected(t) \/ Closed(t) \/ Join(t) \/ Leave(t) \/ Beat(t)
  \/ \E m \in net : Deliver(m) \/ Lose(m)
  \/ Forget \/ Tick
Spec == Init /\ [][Next]_vars

-----------------------------------------------------------------------------
TypeOK ==
  /\ timer \in [Tab -> Gone..Heartbeat] /\ check \in 0..Heartbeat
  /\ open \in [Tab -> 0..now] /\ heard \in [Accounts -> 0..now]
  /\ \A m \in net : now - m.sent \in 0..Delay

(* Whose channel to the watcher has been open for as long as a frame takes *)
(* is in its roster; if a frame is lost, a heartbeat later; and there it   *)
(* stays, although frames are lost one at a time and other tabs of the     *)
(* same account go.                                                        *)
PresentIsShown ==
  \A t \in Tab :
    /\ Account[t] # Self /\ open[t] # 0
    /\ now - open[t] > Delay + lost * Heartbeat
    => heard[Account[t]] # 0

(* An account none of whose tabs has had a channel to the watcher for a    *)
(* silence, a heartbeat and a frame's delay is no longer shown.            *)
GoneIsForgotten ==
  \A a \in Accounts :
    heard[a] # 0 =>
      \E t \in Tab :
        /\ Account[t] = a /\ Account[t] # Self
        /\ \/ open[t] # 0
           \/ /\ ended[t] # 0
              /\ now - ended[t] <= Silence + Heartbeat + Delay
PresenceAsHeard == PresentIsShown /\ GoneIsForgotten
=============================================================================
