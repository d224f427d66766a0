------------------------------ MODULE Endpoints ------------------------------
(***************************************************************************)
(* Which server a request of the browser goes to: the selection of         *)
(* lib/endpoints/index.js among a box on the LAN, the cloud and the page's *)
(* own origin, by health probes, and the requests of lib/api.js, which     *)
(* select again when one fails.  A selection is shared by all who ask      *)
(* while it runs.                                                          *)
(***************************************************************************)
EXTENDS Naturals, FiniteSets

CONSTANTS Box,        \* bases of the box on the LAN
          Cloud,      \* the base of the cloud
          Request,    \* bound: requests under way at once
          Revalidate, \* REVALIDATE_AFTER_MS, in ticks
          Timeout,    \* HEALTH_TIMEOUT_MS
          MaxTime,    \* bound: ticks
          MaxCalls,   \* bound: requests
          MaxChanges  \* bound: seeds and events

VARIABLES injected,   \* the pair the page was served with
          cache,      \* the pair in localStorage
          trusted,    \* _seededHosts, and the hosts of injected
          selected, selectedAt, \* of _state; selectedAt is 0 for invalid
          selecting,  \* the selection under way: see NotSelecting
          request,    \* request[r]: see Idle
          now, calls, changes,
          probed,     \* history: when the probe began that selected answered
          doubted,    \* history: the bases a request failed at, until they
                      \* answer a probe begun since
          retired,    \* history: boxes that a seed replaced
          misrouted   \* history: requests sent where they should not be

state == <<injected, cache, trusted, selected, selectedAt>>
world == <<now, calls, changes>>
history == <<probed, doubted, retired, misrouted>>
vars == <<state, selecting, request, world, history>>

NoBase == "none"
Origin == "origin"
Base == Box \union {Cloud}
Pair == [lan : Box \union {NoBase}, cloud : {Cloud, NoBase}]

(* yes, no: what each candidate said; joined: a request failed, or a seed   *)
(* came, when it was already under way.                                    *)
NotSelecting ==
  [on |-> FALSE, pair |-> [lan |-> NoBase, cloud |-> NoBase],
   yes |-> {}, no |-> {}, began |-> 0, joined |-> FALSE]
Candidates == {selecting.pair.lan, selecting.pair.cloud} \ {NoBase}
Idle == [at |-> "idle", base |-> Origin]

Init ==
  /\ injected \in {[lan |-> NoBase, cloud |-> NoBase],
                   [lan |-> CHOOSE b \in Box : TRUE, cloud |-> Cloud]}
  /\ cache \in {injected, [lan |-> CHOOSE b \in Box : TRUE, cloud |-> NoBase]}
  /\ trusted = {injected.lan, injected.cloud} \ {NoBase}
  /\ selected = Origin /\ selectedAt = 0
  /\ selecting = NotSelecting
  /\ request = [r \in Request |-> Idle]
  /\ now = 1 /\ calls = 0 /\ changes = 0
  /\ probed = 0
  /\ doubted = {} /\ retired = {} /\ misrouted = FALSE

-----------------------------------------------------------------------------
(* Mutated form of Fresh: a selection is good until a request fails.       *)
FreshUntilInvalid == selectedAt # 0

(* A recent selection is used again, unless forced.                        *)
Fresh == selectedAt # 0 /\ now - selectedAt < Revalidate

Or(base, other) == IF base # NoBase THEN base ELSE other

(* selectEndpoint past the recent one: join the selection under way, or    *)
(* begin one with the pair that resolveEndpoints finds and stores.         *)
Select ==
  LET pair == [lan |-> Or(injected.lan, cache.lan),
               cloud |-> Or(injected.cloud, cache.cloud)]
  IN  IF selecting.on THEN UNCHANGED <<selecting, cache>>
      ELSE /\ selecting' = [NotSelecting EXCEPT !.on = TRUE, !.pair = pair,
                                                !.began = now]
           /\ cache' = IF pair = NotSelecting.pair THEN cache ELSE pair

(* Whether a request may go to base: it answered a probe not long ago, no  *)
(* request has failed there since, and it is not one a seed has replaced.  *)
Proper(base, when, doubts) ==
  base # Origin => /\ now - when <= Revalidate + Timeout
                   /\ base \notin doubts \union retired

(* A request: with a recent selection it goes at once.                     *)
Call(r) ==
  /\ request[r] = Idle /\ calls < MaxCalls /\ calls' = calls + 1
  /\ IF Fresh
       THEN /\ request' = [request EXCEPT ![r] =
                             [at |-> "sent", base |-> selected]]
            /\ misrouted' =
                 (misrouted \/ ~Proper(selected, probed, doubted))
            /\ UNCHANGED <<selecting, cache>>
       ELSE /\ request' = [request EXCEPT ![r] =
                             [at |-> "wait", base |-> Origin]]
            /\ Select /\ UNCHANGED misrouted
  /\ UNCHANGED <<injected, trusted, selected, selectedAt, now, changes,
                 probed, doubted, retired>>

(* A candidate's probe: nobody is asked whose host is not trusted; another *)
(* answers, or not in time.                                                *)
Probe(b) ==
  /\ selecting.on /\ b \in Candidates \ (selecting.yes \union selecting.no)
  /\ \/ /\ b \in trusted
        /\ selecting' = [selecting EXCEPT !.yes = @ \union {b}]
     \/ selecting' = [selecting EXCEPT !.no = @ \union {b}]
  /\ UNCHANGED <<state, request, world, history>>

(* Mutated form of Winner: the cloud is preferred, up or not.              *)
WinnerCloud ==
  IF selecting.pair.cloud # NoBase THEN selecting.pair.cloud
  ELSE IF selecting.pair.lan \in selecting.yes THEN selecting.pair.lan
  ELSE Origin

(* All have answered: the box before the cloud, and the origin if neither  *)
(* is up.  Those who wait go on: a request that has failed only if it can  *)
(* go elsewhere.                                                           *)
Winner ==
  IF selecting.pair.lan \in selecting.yes THEN selecting.pair.lan
  ELSE IF selecting.pair.cloud \in selecting.yes THEN selecting.pair.cloud
  ELSE Origin
Selected ==
  LET doubts == IF selecting.joined THEN doubted
                                    ELSE doubted \ selecting.yes
      goes == {r \in Request : \/ request[r].at = "wait"
                               \/ /\ request[r].at = "again"
                                  /\ request[r].base # Winner}
  IN  /\ selecting.on /\ Candidates \subseteq selecting.yes \union selecting.no
      /\ selected' = Winner /\ selectedAt' = now /\ selecting' = NotSelecting
      /\ request' = [r \in Request |->
           IF r \in goes
             THEN [at |-> IF request[r].at = "wait" THEN "sent" ELSE "resent",
                   base |-> Winner]
           ELSE IF request[r].at = "again" THEN Idle ELSE request[r]]
      /\ doubted' = IF selecting.joined THEN {} ELSE doubts
      /\ retired' = IF selecting.joined THEN {} ELSE retired
      /\ misrouted' = (misrouted \/ /\ goes # {} /\ ~selecting.joined
                                    /\ ~Proper(Winner, selecting.began, doubts))
      /\ probed' = selecting.began
      /\ UNCHANGED <<injected, cache, trusted, world>>

(* The answer comes, or the network fails before or after the server had   *)
(* the request: then, once, the selection is invalid and another is forced.*)
Answer(r) ==
  /\ request[r].at \in {"sent", "resent"}
  /\ request' = [request EXCEPT ![r] = Idle]
  /\ UNCHANGED <<state, selecting, world, history>>

(* Mutated form of Fail: it selects again, but what was selected stays     *)
(* valid meanwhile.                                                        *)
FailUnnoticed(r) ==
  /\ request[r].at = "sent"
  /\ request' = [request EXCEPT ![r].at = "again"]
  /\ doubted' = doubted \union ({request[r].base} \ {Origin})
  /\ Select
  /\ UNCHANGED <<injected, trusted, selected, selectedAt, world, probed,
                 retired, misrouted>>

Fail(r) ==
  /\ request[r].at = "sent"
  /\ request' = [request EXCEPT ![r].at = "again"]
  /\ doubted' = doubted \union ({request[r].base} \ {Origin})
  /\ selectedAt' = 0
  /\ IF selecting.on
       THEN selecting' = [selecting EXCEPT !.joined = TRUE] /\ UNCHANGED cache
       ELSE Select
  /\ UNCHANGED <<injected, trusted, selected, world, probed, retired,
                 misrouted>>
FailAgain(r) ==
  /\ request[r].at = "resent"
  /\ request' = [request EXCEPT ![r] = Idle]
  /\ UNCHANGED <<state, selecting, world, history>>

-----------------------------------------------------------------------------
(* The browser's online and offline events force a selection.              *)
Reselect ==
  /\ changes < MaxChanges /\ changes' = changes + 1
  /\ Select
  /\ UNCHANGED <<injected, trusted, selected, selectedAt, request, now, calls,
                 history>>

(* seedFromResolveBackend with a target that has a box, a cloud or both.   *)
Seed(pair) ==
  LET merged == [lan |-> Or(pair.lan, cache.lan),
                 cloud |-> Or(pair.cloud, cache.cloud)]
  IN  /\ changes < MaxChanges /\ changes' = changes + 1
      /\ cache' = merged
      /\ trusted' = trusted \union ({merged.lan, merged.cloud} \ {NoBase})
      /\ selectedAt' = 0
      /\ selecting' = [selecting EXCEPT !.joined = selecting.on]
      /\ retired' = IF injected.lan # NoBase \/ merged.lan = cache.lan
                      THEN retired
                    ELSE (retired \union {cache.lan}) \ {merged.lan, NoBase}
      /\ UNCHANGED <<injected, selected, request, now, calls, probed,
                     doubted, misrouted>>

(* Probes end in time.                                                     *)
Tick ==
  /\ now < MaxTime /\ now' = now + 1
  /\ selecting.on => now < selecting.began + Timeout
  /\ UNCHANGED <<state, selecting, request, calls, changes, history>>

Next ==
  \/ \E r \in Request : Call(r) \/ Answer(r) \/ Fail(r) \/ FailAgain(r)
  \/ \E b \in Base : Probe(b)
  \/ \E pair \in Pair : Seed(pair)
  \/ Selected \/ Reselect \/ Tick
Spec == Init /\ [][Next]_vars

-----------------------------------------------------------------------------
TypeOK ==
  /\ cache \in Pair /\ injected \in Pair /\ trusted \subseteq Base
  /\ selected \in Base \union {Origin} /\ selectedAt \in 0..now
  /\ request \in [Request -> [at : {"idle", "wait", "sent", "again", "resent"},
                              base : Base \union {Origin}]]

(* No request is sent to a server other than the page's own that has not   *)
(* answered for longer than a selection is used and a probe takes, or at   *)
(* which a request has failed without a probe since, or that a seed has    *)
(* replaced (where the page came with no pair, which wins over seeds) -    *)
(* unless the failure or the seed came when a selection was already under  *)
(* way, whose result then counts for as long as any other, or the failure  *)
(* was that of a second attempt, which nobody notes.                       *)
GoesWhereProbed == ~misrouted

(* A request sent or about to be sent is never stuck: while one waits, a   *)
(* selection is under way.                                                 *)
WaitsOnSelection ==
  (\E r \in Request : request[r].at \in {"wait", "again"}) => selecting.on
EndpointsAsProbed == GoesWhereProbed /\ WaitsOnSelection
=============================================================================
