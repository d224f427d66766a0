--------------------------- MODULE SessionsProofs ---------------------------
(***************************************************************************)
(* What keeps an editor's tab in touch, for every value of the constants,  *)
(* as properties of Sessions.  A behaviour of Sessions is one of a single  *)
(* part, so each proof is of that part: its invariant holds at first, and  *)
(* is kept by every step, while the others stay as they were.              *)
(***************************************************************************)
EXTENDS Sessions, FiniteSetTheorems, SequenceTheorems, TLAPS

(* A step of Sessions is one of the part, or changes nothing of it.        *)
LEMMA PartSteps ==
  ASSUME [Next]_vars
  PROVE  /\ part' = part
         /\ part = "saves" => [Saves!Next]_saveVars
         /\ part = "peers" => [Peers!Next]_peerVars
         /\ part = "fabric" => [Fab!Next]_fabricVars
         /\ part = "endpoints" => [Ends!Next]_endVars
         /\ part = "presence" => [Shown!Next]_presenceVars
BY DEF Next, SaveStep, CollabStep, RequestStep, vars

-----------------------------------------------------------------------------
(* Endpoints.  A selection that is valid answered a probe when it was made *)
(* and no request has failed there since; the pair that a selection under  *)
(* way tries, unless it was joined, and the one the next would try, have   *)
(* not been replaced.                                                      *)
Pairs == [lan : Box \union {"none"}, cloud : {Cloud, "none"}]

Selecting ==
  [on : BOOLEAN, pair : Pairs, yes : SUBSET Ends!Base, no : SUBSET Ends!Base,
   began : Nat, joined : BOOLEAN]

EndTypes ==
  /\ injected \in Pairs /\ cache \in Pairs
  /\ selecting \in Selecting
  /\ now \in Nat /\ selectedAt \in Nat /\ probed \in Nat
  /\ selected \in Ends!Base \union {"origin"}
  /\ request \in [Request ->
       [at : {"idle", "wait", "sent", "again", "resent"},
        base : Ends!Base \union {"origin"}]]
  /\ retired \subseteq Box

ValidIsProbed ==
  selectedAt # 0 /\ selected # "origin" =>
    /\ selectedAt <= probed + Timeout
    /\ selected \notin doubted \union retired

SelectingIsFresh ==
  selecting.on =>
    /\ selecting.began <= now /\ now <= selecting.began + Timeout
    /\ selecting.yes \subseteq Ends!Candidates
    /\ ~selecting.joined => selecting.pair.lan \notin retired

NextIsNotRetired ==
  IF injected.lan # "none" THEN retired = {} ELSE cache.lan \notin retired

EndIInv ==
  /\ EndTypes /\ ValidIsProbed /\ SelectingIsFresh /\ NextIsNotRetired
  /\ Ends!EndpointsAsProbed

LEMMA EndStarts == ASSUME Ends!Init PROVE EndIInv
<1>1. PICK b \in Box : b = CHOOSE c \in Box : TRUE
  BY BasesDiffer
<1>2. EndTypes
  BY <1>1 DEF Ends!Init, EndTypes, Pairs, Selecting, Ends!NoBase, Ends!NotSelecting,
     Ends!Idle, Ends!Origin, Ends!Base
<1>3. /\ ~selecting.on /\ selectedAt = 0 /\ retired = {} /\ ~misrouted
      /\ \A r \in Request : request[r].at = "idle"
  BY DEF Ends!Init, Ends!NotSelecting, Ends!Idle
<1> QED
  BY <1>2, <1>3 DEF EndIInv, ValidIsProbed, SelectingIsFresh, NextIsNotRetired,
     Ends!EndpointsAsProbed, Ends!GoesWhereProbed, Ends!WaitsOnSelection

(* What the steps that begin a selection, or join one, leave of it.        *)
LEMMA SelectKeeps ==
  ASSUME EndIInv, Ends!Select,
         UNCHANGED <<injected, now, retired>>
  PROVE  /\ selecting'.on
         /\ cache' \in Pairs /\ selecting' \in Selecting
         /\ SelectingIsFresh' /\ NextIsNotRetired'
<1> DEFINE pair == [lan |-> Ends!Or(injected.lan, cache.lan),
                    cloud |-> Ends!Or(injected.cloud, cache.cloud)]
<1>1. EndTypes /\ SelectingIsFresh /\ NextIsNotRetired
  BY DEF EndIInv
<1>2. pair \in Pairs /\ pair.lan = IF injected.lan # "none" THEN injected.lan
                                                            ELSE cache.lan
  BY <1>1 DEF EndTypes, Pairs, Ends!Or, Ends!NoBase
<1>3. pair.lan \notin retired
  BY <1>1, <1>2 DEF NextIsNotRetired
<1>4. CASE selecting.on
  <2>1. UNCHANGED <<selecting, cache>>
    BY <1>4 DEF Ends!Select
  <2> QED
    BY <1>1, <1>4, <2>1 DEF EndTypes, SelectingIsFresh, NextIsNotRetired,
       Ends!Candidates
<1>5. CASE ~selecting.on
  <2>1. /\ selecting' = [Ends!NotSelecting EXCEPT !.on = TRUE, !.pair = pair,
                                                  !.began = now]
        /\ cache' = IF pair = Ends!NotSelecting.pair THEN cache ELSE pair
    BY <1>5 DEF Ends!Select
  <2>2. selecting' = [on |-> TRUE, pair |-> pair, yes |-> {}, no |-> {},
                      began |-> now, joined |-> FALSE]
    BY <2>1 DEF Ends!NotSelecting
  <2>3. cache' = cache \/ cache' = pair
    BY <2>1
  <2> HIDE DEF pair
  <2>4. cache' \in Pairs
    BY <1>1, <1>2, <2>3 DEF EndTypes
  <2>5. selecting' \in Selecting
    BY <1>1, <1>2, <2>2 DEF EndTypes, Selecting
  <2>6. SelectingIsFresh'
    BY <1>1, <1>3, <2>2, BasesDiffer DEF EndTypes, SelectingIsFresh,
       Ends!Candidates
  <2>7. NextIsNotRetired'
    BY <1>1, <1>2, <1>3, <2>3 DEF NextIsNotRetired
  <2> QED BY <2>2, <2>4, <2>5, <2>6, <2>7
<1> QED BY <1>4, <1>5

(* A request that is sent at once goes to a selection that is valid.       *)
LEMMA FreshIsProper ==
  ASSUME EndIInv, Ends!Fresh
  PROVE  Ends!Proper(selected, probed, doubted)
BY BasesDiffer DEF EndIInv, EndTypes, ValidIsProbed, Ends!Fresh, Ends!Proper,
   Ends!Origin

LEMMA CallKeeps ==
  ASSUME EndIInv, NEW r \in Request, Ends!Call(r) PROVE EndIInv'
<1>1. /\ EndTypes /\ ValidIsProbed /\ SelectingIsFresh /\ NextIsNotRetired
      /\ ~misrouted /\ Ends!WaitsOnSelection
  BY DEF EndIInv, Ends!EndpointsAsProbed, Ends!GoesWhereProbed
<1>2. UNCHANGED <<injected, trusted, selected, selectedAt, now, changes,
                  probed, doubted, retired>>
  BY DEF Ends!Call
<1>3. CASE Ends!Fresh
  <2>1. /\ request' = [request EXCEPT ![r] =
                         [at |-> "sent", base |-> selected]]
        /\ misrouted' = FALSE
        /\ UNCHANGED <<selecting, cache>>
    BY <1>1, <1>3, FreshIsProper DEF Ends!Call
  <2>2. EndTypes'
    BY <1>1, <1>2, <2>1 DEF EndTypes
  <2>3. Ends!EndpointsAsProbed'
    BY <1>1, <2>1 DEF EndTypes, Ends!EndpointsAsProbed, Ends!GoesWhereProbed,
       Ends!WaitsOnSelection
  <2> QED
    BY <1>1, <1>2, <2>1, <2>2, <2>3 DEF EndIInv, ValidIsProbed,
       SelectingIsFresh, NextIsNotRetired, Ends!Candidates
<1>4. CASE ~Ends!Fresh
  <2>1. /\ request' = [request EXCEPT ![r] =
                         [at |-> "wait", base |-> Ends!Origin]]
        /\ Ends!Select /\ misrouted' = FALSE
    BY <1>1, <1>4 DEF Ends!Call
  <2>2. /\ selecting'.on /\ cache' \in Pairs /\ selecting' \in Selecting
        /\ SelectingIsFresh' /\ NextIsNotRetired'
    BY <1>2, <2>1, SelectKeeps
  <2>3. EndTypes'
    BY <1>1, <1>2, <2>1, <2>2 DEF EndTypes, Ends!Origin
  <2>4. Ends!EndpointsAsProbed'
    BY <2>1, <2>2 DEF Ends!EndpointsAsProbed, Ends!GoesWhereProbed,
       Ends!WaitsOnSelection
  <2>5. ValidIsProbed'
    BY <1>1, <1>2 DEF ValidIsProbed
  <2> QED BY <2>2, <2>3, <2>4, <2>5 DEF EndIInv
<1> QED BY <1>3, <1>4

LEMMA ProbeKeeps ==
  ASSUME EndIInv, NEW b \in Ends!Base, Ends!Probe(b) PROVE EndIInv'
<1>1. /\ EndTypes /\ ValidIsProbed /\ SelectingIsFresh /\ NextIsNotRetired
      /\ ~misrouted /\ Ends!WaitsOnSelection
  BY DEF EndIInv, Ends!EndpointsAsProbed, Ends!GoesWhereProbed
<1>2. /\ b \in Ends!Candidates
      /\ UNCHANGED <<injected, cache, trusted, selected, selectedAt, request,
                     now, probed, doubted, retired, misrouted>>
      /\ \/ selecting' = [selecting EXCEPT !.yes = @ \union {b}]
         \/ selecting' = [selecting EXCEPT !.no = @ \union {b}]
  BY DEF Ends!Probe, Ends!state, Ends!world, Ends!history
<1>3. /\ selecting' \in Selecting /\ selecting'.yes \subseteq
           selecting.yes \union {b}
      /\ selecting'.on = selecting.on /\ selecting'.pair = selecting.pair
      /\ selecting'.began = selecting.began
      /\ selecting'.joined = selecting.joined
  BY <1>1, <1>2 DEF EndTypes, Selecting
<1>4. EndTypes'
  BY <1>1, <1>2, <1>3 DEF EndTypes
<1>5. SelectingIsFresh'
  BY <1>1, <1>2, <1>3 DEF SelectingIsFresh, Ends!Candidates
<1>6. Ends!EndpointsAsProbed'
  BY <1>1, <1>2, <1>3 DEF Ends!EndpointsAsProbed, Ends!GoesWhereProbed,
     Ends!WaitsOnSelection
<1> QED
  BY <1>1, <1>2, <1>4, <1>5, <1>6 DEF EndIInv, ValidIsProbed, NextIsNotRetired

(* Who wins has answered yes; of a selection that nothing joined it is not *)
(* replaced, and not doubted any more.                                     *)
LEMMA SelectedKeeps == ASSUME EndIInv, Ends!Selected PROVE EndIInv'
<1> DEFINE doubts == IF selecting.joined THEN doubted
                                         ELSE doubted \ selecting.yes
           goes == {r \in Request : \/ request[r].at = "wait"
                                    \/ /\ request[r].at = "again"
                                       /\ request[r].base # Ends!Winner}
<1>1. /\ EndTypes /\ ValidIsProbed /\ SelectingIsFresh /\ NextIsNotRetired
      /\ ~misrouted /\ Ends!WaitsOnSelection
  BY DEF EndIInv, Ends!EndpointsAsProbed, Ends!GoesWhereProbed
<1>2. /\ selecting.on
      /\ selected' = Ends!Winner /\ selectedAt' = now
      /\ selecting' = Ends!NotSelecting /\ probed' = selecting.began
      /\ doubted' = IF selecting.joined THEN {} ELSE doubts
      /\ retired' = IF selecting.joined THEN {} ELSE retired
      /\ UNCHANGED <<injected, cache, now>>
  BY DEF Ends!Selected, Ends!world
<1>3. request' = [r \in Request |->
           IF r \in goes
             THEN [at |-> IF request[r].at = "wait" THEN "sent" ELSE "resent",
                   base |-> Ends!Winner]
           ELSE IF request[r].at = "again" THEN Ends!Idle ELSE request[r]]
  BY DEF Ends!Selected
<1>4. misrouted' =
        (misrouted \/ /\ goes # {} /\ ~selecting.joined
                      /\ ~Ends!Proper(Ends!Winner, selecting.began, doubts))
  BY DEF Ends!Selected
<1> HIDE DEF goes
<1>5. /\ Ends!Winner # "origin" =>
           Ends!Winner \in selecting.yes /\ Ends!Winner \in Ends!Base
      /\ ~selecting.joined /\ Ends!Winner # "origin" =>
           Ends!Winner \notin retired
  <2>1. /\ selecting.yes \subseteq Box \union {Cloud} /\ retired \subseteq Box
        /\ selecting.pair.cloud \in {Cloud, "none"}
        /\ ~selecting.joined => selecting.pair.lan \notin retired
    BY <1>1, <1>2 DEF EndTypes, Selecting, Pairs, Ends!Base, SelectingIsFresh
  <2>2. \/ Ends!Winner = "origin"
        \/ Ends!Winner \in selecting.yes
           /\ (Ends!Winner = selecting.pair.lan
                \/ Ends!Winner = selecting.pair.cloud)
    BY DEF Ends!Winner, Ends!Origin
  <2>3. Cloud \notin retired /\ "none" \notin retired
    BY <2>1, BasesDiffer
  <2>4. Ends!Winner # "origin" => Ends!Winner \in Ends!Base
    BY <2>1, <2>2 DEF Ends!Base
  <2>5. CASE Ends!Winner = selecting.pair.cloud
    BY <2>1, <2>2, <2>3, <2>4, <2>5
  <2>6. CASE Ends!Winner = selecting.pair.lan
    BY <2>1, <2>2, <2>4, <2>6
  <2> QED BY <2>2, <2>5, <2>6
<1>6. /\ now \in Nat /\ selecting.began \in Nat
      /\ selecting.began <= now /\ now <= selecting.began + Timeout
  BY <1>1, <1>2 DEF EndTypes, Selecting, SelectingIsFresh
<1>7. ~misrouted'
  <2>1. ~selecting.joined =>
          Ends!Proper(Ends!Winner, selecting.began, doubts)
    <3> SUFFICES ASSUME ~selecting.joined, Ends!Winner # "origin"
                 PROVE  /\ now - selecting.began <= Revalidate + Timeout
                        /\ Ends!Winner \notin doubts \union retired
      BY DEF Ends!Proper, Ends!Origin
    <3> QED BY <1>5, <1>6, BasesDiffer
  <2> QED BY <1>1, <1>4, <2>1
<1>8. \A r \in Request : request'[r].at \in {"idle", "sent", "resent"}
  BY <1>1, <1>3 DEF EndTypes, goes, Ends!Idle
<1>9. EndTypes'
  <2>1. selecting' \in Selecting
    BY <1>2 DEF Selecting, Ends!NotSelecting, Pairs, Ends!NoBase
  <2>2. request' \in [Request ->
       [at : {"idle", "wait", "sent", "again", "resent"},
        base : Ends!Base \union {"origin"}]]
    BY <1>1, <1>3, <1>5 DEF EndTypes, Ends!Idle, Ends!Origin
  <2> QED BY <1>1, <1>2, <1>5, <1>6, <2>1, <2>2 DEF EndTypes
<1>10. ValidIsProbed'
  BY <1>2, <1>5, <1>6 DEF ValidIsProbed
<1>11. SelectingIsFresh' /\ NextIsNotRetired'
  BY <1>1, <1>2 DEF SelectingIsFresh, NextIsNotRetired, Ends!NotSelecting
<1>12. Ends!EndpointsAsProbed'
  BY <1>7, <1>8 DEF Ends!EndpointsAsProbed, Ends!GoesWhereProbed,
     Ends!WaitsOnSelection
<1> QED BY <1>9, <1>10, <1>11, <1>12 DEF EndIInv

(* An answer, and a second failure, end a request that did not wait.       *)
LEMMA EndedKeeps ==
  ASSUME EndIInv, NEW r \in Request, Ends!Answer(r) \/ Ends!FailAgain(r)
  PROVE  EndIInv'
<1>1. /\ EndTypes /\ ValidIsProbed /\ SelectingIsFresh /\ NextIsNotRetired
      /\ ~misrouted /\ Ends!WaitsOnSelection
  BY DEF EndIInv, Ends!EndpointsAsProbed, Ends!GoesWhereProbed
<1>2. /\ request' = [request EXCEPT ![r] = Ends!Idle]
      /\ UNCHANGED <<injected, cache, selected, selectedAt, selecting, now,
                     probed, doubted, retired, misrouted>>
  BY DEF Ends!Answer, Ends!FailAgain, Ends!state, Ends!world, Ends!history
<1>3. EndTypes'
  BY <1>1, <1>2 DEF EndTypes, Ends!Idle, Ends!Origin
<1>4. Ends!EndpointsAsProbed'
  BY <1>1, <1>2 DEF EndTypes, Ends!EndpointsAsProbed, Ends!GoesWhereProbed,
     Ends!WaitsOnSelection, Ends!Idle
<1> QED
  BY <1>1, <1>2, <1>3, <1>4 DEF EndIInv, ValidIsProbed, SelectingIsFresh,
     NextIsNotRetired, Ends!Candidates

(* A failure invalidates the selection, and joins one that is under way.   *)
LEMMA FailKeeps ==
  ASSUME EndIInv, NEW r \in Request, Ends!Fail(r) PROVE EndIInv'
<1>1. /\ EndTypes /\ ValidIsProbed /\ SelectingIsFresh /\ NextIsNotRetired
      /\ ~misrouted /\ Ends!WaitsOnSelection
  BY DEF EndIInv, Ends!EndpointsAsProbed, Ends!GoesWhereProbed
<1>2. /\ request' = [request EXCEPT ![r].at = "again"]
      /\ selectedAt' = 0
      /\ UNCHANGED <<injected, selected, now, probed, retired, misrouted>>
  BY DEF Ends!Fail, Ends!world
<1>3. /\ selecting'.on /\ cache' \in Pairs /\ selecting' \in Selecting
      /\ SelectingIsFresh' /\ NextIsNotRetired'
  <2>1. CASE selecting.on
    <3>1. /\ selecting' = [selecting EXCEPT !.joined = TRUE]
          /\ cache' = cache
      BY <2>1 DEF Ends!Fail
    <3>2. /\ selecting' \in Selecting
          /\ selecting'.on /\ selecting'.joined
          /\ selecting'.yes = selecting.yes /\ selecting'.pair = selecting.pair
          /\ selecting'.began = selecting.began
      BY <1>1, <2>1, <3>1 DEF EndTypes, Selecting
    <3> QED
      BY <1>1, <1>2, <2>1, <3>1, <3>2 DEF EndTypes, SelectingIsFresh,
         NextIsNotRetired, Ends!Candidates
  <2>2. CASE ~selecting.on
    BY <1>2, <2>2, SelectKeeps DEF Ends!Fail
  <2> QED BY <2>1, <2>2
<1>4. EndTypes'
  BY <1>1, <1>2, <1>3 DEF EndTypes
<1>5. Ends!EndpointsAsProbed'
  BY <1>1, <1>2, <1>3 DEF Ends!EndpointsAsProbed, Ends!GoesWhereProbed,
     Ends!WaitsOnSelection
<1> QED BY <1>2, <1>3, <1>4, <1>5 DEF EndIInv, ValidIsProbed

LEMMA ReselectKeeps == ASSUME EndIInv, Ends!Reselect PROVE EndIInv'
<1>1. /\ EndTypes /\ ValidIsProbed
      /\ ~misrouted /\ Ends!WaitsOnSelection
  BY DEF EndIInv, Ends!EndpointsAsProbed, Ends!GoesWhereProbed
<1>2. /\ Ends!Select
      /\ UNCHANGED <<injected, selected, selectedAt, request, now, probed,
                     doubted, retired, misrouted>>
  BY DEF Ends!Reselect, Ends!history
<1>3. /\ selecting'.on /\ cache' \in Pairs /\ selecting' \in Selecting
      /\ SelectingIsFresh' /\ NextIsNotRetired'
  BY <1>2, SelectKeeps
<1>4. EndTypes'
  BY <1>1, <1>2, <1>3 DEF EndTypes
<1>5. Ends!EndpointsAsProbed'
  BY <1>1, <1>2, <1>3 DEF Ends!EndpointsAsProbed, Ends!GoesWhereProbed,
     Ends!WaitsOnSelection
<1> QED BY <1>1, <1>2, <1>3, <1>4, <1>5 DEF EndIInv, ValidIsProbed

(* A seed replaces the box that the next selection would have tried.       *)
LEMMA SeedKeeps ==
  ASSUME EndIInv, NEW pair \in Ends!Pair, Ends!Seed(pair) PROVE EndIInv'
<1> DEFINE merged == [lan |-> Ends!Or(pair.lan, cache.lan),
                      cloud |-> Ends!Or(pair.cloud, cache.cloud)]
<1>1. /\ EndTypes /\ ValidIsProbed /\ SelectingIsFresh /\ NextIsNotRetired
      /\ ~misrouted /\ Ends!WaitsOnSelection
  BY DEF EndIInv, Ends!EndpointsAsProbed, Ends!GoesWhereProbed
<1>2. /\ cache' = merged /\ selectedAt' = 0
      /\ selecting' = [selecting EXCEPT !.joined = selecting.on]
      /\ retired' = IF injected.lan # Ends!NoBase \/ merged.lan = cache.lan
                      THEN retired
                    ELSE (retired \union {cache.lan})
                           \ {merged.lan, Ends!NoBase}
      /\ UNCHANGED <<injected, selected, request, now, probed, misrouted>>
  BY DEF Ends!Seed
<1>3. merged \in Pairs
  BY <1>1 DEF EndTypes, Pairs, Ends!Pair, Ends!Or, Ends!NoBase
<1> HIDE DEF merged
<1>4. /\ selecting' \in Selecting
      /\ selecting'.on = selecting.on /\ selecting'.joined = selecting.on
      /\ selecting'.yes = selecting.yes /\ selecting'.pair = selecting.pair
      /\ selecting'.began = selecting.began
  BY <1>1, <1>2 DEF EndTypes, Selecting
<1>5. /\ cache.lan \in Box \union {"none"} /\ retired \subseteq Box
      /\ cache'.lan = merged.lan
  BY <1>1, <1>2 DEF EndTypes, Pairs
<1>6. retired' \subseteq Box /\ NextIsNotRetired'
  BY <1>1, <1>2, <1>5 DEF NextIsNotRetired, Ends!NoBase
<1>7. EndTypes'
  BY <1>1, <1>2, <1>3, <1>4, <1>6 DEF EndTypes
<1>8. SelectingIsFresh'
  BY <1>1, <1>2, <1>4 DEF EndTypes, SelectingIsFresh, Ends!Candidates
<1>9. Ends!EndpointsAsProbed'
  BY <1>1, <1>2, <1>4 DEF Ends!EndpointsAsProbed, Ends!GoesWhereProbed,
     Ends!WaitsOnSelection
<1> QED BY <1>2, <1>6, <1>7, <1>8, <1>9 DEF EndIInv, ValidIsProbed

LEMMA EndTickKeeps == ASSUME EndIInv, Ends!Tick PROVE EndIInv'
<1>1. /\ now' = now + 1 /\ now \in Nat
      /\ selecting.on => now < selecting.began + Timeout
      /\ UNCHANGED <<injected, cache, selected, selectedAt, selecting, request,
                     probed, doubted, retired, misrouted>>
      /\ selecting \in Selecting
  BY DEF Ends!Tick, EndIInv, EndTypes, Ends!state, Ends!history
<1>2. EndTypes' /\ SelectingIsFresh'
  BY <1>1, BasesDiffer DEF EndIInv, EndTypes, SelectingIsFresh, Selecting,
     Ends!Candidates
<1> QED
  BY <1>1, <1>2 DEF EndIInv, ValidIsProbed, NextIsNotRetired,
     Ends!EndpointsAsProbed, Ends!GoesWhereProbed, Ends!WaitsOnSelection

EndInv == part = "endpoints" => EndIInv

LEMMA EndGoesOn == ASSUME EndInv, [Next]_vars PROVE EndInv'
<1> SUFFICES ASSUME part = "endpoints", EndIInv, [Ends!Next]_endVars
             PROVE  EndIInv'
  BY PartSteps DEF EndInv
<1>1. CASE UNCHANGED endVars
  BY <1>1 DEF endVars, EndIInv, EndTypes, ValidIsProbed, SelectingIsFresh,
     NextIsNotRetired, Ends!Candidates, Ends!EndpointsAsProbed,
     Ends!GoesWhereProbed, Ends!WaitsOnSelection
<1>2. CASE Ends!Next
  BY <1>2, CallKeeps, ProbeKeeps, SelectedKeeps, EndedKeeps, FailKeeps,
     ReselectKeeps, SeedKeeps, EndTickKeeps DEF Ends!Next
<1> QED BY <1>1, <1>2

(* endpoints/index.js, api.js: with any boxes and requests, and however    *)
(* they fail, none goes to a server that has not answered lately, failed   *)
(* or was replaced, and none waits without a selection under way.          *)
THEOREM RequestsGoWhereProbed == Spec => []EndpointsAsProbed
<1>1. Init => EndInv
  BY EndStarts DEF Init, EndInv
<1>2. EndInv => EndpointsAsProbed
  BY DEF EndInv, EndIInv, EndpointsAsProbed
<1> QED BY <1>1, <1>2, EndGoesOn, PTL DEF Spec

-----------------------------------------------------------------------------
(* Fabric.  The peer that offers, and the one that answers.                *)
One == peer[1]
Two == peer[2]
Message == [type : {"offer", "answer"}, n : 1..MaxOffers]

FabTypes ==
  /\ peer \in [Fab!Peer -> Fab!PeerState]
  /\ link \in [1..MaxOffers -> {"forming", "up", "failed", "dropped"}]
  /\ mail \in [Fab!Peer -> BOOLEAN]
  /\ inbox \in [Fab!Peer -> Seq(Message)]
  /\ offers \in 0..MaxOffers
  /\ lost \in BOOLEAN /\ hurried \in BOOLEAN /\ dropped \in BOOLEAN

Untroubled == ~lost /\ ~hurried /\ ~dropped /\ One.in /\ Two.in

(* The last offer is the one that peer 1 is at.  What is in the inboxes is *)
(* newer than what peer 2 is at, and answers are older than offers.        *)
InboxesInOrder ==
  /\ \A i \in 1..Len(inbox[2]) :
       /\ inbox[2][i].type = "offer" /\ Two.n < inbox[2][i].n
       /\ inbox[2][i].n <= offers
  /\ \A i, j \in 1..Len(inbox[2]) : i < j => inbox[2][i].n < inbox[2][j].n
  /\ \A i \in 1..Len(inbox[1]) :
       /\ inbox[1][i].type = "answer" /\ inbox[1][i].n <= offers
       /\ \A j \in 1..Len(inbox[2]) : inbox[1][i].n < inbox[2][j].n
  /\ \A i, j \in 1..Len(inbox[1]) : i < j => inbox[1][i].n < inbox[1][j].n
LastOffer ==
  /\ One.n = offers /\ Two.n <= offers
  /\ offers # 0 => One.signal # "none"
  /\ Two.signal = IF Two.n = 0 THEN "none" ELSE "stable"
  /\ \A n \in 1..MaxOffers : /\ link[n] # "dropped"
                             /\ n > offers => link[n] = "forming"
  /\ One.known <=> offers # 0
  /\ ~One.known => ~One.reinit /\ ~One.stale
  /\ ~One.left /\ ~Two.left

(* An answer that fits is the last message; a link is up, a connection is  *)
(* live and a channel open only after that.                                *)
Live == {"pc", "dc", "failed"}
LiveIsUp ==
  \A s \in {One, Two} :
    /\ s.up \in Live => /\ s.n # 0 /\ s.signal = "stable"
                        /\ link[s.n] \in {"up", "failed"}
    /\ s.up = "dc" => s.state = "connected"
    /\ s.state = "connected" /\ ~s.posting => s.up \in {"pc", "dc"}
    /\ s.posting \/ s.state = "connecting" => s.polling
StableIsHeard ==
  /\ One.signal = "stable" => inbox[1] = <<>> /\ inbox[2] = <<>>
  /\ offers # 0 /\ link[offers] = "up" => One.signal = "stable"
  /\ Two.up \in Live => inbox[1] = <<>>

(* Two peers at one negotiation lose its connection only with the link,    *)
(* unless an answer was taken for another; and peer 2 is left with an old  *)
(* one only by a new offer that will be made again.                        *)
GoneIsFailed ==
  /\ One.n = Two.n /\ offers # 0 /\ One.signal # "crossed"
       /\ (One.up = "gone" \/ Two.up = "gone")
     => link[offers] = "failed"
  /\ One.up = "gone" => One.signal # "offered"
  /\ One.up = "failed" \/ Two.up = "failed" => One.n # Two.n
Outrun ==
  Two.up \in Live /\ One.n # Two.n =>
    One.reinit /\ One.signal = "offered" /\ inbox[2] # <<>>

(* Whoever is not connected and not in the relay yet has something to come.*)
OneTries ==
  /\ One.known /\ One.state = "disconnected" =>
       One.posting \/ (One.reinit /\ One.up = "gone" /\ Two.up \notin Live)
  /\ One.posting \/ One.state = "connecting" =>
       One.state \in {"connected", "relay"} \/ One.relayTimer \/ One.reinit
TwoTries ==
  offers # 0 /\ Two.state = "disconnected" => Two.posting \/ inbox[2] # <<>>
RelayIsTold ==
  One.state = "relay" /\ ~One.reinit /\ ~One.posting =>
    Two.state \in {"relay", "connected"} \/ mail[2]

Reaching ==
  /\ InboxesInOrder /\ LastOffer /\ LiveIsUp
  /\ StableIsHeard /\ GoneIsFailed /\ Outrun /\ OneTries /\ TwoTries
  /\ RelayIsTold
FabIInv == FabTypes /\ (Untroubled => Reaching)

(* Both at one negotiation whose link is up: each connects, or notices.    *)
LEMMA ReachingIsTheSame == ASSUME FabIInv PROVE Fab!ReachTheSameWay
<1> SUFFICES ASSUME Fab!Settled, ~lost, ~hurried, ~dropped
             PROVE  /\ One.state = Two.state
                    /\ One.state \in {"connected", "relay"}
  BY DEF Fab!ReachTheSameWay, One, Two
<1>1. FabTypes /\ One \in Fab!PeerState /\ Two \in Fab!PeerState
  BY DEF FabIInv, FabTypes, One, Two, Fab!Peer
<1>2. /\ One.in /\ One.known /\ inbox[1] = <<>> /\ ~(Fab!Polls(1) /\ mail[1])
      /\ ~One.relayTimer /\ ~One.reinit /\ ~One.posting
      /\ ~(Fab!Linked(1) /\ One.up \in {"no", "pc"})
      /\ ~(Fab!Broken(1) /\ One.up \in {"no", "pc", "dc", "failed"})
      /\ Two.in /\ Two.known /\ inbox[2] = <<>> /\ ~(Fab!Polls(2) /\ mail[2])
      /\ ~Two.relayTimer /\ ~Two.reinit /\ ~Two.posting
      /\ ~(Fab!Linked(2) /\ Two.up \in {"no", "pc"})
      /\ ~(Fab!Broken(2) /\ Two.up \in {"no", "pc", "dc", "failed"})
  BY DEF Fab!Settled, Fab!Peer, One, Two
<1>3. Reaching
  BY <1>2 DEF FabIInv, Untroubled
<1>4. /\ One.state \in {"disconnected", "connecting", "connected", "relay"}
      /\ Two.state \in {"disconnected", "connecting", "connected", "relay"}
      /\ One.up \in {"no", "pc", "dc", "failed", "gone"}
      /\ Two.up \in {"no", "pc", "dc", "failed", "gone"}
      /\ One.n \in 0..MaxOffers /\ Two.n \in 0..MaxOffers
  BY <1>1 DEF Fab!PeerState
<1>5. /\ Fab!Deserted(1) <=> Two.n # One.n \/ Two.signal = "crossed"
                             \/ Two.up = "gone"
      /\ Fab!Deserted(2) <=> One.n # Two.n \/ One.signal = "crossed"
                             \/ One.up = "gone"
  BY DEF Fab!Deserted, Fab!Other, One, Two
<1>6. /\ Fab!Linked(1) <=> One.n # 0 /\ link[One.n] = "up" /\ ~Fab!Deserted(1)
      /\ Fab!Linked(2) <=> Two.n # 0 /\ link[Two.n] = "up" /\ ~Fab!Deserted(2)
      /\ Fab!Broken(1) <=>
           /\ One.n # 0 /\ One.signal # "offered"
           /\ \/ link[One.n] \in {"failed", "dropped"} \/ Fab!Deserted(1)
              \/ One.signal = "crossed"
      /\ Fab!Broken(2) <=>
           /\ Two.n # 0 /\ Two.signal # "offered"
           /\ \/ link[Two.n] \in {"failed", "dropped"} \/ Fab!Deserted(2)
              \/ Two.signal = "crossed"
  BY DEF Fab!Linked, Fab!Broken, One, Two
<1>7. Two.signal # "crossed"
  BY <1>3 DEF Reaching, LastOffer
<1>8. /\ One.up \in Live => /\ One.n # 0 /\ One.signal = "stable"
                            /\ link[One.n] \in {"up", "failed"}
      /\ Two.up \in Live => /\ Two.n # 0 /\ Two.signal = "stable"
                            /\ link[Two.n] \in {"up", "failed"}
      /\ One.state = "connected" => One.up \in {"pc", "dc"}
      /\ Two.state = "connected" => Two.up \in {"pc", "dc"}
      /\ One.up = "dc" => One.state = "connected"
      /\ Two.up = "dc" => Two.state = "connected"
      /\ Two.state = "connecting" => Two.polling
  BY <1>2, <1>3 DEF Reaching, LiveIsUp
<1>9. One.state = "connected" => Two.state = "connected"
  <2> SUFFICES ASSUME One.state = "connected" PROVE Two.state = "connected"
    OBVIOUS
  <2>1. /\ One.up \in {"pc", "dc"} /\ One.n # 0 /\ One.signal = "stable"
        /\ link[One.n] = "up" /\ ~Fab!Deserted(1)
    BY <1>2, <1>6, <1>8 DEF Live
  <2>2. Two.n = One.n /\ Two.up # "gone" /\ Fab!Linked(2)
    BY <2>1, <1>5, <1>6
  <2>3. Two.up \in {"dc", "failed"} /\ Two.up # "failed"
    BY <2>2, <1>2, <1>3, <1>4 DEF Reaching, GoneIsFailed
  <2> QED BY <2>3, <1>8
<1>10. Two.state = "connected" => One.state = "connected"
  <2> SUFFICES ASSUME Two.state = "connected" PROVE One.state = "connected"
    OBVIOUS
  <2>1. /\ Two.up \in {"pc", "dc"} /\ Two.n # 0 /\ Two.signal = "stable"
        /\ link[Two.n] = "up" /\ ~Fab!Deserted(2)
    BY <1>2, <1>6, <1>8 DEF Live
  <2>2. Two.n = One.n /\ One.up # "gone" /\ Fab!Linked(1)
    BY <2>1, <1>5, <1>6, <1>7
  <2>3. One.up \in {"dc", "failed"} /\ One.up # "failed"
    BY <2>2, <1>2, <1>3, <1>4 DEF Reaching, GoneIsFailed
  <2> QED BY <2>3, <1>8
<1>11. One.state \in {"connected", "relay"}
  BY <1>2, <1>3, <1>4 DEF Reaching, OneTries
<1>12. Two.state # "disconnected"
  <2>1. offers # 0
    BY <1>2, <1>3 DEF Reaching, LastOffer
  <2> QED BY <2>1, <1>2, <1>3 DEF Reaching, TwoTries
<1>13. One.state = "relay" => Two.state \in {"relay", "connected"}
  <2> SUFFICES ASSUME One.state = "relay", Two.state = "connecting" PROVE FALSE
    BY <1>4, <1>12
  <2>1. mail[2]
    BY <1>2, <1>3 DEF Reaching, RelayIsTold
  <2>2. Fab!Polls(2)
    BY <1>8 DEF Fab!Polls, Two
  <2> QED BY <2>1, <2>2, <1>2
<1> QED BY <1>9, <1>10, <1>11, <1>13

(* What a record of a peer becomes.                                        *)
LEMMA Resets ==
  ASSUME NEW s \in Fab!PeerState, NEW r, r = Fab!Reset(s)
  PROVE  /\ r \in Fab!PeerState
         /\ r.n = 0 /\ r.signal = "none" /\ r.up = "no"
         /\ ~r.relayTimer /\ ~r.reinit
         /\ r.in = s.in /\ r.known = s.known /\ r.state = s.state
         /\ r.left = s.left /\ r.polling = s.polling /\ r.posting = s.posting
<1>1. PICK b \in BOOLEAN : b = (s.stale \/ s.up \in {"dc", "failed"})
  BY DEF Fab!PeerState
<1>2. r = [s EXCEPT !.n = 0, !.signal = "none", !.up = "no",
                    !.relayTimer = FALSE, !.reinit = FALSE, !.stale = b]
  BY <1>1 DEF Fab!Reset, Fab!PeerState
<1>3. 0 \in 0..MaxOffers
  BY OffersAreNumbered
<1> QED BY <1>2, <1>3 DEF Fab!PeerState

LEMMA Negotiates ==
  ASSUME NEW s \in Fab!PeerState, NEW n \in 0..MaxOffers,
         NEW signal \in {"offered", "stable"}, NEW r,
         r = Fab!Negotiating(s, n, signal)
  PROVE  /\ r \in Fab!PeerState
         /\ r.n = n /\ r.signal = signal /\ r.up = "no"
         /\ r.relayTimer /\ ~r.reinit /\ r.polling /\ r.posting
         /\ r.in = s.in /\ r.known = s.known /\ r.state = s.state
         /\ r.left = s.left
<1>1. PICK q : q = Fab!Reset(s)
  OBVIOUS
<1>2. /\ q \in Fab!PeerState /\ q.n = 0 /\ q.up = "no" /\ ~q.reinit
      /\ q.in = s.in /\ q.known = s.known /\ q.state = s.state
      /\ q.left = s.left
  BY <1>1, Resets
<1>3. r = [q EXCEPT !.n = n, !.signal = signal, !.relayTimer = TRUE,
                    !.polling = TRUE, !.posting = TRUE]
  BY <1>1 DEF Fab!Negotiating
<1>4. n \in 0..MaxOffers /\ signal \in {"none", "offered", "stable", "crossed"}
  OBVIOUS
<1>5. /\ r \in Fab!PeerState /\ r.n = n /\ r.signal = signal /\ r.up = q.up
      /\ r.relayTimer = TRUE /\ r.polling = TRUE /\ r.posting = TRUE
      /\ r.reinit = q.reinit
  BY <1>2, <1>3, <1>4 DEF Fab!PeerState
<1>6. /\ r.in = q.in /\ r.known = q.known /\ r.state = q.state
      /\ r.left = q.left
  BY <1>2, <1>3, <1>4 DEF Fab!PeerState
<1> QED BY <1>2, <1>5, <1>6

(* Of a step that sets the record of one peer.                             *)
LEMMA Sets ==
  ASSUME FabTypes, NEW p \in Fab!Peer, NEW s, Fab!Set(p, s)
  PROVE  /\ peer'[p] = s /\ peer'[Fab!Other(p)] = peer[Fab!Other(p)]
         /\ Fab!Other(p) \in Fab!Peer /\ Fab!Other(p) # p
         /\ s \in Fab!PeerState =>
              peer' \in [Fab!Peer -> Fab!PeerState]
BY DEF FabTypes, Fab!Set, Fab!Peer, Fab!Other

LEMMA Initiates ==
  ASSUME FabTypes, NEW p \in Fab!Peer, NEW s \in Fab!PeerState,
         NEW again \in BOOLEAN, Fab!InitiatePeer(p, s, again)
  PROVE  /\ hurried' = (hurried \/ s.posting)
         /\ peer' \in [Fab!Peer -> Fab!PeerState]
         /\ inbox' \in [Fab!Peer -> Seq(Message)] /\ offers' \in 0..MaxOffers
         /\ lost' \in BOOLEAN /\ (lost => lost')
         /\ peer'[Fab!Other(p)] = peer[Fab!Other(p)]
         /\ peer'[p].reinit = again
         /\ peer'[p].in = s.in /\ peer'[p].known = s.known
         /\ peer'[p].state = s.state /\ peer'[p].left = s.left
         /\ \/ /\ s.state = "connected"
               /\ UNCHANGED <<inbox, offers>>
               /\ peer'[p].n = s.n /\ peer'[p].signal = s.signal
               /\ peer'[p].up = s.up /\ peer'[p].polling = s.polling
               /\ peer'[p].posting = s.posting /\ peer'[p].stale = s.stale
               /\ peer'[p].relayTimer = s.relayTimer
            \/ /\ s.state # "connected" /\ p = 2
               /\ UNCHANGED <<inbox, offers>>
               /\ peer'[p].n = 0 /\ peer'[p].signal = "none"
               /\ peer'[p].up = "no" /\ peer'[p].polling = s.polling
               /\ peer'[p].posting = s.posting
            \/ /\ s.state # "connected" /\ p = 1
               /\ offers' = offers + 1
               /\ lost' \/ inbox' = [inbox EXCEPT ![2] =
                    Append(inbox[2], [type |-> "offer", n |-> offers + 1])]
               /\ peer'[p].n = offers + 1 /\ peer'[p].signal = "offered"
               /\ peer'[p].up = "no" /\ peer'[p].polling
               /\ peer'[p].posting /\ peer'[p].relayTimer
<1>1. hurried' = (hurried \/ s.posting)
  BY DEF Fab!InitiatePeer
<1>2. CASE /\ s.state = "connected"
           /\ Fab!Set(p, [s EXCEPT !.reinit = again])
           /\ UNCHANGED <<inbox, offers, lost>>
  <2>1. PICK r : r = [s EXCEPT !.reinit = again]
    OBVIOUS
  <2>2. /\ r \in Fab!PeerState /\ r.reinit = again
        /\ r.in = s.in /\ r.known = s.known /\ r.state = s.state
        /\ r.left = s.left /\ r.n = s.n /\ r.signal = s.signal
        /\ r.up = s.up /\ r.polling = s.polling /\ r.posting = s.posting
        /\ r.relayTimer = s.relayTimer /\ r.stale = s.stale
    BY <2>1 DEF Fab!PeerState
  <2>3. /\ peer'[p] = r /\ peer'[Fab!Other(p)] = peer[Fab!Other(p)]
        /\ peer' \in [Fab!Peer -> Fab!PeerState]
    BY <1>2, <2>1, <2>2, Sets
  <2> QED BY <1>1, <1>2, <2>2, <2>3 DEF FabTypes
<1>3. CASE /\ s.state # "connected" /\ p # Fab!Offerer
           /\ Fab!Set(p, [Fab!Reset(s) EXCEPT !.reinit = again])
           /\ UNCHANGED <<inbox, offers, lost>>
  <2>1. PICK q : q = Fab!Reset(s)
    OBVIOUS
  <2>2. PICK r : r = [q EXCEPT !.reinit = again]
    OBVIOUS
  <2>3. /\ q \in Fab!PeerState
        /\ q.n = 0 /\ q.signal = "none" /\ q.up = "no"
        /\ q.in = s.in /\ q.known = s.known /\ q.state = s.state
        /\ q.left = s.left /\ q.polling = s.polling /\ q.posting = s.posting
    BY <2>1, Resets
  <2>4. /\ r \in Fab!PeerState /\ r.reinit = again
        /\ r.n = 0 /\ r.signal = "none" /\ r.up = "no"
        /\ r.in = s.in /\ r.known = s.known /\ r.state = s.state
        /\ r.left = s.left /\ r.polling = s.polling /\ r.posting = s.posting
    BY <2>2, <2>3 DEF Fab!PeerState
  <2>5. Fab!Set(p, r)
    BY <1>3, <2>1, <2>2
  <2>6. /\ peer'[p] = r /\ peer'[Fab!Other(p)] = peer[Fab!Other(p)]
        /\ peer' \in [Fab!Peer -> Fab!PeerState]
    BY <2>4, <2>5, Sets
  <2>7. p = 2
    BY <1>3 DEF Fab!Offerer, Fab!Peer
  <2> QED BY <1>1, <1>3, <2>4, <2>6, <2>7 DEF FabTypes
<1>4. CASE /\ s.state # "connected" /\ p = Fab!Offerer
           /\ offers < MaxOffers /\ offers' = offers + 1
           /\ Fab!Set(p, [Fab!Negotiating(s, offers', "offered")
                            EXCEPT !.reinit = again])
           /\ Fab!Signal(inbox, Fab!Other(p),
                         [type |-> "offer", n |-> offers'])
  <2>1. offers' \in 1..MaxOffers /\ p = 1 /\ Fab!Other(p) = 2
    BY <1>4, OffersAreNumbered DEF FabTypes, Fab!Offerer, Fab!Other
  <2>2. PICK q : q = Fab!Negotiating(s, offers', "offered")
    OBVIOUS
  <2>3. PICK r : r = [q EXCEPT !.reinit = again]
    OBVIOUS
  <2>4. /\ q \in Fab!PeerState /\ q.n = offers' /\ q.signal = "offered"
        /\ q.up = "no" /\ q.polling /\ q.posting /\ q.relayTimer
        /\ q.in = s.in /\ q.known = s.known /\ q.state = s.state
        /\ q.left = s.left
    <3>1. PICK k : k = offers'
      OBVIOUS
    <3>2. k \in 0..MaxOffers /\ q = Fab!Negotiating(s, k, "offered")
      BY <2>1, <2>2, <3>1
    <3>3. /\ q \in Fab!PeerState /\ q.n = k /\ q.signal = "offered"
          /\ q.up = "no" /\ q.polling /\ q.posting /\ q.relayTimer
          /\ q.in = s.in /\ q.known = s.known /\ q.state = s.state
          /\ q.left = s.left
      BY <3>2, Negotiates
    <3> QED BY <3>1, <3>3
  <2>5. /\ r \in Fab!PeerState /\ r.reinit = again
        /\ r.n = offers' /\ r.signal = "offered" /\ r.up = "no"
        /\ r.polling /\ r.posting /\ r.relayTimer
        /\ r.in = s.in /\ r.known = s.known /\ r.state = s.state
        /\ r.left = s.left
    BY <2>3, <2>4 DEF Fab!PeerState
  <2>6. Fab!Set(p, r)
    BY <1>4, <2>2, <2>3
  <2>7. /\ peer'[p] = r /\ peer'[Fab!Other(p)] = peer[Fab!Other(p)]
        /\ peer' \in [Fab!Peer -> Fab!PeerState]
    BY <2>5, <2>6, Sets
  <2>8. /\ inbox' \in [Fab!Peer -> Seq(Message)]
        /\ lost' \in BOOLEAN /\ (lost => lost')
        /\ lost' \/ inbox' = [inbox EXCEPT ![2] =
                      Append(inbox[2], [type |-> "offer", n |-> offers + 1])]
    <3>1. PICK m : m = [type |-> "offer", n |-> offers + 1]
      OBVIOUS
    <3>2. m \in Message
      BY <1>4, <2>1, <3>1 DEF Message
    <3>3. Fab!Signal(inbox, 2, m)
      BY <1>4, <2>1, <3>1
    <3>4. /\ inbox \in [{1, 2} -> Seq(Message)] /\ lost \in BOOLEAN
          /\ inbox[2] \in Seq(Message)
      BY DEF FabTypes, Fab!Peer
    <3>5. Append(inbox[2], m) \in Seq(Message)
      BY <3>2, <3>4
    <3>6. \/ /\ inbox' = [inbox EXCEPT ![2] = Append(inbox[2], m)]
             /\ UNCHANGED lost
          \/ inbox' = inbox /\ lost'
      BY <3>3 DEF Fab!Signal
    <3> QED BY <3>1, <3>4, <3>5, <3>6 DEF Fab!Peer
  <2> QED BY <1>1, <1>4, <2>1, <2>5, <2>7, <2>8
<1> QED
  BY <1>2, <1>3, <1>4 DEF Fab!InitiatePeer

(* Nobody joins again, and trouble does not go away.                       *)
LEMMA StaysUntroubled ==
  ASSUME FabTypes, NEW p \in Fab!Peer, Untroubled',
         peer'[p].in => peer[p].in,
         peer'[Fab!Other(p)].in => peer[Fab!Other(p)].in,
         ~lost' => ~lost, ~hurried' => ~hurried, ~dropped' => ~dropped
  PROVE  Untroubled
BY DEF Untroubled, One, Two, Fab!Peer, Fab!Other

LEMMA PostedKeeps ==
  ASSUME FabIInv, NEW p \in Fab!Peer, Fab!Posted(p) PROVE FabIInv'
<1>1. /\ peer[p].posting
      /\ Fab!Set(p, [peer[p] EXCEPT !.posting = FALSE, !.state = "connecting"])
      /\ hurried' = (hurried \/ peer[p].n = 0
                             \/ peer[p].state \in {"connected", "relay"})
      /\ UNCHANGED <<inbox, link, mail, offers, lost, dropped>>
  BY DEF Fab!Posted, Fab!Transport
<1>2. FabTypes /\ peer[p] \in Fab!PeerState
  BY DEF FabIInv, FabTypes
<1>3. PICK r : r = [peer[p] EXCEPT !.posting = FALSE, !.state = "connecting"]
  OBVIOUS
<1>4. /\ r \in Fab!PeerState /\ r.posting = FALSE /\ r.state = "connecting"
      /\ r.in = peer[p].in /\ r.known = peer[p].known /\ r.n = peer[p].n
      /\ r.signal = peer[p].signal /\ r.up = peer[p].up
      /\ r.relayTimer = peer[p].relayTimer /\ r.reinit = peer[p].reinit
      /\ r.left = peer[p].left /\ r.polling = peer[p].polling
      /\ r.stale = peer[p].stale
  BY <1>2, <1>3 DEF Fab!PeerState
<1>5. /\ peer'[p] = r /\ peer'[Fab!Other(p)] = peer[Fab!Other(p)]
      /\ peer' \in [Fab!Peer -> Fab!PeerState]
  <2>1. Fab!Set(p, r)
    BY <1>1, <1>3
  <2> QED BY <1>2, <1>4, <2>1, Sets
<1>6. FabTypes'
  BY <1>1, <1>2, <1>5 DEF FabTypes
<1>7. ASSUME Untroubled' PROVE Reaching'
  <2>1. Untroubled /\ ~hurried' /\ Reaching
    <3>1. Untroubled
      BY <1>1, <1>2, <1>4, <1>5, <1>7, StaysUntroubled DEF Untroubled
    <3> QED BY <3>1, <1>7 DEF FabIInv, Untroubled
  <2>2. CASE p = 1
    <3>1. /\ One' = r /\ Two' = Two /\ One = peer[p]
      BY <1>5, <2>2 DEF One, Two, Fab!Other
    <3>2. One.state \in {"disconnected", "connecting"}
      BY <1>1, <1>2, <2>1, <3>1 DEF Fab!PeerState
    <3>3. InboxesInOrder' /\ LastOffer' /\ StableIsHeard' /\ GoneIsFailed'
      BY <1>1, <1>4, <2>1, <3>1
         DEF Reaching, InboxesInOrder, LastOffer, StableIsHeard, GoneIsFailed
    <3>4. LiveIsUp' /\ Outrun'
      BY <1>1, <1>4, <2>1, <3>1, <3>2 DEF Reaching, LiveIsUp, Outrun, Live
    <3>5. OneTries' /\ TwoTries' /\ RelayIsTold'
      BY <1>1, <1>4, <2>1, <3>1, <3>2
         DEF Reaching, OneTries, TwoTries, RelayIsTold
    <3> QED BY <3>3, <3>4, <3>5 DEF Reaching
  <2>3. CASE p = 2
    <3>1. /\ One' = One /\ Two' = r /\ Two = peer[p]
      BY <1>5, <2>3 DEF One, Two, Fab!Other
    <3>2. Two.state \in {"disconnected", "connecting"}
      BY <1>1, <1>2, <2>1, <3>1 DEF Fab!PeerState
    <3>3. InboxesInOrder' /\ LastOffer' /\ StableIsHeard' /\ GoneIsFailed'
      BY <1>1, <1>4, <2>1, <3>1
         DEF Reaching, InboxesInOrder, LastOffer, StableIsHeard, GoneIsFailed
    <3>4. LiveIsUp' /\ Outrun'
      BY <1>1, <1>4, <2>1, <3>1, <3>2 DEF Reaching, LiveIsUp, Outrun, Live
    <3>5. OneTries' /\ TwoTries' /\ RelayIsTold'
      BY <1>1, <1>4, <2>1, <3>1, <3>2
         DEF Reaching, OneTries, TwoTries, RelayIsTold
    <3> QED BY <3>3, <3>4, <3>5 DEF Reaching
  <2> QED BY <2>2, <2>3 DEF Fab!Peer
<1> QED BY <1>6, <1>7 DEF FabIInv

LEMMA FabStarts == ASSUME Fab!Init PROVE FabIInv
<1>1. /\ peer = [p \in Fab!Peer |-> Fab!NewPeer]
      /\ inbox = [p \in Fab!Peer |-> <<>>] /\ mail = [p \in Fab!Peer |-> FALSE]
      /\ link = [n \in 1..MaxOffers |-> "forming"]
      /\ offers = 0 /\ lost = FALSE /\ hurried = FALSE /\ dropped = FALSE
  BY DEF Fab!Init
<1>2. 0 \in 0..MaxOffers
  BY OffersAreNumbered
<1>3. Fab!NewPeer \in Fab!PeerState
  BY <1>2 DEF Fab!NewPeer, Fab!PeerState
<1>4. FabTypes
  <2>1. <<>> \in Seq(Message)
    OBVIOUS
  <2> QED BY <1>1, <1>2, <1>3, <2>1 DEF FabTypes
<1>5. /\ One = Fab!NewPeer /\ Two = Fab!NewPeer
      /\ inbox[1] = <<>> /\ inbox[2] = <<>>
  BY <1>1 DEF One, Two, Fab!Peer
<1>6. InboxesInOrder /\ LastOffer /\ StableIsHeard /\ GoneIsFailed
  BY <1>1, <1>5, OffersAreNumbered
     DEF InboxesInOrder, LastOffer, StableIsHeard, GoneIsFailed,
         Fab!NewPeer, Live
<1>7. LiveIsUp /\ Outrun /\ OneTries /\ TwoTries /\ RelayIsTold
  BY <1>1, <1>5
     DEF LiveIsUp, Outrun, OneTries, TwoTries, RelayIsTold, Fab!NewPeer, Live
<1> QED BY <1>4, <1>6, <1>7 DEF FabIInv, Reaching

LEMMA LeaveKeeps ==
  ASSUME FabIInv, NEW p \in Fab!Peer, Fab!Leave(p) PROVE FabIInv'
<1>1. /\ Fab!Set(p, [Fab!NewPeer EXCEPT !.in = FALSE])
      /\ UNCHANGED <<inbox, link, mail, offers, lost, hurried, dropped>>
  BY DEF Fab!Leave, Fab!Transport
<1>2. PICK r : r = [Fab!NewPeer EXCEPT !.in = FALSE]
  OBVIOUS
<1>3. r \in Fab!PeerState /\ ~r.in
  <2>1. 0 \in 0..MaxOffers
    BY OffersAreNumbered
  <2>2. Fab!NewPeer \in Fab!PeerState
    BY <2>1 DEF Fab!NewPeer, Fab!PeerState
  <2> QED BY <1>2, <2>2 DEF Fab!PeerState
<1>4. peer'[p] = r /\ peer' \in [Fab!Peer -> Fab!PeerState]
  <2>1. Fab!Set(p, r)
    BY <1>1, <1>2
  <2> QED BY <1>3, <2>1, Sets DEF FabIInv
<1>5. FabTypes'
  BY <1>1, <1>4 DEF FabIInv, FabTypes
<1>6. ~Untroubled'
  BY <1>3, <1>4 DEF Untroubled, One, Two, Fab!Peer
<1> QED BY <1>5, <1>6 DEF FabIInv

LEMMA LeftKeeps ==
  ASSUME FabIInv, NEW p \in Fab!Peer, Fab!Left(p) PROVE FabIInv'
<1>1. /\ ~peer[Fab!Other(p)].in
      /\ Fab!Set(p, [peer[p] EXCEPT !.known = FALSE, !.left = TRUE,
                       !.reinit = FALSE, !.up = "gone",
                       !.state = "disconnected"])
      /\ UNCHANGED <<inbox, link, mail, offers, lost, hurried, dropped>>
  BY DEF Fab!Left, Fab!Transport
<1>2. PICK r : r = [peer[p] EXCEPT !.known = FALSE, !.left = TRUE,
                      !.reinit = FALSE, !.up = "gone",
                      !.state = "disconnected"]
  OBVIOUS
<1>3. r \in Fab!PeerState
  <2>1. peer[p] \in Fab!PeerState
    BY DEF FabIInv, FabTypes
  <2> QED BY <1>2, <2>1 DEF Fab!PeerState
<1>4. /\ peer'[Fab!Other(p)] = peer[Fab!Other(p)]
      /\ peer' \in [Fab!Peer -> Fab!PeerState]
  <2>1. Fab!Set(p, r)
    BY <1>1, <1>2
  <2> QED BY <1>3, <2>1, Sets DEF FabIInv
<1>5. FabTypes'
  BY <1>1, <1>4 DEF FabIInv, FabTypes
<1>6. ~Untroubled'
  BY <1>1, <1>4 DEF Untroubled, One, Two, Fab!Peer, Fab!Other
<1> QED BY <1>5, <1>6 DEF FabIInv

(* What the network makes of a negotiation.                                *)
LEMMA LinkUpKeeps ==
  ASSUME FabIInv, NEW n \in 1..MaxOffers, Fab!LinkUp(n) PROVE FabIInv'
<1>1. /\ link[n] = "forming" /\ link' = [link EXCEPT ![n] = "up"]
      /\ One.n = n /\ One.signal = "stable"
      /\ Two.n = n /\ Two.signal = "stable"
      /\ UNCHANGED <<peer, inbox, mail, offers, lost, hurried, dropped>>
  BY DEF Fab!LinkUp, Fab!Peer, One, Two
<1>2. One' = One /\ Two' = Two
  BY <1>1 DEF One, Two
<1>3. /\ link'[n] = "up" /\ \A k \in 1..MaxOffers \ {n} : link'[k] = link[k]
      /\ FabTypes'
  BY <1>1 DEF FabIInv, FabTypes
<1>4. ASSUME Untroubled' PROVE Reaching'
  <2>1. Untroubled /\ Reaching
    BY <1>1, <1>2, <1>4 DEF FabIInv, Untroubled
  <2>2. n = offers /\ n # 0 /\ offers \in 1..MaxOffers
    BY <1>1, <2>1 DEF Reaching, LastOffer
  <2>3. InboxesInOrder' /\ Outrun' /\ OneTries' /\ TwoTries' /\ RelayIsTold'
    BY <1>1, <1>2, <2>1
       DEF Reaching, InboxesInOrder, Outrun, OneTries, TwoTries, RelayIsTold
  <2>4. LastOffer'
    BY <1>1, <1>2, <1>3, <2>1, <2>2 DEF Reaching, LastOffer
  <2>5. StableIsHeard' /\ GoneIsFailed'
    BY <1>1, <1>2, <1>3, <2>1, <2>2 DEF Reaching, StableIsHeard, GoneIsFailed
  <2>6. LiveIsUp'
    <3>1. One.up \notin Live /\ Two.up \notin Live
      BY <1>1, <2>1 DEF Reaching, LiveIsUp
    <3> QED BY <1>2, <2>1, <3>1 DEF Reaching, LiveIsUp
  <2> QED BY <2>3, <2>4, <2>5, <2>6 DEF Reaching
<1> QED BY <1>3, <1>4 DEF FabIInv

LEMMA LinkBreaksKeeps ==
  ASSUME FabIInv, NEW n \in 1..MaxOffers, Fab!LinkBreaks(n) PROVE FabIInv'
<1>1. /\ link[n] \in {"forming", "up"} /\ n <= offers
      /\ \/ link' = [link EXCEPT ![n] = "failed"] /\ dropped' = dropped
         \/ link' = [link EXCEPT ![n] = "dropped"] /\ dropped' = TRUE
      /\ UNCHANGED <<peer, inbox, mail, offers, lost, hurried>>
  BY DEF Fab!LinkBreaks
<1>2. One' = One /\ Two' = Two
  BY <1>1 DEF One, Two
<1>3. FabTypes'
  BY <1>1 DEF FabIInv, FabTypes
<1>4. ASSUME Untroubled' PROVE Reaching'
  <2>1. Untroubled /\ Reaching /\ dropped' # TRUE
    <3>1. /\ ~lost' /\ ~hurried' /\ ~dropped' /\ One'.in /\ Two'.in
      BY <1>4 DEF Untroubled
    <3>2. ~lost /\ ~hurried /\ One.in /\ Two.in /\ dropped' = dropped
      BY <1>1, <1>2, <3>1
    <3>3. Untroubled
      BY <3>1, <3>2 DEF Untroubled
    <3> QED BY <3>1, <3>3 DEF FabIInv
  <2>2. /\ link'[n] = "failed"
        /\ \A k \in 1..MaxOffers \ {n} : link'[k] = link[k]
        /\ offers \in 0..MaxOffers
        /\ One.n \in 0..MaxOffers /\ Two.n \in 0..MaxOffers
    BY <1>1, <2>1 DEF FabIInv, FabTypes, One, Two, Fab!Peer, Fab!PeerState
  <2>3. InboxesInOrder' /\ Outrun' /\ OneTries' /\ TwoTries' /\ RelayIsTold'
    BY <1>1, <1>2, <2>1
       DEF Reaching, InboxesInOrder, Outrun, OneTries, TwoTries, RelayIsTold
  <2>4. LastOffer'
    BY <1>1, <1>2, <2>1, <2>2 DEF Reaching, LastOffer
  <2>5. StableIsHeard' /\ GoneIsFailed'
    BY <1>1, <1>2, <2>1, <2>2 DEF Reaching, StableIsHeard, GoneIsFailed
  <2>6. LiveIsUp'
    BY <1>2, <2>1, <2>2 DEF Reaching, LiveIsUp
  <2> QED BY <2>3, <2>4, <2>5, <2>6 DEF Reaching
<1> QED BY <1>3, <1>4 DEF FabIInv

(* An offer is made, newer than all others.                                *)
LEMMA NewOffer ==
  ASSUME FabTypes, FabTypes', Reaching, UNCHANGED <<link, mail>>,
         Two' = Two, NEW again \in BOOLEAN,
         Two.up \in Live => again,
         offers' = offers + 1,
         inbox' = [inbox EXCEPT ![2] =
           Append(inbox[2], [type |-> "offer", n |-> offers + 1])],
         One'.n = offers + 1, One'.signal = "offered", One'.up = "no",
         One'.polling, One'.posting, One'.relayTimer, One'.reinit = again,
         One'.state # "connected", One'.known, ~One'.left
  PROVE  Reaching'
<1>1. /\ InboxesInOrder /\ LastOffer /\ LiveIsUp /\ StableIsHeard
      /\ GoneIsFailed /\ Outrun /\ OneTries /\ TwoTries /\ RelayIsTold
  BY DEF Reaching
<1>2. PICK m : m = [type |-> "offer", n |-> offers + 1]
  OBVIOUS
<1>3. /\ offers \in Nat /\ offers + 1 \in 1..MaxOffers
      /\ Two.n \in Nat /\ m.type = "offer" /\ m.n = offers + 1
  BY <1>2, OffersAreNumbered DEF FabTypes, Two, Fab!Peer, Fab!PeerState
<1>4. /\ inbox[2] \in Seq(Message) /\ inbox[1] \in Seq(Message)
      /\ inbox'[1] = inbox[1] /\ inbox'[2] = Append(inbox[2], m)
  BY <1>2 DEF FabTypes, Fab!Peer
<1>5. /\ Len(inbox'[2]) = Len(inbox[2]) + 1 /\ Len(inbox[2]) \in Nat
      /\ \A i \in 1..Len(inbox[2]) : inbox'[2][i] = inbox[2][i]
      /\ inbox'[2][Len(inbox[2]) + 1] = m
      /\ inbox'[2] # <<>>
  <2>1. m \in Message
    BY <1>2, <1>3 DEF Message
  <2>2. /\ inbox'[2] \in Seq(Message)
        /\ Len(inbox'[2]) = Len(inbox[2]) + 1 /\ Len(inbox[2]) \in Nat
        /\ \A i \in 1..Len(inbox[2]) : inbox'[2][i] = inbox[2][i]
        /\ inbox'[2][Len(inbox[2]) + 1] = m
    BY <1>4, <2>1, AppendProperties
  <2>3. Append(inbox[2], m) # <<>>
    BY <1>4, <2>1, AppendProperties
  <2> QED BY <1>4, <2>2, <2>3
<1>6. \A i \in 1..Len(inbox[1]) :
        inbox[1][i].n \in Nat /\ inbox[1][i].type = "answer"
  <2>1. \A i \in 1..Len(inbox[1]) : inbox[1][i] \in Message
    BY <1>4
  <2> QED BY <1>1, <2>1, OffersAreNumbered DEF Message, InboxesInOrder
<1>7. \A i \in 1..Len(inbox[2]) : inbox[2][i].n \in Nat
  <2>1. \A i \in 1..Len(inbox[2]) : inbox[2][i] \in Message
    BY <1>4
  <2> QED BY <2>1, OffersAreNumbered DEF Message
<1>8. InboxesInOrder'
  <2>1. ASSUME NEW i \in 1..Len(inbox'[2])
        PROVE  /\ inbox'[2][i].type = "offer" /\ Two.n < inbox'[2][i].n
               /\ inbox'[2][i].n <= offers'
               /\ \A j \in 1..Len(inbox[1]) : inbox[1][j].n < inbox'[2][i].n
    <3>1. CASE i \in 1..Len(inbox[2])
      BY <1>1, <1>3, <1>5, <1>6, <1>7, <3>1 DEF InboxesInOrder
    <3>2. CASE i = Len(inbox[2]) + 1
      <4>1. Two.n <= offers
        BY <1>1 DEF LastOffer
      <4>2. \A j \in 1..Len(inbox[1]) : inbox[1][j].n <= offers
        BY <1>1 DEF InboxesInOrder
      <4>3. inbox'[2][i] = m
        BY <1>5, <3>2
      <4>4. Two.n < offers + 1 /\ offers + 1 <= offers'
        BY <1>3, <4>1
      <4>5. \A j \in 1..Len(inbox[1]) : inbox[1][j].n < offers + 1
        BY <1>3, <1>6, <4>2
      <4>6. inbox'[2][i].type = "offer" /\ inbox'[2][i].n = offers + 1
        BY <1>3, <4>3
      <4> QED BY <4>4, <4>5, <4>6
    <3>3. i \in 1..Len(inbox[2]) \/ i = Len(inbox[2]) + 1
      BY <1>5
    <3> QED BY <3>1, <3>2, <3>3
  <2>2. ASSUME NEW i \in 1..Len(inbox'[2]), NEW j \in 1..Len(inbox'[2]), i < j
        PROVE  inbox'[2][i].n < inbox'[2][j].n
    <3>1. i \in 1..Len(inbox[2])
      BY <1>5, <2>2
    <3>2. CASE j \in 1..Len(inbox[2])
      BY <1>1, <1>5, <2>2, <3>1, <3>2 DEF InboxesInOrder
    <3>3. CASE j = Len(inbox[2]) + 1
      <4>1. inbox[2][i].n <= offers
        BY <1>1, <3>1 DEF InboxesInOrder
      <4> QED BY <1>3, <1>5, <1>7, <3>1, <3>3, <4>1
    <3> QED BY <1>5, <3>2, <3>3
  <2>3. ASSUME NEW i \in 1..Len(inbox[1])
        PROVE  inbox[1][i].type = "answer" /\ inbox[1][i].n <= offers'
    <3>1. inbox[1][i].n <= offers
      BY <1>1 DEF InboxesInOrder
    <3> QED BY <1>3, <1>6, <3>1
  <2>4. \A i, j \in 1..Len(inbox[1]) : i < j => inbox[1][i].n < inbox[1][j].n
    BY <1>1 DEF InboxesInOrder
  <2> QED BY <1>4, <2>1, <2>2, <2>3, <2>4 DEF InboxesInOrder
<1>9. LastOffer' /\ TwoTries' /\ RelayIsTold' /\ OneTries'
  BY <1>1, <1>3, <1>5
     DEF LastOffer, TwoTries, RelayIsTold, OneTries
<1>10. StableIsHeard' /\ GoneIsFailed' /\ Outrun'
  <2>1. link[offers + 1] = "forming"
    BY <1>1, <1>3 DEF LastOffer
  <2>2. Two.n # offers + 1
    BY <1>1, <1>3 DEF LastOffer
  <2> QED BY <1>1, <1>4, <1>5, <2>1, <2>2
             DEF StableIsHeard, GoneIsFailed, Outrun, Live
<1>11. LiveIsUp'
  BY <1>1 DEF LiveIsUp, Live
<1> QED BY <1>8, <1>9, <1>10, <1>11 DEF Reaching

(* _initiatePeer, for a peer that is not waiting for a frame to be         *)
(* accepted.  Who leaves an old connection behind makes the offer again.   *)
LEMMA InitiateKeeps ==
  ASSUME FabIInv, NEW p \in Fab!Peer, NEW s \in Fab!PeerState,
         NEW again \in BOOLEAN, Fab!InitiatePeer(p, s, again),
         UNCHANGED <<link, mail, dropped>>,
         s.in = peer[p].in, s.state = peer[p].state, s.n = peer[p].n,
         s.signal = peer[p].signal, s.up = peer[p].up,
         s.relayTimer = peer[p].relayTimer, s.left = peer[p].left,
         s.polling = peer[p].polling, s.posting = peer[p].posting,
         s.stale = peer[p].stale,
         Untroubled /\ Reaching /\ p = 1 => s.known,
         Untroubled /\ Reaching /\ p = 1 /\ s.state # "connected"
             /\ ~s.posting /\ Two.up \in Live => again
  PROVE  FabIInv'
<1>1. /\ hurried' = (hurried \/ s.posting)
      /\ peer' \in [Fab!Peer -> Fab!PeerState]
      /\ inbox' \in [Fab!Peer -> Seq(Message)] /\ offers' \in 0..MaxOffers
      /\ lost' \in BOOLEAN /\ (lost => lost')
      /\ peer'[Fab!Other(p)] = peer[Fab!Other(p)]
      /\ peer'[p].reinit = again
      /\ peer'[p].in = s.in /\ peer'[p].known = s.known
      /\ peer'[p].state = s.state /\ peer'[p].left = s.left
      /\ \/ /\ s.state = "connected"
            /\ UNCHANGED <<inbox, offers>>
            /\ peer'[p].n = s.n /\ peer'[p].signal = s.signal
            /\ peer'[p].up = s.up /\ peer'[p].polling = s.polling
            /\ peer'[p].posting = s.posting /\ peer'[p].stale = s.stale
            /\ peer'[p].relayTimer = s.relayTimer
         \/ /\ s.state # "connected" /\ p = 2
            /\ UNCHANGED <<inbox, offers>>
            /\ peer'[p].n = 0 /\ peer'[p].signal = "none"
            /\ peer'[p].up = "no" /\ peer'[p].polling = s.polling
            /\ peer'[p].posting = s.posting
         \/ /\ s.state # "connected" /\ p = 1
            /\ offers' = offers + 1
            /\ lost' \/ inbox' = [inbox EXCEPT ![2] =
                 Append(inbox[2], [type |-> "offer", n |-> offers + 1])]
            /\ peer'[p].n = offers + 1 /\ peer'[p].signal = "offered"
            /\ peer'[p].up = "no" /\ peer'[p].polling
            /\ peer'[p].posting /\ peer'[p].relayTimer
  <2>1. FabTypes
    BY DEF FabIInv
  <2> QED BY <2>1, Initiates
<1>2. FabTypes'
  <2>1. s.posting \in BOOLEAN
    BY DEF Fab!PeerState
  <2> QED BY <1>1, <2>1 DEF FabIInv, FabTypes
<1>3. ASSUME Untroubled' PROVE Reaching'
  <2>1. Untroubled /\ Reaching /\ ~s.posting /\ ~lost'
    <3>1. FabTypes /\ ~hurried' /\ ~lost'
      BY <1>3 DEF FabIInv, Untroubled
    <3>2. Untroubled
      BY <1>1, <1>3, <3>1, StaysUntroubled
    <3> QED BY <1>1, <3>1, <3>2 DEF FabIInv
  <2>2. CASE p = 1
    <3>1. /\ Two' = Two /\ One = peer[p] /\ One' = peer'[p]
      BY <1>1, <2>2 DEF One, Two, Fab!Other
    <3>2. s.known /\ ~One.left
      BY <2>1, <2>2 DEF Reaching, LastOffer
    <3>3. CASE s.state = "connected"
      <4>1. One.up \in Live /\ One.signal = "stable" /\ One.n # 0
        BY <2>1, <3>1, <3>3 DEF Reaching, LiveIsUp, Live
      <4>2. One.n = offers
        BY <2>1 DEF Reaching, LastOffer
      <4>3. /\ One'.state = "connected" /\ One'.n = One.n
            /\ One'.signal = One.signal /\ One'.up = One.up
            /\ One'.polling = One.polling /\ One'.posting = One.posting
            /\ One'.known = s.known /\ One'.left = One.left
            /\ UNCHANGED <<inbox, offers, link, mail>>
        BY <1>1, <3>1, <3>3
      <4>4. InboxesInOrder' /\ LastOffer' /\ StableIsHeard' /\ GoneIsFailed'
        BY <2>1, <3>1, <3>2, <3>3, <4>1, <4>2, <4>3
           DEF Reaching, InboxesInOrder, LastOffer, StableIsHeard,
               GoneIsFailed
      <4>a. LiveIsUp'
        <5>1. LiveIsUp /\ One.state = "connected"
          BY <2>1, <3>1, <3>3 DEF Reaching
        <5> QED BY <3>1, <4>3, <5>1 DEF LiveIsUp, Live
      <4>5. LiveIsUp' /\ Outrun'
        BY <2>1, <3>1, <4>1, <4>3, <4>a DEF Reaching, Outrun, Live
      <4>6. OneTries' /\ TwoTries' /\ RelayIsTold'
        BY <2>1, <3>1, <3>3, <4>3
           DEF Reaching, OneTries, TwoTries, RelayIsTold
      <4> QED BY <4>4, <4>5, <4>6 DEF Reaching
    <3>4. CASE s.state # "connected"
      <4>1. Two.up \in Live => again
        BY <2>1, <2>2, <3>4
      <4>2. /\ offers' = offers + 1
            /\ inbox' = [inbox EXCEPT ![2] =
                 Append(inbox[2], [type |-> "offer", n |-> offers + 1])]
            /\ One'.n = offers + 1 /\ One'.signal = "offered"
            /\ One'.up = "no" /\ One'.polling /\ One'.posting
            /\ One'.relayTimer /\ One'.reinit = again
            /\ One'.state # "connected" /\ One'.known /\ ~One'.left
        <5>1. /\ offers' = offers + 1
              /\ lost' \/ inbox' = [inbox EXCEPT ![2] =
                   Append(inbox[2], [type |-> "offer", n |-> offers + 1])]
              /\ One'.n = offers + 1 /\ One'.signal = "offered"
              /\ One'.up = "no" /\ One'.polling
              /\ One'.posting /\ One'.relayTimer
          BY <1>1, <2>2, <3>1, <3>4
        <5>2. /\ One'.reinit = again /\ One'.state = s.state
              /\ One'.known = s.known /\ One'.left = One.left
          BY <1>1, <3>1
        <5> QED BY <2>1, <3>2, <3>4, <5>1, <5>2
      <4>3. FabTypes
        BY DEF FabIInv
      <4> QED BY <1>2, <2>1, <3>1, <4>1, <4>2, <4>3, NewOffer
    <3> QED BY <3>3, <3>4
  <2>3. CASE p = 2
    <3>1. /\ One' = One /\ Two = peer[p] /\ Two' = peer'[p]
      BY <1>1, <2>3 DEF One, Two, Fab!Other
    <3>2. UNCHANGED <<inbox, offers, link, mail>>
      BY <1>1, <2>3
    <3>3. CASE s.state = "connected"
      <4>1. /\ Two'.state = Two.state /\ Two'.n = Two.n
            /\ Two'.signal = Two.signal /\ Two'.up = Two.up
            /\ Two'.polling = Two.polling /\ Two'.posting = Two.posting
            /\ Two'.left = Two.left
        BY <1>1, <3>1, <3>3
      <4>2. InboxesInOrder' /\ LastOffer' /\ StableIsHeard' /\ GoneIsFailed'
        BY <2>1, <3>1, <3>2, <4>1
           DEF Reaching, InboxesInOrder, LastOffer, StableIsHeard,
               GoneIsFailed
      <4>3. LiveIsUp' /\ Outrun'
        BY <2>1, <3>1, <3>2, <4>1 DEF Reaching, LiveIsUp, Outrun
      <4>4. OneTries' /\ TwoTries' /\ RelayIsTold'
        BY <2>1, <3>1, <3>2, <4>1
           DEF Reaching, OneTries, TwoTries, RelayIsTold
      <4> QED BY <4>2, <4>3, <4>4 DEF Reaching
    <3>4. CASE s.state # "connected"
      <4>1. /\ Two'.state = Two.state /\ Two'.n = 0
            /\ Two'.signal = "none" /\ Two'.up = "no"
            /\ Two'.polling = Two.polling /\ Two'.posting = Two.posting
            /\ Two'.left = Two.left /\ Two.state # "connected"
        BY <1>1, <2>3, <3>1, <3>4
      <4>2. \A i \in 1..Len(inbox[2]) : 0 < inbox[2][i].n
        <5>1. inbox[2] \in Seq(Message)
          BY DEF FabIInv, FabTypes, Fab!Peer
        <5>2. \A i \in 1..Len(inbox[2]) : inbox[2][i] \in Message
          BY <5>1
        <5> QED BY <5>2, OffersAreNumbered DEF Message
      <4>3. offers \in Nat
        BY OffersAreNumbered DEF FabIInv, FabTypes
      <4>4. InboxesInOrder' /\ LastOffer'
        BY <2>1, <3>1, <3>2, <4>1, <4>2, <4>3
           DEF Reaching, InboxesInOrder, LastOffer
      <4>5. StableIsHeard' /\ GoneIsFailed'
        BY <2>1, <3>1, <3>2, <4>1
           DEF Reaching, StableIsHeard, GoneIsFailed, LastOffer, LiveIsUp,
               Live
      <4>6. LiveIsUp' /\ Outrun'
        BY <2>1, <3>1, <3>2, <4>1 DEF Reaching, LiveIsUp, Outrun, Live
      <4>7. OneTries' /\ TwoTries' /\ RelayIsTold'
        BY <2>1, <3>1, <3>2, <4>1
           DEF Reaching, OneTries, TwoTries, RelayIsTold, Live
      <4> QED BY <4>4, <4>5, <4>6, <4>7 DEF Reaching
    <3> QED BY <3>3, <3>4
  <2> QED BY <2>2, <2>3 DEF Fab!Peer
<1> QED BY <1>2, <1>3 DEF FabIInv

LEMMA FabJoinKeeps ==
  ASSUME FabIInv, NEW p \in Fab!Peer, Fab!Join(p) PROVE FabIInv'
<1>1. /\ ~peer[p].known
      /\ Fab!InitiatePeer(p, [peer[p] EXCEPT !.known = TRUE], FALSE)
      /\ UNCHANGED <<link, mail, dropped>>
  BY DEF Fab!Join
<1>2. PICK s : s = [peer[p] EXCEPT !.known = TRUE]
  OBVIOUS
<1>3. PICK again \in BOOLEAN : again = FALSE
  OBVIOUS
<1>4. peer[p] \in Fab!PeerState
  BY DEF FabIInv, FabTypes
<1>5. /\ s \in Fab!PeerState /\ s.known
      /\ s.in = peer[p].in /\ s.state = peer[p].state /\ s.n = peer[p].n
      /\ s.signal = peer[p].signal /\ s.up = peer[p].up
      /\ s.relayTimer = peer[p].relayTimer /\ s.left = peer[p].left
      /\ s.polling = peer[p].polling /\ s.posting = peer[p].posting
      /\ s.stale = peer[p].stale
  BY <1>2, <1>4 DEF Fab!PeerState
<1>6. Reaching /\ p = 1 => Two.up \notin Live
  <2>1. Two.n \in Nat
    BY OffersAreNumbered DEF FabIInv, FabTypes, Two, Fab!Peer, Fab!PeerState
  <2> SUFFICES ASSUME Reaching, p = 1 PROVE Two.up \notin Live
    OBVIOUS
  <2>2. offers = 0
    BY <1>1 DEF Reaching, LastOffer, One
  <2>3. Two.n = 0
    BY <2>1, <2>2 DEF Reaching, LastOffer
  <2> QED BY <2>3 DEF Reaching, LiveIsUp
<1>7. Fab!InitiatePeer(p, s, again)
  BY <1>1, <1>2, <1>3
<1> QED BY <1>1, <1>5, <1>6, <1>7, InitiateKeeps

LEMMA SignalingOpenKeeps ==
  ASSUME FabIInv, NEW p \in Fab!Peer, Fab!SignalingOpen(p) PROVE FabIInv'
<1>1. /\ peer[p].known \/ peer[p].left
      /\ peer[p].state = "disconnected"
      /\ Fab!InitiatePeer(p, peer[p], FALSE)
      /\ UNCHANGED <<link, mail, dropped>>
  BY DEF Fab!SignalingOpen
<1>2. PICK again \in BOOLEAN : again = FALSE
  OBVIOUS
<1>3. peer[p] \in Fab!PeerState
  BY DEF FabIInv, FabTypes
<1>4. Reaching /\ p = 1 => peer[p].known
  BY <1>1 DEF Reaching, LastOffer, One
<1>5. Reaching /\ p = 1 /\ ~peer[p].posting => Two.up \notin Live
  BY <1>1, <1>4 DEF Reaching, OneTries, One
<1>6. Fab!InitiatePeer(p, peer[p], again)
  BY <1>1, <1>2
<1> QED BY <1>1, <1>3, <1>4, <1>5, <1>6, InitiateKeeps

LEMMA ReinitiateKeeps ==
  ASSUME FabIInv, NEW p \in Fab!Peer, Fab!Reinitiate(p) PROVE FabIInv'
<1>1. /\ peer[p].reinit
      /\ Fab!InitiatePeer(p, peer[p], peer[p].state # "connected")
      /\ UNCHANGED <<link, mail, dropped>>
  BY DEF Fab!Reinitiate
<1>2. PICK again \in BOOLEAN : again = (peer[p].state # "connected")
  OBVIOUS
<1>3. peer[p] \in Fab!PeerState
  BY DEF FabIInv, FabTypes
<1>4. Reaching /\ p = 1 => peer[p].known
  BY <1>1 DEF Reaching, LastOffer, One
<1>5. peer[p].state # "connected" => again
  BY <1>2
<1>6. Fab!InitiatePeer(p, peer[p], again)
  BY <1>1, <1>2
<1> QED BY <1>1, <1>3, <1>4, <1>5, <1>6, InitiateKeeps

(* The rest of an inbox whose first message is taken.                      *)
LEMMA Takes ==
  ASSUME NEW q \in Seq(Message), q # <<>>
  PROVE  /\ Head(q) \in Message /\ Head(q) = q[1] /\ 1 \in 1..Len(q)
         /\ Tail(q) \in Seq(Message)
         /\ \A i \in 1..Len(Tail(q)) :
              i + 1 \in 1..Len(q) /\ Tail(q)[i] = q[i + 1]
         /\ \A i \in 1..Len(q) : q[i] \in Message /\ q[i].n \in Nat
<1>1. /\ Len(q) \in Nat /\ Len(q) # 0
      /\ \A i \in 1..Len(q) : q[i] \in Message
  BY EmptySeq
<1>2. 1 \in 1..Len(q)
  BY <1>1
<1>3. /\ Head(q) \in Message /\ Tail(q) \in Seq(Message) /\ Head(q) = q[1]
      /\ Len(Tail(q)) = Len(q) - 1
      /\ \A i \in 1..Len(Tail(q)) : Tail(q)[i] = q[i + 1]
  BY HeadTailProperties
<1>4. \A i \in 1..Len(Tail(q)) : i + 1 \in 1..Len(q)
  BY <1>1, <1>3
<1>5. \A i \in 1..Len(q) : q[i].n \in Nat
  BY <1>1, OffersAreNumbered DEF Message
<1> QED BY <1>1, <1>2, <1>3, <1>4, <1>5

LEMMA NoneIn ==
  ASSUME NEW q \in Seq(Message), \A i \in 1..Len(q) : FALSE
  PROVE  q = <<>>
<1>1. Len(q) \in Nat
  BY LenProperties
<1>2. Len(q) = 0
  BY <1>1
<1> QED BY <1>2, EmptySeq

LEMMA FabAnswerKeeps ==
  ASSUME FabIInv, NEW p \in Fab!Peer, Fab!Answer(p) PROVE FabIInv'
<1> PICK m : m = Head(inbox[p])
  OBVIOUS
<1> PICK k : k = IF peer[p].signal # "offered" THEN peer[p].signal
                 ELSE IF peer[p].n = m.n THEN "stable" ELSE "crossed"
  OBVIOUS
<1> PICK r : r = [peer[p] EXCEPT !.signal = k]
  OBVIOUS
<1>1. /\ inbox[p] # <<>> /\ m.type = "answer"
      /\ Fab!Set(p, r)
      /\ inbox' = [inbox EXCEPT ![p] = Tail(inbox[p])]
      /\ UNCHANGED <<link, mail, offers, lost, hurried, dropped>>
  BY DEF Fab!Answer
<1>2. FabTypes /\ peer[p] \in Fab!PeerState /\ inbox[p] \in Seq(Message)
  BY DEF FabIInv, FabTypes
<1>3. /\ m \in Message /\ m = inbox[p][1] /\ 1 \in 1..Len(inbox[p])
      /\ Tail(inbox[p]) \in Seq(Message)
      /\ \A i \in 1..Len(Tail(inbox[p])) :
           /\ i + 1 \in 1..Len(inbox[p])
           /\ Tail(inbox[p])[i] = inbox[p][i + 1]
      /\ \A i \in 1..Len(inbox[p]) :
           inbox[p][i] \in Message /\ inbox[p][i].n \in Nat
  BY <1>1, <1>2, Takes
<1>4. /\ r \in Fab!PeerState /\ r.signal = k
      /\ r.in = peer[p].in /\ r.known = peer[p].known /\ r.n = peer[p].n
      /\ r.state = peer[p].state /\ r.up = peer[p].up
      /\ r.relayTimer = peer[p].relayTimer /\ r.reinit = peer[p].reinit
      /\ r.left = peer[p].left /\ r.polling = peer[p].polling
      /\ r.posting = peer[p].posting /\ r.stale = peer[p].stale
  <2>1. k \in {"none", "offered", "stable", "crossed"}
    BY <1>2 DEF Fab!PeerState
  <2> QED BY <1>2, <2>1 DEF Fab!PeerState
<1>5. /\ peer'[p] = r /\ peer'[Fab!Other(p)] = peer[Fab!Other(p)]
      /\ peer' \in [Fab!Peer -> Fab!PeerState]
  BY <1>1, <1>2, <1>4, Sets
<1>6. FabTypes'
  BY <1>1, <1>2, <1>3, <1>5 DEF FabTypes
<1>7. ASSUME Untroubled' PROVE Reaching'
  <2>1. Untroubled /\ Reaching
    <3>1. Untroubled
      BY <1>1, <1>2, <1>4, <1>5, <1>7, StaysUntroubled
    <3> QED BY <3>1 DEF FabIInv
  <2>2. p = 1
    <3>1. ASSUME p = 2 PROVE FALSE
      <4>1. inbox[2][1].type = "answer" /\ 1 \in 1..Len(inbox[2])
        BY <1>1, <1>3, <3>1
      <4> QED BY <2>1, <4>1 DEF Reaching, InboxesInOrder
    <3> QED BY <3>1 DEF Fab!Peer
  <2>3. /\ One' = r /\ Two' = Two /\ One = peer[p]
        /\ inbox'[1] = Tail(inbox[1]) /\ inbox'[2] = inbox[2]
    BY <1>1, <1>2, <1>5, <2>2 DEF One, Two, Fab!Other, FabTypes, Fab!Peer
  <2>4. /\ InboxesInOrder /\ LastOffer /\ LiveIsUp /\ StableIsHeard
        /\ GoneIsFailed /\ Outrun /\ OneTries /\ TwoTries /\ RelayIsTold
    BY <2>1 DEF Reaching
  <2>5. /\ One.signal # "stable" /\ Two.up \notin Live /\ One.up \notin Live
        /\ ~(offers # 0 /\ link[offers] = "up")
    BY <1>1, <2>2, <2>4 DEF StableIsHeard, LiveIsUp
  <2>6. inbox[2] \in Seq(Message) /\ offers \in Nat
    BY <1>2, OffersAreNumbered DEF FabTypes, Fab!Peer
  <2>7. \A i \in 1..Len(inbox'[1]) :
          /\ i + 1 \in 1..Len(inbox[1]) /\ inbox'[1][i] = inbox[1][i + 1]
          /\ 1 < i + 1
    BY <1>3, <2>2, <2>3
  <2>8. InboxesInOrder'
    <3>1. \A i \in 1..Len(inbox'[1]) :
            /\ inbox'[1][i].type = "answer" /\ inbox'[1][i].n <= offers
            /\ \A j \in 1..Len(inbox[2]) : inbox'[1][i].n < inbox[2][j].n
      BY <2>4, <2>7 DEF InboxesInOrder
    <3>2. \A i, j \in 1..Len(inbox'[1]) :
            i < j => inbox'[1][i].n < inbox'[1][j].n
      <4> SUFFICES ASSUME NEW i \in 1..Len(inbox'[1]),
                          NEW j \in 1..Len(inbox'[1]), i < j
                   PROVE  inbox'[1][i].n < inbox'[1][j].n
        OBVIOUS
      <4>1. i + 1 < j + 1
        OBVIOUS
      <4> QED BY <2>4, <2>7, <4>1 DEF InboxesInOrder
    <3> QED BY <1>1, <2>3, <2>4, <3>1, <3>2 DEF InboxesInOrder
  <2>9. ASSUME k = "stable" PROVE inbox'[1] = <<>> /\ inbox'[2] = <<>>
    <3>1. m.n = offers
      BY <2>3, <2>4, <2>5, <2>9 DEF LastOffer
    <3>2. \A j \in 1..Len(inbox[2]) : FALSE
      <4>1. \A j \in 1..Len(inbox[2]) :
              /\ offers < inbox[2][j].n /\ inbox[2][j].n <= offers
              /\ inbox[2][j] \in Message
        BY <1>3, <2>2, <2>4, <2>6, <3>1 DEF InboxesInOrder
      <4>2. \A j \in 1..Len(inbox[2]) : inbox[2][j].n \in Nat
        BY <4>1, OffersAreNumbered DEF Message
      <4> QED BY <2>6, <4>1, <4>2
    <3>3. \A i \in 1..Len(inbox'[1]) : FALSE
      <4>1. \A i \in 1..Len(inbox[1]) : inbox[1][i].n <= offers
        BY <2>4 DEF InboxesInOrder
      <4>2. \A i \in 1..Len(inbox[1]) : 1 < i => offers < inbox[1][i].n
        BY <1>3, <2>2, <2>4, <3>1 DEF InboxesInOrder
      <4>3. \A i \in 1..Len(inbox[1]) : inbox[1][i].n \in Nat
        BY <1>3, <2>2
      <4> QED BY <2>6, <2>7, <4>1, <4>2, <4>3
    <3>4. inbox'[1] \in Seq(Message)
      BY <1>3, <2>2, <2>3
    <3>5. inbox'[1] = <<>>
      BY <3>3, <3>4, NoneIn
    <3>6. inbox[2] = <<>>
      BY <2>6, <3>2, NoneIn
    <3> QED BY <2>3, <3>5, <3>6
  <2>10. LastOffer' /\ StableIsHeard' /\ GoneIsFailed'
    <3>1. One.signal # "offered" => k = One.signal
      BY <2>3
    <3>2. k \in {"none", "offered", "stable", "crossed"}
          /\ (k = "none" => One.signal = "none")
      BY <1>2, <2>3 DEF Fab!PeerState
    <3>3. LastOffer'
      BY <1>1, <1>4, <2>3, <2>4, <3>2 DEF LastOffer
    <3>4. StableIsHeard'
      BY <1>1, <1>4, <2>3, <2>5, <2>9 DEF StableIsHeard
    <3>5. GoneIsFailed'
      BY <1>1, <1>4, <2>3, <2>4, <2>5, <3>1, <3>2 DEF GoneIsFailed, Live
    <3> QED BY <3>3, <3>4, <3>5
  <2>11. LiveIsUp' /\ Outrun'
    BY <1>1, <1>4, <2>3, <2>4, <2>5 DEF LiveIsUp, Outrun, Live
  <2>12. OneTries' /\ TwoTries' /\ RelayIsTold'
    BY <1>1, <1>4, <2>3, <2>4 DEF OneTries, TwoTries, RelayIsTold
  <2> QED BY <2>8, <2>10, <2>11, <2>12 DEF Reaching
<1> QED BY <1>6, <1>7 DEF FabIInv

LEMMA OfferKeeps ==
  ASSUME FabIInv, NEW p \in Fab!Peer, Fab!Offer(p) PROVE FabIInv'
<1> PICK m : m = Head(inbox[p])
  OBVIOUS
<1> PICK a : a = [type |-> "answer", n |-> m.n]
  OBVIOUS
<1> PICK o : o = Fab!Other(p)
  OBVIOUS
<1> PICK taken : taken = [inbox EXCEPT ![p] = Tail(inbox[p])]
  OBVIOUS
<1> PICK r : r = Fab!Negotiating(peer[p], m.n, "stable")
  OBVIOUS
<1>1. /\ inbox[p] # <<>> /\ m.type = "offer"
      /\ Fab!Set(p, r) /\ Fab!Signal(taken, o, a)
      /\ UNCHANGED <<link, mail, offers, hurried, dropped>>
  BY DEF Fab!Offer
<1>2. FabTypes /\ peer[p] \in Fab!PeerState /\ inbox[p] \in Seq(Message)
  BY DEF FabIInv, FabTypes
<1>3. /\ m \in Message /\ m = inbox[p][1] /\ 1 \in 1..Len(inbox[p])
      /\ Tail(inbox[p]) \in Seq(Message)
      /\ \A i \in 1..Len(Tail(inbox[p])) :
           /\ i + 1 \in 1..Len(inbox[p])
           /\ Tail(inbox[p])[i] = inbox[p][i + 1]
      /\ \A i \in 1..Len(inbox[p]) :
           inbox[p][i] \in Message /\ inbox[p][i].n \in Nat
  BY <1>1, <1>2, Takes
<1>4. /\ r \in Fab!PeerState /\ r.n = m.n /\ r.signal = "stable"
      /\ r.up = "no" /\ r.relayTimer /\ ~r.reinit /\ r.polling /\ r.posting
      /\ r.in = peer[p].in /\ r.known = peer[p].known
      /\ r.state = peer[p].state /\ r.left = peer[p].left
  <2>1. PICK n : n = m.n
    OBVIOUS
  <2>2. n \in 0..MaxOffers
    BY <1>3, <2>1, OffersAreNumbered DEF Message
  <2>3. PICK signal \in {"offered", "stable"} : signal = "stable"
    OBVIOUS
  <2>4. r = Fab!Negotiating(peer[p], n, signal)
    BY <2>1, <2>3
  <2> QED BY <1>2, <2>1, <2>2, <2>3, <2>4, Negotiates
<1>5. /\ peer'[p] = r /\ peer'[o] = peer[o] /\ o \in Fab!Peer /\ o # p
      /\ peer' \in [Fab!Peer -> Fab!PeerState]
  BY <1>1, <1>2, <1>4, Sets
<1>6. a \in Message /\ a.type = "answer" /\ a.n = m.n
  BY <1>3 DEF Message
<1>7. /\ taken \in [Fab!Peer -> Seq(Message)]
      /\ taken[p] = Tail(inbox[p]) /\ taken[o] = inbox[o]
      /\ inbox[o] \in Seq(Message)
  BY <1>2, <1>3, <1>5 DEF FabTypes
<1>8. \/ inbox' = [taken EXCEPT ![o] = Append(taken[o], a)] /\ lost' = lost
      \/ inbox' = taken /\ lost' = TRUE
  BY <1>1 DEF Fab!Signal
<1>9. FabTypes'
  <2>1. Append(taken[o], a) \in Seq(Message)
    BY <1>6, <1>7
  <2>2. inbox' \in [Fab!Peer -> Seq(Message)]
    BY <1>5, <1>7, <1>8, <2>1
  <2>3. lost' \in BOOLEAN
    BY <1>2, <1>8 DEF FabTypes
  <2> QED BY <1>1, <1>2, <1>5, <2>2, <2>3 DEF FabTypes
<1>10. ASSUME Untroubled' PROVE Reaching'
  <2>1. Untroubled /\ Reaching /\ lost' # TRUE
    <3>1. lost' # TRUE
      BY <1>10 DEF Untroubled
    <3>2. lost' = lost
      BY <1>8, <3>1
    <3>3. Untroubled
      BY <1>1, <1>2, <1>4, <1>5, <1>10, <3>2, StaysUntroubled
    <3> QED BY <3>1, <3>3 DEF FabIInv
  <2>2. p = 2 /\ o = 1
    <3>1. ASSUME p = 1 PROVE FALSE
      <4>1. inbox[1][1].type = "offer" /\ 1 \in 1..Len(inbox[1])
        BY <1>1, <1>3, <3>1
      <4> QED BY <2>1, <4>1 DEF Reaching, InboxesInOrder
    <3> QED BY <1>5, <3>1 DEF Fab!Peer
  <2>3. /\ One' = One /\ Two' = r /\ Two = peer[p]
        /\ inbox'[2] = Tail(inbox[2]) /\ inbox'[1] = Append(inbox[1], a)
        /\ inbox[2] # <<>>
    <3>1. inbox' = [taken EXCEPT ![o] = Append(taken[o], a)]
      BY <1>8, <2>1
    <3> QED BY <1>1, <1>5, <1>7, <2>2, <3>1 DEF One, Two
  <2>4. /\ InboxesInOrder /\ LastOffer /\ LiveIsUp /\ StableIsHeard
        /\ GoneIsFailed /\ Outrun /\ OneTries /\ TwoTries /\ RelayIsTold
    BY <2>1 DEF Reaching
  <2>5. One.signal # "stable" /\ One.up \notin Live
    BY <2>3, <2>4 DEF StableIsHeard, LiveIsUp
  <2>6. /\ Len(inbox[1]) \in Nat /\ Len(inbox'[1]) = Len(inbox[1]) + 1
        /\ \A i \in 1..Len(inbox[1]) : inbox'[1][i] = inbox[1][i]
        /\ inbox'[1][Len(inbox[1]) + 1] = a
    <3>1. inbox[1] \in Seq(Message)
      BY <1>7, <2>2
    <3>2. Len(inbox[1]) \in Nat
      BY <3>1, LenProperties
    <3> QED BY <1>6, <2>3, <3>1, <3>2, AppendProperties
  <2>7. \A i \in 1..Len(inbox'[2]) :
          /\ i + 1 \in 1..Len(inbox[2]) /\ inbox'[2][i] = inbox[2][i + 1]
          /\ 1 < i + 1
    BY <1>3, <2>2, <2>3
  <2>8. /\ m.n \in Nat /\ Two.n < m.n /\ m.n <= offers
        /\ \A i \in 1..Len(inbox[1]) : inbox[1][i].n < m.n
    BY <1>3, <2>2, <2>4 DEF InboxesInOrder
  <2>9. InboxesInOrder'
    <3>1. \A i \in 1..Len(inbox'[2]) :
            /\ inbox'[2][i].type = "offer" /\ m.n < inbox'[2][i].n
            /\ inbox'[2][i].n <= offers
            /\ \A j \in 1..Len(inbox[1]) : inbox[1][j].n < inbox'[2][i].n
      BY <1>3, <2>2, <2>4, <2>7 DEF InboxesInOrder
    <3>2. \A i, j \in 1..Len(inbox'[2]) :
            i < j => inbox'[2][i].n < inbox'[2][j].n
      <4> SUFFICES ASSUME NEW i \in 1..Len(inbox'[2]),
                          NEW j \in 1..Len(inbox'[2]), i < j
                   PROVE  inbox'[2][i].n < inbox'[2][j].n
        OBVIOUS
      <4>1. i + 1 < j + 1
        OBVIOUS
      <4> QED BY <2>4, <2>7, <4>1 DEF InboxesInOrder
    <3>3. \A i \in 1..Len(inbox'[1]) :
            \/ i \in 1..Len(inbox[1]) /\ inbox'[1][i] = inbox[1][i]
            \/ i = Len(inbox[1]) + 1 /\ inbox'[1][i] = a
      BY <2>6
    <3>4. \A i \in 1..Len(inbox[1]) :
            inbox[1][i].type = "answer" /\ inbox[1][i].n <= offers
      BY <2>4 DEF InboxesInOrder
    <3>5. \A i \in 1..Len(inbox'[1]) :
            /\ inbox'[1][i].type = "answer" /\ inbox'[1][i].n <= offers
            /\ \A j \in 1..Len(inbox'[2]) : inbox'[1][i].n < inbox'[2][j].n
      BY <1>6, <2>8, <3>1, <3>3, <3>4
    <3>6. \A i, j \in 1..Len(inbox'[1]) :
            i < j => inbox'[1][i].n < inbox'[1][j].n
      <4> SUFFICES ASSUME NEW i \in 1..Len(inbox'[1]),
                          NEW j \in 1..Len(inbox'[1]), i < j
                   PROVE  inbox'[1][i].n < inbox'[1][j].n
        OBVIOUS
      <4>1. i \in 1..Len(inbox[1]) /\ inbox'[1][i] = inbox[1][i]
        BY <2>6
      <4>2. CASE j \in 1..Len(inbox[1]) /\ inbox'[1][j] = inbox[1][j]
        BY <2>4, <4>1, <4>2 DEF InboxesInOrder
      <4>3. CASE inbox'[1][j] = a
        BY <1>6, <2>8, <4>1, <4>3
      <4> QED BY <3>3, <4>2, <4>3
    <3> QED BY <1>1, <1>4, <2>3, <3>1, <3>2, <3>5, <3>6 DEF InboxesInOrder
  <2>10. LastOffer' /\ StableIsHeard' /\ GoneIsFailed'
    <3>1. LastOffer'
      <4>1. m.n # 0
        BY <1>3, OffersAreNumbered DEF Message
      <4> QED BY <1>1, <1>4, <2>3, <2>4, <2>8, <4>1 DEF LastOffer
    <3>2. StableIsHeard'
      BY <1>1, <1>4, <2>3, <2>4, <2>5 DEF StableIsHeard, Live
    <3>3. GoneIsFailed'
      <4>1. offers # 0 => One.signal \in {"offered", "crossed"}
        BY <1>2, <2>4, <2>5
           DEF LastOffer, FabTypes, One, Fab!Peer, Fab!PeerState
      <4> QED BY <1>1, <1>4, <2>3, <2>4, <2>5, <4>1 DEF GoneIsFailed, Live
    <3> QED BY <3>1, <3>2, <3>3
  <2>11. LiveIsUp' /\ Outrun'
    BY <1>1, <1>4, <2>3, <2>4 DEF LiveIsUp, Outrun, Live
  <2>12. OneTries' /\ TwoTries' /\ RelayIsTold'
    BY <1>1, <1>4, <2>3, <2>4 DEF OneTries, TwoTries, RelayIsTold, Live
  <2> QED BY <2>9, <2>10, <2>11, <2>12 DEF Reaching
<1> QED BY <1>9, <1>10 DEF FabIInv

(* A connection is up or a channel open: the answer was the last message.  *)
LEMMA ConnectKeeps ==
  ASSUME FabIInv, NEW p \in Fab!Peer, NEW r \in Fab!PeerState,
         Fab!Linked(p), Fab!Set(p, r),
         UNCHANGED <<inbox, link, mail, offers, lost, hurried, dropped>>,
         r.up \in {"pc", "dc"}, r.state = "connected",
         r.in = peer[p].in, r.known = peer[p].known, r.n = peer[p].n,
         r.signal = peer[p].signal, r.reinit => peer[p].reinit,
         r.left = peer[p].left, r.polling = peer[p].polling,
         r.posting = peer[p].posting, r.stale = peer[p].stale
  PROVE  FabIInv'
<1>1. FabTypes
  BY DEF FabIInv
<1>2. /\ peer'[p] = r /\ peer'[Fab!Other(p)] = peer[Fab!Other(p)]
      /\ peer' \in [Fab!Peer -> Fab!PeerState]
  BY <1>1, Sets
<1>3. FabTypes'
  BY <1>1, <1>2 DEF FabTypes
<1>4. ASSUME Untroubled' PROVE Reaching'
  <2>1. Untroubled /\ Reaching
    <3>1. Untroubled
      BY <1>1, <1>2, <1>4, StaysUntroubled
    <3> QED BY <3>1 DEF FabIInv
  <2>2. /\ One.n = Two.n /\ One.n # 0 /\ link[One.n] = "up"
        /\ p = 1 => Two.signal # "crossed" /\ Two.up # "gone"
        /\ p = 2 => One.signal # "crossed" /\ One.up # "gone"
    BY DEF Fab!Linked, Fab!Deserted, Fab!Other, Fab!Peer, One, Two
  <2>3. /\ InboxesInOrder /\ LastOffer /\ LiveIsUp /\ StableIsHeard
        /\ GoneIsFailed /\ Outrun /\ OneTries /\ TwoTries /\ RelayIsTold
    BY <2>1 DEF Reaching
  <2>4. /\ One.n = offers /\ One.signal = "stable" /\ Two.signal = "stable"
        /\ inbox[1] = <<>> /\ inbox[2] = <<>>
        /\ One.up # "gone" /\ Two.up # "gone"
    BY <2>2, <2>3 DEF LastOffer, StableIsHeard, GoneIsFailed
  <2>5. One.known
    BY <2>2, <2>3, <2>4 DEF LastOffer
  <2>6. CASE p = 1
    <3>1. One' = r /\ Two' = Two /\ One = peer[p]
      BY <1>2, <2>6 DEF One, Two, Fab!Other
    <3>2. InboxesInOrder' /\ LastOffer'
      BY <2>3, <2>5, <3>1 DEF InboxesInOrder, LastOffer
    <3>3. StableIsHeard' /\ GoneIsFailed'
      BY <2>2, <2>3, <2>4, <3>1 DEF StableIsHeard, GoneIsFailed
    <3>4. LiveIsUp'
      <4>1. One'.polling = One.polling /\ One'.posting = One.posting
        BY <3>1
      <4>2. One.posting => One.polling
        BY <2>3 DEF LiveIsUp
      <4>3. /\ One'.up \in {"pc", "dc"} /\ One'.state = "connected"
            /\ One'.n # 0 /\ One'.signal = "stable"
            /\ link'[One'.n] = "up"
        BY <2>2, <2>4, <3>1
      <4> QED BY <2>3, <3>1, <4>1, <4>2, <4>3 DEF LiveIsUp
    <3>5. Outrun' /\ OneTries' /\ TwoTries' /\ RelayIsTold'
      BY <2>2, <2>3, <2>4, <3>1 DEF Outrun, OneTries, TwoTries, RelayIsTold
    <3> QED BY <3>2, <3>3, <3>4, <3>5 DEF Reaching
  <2>7. CASE p = 2
    <3>1. One' = One /\ Two' = r /\ Two = peer[p]
      BY <1>2, <2>7 DEF One, Two, Fab!Other
    <3>2. InboxesInOrder' /\ LastOffer'
      BY <2>3, <2>5, <3>1 DEF InboxesInOrder, LastOffer
    <3>3. StableIsHeard' /\ GoneIsFailed'
      BY <2>2, <2>3, <2>4, <3>1 DEF StableIsHeard, GoneIsFailed
    <3>4. LiveIsUp'
      <4>1. Two'.polling = Two.polling /\ Two'.posting = Two.posting
        BY <3>1
      <4>2. Two.posting => Two.polling
        BY <2>3 DEF LiveIsUp
      <4>3. /\ Two'.up \in {"pc", "dc"} /\ Two'.state = "connected"
            /\ Two'.n # 0 /\ Two'.signal = "stable"
            /\ link'[Two'.n] = "up"
        BY <2>2, <2>4, <3>1
      <4> QED BY <2>3, <3>1, <4>1, <4>2, <4>3 DEF LiveIsUp
    <3>5. Outrun' /\ OneTries' /\ TwoTries' /\ RelayIsTold'
      BY <2>2, <2>3, <2>4, <2>5, <3>1
         DEF Outrun, OneTries, TwoTries, RelayIsTold
    <3> QED BY <3>2, <3>3, <3>4, <3>5 DEF Reaching
  <2> QED BY <2>6, <2>7 DEF Fab!Peer
<1> QED BY <1>3, <1>4 DEF FabIInv

LEMMA PcConnectedKeeps ==
  ASSUME FabIInv, NEW p \in Fab!Peer, Fab!PcConnected(p) PROVE FabIInv'
<1> PICK r : r = [peer[p] EXCEPT !.up = "pc", !.relayTimer = FALSE,
                                 !.state = "connected"]
  OBVIOUS
<1>1. /\ Fab!Linked(p) /\ Fab!Set(p, r)
      /\ UNCHANGED <<inbox, link, mail, offers, lost, hurried, dropped>>
  BY DEF Fab!PcConnected, Fab!Transport
<1>2. FabTypes /\ peer[p] \in Fab!PeerState
  BY DEF FabIInv, FabTypes
<1>3. /\ r \in Fab!PeerState /\ r.up = "pc" /\ r.state = "connected"
      /\ r.in = peer[p].in /\ r.known = peer[p].known /\ r.n = peer[p].n
      /\ r.signal = peer[p].signal /\ r.reinit = peer[p].reinit
      /\ r.left = peer[p].left /\ r.polling = peer[p].polling
      /\ r.posting = peer[p].posting /\ r.stale = peer[p].stale
  BY <1>2 DEF Fab!PeerState
<1> QED BY <1>1, <1>2, <1>3, ConnectKeeps

LEMMA DcOpenKeeps ==
  ASSUME FabIInv, NEW p \in Fab!Peer, Fab!DcOpen(p) PROVE FabIInv'
<1> PICK r : r = [peer[p] EXCEPT !.up = "dc", !.relayTimer = FALSE,
                                 !.reinit = FALSE, !.state = "connected"]
  OBVIOUS
<1>1. /\ Fab!Linked(p) /\ Fab!Set(p, r)
      /\ UNCHANGED <<inbox, link, mail, offers, lost, hurried, dropped>>
  BY DEF Fab!DcOpen, Fab!Transport
<1>2. FabTypes /\ peer[p] \in Fab!PeerState
  BY DEF FabIInv, FabTypes
<1>3. /\ r \in Fab!PeerState /\ r.up = "dc" /\ r.state = "connected"
      /\ r.in = peer[p].in /\ r.known = peer[p].known /\ r.n = peer[p].n
      /\ r.signal = peer[p].signal /\ ~r.reinit
      /\ r.left = peer[p].left /\ r.polling = peer[p].polling
      /\ r.posting = peer[p].posting /\ r.stale = peer[p].stale
  BY <1>2 DEF Fab!PeerState
<1> QED BY <1>1, <1>2, <1>3, ConnectKeeps

(* Who falls back to the relay lets the other know.                        *)
LEMMA Activates ==
  ASSUME FabTypes, NEW p \in Fab!Peer, NEW s \in Fab!PeerState,
         Fab!ActivateRelay(p, s)
  PROVE  /\ peer' \in [Fab!Peer -> Fab!PeerState]
         /\ mail' \in [Fab!Peer -> BOOLEAN] /\ lost' \in BOOLEAN
         /\ (lost => lost')
         /\ peer'[Fab!Other(p)] = peer[Fab!Other(p)]
         /\ peer'[p].state = "relay"
         /\ s.posting /\ s.polling => peer'[p].polling
         /\ s.state = "relay" => mail' = mail
         /\ s.state # "relay" /\ ~lost' => mail'[Fab!Other(p)]
         /\ peer'[p].in = s.in /\ peer'[p].known = s.known
         /\ peer'[p].n = s.n /\ peer'[p].signal = s.signal
         /\ peer'[p].up = s.up
         /\ peer'[p].reinit = s.reinit /\ peer'[p].left = s.left
         /\ peer'[p].posting = s.posting /\ peer'[p].stale = s.stale
<1> PICK o : o = Fab!Other(p)
  OBVIOUS
<1>1. o \in Fab!Peer
  BY DEF Fab!Peer, Fab!Other
<1>2. CASE s.state = "relay"
  <2>1. Fab!Set(p, s) /\ UNCHANGED <<mail, lost>>
    BY <1>2 DEF Fab!ActivateRelay
  <2>2. /\ peer'[p] = s /\ peer'[o] = peer[o]
        /\ peer' \in [Fab!Peer -> Fab!PeerState]
    BY <2>1, Sets
  <2> QED BY <1>2, <2>1, <2>2 DEF FabTypes
<1>3. CASE s.state # "relay"
  <2> PICK r : r = [s EXCEPT !.state = "relay", !.polling = TRUE]
    OBVIOUS
  <2>1. /\ r \in Fab!PeerState /\ r.state = "relay" /\ r.polling
        /\ r.in = s.in /\ r.known = s.known /\ r.n = s.n
        /\ r.signal = s.signal /\ r.up = s.up
        /\ r.reinit = s.reinit
        /\ r.left = s.left /\ r.posting = s.posting /\ r.stale = s.stale
    BY DEF Fab!PeerState
  <2>2. /\ Fab!Set(p, r)
        /\ \/ mail' = [mail EXCEPT ![o] = TRUE] /\ lost' = lost
           \/ lost' = TRUE /\ mail' = mail
    BY <1>3 DEF Fab!ActivateRelay, Fab!InRelay
  <2>3. /\ peer'[p] = r /\ peer'[o] = peer[o]
        /\ peer' \in [Fab!Peer -> Fab!PeerState]
    BY <2>1, <2>2, Sets
  <2>4. /\ mail' \in [Fab!Peer -> BOOLEAN] /\ lost' \in BOOLEAN
        /\ (lost => lost') /\ (~lost' => mail'[o])
    <3>1. mail \in [Fab!Peer -> BOOLEAN] /\ lost \in BOOLEAN
      BY DEF FabTypes
    <3>2. CASE mail' = [mail EXCEPT ![o] = TRUE] /\ lost' = lost
      BY <1>1, <3>1, <3>2
    <3>3. CASE lost' = TRUE /\ mail' = mail
      BY <3>1, <3>3
    <3> QED BY <2>2, <3>2, <3>3
  <2>5. /\ peer'[p].state = "relay" /\ peer'[p].polling
        /\ peer'[p].in = s.in /\ peer'[p].known = s.known
        /\ peer'[p].n = s.n /\ peer'[p].signal = s.signal
        /\ peer'[p].up = s.up
        /\ peer'[p].reinit = s.reinit /\ peer'[p].left = s.left
        /\ peer'[p].posting = s.posting /\ peer'[p].stale = s.stale
    BY <2>1, <2>3
  <2> QED BY <1>3, <2>3, <2>4, <2>5
<1> QED BY <1>2, <1>3

LEMMA FallsBack ==
  ASSUME FabIInv, NEW p \in Fab!Peer, NEW s \in Fab!PeerState,
         Fab!ActivateRelay(p, s),
         UNCHANGED <<inbox, link, offers, hurried, dropped>>,
         s.in = peer[p].in, s.known = peer[p].known,
         s.state = peer[p].state, s.n = peer[p].n,
         s.signal = peer[p].signal, s.reinit = peer[p].reinit,
         s.left = peer[p].left, s.polling = peer[p].polling,
         s.posting = peer[p].posting, s.stale = peer[p].stale,
         Untroubled /\ Reaching =>
           /\ s.up # "dc" /\ (s.up \in Live => peer[p].up \in Live)
           /\ s.up = "gone" /\ One.n = Two.n /\ offers # 0
                /\ One.signal # "crossed" => link[offers] = "failed"
           /\ s.up = "gone" /\ p = 1 => One.signal # "offered"
           /\ s.up = "failed" => One.n # Two.n
  PROVE  FabIInv'
<1>1. /\ FabTypes /\ s.state \in {"disconnected", "connecting",
                                  "connected", "relay"}
  BY DEF FabIInv, Fab!PeerState
<1>2. /\ peer' \in [Fab!Peer -> Fab!PeerState]
      /\ mail' \in [Fab!Peer -> BOOLEAN] /\ lost' \in BOOLEAN
      /\ (lost => lost')
      /\ peer'[Fab!Other(p)] = peer[Fab!Other(p)]
      /\ peer'[p].state = "relay"
      /\ s.posting /\ s.polling => peer'[p].polling
      /\ s.state = "relay" => mail' = mail
      /\ s.state # "relay" /\ ~lost' => mail'[Fab!Other(p)]
      /\ peer'[p].in = s.in /\ peer'[p].known = s.known
      /\ peer'[p].n = s.n /\ peer'[p].signal = s.signal
      /\ peer'[p].up = s.up
      /\ peer'[p].reinit = s.reinit /\ peer'[p].left = s.left
      /\ peer'[p].posting = s.posting /\ peer'[p].stale = s.stale
  BY <1>1, Activates
<1>3. FabTypes'
  BY <1>1, <1>2 DEF FabTypes
<1>4. ASSUME Untroubled' PROVE Reaching'
  <2>1. Untroubled /\ Reaching /\ ~lost'
    <3>1. Untroubled
      BY <1>1, <1>2, <1>4, StaysUntroubled
    <3>2. ~lost'
      BY <1>4 DEF Untroubled
    <3> QED BY <3>1, <3>2 DEF FabIInv
  <2>2. /\ InboxesInOrder /\ LastOffer /\ LiveIsUp /\ StableIsHeard
        /\ GoneIsFailed /\ Outrun /\ OneTries /\ TwoTries /\ RelayIsTold
    BY <2>1 DEF Reaching
  <2>3. /\ s.up # "dc" /\ (s.up \in Live => peer[p].up \in Live)
        /\ s.up = "gone" /\ One.n = Two.n /\ offers # 0
             /\ One.signal # "crossed" => link[offers] = "failed"
        /\ s.up = "gone" /\ p = 1 => One.signal # "offered"
        /\ s.up = "failed" => One.n # Two.n
    BY <2>1
  <2>4. CASE p = 1
    <3>1. /\ Two' = Two /\ One = peer[p] /\ One' = peer'[p]
          /\ Fab!Other(p) = 2 /\ 2 \in Fab!Peer
      BY <1>2, <2>4 DEF One, Two, Fab!Other, Fab!Peer
    <3>2. /\ One'.n = One.n /\ One'.signal = One.signal /\ One'.up = s.up
          /\ One'.known = One.known /\ One'.reinit = One.reinit
          /\ One'.left = One.left /\ One'.posting = One.posting
          /\ One'.stale = One.stale /\ One'.state = "relay"
      BY <1>2, <3>1
    <3>3. InboxesInOrder' /\ LastOffer'
      BY <2>2, <3>1, <3>2 DEF InboxesInOrder, LastOffer
    <3>4. StableIsHeard' /\ GoneIsFailed'
      BY <2>2, <2>3, <2>4, <3>1, <3>2 DEF StableIsHeard, GoneIsFailed
    <3>5. LiveIsUp'
      <4>1. One.posting => One'.polling
        BY <1>2, <2>2, <3>1 DEF LiveIsUp
      <4>2. One'.up \in Live => /\ One'.n # 0 /\ One'.signal = "stable"
                                /\ link'[One'.n] \in {"up", "failed"}
        BY <2>2, <2>3, <3>1, <3>2 DEF LiveIsUp
      <4> QED BY <2>2, <2>3, <3>1, <3>2, <4>1, <4>2 DEF LiveIsUp
    <3>6. Outrun' /\ OneTries' /\ TwoTries'
      BY <2>2, <3>1, <3>2 DEF Outrun, OneTries, TwoTries
    <3>7. RelayIsTold'
      BY <1>2, <2>1, <2>2, <3>1, <3>2 DEF RelayIsTold
    <3> QED BY <3>3, <3>4, <3>5, <3>6, <3>7 DEF Reaching
  <2>5. CASE p = 2
    <3>1. One' = One /\ Two = peer[p] /\ Two' = peer'[p]
      BY <1>2, <2>5 DEF One, Two, Fab!Other
    <3>2. /\ Two'.n = Two.n /\ Two'.signal = Two.signal /\ Two'.up = s.up
          /\ Two'.left = Two.left /\ Two'.posting = Two.posting
          /\ Two'.state = "relay"
      BY <1>2, <3>1
    <3>3. InboxesInOrder' /\ LastOffer'
      BY <2>2, <3>1, <3>2 DEF InboxesInOrder, LastOffer
    <3>4. StableIsHeard' /\ GoneIsFailed'
      BY <2>2, <2>3, <2>5, <3>1, <3>2 DEF StableIsHeard, GoneIsFailed
    <3>5. LiveIsUp'
      <4>1. Two.posting => Two'.polling
        BY <1>2, <2>2, <3>1 DEF LiveIsUp
      <4>2. Two'.up \in Live => /\ Two'.n # 0 /\ Two'.signal = "stable"
                                /\ link'[Two'.n] \in {"up", "failed"}
        BY <2>2, <2>3, <3>1, <3>2 DEF LiveIsUp
      <4> QED BY <2>2, <2>3, <3>1, <3>2, <4>1, <4>2 DEF LiveIsUp
    <3>6. Outrun' /\ OneTries' /\ TwoTries' /\ RelayIsTold'
      BY <2>2, <2>3, <3>1, <3>2
         DEF Outrun, OneTries, TwoTries, RelayIsTold
    <3> QED BY <3>3, <3>4, <3>5, <3>6 DEF Reaching
  <2> QED BY <2>4, <2>5 DEF Fab!Peer
<1> QED BY <1>3, <1>4 DEF FabIInv

LEMMA RelayTimerKeeps ==
  ASSUME FabIInv, NEW p \in Fab!Peer, Fab!RelayTimer(p) PROVE FabIInv'
<1> PICK s : s = [peer[p] EXCEPT !.relayTimer = FALSE]
  OBVIOUS
<1>1. /\ \/ s.state = "connected" /\ Fab!Set(p, s) /\ UNCHANGED <<mail, lost>>
         \/ s.state # "connected" /\ Fab!ActivateRelay(p, s)
      /\ UNCHANGED <<inbox, link, offers, hurried, dropped>>
  BY DEF Fab!RelayTimer
<1>2. FabTypes /\ peer[p] \in Fab!PeerState
  BY DEF FabIInv, FabTypes
<1>3. /\ s \in Fab!PeerState /\ s.state = peer[p].state
      /\ s.in = peer[p].in /\ s.known = peer[p].known /\ s.n = peer[p].n
      /\ s.signal = peer[p].signal /\ s.reinit = peer[p].reinit
      /\ s.up = peer[p].up
      /\ s.left = peer[p].left /\ s.polling = peer[p].polling
      /\ s.posting = peer[p].posting /\ s.stale = peer[p].stale
  BY <1>2 DEF Fab!PeerState
<1>4. CASE s.state = "connected" /\ Fab!Set(p, s) /\ UNCHANGED <<mail, lost>>
  <2>1. /\ peer'[p] = s /\ peer'[Fab!Other(p)] = peer[Fab!Other(p)]
        /\ peer' \in [Fab!Peer -> Fab!PeerState]
    BY <1>2, <1>3, <1>4, Sets
  <2>2. FabTypes'
    BY <1>1, <1>2, <1>4, <2>1 DEF FabTypes
  <2>3. ASSUME Untroubled' PROVE Reaching'
    <3>1. Untroubled
      BY <1>1, <1>2, <1>3, <1>4, <2>1, <2>3, StaysUntroubled
    <3>2. /\ InboxesInOrder /\ LastOffer /\ LiveIsUp /\ StableIsHeard
          /\ GoneIsFailed /\ Outrun /\ OneTries /\ TwoTries /\ RelayIsTold
      BY <3>1 DEF FabIInv, Reaching
    <3>3. /\ One'.n = One.n /\ One'.signal = One.signal /\ One'.up = One.up
          /\ One'.known = One.known /\ One'.reinit = One.reinit
          /\ One'.left = One.left /\ One'.posting = One.posting
          /\ One'.stale = One.stale /\ One'.state = One.state
          /\ One'.polling = One.polling
          /\ Two'.n = Two.n /\ Two'.signal = Two.signal /\ Two'.up = Two.up
          /\ Two'.left = Two.left /\ Two'.posting = Two.posting
          /\ Two'.polling = Two.polling /\ Two'.state = Two.state
      <4>1. CASE p = 1
        <5>1. One' = s /\ One = peer[p] /\ Two' = Two
          BY <2>1, <4>1 DEF One, Two, Fab!Other
        <5> QED BY <1>3, <5>1
      <4>2. CASE p = 2
        <5>1. Two' = s /\ Two = peer[p] /\ One' = One
          BY <2>1, <4>2 DEF One, Two, Fab!Other
        <5> QED BY <1>3, <5>1
      <4> QED BY <4>1, <4>2 DEF Fab!Peer
    <3>4. One'.relayTimer = One.relayTimer \/ One.state = "connected"
      <4>1. CASE p = 1
        BY <1>3, <1>4, <4>1 DEF One
      <4>2. CASE p = 2
        BY <2>1, <4>2 DEF One, Fab!Other
      <4> QED BY <4>1, <4>2 DEF Fab!Peer
    <3>5. InboxesInOrder' /\ LastOffer' /\ StableIsHeard' /\ GoneIsFailed'
      BY <1>1, <3>2, <3>3
         DEF InboxesInOrder, LastOffer, StableIsHeard, GoneIsFailed
    <3>6. LiveIsUp' /\ Outrun'
      BY <1>1, <3>2, <3>3 DEF LiveIsUp, Outrun
    <3>7. OneTries' /\ TwoTries' /\ RelayIsTold'
      BY <1>1, <1>4, <3>2, <3>3, <3>4 DEF OneTries, TwoTries, RelayIsTold
    <3> QED BY <3>5, <3>6, <3>7 DEF Reaching
  <2> QED BY <2>2, <2>3 DEF FabIInv
<1>5. CASE s.state # "connected" /\ Fab!ActivateRelay(p, s)
  <2>1. ASSUME Untroubled /\ Reaching
        PROVE  /\ s.up # "dc" /\ (s.up \in Live => peer[p].up \in Live)
               /\ s.up = "gone" /\ One.n = Two.n /\ offers # 0
                    /\ One.signal # "crossed" => link[offers] = "failed"
               /\ s.up = "gone" /\ p = 1 => One.signal # "offered"
               /\ s.up = "failed" => One.n # Two.n
    <3>1. peer[p] = IF p = 1 THEN One ELSE Two
      BY DEF One, Two, Fab!Peer
    <3>2. LiveIsUp /\ GoneIsFailed
      BY <2>1 DEF Reaching
    <3>3. s.up # "dc"
      BY <1>3, <1>5, <3>1, <3>2 DEF LiveIsUp
    <3> QED BY <1>3, <3>1, <3>2, <3>3 DEF GoneIsFailed
  <2> QED BY <1>1, <1>3, <1>5, <2>1, FallsBack
<1> QED BY <1>1, <1>4, <1>5

LEMMA PcFailedKeeps ==
  ASSUME FabIInv, NEW p \in Fab!Peer, Fab!PcFailed(p) PROVE FabIInv'
<1> PICK s : s = [peer[p] EXCEPT !.relayTimer = FALSE,
       !.up = IF peer[p].up = "dc" /\ link[peer[p].n] # "failed"
                THEN "failed" ELSE "gone"]
  OBVIOUS
<1>1. /\ Fab!Broken(p) /\ peer[p].up \in {"no", "pc", "dc"}
      /\ Fab!ActivateRelay(p, s)
      /\ UNCHANGED <<inbox, link, offers, hurried, dropped>>
  BY DEF Fab!PcFailed
<1>2. FabTypes /\ peer[p] \in Fab!PeerState
  BY DEF FabIInv, FabTypes
<1>3. /\ s \in Fab!PeerState /\ s.state = peer[p].state
      /\ s.in = peer[p].in /\ s.known = peer[p].known /\ s.n = peer[p].n
      /\ s.signal = peer[p].signal /\ s.reinit = peer[p].reinit
      /\ s.left = peer[p].left /\ s.polling = peer[p].polling
      /\ s.posting = peer[p].posting /\ s.stale = peer[p].stale
      /\ s.up = IF peer[p].up = "dc" /\ link[peer[p].n] # "failed"
                  THEN "failed" ELSE "gone"
  BY <1>2 DEF Fab!PeerState
<1>4. ASSUME Untroubled /\ Reaching
      PROVE  /\ s.up # "dc" /\ (s.up \in Live => peer[p].up \in Live)
             /\ s.up = "gone" /\ One.n = Two.n /\ offers # 0
                  /\ One.signal # "crossed" => link[offers] = "failed"
             /\ s.up = "gone" /\ p = 1 => One.signal # "offered"
             /\ s.up = "failed" => One.n # Two.n
  <2>1. /\ LastOffer /\ LiveIsUp /\ StableIsHeard /\ GoneIsFailed
    BY <1>4 DEF Reaching
  <2>2. /\ peer[p].n # 0 /\ peer[p].signal # "offered"
        /\ \/ link[peer[p].n] \in {"failed", "dropped"}
           \/ One.n # Two.n
           \/ p = 1 /\ (Two.signal = "crossed" \/ Two.up = "gone")
           \/ p = 2 /\ (One.signal = "crossed" \/ One.up = "gone")
           \/ peer[p].signal = "crossed"
    BY <1>1 DEF Fab!Broken, Fab!Deserted, Fab!Other, Fab!Peer, One, Two
  <2>3. /\ s.up # "dc" /\ (s.up \in Live => peer[p].up \in Live)
        /\ s.up = "gone" /\ p = 1 => One.signal # "offered"
    BY <1>3, <2>2 DEF Live, One
  <2>4. /\ peer[p] = IF p = 1 THEN One ELSE Two
        /\ One.n = offers /\ Two.signal # "crossed"
        /\ offers # 0 => link[offers] # "dropped"
    BY <1>2, <2>1 DEF One, Two, Fab!Peer, LastOffer, FabTypes
  <2>5. ASSUME One.n = Two.n, s.up = "gone", offers # 0,
               One.signal # "crossed"
        PROVE  link[offers] = "failed"
    BY <1>3, <2>1, <2>2, <2>4, <2>5 DEF GoneIsFailed
  <2>6. ASSUME One.n = Two.n, s.up = "failed" PROVE FALSE
    <3>1. /\ peer[p].up = "dc" /\ link[offers] = "up"
          /\ peer[p].signal = "stable" /\ offers # 0
      <4>1. peer[p].up = "dc" /\ link[offers] # "failed"
        BY <1>3, <2>4, <2>6
      <4>2. /\ peer[p].n # 0 /\ peer[p].signal = "stable"
            /\ link[peer[p].n] \in {"up", "failed"}
        BY <2>1, <2>4, <4>1 DEF LiveIsUp, Live
      <4> QED BY <2>4, <2>6, <4>1, <4>2
    <3>2. One.signal = "stable"
      BY <2>1, <3>1 DEF StableIsHeard
    <3>3. One.up # "gone" /\ Two.up # "gone"
      BY <2>1, <2>6, <3>1, <3>2 DEF GoneIsFailed
    <3> QED BY <2>2, <2>4, <2>6, <3>1, <3>2, <3>3
  <2> QED BY <2>3, <2>5, <2>6
<1> QED BY <1>1, <1>3, <1>4, FallsBack

LEMMA DcCloseKeeps ==
  ASSUME FabIInv, NEW p \in Fab!Peer, Fab!DcClose(p) PROVE FabIInv'
<1> PICK b \in BOOLEAN : b = ~peer[p].left
  OBVIOUS
<1> PICK r : r = [peer[p] EXCEPT !.state = "disconnected", !.reinit = b,
                                 !.up = "gone"]
  OBVIOUS
<1>1. /\ Fab!Broken(p) /\ peer[p].up \in {"dc", "failed"}
      /\ link[peer[p].n] # "failed"
      /\ UNCHANGED <<inbox, link, mail, offers, lost, hurried, dropped>>
  BY DEF Fab!DcClose, Fab!Transport
<1>2. FabTypes /\ peer[p] \in Fab!PeerState
  BY DEF FabIInv, FabTypes
<1>3. /\ r \in Fab!PeerState /\ r.up = "gone" /\ r.state = "disconnected"
      /\ r.in = peer[p].in /\ r.known = peer[p].known /\ r.n = peer[p].n
      /\ r.signal = peer[p].signal /\ r.reinit = b
      /\ r.left = peer[p].left /\ r.polling = peer[p].polling
      /\ r.posting = peer[p].posting /\ r.stale = peer[p].stale
  BY <1>2 DEF Fab!PeerState
<1>4. Fab!Set(p, r)
  <2> PICK c : c = Fab!Closed(peer[p])
    OBVIOUS
  <2>1. c = [peer[p] EXCEPT !.state = "disconnected", !.reinit = b]
    BY DEF Fab!Closed
  <2>2. r = [c EXCEPT !.up = "gone"]
    BY <1>2, <2>1 DEF Fab!PeerState
  <2> QED BY <2>2 DEF Fab!DcClose
<1>5. /\ peer'[p] = r /\ peer'[Fab!Other(p)] = peer[Fab!Other(p)]
      /\ peer' \in [Fab!Peer -> Fab!PeerState]
  BY <1>2, <1>3, <1>4, Sets
<1>6. FabTypes'
  BY <1>1, <1>2, <1>5 DEF FabTypes
<1>7. ASSUME Untroubled' PROVE Reaching'
  <2>1. Untroubled /\ Reaching
    <3>1. Untroubled
      BY <1>1, <1>2, <1>3, <1>5, <1>7, StaysUntroubled
    <3> QED BY <3>1 DEF FabIInv
  <2>2. /\ InboxesInOrder /\ LastOffer /\ LiveIsUp /\ StableIsHeard
        /\ GoneIsFailed /\ Outrun /\ OneTries /\ TwoTries /\ RelayIsTold
    BY <2>1 DEF Reaching
  <2>3. /\ One.n = offers /\ Two.signal # "crossed" /\ b = TRUE
        /\ peer[p] = IF p = 1 THEN One ELSE Two
    BY <2>2 DEF LastOffer, One, Two, Fab!Peer
  <2>4. /\ peer[p].n # 0 /\ peer[p].signal = "stable"
        /\ link[peer[p].n] = "up"
    BY <1>1, <2>2, <2>3 DEF LiveIsUp, Live
  <2>5. /\ \/ One.n # Two.n
           \/ p = 1 /\ (Two.signal = "crossed" \/ Two.up = "gone")
           \/ p = 2 /\ (One.signal = "crossed" \/ One.up = "gone")
    BY <1>1, <2>4 DEF Fab!Broken, Fab!Deserted, Fab!Other, Fab!Peer, One, Two
  <2>6. One.n # Two.n
    <3> SUFFICES ASSUME One.n = Two.n PROVE FALSE
      OBVIOUS
    <3>1. offers # 0 /\ link[offers] = "up"
      BY <2>3, <2>4
    <3>2. One.signal = "stable"
      BY <2>2, <3>1 DEF StableIsHeard
    <3>3. One.up # "gone" /\ Two.up # "gone"
      BY <2>2, <3>1, <3>2 DEF GoneIsFailed
    <3> QED BY <2>3, <2>5, <3>2, <3>3
  <2>7. CASE p = 1
    <3>1. One' = r /\ Two' = Two /\ One = peer[p]
      BY <1>5, <2>7 DEF One, Two, Fab!Other
    <3>2. One.known /\ One.signal = "stable" /\ Two.up \notin Live
      BY <2>2, <2>3, <2>4, <2>6, <3>1 DEF LastOffer, Outrun
    <3>3. InboxesInOrder' /\ LastOffer'
      BY <1>1, <1>3, <2>2, <3>1, <3>2 DEF InboxesInOrder, LastOffer
    <3>4. StableIsHeard' /\ GoneIsFailed'
      BY <1>1, <1>3, <2>2, <2>6, <3>1, <3>2 DEF StableIsHeard, GoneIsFailed
    <3>5. LiveIsUp' /\ Outrun'
      BY <1>1, <1>3, <2>2, <3>1, <3>2 DEF LiveIsUp, Outrun, Live
    <3>6. OneTries' /\ TwoTries' /\ RelayIsTold'
      BY <1>1, <1>3, <2>2, <2>3, <3>1, <3>2
         DEF OneTries, TwoTries, RelayIsTold
    <3> QED BY <3>3, <3>4, <3>5, <3>6 DEF Reaching
  <2>8. CASE p = 2
    <3>1. One' = One /\ Two' = r /\ Two = peer[p]
      BY <1>5, <2>8 DEF One, Two, Fab!Other
    <3>2. One.reinit /\ One.signal = "offered" /\ inbox[2] # <<>>
      BY <1>1, <2>2, <2>6, <3>1 DEF Outrun, Live
    <3>3. InboxesInOrder' /\ LastOffer'
      BY <1>1, <1>3, <2>2, <3>1 DEF InboxesInOrder, LastOffer
    <3>4. StableIsHeard' /\ GoneIsFailed'
      BY <1>1, <1>3, <2>2, <2>6, <3>1 DEF StableIsHeard, GoneIsFailed, Live
    <3>5. LiveIsUp' /\ Outrun'
      BY <1>1, <1>3, <2>2, <3>1 DEF LiveIsUp, Outrun, Live
    <3>6. OneTries' /\ TwoTries' /\ RelayIsTold'
      BY <1>1, <1>3, <2>2, <3>1, <3>2
         DEF OneTries, TwoTries, RelayIsTold, Live
    <3> QED BY <3>3, <3>4, <3>5, <3>6 DEF Reaching
  <2> QED BY <2>7, <2>8 DEF Fab!Peer
<1> QED BY <1>6, <1>7 DEF FabIInv

LEMMA StaleCloseKeeps ==
  ASSUME FabIInv, NEW p \in Fab!Peer, Fab!StaleClose(p) PROVE FabIInv'
<1> PICK b \in BOOLEAN : b = ~peer[p].left
  OBVIOUS
<1> PICK r : r = [peer[p] EXCEPT !.state = "disconnected", !.reinit = b,
                                 !.stale = FALSE]
  OBVIOUS
<1>1. /\ peer[p].stale
      /\ hurried' = (hurried \/ peer[p].state # "disconnected")
      /\ UNCHANGED <<inbox, link, mail, offers, lost, dropped>>
  BY DEF Fab!StaleClose, Fab!Transport
<1>2. FabTypes /\ peer[p] \in Fab!PeerState
  BY DEF FabIInv, FabTypes
<1>3. /\ r \in Fab!PeerState /\ r.up = peer[p].up
      /\ r.state = "disconnected"
      /\ r.in = peer[p].in /\ r.known = peer[p].known /\ r.n = peer[p].n
      /\ r.signal = peer[p].signal /\ r.reinit = b /\ ~r.stale
      /\ r.left = peer[p].left /\ r.polling = peer[p].polling
      /\ r.posting = peer[p].posting
  BY <1>2 DEF Fab!PeerState
<1>4. Fab!Set(p, r)
  <2> PICK c : c = Fab!Closed(peer[p])
    OBVIOUS
  <2>1. c = [peer[p] EXCEPT !.state = "disconnected", !.reinit = b]
    BY DEF Fab!Closed
  <2>2. r = [c EXCEPT !.stale = FALSE]
    BY <1>2, <2>1 DEF Fab!PeerState
  <2> QED BY <2>2 DEF Fab!StaleClose
<1>5. /\ peer'[p] = r /\ peer'[Fab!Other(p)] = peer[Fab!Other(p)]
      /\ peer' \in [Fab!Peer -> Fab!PeerState]
  BY <1>2, <1>3, <1>4, Sets
<1>6. FabTypes'
  BY <1>1, <1>2, <1>5 DEF FabTypes
<1>7. ASSUME Untroubled' PROVE Reaching'
  <2>1. Untroubled /\ Reaching /\ peer[p].state = "disconnected"
    <3>1. ~hurried'
      BY <1>7 DEF Untroubled
    <3>2. ~hurried /\ peer[p].state = "disconnected"
      BY <1>1, <3>1
    <3>3. Untroubled
      BY <1>1, <1>2, <1>3, <1>5, <1>7, <3>2, StaysUntroubled
    <3> QED BY <3>2, <3>3 DEF FabIInv
  <2>2. /\ InboxesInOrder /\ LastOffer /\ LiveIsUp /\ StableIsHeard
        /\ GoneIsFailed /\ Outrun /\ OneTries /\ TwoTries /\ RelayIsTold
    BY <2>1 DEF Reaching
  <2>3. CASE p = 1
    <3>1. One' = r /\ Two' = Two /\ One = peer[p]
      BY <1>5, <2>3 DEF One, Two, Fab!Other
    <3>2. One.known /\ b = TRUE
      BY <1>1, <2>2, <3>1 DEF LastOffer
    <3>3. /\ One'.n = One.n /\ One'.signal = One.signal /\ One'.up = One.up
          /\ One'.known = One.known /\ One'.reinit
          /\ One'.left = One.left /\ One'.posting = One.posting
          /\ One'.state = One.state /\ One'.polling = One.polling
      BY <1>3, <2>1, <3>1, <3>2
    <3>4. InboxesInOrder' /\ LastOffer' /\ StableIsHeard' /\ GoneIsFailed'
      BY <1>1, <2>2, <3>1, <3>2, <3>3
         DEF InboxesInOrder, LastOffer, StableIsHeard, GoneIsFailed
    <3>5. LiveIsUp' /\ Outrun'
      BY <1>1, <2>2, <3>1, <3>3 DEF LiveIsUp, Outrun
    <3>6. OneTries' /\ TwoTries' /\ RelayIsTold'
      BY <1>1, <2>2, <3>1, <3>3 DEF OneTries, TwoTries, RelayIsTold
    <3> QED BY <3>4, <3>5, <3>6 DEF Reaching
  <2>4. CASE p = 2
    <3>1. One' = One /\ Two' = r /\ Two = peer[p]
      BY <1>5, <2>4 DEF One, Two, Fab!Other
    <3>2. /\ Two'.n = Two.n /\ Two'.signal = Two.signal /\ Two'.up = Two.up
          /\ Two'.left = Two.left /\ Two'.posting = Two.posting
          /\ Two'.state = Two.state /\ Two'.polling = Two.polling
      BY <1>3, <2>1, <3>1
    <3>3. InboxesInOrder' /\ LastOffer' /\ StableIsHeard' /\ GoneIsFailed'
      BY <1>1, <2>2, <3>1, <3>2
         DEF InboxesInOrder, LastOffer, StableIsHeard, GoneIsFailed
    <3>4. LiveIsUp' /\ Outrun'
      BY <1>1, <2>2, <3>1, <3>2 DEF LiveIsUp, Outrun
    <3>5. OneTries' /\ TwoTries' /\ RelayIsTold'
      BY <1>1, <2>2, <3>1, <3>2 DEF OneTries, TwoTries, RelayIsTold
    <3> QED BY <3>3, <3>4, <3>5 DEF Reaching
  <2> QED BY <2>3, <2>4 DEF Fab!Peer
<1> QED BY <1>6, <1>7 DEF FabIInv

(* What is found in the mailbox shows that the other has fallen back.      *)
LEMMA RelayPollKeeps ==
  ASSUME FabIInv, NEW p \in Fab!Peer, Fab!RelayPoll(p) PROVE FabIInv'
<1>1. /\ Fab!Polls(p)
      /\ UNCHANGED <<inbox, link, offers, lost, hurried, dropped>>
  BY DEF Fab!RelayPoll
<1>2. FabTypes /\ peer[p] \in Fab!PeerState
  BY DEF FabIInv, FabTypes
<1>3. CASE peer[p].state = "relay"
  <2>1. mail' = [mail EXCEPT ![p] = FALSE] /\ peer' = peer
    BY <1>3 DEF Fab!RelayPoll
  <2>2. FabTypes'
    BY <1>1, <1>2, <2>1 DEF FabTypes
  <2>3. /\ One' = One /\ Two' = Two
        /\ p = 1 => mail'[2] = mail[2]
        /\ p = 2 => Two.state = "relay"
    <3>1. p = 1 => mail'[2] = mail[2]
      <4>1. mail \in [{1, 2} -> BOOLEAN]
        BY <1>2 DEF FabTypes, Fab!Peer
      <4> QED BY <2>1, <4>1
    <3>2. One' = One /\ Two' = Two /\ (p = 2 => Two = peer[p])
      BY <2>1 DEF One, Two
    <3> QED BY <1>3, <3>1, <3>2
  <2>4. ASSUME Untroubled' PROVE Reaching'
    <3>1. Reaching
      BY <1>1, <2>3, <2>4 DEF FabIInv, Untroubled
    <3>2. InboxesInOrder' /\ LastOffer' /\ StableIsHeard' /\ GoneIsFailed'
      BY <1>1, <2>3, <3>1
         DEF Reaching, InboxesInOrder, LastOffer, StableIsHeard, GoneIsFailed
    <3>3. LiveIsUp' /\ Outrun' /\ OneTries' /\ TwoTries'
      BY <1>1, <2>3, <3>1 DEF Reaching, LiveIsUp, Outrun, OneTries, TwoTries
    <3>4. RelayIsTold'
      BY <2>3, <3>1 DEF Reaching, RelayIsTold, Fab!Peer
    <3> QED BY <3>2, <3>3, <3>4 DEF Reaching
  <2> QED BY <2>2, <2>4 DEF FabIInv
<1>4. CASE peer[p].state # "relay"
  <2> PICK r : r = [peer[p] EXCEPT !.relayTimer = FALSE, !.state = "relay",
                                   !.polling = TRUE]
    OBVIOUS
  <2>1. /\ Fab!Set(p, r)
        /\ mail' = [mail EXCEPT ![p] = FALSE, ![Fab!Other(p)] = TRUE]
    <3> PICK q : q = [peer[p] EXCEPT !.relayTimer = FALSE]
      OBVIOUS
    <3>1. r = [q EXCEPT !.state = "relay", !.polling = TRUE]
      BY <1>2 DEF Fab!PeerState
    <3> QED BY <1>4, <3>1 DEF Fab!RelayPoll, Fab!InRelay
  <2>2. /\ r \in Fab!PeerState /\ r.up = peer[p].up /\ r.state = "relay"
        /\ r.in = peer[p].in /\ r.known = peer[p].known /\ r.n = peer[p].n
        /\ r.signal = peer[p].signal /\ r.reinit = peer[p].reinit
        /\ r.left = peer[p].left /\ r.polling = TRUE
        /\ r.posting = peer[p].posting /\ r.stale = peer[p].stale
    BY <1>2 DEF Fab!PeerState
  <2>3. /\ peer'[p] = r /\ peer'[Fab!Other(p)] = peer[Fab!Other(p)]
        /\ peer' \in [Fab!Peer -> Fab!PeerState]
    BY <1>2, <2>1, <2>2, Sets
  <2>4. FabTypes'
    BY <1>1, <1>2, <2>1, <2>3 DEF FabTypes
  <2>5. peer[p].state = "connecting"
    BY <1>1, <1>4 DEF Fab!Polls
  <2>6. ASSUME Untroubled' PROVE Reaching'
    <3>1. Untroubled
      BY <1>1, <1>2, <2>2, <2>3, <2>6, StaysUntroubled
    <3>2. /\ InboxesInOrder /\ LastOffer /\ LiveIsUp /\ StableIsHeard
          /\ GoneIsFailed /\ Outrun /\ OneTries /\ TwoTries /\ RelayIsTold
      BY <3>1 DEF FabIInv, Reaching
    <3>3. CASE p = 1
      <4>1. One' = r /\ Two' = Two /\ One = peer[p] /\ mail'[2] = TRUE
        BY <1>2, <2>1, <2>3, <3>3 DEF One, Two, Fab!Other, FabTypes, Fab!Peer
      <4>2. InboxesInOrder' /\ LastOffer' /\ StableIsHeard' /\ GoneIsFailed'
        BY <1>1, <2>2, <3>2, <4>1
           DEF InboxesInOrder, LastOffer, StableIsHeard, GoneIsFailed
      <4>3. LiveIsUp' /\ Outrun'
        BY <1>1, <2>2, <2>5, <3>2, <4>1 DEF LiveIsUp, Outrun
      <4>4. OneTries' /\ TwoTries' /\ RelayIsTold'
        BY <1>1, <2>2, <3>2, <4>1 DEF OneTries, TwoTries, RelayIsTold
      <4> QED BY <4>2, <4>3, <4>4 DEF Reaching
    <3>4. CASE p = 2
      <4>1. One' = One /\ Two' = r /\ Two = peer[p]
        BY <2>3, <3>4 DEF One, Two, Fab!Other
      <4>2. InboxesInOrder' /\ LastOffer' /\ StableIsHeard' /\ GoneIsFailed'
        BY <1>1, <2>2, <3>2, <4>1
           DEF InboxesInOrder, LastOffer, StableIsHeard, GoneIsFailed
      <4>3. LiveIsUp' /\ Outrun'
        BY <1>1, <2>2, <2>5, <3>2, <4>1 DEF LiveIsUp, Outrun
      <4>4. OneTries' /\ TwoTries' /\ RelayIsTold'
        BY <1>1, <2>2, <3>2, <4>1 DEF OneTries, TwoTries, RelayIsTold
      <4> QED BY <4>2, <4>3, <4>4 DEF Reaching
    <3> QED BY <3>3, <3>4 DEF Fab!Peer
  <2> QED BY <2>4, <2>6 DEF FabIInv
<1> QED BY <1>3, <1>4

LEMMA PollingStopsKeeps ==
  ASSUME FabIInv, NEW p \in Fab!Peer, Fab!PollingStops(p) PROVE FabIInv'
<1> PICK r : r = [peer[p] EXCEPT !.polling = FALSE]
  OBVIOUS
<1>1. /\ peer[p].polling /\ ~Fab!Polls(p) /\ Fab!Set(p, r)
      /\ hurried' = (hurried \/ peer[p].posting)
      /\ UNCHANGED <<inbox, link, mail, offers, lost, dropped>>
  BY DEF Fab!PollingStops, Fab!Transport
<1>2. FabTypes /\ peer[p] \in Fab!PeerState
  BY DEF FabIInv, FabTypes
<1>3. /\ r \in Fab!PeerState /\ r.up = peer[p].up /\ r.state = peer[p].state
      /\ r.in = peer[p].in /\ r.known = peer[p].known /\ r.n = peer[p].n
      /\ r.signal = peer[p].signal /\ r.reinit = peer[p].reinit
      /\ r.left = peer[p].left /\ r.relayTimer = peer[p].relayTimer
      /\ r.posting = peer[p].posting /\ r.stale = peer[p].stale
  BY <1>2 DEF Fab!PeerState
<1>4. /\ peer'[p] = r /\ peer'[Fab!Other(p)] = peer[Fab!Other(p)]
      /\ peer' \in [Fab!Peer -> Fab!PeerState]
  BY <1>1, <1>2, <1>3, Sets
<1>5. FabTypes'
  <2>1. peer[p].posting \in BOOLEAN
    BY <1>2 DEF Fab!PeerState
  <2> QED BY <1>1, <1>2, <1>4, <2>1 DEF FabTypes
<1>6. ASSUME Untroubled' PROVE Reaching'
  <2>1. Untroubled /\ Reaching /\ ~peer[p].posting
    <3>1. ~hurried'
      BY <1>6 DEF Untroubled
    <3>2. ~hurried /\ ~peer[p].posting
      BY <1>1, <3>1
    <3>3. Untroubled
      BY <1>1, <1>2, <1>3, <1>4, <1>6, <3>2, StaysUntroubled
    <3> QED BY <3>2, <3>3 DEF FabIInv
  <2>2. /\ InboxesInOrder /\ LastOffer /\ LiveIsUp /\ StableIsHeard
        /\ GoneIsFailed /\ Outrun /\ OneTries /\ TwoTries /\ RelayIsTold
    BY <2>1 DEF Reaching
  <2>3. peer[p].state # "connecting"
    BY <1>1 DEF Fab!Polls
  <2>4. CASE p = 1
    <3>1. One' = r /\ Two' = Two /\ One = peer[p]
      BY <1>4, <2>4 DEF One, Two, Fab!Other
    <3>2. InboxesInOrder' /\ LastOffer' /\ StableIsHeard' /\ GoneIsFailed'
      BY <1>1, <1>3, <2>2, <3>1
         DEF InboxesInOrder, LastOffer, StableIsHeard, GoneIsFailed
    <3>3. LiveIsUp' /\ Outrun'
      BY <1>1, <1>3, <2>1, <2>2, <2>3, <3>1 DEF LiveIsUp, Outrun
    <3>4. OneTries' /\ TwoTries' /\ RelayIsTold'
      BY <1>1, <1>3, <2>2, <3>1 DEF OneTries, TwoTries, RelayIsTold
    <3> QED BY <3>2, <3>3, <3>4 DEF Reaching
  <2>5. CASE p = 2
    <3>1. One' = One /\ Two' = r /\ Two = peer[p]
      BY <1>4, <2>5 DEF One, Two, Fab!Other
    <3>2. InboxesInOrder' /\ LastOffer' /\ StableIsHeard' /\ GoneIsFailed'
      BY <1>1, <1>3, <2>2, <3>1
         DEF InboxesInOrder, LastOffer, StableIsHeard, GoneIsFailed
    <3>3. LiveIsUp' /\ Outrun'
      BY <1>1, <1>3, <2>1, <2>2, <2>3, <3>1 DEF LiveIsUp, Outrun
    <3>4. OneTries' /\ TwoTries' /\ RelayIsTold'
      BY <1>1, <1>3, <2>2, <3>1 DEF OneTries, TwoTries, RelayIsTold
    <3> QED BY <3>2, <3>3, <3>4 DEF Reaching
  <2> QED BY <2>4, <2>5 DEF Fab!Peer
<1> QED BY <1>5, <1>6 DEF FabIInv

FabInv == part = "fabric" => FabIInv

LEMMA FabGoesOn == ASSUME FabInv, [Next]_vars PROVE FabInv'
<1> SUFFICES ASSUME part = "fabric", FabIInv, [Fab!Next]_fabricVars
             PROVE  FabIInv'
  BY PartSteps DEF FabInv
<1>1. CASE UNCHANGED fabricVars
  <2>1. UNCHANGED <<peer, inbox, link, mail, offers, lost, hurried, dropped>>
    BY <1>1 DEF fabricVars
  <2>2. One' = One /\ Two' = Two
    BY <2>1 DEF One, Two
  <2>3. FabTypes' = FabTypes /\ Untroubled' = Untroubled
    BY <2>1, <2>2 DEF FabTypes, Untroubled
  <2>4. /\ InboxesInOrder' = InboxesInOrder /\ LastOffer' = LastOffer
        /\ LiveIsUp' = LiveIsUp
    BY <2>1, <2>2 DEF InboxesInOrder, LastOffer, LiveIsUp
  <2>5. /\ StableIsHeard' = StableIsHeard /\ GoneIsFailed' = GoneIsFailed
        /\ Outrun' = Outrun /\ OneTries' = OneTries /\ TwoTries' = TwoTries
        /\ RelayIsTold' = RelayIsTold
    BY <2>1, <2>2 DEF StableIsHeard, GoneIsFailed, Outrun, OneTries, TwoTries,
                      RelayIsTold
  <2> QED BY <2>3, <2>4, <2>5 DEF FabIInv, Reaching
<1>2. CASE \E p \in Fab!Peer :
             \/ Fab!Join(p) \/ Fab!Leave(p) \/ Fab!Left(p) \/ Fab!Offer(p)
             \/ Fab!Answer(p) \/ Fab!Posted(p) \/ Fab!SignalingOpen(p)
             \/ Fab!PcConnected(p) \/ Fab!DcOpen(p) \/ Fab!PcFailed(p)
             \/ Fab!DcClose(p) \/ Fab!StaleClose(p) \/ Fab!RelayTimer(p)
             \/ Fab!Reinitiate(p) \/ Fab!RelayPoll(p) \/ Fab!PollingStops(p)
  BY <1>2, FabJoinKeeps, LeaveKeeps, LeftKeeps, OfferKeeps, FabAnswerKeeps,
     PostedKeeps, SignalingOpenKeeps, PcConnectedKeeps, DcOpenKeeps,
     PcFailedKeeps, DcCloseKeeps, StaleCloseKeeps, RelayTimerKeeps,
     ReinitiateKeeps, RelayPollKeeps, PollingStopsKeeps
<1>3. CASE \E n \in 1..MaxOffers : Fab!LinkUp(n) \/ Fab!LinkBreaks(n)
  BY <1>3, LinkUpKeeps, LinkBreaksKeeps
<1> QED BY <1>1, <1>2, <1>3 DEF Fab!Next

(* fabric.js, rendezvousSignaling.js: however many offers are made, links  *)
(* break and frames are late, two peers that are left alone are both over  *)
(* a channel or both in the relay, but for the losses, the races and the   *)
(* closed channels that the history variables name.                        *)
THEOREM BothReachTheSameWay == Spec => []FabricReachTheSameWay
<1>1. Init => FabInv
  BY FabStarts DEF Init, FabInv
<1>2. FabInv => FabricReachTheSameWay
  BY ReachingIsTheSame DEF FabInv, FabricReachTheSameWay
<1>3. FabInv /\ [Next]_vars => FabInv'
  BY FabGoesOn
<1> QED BY <1>1, <1>2, <1>3, PTL DEF Spec

-----------------------------------------------------------------------------
(* A set of numbers that has members has a least one.                      *)
LEMMA LeastOf ==
  ASSUME NEW T, T \subseteq Nat, T # {}
  PROVE  \E n \in T : \A m \in T : n <= m
<1>1. PICK k : k \in T
  OBVIOUS
<1>2. k \in Nat
  BY <1>1
<1> PICK S : S = 0..k
  OBVIOUS
<1> PICK sets : sets = {0..n : n \in {m \in T : m <= k}}
  OBVIOUS
<1>3. sets \subseteq SUBSET S /\ sets # {}
  BY <1>1, <1>2
<1>4. IsFiniteSet(S)
  BY <1>2, FS_Interval
<1>5. IsWellFoundedOn(StrictSubsetOrdering(S), SUBSET S)
  BY <1>4, FS_StrictSubsetOrderingWellFounded, FS_FiniteSubsetsOfFinite
<1>6. PICK A \in sets : \A B \in sets : ~ (<<B, A>> \in StrictSubsetOrdering(S))
  BY <1>3, <1>5, WFMin
<1>7. \A B \in sets : B \subseteq A => B = A
  BY <1>3, <1>6 DEF StrictSubsetOrdering
<1>8. PICK n \in T : n <= k /\ A = 0..n
  OBVIOUS
<1>9. ASSUME NEW m \in T, m < n PROVE FALSE
  <2>1. m \in Nat /\ n \in Nat /\ m <= k
    BY <1>2, <1>8, <1>9
  <2>2. 0..m \in sets /\ 0..m \subseteq A
    BY <1>8, <1>9, <2>1
  <2>3. 0..m = 0..n
    BY <1>7, <1>8, <2>2
  <2>4. n \in 0..m
    BY <2>1, <2>3
  <2> QED
    BY <1>9, <2>1, <2>4
<1> QED
  BY <1>8, <1>9

(* PeerSession.  Of the edits of a writer p, that a peer q lacks: while q  *)
(* has a channel on which what it says gets to p, q is asking p, or the    *)
(* two have the same channel and the edit is on its way to q.  A request   *)
(* names nothing that who asks does not have.                              *)
Vector == [Member -> 0..MaxEdits]
Content == (SUBSET Peers!Edit) \union Vector
SealedFrame ==
  [type : {"yu", "ask", "sync"}, from : Member, to : SUBSET Member,
   what : Content, authoritative : BOOLEAN]
WireFrame ==
  [type : {"yu", "ask", "sync"}, from : Member, to : SUBSET Member,
   what : Content, authoritative : BOOLEAN, n : Nat]

LEMMA FrameOf ==
  ASSUME NEW type \in {"yu", "ask", "sync"}, NEW p \in Member,
         NEW to \in SUBSET Member, NEW what \in Content, NEW b \in BOOLEAN,
         NEW f, f = [type |-> type, from |-> p, to |-> to, what |-> what,
                     authoritative |-> b]
  PROVE  /\ f \in SealedFrame
         /\ f.type = type /\ f.from = p /\ f.to = to /\ f.what = what
         /\ f.authoritative = b
BY DEF SealedFrame

PeerTypes ==
  /\ cap \in [Member -> {"rw", "ro"}] /\ joined \in [Member -> BOOLEAN]
  /\ made \in [Member -> 0..MaxEdits] /\ held \in [Member -> SUBSET Peers!Edit]
  /\ channel \in [Member -> [Member -> [n : Nat, open : BOOLEAN]]]
  /\ sealing \subseteq SealedFrame /\ wire \subseteq WireFrame

ChannelsJoin ==
  \A p, q \in Member :
    channel[p][q].open => p # q /\ joined[p] /\ joined[q]

(* What a frame says: an edit is with its author, a writer's frame carries *)
(* edits of writers, and what a request counts is with who asks.           *)
Sound(f) ==
  /\ f.authoritative <=> f.type # "ask" /\ f.from \in Peers!Writer
  /\ f.type = "ask" =>
       /\ f.what \in Vector
       /\ \A e \in Peers!Edit : e[2] <= f.what[e[1]] => e \in held[f.from]
  /\ f.type # "ask" =>
       /\ f.what \subseteq Peers!Edit
       /\ \A e \in f.what : e \in held[e[1]]
       /\ f.authoritative => \A e \in f.what : e[1] \in Peers!Writer
FramesSound ==
  /\ \A f \in sealing : Sound(f)
  /\ \A f \in wire : Sound(f)

HeldIsMade == \A p \in Member : \A e \in held[p] : e \in held[e[1]]

Asking(p, q) ==
  \/ \E f \in sealing : f.type = "ask" /\ f.from = q /\ f.to = {p}
  \/ \E f \in wire : /\ f.type = "ask" /\ f.from = q /\ f.to = {p}
                     /\ f.n = channel[q][p].n
OnItsWay(p, q, e) ==
  \/ \E f \in sealing : f.type # "ask" /\ f.from = p /\ q \in f.to
                        /\ e \in f.what
  \/ \E f \in wire : /\ f.type # "ask" /\ f.from = p /\ f.to = {q}
                     /\ f.n = channel[q][p].n /\ e \in f.what
GetsAcross(p, q) ==
  {p, q} \notin unsent /\ Peers!Arrives(q, p) =>
    \/ Asking(p, q)
    \/ /\ channel[p][q] = channel[q][p]
       /\ \A e \in held[p] : e[1] = p => e \in held[q] \/ OnItsWay(p, q, e)
WritersGetAcross == \A p \in Peers!Writer, q \in Member : GetsAcross(p, q)

PeerIInv ==
  /\ PeerTypes /\ ChannelsJoin /\ FramesSound /\ HeldIsMade
  /\ Peers!ReadersChangeNothing /\ WritersGetAcross

(* What a state vector counts: of each author all edits up to a number,    *)
(* and not the next.                                                       *)
LEMMA VectorCounts ==
  ASSUME PeerTypes, NEW p \in Member
  PROVE  /\ Peers!StateVector(p) \in Vector
         /\ \A e \in Peers!Edit :
              e[2] <= Peers!StateVector(p)[e[1]] => e \in held[p]
<1> DEFINE counts(a, n) == /\ \A i \in 1..n : <<a, i>> \in held[p]
                           /\ <<a, n + 1>> \notin held[p]
<1>1. held[p] \subseteq Member \X (1..MaxEdits) /\ MaxEdits \in Nat
  BY PeersHaveLinks DEF PeerTypes, Peers!Edit
<1>2. ASSUME NEW a \in Member PROVE \E n \in 0..MaxEdits : counts(a, n)
  <2> PICK gaps : gaps = {n \in 0..MaxEdits : <<a, n + 1>> \notin held[p]}
    OBVIOUS
  <2>1. MaxEdits \in gaps
    BY <1>1
  <2>a. gaps \subseteq 0..MaxEdits
    OBVIOUS
  <2>b. 0..MaxEdits \subseteq Nat
    OBVIOUS
  <2>0. gaps \subseteq Nat /\ gaps # {}
    BY <2>1, <2>a, <2>b
  <2>2. PICK n \in gaps : \A m \in gaps : n <= m
    BY <2>0, LeastOf
  <2>3. ASSUME NEW i \in 1..n, <<a, i>> \notin held[p] PROVE FALSE
    <3>1. i - 1 \in 0..MaxEdits /\ (i - 1) + 1 = i /\ i - 1 < n
      BY <1>1
    <3>2. i - 1 \in gaps
      BY <2>3, <3>1
    <3> QED BY <1>1, <2>2, <3>1, <3>2
  <2>4. n \in 0..MaxEdits /\ counts(a, n)
    BY <2>3
  <2> QED BY <2>4
<1>3. ASSUME NEW a \in Member
      PROVE  /\ Peers!StateVector(p)[a] \in 0..MaxEdits
             /\ counts(a, Peers!StateVector(p)[a])
  <2>1. Peers!StateVector(p)[a] = CHOOSE n \in 0..MaxEdits : counts(a, n)
    BY DEF Peers!StateVector
  <2> HIDE DEF counts
  <2> QED BY <1>2, <2>1
<1>4. Peers!StateVector(p) \in Vector
  BY <1>3 DEF Peers!StateVector, Vector
<1>5. ASSUME NEW e \in Peers!Edit, e[2] <= Peers!StateVector(p)[e[1]]
      PROVE  e \in held[p]
  <2>1. /\ e[1] \in Member /\ e[2] \in 1..MaxEdits /\ e = <<e[1], e[2]>>
    BY DEF Peers!Edit
  <2>2. e[2] \in 1..Peers!StateVector(p)[e[1]]
    BY <1>1, <1>3, <1>5, <2>1
  <2> QED BY <1>3, <2>1, <2>2
<1> QED BY <1>4, <1>5

LEMMA PeersStart == ASSUME Peers!Init PROVE PeerIInv
<1>1. PeerTypes
  BY PeersHaveLinks DEF Peers!Init, PeerTypes, Peers!None
<1>2. /\ \A p, q \in Member : ~channel[p][q].open
      /\ sealing = {} /\ wire = {} /\ \A p \in Member : held[p] = {}
  BY DEF Peers!Init, Peers!None
<1> QED
  BY <1>1, <1>2 DEF PeerIInv, ChannelsJoin, FramesSound, HeldIsMade,
     Peers!ReadersChangeNothing, Peers!Writer, WritersGetAcross, GetsAcross,
     Peers!Arrives

(* What is held only grows, so that what was said of frames stays true.    *)
LEMMA StaysSound ==
  ASSUME PeerTypes, UNCHANGED cap, NEW f, Sound(f),
         \A p \in Member : held[p] \subseteq held'[p],
         f \in SealedFrame \/ f \in WireFrame
  PROVE  Sound(f)'
<1>1. f.from \in Member
  BY DEF SealedFrame, WireFrame
<1>2. Peers!Writer' = Peers!Writer
  BY DEF Peers!Writer
<1>3. ASSUME f.type # "ask", NEW e \in f.what PROVE e \in held'[e[1]]
  <2>1. e \in Peers!Edit /\ e \in held[e[1]]
    BY <1>3 DEF Sound
  <2>2. e[1] \in Member
    BY <2>1 DEF Peers!Edit
  <2> QED BY <2>1, <2>2
<1> QED BY <1>1, <1>2, <1>3 DEF Sound

(* A peer that has made an edit, and what it gives away of it.             *)
LEMMA MakeEditKeeps ==
  ASSUME PeerIInv, NEW p \in Member, Peers!MakeEdit(p) PROVE PeerIInv'
<1> PICK e : e = <<p, made[p] + 1>>
  OBVIOUS
<1> PICK f : f = Peers!Frame("yu", p, Member \ {p}, {e})
  OBVIOUS
<1>1. /\ PeerTypes /\ ChannelsJoin /\ FramesSound /\ HeldIsMade
      /\ Peers!ReadersChangeNothing /\ WritersGetAcross
  BY DEF PeerIInv
<1>2. /\ made[p] < MaxEdits /\ (joined[p] => p \in Peers!Writer)
      /\ held' = [held EXCEPT ![p] = @ \union {e}]
      /\ sealing' = IF joined[p] THEN sealing \union {f} ELSE sealing
      /\ made' = [made EXCEPT ![p] = @ + 1]
      /\ UNCHANGED <<cap, joined, channel, wire, unsent>>
  BY DEF Peers!MakeEdit
<1>3. /\ made[p] + 1 \in 1..MaxEdits /\ e \in Peers!Edit
      /\ e[1] = p /\ e[2] = made[p] + 1
  BY <1>1, <1>2, PeersHaveLinks DEF PeerTypes, Peers!Edit
<1>4. /\ f.type = "yu" /\ f.from = p /\ f.to = Member \ {p} /\ f.what = {e}
      /\ f.authoritative <=> p \in Peers!Writer
      /\ f \in SealedFrame
  <2>1. PICK b \in BOOLEAN : b <=> p \in Peers!Writer
    OBVIOUS
  <2>2. f = [type |-> "yu", from |-> p, to |-> Member \ {p}, what |-> {e},
             authoritative |-> b]
    BY <2>1 DEF Peers!Frame
  <2>3. {e} \in Content /\ Member \ {p} \in SUBSET Member
    BY <1>3 DEF Content
  <2>4. "yu" \in {"yu", "ask", "sync"}
    OBVIOUS
  <2>5. /\ f \in SealedFrame /\ f.authoritative = b
        /\ f.type = "yu" /\ f.from = p /\ f.to = Member \ {p} /\ f.what = {e}
    BY <2>2, <2>3, <2>4, FrameOf
  <2> QED BY <2>1, <2>5
<1>5. /\ \A q \in Member : held[q] \subseteq held'[q]
      /\ \A q \in Member : held'[q] \subseteq held[q] \union {e}
      /\ \A q \in Member \ {p} : held'[q] = held[q]
      /\ e \in held'[p]
  BY <1>1, <1>2 DEF PeerTypes
<1>6. PeerTypes'
  <2>1. held' \in [Member -> SUBSET Peers!Edit]
    BY <1>1, <1>2, <1>3 DEF PeerTypes
  <2>2. made' \in [Member -> 0..MaxEdits]
    BY <1>1, <1>2, <1>3 DEF PeerTypes
  <2> QED BY <1>1, <1>2, <1>4, <2>1, <2>2 DEF PeerTypes
<1>7. FramesSound'
  <2>0. Peers!Writer' = Peers!Writer
    BY <1>2 DEF Peers!Writer
  <2>1. Sound(f)'
    <3>1. f.type # "ask" /\ f.what \subseteq Peers!Edit
      BY <1>3, <1>4
    <3>2. ASSUME NEW d \in f.what PROVE d \in held'[d[1]]
      <4>1. d = e /\ e[1] = p
        BY <1>3, <1>4
      <4> QED BY <1>5, <4>1
    <3>3. f.authoritative => \A d \in f.what : d[1] \in Peers!Writer
      BY <1>3, <1>4
    <3>4. f.authoritative <=> f.type # "ask" /\ f.from \in Peers!Writer
      BY <1>4
    <3> QED BY <2>0, <3>1, <3>2, <3>3, <3>4 DEF Sound
  <2>2. \A g \in sealing \union wire : Sound(g)'
    BY <1>1, <1>2, <1>5, StaysSound DEF FramesSound, PeerTypes
  <2> QED BY <1>2, <2>1, <2>2 DEF FramesSound
<1>8. HeldIsMade'
  <2> SUFFICES ASSUME NEW q \in Member, NEW d \in held'[q]
               PROVE  d \in held'[d[1]]
    BY DEF HeldIsMade
  <2>1. CASE d = e
    BY <1>3, <1>5, <2>1
  <2>2. CASE d # e
    <3>1. d \in held[q] /\ d \in Peers!Edit /\ d \in held[d[1]]
      BY <1>1, <1>5, <2>2 DEF PeerTypes, HeldIsMade
    <3>2. d[1] \in Member
      BY <3>1 DEF Peers!Edit
    <3> QED BY <1>5, <3>1, <3>2
  <2> QED BY <2>1, <2>2
<1>9. Peers!ReadersChangeNothing'
  BY <1>1, <1>2, <1>3, <1>5 DEF Peers!ReadersChangeNothing, Peers!Writer
<1>10. ASSUME NEW a \in Peers!Writer, NEW q \in Member PROVE GetsAcross(a, q)'
  <2> SUFFICES ASSUME {a, q} \notin unsent, Peers!Arrives(q, a)
               PROVE  \/ Asking(a, q)'
                      \/ /\ channel[a][q] = channel[q][a]
                         /\ \A d \in held'[a] : d[1] = a =>
                              d \in held'[q] \/ OnItsWay(a, q, d)'
    BY <1>2 DEF GetsAcross, Peers!Arrives
  <2>1. a \in Member /\ a # q /\ joined[a]
    BY <1>1 DEF Peers!Writer, Peers!Arrives, ChannelsJoin
  <2>2. CASE Asking(a, q)
    BY <1>2, <2>2 DEF Asking
  <2>3. CASE ~Asking(a, q)
    <3>1. /\ channel[a][q] = channel[q][a]
          /\ \A d \in held[a] : d[1] = a => d \in held[q] \/ OnItsWay(a, q, d)
      BY <1>1, <2>3 DEF WritersGetAcross, GetsAcross
    <3>2. ASSUME NEW d, OnItsWay(a, q, d) PROVE OnItsWay(a, q, d)'
      BY <1>2, <3>2 DEF OnItsWay
    <3>3. p = a => OnItsWay(a, q, e)'
      BY <1>2, <1>4, <2>1 DEF OnItsWay
    <3>4. ASSUME NEW d \in held'[a], d[1] = a
          PROVE  d \in held'[q] \/ OnItsWay(a, q, d)'
      <4>1. CASE d \in held[a]
        BY <1>5, <3>1, <3>2, <3>4, <4>1
      <4>2. CASE d \notin held[a]
        BY <1>5, <2>1, <3>3, <4>2
      <4> QED BY <4>1, <4>2
    <3> QED BY <3>1, <3>4
  <2> QED BY <2>2, <2>3
<1>11. WritersGetAcross' /\ ChannelsJoin'
  BY <1>1, <1>2, <1>10 DEF WritersGetAcross, Peers!Writer, ChannelsJoin
<1> QED BY <1>6, <1>7, <1>8, <1>9, <1>11 DEF PeerIInv

(* Nothing gets across or is cut off where nothing moves.                  *)
LEMMA StaysAcross ==
  ASSUME WritersGetAcross,
         UNCHANGED <<cap, held, channel, sealing, wire, unsent>>
  PROVE  WritersGetAcross'
<1> SUFFICES ASSUME NEW a \in Peers!Writer, NEW b \in Member
             PROVE  GetsAcross(a, b)'
  BY DEF WritersGetAcross, Peers!Writer
<1>1. Asking(a, b)' <=> Asking(a, b)
  BY DEF Asking
<1>2. ASSUME NEW d PROVE OnItsWay(a, b, d)' <=> OnItsWay(a, b, d)
  BY DEF OnItsWay
<1>3. Peers!Arrives(b, a)' <=> Peers!Arrives(b, a)
  BY DEF Peers!Arrives
<1> QED BY <1>1, <1>2, <1>3 DEF WritersGetAcross, GetsAcross

LEMMA JoinKeeps ==
  ASSUME PeerIInv, NEW p \in Member, Peers!Join(p) PROVE PeerIInv'
<1>1. /\ PeerTypes /\ ChannelsJoin /\ FramesSound /\ HeldIsMade
      /\ Peers!ReadersChangeNothing /\ WritersGetAcross
  BY DEF PeerIInv
<1>2. /\ joined' = [joined EXCEPT ![p] = TRUE]
      /\ UNCHANGED <<cap, made, held, channel, sealing, wire, unsent>>
  BY DEF Peers!Join
<1>3. /\ joined' \in [Member -> BOOLEAN]
      /\ \A q \in Member : joined[q] => joined'[q]
  BY <1>1, <1>2 DEF PeerTypes
<1>4. PeerTypes' /\ ChannelsJoin'
  BY <1>1, <1>2, <1>3 DEF PeerTypes, ChannelsJoin
<1>5. FramesSound'
  BY <1>1, <1>2 DEF FramesSound, Sound, Peers!Writer
<1>6. WritersGetAcross'
  BY <1>1, <1>2, StaysAcross
<1> QED
  BY <1>1, <1>2, <1>4, <1>5, <1>6 DEF PeerIInv, HeldIsMade,
     Peers!ReadersChangeNothing, Peers!Writer

(* A channel that opens asks; and what was under way on an older one of    *)
(* the other's was not what counts.                                        *)
LEMMA OpenKeeps ==
  ASSUME PeerIInv, NEW p \in Member, NEW q \in Member, Peers!Open(p, q)
  PROVE  PeerIInv'
<1>1. /\ PeerTypes /\ ChannelsJoin /\ FramesSound /\ HeldIsMade
      /\ Peers!ReadersChangeNothing /\ WritersGetAcross
  BY DEF PeerIInv
<1> PICK ask : ask = Peers!Frame("ask", p, {q}, Peers!StateVector(p))
  OBVIOUS
<1>2. PICK n \in {channel[q][p].n, channel[q][p].n + 1} :
        /\ n \in (channel[p][q].n + 1)..MaxLinks
        /\ channel' = [channel EXCEPT ![p][q] = [n |-> n, open |-> TRUE]]
        /\ wire' = wire \ Peers!Under(p, q, n)
  BY DEF Peers!Open
<1>3. /\ joined[p] /\ joined[q] /\ p # q
      /\ sealing' = sealing \union {ask}
      /\ UNCHANGED <<cap, joined, made, held, unsent>>
  BY DEF Peers!Open, Peers!Ask
<1>4. /\ n \in Nat /\ channel[p][q].n \in Nat /\ channel[p][q].n < n
  BY <1>1, <1>2, PeersHaveLinks DEF PeerTypes
<1>5. /\ channel'[p][q] = [n |-> n, open |-> TRUE]
      /\ \A a, b \in Member : <<a, b>> # <<p, q>> =>
           channel'[a][b] = channel[a][b]
      /\ channel' \in [Member -> [Member -> [n : Nat, open : BOOLEAN]]]
  BY <1>1, <1>2, <1>4 DEF PeerTypes
<1>6. /\ ask.type = "ask" /\ ask.from = p /\ ask.to = {q}
      /\ ask.what = Peers!StateVector(p) /\ ~ask.authoritative
      /\ ask \in SealedFrame
  <2>1. PICK b \in BOOLEAN : ~b
    OBVIOUS
  <2>2. ask = [type |-> "ask", from |-> p, to |-> {q},
               what |-> Peers!StateVector(p), authoritative |-> b]
    BY <2>1 DEF Peers!Frame
  <2>3. {q} \in SUBSET Member /\ Peers!StateVector(p) \in Content
    BY <1>1, VectorCounts DEF Content
  <2>4. "ask" \in {"yu", "ask", "sync"}
    OBVIOUS
  <2>5. /\ ask \in SealedFrame /\ ask.authoritative = b
        /\ ask.type = "ask" /\ ask.from = p /\ ask.to = {q}
        /\ ask.what = Peers!StateVector(p)
    BY <2>2, <2>3, <2>4, FrameOf
  <2> QED BY <2>1, <2>5
<1>7. PeerTypes'
  BY <1>1, <1>2, <1>3, <1>5, <1>6 DEF PeerTypes
<1>8. FramesSound'
  <2>1. Sound(ask)'
    BY <1>1, <1>3, <1>6, VectorCounts DEF Sound, Peers!Writer
  <2>2. \A g \in sealing \union wire : Sound(g)'
    BY <1>1, <1>3 DEF FramesSound, Sound, Peers!Writer
  <2> QED BY <1>2, <1>3, <2>1, <2>2 DEF FramesSound
<1>9. ChannelsJoin'
  <2> SUFFICES ASSUME NEW a \in Member, NEW b \in Member, channel'[a][b].open
               PROVE  a # b /\ joined[a] /\ joined[b]
    BY <1>3 DEF ChannelsJoin
  <2>1. CASE a = p /\ b = q
    BY <1>3, <2>1
  <2>2. CASE ~(a = p /\ b = q)
    <3>1. channel'[a][b] = channel[a][b]
      BY <1>5, <2>2
    <3> QED BY <1>1, <3>1 DEF ChannelsJoin
  <2> QED BY <2>1, <2>2
<1>10. ASSUME NEW a \in Peers!Writer, NEW b \in Member PROVE GetsAcross(a, b)'
  <2> SUFFICES ASSUME {a, b} \notin unsent, Peers!Arrives(b, a)'
               PROVE  \/ Asking(a, b)'
                      \/ /\ channel'[a][b] = channel'[b][a]
                         /\ \A d \in held[a] : d[1] = a =>
                              d \in held[b] \/ OnItsWay(a, b, d)'
    BY <1>3 DEF GetsAcross
  <2>0. a \in Member
    BY DEF Peers!Writer
  <2>1. CASE a = q /\ b = p
    <3>1. Asking(a, b)'
      BY <1>3, <1>6, <2>1 DEF Asking
    <3> QED BY <3>1
  <2>2. CASE a = p /\ b = q
    <3>1. /\ channel'[b][a] = channel[b][a] /\ channel'[a][b].n = n
          /\ channel[b][a].n \in Nat
      BY <1>1, <1>3, <1>5, <2>2 DEF PeerTypes
    <3>2. /\ channel[b][a].open /\ n <= channel[b][a].n
      <4>1. /\ channel'[b][a].open
            /\ \/ channel'[a][b].n < channel'[b][a].n
               \/ channel'[a][b] = channel'[b][a]
        BY DEF Peers!Arrives
      <4> QED BY <1>4, <3>1, <4>1
    <3>3. Peers!Arrives(b, a) /\ channel[a][b] # channel[b][a]
      BY <1>4, <2>2, <3>1, <3>2 DEF Peers!Arrives
    <3>4. Asking(a, b)
      BY <1>1, <3>3 DEF WritersGetAcross, GetsAcross
    <3>5. CASE \E f \in sealing : f.type = "ask" /\ f.from = b /\ f.to = {a}
      BY <1>3, <3>5 DEF Asking
    <3>6. CASE \E f \in wire : /\ f.type = "ask" /\ f.from = b /\ f.to = {a}
                               /\ f.n = channel[b][a].n
      <4>1. PICK f \in wire : /\ f.type = "ask" /\ f.from = b /\ f.to = {a}
                              /\ f.n = channel[b][a].n
        BY <3>6
      <4>2. f \notin Peers!Under(p, q, n)
        BY <1>4, <3>1, <3>2, <4>1 DEF Peers!Under
      <4>3. f \in wire' /\ f.n = channel'[b][a].n
        BY <1>2, <3>1, <4>1, <4>2
      <4> QED BY <4>1, <4>3 DEF Asking
    <3> QED BY <3>4, <3>5, <3>6 DEF Asking
  <2>3. CASE {a, b} # {p, q}
    <3>1. channel'[a][b] = channel[a][b] /\ channel'[b][a] = channel[b][a]
      BY <1>5, <2>0, <2>3
    <3>2. ASSUME NEW f \in wire,
                 \/ f.from = b /\ f.to = {a}
                 \/ f.from = a /\ f.to = {b}
          PROVE  f \in wire'
      BY <1>2, <2>3, <3>2 DEF Peers!Under
    <3>3. Peers!Arrives(b, a)
      BY <3>1 DEF Peers!Arrives
    <3>4. Asking(a, b) => Asking(a, b)'
      BY <1>3, <3>1, <3>2 DEF Asking
    <3>5. ASSUME NEW d, OnItsWay(a, b, d) PROVE OnItsWay(a, b, d)'
      BY <1>3, <3>1, <3>2, <3>5 DEF OnItsWay
    <3> QED
      BY <1>1, <3>1, <3>3, <3>4, <3>5 DEF WritersGetAcross, GetsAcross
  <2> QED BY <2>0, <2>1, <2>2, <2>3, <1>3
<1>11. WritersGetAcross'
  BY <1>3, <1>10 DEF WritersGetAcross, Peers!Writer
<1> QED
  BY <1>1, <1>3, <1>7, <1>8, <1>9, <1>11 DEF PeerIInv, HeldIsMade,
     Peers!ReadersChangeNothing, Peers!Writer

(* A channel that closes counts no more, and takes with it what was on it. *)
LEMMA CloseKeeps ==
  ASSUME PeerIInv, NEW p \in Member, NEW q \in Member, Peers!Close(p, q)
  PROVE  PeerIInv'
<1>1. /\ PeerTypes /\ ChannelsJoin /\ FramesSound /\ HeldIsMade
      /\ Peers!ReadersChangeNothing /\ WritersGetAcross
  BY DEF PeerIInv
<1>2. /\ channel[p][q].open
      /\ channel' = [channel EXCEPT ![p][q].open = FALSE]
      /\ wire' = wire \ Peers!Under(p, q, channel[p][q].n + 1)
      /\ UNCHANGED <<cap, joined, made, held, sealing, unsent>>
  BY DEF Peers!Close
<1>3. p # q /\ channel[p][q] \in [n : Nat, open : BOOLEAN]
  BY <1>1, <1>2 DEF ChannelsJoin, PeerTypes
<1>4. /\ channel'[p][q] = [channel[p][q] EXCEPT !.open = FALSE]
      /\ \A a, b \in Member : <<a, b>> # <<p, q>> =>
           channel'[a][b] = channel[a][b]
      /\ channel' \in [Member -> [Member -> [n : Nat, open : BOOLEAN]]]
  BY <1>1, <1>2, <1>3 DEF PeerTypes
<1>5. ~channel'[p][q].open /\ channel'[p][q].n = channel[p][q].n
  BY <1>3, <1>4
<1>6. PeerTypes'
  BY <1>1, <1>2, <1>4 DEF PeerTypes
<1>7. FramesSound'
  BY <1>1, <1>2 DEF FramesSound, Sound, Peers!Writer
<1>8. ChannelsJoin'
  BY <1>1, <1>2, <1>4, <1>5 DEF ChannelsJoin
<1>9. ASSUME NEW a \in Peers!Writer, NEW b \in Member PROVE GetsAcross(a, b)'
  <2> SUFFICES ASSUME {a, b} \notin unsent, Peers!Arrives(b, a)'
               PROVE  \/ Asking(a, b)'
                      \/ /\ channel'[a][b] = channel'[b][a]
                         /\ \A d \in held[a] : d[1] = a =>
                              d \in held[b] \/ OnItsWay(a, b, d)'
    BY <1>2 DEF GetsAcross
  <2>0. a \in Member
    BY DEF Peers!Writer
  <2>1. CASE a = q /\ b = p
    BY <1>5, <2>1 DEF Peers!Arrives
  <2>2. CASE a = p /\ b = q
    <3>1. /\ channel'[b][a] = channel[b][a]
          /\ channel[b][a].n \in Nat /\ channel[a][b].n \in Nat
      BY <1>1, <1>3, <1>4, <2>2 DEF PeerTypes
    <3>2. /\ channel[b][a].open /\ channel[a][b].n < channel[b][a].n
      BY <1>5, <2>2, <3>1 DEF Peers!Arrives
    <3>3. Peers!Arrives(b, a) /\ channel[a][b] # channel[b][a]
      BY <3>1, <3>2 DEF Peers!Arrives
    <3>4. Asking(a, b)
      BY <1>1, <3>3 DEF WritersGetAcross, GetsAcross
    <3>5. CASE \E f \in sealing : f.type = "ask" /\ f.from = b /\ f.to = {a}
      BY <1>2, <3>5 DEF Asking
    <3>6. CASE \E f \in wire : /\ f.type = "ask" /\ f.from = b /\ f.to = {a}
                               /\ f.n = channel[b][a].n
      <4>1. PICK f \in wire : /\ f.type = "ask" /\ f.from = b /\ f.to = {a}
                              /\ f.n = channel[b][a].n
        BY <3>6
      <4>2. f \notin Peers!Under(p, q, channel[p][q].n + 1)
        BY <2>2, <3>1, <3>2, <4>1 DEF Peers!Under
      <4>3. f \in wire' /\ f.n = channel'[b][a].n
        BY <1>2, <3>1, <4>1, <4>2
      <4> QED BY <4>1, <4>3 DEF Asking
    <3> QED BY <3>4, <3>5, <3>6 DEF Asking
  <2>3. CASE {a, b} # {p, q}
    <3>1. channel'[a][b] = channel[a][b] /\ channel'[b][a] = channel[b][a]
      BY <1>4, <2>0, <2>3
    <3>2. ASSUME NEW f \in wire,
                 \/ f.from = b /\ f.to = {a}
                 \/ f.from = a /\ f.to = {b}
          PROVE  f \in wire'
      BY <1>2, <2>3, <3>2 DEF Peers!Under
    <3>3. Peers!Arrives(b, a)
      BY <3>1 DEF Peers!Arrives
    <3>4. Asking(a, b) => Asking(a, b)'
      BY <1>2, <3>1, <3>2 DEF Asking
    <3>5. ASSUME NEW d, OnItsWay(a, b, d) PROVE OnItsWay(a, b, d)'
      BY <1>2, <3>1, <3>2, <3>5 DEF OnItsWay
    <3> QED
      BY <1>1, <3>1, <3>3, <3>4, <3>5 DEF WritersGetAcross, GetsAcross
  <2> QED BY <2>0, <2>1, <2>2, <2>3, <1>3
<1>10. WritersGetAcross'
  BY <1>2, <1>9 DEF WritersGetAcross, Peers!Writer
<1> QED
  BY <1>1, <1>2, <1>6, <1>7, <1>8, <1>10 DEF PeerIInv, HeldIsMade,
     Peers!ReadersChangeNothing, Peers!Writer


(* A frame that was sealed is sent to whom it gets to by then.             *)
LEMMA SendKeeps ==
  ASSUME PeerIInv, NEW f \in sealing, Peers!Send(f) PROVE PeerIInv'
<1> DEFINE copy(q) ==
      [type |-> f.type, from |-> f.from, to |-> {q}, what |-> f.what,
       authoritative |-> f.authoritative, n |-> channel[f.from][q].n]
<1>1. /\ PeerTypes /\ ChannelsJoin /\ FramesSound /\ HeldIsMade
      /\ Peers!ReadersChangeNothing /\ WritersGetAcross
  BY DEF PeerIInv
<1>2. /\ sealing' = sealing \ {f}
      /\ wire' = wire \union
                   {copy(q) : q \in {q \in f.to : Peers!Arrives(f.from, q)}}
      /\ UNCHANGED <<cap, joined, made, held, channel, unsent>>
  BY DEF Peers!Send
<1>3. f \in SealedFrame /\ f.from \in Member /\ f.to \subseteq Member
  BY <1>1 DEF PeerTypes, SealedFrame
<1>4. ASSUME NEW q \in f.to
      PROVE  /\ copy(q) \in WireFrame
             /\ copy(q).type = f.type /\ copy(q).from = f.from
             /\ copy(q).to = {q} /\ copy(q).what = f.what
             /\ copy(q).authoritative = f.authoritative
             /\ copy(q).n = channel[f.from][q].n
  <2>1. channel[f.from][q].n \in Nat /\ {q} \in SUBSET Member
    BY <1>1, <1>3 DEF PeerTypes
  <2>2. /\ f.type \in {"yu", "ask", "sync"} /\ f.what \in Content
        /\ f.authoritative \in BOOLEAN
    BY <1>3 DEF SealedFrame
  <2>3. copy(q) \in WireFrame
    BY <1>3, <2>1, <2>2 DEF WireFrame
  <2> QED BY <2>3
<1>5. \A q \in f.to : Peers!Arrives(f.from, q) => copy(q) \in wire'
  BY <1>2
<1>6. ASSUME NEW g \in wire'
      PROVE  \/ g \in wire
             \/ \E q \in f.to : g = copy(q)
  BY <1>2
<1> HIDE DEF copy
<1>7. PeerTypes'
  <2>1. wire' \subseteq WireFrame
    BY <1>1, <1>4, <1>6 DEF PeerTypes
  <2> QED BY <1>1, <1>2, <2>1 DEF PeerTypes
<1>8. FramesSound'
  <2>1. Sound(f)
    BY <1>1 DEF FramesSound
  <2>2. ASSUME NEW q \in f.to PROVE Sound(copy(q))'
    <3>1. Sound(copy(q))
      BY <1>4, <2>1 DEF Sound
    <3>2. copy(q)' = copy(q)
      BY <1>2 DEF copy
    <3> QED BY <1>2, <3>1, <3>2 DEF Sound, Peers!Writer
  <2>3. \A g \in sealing \union wire : Sound(g)'
    BY <1>1, <1>2 DEF FramesSound, Sound, Peers!Writer
  <2>4. \A q \in f.to : copy(q)' = copy(q)
    BY <1>2 DEF copy
  <2>5. ASSUME NEW g \in wire' PROVE Sound(g)'
    BY <1>6, <2>2, <2>3, <2>4
  <2> QED BY <1>2, <2>3, <2>5 DEF FramesSound
<1>9. ASSUME NEW a \in Peers!Writer, NEW b \in Member PROVE GetsAcross(a, b)'
  <2> SUFFICES ASSUME {a, b} \notin unsent, Peers!Arrives(b, a)
               PROVE  \/ Asking(a, b)'
                      \/ /\ channel[a][b] = channel[b][a]
                         /\ \A d \in held[a] : d[1] = a =>
                              d \in held[b] \/ OnItsWay(a, b, d)'
    BY <1>2 DEF GetsAcross, Peers!Arrives
  <2>1. Asking(a, b) => Asking(a, b)'
    <3>1. CASE f.type = "ask" /\ f.from = b /\ f.to = {a}
      <4>1. a \in f.to /\ copy(a) \in wire'
        BY <1>5, <3>1
      <4>2. /\ copy(a).type = "ask" /\ copy(a).from = b /\ copy(a).to = {a}
            /\ copy(a).n = channel[b][a].n
        BY <1>4, <3>1, <4>1
      <4>3. channel' = channel
        BY <1>2
      <4> QED BY <4>1, <4>2, <4>3 DEF Asking
    <3>2. CASE ~(f.type = "ask" /\ f.from = b /\ f.to = {a})
      BY <1>2, <3>2 DEF Asking
    <3> QED BY <3>1, <3>2
  <2>2. ASSUME channel[a][b] = channel[b][a], NEW d, OnItsWay(a, b, d)
        PROVE  OnItsWay(a, b, d)'
    <3>1. CASE f.type # "ask" /\ f.from = a /\ b \in f.to /\ d \in f.what
      <4>1. Peers!Arrives(f.from, b)
        BY <2>2, <3>1 DEF Peers!Arrives
      <4>2. copy(b) \in wire'
        BY <1>5, <3>1, <4>1
      <4>3. /\ copy(b).type # "ask" /\ copy(b).from = a /\ copy(b).to = {b}
            /\ copy(b).n = channel[b][a].n /\ d \in copy(b).what
        BY <1>4, <2>2, <3>1
      <4>4. channel' = channel
        BY <1>2
      <4> QED BY <4>2, <4>3, <4>4 DEF OnItsWay
    <3>2. CASE ~(f.type # "ask" /\ f.from = a /\ b \in f.to /\ d \in f.what)
      BY <1>2, <2>2, <3>2 DEF OnItsWay
    <3> QED BY <3>1, <3>2
  <2> QED BY <1>1, <2>1, <2>2 DEF WritersGetAcross, GetsAcross
<1>10. WritersGetAcross'
  BY <1>2, <1>9 DEF WritersGetAcross, Peers!Writer
<1> QED
  BY <1>1, <1>2, <1>7, <1>8, <1>10 DEF PeerIInv, HeldIsMade,
     Peers!ReadersChangeNothing, Peers!Writer, ChannelsJoin

(* What a writer says is taken by everyone; and of its own edits nobody    *)
(* tells it one that it does not have.                                     *)
LEMMA ReceiveKeeps ==
  ASSUME PeerIInv, NEW p \in Member, NEW f \in wire, Peers!Receive(p, f)
  PROVE  PeerIInv'
<1>1. /\ PeerTypes /\ ChannelsJoin /\ FramesSound /\ HeldIsMade
      /\ Peers!ReadersChangeNothing /\ WritersGetAcross
  BY DEF PeerIInv
<1>2. /\ f.to = {p} /\ f.type # "ask"
      /\ held' = IF Peers!Accepts(p, f)
                   THEN [held EXCEPT ![p] = @ \union f.what] ELSE held
      /\ wire' = wire \ {f}
      /\ UNCHANGED <<cap, joined, made, channel, sealing, unsent>>
  BY DEF Peers!Receive
<1>3. /\ Sound(f) /\ f.what \subseteq Peers!Edit
      /\ \A e \in f.what : e \in held[e[1]]
  BY <1>1, <1>2 DEF FramesSound, Sound
<1>4. /\ held' \in [Member -> SUBSET Peers!Edit]
      /\ \A q \in Member : held[q] \subseteq held'[q]
      /\ \A q \in Member : held'[q] \subseteq held[q] \union f.what
      /\ \A q \in Member \ {p} : held'[q] = held[q]
      /\ Peers!Accepts(p, f) => f.what \subseteq held'[p]
      /\ ~Peers!Accepts(p, f) => held' = held
  BY <1>1, <1>2, <1>3 DEF PeerTypes
<1>5. PeerTypes'
  BY <1>1, <1>2, <1>4 DEF PeerTypes
<1>6. FramesSound'
  <2>1. \A g \in sealing \union wire : Sound(g)'
    BY <1>1, <1>2, <1>4, StaysSound DEF FramesSound, PeerTypes
  <2> QED BY <1>2, <2>1 DEF FramesSound
<1>7. HeldIsMade'
  <2> SUFFICES ASSUME NEW q \in Member, NEW d \in held'[q]
               PROVE  d \in held'[d[1]]
    BY DEF HeldIsMade
  <2>1. d \in Peers!Edit /\ d \in held[d[1]]
    BY <1>1, <1>3, <1>4 DEF PeerTypes, HeldIsMade
  <2>2. d[1] \in Member
    BY <2>1 DEF Peers!Edit
  <2> QED BY <1>4, <2>1, <2>2
<1>8. Peers!ReadersChangeNothing'
  <2> SUFFICES ASSUME NEW q \in Peers!Writer, NEW e \in held'[q]
               PROVE  e[1] \in Peers!Writer
    BY <1>2 DEF Peers!ReadersChangeNothing, Peers!Writer
  <2>1. q \in Member
    BY DEF Peers!Writer
  <2>2. CASE e \in held[q]
    BY <1>1, <2>2 DEF Peers!ReadersChangeNothing
  <2>3. CASE e \notin held[q]
    <3>1. q = p /\ Peers!Accepts(p, f) /\ e \in f.what
      BY <1>4, <2>1, <2>3
    <3>2. f.authoritative
      BY <3>1 DEF Peers!Accepts
    <3> QED BY <1>2, <1>3, <3>1, <3>2 DEF Sound
  <2> QED BY <2>2, <2>3
<1>9. ASSUME NEW a \in Peers!Writer, NEW b \in Member PROVE GetsAcross(a, b)'
  <2> SUFFICES ASSUME {a, b} \notin unsent, Peers!Arrives(b, a)
               PROVE  \/ Asking(a, b)'
                      \/ /\ channel[a][b] = channel[b][a]
                         /\ \A d \in held'[a] : d[1] = a =>
                              d \in held'[b] \/ OnItsWay(a, b, d)'
    BY <1>2 DEF GetsAcross, Peers!Arrives
  <2>1. a \in Member
    BY DEF Peers!Writer
  <2>2. Asking(a, b) => Asking(a, b)'
    BY <1>2 DEF Asking
  <2>3. ASSUME NEW d \in held'[a], d[1] = a PROVE d \in held[a]
    BY <1>3, <1>4, <2>1, <2>3
  <2>4. ASSUME NEW d, OnItsWay(a, b, d)
        PROVE  d \in held'[b] \/ OnItsWay(a, b, d)'
    <3>1. CASE f.from = a /\ f.to = {b} /\ d \in f.what
      <4>1. p = b /\ Peers!Accepts(p, f)
        BY <1>2, <1>3, <3>1 DEF Sound, Peers!Accepts
      <4> QED BY <1>4, <3>1, <4>1
    <3>2. CASE ~(f.from = a /\ f.to = {b} /\ d \in f.what)
      BY <1>2, <2>4, <3>2 DEF OnItsWay
    <3> QED BY <3>1, <3>2
  <2>5. CASE Asking(a, b)
    BY <2>2, <2>5
  <2>6. CASE ~Asking(a, b)
    <3>1. /\ channel[a][b] = channel[b][a]
          /\ \A d \in held[a] : d[1] = a => d \in held[b] \/ OnItsWay(a, b, d)
      BY <1>1, <2>6 DEF WritersGetAcross, GetsAcross
    <3> QED BY <1>4, <2>3, <2>4, <3>1
  <2> QED BY <2>5, <2>6
<1>10. WritersGetAcross'
  BY <1>2, <1>9 DEF WritersGetAcross, Peers!Writer
<1> QED
  BY <1>1, <1>2, <1>5, <1>6, <1>7, <1>8, <1>10 DEF PeerIInv, ChannelsJoin

(* A request is answered with all that it did not count.                   *)
LEMMA AnswerKeeps ==
  ASSUME PeerIInv, NEW p \in Member, NEW f \in wire, Peers!Answer(p, f)
  PROVE  PeerIInv'
<1> PICK diff : diff = Peers!Diff(p, f.what)
  OBVIOUS
<1> PICK sync : sync = Peers!Frame("sync", p, {f.from}, diff)
  OBVIOUS
<1>1. /\ PeerTypes /\ ChannelsJoin /\ FramesSound /\ HeldIsMade
      /\ Peers!ReadersChangeNothing /\ WritersGetAcross
  BY DEF PeerIInv
<1>2. /\ f.to = {p} /\ f.type = "ask"
      /\ channel[p][f.from] = [n |-> f.n, open |-> TRUE]
      /\ sealing' = IF diff = {} THEN sealing ELSE sealing \union {sync}
      /\ wire' = wire \ {f}
      /\ UNCHANGED <<cap, joined, made, held, channel, unsent>>
  BY DEF Peers!Answer
<1>3. /\ Sound(f) /\ f.what \in Vector /\ f.from \in Member
      /\ \A e \in Peers!Edit : e[2] <= f.what[e[1]] => e \in held[f.from]
  BY <1>1, <1>2 DEF FramesSound, Sound, PeerTypes, WireFrame
<1>4. /\ diff \subseteq held[p] /\ diff \subseteq Peers!Edit
      /\ \A e \in held[p] : e[2] > f.what[e[1]] => e \in diff
  BY <1>1 DEF Peers!Diff, PeerTypes
<1>5. /\ sync.type = "sync" /\ sync.from = p /\ sync.to = {f.from}
      /\ sync.what = diff
      /\ sync.authoritative <=> p \in Peers!Writer
      /\ sync \in SealedFrame
  <2>1. PICK b \in BOOLEAN : b <=> p \in Peers!Writer
    OBVIOUS
  <2>2. sync = [type |-> "sync", from |-> p, to |-> {f.from}, what |-> diff,
                authoritative |-> b]
    BY <2>1 DEF Peers!Frame
  <2>3. {f.from} \in SUBSET Member /\ diff \in Content
    BY <1>3, <1>4 DEF Content
  <2>4. "sync" \in {"yu", "ask", "sync"}
    OBVIOUS
  <2>5. /\ sync \in SealedFrame /\ sync.authoritative = b
        /\ sync.type = "sync" /\ sync.from = p /\ sync.to = {f.from}
        /\ sync.what = diff
    BY <2>2, <2>3, <2>4, FrameOf
  <2> QED BY <2>1, <2>5
<1>6. PeerTypes'
  BY <1>1, <1>2, <1>5 DEF PeerTypes
<1>7. FramesSound'
  <2>1. /\ \A e \in diff : e \in held[e[1]]
        /\ p \in Peers!Writer => \A e \in diff : e[1] \in Peers!Writer
    BY <1>1, <1>4 DEF HeldIsMade, Peers!ReadersChangeNothing
  <2>2. Sound(sync)
    BY <1>4, <1>5, <2>1 DEF Sound
  <2>3. \A g \in sealing \union wire \union {sync} : Sound(g)'
    BY <1>1, <1>2, <2>2 DEF FramesSound, Sound, Peers!Writer
  <2> QED BY <1>2, <2>3 DEF FramesSound
<1>8. ASSUME NEW a \in Peers!Writer, NEW b \in Member PROVE GetsAcross(a, b)'
  <2> SUFFICES ASSUME {a, b} \notin unsent, Peers!Arrives(b, a)
               PROVE  \/ Asking(a, b)'
                      \/ /\ channel[a][b] = channel[b][a]
                         /\ \A d \in held[a] : d[1] = a =>
                              d \in held[b] \/ OnItsWay(a, b, d)'
    BY <1>2 DEF GetsAcross, Peers!Arrives
  <2>0. a \in Member
    BY DEF Peers!Writer
  <2>1. CASE f.from = b /\ f.to = {a} /\ f.n = channel[b][a].n
    <3>1. p = a
      BY <1>2, <2>1
    <3>2. channel[a][b] = channel[b][a]
      <4>1. /\ channel[a][b] = [n |-> f.n, open |-> TRUE]
            /\ channel[b][a] \in [n : Nat, open : BOOLEAN]
            /\ channel[b][a].open
        BY <1>1, <1>2, <2>0, <2>1, <3>1 DEF PeerTypes, Peers!Arrives
      <4>2. channel[a][b].n = channel[b][a].n
        BY <2>1, <4>1
      <4> QED BY <4>1, <4>2 DEF Peers!Arrives
    <3>3. ASSUME NEW d \in held[a], d \notin held[b]
          PROVE  OnItsWay(a, b, d)'
      <4>1. d \in Peers!Edit /\ d[1] \in Member /\ d[2] \in Nat
        BY <1>1, <2>0, PeersHaveLinks DEF PeerTypes, Peers!Edit
      <4>2. f.what[d[1]] \in 0..MaxEdits
        BY <1>3, <4>1 DEF Vector
      <4>3. d[2] > f.what[d[1]]
        BY <1>3, <2>1, <3>3, <4>1, <4>2, PeersHaveLinks
      <4>4. d \in diff
        BY <1>4, <3>1, <4>3
      <4>5. sync \in sealing'
        BY <1>2, <4>4
      <4>6. /\ sync.type # "ask" /\ sync.from = a /\ b \in sync.to
            /\ d \in sync.what
        BY <1>5, <2>1, <3>1, <4>4
      <4> QED BY <4>5, <4>6 DEF OnItsWay
    <3> QED BY <3>2, <3>3
  <2>2. CASE ~(f.from = b /\ f.to = {a} /\ f.n = channel[b][a].n)
    <3>1. Asking(a, b) => Asking(a, b)'
      BY <1>2, <2>2 DEF Asking
    <3>2. ASSUME NEW d, OnItsWay(a, b, d) PROVE OnItsWay(a, b, d)'
      BY <1>2, <3>2 DEF OnItsWay
    <3> QED BY <1>1, <3>1, <3>2 DEF WritersGetAcross, GetsAcross
  <2> QED BY <2>1, <2>2
<1>9. WritersGetAcross'
  BY <1>2, <1>8 DEF WritersGetAcross, Peers!Writer
<1> QED
  BY <1>1, <1>2, <1>6, <1>7, <1>9 DEF PeerIInv, HeldIsMade,
     Peers!ReadersChangeNothing, Peers!Writer, ChannelsJoin

(* What is lost is known to be lost between the two.                       *)
LEMMA LoseKeeps ==
  ASSUME PeerIInv, NEW f \in wire, Peers!Lose(f) PROVE PeerIInv'
<1>1. /\ PeerTypes /\ ChannelsJoin /\ FramesSound /\ HeldIsMade
      /\ Peers!ReadersChangeNothing /\ WritersGetAcross
  BY DEF PeerIInv
<1>2. /\ wire' = wire \ {f} /\ unsent' = unsent \union {{f.from} \union f.to}
      /\ UNCHANGED <<cap, joined, made, held, channel, sealing>>
  BY DEF Peers!Lose
<1>3. PeerTypes' /\ FramesSound'
  BY <1>1, <1>2 DEF PeerTypes, FramesSound, Sound, Peers!Writer
<1>4. ASSUME NEW a \in Peers!Writer, NEW b \in Member PROVE GetsAcross(a, b)'
  <2> SUFFICES ASSUME {a, b} \notin unsent', Peers!Arrives(b, a)
               PROVE  \/ Asking(a, b)'
                      \/ /\ channel[a][b] = channel[b][a]
                         /\ \A d \in held[a] : d[1] = a =>
                              d \in held[b] \/ OnItsWay(a, b, d)'
    BY <1>2 DEF GetsAcross, Peers!Arrives
  <2>1. /\ {a, b} \notin unsent
        /\ ~(f.from = b /\ f.to = {a}) /\ ~(f.from = a /\ f.to = {b})
    BY <1>2
  <2>2. Asking(a, b) => Asking(a, b)'
    BY <1>2, <2>1 DEF Asking
  <2>3. ASSUME NEW d, OnItsWay(a, b, d) PROVE OnItsWay(a, b, d)'
    BY <1>2, <2>1, <2>3 DEF OnItsWay
  <2> QED BY <1>1, <2>1, <2>2, <2>3 DEF WritersGetAcross, GetsAcross
<1>5. WritersGetAcross'
  BY <1>2, <1>4 DEF WritersGetAcross, Peers!Writer
<1> QED
  BY <1>1, <1>2, <1>3, <1>5 DEF PeerIInv, HeldIsMade,
     Peers!ReadersChangeNothing, Peers!Writer, ChannelsJoin

PeerInv == part = "peers" => PeerIInv

LEMMA PeersGoOn == ASSUME PeerInv, [Next]_vars PROVE PeerInv'
<1> SUFFICES ASSUME part = "peers", PeerIInv, [Peers!Next]_peerVars
             PROVE  PeerIInv'
  BY PartSteps DEF PeerInv
<1>1. CASE UNCHANGED peerVars
  <2>1. UNCHANGED <<cap, joined, made, held, channel, sealing, wire, unsent>>
    BY <1>1 DEF peerVars
  <2> QED
    BY <2>1, StaysAcross DEF PeerIInv, PeerTypes, ChannelsJoin, FramesSound,
       Sound, HeldIsMade, Peers!ReadersChangeNothing, Peers!Writer
<1>2. CASE Peers!Next
  BY <1>2, MakeEditKeeps, JoinKeeps, OpenKeeps, CloseKeeps, SendKeeps,
     ReceiveKeeps, AnswerKeeps, LoseKeeps DEF Peers!Next
<1> QED BY <1>1, <1>2

(* yP2PSession.js: with any peers, links and edits, whichever channels     *)
(* open and close and whichever frames overtake one another, what a writer *)
(* did is with each peer once the two are quiet, and what a reader did is  *)
(* with no writer.                                                         *)
THEOREM WritersAreHeard == Spec => []PeersAgree
<1>1. Init => PeerInv
  BY PeersStart DEF Init, PeerInv
<1>2. ASSUME PeerIInv, NEW p \in Peers!Writer, NEW q \in Member,
             Peers!Quiet(p, q), NEW e \in held[p], e[1] = p
      PROVE  e \in held[q]
  <2>1. /\ channel[q][p] = channel[p][q] /\ {p, q} \notin unsent
        /\ Peers!Arrives(q, p)
    BY <1>2 DEF Peers!Quiet, Peers!Arrives
  <2>2. \A f \in sealing \union wire : ~({p, q} \subseteq {f.from} \union f.to)
    BY <1>2 DEF Peers!Quiet
  <2>3. ~Asking(p, q) /\ ~OnItsWay(p, q, e)
    BY <2>2 DEF Asking, OnItsWay
  <2>4. GetsAcross(p, q)
    BY <1>2 DEF PeerIInv, WritersGetAcross
  <2> QED BY <1>2, <2>1, <2>3, <2>4 DEF GetsAcross
<1>3. PeerInv => PeersAgree
  BY <1>2 DEF PeerInv, PeersAgree, Peers!PeersAgree, PeerIInv
<1> QED BY <1>1, <1>3, PeersGoOn, PTL DEF Spec

-----------------------------------------------------------------------------
(* FileSave.  Of a tab that is not excepted: one save at most is under     *)
(* way, of what the tab shows or with a later one due; what the server has *)
(* not had is due, under way, told or, in the only open tab, in the draft; *)
(* and with nothing under way or due "saved" is true.  What an answer says *)
(* the server took it took, and holds unless its rev has moved since.      *)
SaveTypes == Saves!TypeOK /\ edits \in 0..MaxSaves

Alone(t) == \A u \in SaveTab \ {t} : ~saveTab[u].open
InDraft(t) ==
  draft = saveTab[t].doc /\ saveTab[t].offer = Saves!None /\ Alone(t)

OneSave(t) == \A s, q \in Saves!Under(t) : s = q
TimerIsShown(t) ==
  Saves!Captures /\ saveTab[t].timer # Saves!None =>
    saveTab[t].timer = saveTab[t].doc
SavesShown(t) ==
  \A s \in Saves!Under(t) :
    \/ save[s].content = saveTab[t].doc
    \/ Saves!Drafts /\ saveTab[t].timer # Saves!None
SlidesSay(t) ==
  ~Saves!Drafts =>
    /\ saveTab[t].status # "saving"
    /\ saveTab[t].open /\ saveTab[t].doc \notin accepted =>
         saveTab[t].status = "dirty"
ClearIsKnown(t) ==
  \A s \in Saves!Under(t) :
    save[s].at = "clear" => saveTab[t].known = save[s].current
Pending(t) ==
  Saves!Drafts /\ saveTab[t].open /\ saveTab[t].doc \notin accepted =>
    \/ saveTab[t].timer # Saves!None \/ saveTab[t].retry # 0
    \/ saveTab[t].status = "error" \/ Saves!Under(t) # {} \/ InDraft(t)
SavedIsTrue(t) ==
  /\ Saves!Drafts /\ saveTab[t].open /\ Saves!Under(t) = {}
  /\ saveTab[t].timer = Saves!None /\ saveTab[t].status = "saved"
  /\ server.rev = saveTab[t].known
  => server.content = saveTab[t].doc
TabGood(t) ==
  /\ OneSave(t) /\ TimerIsShown(t) /\ SavesShown(t) /\ SlidesSay(t)
  /\ ClearIsKnown(t) /\ Pending(t) /\ SavedIsTrue(t)

AnswerTrue(s) ==
  /\ save[s].at # "none" => saveTab[save[s].tab].open
  /\ save[s].current <= server.rev
  /\ save[s].at = "clear" => save[s].answer = "ok"
  /\ save[s].answer = "ok" =>
       /\ save[s].content \in accepted
       /\ save[s].current = server.rev => server.content = save[s].content
RevsKnown ==
  /\ \A t \in SaveTab : saveTab[t].known <= server.rev
  /\ server.content \in accepted
OffersRestored ==
  ~Saves!Restores => \A t \in SaveTab : saveTab[t].offer = Saves!None

SaveIInv ==
  /\ SaveTypes /\ RevsKnown /\ OffersRestored
  /\ \A s \in Save : AnswerTrue(s)
  /\ \A t \in SaveTab \ crossed : TabGood(t)

(* A step of a tab t: what the server takes is new, and the others' tabs   *)
(* and saves stay as they are.                                             *)
ServerMoves ==
  /\ accepted \subseteq accepted'
  /\ \/ server' = server
     \/ server'.rev = server.rev + 1 /\ server'.content \in accepted'
OnlyOf(t) ==
  /\ UNCHANGED kind /\ crossed \subseteq crossed'
  /\ \A u \in SaveTab \ {t} : saveTab'[u] = saveTab[u]
  /\ \A s \in Save :
       \/ save'[s] = save[s]
       \/ /\ save[s].at = "none" \/ save[s].tab = t
          /\ save'[s].at = "none" \/ save'[s].tab = t

LEMMA TabsStay ==
  ASSUME SaveIInv, NEW t \in SaveTab, OnlyOf(t), ServerMoves,
         \/ saveTab[t].open
         \/ \A u \in SaveTab : saveTab[u].open /\ saveTab[u].doc = draft =>
                               u \in crossed'
  PROVE  \A u \in SaveTab \ ({t} \union crossed') : TabGood(u)'
<1> SUFFICES ASSUME NEW u \in SaveTab, u # t, u \notin crossed'
             PROVE  TabGood(u)'
  OBVIOUS
<1>1. /\ OneSave(u) /\ TimerIsShown(u) /\ SavesShown(u) /\ SlidesSay(u)
      /\ ClearIsKnown(u) /\ Pending(u) /\ SavedIsTrue(u)
      /\ saveTab'[u] = saveTab[u] /\ kind' = kind
  BY DEF SaveIInv, TabGood, OnlyOf
<1>2. /\ Saves!Under(u)' = Saves!Under(u)
      /\ \A s \in Saves!Under(u) : save'[s] = save[s]
  BY DEF OnlyOf, Saves!Under
<1>3. /\ Saves!Drafts' <=> Saves!Drafts
      /\ Saves!Captures' <=> Saves!Captures
  BY <1>1 DEF Saves!Drafts, Saves!Captures
<1>4. OneSave(u)' /\ TimerIsShown(u)' /\ SavesShown(u)' /\ ClearIsKnown(u)'
  BY <1>1, <1>2, <1>3
     DEF OneSave, TimerIsShown, SavesShown, ClearIsKnown, Saves!None
<1>5. SlidesSay(u)'
  BY <1>1, <1>3 DEF SlidesSay, ServerMoves
<1>6. Pending(u)'
  <2>1. saveTab[u].open => ~InDraft(u)
    BY DEF InDraft, Alone
  <2> QED
    BY <1>1, <1>2, <1>3, <2>1 DEF Pending, ServerMoves, Saves!None
<1>7. SavedIsTrue(u)'
  <2>1. saveTab[u].known <= server.rev /\ server.rev \in Nat
    BY DEF SaveIInv, RevsKnown, SaveTypes, Saves!TypeOK, Saves!Rev
  <2>2. saveTab[u].known \in Nat
    BY DEF SaveIInv, SaveTypes, Saves!TypeOK, Saves!TabState, Saves!Rev
  <2>3. server' = server \/ server'.rev # saveTab[u].known
    BY <2>1, <2>2 DEF ServerMoves
  <2> QED BY <1>1, <1>2, <1>3, <2>3 DEF SavedIsTrue, Saves!None
<1> QED BY <1>4, <1>5, <1>6, <1>7 DEF TabGood

(* Of the saves, too, those that stay as they are.                         *)
LEMMA AnswersStay ==
  ASSUME SaveIInv, ServerMoves, NEW s \in Save, save'[s] = save[s],
         save[s].at # "none" => saveTab'[save[s].tab].open
  PROVE  AnswerTrue(s)'
<1>1. save[s].current \in Nat /\ server.rev \in Nat
  BY DEF SaveIInv, SaveTypes, Saves!TypeOK, Saves!SaveState, Saves!Rev
<1> QED BY <1>1 DEF SaveIInv, AnswerTrue, ServerMoves

LEMMA NothingUnderWay ==
  /\ Saves!None \notin Saves!Content /\ 0 \in Saves!Content
  /\ Saves!NoSave \in Saves!SaveState /\ Saves!Closed \in Saves!TabState
  /\ Saves!NoSave.at = "none" /\ Saves!NoSave.current = 0
  /\ Saves!NoSave.answer = "none"
<1>1. Saves!None \notin Saves!Content /\ 0 \in Saves!Content
  BY SavesAreCounted DEF Saves!None, Saves!Content
<1>2. /\ Saves!NoSave \in Saves!SaveState /\ Saves!Closed \in Saves!TabState
      /\ Saves!NoSave.at = "none" /\ Saves!NoSave.current = 0
      /\ Saves!NoSave.answer = "none"
  <2>1. PICK b \in BOOLEAN : ~b
    OBVIOUS
  <2>2. PICK t \in SaveTab : t = CHOOSE u \in SaveTab : TRUE
    BY SavesAreCounted
  <2>3. Saves!NoSave = [tab |-> t, at |-> "none", content |-> 0, rev |-> 0,
          retry |-> 0, second |-> b, answer |-> "none", current |-> 0]
    BY <2>1, <2>2 DEF Saves!NoSave
  <2>4. Saves!Closed = [open |-> b, doc |-> 0, known |-> 0,
          timer |-> Saves!None, retry |-> 0, status |-> "idle",
          offer |-> Saves!None]
    BY <2>1 DEF Saves!Closed
  <2>5. 0 \in 0..MaxRetries
    BY SavesAreCounted
  <2> QED
    BY <1>1, <2>3, <2>4, <2>5
       DEF Saves!SaveState, Saves!TabState, Saves!Rev
<1> QED BY <1>1, <1>2

LEMMA SavesStart == ASSUME Saves!Init PROVE SaveIInv
<1>1. /\ \A t \in SaveTab : saveTab[t] = Saves!Closed
      /\ \A s \in Save : save[s] = Saves!NoSave
      /\ server.rev = 1 /\ server.content = 0 /\ accepted = {0}
  BY DEF Saves!Init
<1>2. SaveTypes
  BY <1>1, NothingUnderWay, SavesAreCounted
     DEF Saves!Init, SaveTypes, Saves!TypeOK, Saves!Rev
<1>3. ASSUME NEW s \in Save PROVE save[s].at = "none" /\ AnswerTrue(s)
  <2>1. /\ save[s].at = "none" /\ save[s].current = 0
        /\ save[s].answer = "none"
    BY <1>1, NothingUnderWay
  <2> QED BY <1>1, <2>1 DEF AnswerTrue
<1>4. \A t \in SaveTab : Saves!Under(t) = {}
  BY <1>3 DEF Saves!Under
<1>5. \A t \in SaveTab :
        /\ ~saveTab[t].open /\ saveTab[t].timer = Saves!None
        /\ saveTab[t].offer = Saves!None /\ saveTab[t].known = 0
        /\ saveTab[t].status = "idle"
  BY <1>1 DEF Saves!Closed
<1>6. \A t \in SaveTab : TabGood(t)
  BY <1>4, <1>5 DEF TabGood, OneSave, TimerIsShown, SavesShown, SlidesSay,
     ClearIsKnown, Pending, SavedIsTrue
<1>7. RevsKnown /\ OffersRestored
  BY <1>1, <1>5 DEF RevsKnown, OffersRestored
<1> QED BY <1>2, <1>3, <1>6, <1>7 DEF SaveIInv

(* A step that leaves the saves and the server alone.                      *)
LEMMA TabMoves ==
  ASSUME SaveIInv, NEW t \in SaveTab, NEW r \in Saves!TabState,
         saveTab' = [saveTab EXCEPT ![t] = r],
         UNCHANGED <<kind, save, server, accepted>>,
         crossed \subseteq crossed', crossed' \subseteq SaveTab,
         draft' \in Saves!Content \union {Saves!None},
         edits' \in 0..MaxSaves,
         \/ saveTab[t].open
         \/ \A u \in SaveTab : saveTab[u].open /\ saveTab[u].doc = draft =>
                               u \in crossed',
         saveTab[t].open => r.open, r.known <= server.rev,
         ~Saves!Restores => r.offer = Saves!None,
         t \notin crossed' => TabGood(t)'
  PROVE  SaveIInv'
<1>1. /\ saveTab'[t] = r /\ saveTab' \in [SaveTab -> Saves!TabState]
      /\ \A u \in SaveTab \ {t} : saveTab'[u] = saveTab[u]
  BY DEF SaveIInv, SaveTypes, Saves!TypeOK
<1>2. SaveTypes'
  BY <1>1 DEF SaveIInv, SaveTypes, Saves!TypeOK, Saves!TabState,
     Saves!SaveState, Saves!Content, Saves!None, Saves!Rev
<1>3. OnlyOf(t) /\ ServerMoves
  BY <1>1 DEF OnlyOf, ServerMoves
<1>4. \A u \in SaveTab \ ({t} \union crossed') : TabGood(u)'
  BY <1>3, TabsStay
<1>5. ASSUME NEW s \in Save PROVE AnswerTrue(s)'
  <2>1. save[s].tab \in SaveTab
    BY DEF SaveIInv, SaveTypes, Saves!TypeOK, Saves!SaveState
  <2>2. save[s].at # "none" => saveTab[save[s].tab].open
    BY DEF SaveIInv, AnswerTrue
  <2>3. save[s].at # "none" => saveTab'[save[s].tab].open
    BY <1>1, <2>1, <2>2
  <2> QED BY <1>3, <2>3, AnswersStay
<1>6. RevsKnown'
  BY <1>1 DEF SaveIInv, RevsKnown
<1>7. OffersRestored'
  BY <1>1 DEF SaveIInv, OffersRestored, Saves!Restores, Saves!None
<1> QED BY <1>2, <1>4, <1>5, <1>6, <1>7 DEF SaveIInv

LEMMA SaveOpenKeeps ==
  ASSUME SaveIInv, NEW t \in SaveTab, Saves!Open(t) PROVE SaveIInv'
<1>0. PICK r : r = [Saves!Closed EXCEPT !.open = TRUE, !.doc = server.content,
                    !.known = server.rev,
                    !.offer = IF Saves!Restores THEN draft ELSE Saves!None]
  OBVIOUS
<1>1. /\ ~saveTab[t].open /\ saveTab' = [saveTab EXCEPT ![t] = r]
      /\ crossed' = crossed \union
           {u \in SaveTab : saveTab[u].open /\ saveTab[u].doc = draft}
      /\ UNCHANGED <<kind, save, draft, server, edits, accepted>>
  BY <1>0 DEF Saves!Open
<1>2. /\ r.open /\ r.doc = server.content /\ r.known = server.rev
      /\ r.offer = IF Saves!Restores THEN draft ELSE Saves!None
      /\ r.timer = Saves!None /\ r.retry = 0 /\ r.status = "idle"
  BY <1>0 DEF Saves!Closed
<1>3. SaveTypes /\ Saves!TypeOK
  BY DEF SaveIInv, SaveTypes
<1>4. r \in Saves!TabState
  <2>1. PICK b \in BOOLEAN : b
    OBVIOUS
  <2> PICK offer : offer = IF Saves!Restores THEN draft ELSE Saves!None
    OBVIOUS
  <2> PICK content, rev : content = server.content /\ rev = server.rev
    OBVIOUS
  <2>2. r = [open |-> b, doc |-> content, known |-> rev,
             timer |-> Saves!None, retry |-> 0, status |-> "idle",
             offer |-> offer]
    BY <1>0, <2>1 DEF Saves!Closed
  <2>3. 0 \in 0..MaxRetries /\ offer \in Saves!Content \union {Saves!None}
    BY <1>3, SavesAreCounted DEF Saves!TypeOK
  <2>4. content \in Saves!Content /\ rev \in Saves!Rev
    BY <1>3 DEF Saves!TypeOK
  <2> QED BY <2>2, <2>3, <2>4 DEF Saves!TabState
<1>5. ASSUME t \notin crossed' PROVE TabGood(t)'
  <2>1. saveTab'[t] = r
    BY <1>1, <1>3 DEF Saves!TypeOK
  <2>2. Saves!Under(t)' = {}
    BY <1>1 DEF SaveIInv, AnswerTrue, Saves!Under
  <2>3. server.content \in accepted /\ Saves!None' = Saves!None
    BY DEF SaveIInv, RevsKnown, Saves!None
  <2>4. /\ OneSave(t)' /\ TimerIsShown(t)' /\ SavesShown(t)'
        /\ ClearIsKnown(t)'
    BY <1>2, <2>1, <2>2, <2>3
       DEF OneSave, TimerIsShown, SavesShown, ClearIsKnown
  <2>5. /\ saveTab'[t].doc = server'.content /\ accepted' = accepted
        /\ saveTab'[t].status = "idle"
    BY <1>1, <1>2, <2>1
  <2>6. server'.content \in accepted'
    BY <1>1, <2>3
  <2>7. SlidesSay(t)' /\ Pending(t)' /\ SavedIsTrue(t)'
    BY <2>5, <2>6 DEF SlidesSay, Pending, SavedIsTrue
  <2> QED BY <2>4, <2>7 DEF TabGood
<1>6. crossed' \subseteq SaveTab
  BY <1>1, <1>3 DEF Saves!TypeOK
<1>7. /\ r.known <= server.rev
      /\ ~Saves!Restores => r.offer = Saves!None
      /\ draft' \in Saves!Content \union {Saves!None} /\ edits' \in 0..MaxSaves
  BY <1>1, <1>2, <1>3 DEF Saves!TypeOK, SaveTypes, Saves!Rev
<1>8. /\ \A u \in SaveTab : saveTab[u].open /\ saveTab[u].doc = draft =>
                            u \in crossed'
      /\ t \notin crossed' => TabGood(t)'
      /\ saveTab[t].open => r.open
      /\ crossed \subseteq crossed'
  BY <1>1, <1>5
<1>9. UNCHANGED <<kind, save, server, accepted>>
  BY <1>1
<1> QED BY <1>1, <1>4, <1>6, <1>7, <1>8, <1>9, TabMoves

LEMMA SaveEditKeeps ==
  ASSUME SaveIInv, NEW t \in SaveTab, Saves!Edit(t) PROVE SaveIInv'
<1>1. PICK retry \in {0, saveTab[t].retry} :
        saveTab' = [saveTab EXCEPT ![t] =
          [saveTab[t] EXCEPT
             !.doc = edits + 1, !.timer = edits + 1, !.retry = retry,
             !.status = Saves!Dirtied(@)]]
  BY DEF Saves!Edit
<1> PICK r : r = [saveTab[t] EXCEPT
                    !.doc = edits + 1, !.timer = edits + 1, !.retry = retry,
                    !.status = Saves!Dirtied(@)]
  OBVIOUS
<1>2. /\ saveTab[t].open /\ edits < MaxSaves /\ edits' = edits + 1
      /\ crossed' = IF ~Saves!Drafts /\ Saves!Saving(t)
                      THEN crossed \union {t} ELSE crossed
      /\ UNCHANGED <<kind, save, draft, server, accepted>>
  BY DEF Saves!Edit
<1>3. SaveTypes /\ Saves!TypeOK
  BY DEF SaveIInv, SaveTypes
<1>4. saveTab[t] \in Saves!TabState
  BY <1>3 DEF Saves!TypeOK
<1>5. /\ r.open = saveTab[t].open /\ r.doc = edits + 1 /\ r.timer = edits + 1
      /\ r.known = saveTab[t].known /\ r.offer = saveTab[t].offer
      /\ r.status = Saves!Dirtied(saveTab[t].status)
  BY <1>4 DEF Saves!TabState
<1>6. edits + 1 \in 0..MaxSaves /\ edits + 1 # Saves!None
  BY <1>2, <1>3, SavesAreCounted DEF SaveTypes, Saves!None
<1>7. r \in Saves!TabState
  <2>1. /\ Saves!Dirtied(saveTab[t].status) \in {"saving", "dirty"}
        /\ retry \in 0..MaxRetries
    BY <1>4, SavesAreCounted DEF Saves!Dirtied, Saves!TabState
  <2> QED BY <1>4, <1>6, <2>1 DEF Saves!TabState, Saves!Content
<1>8. saveTab' = [saveTab EXCEPT ![t] = r] /\ saveTab'[t] = r
  <2>1. saveTab' = [saveTab EXCEPT ![t] = r]
    BY <1>1
  <2> QED BY <1>3, <2>1 DEF Saves!TypeOK
<1>9. ASSUME t \notin crossed' PROVE TabGood(t)'
  <2>1. /\ OneSave(t) /\ SlidesSay(t) /\ ClearIsKnown(t)
        /\ ~Saves!Drafts => Saves!Under(t) = {}
    BY <1>2, <1>9 DEF SaveIInv, TabGood, Saves!Saving
  <2>2. /\ Saves!Under(t)' = Saves!Under(t) /\ save' = save
        /\ Saves!Drafts' <=> Saves!Drafts
    BY <1>2 DEF Saves!Under, Saves!Drafts
  <2>3. Saves!None' = Saves!None
    BY DEF Saves!None
  <2>4. OneSave(t)' /\ ClearIsKnown(t)' /\ SavesShown(t)'
    BY <1>5, <1>6, <1>8, <2>1, <2>2, <2>3
       DEF OneSave, ClearIsKnown, SavesShown
  <2>5. SlidesSay(t)'
    <3>1. saveTab'[t].status = Saves!Dirtied(saveTab[t].status)
      BY <1>5, <1>8
    <3>2. saveTab[t].status # "saving" => saveTab'[t].status = "dirty"
      BY <3>1 DEF Saves!Dirtied
    <3> QED BY <2>1, <2>2, <3>2 DEF SlidesSay
  <2>6. TimerIsShown(t)' /\ Pending(t)' /\ SavedIsTrue(t)'
    <3>1. saveTab'[t].timer = edits + 1 /\ saveTab'[t].doc = edits + 1
      BY <1>5, <1>8
    <3>2. saveTab'[t].timer # Saves!None'
      BY <1>6, <2>3, <3>1
    <3> QED BY <3>1, <3>2 DEF TimerIsShown, Pending, SavedIsTrue
  <2> QED BY <2>4, <2>5, <2>6 DEF TabGood
<1>10. /\ r.known <= server.rev
       /\ ~Saves!Restores => r.offer = Saves!None
  BY <1>5 DEF SaveIInv, RevsKnown, OffersRestored
<1>11. /\ crossed' \subseteq SaveTab
       /\ draft' \in Saves!Content \union {Saves!None} /\ edits' \in 0..MaxSaves
  BY <1>2, <1>3, <1>6 DEF Saves!TypeOK
<1>12. /\ saveTab[t].open => r.open
       /\ t \notin crossed' => TabGood(t)'
       /\ crossed \subseteq crossed' /\ saveTab[t].open
       /\ UNCHANGED <<kind, save, server, accepted>>
  BY <1>2, <1>5, <1>9
<1> QED BY <1>7, <1>8, <1>10, <1>11, <1>12, TabMoves

(* A step of one save of a tab.                                            *)
LEMMA SaveMoves ==
  ASSUME SaveIInv, NEW t \in SaveTab, NEW s \in Save,
         NEW r \in Saves!TabState, NEW p \in Saves!SaveState,
         saveTab' = [saveTab EXCEPT ![t] = r], save' = [save EXCEPT ![s] = p],
         UNCHANGED <<kind, edits>>,
         crossed \subseteq crossed', crossed' \subseteq SaveTab,
         draft' \in Saves!Content \union {Saves!None},
         server'.rev \in Nat, server'.content \in Saves!Content,
         accepted' \subseteq Saves!Content, ServerMoves,
         saveTab[t].open, r.open, r.offer = saveTab[t].offer,
         save[s].at = "none" \/ save[s].tab = t,
         p.at = "none" \/ p.tab = t,
         r.known <= server'.rev, p.current <= server'.rev,
         p.at = "clear" => p.answer = "ok",
         p.answer = "ok" =>
           /\ p.content \in accepted'
           /\ p.current = server'.rev => server'.content = p.content,
         t \notin crossed' => TabGood(t)'
  PROVE  SaveIInv'
<1>1. /\ saveTab'[t] = r /\ saveTab' \in [SaveTab -> Saves!TabState]
      /\ \A u \in SaveTab \ {t} : saveTab'[u] = saveTab[u]
      /\ save'[s] = p /\ save' \in [Save -> Saves!SaveState]
      /\ \A q \in Save \ {s} : save'[q] = save[q]
  BY DEF SaveIInv, SaveTypes, Saves!TypeOK
<1>2. SaveTypes'
  BY <1>1 DEF SaveIInv, SaveTypes, Saves!TypeOK, Saves!TabState,
     Saves!SaveState, Saves!Content, Saves!None, Saves!Rev
<1>3. OnlyOf(t)
  BY <1>1 DEF OnlyOf
<1>4. \A u \in SaveTab \ ({t} \union crossed') : TabGood(u)'
  BY <1>3, TabsStay
<1>5. ASSUME NEW q \in Save PROVE AnswerTrue(q)'
  <2>1. CASE q = s
    BY <1>1, <2>1 DEF AnswerTrue
  <2>2. CASE q # s
    <3>1. save[q].tab \in SaveTab /\ save'[q] = save[q]
      BY <1>1, <2>2 DEF SaveIInv, SaveTypes, Saves!TypeOK, Saves!SaveState
    <3>2. save[q].at # "none" => saveTab[save[q].tab].open
      BY DEF SaveIInv, AnswerTrue
    <3>3. save[q].at # "none" => saveTab'[save[q].tab].open
      BY <1>1, <3>1, <3>2
    <3> QED BY <3>1, <3>3, AnswersStay
  <2> QED BY <2>1, <2>2
<1>6. RevsKnown'
  <2>1. server.rev \in Nat /\ server.rev <= server'.rev
    BY DEF SaveIInv, SaveTypes, Saves!TypeOK, Saves!Rev, ServerMoves
  <2>2. server'.content \in accepted'
    BY DEF SaveIInv, RevsKnown, ServerMoves
  <2>3. ASSUME NEW u \in SaveTab PROVE saveTab'[u].known <= server'.rev
    <3>1. saveTab[u].known \in Nat /\ saveTab[u].known <= server.rev
      BY DEF SaveIInv, SaveTypes, Saves!TypeOK, Saves!TabState, Saves!Rev,
         RevsKnown
    <3> QED BY <1>1, <2>1, <3>1
  <2> QED BY <2>2, <2>3 DEF RevsKnown
<1>7. OffersRestored'
  BY <1>1 DEF SaveIInv, OffersRestored, Saves!Restores, Saves!None
<1> QED BY <1>2, <1>4, <1>5, <1>6, <1>7 DEF SaveIInv

(* The saves of a tab that is not excepted, as its one save goes on.       *)
LEMMA OneGoesOn ==
  ASSUME SaveIInv, NEW s \in Save, save[s].at # "none",
         NEW t \in SaveTab \ crossed, save[s].tab = t,
         NEW p, save' = [save EXCEPT ![s] = p], p.at = "none" \/ p.tab = t
  PROVE  /\ TabGood(t) /\ Saves!Under(t) = {s} /\ save'[s] = p
         /\ Saves!Under(t)' = IF p.at = "none" THEN {} ELSE {s}
<1>1. TabGood(t)
  BY DEF SaveIInv
<1>2. Saves!Under(t) = {s}
  BY <1>1 DEF TabGood, OneSave, Saves!Under
<1>3. save'[s] = p /\ \A q \in Save \ {s} : save'[q] = save[q]
  BY DEF SaveIInv, SaveTypes, Saves!TypeOK
<1>4. Saves!Under(t)' = IF p.at = "none" THEN {} ELSE {s}
  BY <1>2, <1>3 DEF Saves!Under
<1> QED BY <1>1, <1>2, <1>3, <1>4

(* A save starts, of what the tab shows unless it is excepted.             *)
LEMMA StartKeeps ==
  ASSUME SaveIInv, NEW t \in SaveTab, NEW content \in Saves!Content,
         NEW retry \in 0..MaxRetries, NEW after \in Saves!TabState,
         Saves!Start(t, content, retry, after), saveTab[t].open, after.open,
         after.doc = saveTab[t].doc, after.known = saveTab[t].known,
         after.offer = saveTab[t].offer, after.status = saveTab[t].status,
         after.timer = Saves!None \/ after.timer = saveTab[t].timer,
         t \notin crossed => content = saveTab[t].doc
  PROVE  SaveIInv'
<1>1. PICK s \in Save :
        /\ save[s].at = "none"
        /\ save' = [save EXCEPT ![s] =
             [Saves!NoSave EXCEPT !.tab = t,
                !.at = IF Saves!Drafts THEN "draft" ELSE "sent",
                !.content = content, !.retry = retry,
                !.rev = IF Saves!Drafts THEN 0 ELSE saveTab[t].known]]
        /\ crossed' = IF Saves!Saving(t) THEN crossed \union {t} ELSE crossed
        /\ saveTab' = [saveTab EXCEPT ![t] =
             [after EXCEPT !.status = IF Saves!Drafts THEN "saving" ELSE @]]
        /\ UNCHANGED <<kind, draft, server, edits, accepted>>
  BY DEF Saves!Start
<1>2. PICK p : p = [Saves!NoSave EXCEPT !.tab = t,
                      !.at = IF Saves!Drafts THEN "draft" ELSE "sent",
                      !.content = content, !.retry = retry,
                      !.rev = IF Saves!Drafts THEN 0 ELSE saveTab[t].known]
  OBVIOUS
<1>3. PICK r : r = [after EXCEPT !.status = IF Saves!Drafts THEN "saving"
                                                            ELSE @]
  OBVIOUS
<1>4. SaveTypes /\ Saves!TypeOK
  BY DEF SaveIInv, SaveTypes
<1>5. /\ p \in Saves!SaveState /\ p.tab = t /\ p.content = content
      /\ p.at \in {"draft", "sent"} /\ p.answer = "none" /\ p.current = 0
  <2>1. PICK b \in BOOLEAN : ~b
    OBVIOUS
  <2>2. PICK at : at = IF Saves!Drafts THEN "draft" ELSE "sent"
    OBVIOUS
  <2>3. PICK rev : rev = IF Saves!Drafts THEN 0 ELSE saveTab[t].known
    OBVIOUS
  <2>4. p = [tab |-> t, at |-> at, content |-> content, rev |-> rev,
             retry |-> retry, second |-> b, answer |-> "none", current |-> 0]
    BY <1>2, <2>1, <2>2, <2>3 DEF Saves!NoSave
  <2>5. at \in {"draft", "sent"} /\ rev \in Nat
    BY <1>4, <2>2, <2>3 DEF Saves!TypeOK, Saves!TabState, Saves!Rev
  <2>6. p \in Saves!SaveState
    BY <2>4, <2>5 DEF Saves!SaveState, Saves!Rev
  <2> QED BY <2>4, <2>5, <2>6
<1>6. /\ r \in Saves!TabState /\ r.open /\ r.doc = saveTab[t].doc
      /\ r.known = saveTab[t].known /\ r.offer = saveTab[t].offer
      /\ r.timer = Saves!None \/ r.timer = saveTab[t].timer
  BY <1>3 DEF Saves!TabState
<1>7. r.status = IF Saves!Drafts THEN "saving" ELSE saveTab[t].status
  BY <1>3 DEF Saves!TabState
<1>8. /\ saveTab' = [saveTab EXCEPT ![t] = r]
      /\ save' = [save EXCEPT ![s] = p]
  BY <1>1, <1>2, <1>3
<1>9. ASSUME t \notin crossed' PROVE TabGood(t)'
  <2>1. /\ t \notin crossed /\ Saves!Under(t) = {} /\ TabGood(t)
    BY <1>1, <1>9 DEF Saves!Saving, SaveIInv
  <2>2. /\ saveTab'[t] = r /\ save'[s] = p
        /\ \A q \in Save \ {s} : save'[q] = save[q]
    BY <1>4, <1>8 DEF Saves!TypeOK
  <2>3. Saves!Under(t)' = {s}
    BY <1>5, <2>1, <2>2 DEF Saves!Under
  <2>4. /\ Saves!None' = Saves!None
        /\ Saves!Captures' <=> Saves!Captures
        /\ Saves!Drafts' <=> Saves!Drafts
        /\ accepted' = accepted
    BY <1>1 DEF Saves!None, Saves!Captures, Saves!Drafts
  <2>5. OneSave(t)' /\ ClearIsKnown(t)'
    BY <1>5, <2>2, <2>3 DEF OneSave, ClearIsKnown
  <2>6. SavesShown(t)'
    BY <1>5, <1>6, <2>1, <2>2, <2>3 DEF SavesShown
  <2>7. TimerIsShown(t)'
    BY <1>6, <2>1, <2>2, <2>4 DEF TabGood, TimerIsShown
  <2>8. SlidesSay(t)'
    BY <1>6, <1>7, <2>1, <2>2, <2>4 DEF TabGood, SlidesSay
  <2>9. Pending(t)' /\ SavedIsTrue(t)'
    BY <2>3 DEF Pending, SavedIsTrue
  <2> QED BY <2>5, <2>6, <2>7, <2>8, <2>9 DEF TabGood
<1>10. /\ server' = server /\ server.rev \in Nat /\ 0 <= server.rev
       /\ server.content \in Saves!Content /\ accepted \subseteq Saves!Content
       /\ draft \in Saves!Content \union {Saves!None}
       /\ saveTab[t].known <= server.rev
  BY <1>1, <1>4 DEF Saves!TypeOK, Saves!Rev, SaveIInv, RevsKnown
<1>11. ServerMoves
  BY <1>1 DEF ServerMoves
<1>12. crossed \subseteq crossed' /\ crossed' \subseteq SaveTab
  BY <1>1, <1>4 DEF Saves!TypeOK
<1>13. /\ p.at = "none" \/ p.tab = t
       /\ p.at = "clear" => p.answer = "ok"
       /\ p.answer # "ok" /\ p.current <= server'.rev
       /\ r.known <= server'.rev
  BY <1>5, <1>6, <1>10
<1>14. /\ draft' \in Saves!Content \union {Saves!None}
       /\ server'.rev \in Nat /\ server'.content \in Saves!Content
       /\ accepted' \subseteq Saves!Content
       /\ UNCHANGED <<kind, edits>>
       /\ t \notin crossed' => TabGood(t)'
       /\ save[s].at = "none" \/ save[s].tab = t
  BY <1>1, <1>9, <1>10
<1>15. p \in Saves!SaveState
  BY <1>5
<1>16. r \in Saves!TabState /\ r.open /\ r.offer = saveTab[t].offer
  BY <1>6
<1> QED BY <1>8, <1>11, <1>12, <1>13, <1>14, <1>15, <1>16, SaveMoves

LEMMA AutosaveKeeps ==
  ASSUME SaveIInv, NEW t \in SaveTab, Saves!Autosave(t) PROVE SaveIInv'
<1>1. PICK after : after = [saveTab[t] EXCEPT !.timer = Saves!None]
  OBVIOUS
<1>2. PICK content : content = IF Saves!Captures THEN saveTab[t].timer
                                                 ELSE saveTab[t].doc
  OBVIOUS
<1>3. /\ saveTab[t].open /\ saveTab[t].timer # Saves!None
      /\ Saves!Start(t, content, 0, after)
  BY <1>1, <1>2 DEF Saves!Autosave
<1>4. saveTab[t] \in Saves!TabState
  BY DEF SaveIInv, SaveTypes, Saves!TypeOK
<1>5. /\ after \in Saves!TabState
      /\ after.open = saveTab[t].open /\ after.doc = saveTab[t].doc
      /\ after.known = saveTab[t].known /\ after.offer = saveTab[t].offer
      /\ after.status = saveTab[t].status /\ after.timer = Saves!None
  BY <1>1, <1>4 DEF Saves!TabState
<1>6. content \in Saves!Content
  BY <1>2, <1>3, <1>4 DEF Saves!TabState
<1>7. t \notin crossed => content = saveTab[t].doc
  BY <1>2, <1>3 DEF SaveIInv, TabGood, TimerIsShown
<1>8. 0 \in 0..MaxRetries
  BY SavesAreCounted
<1> QED BY <1>3, <1>5, <1>6, <1>7, <1>8, StartKeeps

LEMMA SaveNowKeeps ==
  ASSUME SaveIInv, NEW t \in SaveTab, Saves!SaveNow(t) PROVE SaveIInv'
<1>1. PICK after : after = [saveTab[t] EXCEPT !.timer = Saves!None,
                                              !.retry = 0]
  OBVIOUS
<1>2. saveTab[t].open /\ Saves!Start(t, saveTab[t].doc, 0, after)
  BY <1>1 DEF Saves!SaveNow
<1>3. saveTab[t] \in Saves!TabState /\ 0 \in 0..MaxRetries
  BY SavesAreCounted DEF SaveIInv, SaveTypes, Saves!TypeOK
<1>4. /\ after \in Saves!TabState /\ saveTab[t].doc \in Saves!Content
      /\ after.open = saveTab[t].open /\ after.doc = saveTab[t].doc
      /\ after.known = saveTab[t].known /\ after.offer = saveTab[t].offer
      /\ after.status = saveTab[t].status /\ after.timer = Saves!None
  BY <1>1, <1>3 DEF Saves!TabState
<1> QED BY <1>2, <1>3, <1>4, StartKeeps

LEMMA RetryKeeps ==
  ASSUME SaveIInv, NEW t \in SaveTab, Saves!Retry(t) PROVE SaveIInv'
<1>1. PICK after : after = [saveTab[t] EXCEPT !.retry = 0]
  OBVIOUS
<1>2. /\ saveTab[t].open
      /\ Saves!Start(t, saveTab[t].doc, saveTab[t].retry, after)
  BY <1>1 DEF Saves!Retry
<1>3. saveTab[t] \in Saves!TabState /\ 0 \in 0..MaxRetries
  BY SavesAreCounted DEF SaveIInv, SaveTypes, Saves!TypeOK
<1>4. /\ after \in Saves!TabState /\ saveTab[t].doc \in Saves!Content
      /\ saveTab[t].retry \in 0..MaxRetries
      /\ after.open = saveTab[t].open /\ after.doc = saveTab[t].doc
      /\ after.known = saveTab[t].known /\ after.offer = saveTab[t].offer
      /\ after.status = saveTab[t].status /\ after.timer = saveTab[t].timer
  BY <1>1, <1>3 DEF Saves!TabState
<1> QED BY <1>2, <1>3, <1>4, StartKeeps

LEMMA RestoreDraftKeeps ==
  ASSUME SaveIInv, NEW t \in SaveTab, Saves!RestoreDraft(t) PROVE SaveIInv'
<1>1. PICK r : r = [saveTab[t] EXCEPT !.doc = saveTab[t].offer,
                      !.offer = Saves!None, !.status = Saves!Dirtied(@)]
  OBVIOUS
<1>2. /\ saveTab[t].open /\ saveTab[t].offer # Saves!None
      /\ saveTab' = [saveTab EXCEPT ![t] = r]
      /\ crossed' = IF Saves!Quiet(t) /\ draft = saveTab[t].offer
                         /\ (\A u \in SaveTab \ {t} : ~saveTab[u].open)
                      THEN crossed ELSE crossed \union {t}
      /\ UNCHANGED <<kind, save, draft, server, edits, accepted>>
  BY <1>1 DEF Saves!RestoreDraft
<1>3. SaveTypes /\ Saves!TypeOK /\ saveTab[t] \in Saves!TabState
  BY DEF SaveIInv, SaveTypes, Saves!TypeOK
<1>4. /\ saveTab[t].offer \in Saves!Content
      /\ Saves!Dirtied(saveTab[t].status) \in {"saving", "dirty"}
  BY <1>2, <1>3 DEF Saves!TabState, Saves!Dirtied
<1>5. /\ r \in Saves!TabState
      /\ r.open = saveTab[t].open /\ r.doc = saveTab[t].offer
      /\ r.known = saveTab[t].known /\ r.timer = saveTab[t].timer
      /\ r.offer = Saves!None /\ r.status \in {"saving", "dirty"}
  BY <1>1, <1>3, <1>4 DEF Saves!TabState
<1>6. saveTab'[t] = r /\ \A u \in SaveTab \ {t} : saveTab'[u] = saveTab[u]
  BY <1>2, <1>3 DEF Saves!TypeOK
<1>7. ASSUME t \notin crossed' PROVE TabGood(t)'
  <2>1. /\ Saves!Quiet(t) /\ draft = saveTab[t].offer
        /\ \A u \in SaveTab \ {t} : ~saveTab[u].open
    BY <1>2, <1>7
  <2>2. Saves!None' = Saves!None /\ save' = save /\ draft' = draft
    BY <1>2 DEF Saves!None
  <2>3. Saves!Under(t)' = {} /\ saveTab'[t].timer = Saves!None
    BY <1>5, <1>6, <2>1, <2>2 DEF Saves!Quiet, Saves!Saving, Saves!Under
  <2>4. Saves!Drafts'
    <3>1. Saves!Restores
      BY <1>2 DEF SaveIInv, OffersRestored
    <3> QED BY <1>2, <3>1 DEF Saves!Restores, Saves!Drafts
  <2>5. InDraft(t)'
    BY <1>5, <1>6, <2>1, <2>2 DEF InDraft, Alone
  <2>6. OneSave(t)' /\ TimerIsShown(t)' /\ SavesShown(t)' /\ ClearIsKnown(t)'
    BY <2>2, <2>3 DEF OneSave, TimerIsShown, SavesShown, ClearIsKnown
  <2>7. SlidesSay(t)' /\ Pending(t)' /\ SavedIsTrue(t)'
    BY <1>5, <1>6, <2>4, <2>5 DEF SlidesSay, Pending, SavedIsTrue
  <2> QED BY <2>6, <2>7 DEF TabGood
<1>8. /\ r.known <= server.rev /\ r.open
      /\ crossed \subseteq crossed' /\ crossed' \subseteq SaveTab
  BY <1>2, <1>3, <1>5 DEF SaveIInv, RevsKnown, Saves!TypeOK
<1>9. /\ draft' \in Saves!Content \union {Saves!None} /\ edits' \in 0..MaxSaves
      /\ UNCHANGED <<kind, save, server, accepted>>
      /\ t \notin crossed' => TabGood(t)'
  BY <1>2, <1>3, <1>7 DEF Saves!TypeOK, SaveTypes
<1>10. r \in Saves!TabState /\ r.offer = Saves!None
  BY <1>5
<1> QED BY <1>2, <1>8, <1>9, <1>10, TabMoves

LEMMA DiscardDraftKeeps ==
  ASSUME SaveIInv, NEW t \in SaveTab, Saves!DiscardDraft(t) PROVE SaveIInv'
<1>1. PICK r : r = [saveTab[t] EXCEPT !.offer = Saves!None]
  OBVIOUS
<1>2. SaveTypes /\ Saves!TypeOK /\ saveTab[t] \in Saves!TabState
  BY DEF SaveIInv, SaveTypes, Saves!TypeOK
<1>3. /\ saveTab[t].open /\ saveTab[t].offer # Saves!None
      /\ saveTab' = [saveTab EXCEPT ![t] = r] /\ draft' = Saves!None
      /\ UNCHANGED <<kind, save, server, edits, accepted, crossed>>
  BY <1>1, <1>2 DEF Saves!DiscardDraft, Saves!TypeOK
<1>4. /\ r \in Saves!TabState
      /\ r.open = saveTab[t].open /\ r.doc = saveTab[t].doc
      /\ r.known = saveTab[t].known /\ r.timer = saveTab[t].timer
      /\ r.retry = saveTab[t].retry
      /\ r.offer = Saves!None /\ r.status = saveTab[t].status
  BY <1>1, <1>2 DEF Saves!TabState
<1>5. saveTab'[t] = r
  BY <1>2, <1>3 DEF Saves!TypeOK
<1>6. ASSUME t \notin crossed' PROVE TabGood(t)'
  <2>1. TabGood(t) /\ ~InDraft(t)
    BY <1>3, <1>6 DEF SaveIInv, InDraft
  <2>2. /\ Saves!None' = Saves!None /\ save' = save /\ server' = server
        /\ Saves!Drafts' <=> Saves!Drafts
        /\ Saves!Captures' <=> Saves!Captures
        /\ Saves!Under(t)' = Saves!Under(t) /\ accepted' = accepted
    BY <1>3 DEF Saves!None, Saves!Drafts, Saves!Captures, Saves!Under
  <2>3. OneSave(t)' /\ TimerIsShown(t)' /\ SavesShown(t)' /\ ClearIsKnown(t)'
    BY <1>4, <1>5, <2>1, <2>2
       DEF TabGood, OneSave, TimerIsShown, SavesShown, ClearIsKnown
  <2>4. SlidesSay(t)' /\ SavedIsTrue(t)'
    BY <1>4, <1>5, <2>1, <2>2 DEF TabGood, SlidesSay, SavedIsTrue
  <2>5. Pending(t)'
    BY <1>4, <1>5, <2>1, <2>2 DEF TabGood, Pending
  <2> QED BY <2>3, <2>4, <2>5 DEF TabGood
<1>7. /\ r.known <= server.rev /\ r.open
      /\ crossed \subseteq crossed' /\ crossed' \subseteq SaveTab
  BY <1>2, <1>3, <1>4 DEF SaveIInv, RevsKnown, Saves!TypeOK
<1>8. /\ draft' \in Saves!Content \union {Saves!None} /\ edits' \in 0..MaxSaves
      /\ UNCHANGED <<kind, save, server, accepted>>
      /\ t \notin crossed' => TabGood(t)'
  BY <1>2, <1>3, <1>6 DEF Saves!TypeOK, SaveTypes
<1>9. r \in Saves!TabState /\ r.offer = Saves!None
  BY <1>4
<1> QED BY <1>3, <1>7, <1>8, <1>9, TabMoves

(* What a tab leaves behind when it is killed.                             *)
LEMMA KillKeeps ==
  ASSUME SaveIInv, NEW t \in SaveTab, Saves!Kill(t) PROVE SaveIInv'
<1>1. SaveTypes /\ Saves!TypeOK
  BY DEF SaveIInv, SaveTypes
<1>2. /\ saveTab[t].open /\ saveTab' = [saveTab EXCEPT ![t] = Saves!Closed]
      /\ save' = [s \in Save |-> IF s \in Saves!Under(t) THEN Saves!NoSave
                                                         ELSE save[s]]
      /\ UNCHANGED <<kind, draft, edits, crossed>>
  BY DEF Saves!Kill
<1>3. ServerMoves /\ server'.rev \in Nat /\ server'.content \in Saves!Content
      /\ accepted' \subseteq Saves!Content
  <2>1. CASE UNCHANGED <<server, accepted>>
    BY <1>1, <2>1 DEF ServerMoves, Saves!TypeOK, Saves!Rev
  <2>2. CASE \E s \in Saves!Under(t) :
               /\ server' = [rev |-> server.rev + 1,
                             content |-> save[s].content]
               /\ accepted' = accepted \union {save[s].content}
    <3>1. PICK s \in Saves!Under(t) :
            /\ server' = [rev |-> server.rev + 1, content |-> save[s].content]
            /\ accepted' = accepted \union {save[s].content}
      BY <2>2
    <3>2. save[s].content \in Saves!Content
      BY <1>1, <3>1 DEF Saves!Under, Saves!TypeOK, Saves!SaveState
    <3> QED BY <1>1, <3>1, <3>2 DEF ServerMoves, Saves!TypeOK, Saves!Rev
  <2> QED BY <2>1, <2>2 DEF Saves!Kill
<1>4. /\ saveTab'[t] = Saves!Closed
      /\ saveTab' \in [SaveTab -> Saves!TabState]
      /\ \A u \in SaveTab \ {t} : saveTab'[u] = saveTab[u]
      /\ save' \in [Save -> Saves!SaveState]
      /\ \A s \in Saves!Under(t) : save'[s] = Saves!NoSave
      /\ \A s \in Save \ Saves!Under(t) : save'[s] = save[s]
  BY <1>1, <1>2, NothingUnderWay DEF Saves!TypeOK, Saves!Under
<1>5. SaveTypes'
  BY <1>1, <1>2, <1>3, <1>4 DEF SaveTypes, Saves!TypeOK, Saves!TabState,
     Saves!SaveState, Saves!Content, Saves!None, Saves!Rev
<1>6. OnlyOf(t)
  BY <1>2, <1>4, NothingUnderWay DEF OnlyOf, Saves!Under
<1>7. \A u \in SaveTab \ ({t} \union crossed') : TabGood(u)'
  BY <1>2, <1>3, <1>6, TabsStay
<1>8. /\ ~Saves!Closed.open /\ Saves!Closed.timer = Saves!None
      /\ Saves!Closed.status = "idle" /\ Saves!Closed.known = 0
      /\ Saves!Closed.offer = Saves!None
  BY DEF Saves!Closed
<1>9. TabGood(t)'
  <2>1. Saves!Under(t)' = {} /\ Saves!None' = Saves!None
    BY <1>4, NothingUnderWay DEF Saves!Under, Saves!None
  <2>2. /\ ~saveTab'[t].open /\ saveTab'[t].timer = Saves!None
        /\ saveTab'[t].status = "idle"
    BY <1>4, <1>8
  <2> QED
    BY <2>1, <2>2 DEF TabGood, OneSave, TimerIsShown, SavesShown, SlidesSay,
       ClearIsKnown, Pending, SavedIsTrue
<1>10. ASSUME NEW s \in Save PROVE AnswerTrue(s)'
  <2>1. CASE s \in Saves!Under(t)
    <3>1. /\ save'[s].at = "none" /\ save'[s].current = 0
          /\ save'[s].answer = "none"
      BY <1>4, <2>1, NothingUnderWay
    <3> QED BY <1>3, <3>1 DEF AnswerTrue
  <2>2. CASE s \notin Saves!Under(t)
    <3>1. save'[s] = save[s] /\ (save[s].at = "none" \/ save[s].tab # t)
      BY <1>4, <2>2 DEF Saves!Under
    <3>2. save[s].tab \in SaveTab
      BY <1>1 DEF Saves!TypeOK, Saves!SaveState
    <3>3. save[s].at # "none" => saveTab[save[s].tab].open
      BY DEF SaveIInv, AnswerTrue
    <3>4. save[s].at # "none" => saveTab'[save[s].tab].open
      BY <1>4, <3>1, <3>2, <3>3
    <3> QED BY <1>3, <3>1, <3>4, AnswersStay
  <2> QED BY <2>1, <2>2
<1>11. RevsKnown'
  <2>1. server.rev \in Nat /\ server.rev <= server'.rev
    BY <1>1, <1>3 DEF Saves!TypeOK, Saves!Rev, ServerMoves
  <2>2. server'.content \in accepted'
    BY <1>3 DEF SaveIInv, RevsKnown, ServerMoves
  <2>3. ASSUME NEW u \in SaveTab PROVE saveTab'[u].known <= server'.rev
    <3>1. saveTab[u].known \in Nat /\ saveTab[u].known <= server.rev
      BY <1>1 DEF SaveIInv, Saves!TypeOK, Saves!TabState, Saves!Rev, RevsKnown
    <3>2. saveTab'[u].known = 0 \/ saveTab'[u].known = saveTab[u].known
      BY <1>4, <1>8
    <3> QED BY <1>3, <2>1, <3>1, <3>2
  <2> QED BY <2>2, <2>3 DEF RevsKnown
<1>12. OffersRestored'
  <2>1. saveTab'[t].offer = Saves!None /\ kind' = kind
    BY <1>2, <1>4, <1>8
  <2> QED
    BY <1>4, <2>1 DEF SaveIInv, OffersRestored, Saves!Restores, Saves!None
<1> QED BY <1>5, <1>7, <1>9, <1>10, <1>11, <1>12 DEF SaveIInv

(* A save that goes on, of the same content.                               *)
LEMMA StillUnder ==
  ASSUME SaveIInv, NEW s \in Save, save[s].at # "none",
         NEW t \in SaveTab \ crossed, save[s].tab = t,
         NEW p, save' = [save EXCEPT ![s] = p],
         p.at # "none", p.tab = t, p.content = save[s].content,
         UNCHANGED kind, accepted \subseteq accepted',
         saveTab'[t].doc = saveTab[t].doc,
         saveTab'[t].timer = saveTab[t].timer,
         saveTab'[t].open = saveTab[t].open,
         saveTab'[t].status = saveTab[t].status,
         p.at = "clear" => saveTab'[t].known = p.current
  PROVE  TabGood(t)'
<1>1. /\ TabGood(t) /\ Saves!Under(t) = {s} /\ Saves!Under(t)' = {s}
      /\ save'[s] = p
  BY OneGoesOn
<1>2. /\ Saves!None' = Saves!None
      /\ Saves!Drafts' <=> Saves!Drafts
      /\ Saves!Captures' <=> Saves!Captures
  BY DEF Saves!None, Saves!Drafts, Saves!Captures
<1>3. OneSave(t)' /\ ClearIsKnown(t)' /\ Pending(t)' /\ SavedIsTrue(t)'
  BY <1>1 DEF OneSave, ClearIsKnown, Pending, SavedIsTrue
<1>4. TimerIsShown(t)'
  BY <1>1, <1>2 DEF TabGood, TimerIsShown
<1>5. SavesShown(t)'
  BY <1>1, <1>2 DEF TabGood, SavesShown
<1>6. SlidesSay(t)'
  BY <1>1, <1>2 DEF TabGood, SlidesSay
<1> QED BY <1>3, <1>4, <1>5, <1>6 DEF TabGood

(* What is so of a save under way.                                         *)
LEMMA UnderWay ==
  ASSUME SaveIInv, NEW s \in Save, save[s].at # "none"
  PROVE  /\ save[s].tab \in SaveTab /\ saveTab[save[s].tab].open
         /\ saveTab[save[s].tab] \in Saves!TabState
         /\ saveTab[save[s].tab].known <= server.rev
         /\ save[s] \in Saves!SaveState /\ AnswerTrue(s)
         /\ server.rev \in Nat /\ server.content \in Saves!Content
         /\ draft \in Saves!Content \union {Saves!None}
         /\ accepted \subseteq Saves!Content /\ crossed \subseteq SaveTab
         /\ saveTab = [saveTab EXCEPT
                         ![save[s].tab] = saveTab[save[s].tab]]
  BY DEF SaveIInv, SaveTypes, Saves!TypeOK, Saves!SaveState, AnswerTrue,
     RevsKnown, Saves!Rev

LEMMA DraftWrittenKeeps ==
  ASSUME SaveIInv, NEW s \in Save, Saves!DraftWritten(s) PROVE SaveIInv'
<1>1. PICK t : t = save[s].tab
  OBVIOUS
<1>2. PICK p : p = [save[s] EXCEPT !.at = "sent", !.rev = saveTab[t].known]
  OBVIOUS
<1>3. /\ save[s].at = "draft" /\ draft' = save[s].content
      /\ save' = [save EXCEPT ![s].at = "sent", ![s].rev = saveTab[t].known]
      /\ UNCHANGED <<kind, saveTab, server, edits, accepted, crossed>>
  BY <1>1 DEF Saves!DraftWritten
<1>4. /\ t \in SaveTab /\ saveTab[t].open /\ saveTab[t] \in Saves!TabState
      /\ saveTab[t].known <= server.rev
      /\ save[s] \in Saves!SaveState /\ AnswerTrue(s)
      /\ server.rev \in Nat /\ server.content \in Saves!Content
      /\ accepted \subseteq Saves!Content /\ crossed \subseteq SaveTab
      /\ saveTab = [saveTab EXCEPT ![t] = saveTab[t]]
  BY <1>1, <1>3, UnderWay
<1>5. save' = [save EXCEPT ![s] = p]
  BY <1>2, <1>3 DEF SaveIInv, SaveTypes, Saves!TypeOK
<1>6. /\ p \in Saves!SaveState /\ p.tab = t /\ p.at = "sent"
      /\ p.content = save[s].content /\ p.answer = save[s].answer
      /\ p.current = save[s].current /\ save[s].content \in Saves!Content
  BY <1>1, <1>2, <1>4 DEF Saves!SaveState, Saves!TabState
<1>7. ASSUME t \notin crossed' PROVE TabGood(t)'
  BY <1>1, <1>3, <1>4, <1>5, <1>6, <1>7, StillUnder
<1>8. ServerMoves
  BY <1>3 DEF ServerMoves
<1>9. /\ p.current <= server'.rev
      /\ p.at = "clear" => p.answer = "ok"
      /\ p.answer = "ok" =>
           /\ p.content \in accepted'
           /\ p.current = server'.rev => server'.content = p.content
  BY <1>3, <1>4, <1>6 DEF AnswerTrue
<1>10. /\ saveTab' = [saveTab EXCEPT ![t] = saveTab[t]]
       /\ UNCHANGED <<kind, edits>>
       /\ crossed \subseteq crossed' /\ crossed' \subseteq SaveTab
       /\ draft' \in Saves!Content \union {Saves!None}
       /\ server'.rev \in Nat /\ server'.content \in Saves!Content
       /\ accepted' \subseteq Saves!Content
       /\ saveTab[t].known <= server'.rev
       /\ save[s].at = "none" \/ save[s].tab = t
       /\ p.at = "none" \/ p.tab = t
  BY <1>1, <1>3, <1>4, <1>6
<1> QED BY <1>4, <1>5, <1>6, <1>7, <1>8, <1>9, <1>10, SaveMoves

(* The server takes a save, or refuses it.                                 *)
LEMMA ServeKeeps ==
  ASSUME SaveIInv, NEW s \in Save, Saves!Serve(s) PROVE SaveIInv'
<1>1. PICK t : t = save[s].tab
  OBVIOUS
<1>2. PICK answer, rev :
        /\ save[s].at = "sent"
        /\ answer \in {"ok", "conflict"}
        /\ answer = "ok" =>
             /\ server' = [rev |-> server.rev + 1, content |-> save[s].content]
             /\ accepted' = accepted \union {save[s].content}
        /\ answer = "conflict" => UNCHANGED <<server, accepted>>
        /\ rev = server'.rev
        /\ save' = [save EXCEPT ![s].at = "answered", ![s].answer = answer,
                                ![s].current = rev]
        /\ UNCHANGED <<kind, saveTab, draft, edits, crossed>>
  <2>1. CASE save[s].rev = server.rev
    <3>1. server' = [rev |-> server.rev + 1, content |-> save[s].content]
      BY <2>1 DEF Saves!Serve
    <3>2. server'.rev = server.rev + 1
      BY <3>1
    <3>3. save' = [save EXCEPT ![s].at = "answered", ![s].answer = "ok",
                               ![s].current = server'.rev]
      BY <2>1, <3>2 DEF Saves!Serve, Saves!Answer
    <3> QED BY <2>1, <3>1, <3>3 DEF Saves!Serve
  <2>2. CASE save[s].rev # server.rev
    <3>1. save' = [save EXCEPT ![s].at = "answered", ![s].answer = "conflict",
                               ![s].current = server'.rev]
      BY <2>2 DEF Saves!Serve, Saves!Answer
    <3> QED BY <2>2, <3>1 DEF Saves!Serve
  <2> QED BY <2>1, <2>2
<1>3. PICK p : p = [save[s] EXCEPT !.at = "answered", !.answer = answer,
                                   !.current = rev]
  OBVIOUS
<1>4. /\ t \in SaveTab /\ saveTab[t].open /\ saveTab[t] \in Saves!TabState
      /\ saveTab[t].known <= server.rev /\ saveTab[t].known \in Nat
      /\ save[s] \in Saves!SaveState
      /\ server.rev \in Nat /\ server.content \in Saves!Content
      /\ draft \in Saves!Content \union {Saves!None}
      /\ accepted \subseteq Saves!Content /\ crossed \subseteq SaveTab
      /\ saveTab = [saveTab EXCEPT ![t] = saveTab[t]]
  BY <1>1, <1>2, UnderWay DEF Saves!TabState, Saves!Rev
<1>5. save' = [save EXCEPT ![s] = p]
  BY <1>2, <1>3 DEF SaveIInv, SaveTypes, Saves!TypeOK
<1>6. /\ save[s].content \in Saves!Content
      /\ server'.rev \in Nat /\ server'.content \in Saves!Content
      /\ accepted' \subseteq Saves!Content
      /\ server' = server \/ server'.rev = server.rev + 1
      /\ answer = "ok" =>
           /\ server'.content = save[s].content
           /\ save[s].content \in accepted'
  BY <1>2, <1>4 DEF Saves!SaveState
<1>7. /\ p \in Saves!SaveState /\ p.tab = t /\ p.at = "answered"
      /\ p.content = save[s].content /\ p.answer = answer
      /\ p.current = rev
  BY <1>1, <1>2, <1>3, <1>4, <1>6 DEF Saves!SaveState, Saves!Rev
<1>8. ServerMoves
  BY <1>2, <1>6 DEF ServerMoves
<1>9. ASSUME t \notin crossed' PROVE TabGood(t)'
  <2>1. accepted \subseteq accepted' /\ kind' = kind /\ saveTab' = saveTab
    BY <1>2
  <2>2. t \in SaveTab \ crossed /\ save[s].tab = t /\ save[s].at # "none"
    BY <1>1, <1>2, <1>4, <1>9
  <2> QED BY <1>5, <1>7, <2>1, <2>2, StillUnder
<1>10. /\ p.current <= server'.rev
       /\ p.at = "clear" => p.answer = "ok"
       /\ p.answer = "ok" =>
            /\ p.content \in accepted'
            /\ p.current = server'.rev => server'.content = p.content
  BY <1>2, <1>6, <1>7
<1>11. /\ saveTab' = [saveTab EXCEPT ![t] = saveTab[t]]
       /\ UNCHANGED <<kind, edits>>
       /\ crossed \subseteq crossed' /\ crossed' \subseteq SaveTab
       /\ draft' \in Saves!Content \union {Saves!None}
       /\ saveTab[t].known <= server'.rev
       /\ save[s].at = "none" \/ save[s].tab = t
       /\ p.at = "none" \/ p.tab = t
  BY <1>1, <1>2, <1>4, <1>6, <1>7
<1> QED
  BY <1>4, <1>5, <1>6, <1>7, <1>8, <1>9, <1>10, <1>11, SaveMoves

LEMMA SaveLoseKeeps ==
  ASSUME SaveIInv, NEW s \in Save, Saves!Lose(s) PROVE SaveIInv'
<1>1. PICK t : t = save[s].tab
  OBVIOUS
<1>2. PICK p : p = [save[s] EXCEPT !.at = "answered", !.answer = "failed",
                                   !.current = 0]
  OBVIOUS
<1>3. /\ save[s].at \in {"sent", "answered"}
      /\ save' = [save EXCEPT ![s].at = "answered", ![s].answer = "failed",
                              ![s].current = 0]
      /\ UNCHANGED <<kind, saveTab, draft, server, edits, accepted, crossed>>
  BY DEF Saves!Lose, Saves!Answer
<1>4. /\ t \in SaveTab /\ saveTab[t].open /\ saveTab[t] \in Saves!TabState
      /\ saveTab[t].known <= server.rev
      /\ save[s] \in Saves!SaveState
      /\ server.rev \in Nat /\ server.content \in Saves!Content
      /\ draft \in Saves!Content \union {Saves!None}
      /\ accepted \subseteq Saves!Content /\ crossed \subseteq SaveTab
      /\ saveTab = [saveTab EXCEPT ![t] = saveTab[t]]
  BY <1>1, <1>3, UnderWay
<1>5. save' = [save EXCEPT ![s] = p]
  BY <1>2, <1>3 DEF SaveIInv, SaveTypes, Saves!TypeOK
<1>6. /\ p \in Saves!SaveState /\ p.tab = t /\ p.at = "answered"
      /\ p.content = save[s].content /\ p.answer = "failed"
      /\ p.current = 0
  BY <1>1, <1>2, <1>4 DEF Saves!SaveState, Saves!Rev
<1>7. ServerMoves
  BY <1>3 DEF ServerMoves
<1>8. ASSUME t \notin crossed' PROVE TabGood(t)'
  <2>1. accepted \subseteq accepted' /\ kind' = kind /\ saveTab' = saveTab
    BY <1>3
  <2>2. t \in SaveTab \ crossed /\ save[s].tab = t /\ save[s].at # "none"
    BY <1>1, <1>3, <1>4, <1>8
  <2> QED BY <1>5, <1>6, <2>1, <2>2, StillUnder
<1>9. /\ p.current <= server'.rev /\ p.answer # "ok" /\ p.at # "clear"
      /\ saveTab' = [saveTab EXCEPT ![t] = saveTab[t]]
      /\ UNCHANGED <<kind, edits>>
      /\ crossed \subseteq crossed' /\ crossed' \subseteq SaveTab
      /\ draft' \in Saves!Content \union {Saves!None}
      /\ server'.rev \in Nat /\ server'.content \in Saves!Content
      /\ accepted' \subseteq Saves!Content
      /\ saveTab[t].known <= server'.rev
      /\ save[s].at = "none" \/ save[s].tab = t
      /\ p.at = "none" \/ p.tab = t
  BY <1>1, <1>3, <1>4, <1>6
<1> QED BY <1>4, <1>5, <1>6, <1>7, <1>8, <1>9, SaveMoves

(* updateFile resumes.                                                     *)
LEMMA AnsweredKeeps ==
  ASSUME SaveIInv, NEW s \in Save, Saves!Answered(s) PROVE SaveIInv'
<1>1. PICK t : t = save[s].tab
  OBVIOUS
<1>2. /\ save[s].at = "answered"
      /\ UNCHANGED <<kind, draft, server, edits, accepted, crossed>>
  BY DEF Saves!Answered
<1>3. /\ t \in SaveTab /\ saveTab[t].open /\ saveTab[t] \in Saves!TabState
      /\ saveTab[t].known <= server.rev
      /\ save[s] \in Saves!SaveState /\ AnswerTrue(s)
      /\ server.rev \in Nat /\ server.content \in Saves!Content
      /\ draft \in Saves!Content \union {Saves!None}
      /\ accepted \subseteq Saves!Content /\ crossed \subseteq SaveTab
  BY <1>1, <1>2, UnderWay
<1>4. /\ ServerMoves
      /\ UNCHANGED <<kind, edits>>
      /\ crossed \subseteq crossed' /\ crossed' \subseteq SaveTab
      /\ draft' \in Saves!Content \union {Saves!None}
      /\ server'.rev \in Nat /\ server'.content \in Saves!Content
      /\ accepted' \subseteq Saves!Content
      /\ save[s].at = "none" \/ save[s].tab = t
      /\ accepted \subseteq accepted'
  BY <1>1, <1>2, <1>3 DEF ServerMoves
<1>5. /\ Saves!NoSave \in Saves!SaveState /\ Saves!NoSave.at = "none"
      /\ Saves!NoSave.current <= server'.rev /\ Saves!NoSave.answer # "ok"
      /\ save[s].current <= server'.rev /\ save[s].current \in Nat
  BY <1>2, <1>3, NothingUnderWay DEF AnswerTrue, Saves!SaveState, Saves!Rev
<1>6. /\ Saves!None' = Saves!None
      /\ Saves!Drafts' <=> Saves!Drafts
      /\ Saves!Captures' <=> Saves!Captures
  BY <1>2 DEF Saves!None, Saves!Drafts, Saves!Captures
<1>7. ASSUME NEW r \in Saves!TabState, NEW p \in Saves!SaveState,
             saveTab' = [saveTab EXCEPT ![t] = r],
             save' = [save EXCEPT ![s] = p],
             r.doc = saveTab[t].doc, r.timer = saveTab[t].timer,
             r.open = saveTab[t].open, r.status = saveTab[t].status,
             r.offer = saveTab[t].offer, r.known = save[s].current,
             p.at # "none", p.tab = t, p.content = save[s].content,
             p.current <= server'.rev,
             p.at = "clear" => p.answer = "ok" /\ p.current = r.known,
             p.answer = "ok" => save[s].answer = "ok"
                                /\ p.current = save[s].current
      PROVE  SaveIInv'
  <2>1. saveTab'[t] = r
    BY <1>3, <1>7 DEF SaveIInv, SaveTypes, Saves!TypeOK
  <2>2. ASSUME t \notin crossed' PROVE TabGood(t)'
    <3>1. /\ t \in SaveTab \ crossed /\ save[s].tab = t /\ save[s].at # "none"
          /\ kind' = kind
      BY <1>1, <1>2, <1>3, <2>2
    <3>2. /\ saveTab'[t].doc = saveTab[t].doc
          /\ saveTab'[t].timer = saveTab[t].timer
          /\ saveTab'[t].open = saveTab[t].open
          /\ saveTab'[t].status = saveTab[t].status
          /\ p.at = "clear" => saveTab'[t].known = p.current
      BY <1>7, <2>1
    <3> QED BY <1>4, <1>7, <3>1, <3>2, StillUnder
  <2>3. /\ p.answer = "ok" =>
             /\ p.content \in accepted'
             /\ p.current = server'.rev => server'.content = p.content
        /\ r.open /\ r.known <= server'.rev
        /\ p.at = "clear" => p.answer = "ok"
        /\ t \notin crossed' => TabGood(t)'
        /\ p.at = "none" \/ p.tab = t
    BY <1>2, <1>3, <1>5, <1>7, <2>2 DEF AnswerTrue
  <2> QED BY <1>3, <1>4, <1>7, <2>3, SaveMoves
<1>8. ASSUME NEW r \in Saves!TabState,
             saveTab' = [saveTab EXCEPT ![t] = r],
             save' = [save EXCEPT ![s] = Saves!NoSave],
             r.open = saveTab[t].open, r.offer = saveTab[t].offer,
             r.doc = saveTab[t].doc, r.timer = saveTab[t].timer,
             r.known \in {saveTab[t].known, save[s].current},
             Saves!Drafts => r.status = "error",
             ~Saves!Drafts =>
               r.status = saveTab[t].status
               \/ (r.status = "saved" /\ save[s].answer = "ok")
      PROVE  SaveIInv'
  <2>1. saveTab'[t] = r
    BY <1>3, <1>8 DEF SaveIInv, SaveTypes, Saves!TypeOK
  <2>2. ASSUME t \notin crossed' PROVE TabGood(t)'
    <3>1. /\ t \in SaveTab \ crossed /\ save[s].tab = t /\ save[s].at # "none"
      BY <1>1, <1>2, <1>3, <2>2
    <3>2. /\ TabGood(t) /\ Saves!Under(t) = {s} /\ Saves!Under(t)' = {}
      BY <1>5, <1>8, <3>1, OneGoesOn
    <3>3. OneSave(t)' /\ ClearIsKnown(t)' /\ SavesShown(t)'
      BY <3>2 DEF OneSave, ClearIsKnown, SavesShown
    <3>4. TimerIsShown(t)'
      BY <1>6, <1>8, <2>1, <3>2 DEF TabGood, TimerIsShown
    <3>5. Pending(t)' /\ SavedIsTrue(t)'
      BY <1>6, <1>8, <2>1 DEF Pending, SavedIsTrue
    <3>6. SlidesSay(t)'
      <4>1. ~Saves!Drafts /\ save[s].answer = "ok" =>
              saveTab[t].doc \in accepted
        BY <1>3, <3>2 DEF TabGood, SavesShown, AnswerTrue
      <4> QED
        BY <1>2, <1>6, <1>8, <2>1, <3>2, <4>1 DEF TabGood, SlidesSay
    <3> QED BY <3>3, <3>4, <3>5, <3>6 DEF TabGood
  <2>3. /\ r.open /\ r.known <= server'.rev
        /\ t \notin crossed' => TabGood(t)'
    BY <1>2, <1>3, <1>5, <1>8, <2>2
  <2> QED BY <1>3, <1>4, <1>5, <1>8, <2>3, SaveMoves
<1>9. CASE /\ save[s].answer = "ok" /\ Saves!Drafts
           /\ save' = [save EXCEPT ![s].at = "clear"]
           /\ saveTab' = [saveTab EXCEPT ![t].known = save[s].current]
  <2>1. PICK r : r = [saveTab[t] EXCEPT !.known = save[s].current]
    OBVIOUS
  <2>2. PICK p : p = [save[s] EXCEPT !.at = "clear"]
    OBVIOUS
  <2>3. /\ r \in Saves!TabState
        /\ r.doc = saveTab[t].doc /\ r.timer = saveTab[t].timer
        /\ r.open = saveTab[t].open /\ r.status = saveTab[t].status
        /\ r.offer = saveTab[t].offer /\ r.known = save[s].current
    BY <1>3, <1>5, <2>1 DEF Saves!TabState, Saves!Rev
  <2>4. /\ p \in Saves!SaveState
        /\ p.at = "clear" /\ p.tab = t /\ p.content = save[s].content
        /\ p.current = save[s].current /\ p.answer = save[s].answer
    BY <1>1, <1>3, <2>2 DEF Saves!SaveState
  <2>5. /\ saveTab' = [saveTab EXCEPT ![t] = r]
        /\ save' = [save EXCEPT ![s] = p]
    BY <1>9, <2>1, <2>2 DEF SaveIInv, SaveTypes, Saves!TypeOK
  <2>6. /\ p.at # "none" /\ p.current <= server'.rev
        /\ p.at = "clear" => p.answer = "ok" /\ p.current = r.known
        /\ p.answer = "ok" =>
             save[s].answer = "ok" /\ p.current = save[s].current
    BY <1>5, <1>9, <2>3, <2>4
  <2> QED BY <1>7, <2>3, <2>4, <2>5, <2>6
<1>10. CASE /\ save[s].answer = "ok" /\ ~Saves!Drafts
            /\ save' = [save EXCEPT ![s] = Saves!NoSave]
            /\ saveTab' = [saveTab EXCEPT ![t] =
                 [@ EXCEPT !.known = save[s].current, !.status = "saved"]]
  <2>1. PICK r : r = [saveTab[t] EXCEPT !.known = save[s].current,
                                        !.status = "saved"]
    OBVIOUS
  <2>2. /\ r \in Saves!TabState
        /\ r.doc = saveTab[t].doc /\ r.timer = saveTab[t].timer
        /\ r.open = saveTab[t].open /\ r.status = "saved"
        /\ r.offer = saveTab[t].offer /\ r.known = save[s].current
    BY <1>3, <1>5, <2>1 DEF Saves!TabState, Saves!Rev
  <2>3. saveTab' = [saveTab EXCEPT ![t] = r]
    BY <1>10, <2>1
  <2> QED BY <1>8, <1>10, <2>2, <2>3
<1>11. CASE /\ save' = [save EXCEPT ![s] =
                 [@ EXCEPT !.at = "sent", !.rev = save[s].current,
                           !.second = TRUE, !.answer = "none", !.current = 0]]
            /\ saveTab' = [saveTab EXCEPT ![t].known = save[s].current]
  <2>1. PICK r : r = [saveTab[t] EXCEPT !.known = save[s].current]
    OBVIOUS
  <2>2. PICK p : p = [save[s] EXCEPT !.at = "sent", !.rev = save[s].current,
                        !.second = TRUE, !.answer = "none", !.current = 0]
    OBVIOUS
  <2>3. /\ r \in Saves!TabState
        /\ r.doc = saveTab[t].doc /\ r.timer = saveTab[t].timer
        /\ r.open = saveTab[t].open /\ r.status = saveTab[t].status
        /\ r.offer = saveTab[t].offer /\ r.known = save[s].current
    BY <1>3, <1>5, <2>1 DEF Saves!TabState, Saves!Rev
  <2>4. /\ p \in Saves!SaveState
        /\ p.at = "sent" /\ p.tab = t /\ p.content = save[s].content
        /\ p.current = 0 /\ p.answer = "none"
    BY <1>1, <1>3, <1>5, <2>2 DEF Saves!SaveState, Saves!Rev
  <2>5. /\ saveTab' = [saveTab EXCEPT ![t] = r]
        /\ save' = [save EXCEPT ![s] = p]
    BY <1>11, <2>1, <2>2 DEF SaveIInv, SaveTypes, Saves!TypeOK
  <2>6. /\ p.at # "none" /\ p.current <= server'.rev
        /\ p.at # "clear" /\ p.answer # "ok"
    BY <1>4, <2>4
  <2> QED BY <1>7, <2>3, <2>4, <2>5, <2>6
<1>12. CASE /\ save' = [save EXCEPT ![s] = Saves!NoSave]
            /\ saveTab' = [saveTab EXCEPT ![t] =
                 [saveTab[t] EXCEPT
                    !.status = IF Saves!Drafts THEN "error" ELSE @,
                    !.known = IF save[s].answer = "conflict"
                                THEN save[s].current ELSE @,
                    !.retry = IF Saves!Retries /\ save[s].retry < MaxRetries
                                THEN save[s].retry + 1 ELSE @]]
  <2>1. PICK status, known, retry :
          /\ status = IF Saves!Drafts THEN "error" ELSE saveTab[t].status
          /\ known = IF save[s].answer = "conflict" THEN save[s].current
                                                    ELSE saveTab[t].known
          /\ retry = IF Saves!Retries /\ save[s].retry < MaxRetries
                       THEN save[s].retry + 1 ELSE saveTab[t].retry
    OBVIOUS
  <2>2. PICK r : r = [saveTab[t] EXCEPT !.status = status, !.known = known,
                                        !.retry = retry]
    OBVIOUS
  <2>3. /\ retry \in 0..MaxRetries /\ known \in Nat
        /\ status \in {"idle", "dirty", "saving", "saved", "error"}
    BY <1>3, <1>5, <2>1, SavesAreCounted
       DEF Saves!TabState, Saves!SaveState, Saves!Rev
  <2>4. /\ r \in Saves!TabState
        /\ r.doc = saveTab[t].doc /\ r.timer = saveTab[t].timer
        /\ r.open = saveTab[t].open /\ r.status = status
        /\ r.offer = saveTab[t].offer /\ r.known = known
    BY <1>3, <2>2, <2>3 DEF Saves!TabState, Saves!Rev
  <2>5. saveTab' = [saveTab EXCEPT ![t] = r]
    BY <1>12, <2>1, <2>2
  <2>6. /\ Saves!Drafts => r.status = "error"
        /\ ~Saves!Drafts => r.status = saveTab[t].status
        /\ r.known \in {saveTab[t].known, save[s].current}
    BY <2>1, <2>4
  <2> QED BY <1>8, <1>12, <2>4, <2>5, <2>6
<1> QED
  BY <1>1, <1>9, <1>10, <1>11, <1>12 DEF Saves!Answered, Saves!Knows

(* clearDraft is done, and "saved" is said.                                *)
LEMMA DraftClearedKeeps ==
  ASSUME SaveIInv, NEW s \in Save, Saves!DraftCleared(s) PROVE SaveIInv'
<1>1. PICK t : t = save[s].tab
  OBVIOUS
<1>2. PICK r : r = [saveTab[t] EXCEPT !.status = "saved"]
  OBVIOUS
<1>3. /\ save[s].at = "clear" /\ draft' = Saves!None
      /\ save' = [save EXCEPT ![s] = Saves!NoSave]
      /\ UNCHANGED <<kind, server, edits, accepted, crossed>>
  BY DEF Saves!DraftCleared
<1>4. /\ t \in SaveTab /\ saveTab[t].open /\ saveTab[t] \in Saves!TabState
      /\ saveTab[t].known <= server.rev
      /\ save[s] \in Saves!SaveState /\ AnswerTrue(s)
      /\ server.rev \in Nat /\ server.content \in Saves!Content
      /\ accepted \subseteq Saves!Content /\ crossed \subseteq SaveTab
  BY <1>1, <1>3, UnderWay
<1>5. saveTab' = [saveTab EXCEPT ![t] = r] /\ saveTab'[t] = r
  BY <1>1, <1>2, <1>4
     DEF Saves!DraftCleared, SaveIInv, SaveTypes, Saves!TypeOK
<1>6. /\ r \in Saves!TabState /\ r.open /\ r.doc = saveTab[t].doc
      /\ r.known = saveTab[t].known /\ r.timer = saveTab[t].timer
      /\ r.offer = saveTab[t].offer /\ r.status = "saved"
  BY <1>2, <1>4 DEF Saves!TabState
<1>7. /\ save[s].answer = "ok" /\ save[s].content \in accepted
      /\ save[s].current = server.rev => server.content = save[s].content
  BY <1>3, <1>4 DEF AnswerTrue
<1>8. ASSUME t \notin crossed' PROVE TabGood(t)'
  <2>1. /\ t \in SaveTab \ crossed /\ save[s].tab = t /\ save[s].at # "none"
    BY <1>1, <1>3, <1>4, <1>8
  <2>2. /\ TabGood(t) /\ Saves!Under(t) = {s} /\ Saves!Under(t)' = {}
    BY <1>3, <2>1, OneGoesOn, NothingUnderWay
  <2>3. /\ Saves!None' = Saves!None
        /\ Saves!Drafts' <=> Saves!Drafts
        /\ Saves!Captures' <=> Saves!Captures
    BY <1>3 DEF Saves!None, Saves!Drafts, Saves!Captures
  <2>4. OneSave(t)' /\ ClearIsKnown(t)' /\ SavesShown(t)'
    BY <2>2 DEF OneSave, ClearIsKnown, SavesShown
  <2>5. TimerIsShown(t)'
    BY <1>5, <1>6, <2>2, <2>3 DEF TabGood, TimerIsShown
  <2>6. /\ \/ save[s].content = saveTab[t].doc
           \/ Saves!Drafts /\ saveTab[t].timer # Saves!None
        /\ saveTab[t].known = save[s].current
    BY <1>3, <2>2 DEF TabGood, SavesShown, ClearIsKnown
  <2>7. SlidesSay(t)' /\ Pending(t)'
    BY <1>3, <1>5, <1>6, <1>7, <2>3, <2>6 DEF SlidesSay, Pending
  <2>8. SavedIsTrue(t)'
    BY <1>3, <1>5, <1>6, <1>7, <2>3, <2>6 DEF SavedIsTrue
  <2> QED BY <2>4, <2>5, <2>7, <2>8 DEF TabGood
<1>9. ServerMoves
  BY <1>3 DEF ServerMoves
<1>10. /\ Saves!NoSave \in Saves!SaveState /\ Saves!NoSave.at = "none"
       /\ Saves!NoSave.current <= server'.rev /\ Saves!NoSave.answer # "ok"
  BY <1>3, <1>4, NothingUnderWay
<1>11. /\ UNCHANGED <<kind, edits>>
       /\ crossed \subseteq crossed' /\ crossed' \subseteq SaveTab
       /\ draft' \in Saves!Content \union {Saves!None}
       /\ server'.rev \in Nat /\ server'.content \in Saves!Content
       /\ accepted' \subseteq Saves!Content
       /\ r.known <= server'.rev
       /\ save[s].at = "none" \/ save[s].tab = t
       /\ t \notin crossed' => TabGood(t)'
  BY <1>1, <1>3, <1>4, <1>6, <1>8
<1> QED BY <1>3, <1>4, <1>5, <1>6, <1>9, <1>10, <1>11, SaveMoves

SaveInv == part = "saves" => SaveIInv

LEMMA SavesGoOn == ASSUME SaveInv, [Next]_vars PROVE SaveInv'
<1> SUFFICES ASSUME part = "saves", SaveIInv, [Saves!Next]_saveVars
             PROVE  SaveIInv'
  BY PartSteps DEF SaveInv
<1>1. CASE UNCHANGED saveVars
  <2>1. UNCHANGED <<kind, saveTab, save, draft, server, edits, accepted,
                    crossed>>
    BY <1>1 DEF saveVars
  <2> QED
    BY <2>1 DEF SaveIInv, SaveTypes, Saves!TypeOK, Saves!TabState,
       Saves!SaveState, Saves!Content, Saves!None, Saves!Rev, RevsKnown,
       OffersRestored, Saves!Restores, AnswerTrue, TabGood, OneSave,
       TimerIsShown, SavesShown, SlidesSay, ClearIsKnown, Pending,
       SavedIsTrue, Saves!Under, Saves!Drafts, Saves!Captures, InDraft, Alone
<1>2. CASE \E t \in SaveTab : Saves!Step(t)
  BY <1>2, SaveOpenKeeps, SaveEditKeeps, AutosaveKeeps, SaveNowKeeps,
     RetryKeeps, RestoreDraftKeeps, DiscardDraftKeeps, KillKeeps
     DEF Saves!Step
<1>3. CASE \E s \in Save : Saves!Resume(s)
  BY <1>3, DraftWrittenKeeps, ServeKeeps, SaveLoseKeeps, AnsweredKeeps,
     DraftClearedKeeps DEF Saves!Resume
<1> QED BY <1>1, <1>2, <1>3 DEF Saves!Next

(* filesStore.js: with any tabs, editors, saves and retries, and however   *)
(* requests fail and tabs die, what a tab shows and the server has not had *)
(* is due, under way, in the draft, or told.                               *)
THEOREM NoEditIsForgotten == Spec => []SaveUnsavedIsPendingOrTold
<1>1. Init => SaveInv
  BY SavesStart DEF Init, SaveInv
<1>2. ASSUME SaveIInv PROVE Saves!UnsavedIsPendingOrTold
  <2> SUFFICES ASSUME NEW t \in SaveTab \ crossed, saveTab[t].open,
                      saveTab[t].doc \notin accepted
               PROVE  \/ saveTab[t].timer # Saves!None
                      \/ saveTab[t].retry # 0
                      \/ saveTab[t].status =
                           IF Saves!Drafts THEN "error" ELSE "dirty"
                      \/ \E s \in Saves!Under(t) :
                           save[s].content = saveTab[t].doc
                      \/ draft = saveTab[t].doc
    BY DEF Saves!UnsavedIsPendingOrTold
  <2>1. TabGood(t)
    BY <1>2 DEF SaveIInv
  <2>2. CASE Saves!Drafts
    BY <2>1, <2>2 DEF TabGood, Pending, SavesShown, InDraft
  <2>3. CASE ~Saves!Drafts
    BY <2>1, <2>3 DEF TabGood, SlidesSay
  <2> QED BY <2>2, <2>3
<1>3. SaveInv => SaveUnsavedIsPendingOrTold
  BY <1>2 DEF SaveInv, SaveUnsavedIsPendingOrTold
<1> QED BY <1>1, <1>3, SavesGoOn, PTL DEF Spec

(* filesStore.js: and a tab with nothing left to save that says "saved"    *)
(* shows what the server holds.                                            *)
THEOREM SavedIsSaved == Spec => []SaveSavedIsWhatIsShown
<1>1. Init => SaveInv
  BY SavesStart DEF Init, SaveInv
<1>2. ASSUME SaveIInv PROVE Saves!SavedIsWhatIsShown
  BY <1>2 DEF SaveIInv, TabGood, SavedIsTrue, Saves!SavedIsWhatIsShown,
     Saves!Quiet, Saves!Saving
<1>3. SaveInv => SaveSavedIsWhatIsShown
  BY <1>2 DEF SaveInv, SaveSavedIsWhatIsShown
<1> QED BY <1>1, <1>3, SavesGoOn, PTL DEF Spec

-----------------------------------------------------------------------------
(* Presence.  What a tab has said since its channel opened - at once, and  *)
(* at each heartbeat - and the watcher has not heard since it last heard   *)
(* of the account, is under way or was lost; so that, of the many sayings  *)
(* in a silence, one was heard.                                            *)
ShownFrame == [from : Tab, sent : Nat]
ShownTypes ==
  /\ timer \in [Tab -> {Shown!Gone} \union 0..Heartbeat]
  /\ check \in 0..Heartbeat /\ clock \in Nat \ {0} /\ losses \in 0..MaxLost
  /\ open \in [Tab -> 0..clock] /\ ended \in [Tab -> 0..clock]
  /\ heard \in [Shown!Accounts -> 0..clock]
  /\ net \subseteq ShownFrame
  /\ \A m \in net : m.sent <= clock /\ clock - m.sent <= Delay
  /\ \A t \in Tab : timer[t] = Shown!Gone => open[t] = 0

(* The k-th last interval, the one that is due included only when it was.  *)
Interval(t, k) == clock - (Heartbeat - timer[t]) - k * Heartbeat
Unheard(t) ==
  {s \in open[t]..clock :
     /\ s = open[t] \/ \E k \in Nat : s = Interval(t, k)
     /\ heard[Account[t]] < s /\ [from |-> t, sent |-> s] \notin net}
FewUnheard ==
  \A t \in Tab : Account[t] # Self /\ open[t] # 0 =>
    Cardinality(Unheard(t)) <= losses

(* An account is heard of through a tab, soon after it left if it did.     *)
HeardOf ==
  /\ \A m \in net :
       open[m.from] # 0 \/ (ended[m.from] # 0 /\ m.sent <= ended[m.from])
  /\ \A a \in Shown!Accounts : heard[a] # 0 =>
       /\ clock - heard[a] <= Silence + (Heartbeat - check)
       /\ \E t \in Tab :
            /\ Account[t] = a /\ Account[t] # Self
            /\ \/ open[t] # 0
               \/ ended[t] # 0 /\ heard[a] - ended[t] <= Delay

ShownIInv == ShownTypes /\ FewUnheard /\ HeardOf

LEMMA ProductsGrow ==
  ASSUME NEW h \in Nat, NEW i \in Nat, NEW j \in Nat, i <= j
  PROVE  i * h \in Nat /\ i * h <= j * h /\ (i + 1) * h = i * h + h
<1>1. PICK d \in Nat : j = i + d
  <2>1. j - i \in Nat /\ j = i + (j - i)
    OBVIOUS
  <2> QED BY <2>1
<1>2. j * h = i * h + d * h /\ d * h \in Nat /\ i * h \in Nat
  BY <1>1
<1>3. (i + 1) * h = i * h + h
  OBVIOUS
<1> QED BY <1>2, <1>3

LEMMA UnheardIsFinite ==
  ASSUME ShownTypes, NEW t \in Tab
  PROVE  IsFiniteSet(Unheard(t)) /\ Cardinality(Unheard(t)) \in Nat
<1>1. open[t] \in Int /\ clock \in Int
  BY DEF ShownTypes
<1>2. IsFiniteSet(open[t]..clock)
  BY <1>1, FS_Interval
<1>3. Unheard(t) \in SUBSET (open[t]..clock)
  BY DEF Unheard
<1> QED BY <1>2, <1>3, FS_Subset, FS_CardinalityType

(* Fewer remain unheard where nothing but what was lost is added.          *)
LEMMA FewerUnheard ==
  ASSUME ShownTypes, NEW t \in Tab, NEW T,
         T \subseteq Unheard(t), Cardinality(Unheard(t)) <= losses
  PROVE  Cardinality(T) <= losses
<1>1. IsFiniteSet(Unheard(t)) /\ Cardinality(Unheard(t)) \in Nat
  BY UnheardIsFinite
<1>2. IsFiniteSet(T) /\ Cardinality(T) <= Cardinality(Unheard(t))
  BY <1>1, FS_Subset
<1>3. Cardinality(T) \in Nat /\ losses \in Nat
  BY <1>2, FS_CardinalityType DEF ShownTypes
<1> QED BY <1>1, <1>2, <1>3

(* A silence after x, with n + 1 heartbeats and a frame's delay in it, has *)
(* n + 1 intervals whose frames are no longer under way.                   *)
First(t) == IF Heartbeat - timer[t] > Delay THEN 0 ELSE 1

LEMMA SilenceIsBroken ==
  ASSUME ShownTypes, NEW t \in Tab, timer[t] # Shown!Gone,
         NEW n \in Nat, NEW x \in Nat,
         (n + 1) * Heartbeat + Delay < clock - x,
         NEW i \in 0..n
  PROVE  /\ Interval(t, First(t) + i) \in Nat
         /\ x < Interval(t, First(t) + i)
         /\ Interval(t, First(t) + i) < clock - Delay
<1>1. /\ Heartbeat \in Nat /\ Delay \in Nat /\ Delay < Heartbeat
      /\ clock \in Nat /\ timer[t] \in 0..Heartbeat
  BY SilenceIsLong DEF ShownTypes
<1>2. PICK e : e = Heartbeat - timer[t]
  OBVIOUS
<1>3. e \in 0..Heartbeat
  BY <1>1, <1>2
<1>4. CASE e > Delay
  <2>1. Interval(t, First(t) + i) = clock - e - i * Heartbeat
    BY <1>2, <1>4 DEF First, Interval
  <2>2. i * Heartbeat \in Nat /\ i * Heartbeat <= n * Heartbeat
    BY <1>1, ProductsGrow
  <2>3. (n + 1) * Heartbeat = n * Heartbeat + Heartbeat
        /\ n * Heartbeat \in Nat
    BY <1>1, ProductsGrow
  <2> QED BY <1>1, <1>3, <1>4, <2>1, <2>2, <2>3
<1>5. CASE ~(e > Delay)
  <2>1. Interval(t, First(t) + i) = clock - e - (1 + i) * Heartbeat
    BY <1>2, <1>5 DEF First, Interval
  <2>2. /\ (1 + i) * Heartbeat = i * Heartbeat + Heartbeat
        /\ i * Heartbeat \in Nat /\ i * Heartbeat <= n * Heartbeat
    BY <1>1, ProductsGrow
  <2>3. (n + 1) * Heartbeat = n * Heartbeat + Heartbeat
        /\ n * Heartbeat \in Nat
    BY <1>1, ProductsGrow
  <2> QED BY <1>1, <1>3, <1>5, <2>1, <2>2, <2>3
<1> QED BY <1>4, <1>5

LEMMA IntervalsDiffer ==
  ASSUME ShownTypes, NEW t \in Tab, timer[t] # Shown!Gone,
         NEW i \in Nat, NEW j \in Nat, Interval(t, i) = Interval(t, j)
  PROVE  i = j
<1>1. /\ Heartbeat \in Nat \ {0} /\ clock \in Nat
      /\ timer[t] \in 0..Heartbeat
  BY SilenceIsLong DEF ShownTypes
<1>2. i * Heartbeat \in Nat /\ j * Heartbeat \in Nat
  BY <1>1, ProductsGrow
<1>3. i * Heartbeat = j * Heartbeat
  BY <1>1, <1>2 DEF Interval
<1>4. ASSUME NEW a \in Nat, NEW b \in Nat, a < b
      PROVE  a * Heartbeat < b * Heartbeat
  <2>1. a + 1 \in Nat /\ a + 1 <= b
    BY <1>4
  <2>2. /\ (a + 1) * Heartbeat = a * Heartbeat + Heartbeat
        /\ (a + 1) * Heartbeat <= b * Heartbeat
        /\ a * Heartbeat \in Nat /\ b * Heartbeat \in Nat
    BY <1>1, <2>1, ProductsGrow
  <2> QED BY <1>1, <2>2
<1> QED BY <1>2, <1>3, <1>4

(* As many as are different.                                               *)
LEMMA DifferentCount ==
  ASSUME NEW n \in Nat, NEW T, IsFiniteSet(T), NEW f \in [0..n -> T],
         \A i, j \in 0..n : f[i] = f[j] => i = j
  PROVE  n + 1 <= Cardinality(T)
<1>1. f \in Injection(0..n, T)
  BY DEF Injection, IsInjective
<1>2. Cardinality(0..n) <= Cardinality(T)
  BY <1>1, FS_Injection
<1>3. Cardinality(0..n) = n + 1
  BY FS_Interval
<1> QED BY <1>2, <1>3

LEMMA ShownStarts == ASSUME Shown!Init PROVE ShownIInv
<1>1. Heartbeat \in Nat /\ MaxLost \in Nat
  BY SilenceIsLong
<1>2. ShownTypes
  BY <1>1 DEF Shown!Init, ShownTypes
<1>3. FewUnheard /\ HeardOf
  BY DEF Shown!Init, FewUnheard, HeardOf
<1> QED BY <1>2, <1>3 DEF ShownIInv

(* What a step adds to the unheard is what it loses.                       *)
LEMMA UnheardStays ==
  ASSUME ShownTypes, FewUnheard, UNCHANGED <<losses>>,
         NEW t \in Tab, Account[t] # Self, open[t] # 0,
         Unheard(t)' \subseteq Unheard(t)
  PROVE  Cardinality(Unheard(t)') <= losses'
BY FewerUnheard DEF FewUnheard

LEMMA ConnectedKeeps ==
  ASSUME ShownIInv, NEW t \in Tab, Shown!Connected(t) PROVE ShownIInv'
<1>1. PICK m : m = [from |-> t, sent |-> clock]
  OBVIOUS
<1>2. /\ timer[t] # Shown!Gone /\ open[t] = 0
      /\ open' = [open EXCEPT ![t] = clock]
      /\ net' = net \union {m}
      /\ UNCHANGED <<timer, check, heard, clock, comings, losses, ended>>
  BY <1>1 DEF Shown!Connected
<1>3. ShownTypes /\ FewUnheard /\ HeardOf
  BY DEF ShownIInv
<1>4. /\ m \in ShownFrame /\ m.from = t /\ m.sent = clock
      /\ clock \in Nat \ {0} /\ Delay \in Nat /\ clock - clock <= Delay
  BY <1>1, <1>3, SilenceIsLong DEF ShownTypes, ShownFrame
<1>5. /\ open' \in [Tab -> 0..clock] /\ open'[t] = clock
      /\ \A u \in Tab \ {t} : open'[u] = open[u]
  BY <1>2, <1>3, <1>4 DEF ShownTypes
<1>6. ShownTypes'
  BY <1>2, <1>3, <1>4, <1>5 DEF ShownTypes, Shown!Gone, Shown!Accounts
<1>7. HeardOf'
  BY <1>2, <1>3, <1>4, <1>5 DEF HeardOf, Shown!Accounts
<1>8. ASSUME NEW u \in Tab, Account[u] # Self, open'[u] # 0
      PROVE  Cardinality(Unheard(u)') <= losses'
  <2>1. CASE u = t
    <3>1. ASSUME NEW s \in Unheard(t)' PROVE FALSE
      <4>1. s \in clock..clock /\ [from |-> t, sent |-> s] \notin net'
        BY <1>2, <1>5 DEF Unheard
      <4>2. s = clock
        BY <1>4, <4>1
      <4> QED BY <1>1, <1>2, <4>1, <4>2
    <3>3. Unheard(t)' = {}
      BY <3>1
    <3> QED BY <1>2, <1>3, <2>1, <3>3, FS_EmptySet DEF ShownTypes
  <2>2. CASE u # t
    <3>1. Unheard(u)' \subseteq Unheard(u)
      BY <1>2, <1>5, <2>2 DEF Unheard, Interval
    <3> QED BY <1>2, <1>3, <1>5, <1>8, <2>2, <3>1, UnheardStays
  <2> QED BY <2>1, <2>2
<1>9. FewUnheard'
  BY <1>8 DEF FewUnheard
<1> QED BY <1>6, <1>7, <1>9 DEF ShownIInv

(* A channel closes, with its tab or without.                              *)
LEMMA ClosedKeeps ==
  ASSUME ShownIInv, NEW t \in Tab, Shown!Closed(t) \/ Shown!Leave(t)
  PROVE  ShownIInv'
<1>1. ShownTypes /\ FewUnheard /\ HeardOf
  BY DEF ShownIInv
<1>2. /\ open' = [open EXCEPT ![t] = 0]
      /\ UNCHANGED <<check, heard, net, clock, losses>>
  BY DEF Shown!Closed, Shown!Leave
<1>3. /\ \A u \in Tab \ {t} : timer'[u] = timer[u]
      /\ timer' \in [Tab -> {Shown!Gone} \union 0..Heartbeat]
  BY <1>1 DEF Shown!Closed, Shown!Leave, ShownTypes
<1>4. /\ ended' = ended \/ ended' = [ended EXCEPT ![t] = clock]
      /\ open[t] # 0 => ended' = [ended EXCEPT ![t] = clock]
  BY DEF Shown!Closed, Shown!Leave
<1>5. /\ clock \in Nat \ {0} /\ Delay \in Nat
      /\ open' \in [Tab -> 0..clock] /\ ended' \in [Tab -> 0..clock]
      /\ open'[t] = 0 /\ \A u \in Tab \ {t} : open'[u] = open[u]
      /\ \A u \in Tab \ {t} : ended'[u] = ended[u]
      /\ ended'[t] = ended[t] \/ ended'[t] = clock
      /\ open[t] # 0 => ended'[t] = clock
  BY <1>1, <1>2, <1>4, SilenceIsLong DEF ShownTypes
<1>6. ShownTypes'
  BY <1>1, <1>2, <1>3, <1>5
     DEF ShownTypes, Shown!Gone, Shown!Accounts
<1>7. HeardOf'
  <2>1. ASSUME NEW m \in net
        PROVE  open'[m.from] # 0
               \/ (ended'[m.from] # 0 /\ m.sent <= ended'[m.from])
    <3>1. m.from \in Tab /\ m.sent \in Nat /\ m.sent <= clock
      BY <1>1 DEF ShownTypes, ShownFrame
    <3>2. open[m.from] # 0 \/ (ended[m.from] # 0 /\ m.sent <= ended[m.from])
      BY <1>1 DEF HeardOf
    <3> QED BY <1>5, <3>1, <3>2
  <2>2. ASSUME NEW a \in Shown!Accounts, NEW u \in Tab, heard[a] # 0,
               open[u] # 0 \/ (ended[u] # 0 /\ heard[a] - ended[u] <= Delay)
        PROVE  open'[u] # 0
               \/ (ended'[u] # 0 /\ heard[a] - ended'[u] <= Delay)
    <3>1. heard[a] \in 0..clock
      BY <1>1 DEF ShownTypes
    <3> QED BY <1>5, <2>2, <3>1
  <2>3. Shown!Accounts' = Shown!Accounts
    BY DEF Shown!Accounts
  <2>4. ASSUME NEW a \in Shown!Accounts, heard'[a] # 0
        PROVE  /\ clock' - heard'[a] <= Silence + (Heartbeat - check')
               /\ \E u \in Tab :
                    /\ Account[u] = a /\ Account[u] # Self
                    /\ \/ open'[u] # 0
                       \/ ended'[u] # 0 /\ heard'[a] - ended'[u] <= Delay
    BY <1>1, <1>2, <2>2, <2>4 DEF HeardOf
  <2> QED BY <1>2, <2>1, <2>3, <2>4 DEF HeardOf
<1>8. ASSUME NEW u \in Tab, Account[u] # Self, open'[u] # 0
      PROVE  Cardinality(Unheard(u)') <= losses'
  <2>1. u # t /\ open[u] # 0
    BY <1>5, <1>8
  <2>2. Unheard(u)' \subseteq Unheard(u)
    BY <1>2, <1>3, <1>5, <2>1 DEF Unheard, Interval
  <2> QED BY <1>1, <1>2, <1>8, <2>1, <2>2, UnheardStays
<1>9. FewUnheard'
  BY <1>8 DEF FewUnheard
<1> QED BY <1>6, <1>7, <1>9 DEF ShownIInv

LEMMA ShownJoinKeeps ==
  ASSUME ShownIInv, NEW t \in Tab, Shown!Join(t) PROVE ShownIInv'
<1>1. ShownTypes /\ FewUnheard /\ HeardOf
  BY DEF ShownIInv
<1>2. /\ timer[t] = Shown!Gone /\ timer' = [timer EXCEPT ![t] = Heartbeat]
      /\ UNCHANGED <<open, check, heard, net, clock, losses, ended>>
  BY DEF Shown!Join
<1>3. Heartbeat \in 0..Heartbeat
  BY SilenceIsLong
<1>4. ShownTypes'
  BY <1>1, <1>2, <1>3 DEF ShownTypes, Shown!Gone, Shown!Accounts
<1>5. HeardOf'
  BY <1>1, <1>2 DEF HeardOf, Shown!Accounts
<1>6. ASSUME NEW u \in Tab, Account[u] # Self, open'[u] # 0
      PROVE  Cardinality(Unheard(u)') <= losses'
  <2>1. u # t /\ open[u] # 0 /\ timer'[u] = timer[u]
    BY <1>1, <1>2, <1>6 DEF ShownTypes
  <2>2. Unheard(u)' \subseteq Unheard(u)
    BY <1>2, <2>1 DEF Unheard, Interval
  <2> QED BY <1>1, <1>2, <1>6, <2>1, <2>2, UnheardStays
<1>7. FewUnheard'
  BY <1>6 DEF FewUnheard
<1> QED BY <1>4, <1>5, <1>7 DEF ShownIInv

LEMMA BeatKeeps ==
  ASSUME ShownIInv, NEW t \in Tab, Shown!Beat(t) PROVE ShownIInv'
<1>1. PICK m : m = [from |-> t, sent |-> clock]
  OBVIOUS
<1>2. /\ timer[t] = 0 /\ timer' = [timer EXCEPT ![t] = Heartbeat]
      /\ net' = IF open[t] = 0 THEN net ELSE net \union {m}
      /\ UNCHANGED <<open, check, heard, clock, losses, ended>>
  BY <1>1 DEF Shown!Beat
<1>3. ShownTypes /\ FewUnheard /\ HeardOf
  BY DEF ShownIInv
<1>4. /\ m \in ShownFrame /\ m.from = t /\ m.sent = clock
      /\ clock \in Nat \ {0} /\ clock - clock <= Delay
      /\ Heartbeat \in Nat /\ Heartbeat \in 0..Heartbeat
  BY <1>1, <1>3, SilenceIsLong DEF ShownTypes, ShownFrame
<1>5. /\ timer'[t] = Heartbeat
      /\ \A u \in Tab \ {t} : timer'[u] = timer[u]
      /\ timer' \in [Tab -> {Shown!Gone} \union 0..Heartbeat]
      /\ timer[t] # Shown!Gone
  BY <1>2, <1>3, <1>4 DEF ShownTypes, Shown!Gone
<1>6. ShownTypes'
  <2>1. net' \subseteq ShownFrame
    BY <1>2, <1>3, <1>4 DEF ShownTypes
  <2>2. \A f \in net' : f.sent <= clock /\ clock - f.sent <= Delay
    BY <1>2, <1>3, <1>4 DEF ShownTypes
  <2>3. \A u \in Tab : timer'[u] = Shown!Gone => open[u] = 0
    BY <1>3, <1>4, <1>5 DEF ShownTypes, Shown!Gone
  <2> QED
    BY <1>2, <1>3, <1>5, <2>1, <2>2, <2>3
       DEF ShownTypes, Shown!Gone, Shown!Accounts
<1>7. HeardOf'
  BY <1>2, <1>3, <1>4 DEF HeardOf, Shown!Accounts
<1>8. ASSUME NEW u \in Tab, Account[u] # Self, open'[u] # 0
      PROVE  Cardinality(Unheard(u)') <= losses'
  <2>1. CASE u = t
    <3>1. ASSUME NEW s \in Unheard(t)' PROVE s \in Unheard(t)
      <4>1. /\ s \in open[t]..clock /\ heard[Account[t]] < s
            /\ [from |-> t, sent |-> s] \notin net'
            /\ s = open[t] \/ \E k \in Nat : s = Interval(t, k)'
        BY <1>2 DEF Unheard
      <4>2. s # clock /\ [from |-> t, sent |-> s] \notin net
        BY <1>1, <1>2, <1>8, <2>1, <4>1
      <4>3. CASE s = open[t]
        BY <4>1, <4>2, <4>3 DEF Unheard
      <4>4. CASE s # open[t]
        <5>1. PICK k \in Nat : s = Interval(t, k)'
          BY <4>1, <4>4
        <5>2. s = clock - k * Heartbeat
          BY <1>2, <1>4, <1>5, <5>1 DEF Interval
        <5>3. k - 1 \in Nat
          <6>1. k # 0
            BY <1>4, <4>2, <5>2
          <6> QED BY <6>1
        <5>4. k * Heartbeat = (k - 1) * Heartbeat + Heartbeat
          BY <1>4, <5>3, ProductsGrow
        <5>5. s = Interval(t, k - 1)
          <6>1. Interval(t, k - 1) = clock - Heartbeat - (k - 1) * Heartbeat
            BY <1>2, <1>4 DEF Interval
          <6>2. (k - 1) * Heartbeat \in Nat
            BY <1>4, <5>3, ProductsGrow
          <6> QED BY <1>4, <5>2, <5>4, <6>1, <6>2
        <5> QED BY <4>1, <4>2, <5>3, <5>5 DEF Unheard
      <4> QED BY <4>3, <4>4
    <3> QED BY <1>2, <1>3, <1>8, <2>1, <3>1, UnheardStays
  <2>2. CASE u # t
    <3>1. Unheard(u)' \subseteq Unheard(u)
      BY <1>2, <1>5, <2>2 DEF Unheard, Interval
    <3> QED BY <1>2, <1>3, <1>8, <3>1, UnheardStays
  <2> QED BY <2>1, <2>2
<1>9. FewUnheard'
  BY <1>8 DEF FewUnheard
<1> QED BY <1>6, <1>7, <1>9 DEF ShownIInv

(* What arrives is heard of its whole account.                             *)
LEMMA DeliverKeeps ==
  ASSUME ShownIInv, NEW m \in net, Shown!Deliver(m) PROVE ShownIInv'
<1>1. PICK t : t = m.from
  OBVIOUS
<1>2. /\ net' = net \ {m}
      /\ heard' = IF Account[t] = Self THEN heard
                  ELSE [heard EXCEPT ![Account[t]] = clock]
      /\ UNCHANGED <<timer, open, check, clock, losses, ended>>
  BY <1>1 DEF Shown!Deliver
<1>3. ShownTypes /\ FewUnheard /\ HeardOf
  BY DEF ShownIInv
<1>4. /\ t \in Tab /\ Account[t] \in Shown!Accounts
      /\ m.sent \in Nat /\ m.sent <= clock /\ clock - m.sent <= Delay
      /\ clock \in Nat \ {0}
  BY <1>1, <1>3 DEF ShownTypes, ShownFrame, Shown!Accounts
<1>5. /\ heard' \in [Shown!Accounts -> 0..clock]
      /\ \A a \in Shown!Accounts :
           heard'[a] = heard[a]
           \/ (a = Account[t] /\ Account[t] # Self /\ heard'[a] = clock)
      /\ Account[t] # Self => heard'[Account[t]] = clock
  BY <1>2, <1>3, <1>4 DEF ShownTypes
<1>6. ShownTypes'
  BY <1>2, <1>3, <1>5 DEF ShownTypes, Shown!Gone, Shown!Accounts
<1>7. HeardOf'
  <2>1. Shown!Accounts' = Shown!Accounts
    BY DEF Shown!Accounts
  <2>2. ASSUME NEW a \in Shown!Accounts, heard'[a] # 0
        PROVE  /\ clock' - heard'[a] <= Silence + (Heartbeat - check')
               /\ \E u \in Tab :
                    /\ Account[u] = a /\ Account[u] # Self
                    /\ \/ open'[u] # 0
                       \/ ended'[u] # 0 /\ heard'[a] - ended'[u] <= Delay
    <3>1. CASE heard'[a] = heard[a]
      BY <1>2, <1>3, <2>2, <3>1 DEF HeardOf
    <3>2. CASE heard'[a] # heard[a]
      <4>1. a = Account[t] /\ Account[t] # Self /\ heard'[a] = clock
        BY <1>5, <3>2
      <4>2. clock - clock <= Silence + (Heartbeat - check)
        BY <1>3, <1>4, SilenceIsLong DEF ShownTypes
      <4>3. open[t] # 0 \/ (ended[t] # 0 /\ clock - ended[t] <= Delay)
        <5>1. open[t] # 0 \/ (ended[t] # 0 /\ m.sent <= ended[t])
          BY <1>1, <1>3 DEF HeardOf
        <5>2. ended[t] \in Nat /\ Delay \in Nat
          BY <1>3, <1>4, SilenceIsLong DEF ShownTypes
        <5> QED BY <1>4, <5>1, <5>2
      <4> QED BY <1>2, <1>4, <4>1, <4>2, <4>3
    <3> QED BY <3>1, <3>2
  <2>3. ASSUME NEW f \in net'
        PROVE  open'[f.from] # 0
               \/ (ended'[f.from] # 0 /\ f.sent <= ended'[f.from])
    BY <1>2, <1>3 DEF HeardOf
  <2> QED BY <2>1, <2>2, <2>3 DEF HeardOf
<1>8. ASSUME NEW u \in Tab, Account[u] # Self, open'[u] # 0
      PROVE  Cardinality(Unheard(u)') <= losses'
  <2>1. CASE Account[u] = Account[t]
    <3>1. ASSUME NEW s \in Unheard(u)' PROVE FALSE
      <4>1. s \in open[u]..clock /\ heard'[Account[u]] < s
        BY <1>2 DEF Unheard
      <4>2. heard'[Account[u]] = clock
        BY <1>5, <1>8, <2>1
      <4>3. open[u] \in Nat
        BY <1>3 DEF ShownTypes
      <4> QED BY <1>4, <4>1, <4>2, <4>3
    <3>2. Unheard(u)' = {}
      BY <3>1
    <3> QED BY <1>2, <1>3, <3>2, FS_EmptySet DEF ShownTypes
  <2>2. CASE Account[u] # Account[t]
    <3>1. Account[u] \in Shown!Accounts
      BY DEF Shown!Accounts
    <3>2. heard'[Account[u]] = heard[Account[u]]
      BY <1>5, <2>2, <3>1
    <3>3. ASSUME NEW s, [from |-> u, sent |-> s] \notin net'
          PROVE  [from |-> u, sent |-> s] \notin net
      BY <1>1, <1>2, <2>2, <3>3
    <3>4. Unheard(u)' \subseteq Unheard(u)
      BY <1>2, <3>2, <3>3 DEF Unheard, Interval
    <3> QED BY <1>2, <1>3, <1>8, <3>4, UnheardStays
  <2> QED BY <2>1, <2>2
<1>9. FewUnheard'
  BY <1>8 DEF FewUnheard
<1> QED BY <1>6, <1>7, <1>9 DEF ShownIInv

LEMMA ShownLoseKeeps ==
  ASSUME ShownIInv, NEW m \in net, Shown!Lose(m) PROVE ShownIInv'
<1>1. /\ net' = net \ {m} /\ losses < MaxLost /\ losses' = losses + 1
      /\ UNCHANGED <<timer, open, check, heard, clock, ended>>
  BY DEF Shown!Lose
<1>2. ShownTypes /\ FewUnheard /\ HeardOf
  BY DEF ShownIInv
<1>3. losses \in Nat /\ losses' \in 0..MaxLost
  BY <1>1, <1>2, SilenceIsLong DEF ShownTypes
<1>4. ShownTypes'
  BY <1>1, <1>2, <1>3 DEF ShownTypes, Shown!Gone, Shown!Accounts
<1>5. HeardOf'
  BY <1>1, <1>2 DEF HeardOf, Shown!Accounts
<1>6. ASSUME NEW u \in Tab, Account[u] # Self, open'[u] # 0
      PROVE  Cardinality(Unheard(u)') <= losses'
  <2>1. /\ IsFiniteSet(Unheard(u)) /\ Cardinality(Unheard(u)) \in Nat
        /\ Cardinality(Unheard(u)) <= losses
    BY <1>1, <1>2, <1>6, UnheardIsFinite DEF FewUnheard
  <2>2. PICK T : T = Unheard(u) \union {m.sent}
    OBVIOUS
  <2>3. IsFiniteSet(T) /\ Cardinality(T) <= Cardinality(Unheard(u)) + 1
    <3>1. PICK S : S = Unheard(u)
      OBVIOUS
    <3>2. PICK x : x = m.sent
      OBVIOUS
    <3>3. IsFiniteSet(S) /\ Cardinality(S) \in Nat
      BY <2>1, <3>1
    <3>4. /\ IsFiniteSet(S \cup {x})
          /\ Cardinality(S \cup {x})
               = IF x \in S THEN Cardinality(S) ELSE Cardinality(S) + 1
      BY <3>3, FS_AddElement
    <3>5. T = S \cup {x}
      BY <2>2, <3>1, <3>2
    <3>6. IsFiniteSet(T) /\ Cardinality(T) <= Cardinality(S) + 1
      BY <3>3, <3>4, <3>5
    <3> QED BY <3>1, <3>6
  <2>4. m = [from |-> m.from, sent |-> m.sent]
    BY <1>2 DEF ShownTypes, ShownFrame
  <2>5. ASSUME NEW s, s # m.sent, [from |-> u, sent |-> s] \notin net'
        PROVE  [from |-> u, sent |-> s] \notin net
    BY <1>1, <2>4, <2>5
  <2>6. Unheard(u)' \subseteq T
    BY <1>1, <2>2, <2>5 DEF Unheard, Interval
  <2>7. /\ Cardinality(Unheard(u)') <= Cardinality(T)
        /\ Cardinality(Unheard(u)') \in Nat /\ Cardinality(T) \in Nat
    BY <2>3, <2>6, FS_Subset, FS_CardinalityType
  <2> QED BY <1>1, <1>3, <2>1, <2>3, <2>7
<1>7. FewUnheard'
  BY <1>6 DEF FewUnheard
<1> QED BY <1>4, <1>5, <1>7 DEF ShownIInv

(* After so long a silence nobody is there: of the account's sayings since *)
(* it was last heard of, more would have been lost than can be.            *)
LEMMA ForgetKeeps ==
  ASSUME ShownIInv, Shown!Forget PROVE ShownIInv'
<1>1. /\ check = 0 /\ check' = Heartbeat
      /\ heard' = [a \in Shown!Accounts |->
                     IF Shown!Remembered(heard[a]) THEN heard[a] ELSE 0]
      /\ UNCHANGED <<timer, open, net, clock, losses, ended>>
  BY DEF Shown!Forget
<1>2. ShownTypes /\ FewUnheard /\ HeardOf
  BY DEF ShownIInv
<1>3. /\ Heartbeat \in Nat /\ Silence \in Nat /\ Delay \in Nat
      /\ MaxLost \in Nat /\ clock \in Nat /\ Heartbeat \in 0..Heartbeat
      /\ (MaxLost + 1) * Heartbeat + Delay <= Silence
  BY <1>2, SilenceIsLong DEF ShownTypes
<1>4. \A a \in Shown!Accounts :
        /\ heard[a] \in 0..clock
        /\ heard'[a] = heard[a] \/ heard'[a] = 0
        /\ heard'[a] # 0 => clock - heard'[a] <= Silence
        /\ heard'[a] # heard[a] => heard[a] # 0 /\ clock - heard[a] > Silence
  BY <1>1, <1>2, <1>3 DEF ShownTypes, Shown!Remembered
<1>5. heard' \in [Shown!Accounts -> 0..clock]
  BY <1>1, <1>2, <1>3 DEF ShownTypes
<1>6. ShownTypes'
  BY <1>1, <1>2, <1>3, <1>5 DEF ShownTypes, Shown!Gone, Shown!Accounts
<1>7. HeardOf'
  <2>1. Shown!Accounts' = Shown!Accounts
    BY DEF Shown!Accounts
  <2>2. ASSUME NEW a \in Shown!Accounts, heard'[a] # 0
        PROVE  /\ clock' - heard'[a] <= Silence + (Heartbeat - check')
               /\ \E u \in Tab :
                    /\ Account[u] = a /\ Account[u] # Self
                    /\ \/ open'[u] # 0
                       \/ ended'[u] # 0 /\ heard'[a] - ended'[u] <= Delay
    <3>1. heard'[a] = heard[a] /\ clock - heard'[a] <= Silence
      BY <1>4, <2>2
    <3>2. clock' - heard'[a] <= Silence + (Heartbeat - check')
      BY <1>1, <1>3, <1>4, <3>1
    <3> QED BY <1>1, <1>2, <2>2, <3>1, <3>2 DEF HeardOf
  <2>3. ASSUME NEW f \in net'
        PROVE  open'[f.from] # 0
               \/ (ended'[f.from] # 0 /\ f.sent <= ended'[f.from])
    BY <1>1, <1>2 DEF HeardOf
  <2> QED BY <2>1, <2>2, <2>3 DEF HeardOf
<1>8. ASSUME NEW u \in Tab, Account[u] # Self, open'[u] # 0
      PROVE  Cardinality(Unheard(u)') <= losses'
  <2>1. PICK h : h = heard[Account[u]]
    OBVIOUS
  <2>2. Account[u] \in Shown!Accounts /\ open[u] \in Nat /\ open[u] # 0
    BY <1>1, <1>2, <1>8 DEF Shown!Accounts, ShownTypes
  <2>3. h \in 0..clock
    BY <1>4, <2>1, <2>2
  <2>4. CASE heard'[Account[u]] = h
    <3>1. Unheard(u)' \subseteq Unheard(u)
      BY <1>1, <2>1, <2>4 DEF Unheard, Interval
    <3> QED BY <1>1, <1>2, <1>8, <3>1, UnheardStays
  <2>5. CASE heard'[Account[u]] # h /\ h < open[u]
    <3>1. ASSUME NEW s \in Unheard(u)' PROVE s \in Unheard(u)
      <4>1. s \in open[u]..clock
        BY <1>1, <3>1 DEF Unheard
      <4>2. h < s
        BY <1>3, <2>2, <2>3, <2>5, <4>1
      <4> QED BY <1>1, <2>1, <3>1, <4>2 DEF Unheard, Interval
    <3> QED BY <1>1, <1>2, <1>8, <3>1, UnheardStays
  <2>6. CASE heard'[Account[u]] # h /\ ~(h < open[u])
    <3>1. clock - h > Silence
      BY <1>4, <2>1, <2>2, <2>6
    <3>2. /\ losses \in Nat /\ losses <= MaxLost /\ timer[u] # Shown!Gone
          /\ Cardinality(Unheard(u)) <= losses
      BY <1>2, <1>3, <1>8, <2>2 DEF ShownTypes, FewUnheard
    <3>3. (losses + 1) * Heartbeat + Delay < clock - h
      <4>1. /\ (losses + 1) * Heartbeat <= (MaxLost + 1) * Heartbeat
            /\ (losses + 1) * Heartbeat \in Nat
        BY <1>3, <3>2, ProductsGrow
      <4>2. (MaxLost + 1) * Heartbeat \in Nat
        BY <1>3, ProductsGrow
      <4> QED BY <1>3, <2>3, <3>1, <4>1, <4>2
    <3>4. \A i \in 0..losses : Interval(u, First(u) + i) \in Unheard(u)
      <4> SUFFICES ASSUME NEW i \in 0..losses
                   PROVE  Interval(u, First(u) + i) \in Unheard(u)
        OBVIOUS
      <4>1. PICK s : s = Interval(u, First(u) + i)
        OBVIOUS
      <4>2. s \in Nat /\ h < s /\ s < clock - Delay
        BY <1>2, <2>3, <3>2, <3>3, <4>1, SilenceIsBroken
      <4>3. [from |-> u, sent |-> s] \notin net
        <5>1. ASSUME NEW f \in net, f = [from |-> u, sent |-> s] PROVE FALSE
          <6>1. f.sent = s /\ clock - f.sent <= Delay
            BY <1>2, <5>1 DEF ShownTypes
          <6> QED BY <1>3, <4>2, <6>1
        <5> QED BY <5>1
      <4>4. s \in open[u]..clock
        BY <1>3, <2>2, <2>3, <2>6, <4>2
      <4>5. First(u) + i \in Nat
        BY DEF First
      <4> QED BY <2>1, <4>1, <4>2, <4>3, <4>4, <4>5 DEF Unheard
    <3>5. losses + 1 <= Cardinality(Unheard(u))
      <4>1. PICK f : f = [i \in 0..losses |-> Interval(u, First(u) + i)]
        OBVIOUS
      <4>2. f \in [0..losses -> Unheard(u)]
        BY <3>4, <4>1
      <4>3. ASSUME NEW i \in 0..losses, NEW j \in 0..losses, f[i] = f[j]
            PROVE  i = j
        <5>1. First(u) \in Nat
          BY DEF First
        <5>2. First(u) + i \in Nat /\ First(u) + j \in Nat
          BY <5>1
        <5>3. Interval(u, First(u) + i) = Interval(u, First(u) + j)
          BY <4>1, <4>3
        <5>4. First(u) + i = First(u) + j
          BY <1>2, <3>2, <5>2, <5>3, IntervalsDiffer
        <5> QED BY <5>1, <5>4
      <4>4. IsFiniteSet(Unheard(u))
        BY <1>2, UnheardIsFinite
      <4> QED BY <3>2, <4>2, <4>3, <4>4, DifferentCount
    <3>6. Cardinality(Unheard(u)) \in Nat
      BY <1>2, UnheardIsFinite
    <3> QED BY <3>2, <3>5, <3>6
  <2> QED BY <2>4, <2>5, <2>6
<1>9. FewUnheard'
  BY <1>8 DEF FewUnheard
<1> QED BY <1>6, <1>7, <1>9 DEF ShownIInv

LEMMA ShownTickKeeps ==
  ASSUME ShownIInv, Shown!Tick PROVE ShownIInv'
<1>1. /\ clock' = clock + 1 /\ check > 0 /\ \A t \in Tab : timer[t] # 0
      /\ \A m \in net : clock - m.sent < Delay
      /\ check' = check - 1
      /\ timer' = [t \in Tab |-> IF timer[t] = Shown!Gone THEN Shown!Gone
                                                          ELSE timer[t] - 1]
      /\ UNCHANGED <<open, heard, net, losses, ended>>
  BY DEF Shown!Tick
<1>2. ShownTypes /\ FewUnheard /\ HeardOf
  BY DEF ShownIInv
<1>3. /\ Heartbeat \in Nat /\ Delay \in Nat /\ Silence \in Nat
      /\ clock \in Nat \ {0} /\ check \in 0..Heartbeat
  BY <1>2, SilenceIsLong DEF ShownTypes
<1>4. ShownTypes'
  <2>1. /\ timer' \in [Tab -> {Shown!Gone} \union 0..Heartbeat]
        /\ \A t \in Tab : timer'[t] = Shown!Gone => timer[t] = Shown!Gone
    BY <1>1, <1>2, <1>3 DEF ShownTypes, Shown!Gone
  <2>2. check' \in 0..Heartbeat /\ clock' \in Nat \ {0}
    BY <1>1, <1>3
  <2>3. \A m \in net' : m.sent <= clock' /\ clock' - m.sent <= Delay
    <3>1. ASSUME NEW m \in net
          PROVE  m.sent <= clock + 1 /\ (clock + 1) - m.sent <= Delay
      <4>1. m.sent \in Nat /\ m.sent <= clock /\ clock - m.sent < Delay
        BY <1>1, <1>2 DEF ShownTypes, ShownFrame
      <4> QED BY <1>3, <4>1
    <3>2. net' = net /\ clock' = clock + 1
      BY <1>1
    <3> QED BY <3>1, <3>2
  <2>4. \A n \in 0..clock : n \in 0..clock'
    BY <1>1, <1>3
  <2>5. /\ open' \in [Tab -> 0..clock'] /\ ended' \in [Tab -> 0..clock']
        /\ heard' \in [Shown!Accounts -> 0..clock']
    BY <1>1, <1>2, <2>4 DEF ShownTypes
  <2> QED
    BY <1>1, <1>2, <2>1, <2>2, <2>3, <2>5
       DEF ShownTypes, Shown!Gone, Shown!Accounts
<1>5. HeardOf'
  <2>1. Shown!Accounts' = Shown!Accounts
    BY DEF Shown!Accounts
  <2>2. ASSUME NEW a \in Shown!Accounts, heard[a] # 0
        PROVE  clock' - heard[a] <= Silence + (Heartbeat - check')
    <3>1. /\ heard[a] \in Nat
          /\ clock - heard[a] <= Silence + (Heartbeat - check)
      BY <1>2, <2>2 DEF ShownTypes, HeardOf
    <3> QED BY <1>1, <1>3, <3>1
  <2> QED BY <1>1, <1>2, <2>1, <2>2 DEF HeardOf
<1>6. ASSUME NEW u \in Tab, Account[u] # Self, open'[u] # 0
      PROVE  Cardinality(Unheard(u)') <= losses'
  <2>1. open[u] # 0 /\ open[u] \in 0..clock /\ timer[u] \in 0..Heartbeat
    BY <1>1, <1>2, <1>6 DEF ShownTypes
  <2>2. timer'[u] = timer[u] - 1
    BY <1>1, <1>2, <2>1 DEF ShownTypes
  <2>3. \A k \in Nat : Interval(u, k)' = Interval(u, k)
    <3> SUFFICES ASSUME NEW k \in Nat
                 PROVE  Interval(u, k)' = Interval(u, k)
      OBVIOUS
    <3>1. PICK h : h = k * Heartbeat
      OBVIOUS
    <3>2. h \in Nat /\ timer[u] \in Nat
      BY <1>3, <2>1, <3>1, ProductsGrow
    <3>3. /\ Interval(u, k) = clock - (Heartbeat - timer[u]) - h
          /\ Interval(u, k)' = (clock + 1) - (Heartbeat - (timer[u] - 1)) - h
      BY <1>1, <2>2, <3>1 DEF Interval
    <3> QED BY <1>3, <3>2, <3>3
  <2>4. ASSUME NEW s \in Unheard(u)' PROVE s \in Unheard(u)
    <3>1. /\ s \in open[u]..(clock + 1) /\ heard[Account[u]] < s
          /\ [from |-> u, sent |-> s] \notin net
          /\ s = open[u] \/ \E k \in Nat : s = Interval(u, k)
      BY <1>1, <2>3, <2>4 DEF Unheard
    <3>2. s # clock + 1
      <4>1. ASSUME NEW k \in Nat PROVE Interval(u, k) # clock + 1
        <5>1. k * Heartbeat \in Nat
          BY <1>3, ProductsGrow
        <5> QED BY <1>3, <2>1, <5>1 DEF Interval
      <4> QED BY <1>3, <2>1, <3>1, <4>1
    <3>3. s \in open[u]..clock
      BY <1>3, <2>1, <3>1, <3>2
    <3> QED BY <3>1, <3>3 DEF Unheard
  <2> QED BY <1>1, <1>2, <1>6, <2>1, <2>4, UnheardStays
<1>7. FewUnheard'
  BY <1>6 DEF FewUnheard
<1> QED BY <1>4, <1>5, <1>7 DEF ShownIInv

ShownInv == part = "presence" => ShownIInv

LEMMA ShownGoesOn == ASSUME ShownInv, [Next]_vars PROVE ShownInv'
<1> SUFFICES ASSUME part = "presence", ShownIInv, [Shown!Next]_presenceVars
             PROVE  ShownIInv'
  BY PartSteps DEF ShownInv
<1>1. CASE UNCHANGED presenceVars
  <2>1. UNCHANGED <<timer, open, check, heard, net, clock, losses, ended>>
    BY <1>1 DEF presenceVars
  <2>2. \A t \in Tab : Unheard(t)' = Unheard(t)
    BY <2>1 DEF Unheard, Interval
  <2> QED
    BY <2>1, <2>2 DEF ShownIInv, ShownTypes, FewUnheard, HeardOf,
       Shown!Gone, Shown!Accounts
<1>2. CASE Shown!Next
  BY <1>2, ConnectedKeeps, ClosedKeeps, ShownJoinKeeps, BeatKeeps,
     DeliverKeeps, ShownLoseKeeps, ForgetKeeps, ShownTickKeeps
     DEF Shown!Next
<1> QED BY <1>1, <1>2

(* Whoever has had a channel for long has been heard: the channel's        *)
(* opening and the intervals since are more than were lost.                *)
LEMMA WhoIsThereIsShown == ASSUME ShownIInv PROVE Shown!PresentIsShown
<1> SUFFICES ASSUME NEW t \in Tab, Account[t] # Self, open[t] # 0,
                    clock - open[t] > Delay + losses * Heartbeat,
                    heard[Account[t]] = 0
             PROVE  FALSE
  BY DEF Shown!PresentIsShown
<1>1. ShownTypes /\ FewUnheard
  BY DEF ShownIInv
<1>2. /\ Heartbeat \in Nat /\ Delay \in Nat /\ clock \in Nat
      /\ losses \in Nat /\ open[t] \in 1..clock /\ timer[t] # Shown!Gone
      /\ losses * Heartbeat \in Nat
  BY <1>1, SilenceIsLong, ProductsGrow DEF ShownTypes
<1>3. \A f \in net : f.sent < clock - Delay => FALSE
  BY <1>1, <1>2 DEF ShownTypes, ShownFrame
<1>4. ASSUME NEW s \in open[t]..clock, s < clock - Delay,
             s = open[t] \/ \E k \in Nat : s = Interval(t, k)
      PROVE  s \in Unheard(t)
  <2>1. [from |-> t, sent |-> s] \notin net
    <3>1. ASSUME NEW f \in net, f = [from |-> t, sent |-> s] PROVE FALSE
      BY <1>3, <1>4, <3>1
    <3> QED BY <3>1
  <2>2. 0 < s
    BY <1>2
  <2> QED BY <1>4, <2>1, <2>2 DEF Unheard
<1>5. open[t] \in Unheard(t)
  BY <1>2, <1>4
<1>6. First(t) \in Nat
  BY DEF First
<1>7. ASSUME NEW i \in 1..losses
      PROVE  /\ First(t) + (i - 1) \in Nat
             /\ open[t] < Interval(t, First(t) + (i - 1))
             /\ Interval(t, First(t) + (i - 1)) \in Unheard(t)
  <2>1. losses - 1 \in Nat /\ i - 1 \in 0..(losses - 1) /\ open[t] \in Nat
    BY <1>2
  <2>2. ((losses - 1) + 1) * Heartbeat + Delay < clock - open[t]
    BY <1>2
  <2>3. PICK s : s = Interval(t, First(t) + (i - 1))
    OBVIOUS
  <2>4. s \in Nat /\ open[t] < s /\ s < clock - Delay
    BY <1>1, <1>2, <2>1, <2>2, <2>3, SilenceIsBroken
  <2>5. s \in open[t]..clock /\ First(t) + (i - 1) \in Nat
    BY <1>2, <1>6, <2>1, <2>4
  <2>6. s \in Unheard(t)
    BY <1>4, <2>3, <2>4, <2>5
  <2> QED BY <2>3, <2>4, <2>5, <2>6
<1>8. PICK f : f = [i \in 0..losses |->
                      IF i = 0 THEN open[t]
                      ELSE Interval(t, First(t) + (i - 1))]
  OBVIOUS
<1>9. \A i \in 0..losses : i = 0 \/ i \in 1..losses
  BY <1>2
<1>10. f \in [0..losses -> Unheard(t)]
  BY <1>5, <1>7, <1>8, <1>9
<1>11. ASSUME NEW i \in 0..losses, NEW j \in 0..losses, f[i] = f[j]
       PROVE  i = j
  <2>1. CASE i = 0 /\ j \in 1..losses
    <3>1. f[i] = open[t] /\ open[t] < f[j]
      BY <1>7, <1>8, <2>1
    <3> QED BY <1>2, <1>11, <3>1
  <2>2. CASE j = 0 /\ i \in 1..losses
    <3>1. f[j] = open[t] /\ open[t] < f[i]
      BY <1>7, <1>8, <2>2
    <3> QED BY <1>2, <1>11, <3>1
  <2>3. CASE i \in 1..losses /\ j \in 1..losses
    <3>1. Interval(t, First(t) + (i - 1)) = Interval(t, First(t) + (j - 1))
      BY <1>8, <1>11, <2>3
    <3>2. First(t) + (i - 1) = First(t) + (j - 1)
      BY <1>1, <1>2, <1>7, <2>3, <3>1, IntervalsDiffer
    <3> QED BY <1>6, <2>3, <3>2
  <2> QED BY <1>9, <2>1, <2>2, <2>3
<1>12. /\ IsFiniteSet(Unheard(t)) /\ Cardinality(Unheard(t)) \in Nat
       /\ Cardinality(Unheard(t)) <= losses
  BY <1>1, UnheardIsFinite DEF FewUnheard
<1>13. losses + 1 <= Cardinality(Unheard(t))
  BY <1>2, <1>10, <1>11, <1>12, DifferentCount
<1> QED BY <1>2, <1>12, <1>13

(* presence.js: with any tabs and accounts, whoever has had a channel for  *)
(* long enough is shown, in spite of the frames that are lost, and an      *)
(* account without one for long enough is not.                             *)
THEOREM RosterIsAsHeard == Spec => []PresenceAsHeard
<1>1. Init => ShownInv
  BY ShownStarts DEF Init, ShownInv
<1>2. ASSUME ShownIInv PROVE Shown!GoneIsForgotten
  <2> SUFFICES ASSUME NEW a \in Shown!Accounts, heard[a] # 0
               PROVE  \E t \in Tab :
                        /\ Account[t] = a /\ Account[t] # Self
                        /\ \/ open[t] # 0
                           \/ /\ ended[t] # 0
                              /\ clock - ended[t] <=
                                   Silence + Heartbeat + Delay
    BY DEF Shown!GoneIsForgotten
  <2>1. /\ clock - heard[a] <= Silence + (Heartbeat - check)
        /\ heard[a] \in Nat /\ clock \in Nat /\ check \in Nat
        /\ Heartbeat \in Nat /\ Silence \in Nat /\ Delay \in Nat
    BY <1>2, SilenceIsLong DEF ShownIInv, ShownTypes, HeardOf
  <2>2. PICK t \in Tab : /\ Account[t] = a /\ Account[t] # Self
                         /\ \/ open[t] # 0
                            \/ ended[t] # 0 /\ heard[a] - ended[t] <= Delay
    BY <1>2 DEF ShownIInv, HeardOf
  <2>3. ended[t] \in Nat
    BY <1>2 DEF ShownIInv, ShownTypes
  <2> QED BY <2>1, <2>2, <2>3
<1>3. ShownInv => PresenceAsHeard
  BY <1>2, WhoIsThereIsShown DEF ShownInv, PresenceAsHeard,
     Shown!PresenceAsHeard
<1> QED BY <1>1, <1>3, ShownGoesOn, PTL DEF Spec
=============================================================================
