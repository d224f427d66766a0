------------------------------- MODULE Accounts -------------------------------
(***************************************************************************)
(* How accounts come to be: Register of handlers/auth.go, MintInvite and   *)
(* RevokeInvite of handlers/admin.go, over the credential store            *)
(* (userauth/store.go) and the invite store (invites/store.go).  The two   *)
(* stores are two databases, each call of a store is a statement or a      *)
(* transaction of one, and no lock spans the calls of a handler.           *)
(***************************************************************************)
EXTENDS Naturals, FiniteSets

CONSTANTS Account,
          Reserved,   \* the ids no stranger may take (reservedPrivilegedID)
          Invite,     \* bound: invites ever minted, numbered from 1
          MaxUses,    \* MaxUses[i]: max_uses of the i-th invite
          Request,    \* bound: requests under way at once
          MaxSeats,   \* the entitlement's cap, 0 for none
          MaxCalls,   \* bound: requests ever made
          MaxFaults   \* bound: store calls that fail

VARIABLES users,    \* the accounts in the credential store
          invite,   \* invite[i]: its row in the invite store
          request,  \* request[r]: a handler under way
          calls, faults,
          admitted, \* history: the accounts that invite i let in
          unasked,  \* history: the accounts that nobody authorised
          contested,\* history: invites of which a use was not counted as the
                    \* next began
          crossed   \* history: two handlers counted seats before either added

vars == <<users, invite, request, calls, faults, admitted, unasked, contested,
          crossed>>

NoInvite == 0
NewInvite == [minted |-> FALSE, used |-> 0, over |-> FALSE]

(* token: the invite in X-Registration-Token; asked: the static token or   *)
(* an admin JWT is in order; valid: the invite was; seats: what was        *)
(* counted.                                                                *)
RequestState ==
  [at : {"none", "hasUsers", "valid", "first", "members", "invites", "exists",
         "insert", "consume", "mint"},
   account : Account, token : Invite \union {NoInvite}, asked : BOOLEAN,
   hasUsers : BOOLEAN, valid : BOOLEAN, seats : Nat, minting : BOOLEAN]
NoRequest ==
  [at |-> "none", account |-> CHOOSE a \in Account : TRUE,
   token |-> NoInvite, asked |-> FALSE, hasUsers |-> FALSE,
   valid |-> FALSE, seats |-> 0, minting |-> FALSE]

Init ==
  /\ users = {} /\ invite = [i \in Invite |-> NewInvite]
  /\ request = [r \in Request |-> NoRequest]
  /\ calls = 0 /\ faults = 0
  /\ admitted = [i \in Invite |-> {}] /\ unasked = {}
  /\ contested = {} /\ crossed = FALSE

-----------------------------------------------------------------------------
(* validateInvite, and Active, which agree.                                *)
Redeemable(i) ==
  invite[i].minted /\ ~invite[i].over /\ invite[i].used < MaxUses[i]

At(r, step) == request[r].at = step
GoTo(r, step) == request' = [request EXCEPT ![r].at = step]
Answer(r) == request' = [request EXCEPT ![r] = NoRequest]
Stores == <<users, invite>>
History == <<admitted, unasked, contested, crossed>>

Begin(call) ==
  /\ calls < MaxCalls /\ calls' = calls + 1
  /\ \E r \in Request :
       /\ At(r, "none") /\ \A q \in Request : q < r => ~At(q, "none")
       /\ request' = [request EXCEPT ![r] = call]
  /\ UNCHANGED <<Stores, faults, History>>

Register(a, i, asked) ==
  Begin([NoRequest EXCEPT !.at = "hasUsers", !.account = a, !.token = i,
                          !.asked = asked])
MintInvite == Begin([NoRequest EXCEPT !.at = "members", !.minting = TRUE])

(* HasUsers; when it fails the store counts as empty.                      *)
HasUsers(r) ==
  /\ At(r, "hasUsers")
  /\ \E fails \in {0, 1} :
       /\ faults + fails <= MaxFaults /\ faults' = faults + fails
       /\ request' = [request EXCEPT ![r].hasUsers = fails = 0 /\ users # {},
                                     ![r].at = "valid"]
  /\ UNCHANGED <<Stores, calls, History>>

(* Valid, asked only when nothing else authorises; then the decisions that *)
(* take no store.                                                          *)
Using(i) == {q \in Request : request[q].token = i /\ request[q].valid}
Valid(r) ==
  LET p == request[r]
      valid == ~p.asked /\ p.token # NoInvite /\ Redeemable(p.token)
      authorized == p.asked \/ valid
  IN  /\ At(r, "valid")
      /\ contested' = IF valid /\ Using(p.token) # {}
                        THEN contested \union {p.token} ELSE contested
      /\ IF \/ p.account \in Reserved /\ ~authorized
            \/ p.hasUsers /\ ~authorized
           THEN Answer(r)
           ELSE request' = [request EXCEPT ![r].valid = valid,
                  ![r].at = IF authorized THEN "members" ELSE "first"]
      /\ UNCHANGED <<Stores, calls, faults, admitted, unasked, crossed>>

(* Mutated form of RegisterFirst: it inserts without counting.             *)
RegisterFirstUnchecked(r) ==
  /\ At(r, "first") /\ Answer(r)
  /\ users' = users \union {request[r].account}
  /\ unasked' = unasked \union {request[r].account}
  /\ UNCHANGED <<invite, calls, faults, admitted, contested, crossed>>

(* RegisterFirst counts and inserts in one transaction; ErrNotFirstUser    *)
(* ends as any unauthorised call does.                                     *)
RegisterFirst(r) ==
  /\ At(r, "first") /\ Answer(r)
  /\ IF users = {}
       THEN /\ users' = {request[r].account}
            /\ unasked' = unasked \union {request[r].account}
       ELSE UNCHANGED <<users, unasked>>
  /\ UNCHANGED <<invite, calls, faults, admitted, contested, crossed>>

(* currentSeatUsage: the members, then the active invites.                 *)
CountUsers(r) ==
  /\ At(r, "members")
  /\ request' = [request EXCEPT ![r].seats = Cardinality(users),
                                ![r].at = "invites"]
  /\ UNCHANGED <<Stores, calls, faults, History>>

(* Mutated form of Allowed: off by one.                                    *)
AllowedOneMore(seats) == MaxSeats = 0 \/ seats <= MaxSeats

(* ... and GateSeats, with the sum.                                        *)
Allowed(seats) == MaxSeats = 0 \/ seats < MaxSeats
Adding == {q \in Request : request[q].at \in {"invites", "exists", "insert",
                                              "mint"}}
Gate(r) ==
  LET seats == request[r].seats + Cardinality({i \in Invite : Redeemable(i)})
      next == IF request[r].minting THEN "mint" ELSE "exists"
  IN  /\ At(r, "invites")
      /\ IF Allowed(seats) THEN GoTo(r, next) ELSE Answer(r)
      /\ UNCHANGED <<Stores, calls, faults, History>>

Mint(r) ==
  /\ At(r, "mint") /\ Answer(r)
  /\ \E i \in Invite :
       /\ ~invite[i].minted /\ \A j \in Invite : j < i => invite[j].minted
       /\ invite' = [invite EXCEPT ![i].minted = TRUE]
  /\ crossed' = (crossed \/ Adding # {r})
  /\ UNCHANGED <<users, calls, faults, admitted, unasked, contested>>

(* Register of the credential store: a query, the hash, the insertion,     *)
(* which the primary key refuses for an account that exists by then.       *)
Exists(r) ==
  /\ At(r, "exists")
  /\ IF request[r].account \in users THEN Answer(r) ELSE GoTo(r, "insert")
  /\ UNCHANGED <<Stores, calls, faults, History>>
Insert(r) ==
  LET p == request[r]
  IN  /\ At(r, "insert")
      /\ IF p.account \in users
           THEN Answer(r) /\ UNCHANGED <<users, admitted, crossed>>
           ELSE /\ users' = users \union {p.account}
                /\ crossed' = (crossed \/ Adding # {r})
                /\ IF p.valid
                     THEN /\ GoTo(r, "consume")
                          /\ admitted' = [admitted EXCEPT
                                            ![p.token] = @ \union {p.account}]
                     ELSE Answer(r) /\ UNCHANGED admitted
      /\ UNCHANGED <<invite, calls, faults, unasked, contested>>

(* Mutated form of Consume: it counts a use whether one is left or not.    *)
ConsumeUnchecked(r) ==
  /\ At(r, "consume") /\ Answer(r)
  /\ invite' = [invite EXCEPT ![request[r].token].used = @ + 1]
  /\ UNCHANGED <<users, calls, faults, History>>

(* Consume, one transaction; the handler ignores its error.  The process   *)
(* may also die before it.                                                 *)
Consume(r) ==
  LET i == request[r].token
  IN  /\ At(r, "consume") /\ Answer(r)
      /\ IF Redeemable(i)
           THEN invite' = [invite EXCEPT ![i].used = @ + 1]
           ELSE UNCHANGED invite
      /\ UNCHANGED <<users, calls, faults, History>>
ConsumeFails(r) ==
  /\ At(r, "consume") /\ Answer(r)
  /\ faults < MaxFaults /\ faults' = faults + 1
  /\ contested' = contested \union {request[r].token}
  /\ UNCHANGED <<Stores, calls, admitted, unasked, crossed>>

(* An admin revokes an invite, or it expires.                              *)
RevokeInvite(i) ==
  /\ invite[i].minted /\ ~invite[i].over
  /\ invite' = [invite EXCEPT ![i].over = TRUE]
  /\ UNCHANGED <<users, request, calls, faults, History>>

Next ==
  \/ MintInvite
  \/ \E a \in Account :
       \/ Register(a, NoInvite, TRUE)
       \/ \E i \in Invite \union {NoInvite} : Register(a, i, FALSE)
  \/ \E r \in Request :
       \/ HasUsers(r) \/ Valid(r) \/ RegisterFirst(r) \/ CountUsers(r)
       \/ Gate(r) \/ Mint(r) \/ Exists(r) \/ Insert(r) \/ Consume(r)
       \/ ConsumeFails(r)
  \/ \E i \in Invite : RevokeInvite(i)
Spec == Init /\ [][Next]_vars

-----------------------------------------------------------------------------
TypeOK ==
  /\ users \subseteq Account
  /\ invite \in [Invite -> [minted : BOOLEAN, used : Nat, over : BOOLEAN]]
  /\ request \in [Request -> RequestState]

(* An invite lets in as many accounts as it has uses, and counts each one, *)
(* unless one registration began with it before another was counted, or    *)
(* the counting failed.                                                    *)
InvitesAreCounted ==
  \A i \in Invite :
    /\ invite[i].used <= MaxUses[i]
    /\ i \notin contested => Cardinality(admitted[i]) <= MaxUses[i]

(* Whatever fails or overlaps, one account at most came to be without a    *)
(* token, an invite or an admin, the first one, and no reserved id did.    *)
OneBootstrap == Cardinality(unasked) <= 1 /\ unasked \intersect Reserved = {}

(* Members and outstanding invites keep within the seats, unless two       *)
(* handlers counted before either had added; the first account is not      *)
(* counted at all.                                                         *)
SeatsTaken ==
  Cardinality(users) + Cardinality({i \in Invite : Redeemable(i)})
SeatsWithinCap ==
  MaxSeats # 0 /\ ~crossed => SeatsTaken <= MaxSeats + Cardinality(unasked)
=============================================================================
