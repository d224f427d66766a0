------------------------------- MODULE Signing -------------------------------
(***************************************************************************)
(* One envelope of the e-signing service, from its first Send on: the      *)
(* handlers of signing.go, orchestration.go, envelopes.go and seal.go as   *)
(* sequences of storage calls, over either backend.  Each handler works on *)
(* a copy of the whole envelope it read when it began, and no lock spans   *)
(* two storage calls, so several handlers interleave.  An audit event      *)
(* names the event before it by hash; a hash is modelled by the event's    *)
(* timestamp.                                                              *)
(***************************************************************************)
EXTENDS Naturals, FiniteSets, Sequences

CONSTANTS Setting,   \* <<backend, order mode, faults>> to consider: a fault
                     \* is a failed read, or a request that dies
          Signer,    \* the signers, numbered in signing order
          Request,   \* bound: requests under way at once
          SignedFirst, \* at first, up to this signer all may have signed
          MaxCalls   \* bound: handlers called from then on

VARIABLES backend,   \* "local" or "postgres"
          mode,      \* the envelope's order_mode
          env,       \* the stored envelope
          log,       \* its stored audit events
          sealed,    \* the stored sealed PDF: its hash, the events it lists
          clock,     \* the timestamp given last
          request,   \* request[r]: a handler under way
          left, mayFail,
          died,      \* history: a request died
          broken,    \* history: events that may not link to the one before
          stale      \* history: a request wrote over what it had not read

vars == <<backend, mode, env, log, sealed, clock, left, request, mayFail,
          died, broken, stale>>

SignerStatus == {"pending", "sent", "viewed", "signed", "declined"}
EnvelopeStatus == {"draft", "sent", "completed", "declined", "voided"}
Time == 0..(2 + SignedFirst + MaxCalls)

(* filled: the signers whose fields have values; final: final_doc_hash.    *)
Envelope == [status : EnvelopeStatus, signer : [Signer -> SignerStatus],
             filled : SUBSET Signer, final : Time]
AuditEvent == [ts : Time, action : {"created", "sent", "viewed", "signed",
                "completed", "declined", "voided"}, by : Signer \union {0},
               prev : Time]
Event(ts, action, by, prev) ==
  [ts |-> ts, action |-> action, by |-> by, prev |-> prev]

(* What a handler does after it has read the envelope.                     *)
PlanWritingBeforeStoring ==
  [sent      |-> <<"upsert", "write", "stamp", "list", "append">>,
   viewed    |-> <<"upsert", "stamp", "list", "append">>,
   signed    |-> <<"stamp", "list", "append", "upsert", "write", "upsert">>,
   declined  |-> <<"upsert", "write", "stamp", "list", "append">>,
   voided    |-> <<"write", "stamp", "list", "append">>,
   completed |-> <<"stamp", "write", "store", "list", "append">>]
Plan ==
  [sent      |-> <<"upsert", "write", "stamp", "list", "append">>,
   viewed    |-> <<"upsert", "stamp", "list", "append">>,
   signed    |-> <<"stamp", "list", "append", "upsert", "write", "upsert">>,
   declined  |-> <<"upsert", "write", "stamp", "list", "append">>,
   voided    |-> <<"write", "stamp", "list", "append">>,
   completed |-> <<"stamp", "store", "write", "list", "append">>]

(* base: the envelope as it was read, and mine: as the handler changed it. *)
SignedBy(S) ==
  [status |-> "sent", filled |-> S, final |-> 0,
   signer |-> [s \in Signer |-> IF s \in S THEN "signed" ELSE "sent"]]
AsSent == SignedBy({})
NotSealed == [hash |-> 0, events |-> {}]
NoRequest ==
  [action |-> "sent", by |-> 0, todo |-> {}, plan |-> << >>, base |-> AsSent,
   mine |-> AsSent, fresh |-> AsSent, ts |-> 0, prev |-> 0, saw |-> {}]

Init ==
  /\ \E setting \in Setting : backend = setting[1] /\ mode = setting[2]
                              /\ mayFail = setting[3]
  /\ \E n \in 0..SignedFirst :
       /\ env = SignedBy(1..n) /\ clock = 2 + n
       /\ log = {Event(1, "created", 0, 0), Event(2, "sent", 0, 1)}
                  \union {Event(2 + s, "signed", s, 1 + s) : s \in 1..n}
  /\ sealed = NotSealed /\ left = MaxCalls
  /\ request = [r \in Request |-> NoRequest]
  /\ broken = {} /\ stale = FALSE /\ died = FALSE

-----------------------------------------------------------------------------
Remaining(r) == {request[r].plan[i] : i \in 1..Len(request[r].plan)}
Idle(r) == request[r].plan = << >>
Step(r, step) == ~Idle(r) /\ Head(request[r].plan) = step
Popped(r) == [request[r] EXCEPT !.plan = Tail(@), !.fresh = AsSent]
(* A local upsert writes a signer file, which no handler reads back.       *)
NothingToUpsert(p) ==
  /\ p.plan # << >> /\ Head(p.plan) = "upsert"
  /\ backend = "local" \/ p.todo = {}
Continue(r, p) ==
  LET next == IF NothingToUpsert(p) THEN Tail(p.plan) ELSE p.plan
  IN  request' = [request EXCEPT ![r] =
                    IF next = << >> THEN NoRequest
                                    ELSE [p EXCEPT !.plan = next]]

(* Mutated form of AllSigned: one signature is enough.                     *)
AnySigned(e) == \E s \in Signer : e.signer[s] = "signed"

AllSigned(e) == \A s \in Signer : e.signer[s] = "signed"
Active(e, s) == e.signer[s] \notin {"signed", "declined"}
Locked(s) ==
  mode = "sequential" /\ \E t \in Signer : t < s /\ env.signer[t] # "signed"

(* The handler reads the envelope and decides what it will become.         *)
Begin(r, action, by, todo, mine) ==
  /\ Idle(r) /\ \A q \in Request : q < r => ~Idle(q)
  /\ left > 0 /\ left' = left - 1
  /\ Continue(r, [NoRequest EXCEPT !.action = action, !.by = by,
                                   !.todo = todo, !.plan = Plan[action],
                                   !.base = env, !.mine = mine])
  /\ UNCHANGED <<backend, mode, env, log, sealed, clock, mayFail, died,
                 broken, stale>>

Send(r) ==
  Begin(r, "sent", 0, Signer,
        [env EXCEPT !.status = "sent", !.signer = [s \in Signer |-> "sent"]])

(* Mutated form of GetSignerView: a signer who has signed is marked as     *)
(* viewed too.                                                             *)
GetSignerViewOfAny(r, s) ==
  /\ ~Locked(s)
  /\ Begin(r, "viewed", s, {s}, [env EXCEPT !.signer[s] = "viewed"])

(* The first opening of a link is logged; locally every one is, since the  *)
(* viewed mark is not read back.                                           *)
GetSignerView(r, s) ==
  /\ ~Locked(s) /\ env.signer[s] \in {"sent", "pending"}
  /\ Begin(r, "viewed", s, {s}, [env EXCEPT !.signer[s] = "viewed"])

(* Complete looks neither at the order nor at the envelope's status.       *)
CompletedByOne(s) ==
  [env EXCEPT !.signer[s] = "signed", !.filled = @ \union {s},
              !.status = "completed"]
Completed(s) ==
  LET signed == [env EXCEPT !.signer[s] = "signed", !.filled = @ \union {s}]
  IN  IF AllSigned(signed) THEN [signed EXCEPT !.status = "completed"]
                           ELSE signed
Complete(r, s) ==
  Active(env, s) /\ Begin(r, "signed", s, {s}, Completed(s))

Decline(r, s) ==
  /\ Active(env, s)
  /\ Begin(r, "declined", s, {s},
           [env EXCEPT !.signer[s] = "declined", !.status = "declined"])

Cancel(r) ==
  /\ env.status \notin {"completed", "voided"}
  /\ Begin(r, "voided", 0, {}, [env EXCEPT !.status = "voided"])

(* The first Download seals; a later one answers with what is stored.      *)
Download(r) ==
  /\ AllSigned(env) /\ sealed = NotSealed
  /\ Begin(r, "completed", 0, {}, [env EXCEPT !.status = "completed"])

(* The owner saves the set-up form over the envelope: a draft, all         *)
(* pending, without values or seal; the handler's own read supplies none   *)
(* of these.                                                               *)
Update ==
  /\ env' = [status |-> "draft", signer |-> [s \in Signer |-> "pending"],
             filled |-> {}, final |-> 0]
  /\ env.status # "draft"
  /\ stale' = (stale \/ \E e \in log : e.action = "signed")
  /\ UNCHANGED <<backend, mode, log, sealed, clock, left, request, mayFail,
                 died, broken>>

-----------------------------------------------------------------------------
(* UpsertSigner in Postgres reads the envelope again, replaces the signer  *)
(* and writes it.                                                          *)
Fetch(r) ==
  /\ Step(r, "upsert")
  /\ Continue(r, [request[r] EXCEPT !.fresh = env,
                                    !.plan = <<"replace">> \o @])
  /\ UNCHANGED <<backend, mode, env, log, sealed, clock, left, mayFail,
                 died, broken, stale>>

Replace(r) ==
  LET p == request[r]
      s == CHOOSE x \in p.todo : \A y \in p.todo : x <= y
  IN  /\ Step(r, "replace")
      /\ env' = [p.fresh EXCEPT !.signer[s] = p.mine.signer[s]]
      /\ stale' = (stale \/ env # p.fresh \/ p.action = "sent"
                       \/ env.signer[s] # p.base.signer[s])
      /\ Continue(r, [Popped(r) EXCEPT !.todo = @ \ {s},
                                       !.base.signer[s] = p.mine.signer[s]])
      /\ UNCHANGED <<backend, mode, log, sealed, clock, left, mayFail, died,
                     broken>>

(* UpdateEnvelope with the handler's copy.  Complete then advances the     *)
(* order: it activates the pending signers that come next.                 *)
Unlocked(e) ==
  LET signed == {s \in Signer : e.signer[s] = "signed"}
      waiting == {s \in Signer : e.signer[s] \in {"pending", "sent"}}
  IN  {s \in waiting : /\ e.signer[s] = "pending" /\ mode = "sequential"
                       /\ \A t \in waiting : s <= t
                       /\ signed # {} /\ \A t \in signed : t < s}
Write(r) ==
  LET p == request[r]
      next == IF p.action = "signed" THEN Unlocked(p.mine) ELSE {}
      final == IF p.action = "completed" THEN p.ts ELSE p.mine.final
  IN  /\ Step(r, "write")
      /\ env' = [p.mine EXCEPT !.final = final]
      /\ stale' = (stale \/ env # p.base \/ p.action = "sent")
      /\ Continue(r, [Popped(r) EXCEPT !.todo = next, !.base = env',
             !.mine = [env' EXCEPT !.signer = [s \in Signer |->
                          IF s \in next THEN "sent" ELSE @[s]]]])
      /\ UNCHANGED <<backend, mode, log, sealed, clock, left, mayFail, died,
                     broken>>

(* The event is made; a seal lists the events and builds the PDF, too.     *)
Stamp(r) ==
  /\ Step(r, "stamp")
  /\ clock' = clock + 1
  /\ Continue(r, [Popped(r) EXCEPT !.ts = clock + 1,
                        !.saw = IF request[r].action = "completed" THEN log
                                                                   ELSE {}])
  /\ UNCHANGED <<backend, mode, env, log, sealed, left, mayFail, died,
                 broken, stale>>

StoreSealedPDF(r) ==
  /\ Step(r, "store")
  /\ sealed' = [hash |-> request[r].ts, events |-> request[r].saw]
  /\ Continue(r, [Popped(r) EXCEPT !.saw = {}])
  /\ UNCHANGED <<backend, mode, env, log, clock, left, mayFail, died,
                 broken, stale>>

(* appendChainedAuditEvent.  When the events cannot be listed, the chain   *)
(* is started afresh.                                                      *)
Latest(events) ==
  IF events = {} THEN 0
  ELSE (CHOOSE e \in events : \A f \in events : f.ts <= e.ts).ts

(* Mutated form of List: the hash of the first event is taken for that of  *)
(* the last.                                                               *)
ListFirst(r) ==
  /\ Step(r, "list")
  /\ Continue(r, [Popped(r) EXCEPT !.prev = 1])
  /\ UNCHANGED <<backend, mode, env, log, sealed, clock, left, mayFail, died,
                 broken, stale>>

List(r) ==
  /\ Step(r, "list")
  /\ Continue(r, [Popped(r) EXCEPT !.prev = Latest(log)])
  /\ UNCHANGED <<backend, mode, env, log, sealed, clock, left, mayFail,
                 died, broken, stale>>
ListFails(r) ==
  /\ Step(r, "list") /\ mayFail > 0
  /\ mayFail' = mayFail - 1 /\ broken' = broken \union {request[r].ts}
  /\ Continue(r, [Popped(r) EXCEPT !.prev = 0])
  /\ UNCHANGED <<backend, mode, env, log, sealed, clock, left, died, stale>>

(* Requests that have stamped an event and not yet appended it.            *)
Appending ==
  {r \in Request : request[r].ts # 0 /\ "append" \in Remaining(r)}
AppendAuditEvent(r) ==
  LET p == request[r]
  IN  /\ Step(r, "append")
      /\ log' = log \union {Event(p.ts, p.action, p.by, p.prev)}
      /\ broken' = IF Appending = {r} THEN broken
                   ELSE broken \union {request[q].ts : q \in Appending}
      /\ Continue(r, Popped(r))
      /\ UNCHANGED <<backend, mode, env, sealed, clock, left, mayFail, died,
                     stale>>

(* The process dies, or a storage call fails, between two steps.           *)
Die(r) ==
  /\ ~Idle(r) /\ mayFail > 0
  /\ mayFail' = mayFail - 1 /\ died' = TRUE
  /\ Continue(r, NoRequest)
  /\ UNCHANGED <<backend, mode, env, log, sealed, clock, left, broken, stale>>

Next ==
  \/ Update
  \/ \E r \in Request :
       \/ Send(r) \/ Cancel(r) \/ Download(r)
       \/ \E s \in Signer :
            GetSignerView(r, s) \/ Complete(r, s) \/ Decline(r, s)
       \/ Fetch(r) \/ Replace(r) \/ Write(r) \/ Stamp(r) \/ StoreSealedPDF(r)
       \/ List(r) \/ ListFails(r) \/ AppendAuditEvent(r) \/ Die(r)
Spec == Init /\ [][Next]_vars

-----------------------------------------------------------------------------
TypeOK ==
  /\ env \in Envelope
  /\ log \subseteq AuditEvent /\ sealed.events \subseteq log
  /\ clock \in Time /\ broken \subseteq Time
  /\ \A r \in Request :
       request[r].base \in Envelope /\ request[r].mine \in Envelope

(* VerifyChain: every event names the one before it.                       *)
Before(events, e) == Latest({f \in events : f.ts < e.ts})
Links(events, e) == e.prev = Before(events, e)

(* The chain that the verification tool recomputes is intact, across all   *)
(* handlers, except at an event whose making overlapped the making of      *)
(* another, and at one whose predecessors could not be read.               *)
ChainIntact == \A e \in log : e.ts \notin broken => Links(log, e)

(* A sealed PDF carries the signature of every signer, and verifies unless *)
(* the chain was broken as above.                                          *)
SignedEvents(events, s) == {e \in events : e.action = "signed" /\ e.by = s}
SealVerifies ==
  sealed # NotSealed =>
    /\ \A s \in Signer : SignedEvents(sealed.events, s) # {}
    /\ \A e \in sealed.events : e.ts \in broken \/ Links(sealed.events, e)

(* The hash in the envelope, which the manifest reports, is that of the    *)
(* PDF that is served - unless a Download is under way, one died, or       *)
(* another request wrote over it.                                          *)
Sealing(r) == ~Idle(r) /\ request[r].action = "completed"
FinalHashIsOfSeal ==
  (/\ env.final # 0 /\ ~stale /\ ~died
   /\ \A r \in Request : ~Sealing(r) \/ "write" \notin Remaining(r))
    => env.final = sealed.hash

(* A signature in the audit log is in the envelope, with its values -      *)
(* unless its request is still to write it or died, the owner reset a      *)
(* signed envelope, or another request wrote over it.                      *)
SignatureKept ==
  \A s \in Signer :
    SignedEvents(log, s) # {} /\ ~stale /\ ~died =>
      \/ env.signer[s] = "signed" /\ s \in env.filled
      \/ \E r \in Request :
           ~Idle(r) /\ request[r].by = s /\ request[r].action = "signed"

(* An envelope that is completed, whatever overlapped, was signed by all.  *)
CompletedIsSigned ==
  env.status = "completed" => \A s \in Signer : SignedEvents(log, s) # {}
=============================================================================
