---------------------------- MODULE SigningProofs ----------------------------
(***************************************************************************)
(* For any signers, requests, faults and number of calls: the audit chain  *)
(* links (ChainIntact), a seal is true (SealVerifies, FinalHashIsOfSeal),  *)
(* and signatures are kept (SignatureKept, CompletedIsSigned).  The first  *)
(* part says what each step does to the request that takes it; then follow *)
(* the chain, the seal, and what is still to be written.                   *)
(***************************************************************************)
EXTENDS Signing, TLAPS

(* An envelope that was sent has signers, numbered from 1, of whom the     *)
(* first may have signed.                                                  *)
Numbered ==
  /\ Signer \subseteq Nat \ {0} /\ Signer # {}
  /\ SignedFirst \in Nat /\ 1..SignedFirst \subseteq Signer

-----------------------------------------------------------------------------
(* Signing.  What a handler has still to do, as it does it.                *)
Ends == {<< >>, <<"append">>, <<"list", "append">>,
         <<"stamp", "list", "append">>}
SignedPlans ==
  {<< >>, <<"upsert">>, <<"replace", "upsert">>, <<"write", "upsert">>,
   <<"upsert", "write", "upsert">>,
   <<"replace", "upsert", "write", "upsert">>,
   <<"append", "upsert", "write", "upsert">>,
   <<"list", "append", "upsert", "write", "upsert">>,
   <<"stamp", "list", "append", "upsert", "write", "upsert">>}
CompletedPlans ==
  {<< >>, <<"append">>, <<"list", "append">>, <<"write", "list", "append">>,
   <<"store", "write", "list", "append">>,
   <<"stamp", "store", "write", "list", "append">>}
OtherPlans ==
  Ends \union
  {<<"write", "stamp", "list", "append">>,
   <<"upsert", "stamp", "list", "append">>,
   <<"replace", "upsert", "stamp", "list", "append">>,
   <<"upsert", "write", "stamp", "list", "append">>,
   <<"replace", "upsert", "write", "stamp", "list", "append">>}
Plans(action) ==
  IF action = "signed" THEN SignedPlans
  ELSE IF action = "completed" THEN CompletedPlans ELSE OtherPlans

Steps(plan) == {plan[i] : i \in 1..Len(plan)}

LEMMA PlanOf ==
  /\ \A a : /\ Tail(<<a>>) = << >> /\ Head(<<a>>) = a
            /\ Steps(<<a>>) = {a} /\ <<a>> # << >>
  /\ \A a, b : /\ Tail(<<a, b>>) = <<b>> /\ Head(<<a, b>>) = a
               /\ Steps(<<a, b>>) = {a, b} /\ <<a, b>> # << >>
  /\ \A a, b, c :
       /\ Tail(<<a, b, c>>) = <<b, c>> /\ Head(<<a, b, c>>) = a
       /\ Steps(<<a, b, c>>) = {a, b, c} /\ <<a, b, c>> # << >>
  /\ \A a, b, c, d :
       /\ Tail(<<a, b, c, d>>) = <<b, c, d>> /\ Head(<<a, b, c, d>>) = a
       /\ Steps(<<a, b, c, d>>) = {a, b, c, d} /\ <<a, b, c, d>> # << >>
  /\ \A a, b, c, d, e :
       /\ Tail(<<a, b, c, d, e>>) = <<b, c, d, e>>
       /\ Head(<<a, b, c, d, e>>) = a
       /\ Steps(<<a, b, c, d, e>>) = {a, b, c, d, e}
       /\ <<a, b, c, d, e>> # << >>
  /\ \A a, b, c, d, e, f :
       /\ Tail(<<a, b, c, d, e, f>>) = <<b, c, d, e, f>>
       /\ Head(<<a, b, c, d, e, f>>) = a
       /\ Steps(<<a, b, c, d, e, f>>) = {a, b, c, d, e, f}
       /\ <<a, b, c, d, e, f>> # << >>
  /\ Steps(<< >>) = {}
BY DEF Steps

LEMMA FetchPlan ==
  /\ <<"replace">> \o <<"upsert">> = <<"replace", "upsert">>
  /\ <<"replace">> \o <<"upsert", "write", "upsert">> =
       <<"replace", "upsert", "write", "upsert">>
  /\ <<"replace">> \o <<"upsert", "stamp", "list", "append">> =
       <<"replace", "upsert", "stamp", "list", "append">>
  /\ <<"replace">> \o <<"upsert", "write", "stamp", "list", "append">> =
       <<"replace", "upsert", "write", "stamp", "list", "append">>
<1>1. \A a, b : <<a>> \o <<b>> = <<a, b>>
  <2> TAKE a, b
  <2>1. /\ Len(<<a>> \o <<b>>) = 2
        /\ (<<a>> \o <<b>>)[1] = a /\ (<<a>> \o <<b>>)[2] = b
    OBVIOUS
  <2>2. <<a>> \o <<b>> = [i \in 1..2 |-> (<<a>> \o <<b>>)[i]]
    OBVIOUS
  <2>3. <<a, b>> = [i \in 1..2 |-> <<a, b>>[i]]
    OBVIOUS
  <2>4. \A i \in 1..2 : (<<a>> \o <<b>>)[i] = <<a, b>>[i]
    <3> TAKE i \in 1..2
    <3> i = 1 \/ i = 2
      OBVIOUS
    <3> QED
      BY <2>1
  <2> QED
    BY <2>2, <2>3, <2>4, Zenon
<1>2. \A a, b, c, d : <<a>> \o <<b, c, d>> = <<a, b, c, d>>
  <2> TAKE a, b, c, d
  <2>1. <<a>> \o <<b, c, d>> = [i \in 1..4 |-> <<a, b, c, d>>[i]]
    OBVIOUS
  <2>2. <<a, b, c, d>> = [i \in 1..4 |-> <<a, b, c, d>>[i]]
    OBVIOUS
  <2> QED
    BY <2>1, <2>2
<1>3. \A a, b, c, d, e : <<a>> \o <<b, c, d, e>> = <<a, b, c, d, e>>
  <2> TAKE a, b, c, d, e
  <2>1. <<a>> \o <<b, c, d, e>> = [i \in 1..5 |-> <<a, b, c, d, e>>[i]]
    OBVIOUS
  <2>2. <<a, b, c, d, e>> = [i \in 1..5 |-> <<a, b, c, d, e>>[i]]
    OBVIOUS
  <2> QED
    BY <2>1, <2>2
<1>4. \A a, b, c, d, e, f : <<a>> \o <<b, c, d, e, f>> = <<a, b, c, d, e, f>>
  <2> TAKE a, b, c, d, e, f
  <2>1. <<a>> \o <<b, c, d, e, f>> = [i \in 1..6 |-> <<a, b, c, d, e, f>>[i]]
    OBVIOUS
  <2>2. <<a, b, c, d, e, f>> = [i \in 1..6 |-> <<a, b, c, d, e, f>>[i]]
    OBVIOUS
  <2> QED
    BY <2>1, <2>2
<1>5. <<"replace">> \o <<"upsert">> = <<"replace", "upsert">>
  BY <1>1
<1>6. <<"replace">> \o <<"upsert", "write", "upsert">> =
        <<"replace", "upsert", "write", "upsert">>
  BY <1>2
<1>7. <<"replace">> \o <<"upsert", "stamp", "list", "append">> =
        <<"replace", "upsert", "stamp", "list", "append">>
  BY <1>3
<1>8. <<"replace">> \o <<"upsert", "write", "stamp", "list", "append">> =
        <<"replace", "upsert", "write", "stamp", "list", "append">>
  BY <1>4
<1> QED
  BY <1>5, <1>6, <1>7, <1>8

(* The steps that the properties tell apart come once in a plan.           *)
Marks == {"stamp", "list", "append", "store", "write"}
Pops(plan) ==
  LET h == Head(plan)
  IN  /\ h \in Steps(plan)
      /\ \A x \in Marks : x \in Steps(Tail(plan)) <=> x \in Steps(plan) /\ x # h

LEMMA SignedPlan ==
  ASSUME NEW plan \in SignedPlans, plan # << >>
  PROVE  /\ Tail(plan) \in SignedPlans /\ Pops(plan)
         /\ "stamp" \in Steps(plan) => "list" \in Steps(plan)
         /\ "list" \in Steps(plan) => "append" \in Steps(plan)
         /\ "append" \in Steps(plan) => "write" \in Steps(plan)
         /\ Head(plan) \in {"upsert", "replace", "write"} =>
              "append" \notin Steps(plan)
         /\ Head(plan) = "stamp" <=> "stamp" \in Steps(plan)
         /\ "store" \notin Steps(plan)
<1>1. CASE plan = <<"upsert">>
  BY <1>1, PlanOf DEF SignedPlans, Pops, Marks
<1>2. CASE plan = <<"replace", "upsert">>
  BY <1>2, PlanOf DEF SignedPlans, Pops, Marks
<1>3. CASE plan = <<"write", "upsert">>
  BY <1>3, PlanOf DEF SignedPlans, Pops, Marks
<1>4. CASE plan = <<"upsert", "write", "upsert">>
  BY <1>4, PlanOf DEF SignedPlans, Pops, Marks
<1>5. CASE plan = <<"replace", "upsert", "write", "upsert">>
  BY <1>5, PlanOf DEF SignedPlans, Pops, Marks
<1>6. CASE plan = <<"append", "upsert", "write", "upsert">>
  BY <1>6, PlanOf DEF SignedPlans, Pops, Marks
<1>7. CASE plan = <<"list", "append", "upsert", "write", "upsert">>
  BY <1>7, PlanOf DEF SignedPlans, Pops, Marks
<1>8. CASE plan = <<"stamp", "list", "append", "upsert", "write", "upsert">>
  BY <1>8, PlanOf DEF SignedPlans, Pops, Marks
<1>9. \/ plan = <<"upsert">>
      \/ plan = <<"replace", "upsert">>
      \/ plan = <<"write", "upsert">>
      \/ plan = <<"upsert", "write", "upsert">>
      \/ plan = <<"replace", "upsert", "write", "upsert">>
      \/ plan = <<"append", "upsert", "write", "upsert">>
      \/ plan = <<"list", "append", "upsert", "write", "upsert">>
      \/ plan = <<"stamp", "list", "append", "upsert", "write", "upsert">>
  BY Zenon DEF SignedPlans
<1> QED
  BY <1>1, <1>2, <1>3, <1>4, <1>5, <1>6, <1>7, <1>8, <1>9, Zenon

LEMMA CompletedPlan ==
  ASSUME NEW plan \in CompletedPlans, plan # << >>
  PROVE  /\ Tail(plan) \in CompletedPlans /\ Pops(plan)
         /\ "stamp" \in Steps(plan) => "store" \in Steps(plan)
         /\ "store" \in Steps(plan) => "write" \in Steps(plan)
         /\ "write" \in Steps(plan) => "list" \in Steps(plan)
         /\ "list" \in Steps(plan) => "append" \in Steps(plan)
         /\ Head(plan) = "stamp" <=> "stamp" \in Steps(plan)
         /\ Head(plan) = "write" <=>
              "write" \in Steps(plan) /\ "store" \notin Steps(plan)
         /\ Head(plan) \notin {"upsert", "replace"}
<1>1. CASE plan = <<"append">>
  BY <1>1, PlanOf DEF CompletedPlans, Pops, Marks
<1>2. CASE plan = <<"list", "append">>
  BY <1>2, PlanOf DEF CompletedPlans, Pops, Marks
<1>3. CASE plan = <<"write", "list", "append">>
  BY <1>3, PlanOf DEF CompletedPlans, Pops, Marks
<1>4. CASE plan = <<"store", "write", "list", "append">>
  BY <1>4, PlanOf DEF CompletedPlans, Pops, Marks
<1>5. CASE plan = <<"stamp", "store", "write", "list", "append">>
  BY <1>5, PlanOf DEF CompletedPlans, Pops, Marks
<1>6. \/ plan = <<"append">>
      \/ plan = <<"list", "append">>
      \/ plan = <<"write", "list", "append">>
      \/ plan = <<"store", "write", "list", "append">>
      \/ plan = <<"stamp", "store", "write", "list", "append">>
  BY Zenon DEF CompletedPlans
<1> QED
  BY <1>1, <1>2, <1>3, <1>4, <1>5, <1>6, Zenon

LEMMA OtherPlan ==
  ASSUME NEW plan \in OtherPlans, plan # << >>
  PROVE  /\ Tail(plan) \in OtherPlans /\ Pops(plan)
         /\ "stamp" \in Steps(plan) => "list" \in Steps(plan)
         /\ "list" \in Steps(plan) => "append" \in Steps(plan)
         /\ "append" \in Steps(plan)
         /\ Head(plan) = "stamp" => "stamp" \in Steps(plan)
         /\ "store" \notin Steps(plan)
         /\ Head(plan) \in {"upsert", "replace", "write"} =>
              "stamp" \in Steps(plan)
<1>1. CASE plan = <<"append">>
  BY <1>1, PlanOf DEF OtherPlans, Ends, Pops, Marks
<1>2. CASE plan = <<"list", "append">>
  BY <1>2, PlanOf DEF OtherPlans, Ends, Pops, Marks
<1>3. CASE plan = <<"stamp", "list", "append">>
  BY <1>3, PlanOf DEF OtherPlans, Ends, Pops, Marks
<1>4. CASE plan = <<"write", "stamp", "list", "append">>
  BY <1>4, PlanOf DEF OtherPlans, Ends, Pops, Marks
<1>5. CASE plan = <<"upsert", "stamp", "list", "append">>
  BY <1>5, PlanOf DEF OtherPlans, Ends, Pops, Marks
<1>6. CASE plan = <<"replace", "upsert", "stamp", "list", "append">>
  BY <1>6, PlanOf DEF OtherPlans, Ends, Pops, Marks
<1>7. CASE plan = <<"upsert", "write", "stamp", "list", "append">>
  BY <1>7, PlanOf DEF OtherPlans, Ends, Pops, Marks
<1>8. CASE plan = <<"replace", "upsert", "write", "stamp", "list", "append">>
  BY <1>8, PlanOf DEF OtherPlans, Ends, Pops, Marks
<1>9. \/ plan = <<"append">>
      \/ plan = <<"list", "append">>
      \/ plan = <<"stamp", "list", "append">>
      \/ plan = <<"write", "stamp", "list", "append">>
      \/ plan = <<"upsert", "stamp", "list", "append">>
      \/ plan = <<"replace", "upsert", "stamp", "list", "append">>
      \/ plan = <<"upsert", "write", "stamp", "list", "append">>
      \/ plan = <<"replace", "upsert", "write", "stamp", "list", "append">>
  BY Zenon DEF OtherPlans, Ends
<1> QED
  BY <1>1, <1>2, <1>3, <1>4, <1>5, <1>6, <1>7, <1>8, <1>9, Zenon

LEMMA PlanSteps ==
  ASSUME NEW action, NEW plan \in Plans(action), plan # << >>
  PROVE  /\ Tail(plan) \in Plans(action) /\ Pops(plan)
         /\ "stamp" \in Steps(plan) => "list" \in Steps(plan)
         /\ "list" \in Steps(plan) => "append" \in Steps(plan)
         /\ Head(plan) = "stamp" => "stamp" \in Steps(plan)
         /\ action = "signed" =>
              /\ "append" \in Steps(plan) => "write" \in Steps(plan)
              /\ Head(plan) \in {"upsert", "replace", "write"} =>
                   "append" \notin Steps(plan)
         /\ action = "completed" =>
              /\ "append" \in Steps(plan)
              /\ "stamp" \in Steps(plan) => "store" \in Steps(plan)
              /\ "store" \in Steps(plan) => "write" \in Steps(plan)
              /\ Head(plan) = "stamp" <=> "stamp" \in Steps(plan)
              /\ Head(plan) = "write" <=>
                   "write" \in Steps(plan) /\ "store" \notin Steps(plan)
              /\ Head(plan) \notin {"upsert", "replace"}
         /\ action # "completed" => "store" \notin Steps(plan)
<1>1. CASE action = "signed"
  <2>1. plan \in SignedPlans /\ Plans(action) = SignedPlans
    BY <1>1 DEF Plans
  <2> QED
    BY <1>1, <2>1, SignedPlan
<1>2. CASE action = "completed"
  <2>1. plan \in CompletedPlans /\ Plans(action) = CompletedPlans
    BY <1>2 DEF Plans
  <2>2. "append" \in Steps(plan)
    <3>1. \A x : x \in CompletedPlans /\ x # << >> => "append" \in Steps(x)
      BY PlanOf DEF CompletedPlans
    <3> QED
      BY <2>1, <3>1
  <2> QED
    BY <1>2, <2>1, <2>2, CompletedPlan
<1>3. CASE action \notin {"signed", "completed"}
  <2>1. plan \in OtherPlans /\ Plans(action) = OtherPlans
    BY <1>3 DEF Plans
  <2> QED
    BY <1>3, <2>1, OtherPlan
<1> QED
  BY <1>1, <1>2, <1>3

LEMMA FetchSteps ==
  ASSUME NEW action, NEW plan \in Plans(action), plan # << >>,
         Head(plan) = "upsert"
  PROVE  /\ <<"replace">> \o plan \in Plans(action)
         /\ \A x \in Marks : x \in Steps(<<"replace">> \o plan)
                               <=> x \in Steps(plan)
<1>1. CASE action = "signed"
  <2>1. plan \in SignedPlans /\ Plans(action) = SignedPlans
    BY <1>1 DEF Plans
  <2>2. plan \in {<<"upsert">>, <<"upsert", "write", "upsert">>}
    BY <2>1, PlanOf DEF SignedPlans
  <2>3. CASE plan = <<"upsert">>
    <3>1. <<"replace">> \o plan = <<"replace", "upsert">>
      BY <2>3, FetchPlan
    <3>2. <<"replace", "upsert">> \in SignedPlans
      BY DEF SignedPlans
    <3>3. Steps(plan) = {"upsert"}
      BY <2>3, PlanOf
    <3>4. Steps(<<"replace", "upsert">>) = {"replace", "upsert"}
      BY PlanOf
    <3> QED
      BY <2>1, <3>1, <3>2, <3>3, <3>4 DEF Marks
  <2>4. CASE plan = <<"upsert", "write", "upsert">>
    <3>1. <<"replace">> \o plan = <<"replace", "upsert", "write", "upsert">>
      BY <2>4, FetchPlan
    <3>2. <<"replace", "upsert", "write", "upsert">> \in SignedPlans
      BY DEF SignedPlans
    <3>3. Steps(plan) = {"upsert", "write", "upsert"}
      BY <2>4, PlanOf
    <3>4. Steps(<<"replace", "upsert", "write", "upsert">>) = {"replace", "upsert", "write", "upsert"}
      BY PlanOf
    <3> QED
      BY <2>1, <3>1, <3>2, <3>3, <3>4 DEF Marks
  <2> QED
    BY <2>2, <2>3, <2>4
<1>2. CASE action = "completed"
  BY <1>2, PlanSteps
<1>3. CASE action \notin {"signed", "completed"}
  <2>1. plan \in OtherPlans /\ Plans(action) = OtherPlans
    BY <1>3 DEF Plans
  <2>2. plan \in {<<"upsert", "stamp", "list", "append">>,
                  <<"upsert", "write", "stamp", "list", "append">>}
    BY <2>1, PlanOf DEF OtherPlans, Ends
  <2>3. CASE plan = <<"upsert", "stamp", "list", "append">>
    <3>1. <<"replace">> \o plan = <<"replace", "upsert", "stamp", "list", "append">>
      BY <2>3, FetchPlan
    <3>2. <<"replace", "upsert", "stamp", "list", "append">> \in OtherPlans
      BY DEF OtherPlans
    <3>3. Steps(plan) = {"upsert", "stamp", "list", "append"}
      BY <2>3, PlanOf
    <3>4. Steps(<<"replace", "upsert", "stamp", "list", "append">>) = {"replace", "upsert", "stamp", "list", "append"}
      BY PlanOf
    <3> QED
      BY <2>1, <3>1, <3>2, <3>3, <3>4 DEF Marks
  <2>4. CASE plan = <<"upsert", "write", "stamp", "list", "append">>
    <3>1. <<"replace">> \o plan = <<"replace", "upsert", "write", "stamp", "list", "append">>
      BY <2>4, FetchPlan
    <3>2. <<"replace", "upsert", "write", "stamp", "list", "append">> \in OtherPlans
      BY DEF OtherPlans
    <3>3. Steps(plan) = {"upsert", "write", "stamp", "list", "append"}
      BY <2>4, PlanOf
    <3>4. Steps(<<"replace", "upsert", "write", "stamp", "list", "append">>) = {"replace", "upsert", "write", "stamp", "list", "append"}
      BY PlanOf
    <3> QED
      BY <2>1, <3>1, <3>2, <3>3, <3>4 DEF Marks
  <2> QED
    BY <2>2, <2>3, <2>4
<1> QED
  BY <1>1, <1>2, <1>3

(* A request, and what a step makes of it.                                 *)
Copy ==
  [status : EnvelopeStatus, signer : [Signer -> SignerStatus],
   filled : SUBSET Signer, final : Nat]
Actions == {"sent", "viewed", "signed", "declined", "voided", "completed"}
Shaped(q) ==
  q = [action |-> q.action, by |-> q.by, todo |-> q.todo, plan |-> q.plan,
       base |-> q.base, mine |-> q.mine, fresh |-> q.fresh, ts |-> q.ts,
       prev |-> q.prev, saw |-> q.saw]
Stamped(q) == q.plan # << >> /\ "stamp" \notin Steps(q.plan)
Typed(q) ==
  /\ Shaped(q) /\ q.action \in Actions /\ q.plan \in Plans(q.action)
  /\ q.plan = << >> => q = NoRequest
  /\ q.base \in Copy /\ q.mine \in Copy /\ q.fresh \in Copy
  /\ q.action = "signed" => q.by \in Signer
  /\ q.ts \in Nat /\ (q.ts # 0 <=> Stamped(q))
Types ==
  /\ env \in Copy /\ clock \in Nat
  /\ request = [r \in Request |-> request[r]]
  /\ \A r \in Request : Typed(request[r])

(* Continue makes q of p, which it leaves but for the plan.                *)
Goes(p, q) ==
  \/ q = NoRequest /\ \A x \in Marks : x \notin Steps(p.plan)
  \/ /\ Shaped(q) /\ q.plan # << >> /\ q.plan \in Plans(p.action)
     /\ q.action = p.action /\ q.by = p.by /\ q.base = p.base
     /\ q.mine = p.mine /\ q.fresh = p.fresh /\ q.ts = p.ts
     /\ q.prev = p.prev /\ q.saw = p.saw
     /\ \A x \in Marks : x \in Steps(q.plan) <=> x \in Steps(p.plan)

LEMMA Continued ==
  ASSUME NEW r \in Request, request = [x \in Request |-> request[x]],
         NEW p, Shaped(p), p.plan \in Plans(p.action), Continue(r, p)
  PROVE  /\ request' = [x \in Request |-> request'[x]]
         /\ \A x \in Request \ {r} : request'[x] = request[x]
         /\ Goes(p, request'[r])
<1> DEFINE next == IF NothingToUpsert(p) THEN Tail(p.plan) ELSE p.plan
           q == IF next = << >> THEN NoRequest
                                ELSE [p EXCEPT !.plan = next]
<1>1. request' = [request EXCEPT ![r] = q]
  BY DEF Continue
<1>2. next \in Plans(p.action) /\ \A x \in Marks : x \in Steps(next)
                                                     <=> x \in Steps(p.plan)
  <2>1. CASE NothingToUpsert(p)
    <3>1. p.plan # << >> /\ Head(p.plan) = "upsert"
      BY <2>1 DEF NothingToUpsert
    <3>2. Tail(p.plan) \in Plans(p.action) /\ Pops(p.plan)
      BY <3>1, PlanSteps
    <3> QED
      BY <2>1, <3>1, <3>2 DEF Pops, Marks
  <2>2. CASE ~NothingToUpsert(p)
    BY <2>2
  <2> QED
    BY <2>1, <2>2
<1> HIDE DEF next
<1>3. Goes(p, q)
  <2>1. CASE next = << >>
    <3>1. Steps(next) = {}
      BY <2>1, PlanOf
    <3> QED
      BY <1>2, <2>1, <3>1 DEF Goes
  <2>2. CASE next # << >>
    <3> DEFINE n == [p EXCEPT !.plan = next]
    <3>1. /\ Shaped(n) /\ n.plan = next
          /\ n.action = p.action /\ n.by = p.by /\ n.base = p.base
          /\ n.mine = p.mine /\ n.fresh = p.fresh /\ n.ts = p.ts
          /\ n.prev = p.prev /\ n.saw = p.saw
      BY DEF Shaped
    <3>2. q = n
      BY <2>2
    <3> HIDE DEF n, q
    <3> QED
      BY <1>2, <2>2, <3>1, <3>2 DEF Goes
  <2> QED
    BY <2>1, <2>2
<1> HIDE DEF q
<1>4. /\ request' = [x \in Request |-> request'[x]] /\ request'[r] = q
      /\ \A x \in Request \ {r} : request'[x] = request[x]
  BY <1>1
<1> QED
  BY <1>3, <1>4

(* The step h of the request o makes q of it, where p is what it changed.  *)
After(o, h, p, q) ==
  \/ q = NoRequest /\ \A x \in Marks : x \in Steps(o.plan) => x = h
  \/ /\ Shaped(q) /\ q.plan # << >> /\ q.plan \in Plans(o.action)
     /\ q.action = o.action /\ q.by = o.by /\ q.base = p.base
     /\ q.mine = p.mine /\ q.fresh = p.fresh /\ q.ts = p.ts
     /\ q.prev = p.prev /\ q.saw = p.saw
     /\ \A x \in Marks : x \in Steps(q.plan) <=> x \in Steps(o.plan) /\ x # h

LEMMA NoRequestIs ==
  /\ AsSent \in Copy /\ Typed(NoRequest)
  /\ NoRequest.plan = << >> /\ NoRequest.ts = 0
  /\ NoRequest.action = "sent" /\ NoRequest.saw = {}
  /\ NoRequest.base = AsSent /\ NoRequest.mine = AsSent
  /\ NoRequest.fresh = AsSent
  /\ AsSent.status = "sent" /\ AsSent.final = 0
  /\ \A s \in Signer : AsSent.signer[s] = "sent"
<1>1. /\ AsSent.status = "sent" /\ AsSent.final = 0
      /\ AsSent.filled = {}
      /\ \A s \in Signer : AsSent.signer[s] = "sent"
      /\ AsSent \in Copy
  BY DEF AsSent, SignedBy, Copy, EnvelopeStatus,
         SignerStatus
<1>2. Shaped(NoRequest) /\ NoRequest.plan = << >>
  BY DEF Shaped, NoRequest
<1>3. /\ NoRequest.action = "sent" /\ NoRequest.ts = 0
      /\ NoRequest.saw = {}
      /\ NoRequest.base = AsSent
      /\ NoRequest.mine = AsSent
      /\ NoRequest.fresh = AsSent
  BY DEF NoRequest
<1>4. << >> \in Plans("sent")
  BY DEF Plans, OtherPlans, Ends
<1>5. Typed(NoRequest)
  BY <1>1, <1>2, <1>3, <1>4 DEF Typed, Actions, Stamped
<1> QED
  BY <1>1, <1>2, <1>3, <1>5

LEMMA PoppedIs ==
  ASSUME Types, NEW r \in Request, NEW h, Step(r, h), NEW p,
         Shaped(p), p.action = request[r].action, p.by = request[r].by,
         p.plan = Tail(request[r].plan),
         p.base \in Copy, p.mine \in Copy, p.fresh \in Copy, p.ts \in Nat,
         p.ts # 0 <=> h = "stamp" \/ "stamp" \notin Steps(request[r].plan),
         Continue(r, p), env' \in Copy, clock' \in Nat
  PROVE  /\ Types'
         /\ \A x \in Request \ {r} : request'[x] = request[x]
         /\ After(request[r], h, p, request'[r])
<1> PICK o : o = request[r]
  OBVIOUS
<1> PICK q : q = request'[r]
  OBVIOUS
<1>1. Typed(o) /\ o.plan # << >> /\ Head(o.plan) = h
  BY DEF Types, Step, Idle
<1>2. Tail(o.plan) \in Plans(o.action) /\ Pops(o.plan)
  BY <1>1, PlanSteps DEF Typed
<1>3. /\ request' = [x \in Request |-> request'[x]]
      /\ \A x \in Request \ {r} : request'[x] = request[x]
      /\ Goes(p, q)
  BY <1>2, Continued DEF Types
<1>4. \A x \in Marks : x \in Steps(p.plan) <=> x \in Steps(o.plan) /\ x # h
  BY <1>1, <1>2 DEF Pops
<1>5. After(o, h, p, q)
  BY <1>3, <1>4 DEF After, Goes
<1>6. Typed(q)
  <2>1. CASE q = NoRequest
    BY <2>1, NoRequestIs
  <2>2. CASE q # NoRequest
    <3>1. /\ Shaped(q) /\ q.plan # << >> /\ q.plan \in Plans(o.action)
          /\ q.action = o.action /\ q.by = o.by /\ q.base = p.base
          /\ q.mine = p.mine /\ q.fresh = p.fresh /\ q.ts = p.ts
      BY <1>5, <2>2 DEF After
    <3>2. "stamp" \in Steps(q.plan) <=> "stamp" \in Steps(o.plan) /\ "stamp" # h
      BY <1>5, <2>2 DEF After, Marks
    <3>3. o.action \in Actions /\ (o.action = "signed" => o.by \in Signer)
      BY <1>1 DEF Typed
    <3> QED
      BY <3>1, <3>2, <3>3 DEF Typed, Stamped
  <2> QED
    BY <2>1, <2>2
<1>7. Types'
  BY <1>3, <1>6 DEF Types
<1> QED
  BY <1>3, <1>5, <1>7

(* The storage calls and the handlers leave the rest as it was.            *)
Rest == <<env, log, sealed, clock, died, broken, stale>>

LEMMA PlanIs ==
  ASSUME NEW action \in Actions
  PROVE  /\ Plan[action] \in Plans(action)
         /\ {"stamp", "list", "append"} \subseteq Steps(Plan[action])
         /\ action = "signed" => "write" \in Steps(Plan[action])
         /\ action = "completed" =>
              {"write", "store"} \subseteq Steps(Plan[action])
<1>1. CASE action = "sent"
  BY <1>1, PlanOf DEF Plan, Plans, OtherPlans
<1>2. CASE action = "viewed"
  BY <1>2, PlanOf DEF Plan, Plans, OtherPlans
<1>3. CASE action = "signed"
  BY <1>3, PlanOf DEF Plan, Plans, SignedPlans
<1>4. CASE action = "declined"
  BY <1>4, PlanOf DEF Plan, Plans, OtherPlans
<1>5. CASE action = "voided"
  BY <1>5, PlanOf DEF Plan, Plans, OtherPlans
<1>6. CASE action = "completed"
  BY <1>6, PlanOf DEF Plan, Plans, CompletedPlans
<1> QED
  BY <1>1, <1>2, <1>3, <1>4, <1>5, <1>6 DEF Actions

(* A new request q, which read the envelope and means to make mine of it.  *)
New(action, by, mine, q) ==
  /\ q.action = action /\ q.by = by /\ q.base = env /\ q.mine = mine
  /\ q.fresh = AsSent /\ q.ts = 0 /\ q.saw = {} /\ q.plan # << >>
  /\ {"stamp", "list", "append"} \subseteq Steps(q.plan)
  /\ action = "signed" => "write" \in Steps(q.plan)
  /\ action = "completed" => {"write", "store"} \subseteq Steps(q.plan)

LEMMA Begun ==
  ASSUME Types, NEW r \in Request, NEW action \in Actions, NEW by,
         NEW todo, NEW mine \in Copy, action = "signed" => by \in Signer,
         Begin(r, action, by, todo, mine)
  PROVE  /\ Types' /\ UNCHANGED Rest
         /\ \A x \in Request \ {r} : request'[x] = request[x]
         /\ New(action, by, mine, request'[r])
<1> DEFINE made == [NoRequest EXCEPT !.action = action, !.by = by,
                      !.todo = todo, !.plan = Plan[action],
                      !.base = env, !.mine = mine]
<1>1. Continue(r, made) /\ UNCHANGED Rest
  BY DEF Begin, Rest
<1>2. /\ Shaped(made) /\ made.action = action /\ made.by = by
      /\ made.plan = Plan[action] /\ made.base = env
      /\ made.mine = mine /\ made.ts = 0 /\ made.saw = {}
      /\ made.fresh = AsSent
  <2> DEFINE m0 == NoRequest
             m1 == [m0 EXCEPT !.action = action]
             m2 == [m1 EXCEPT !.by = by]
             m3 == [m2 EXCEPT !.todo = todo]
             m4 == [m3 EXCEPT !.plan = Plan[action]]
             m5 == [m4 EXCEPT !.base = env]
             m6 == [m5 EXCEPT !.mine = mine]
  <2>1. /\ Shaped(m0) /\ m0.fresh = AsSent /\ m0.ts = 0
        /\ m0.saw = {}
    BY DEF Shaped, NoRequest
  <2>2. /\ Shaped(m1) /\ m1.action = action
        /\ m1.fresh = m0.fresh /\ m1.ts = m0.ts /\ m1.saw = m0.saw
    <3> HIDE DEF m0
    <3> QED
      BY <2>1 DEF Shaped
  <2>3. /\ Shaped(m2) /\ m2.by = by
        /\ m2.fresh = m1.fresh /\ m2.ts = m1.ts /\ m2.saw = m1.saw
        /\ m2.action = m1.action
    <3> HIDE DEF m1
    <3> QED
      BY <2>2 DEF Shaped
  <2>4. /\ Shaped(m3) /\ m3.todo = todo
        /\ m3.fresh = m2.fresh /\ m3.ts = m2.ts /\ m3.saw = m2.saw
        /\ m3.action = m2.action /\ m3.by = m2.by
    <3> HIDE DEF m2
    <3> QED
      BY <2>3 DEF Shaped
  <2>5. /\ Shaped(m4) /\ m4.plan = Plan[action]
        /\ m4.fresh = m3.fresh /\ m4.ts = m3.ts /\ m4.saw = m3.saw
        /\ m4.action = m3.action /\ m4.by = m3.by
    <3> HIDE DEF m3
    <3> QED
      BY <2>4 DEF Shaped
  <2>6. /\ Shaped(m5) /\ m5.base = env
        /\ m5.fresh = m4.fresh /\ m5.ts = m4.ts /\ m5.saw = m4.saw
        /\ m5.action = m4.action /\ m5.by = m4.by /\ m5.plan = m4.plan
    <3> HIDE DEF m4
    <3> QED
      BY <2>5 DEF Shaped
  <2>7. /\ Shaped(m6) /\ m6.mine = mine
        /\ m6.fresh = m5.fresh /\ m6.ts = m5.ts /\ m6.saw = m5.saw
        /\ m6.action = m5.action /\ m6.by = m5.by /\ m6.plan = m5.plan
        /\ m6.base = m5.base
    <3> HIDE DEF m5
    <3> QED
      BY <2>6 DEF Shaped
  <2>8. made = m6
    OBVIOUS
  <2> HIDE DEF m0, m1, m2, m3, m4, m5, m6
  <2> HIDE DEF made
  <2> QED
    BY <2>1, <2>2, <2>3, <2>4, <2>5, <2>6, <2>7, <2>8
<1> PICK p : p = made
  OBVIOUS
<1> HIDE DEF made
<1> PICK q : q = request'[r]
  OBVIOUS
<1>3. p.plan \in Plans(p.action)
  BY <1>2, PlanIs
<1>4. /\ request' = [x \in Request |-> request'[x]]
      /\ \A x \in Request \ {r} : request'[x] = request[x]
      /\ Goes(p, q)
  BY <1>1, <1>2, <1>3, Continued DEF Types
<1>5. "append" \in Steps(p.plan)
  BY <1>2, PlanIs
<1>6. /\ Shaped(q) /\ q.plan # << >> /\ q.plan \in Plans(p.action)
      /\ q.action = p.action /\ q.by = p.by /\ q.base = p.base
      /\ q.mine = p.mine /\ q.fresh = p.fresh /\ q.ts = p.ts
      /\ q.saw = p.saw
      /\ \A x \in Marks : x \in Steps(q.plan) <=> x \in Steps(p.plan)
  BY <1>4, <1>5 DEF Goes, Marks
<1>7. New(action, by, mine, q)
  BY <1>2, <1>6, PlanIs DEF New, Marks
<1>8. Typed(q)
  BY <1>2, <1>6, <1>7, NoRequestIs DEF Typed, Stamped, New, Types
<1>9. Types'
  BY <1>1, <1>4, <1>8 DEF Types, Rest
<1> QED
  BY <1>1, <1>4, <1>7, <1>9

(* The same, of the fields that the step gave values to.                   *)
Becomes(o, h, q, base, mine, fresh, ts, prev, saw) ==
  \/ q = NoRequest /\ \A x \in Marks : x \in Steps(o.plan) => x = h
  \/ /\ q.plan # << >> /\ q.action = o.action /\ q.by = o.by
     /\ q.base = base /\ q.mine = mine /\ q.fresh = fresh /\ q.ts = ts
     /\ q.prev = prev /\ q.saw = saw
     /\ \A x \in Marks : x \in Steps(q.plan) <=> x \in Steps(o.plan) /\ x # h
Moves(r, h) ==
  /\ Types' /\ \A x \in Request \ {r} : request'[x] = request[x]
  /\ request[r].plan # << >> /\ Head(request[r].plan) = h
  /\ h \in Steps(request[r].plan)

LEMMA MovesBy ==
  ASSUME Types, NEW r \in Request, NEW h, Step(r, h)
  PROVE  /\ Typed(request[r]) /\ request[r].plan # << >>
         /\ Head(request[r].plan) = h /\ h \in Steps(request[r].plan)
         /\ request[r].plan \in Plans(request[r].action)
         /\ request[r].ts # 0 <=> "stamp" \notin Steps(request[r].plan)
<1>1. Typed(request[r]) /\ request[r].plan # << >> /\ Head(request[r].plan) = h
  BY DEF Types, Step, Idle
<1> QED
  BY <1>1, PlanSteps DEF Typed, Pops, Stamped

LEMMA FetchIs ==
  ASSUME Types, NEW r \in Request, Fetch(r)
  PROVE  /\ Moves(r, "upsert") /\ UNCHANGED Rest
         /\ LET o == request[r]
            IN  Becomes(o, "upsert", request'[r], o.base, o.mine, env, o.ts,
                        o.prev, o.saw)
<1> PICK o : o = request[r]
  OBVIOUS
<1> PICK q : q = request'[r]
  OBVIOUS
<1> DEFINE joined == <<"replace">> \o o.plan
           m1 == [o EXCEPT !.fresh = env]
           m2 == [m1 EXCEPT !.plan = joined]
<1>1. Typed(o) /\ o.plan # << >> /\ Head(o.plan) = "upsert"
      /\ o.plan \in Plans(o.action)
  BY MovesBy DEF Fetch
<1>2. joined \in Plans(o.action)
      /\ \A x \in Marks : x \in Steps(joined) <=> x \in Steps(o.plan)
  BY <1>1, FetchSteps
<1>3. UNCHANGED Rest
  BY DEF Fetch, Rest
<1>4. Continue(r, m2)
  BY DEF Fetch
<1> HIDE DEF joined
<1>5. /\ Shaped(m1) /\ m1.action = o.action /\ m1.by = o.by
      /\ m1.base = o.base /\ m1.mine = o.mine /\ m1.fresh = env
      /\ m1.ts = o.ts /\ m1.prev = o.prev /\ m1.saw = o.saw
  BY <1>1 DEF Typed, Shaped
<1> HIDE DEF m1
<1>6. /\ Shaped(m2) /\ m2.action = m1.action /\ m2.by = m1.by
      /\ m2.base = m1.base /\ m2.mine = m1.mine /\ m2.fresh = m1.fresh
      /\ m2.ts = m1.ts /\ m2.prev = m1.prev /\ m2.saw = m1.saw
      /\ m2.plan = joined
  BY <1>5 DEF Shaped
<1> PICK p : p = m2
  OBVIOUS
<1> HIDE DEF m2
<1>7. /\ request' = [x \in Request |-> request'[x]]
      /\ \A x \in Request \ {r} : request'[x] = request[x]
      /\ Goes(p, q)
  BY <1>2, <1>4, <1>5, <1>6, Continued DEF Types
<1>8. Becomes(o, "upsert", q, o.base, o.mine, env, o.ts, o.prev, o.saw)
  BY <1>2, <1>5, <1>6, <1>7 DEF Becomes, Goes, Marks
<1>9. Typed(q)
  <2>1. CASE q = NoRequest
    BY <2>1, NoRequestIs
  <2>2. CASE q # NoRequest
    <3>1. /\ Shaped(q) /\ q.plan # << >> /\ q.plan \in Plans(o.action)
          /\ q.action = o.action /\ q.by = o.by /\ q.base = o.base
          /\ q.mine = o.mine /\ q.fresh = env /\ q.ts = o.ts
          /\ "stamp" \in Steps(q.plan) <=> "stamp" \in Steps(o.plan)
      BY <1>2, <1>5, <1>6, <1>7, <2>2 DEF Goes, Marks
    <3> QED
      BY <1>1, <3>1 DEF Typed, Stamped, Types
  <2> QED
    BY <2>1, <2>2
<1>10. Types'
  BY <1>3, <1>7, <1>9 DEF Types, Rest
<1> QED
  BY <1>3, <1>7, <1>8, <1>10, MovesBy DEF Moves, Fetch

LEMMA PopIs ==
  ASSUME NEW r, Shaped(request[r])
  PROVE  LET m == Popped(r)
             o == request[r]
         IN  /\ Shaped(m) /\ m.plan = Tail(o.plan) /\ m.fresh = AsSent
             /\ m.action = o.action /\ m.by = o.by /\ m.todo = o.todo
             /\ m.base = o.base /\ m.mine = o.mine /\ m.ts = o.ts
             /\ m.prev = o.prev /\ m.saw = o.saw
<1> PICK o : o = request[r]
  OBVIOUS
<1> DEFINE t == Tail(o.plan)
           m1 == [o EXCEPT !.plan = t]
           m2 == [m1 EXCEPT !.fresh = AsSent]
<1>2. Popped(r) = m2
  BY Zenon DEF Popped
<1> HIDE DEF t
<1>1. /\ Shaped(m1) /\ m1.plan = t
      /\ m1.action = o.action /\ m1.by = o.by /\ m1.todo = o.todo
      /\ m1.base = o.base /\ m1.mine = o.mine /\ m1.ts = o.ts
      /\ m1.prev = o.prev /\ m1.saw = o.saw
  <2>1. Shaped(m1)
    BY DEF Shaped
  <2>2. m1.plan = t /\ m1.action = o.action /\ m1.by = o.by
    BY DEF Shaped
  <2>3. m1.todo = o.todo /\ m1.base = o.base /\ m1.mine = o.mine
    BY DEF Shaped
  <2>4. m1.ts = o.ts /\ m1.prev = o.prev /\ m1.saw = o.saw
    BY DEF Shaped
  <2> QED
    BY <2>1, <2>2, <2>3, <2>4
<1> HIDE DEF m1
<1>3. /\ Shaped(m2) /\ m2.plan = m1.plan /\ m2.fresh = AsSent
      /\ m2.action = m1.action /\ m2.by = m1.by /\ m2.todo = m1.todo
      /\ m2.base = m1.base /\ m2.mine = m1.mine /\ m2.ts = m1.ts
      /\ m2.prev = m1.prev /\ m2.saw = m1.saw
  BY <1>1 DEF Shaped
<1> HIDE DEF m2
<1> QED
  BY <1>1, <1>2, <1>3 DEF t

FirstOf(S) == CHOOSE x \in S : \A y \in S : x <= y
Marked(c, s, v) == [c EXCEPT !.signer[s] = v]
LEMMA MarkedIs ==
  ASSUME NEW c \in Copy, NEW s, NEW v, s \in Signer => v \in SignerStatus
  PROVE  /\ Marked(c, s, v) \in Copy
         /\ Marked(c, s, v).status = c.status
         /\ Marked(c, s, v).filled = c.filled
         /\ Marked(c, s, v).final = c.final
         /\ \A x \in Signer : Marked(c, s, v).signer[x] =
                                IF x = s THEN v ELSE c.signer[x]
<1> DEFINE given == [c.signer EXCEPT ![s] = v]
<1>1. given \in [Signer -> SignerStatus]
      /\ \A x \in Signer : given[x] = IF x = s THEN v ELSE c.signer[x]
  BY Zenon DEF Copy
<1>2. Marked(c, s, v) = [c EXCEPT !.signer = given]
  BY DEF Marked
<1> HIDE DEF given
<1> QED
  BY <1>1, <1>2 DEF Copy

(* UpsertSigner took the status of s from the handler's copy.              *)
Replaced(o, q, s, base) ==
  /\ Becomes(o, "replace", q, base, o.mine, AsSent, o.ts, o.prev, o.saw)
  /\ env'.status = o.fresh.status /\ env'.filled = o.fresh.filled
  /\ env'.final = o.fresh.final
  /\ base.status = o.base.status /\ base.filled = o.base.filled
  /\ base.final = o.base.final
  /\ \A x \in Signer :
       /\ env'.signer[x] = IF x = s THEN o.mine.signer[x]
                                    ELSE o.fresh.signer[x]
       /\ base.signer[x] = IF x = s THEN o.mine.signer[x]
                                    ELSE o.base.signer[x]
  /\ ~stale' => /\ ~stale /\ env = o.fresh /\ o.action # "sent"
                /\ env.signer[s] = o.base.signer[s]

LEMMA ReplaceIs ==
  ASSUME Types, NEW r \in Request, Replace(r)
  PROVE  /\ Moves(r, "replace") /\ env' \in Copy
         /\ UNCHANGED <<log, sealed, clock, died, broken>>
         /\ \E s : \E base \in Copy : Replaced(request[r], request'[r], s, base)
<1> PICK o : o = request[r]
  OBVIOUS
<1> PICK q : q = request'[r]
  OBVIOUS
<1> PICK s : s = FirstOf(o.todo)
  OBVIOUS
<1> PICK v : v = o.mine.signer[s]
  OBVIOUS
<1> PICK m : m = Popped(r)
  OBVIOUS
<1> PICK base : base = Marked(o.base, s, v)
  OBVIOUS
<1> DEFINE todo == m.todo \ {s}
           m1 == [m EXCEPT !.todo = todo]
           m2 == [m1 EXCEPT !.base.signer[s] = v]
<1>1. Step(r, "replace")
  BY SMTT(30) DEF Replace
<1>2. /\ Typed(o) /\ o.plan # << >> /\ Shaped(o)
      /\ o.base \in Copy /\ o.mine \in Copy /\ o.fresh \in Copy /\ o.ts \in Nat
      /\ o.ts # 0 <=> "stamp" \notin Steps(o.plan)
  BY <1>1, MovesBy DEF Typed
<1>3. s \in Signer => v \in SignerStatus
  BY <1>2 DEF Copy
<1>4. /\ Shaped(m) /\ m.plan = Tail(o.plan) /\ m.fresh = AsSent
      /\ m.action = o.action /\ m.by = o.by
      /\ m.base = o.base /\ m.mine = o.mine /\ m.ts = o.ts
      /\ m.prev = o.prev /\ m.saw = o.saw
  BY <1>2, PopIs
<1>5. /\ base \in Copy /\ base.status = o.base.status
      /\ base.filled = o.base.filled /\ base.final = o.base.final
      /\ \A x \in Signer :
           base.signer[x] = IF x = s THEN v ELSE o.base.signer[x]
  BY SMTT(30), <1>2, <1>3, MarkedIs
<1>6. env' = Marked(o.fresh, s, v)
  BY SMTT(30) DEF Replace, Marked, FirstOf
<1>7. /\ env' \in Copy /\ env'.status = o.fresh.status
      /\ env'.filled = o.fresh.filled /\ env'.final = o.fresh.final
      /\ \A x \in Signer :
           env'.signer[x] = IF x = s THEN v ELSE o.fresh.signer[x]
  <2>1. o.fresh \in Copy
    BY SMTT(30), <1>2
  <2> QED
    BY <1>3, <1>6, <2>1, MarkedIs
<1>8. /\ UNCHANGED <<log, sealed, clock, died, broken>>
      /\ ~stale' => /\ ~stale /\ env = o.fresh /\ o.action # "sent"
                    /\ env.signer[s] = o.base.signer[s]
  BY ZenonT(30) DEF Replace, FirstOf
<1>9. Continue(r, m2)
  BY DEF Replace, FirstOf
<1> HIDE DEF todo
<1>10. /\ Shaped(m1) /\ m1.plan = m.plan /\ m1.fresh = m.fresh
       /\ m1.action = m.action /\ m1.by = m.by
       /\ m1.base = m.base /\ m1.mine = m.mine /\ m1.ts = m.ts
       /\ m1.prev = m.prev /\ m1.saw = m.saw
  <2>1. Shaped(m1) /\ m1.plan = m.plan /\ m1.fresh = m.fresh
    BY <1>4 DEF Shaped
  <2>2. m1.action = m.action /\ m1.by = m.by
    BY <1>4 DEF Shaped
  <2>3. m1.base = m.base /\ m1.mine = m.mine
    BY <1>4 DEF Shaped
  <2>4. m1.ts = m.ts /\ m1.prev = m.prev /\ m1.saw = m.saw
    BY <1>4 DEF Shaped
  <2> QED
    BY <2>1, <2>2, <2>3, <2>4
<1> HIDE DEF m1
<1>11. m2 = [m1 EXCEPT !.base = base]
  BY <1>4, <1>10 DEF Marked
<1> HIDE DEF m2
<1>12. /\ Shaped(m2) /\ m2.plan = m1.plan /\ m2.fresh = m1.fresh
       /\ m2.action = m1.action /\ m2.by = m1.by
       /\ m2.base = base /\ m2.mine = m1.mine /\ m2.ts = m1.ts
       /\ m2.prev = m1.prev /\ m2.saw = m1.saw
  BY <1>10, <1>11 DEF Shaped
<1>13. AsSent \in Copy /\ clock' \in Nat
  BY <1>8, NoRequestIs DEF Types
<1>14. /\ Types'
       /\ \A x \in Request \ {r} : request'[x] = request[x]
       /\ After(o, "replace", m2, q)
  <2> PICK p : p = m2
    OBVIOUS
  <2>1. /\ Shaped(p) /\ p.action = request[r].action
        /\ p.by = request[r].by /\ p.plan = Tail(request[r].plan)
        /\ p.base \in Copy /\ p.mine \in Copy /\ p.fresh \in Copy
        /\ p.ts \in Nat
        /\ p.ts # 0 <=> "replace" = "stamp"
                          \/ "stamp" \notin Steps(request[r].plan)
        /\ Continue(r, p)
    BY ZenonT(30), <1>2, <1>4, <1>5, <1>9, <1>10, <1>12, <1>13
  <2>2. env' \in Copy
    BY <1>7
  <2> QED
    BY <1>1, <1>13, <2>1, <2>2, PoppedIs
<1>15. Becomes(o, "replace", q, base, o.mine, AsSent, o.ts, o.prev, o.saw)
  BY <1>4, <1>10, <1>12, <1>14 DEF After, Becomes
<1>16. Moves(r, "replace")
  BY <1>1, <1>14, MovesBy DEF Moves
<1>17. Replaced(o, q, s, base)
  <2>1. \A x \in Signer :
          /\ env'.signer[x] = IF x = s THEN o.mine.signer[x]
                                       ELSE o.fresh.signer[x]
          /\ base.signer[x] = IF x = s THEN o.mine.signer[x]
                                       ELSE o.base.signer[x]
    BY ZenonT(30), <1>5, <1>7
  <2> QED
    BY ZenonT(30), <1>5, <1>7, <1>8, <1>15, <2>1 DEF Replaced
<1> QED
  BY Zenon, <1>5, <1>7, <1>8, <1>16, <1>17

LEMMA StoreIs ==
  ASSUME Types, NEW r \in Request, StoreSealedPDF(r)
  PROVE  /\ Moves(r, "store")
         /\ UNCHANGED <<env, log, clock, died, broken, stale>>
         /\ sealed' = [hash |-> request[r].ts, events |-> request[r].saw]
         /\ LET o == request[r]
            IN  Becomes(o, "store", request'[r], o.base, o.mine, AsSent,
                        o.ts, o.prev, {})
<1> PICK o : o = request[r]
  OBVIOUS
<1> PICK q : q = request'[r]
  OBVIOUS
<1> PICK m : m = Popped(r)
  OBVIOUS
<1> DEFINE none == {}
           m1 == [m EXCEPT !.saw = none]
<1>1. /\ Step(r, "store") /\ Continue(r, m1)
      /\ UNCHANGED <<env, log, clock, died, broken, stale>>
      /\ sealed' = [hash |-> o.ts, events |-> o.saw]
  <2>1. Step(r, "store")
    BY Zenon DEF StoreSealedPDF
  <2>2. Continue(r, m1)
    BY Zenon DEF StoreSealedPDF
  <2>3. UNCHANGED <<env, log, clock, died, broken, stale>>
    BY DEF StoreSealedPDF
  <2>4. sealed' = [hash |-> o.ts, events |-> o.saw]
    BY Zenon DEF StoreSealedPDF
  <2> QED
    BY <2>1, <2>2, <2>3, <2>4
<1>2. /\ Typed(o) /\ o.plan # << >> /\ Shaped(o)
      /\ o.base \in Copy /\ o.mine \in Copy /\ o.ts \in Nat
      /\ o.ts # 0 <=> "stamp" \notin Steps(o.plan)
  BY <1>1, MovesBy DEF Typed
<1>3. /\ Shaped(m) /\ m.plan = Tail(o.plan) /\ m.fresh = AsSent
      /\ m.action = o.action /\ m.by = o.by
      /\ m.base = o.base /\ m.mine = o.mine /\ m.ts = o.ts
      /\ m.prev = o.prev
  BY <1>2, PopIs
<1> HIDE DEF none
<1>4. Shaped(m1) /\ m1.plan = m.plan /\ m1.fresh = m.fresh
  BY <1>3 DEF Shaped
<1>5. m1.action = m.action /\ m1.by = m.by /\ m1.base = m.base
  BY <1>3 DEF Shaped
<1>6. m1.mine = m.mine /\ m1.ts = m.ts /\ m1.prev = m.prev /\ m1.saw = none
  BY <1>3 DEF Shaped
<1> PICK p : p = m1
  OBVIOUS
<1> HIDE DEF m1
<1>7. /\ Shaped(p) /\ p.action = request[r].action
      /\ p.by = request[r].by /\ p.plan = Tail(request[r].plan)
      /\ p.base \in Copy /\ p.mine \in Copy /\ p.fresh \in Copy
      /\ p.ts \in Nat
      /\ p.ts # 0 <=> "store" = "stamp" \/ "stamp" \notin Steps(request[r].plan)
      /\ Continue(r, p)
  BY <1>1, <1>2, <1>3, <1>4, <1>5, <1>6, NoRequestIs
<1>8. env' \in Copy /\ clock' \in Nat
  BY <1>1 DEF Types
<1>9. /\ Types'
      /\ \A x \in Request \ {r} : request'[x] = request[x]
      /\ After(o, "store", p, q)
  BY <1>1, <1>7, <1>8, PoppedIs
<1>10. Becomes(o, "store", q, o.base, o.mine, AsSent, o.ts, o.prev, {})
  BY <1>3, <1>4, <1>5, <1>6, <1>9 DEF After, Becomes, none
<1>11. Moves(r, "store")
  BY <1>1, <1>9, MovesBy DEF Moves
<1> QED
  BY <1>1, <1>10, <1>11

LEMMA PrevIs ==
  ASSUME Types, NEW r \in Request, Step(r, "list"), NEW prev,
         Continue(r, [Popped(r) EXCEPT !.prev = prev]),
         UNCHANGED <<env, clock>>
  PROVE  /\ Moves(r, "list")
         /\ LET o == request[r]
            IN  Becomes(o, "list", request'[r], o.base, o.mine, AsSent,
                        o.ts, prev, o.saw)
<1> PICK o : o = request[r]
  OBVIOUS
<1> PICK q : q = request'[r]
  OBVIOUS
<1> PICK m : m = Popped(r)
  OBVIOUS
<1> DEFINE m1 == [m EXCEPT !.prev = prev]
<1>1. Step(r, "list") /\ Continue(r, m1)
  OBVIOUS
<1>2. /\ Typed(o) /\ o.plan # << >> /\ Shaped(o)
      /\ o.base \in Copy /\ o.mine \in Copy /\ o.ts \in Nat
      /\ o.ts # 0 <=> "stamp" \notin Steps(o.plan)
  BY <1>1, MovesBy DEF Typed
<1>3. /\ Shaped(m) /\ m.plan = Tail(o.plan) /\ m.fresh = AsSent
      /\ m.action = o.action /\ m.by = o.by
      /\ m.base = o.base /\ m.mine = o.mine /\ m.ts = o.ts
      /\ m.saw = o.saw
  BY <1>2, PopIs
<1>4. Shaped(m1) /\ m1.plan = m.plan /\ m1.fresh = m.fresh
  BY <1>3 DEF Shaped
<1>5. m1.action = m.action /\ m1.by = m.by /\ m1.base = m.base
  BY <1>3 DEF Shaped
<1>6. m1.mine = m.mine /\ m1.ts = m.ts /\ m1.prev = prev /\ m1.saw = m.saw
  BY <1>3 DEF Shaped
<1> PICK p : p = m1
  OBVIOUS
<1> HIDE DEF m1
<1>7. /\ Shaped(p) /\ p.action = request[r].action
      /\ p.by = request[r].by /\ p.plan = Tail(request[r].plan)
      /\ p.base \in Copy /\ p.mine \in Copy /\ p.fresh \in Copy
      /\ p.ts \in Nat
      /\ p.ts # 0 <=> "list" = "stamp" \/ "stamp" \notin Steps(request[r].plan)
      /\ Continue(r, p)
  BY <1>1, <1>2, <1>3, <1>4, <1>5, <1>6, NoRequestIs
<1>8. env' \in Copy /\ clock' \in Nat
  BY DEF Types
<1>9. /\ Types'
      /\ \A x \in Request \ {r} : request'[x] = request[x]
      /\ After(o, "list", p, q)
  BY <1>1, <1>7, <1>8, PoppedIs
<1>10. Becomes(o, "list", q, o.base, o.mine, AsSent, o.ts, prev, o.saw)
  BY <1>3, <1>4, <1>5, <1>6, <1>9 DEF After, Becomes
<1>11. Moves(r, "list")
  BY <1>1, <1>9, MovesBy DEF Moves
<1> QED
  BY <1>10, <1>11

LEMMA AppendIs ==
  ASSUME Types, NEW r \in Request, AppendAuditEvent(r)
  PROVE  /\ Moves(r, "append")
         /\ UNCHANGED <<env, sealed, clock, died, stale>>
         /\ LET o == request[r]
            IN  /\ Becomes(o, "append", request'[r], o.base, o.mine,
                           AsSent, o.ts, o.prev, o.saw)
                /\ log' = log \union {Event(o.ts, o.action, o.by, o.prev)}
<1> PICK o : o = request[r]
  OBVIOUS
<1> PICK q : q = request'[r]
  OBVIOUS
<1> PICK p : p = Popped(r)
  OBVIOUS
<1>1. /\ Step(r, "append") /\ Continue(r, p)
      /\ UNCHANGED <<env, sealed, clock, died, stale>>
      /\ log' = log \union {Event(o.ts, o.action, o.by, o.prev)}
  BY DEF AppendAuditEvent
<1>2. /\ Typed(o) /\ o.plan # << >> /\ Shaped(o)
      /\ o.base \in Copy /\ o.mine \in Copy /\ o.ts \in Nat
      /\ o.ts # 0 <=> "stamp" \notin Steps(o.plan)
  BY <1>1, MovesBy DEF Typed
<1>3. /\ Shaped(p) /\ p.plan = Tail(o.plan) /\ p.fresh = AsSent
      /\ p.action = o.action /\ p.by = o.by
      /\ p.base = o.base /\ p.mine = o.mine /\ p.ts = o.ts
      /\ p.prev = o.prev /\ p.saw = o.saw
  BY <1>2, PopIs
<1>4. /\ Shaped(p) /\ p.action = request[r].action
      /\ p.by = request[r].by /\ p.plan = Tail(request[r].plan)
      /\ p.base \in Copy /\ p.mine \in Copy /\ p.fresh \in Copy
      /\ p.ts \in Nat
      /\ p.ts # 0 <=> "append" = "stamp" \/ "stamp" \notin Steps(request[r].plan)
      /\ Continue(r, p)
  BY <1>1, <1>2, <1>3, NoRequestIs
<1>5. env' \in Copy /\ clock' \in Nat
  BY <1>1 DEF Types
<1>6. /\ Types'
      /\ \A x \in Request \ {r} : request'[x] = request[x]
      /\ After(o, "append", p, q)
  BY <1>1, <1>4, <1>5, PoppedIs
<1>7. Becomes(o, "append", q, o.base, o.mine, AsSent, o.ts, o.prev, o.saw)
  BY <1>3, <1>6 DEF After, Becomes
<1>8. Moves(r, "append")
  BY <1>1, <1>6, MovesBy DEF Moves
<1> QED
  BY <1>1, <1>7, <1>8

LEMMA StampIs ==
  ASSUME Types, NEW r \in Request, Stamp(r)
  PROVE  /\ Moves(r, "stamp") /\ clock' = clock + 1
         /\ UNCHANGED <<env, log, sealed, died, broken, stale>>
         /\ LET o == request[r]
            IN  Becomes(o, "stamp", request'[r], o.base, o.mine, AsSent,
                        clock + 1, o.prev,
                        IF o.action = "completed" THEN log ELSE {})
<1> PICK o : o = request[r]
  OBVIOUS
<1> PICK q : q = request'[r]
  OBVIOUS
<1> PICK m : m = Popped(r)
  OBVIOUS
<1> DEFINE ts == clock + 1
           saw == IF request[r].action = "completed" THEN log ELSE {}
           m1 == [m EXCEPT !.ts = ts]
           m2 == [m1 EXCEPT !.saw = saw]
<1>1. /\ Step(r, "stamp") /\ Continue(r, m2)
      /\ UNCHANGED <<env, log, sealed, died, broken, stale>>
      /\ clock' = ts
  <2>1. Step(r, "stamp")
    BY Zenon DEF Stamp
  <2>2. Continue(r, m2)
    BY Zenon DEF Stamp
  <2>3. UNCHANGED <<env, log, sealed, died, broken, stale>> /\ clock' = ts
    BY DEF Stamp
  <2> QED
    BY <2>1, <2>2, <2>3
<1>2. /\ Typed(o) /\ o.plan # << >> /\ Shaped(o)
      /\ o.base \in Copy /\ o.mine \in Copy
  BY <1>1, MovesBy DEF Typed
<1>3. ts \in Nat /\ ts # 0
  BY DEF Types
<1> HIDE DEF ts, saw
<1>4. /\ Shaped(m) /\ m.plan = Tail(o.plan) /\ m.fresh = AsSent
      /\ m.action = o.action /\ m.by = o.by
      /\ m.base = o.base /\ m.mine = o.mine /\ m.prev = o.prev
  BY <1>2, PopIs
<1>5. Shaped(m1) /\ m1.plan = m.plan /\ m1.fresh = m.fresh
  BY <1>4 DEF Shaped
<1>6. m1.action = m.action /\ m1.by = m.by /\ m1.base = m.base
  BY <1>4 DEF Shaped
<1>7. m1.mine = m.mine /\ m1.prev = m.prev /\ m1.ts = ts
  BY <1>4 DEF Shaped
<1> HIDE DEF m1
<1>8. Shaped(m2) /\ m2.plan = m1.plan /\ m2.fresh = m1.fresh
  BY <1>5 DEF Shaped
<1>9. m2.action = m1.action /\ m2.by = m1.by /\ m2.base = m1.base
  BY <1>5 DEF Shaped
<1>10. m2.mine = m1.mine /\ m2.prev = m1.prev /\ m2.ts = m1.ts
       /\ m2.saw = saw
  BY <1>5 DEF Shaped
<1> PICK p : p = m2
  OBVIOUS
<1> HIDE DEF m2
<1>11. /\ Shaped(p) /\ p.action = request[r].action
       /\ p.by = request[r].by /\ p.plan = Tail(request[r].plan)
       /\ p.base \in Copy /\ p.mine \in Copy /\ p.fresh \in Copy
       /\ p.ts \in Nat
       /\ p.ts # 0 <=> "stamp" = "stamp"
                         \/ "stamp" \notin Steps(request[r].plan)
       /\ Continue(r, p)
  BY <1>1, <1>2, <1>3, <1>4, <1>5, <1>6, <1>7, <1>8, <1>9, <1>10, NoRequestIs
<1>12. env' \in Copy /\ clock' \in Nat
  BY <1>1, <1>3 DEF Types
<1>13. /\ Types'
       /\ \A x \in Request \ {r} : request'[x] = request[x]
       /\ After(o, "stamp", p, q)
  BY <1>1, <1>11, <1>12, PoppedIs
<1>14. Becomes(o, "stamp", q, o.base, o.mine, AsSent, ts, o.prev, saw)
  BY <1>4, <1>5, <1>6, <1>7, <1>8, <1>9, <1>10, <1>13 DEF After, Becomes
<1>15. Moves(r, "stamp")
  BY <1>1, <1>13, MovesBy DEF Moves
<1> QED
  BY <1>1, <1>14, <1>15 DEF ts, saw

(* UpdateEnvelope stored the handler's copy; the signers whom Complete     *)
(* activates next were pending in it.                                      *)
Wrote(o, q, mine) ==
  /\ Becomes(o, "write", q, env', mine, AsSent, o.ts, o.prev, o.saw)
  /\ env'.status = o.mine.status /\ env'.filled = o.mine.filled
  /\ env'.final = IF o.action = "completed" THEN o.ts ELSE o.mine.final
  /\ mine.status = env'.status /\ mine.filled = env'.filled
  /\ mine.final = env'.final
  /\ \A x \in Signer :
       /\ env'.signer[x] = o.mine.signer[x]
       /\ \/ mine.signer[x] = env'.signer[x]
          \/ mine.signer[x] = "sent" /\ env'.signer[x] = "pending"
  /\ ~stale' => ~stale /\ env = o.base /\ o.action # "sent"

LEMMA WriteIs ==
  ASSUME Types, NEW r \in Request, Write(r)
  PROVE  /\ Moves(r, "write") /\ env' \in Copy
         /\ UNCHANGED <<log, sealed, clock, died, broken>>
         /\ \E mine \in Copy : Wrote(request[r], request'[r], mine)
<1> PICK o : o = request[r]
  OBVIOUS
<1> PICK q : q = request'[r]
  OBVIOUS
<1> PICK m : m = Popped(r)
  OBVIOUS
<1> DEFINE next == IF request[r].action = "signed"
                   THEN Unlocked(request[r].mine) ELSE {}
           final == IF request[r].action = "completed" THEN request[r].ts
                    ELSE request[r].mine.final
           given == [s \in Signer |-> IF s \in next THEN "sent"
                                                    ELSE env'.signer[s]]
           mine == [env' EXCEPT !.signer = given]
           m1 == [m EXCEPT !.todo = next]
           m2 == [m1 EXCEPT !.base = env']
           m3 == [m2 EXCEPT !.mine = mine]
<1>1. /\ Step(r, "write") /\ Continue(r, m3)
      /\ UNCHANGED <<log, sealed, clock, died, broken>>
      /\ env' = [request[r].mine EXCEPT !.final = final]
      /\ ~stale' => ~stale /\ env = request[r].base /\ request[r].action # "sent"
  <2>1. Step(r, "write")
    BY Zenon DEF Write
  <2>2. Continue(r, m3)
    BY DEF Write
  <2>3. UNCHANGED <<log, sealed, clock, died, broken>>
    BY DEF Write
  <2>4. env' = [request[r].mine EXCEPT !.final = final]
    BY Zenon DEF Write
  <2>5. ~stale' => ~stale /\ env = request[r].base /\ request[r].action # "sent"
    BY DEF Write
  <2> QED
    BY <2>1, <2>2, <2>3, <2>4, <2>5
<1>2. /\ Typed(o) /\ o.plan # << >> /\ Shaped(o)
      /\ o.base \in Copy /\ o.mine \in Copy /\ o.ts \in Nat
      /\ o.ts # 0 <=> "stamp" \notin Steps(o.plan)
  BY <1>1, MovesBy DEF Typed
<1>3. final \in Nat /\ next \subseteq Signer
  BY <1>2 DEF Copy, Unlocked
<1>4. \A s \in next : o.mine.signer[s] = "pending"
  BY DEF Unlocked
<1>5. final = IF o.action = "completed" THEN o.ts ELSE o.mine.final
  OBVIOUS
<1> HIDE DEF next, final
<1>6. /\ env' \in Copy /\ env'.status = o.mine.status
      /\ env'.filled = o.mine.filled /\ env'.final = final
      /\ env'.signer = o.mine.signer
  BY <1>1, <1>2, <1>3 DEF Copy
<1>7. given \in [Signer -> SignerStatus]
  BY <1>6 DEF Copy, SignerStatus
<1>8. /\ mine \in Copy /\ mine.status = env'.status
      /\ mine.filled = env'.filled /\ mine.final = env'.final
      /\ mine.signer = given
  <2> HIDE DEF given
  <2> QED
    BY <1>6, <1>7 DEF Copy
<1>9. \A x \in Signer :
        \/ mine.signer[x] = env'.signer[x]
        \/ mine.signer[x] = "sent" /\ env'.signer[x] = "pending"
  <2> HIDE DEF mine
  <2> QED
    BY <1>4, <1>6, <1>8
<1> HIDE DEF given, mine
<1>10. /\ Shaped(m) /\ m.plan = Tail(o.plan) /\ m.fresh = AsSent
       /\ m.action = o.action /\ m.by = o.by
       /\ m.ts = o.ts /\ m.prev = o.prev /\ m.saw = o.saw
  BY <1>2, PopIs
<1>11. /\ Shaped(m1) /\ m1.plan = m.plan /\ m1.fresh = m.fresh
       /\ m1.action = m.action /\ m1.by = m.by
  BY <1>10 DEF Shaped
<1>12. m1.ts = m.ts /\ m1.prev = m.prev /\ m1.saw = m.saw
  BY <1>10 DEF Shaped
<1> HIDE DEF m1
<1>13. /\ Shaped(m2) /\ m2.plan = m1.plan /\ m2.fresh = m1.fresh
       /\ m2.action = m1.action /\ m2.by = m1.by
  BY <1>11 DEF Shaped
<1>14. m2.ts = m1.ts /\ m2.prev = m1.prev /\ m2.saw = m1.saw
       /\ m2.base = env'
  BY <1>11 DEF Shaped
<1> HIDE DEF m2
<1>15. /\ Shaped(m3) /\ m3.plan = m2.plan /\ m3.fresh = m2.fresh
       /\ m3.action = m2.action /\ m3.by = m2.by
  BY <1>13 DEF Shaped
<1>16. m3.ts = m2.ts /\ m3.prev = m2.prev /\ m3.saw = m2.saw
       /\ m3.base = m2.base /\ m3.mine = mine
  BY <1>13 DEF Shaped
<1> HIDE DEF m3
<1>17. /\ Shaped(m3) /\ m3.action = o.action /\ m3.by = o.by
       /\ m3.plan = Tail(o.plan) /\ m3.fresh = AsSent
       /\ m3.ts = o.ts /\ m3.prev = o.prev /\ m3.saw = o.saw
       /\ m3.base = env' /\ m3.mine = mine
  BY <1>10, <1>11, <1>12, <1>13, <1>14, <1>15, <1>16
<1>18. /\ Types'
       /\ \A x \in Request \ {r} : request'[x] = request[x]
       /\ After(o, "write", m3, q)
  <2> PICK p : p = m3
    OBVIOUS
  <2>1. /\ Shaped(p) /\ p.action = request[r].action
        /\ p.by = request[r].by /\ p.plan = Tail(request[r].plan)
        /\ p.base \in Copy /\ p.mine \in Copy /\ p.fresh \in Copy
        /\ p.ts \in Nat
        /\ p.ts # 0 <=> "write" = "stamp"
                          \/ "stamp" \notin Steps(request[r].plan)
        /\ Continue(r, p)
    BY <1>1, <1>2, <1>6, <1>8, <1>17, NoRequestIs
  <2>2. env' \in Copy /\ clock' \in Nat
    BY <1>1, <1>6 DEF Types
  <2> QED
    BY <1>1, <2>1, <2>2, PoppedIs
<1>19. Becomes(o, "write", q, env', mine, AsSent, o.ts, o.prev, o.saw)
  BY <1>17, <1>18 DEF After, Becomes
<1>20. Wrote(o, q, mine)
  BY <1>1, <1>5, <1>6, <1>8, <1>9, <1>19 DEF Wrote
<1>21. Moves(r, "write")
  BY <1>1, <1>18, MovesBy DEF Moves
<1> QED
  BY <1>1, <1>6, <1>8, <1>20, <1>21

LEMMA DieIs ==
  ASSUME Types, NEW r \in Request, Die(r)
  PROVE  /\ Types' /\ \A x \in Request \ {r} : request'[x] = request[x]
         /\ request'[r] = NoRequest /\ died' = TRUE
         /\ UNCHANGED <<env, log, sealed, clock, broken, stale>>
<1>1. Continue(r, NoRequest)
      /\ died' = TRUE /\ UNCHANGED <<env, log, sealed, clock, broken, stale>>
  BY DEF Die
<1>2. request' = [request EXCEPT ![r] = NoRequest]
  BY <1>1, NoRequestIs DEF Continue, NothingToUpsert
<1>3. /\ request' = [x \in Request |-> request'[x]]
      /\ \A x \in Request \ {r} : request'[x] = request[x]
      /\ request'[r] = NoRequest
  BY <1>2 DEF Types
<1> QED
  BY <1>1, <1>3, NoRequestIs DEF Types

LEMMA UpdateIs ==
  ASSUME Types, Update
  PROVE  /\ Types' /\ env'.status = "draft" /\ env'.final = 0
         /\ \A s \in Signer : env'.signer[s] = "pending"
         /\ UNCHANGED <<log, sealed, clock, request, died, broken>>
         /\ ~stale' => ~stale /\ \A e \in log : e.action # "signed"
<1>1. /\ env' = [status |-> "draft", signer |-> [s \in Signer |-> "pending"],
                 filled |-> {}, final |-> 0]
      /\ UNCHANGED <<log, sealed, clock, request, died, broken>>
      /\ ~stale' => ~stale /\ \A e \in log : e.action # "signed"
  BY DEF Update
<1>2. /\ env' \in Copy /\ env'.status = "draft" /\ env'.final = 0
      /\ \A s \in Signer : env'.signer[s] = "pending"
  BY <1>1 DEF Copy, EnvelopeStatus, SignerStatus
<1>3. Types'
  BY <1>1, <1>2 DEF Types
<1> QED
  BY <1>1, <1>2, <1>3

(* What a handler makes of the envelope it reads: it marks a signature if  *)
(* it is the signer's, it drops one only if the envelope is sent again,    *)
(* and it completes what all others have signed.                           *)
Means(action, by, mine) ==
  /\ mine.final = env.final /\ env.filled \subseteq mine.filled
  /\ \A s \in Signer :
       /\ mine.signer[s] = "signed" =>
            env.signer[s] = "signed" \/ (action = "signed" /\ s = by)
       /\ action # "sent" /\ env.signer[s] = "signed" =>
            mine.signer[s] = "signed"
  /\ mine.status = "completed" =>
       \/ env.status = "completed"
       \/ \A s \in Signer :
            env.signer[s] = "signed" \/ (action = "signed" /\ s = by)
  /\ action = "signed" => /\ by \in Signer /\ mine.signer[by] = "signed"
                          /\ by \in mine.filled
  /\ action = "completed" => /\ sealed = NotSealed
                             /\ \A s \in Signer : env.signer[s] = "signed"

Calls(r) ==
  \/ Send(r) \/ Cancel(r) \/ Download(r)
  \/ \E s \in Signer :
       GetSignerView(r, s) \/ Complete(r, s) \/ Decline(r, s)

Opens(r) ==
  /\ Types' /\ UNCHANGED Rest
  /\ \A x \in Request \ {r} : request'[x] = request[x]
  /\ \E action \in Actions : \E by : \E mine \in Copy :
       Means(action, by, mine) /\ New(action, by, mine, request'[r])

LEMMA OpensBy ==
  ASSUME Types, NEW r \in Request, NEW action \in Actions, NEW by,
         NEW todo, NEW mine \in Copy, Means(action, by, mine),
         Begin(r, action, by, todo, mine)
  PROVE  Opens(r)
<1>1. action = "signed" => by \in Signer
  BY DEF Means
<1> QED
  BY <1>1, Begun DEF Opens

LEMMA StatusOf ==
  ASSUME NEW status \in EnvelopeStatus, env \in Copy
  PROVE  LET mine == [env EXCEPT !.status = status]
         IN  /\ mine \in Copy /\ mine.status = status
             /\ mine.signer = env.signer /\ mine.filled = env.filled
             /\ mine.final = env.final
BY DEF Copy

LEMMA CallIs == ASSUME Types, NEW r \in Request, Calls(r) PROVE Opens(r)
<1>1. env \in Copy
  BY DEF Types
<1>2. CASE Send(r)
  <2> DEFINE given == [s \in Signer |-> "sent"]
             m1 == [env EXCEPT !.status = "sent"]
             mine == [m1 EXCEPT !.signer = given]
  <2>1. given \in [Signer -> SignerStatus]
        /\ \A s \in Signer : given[s] = "sent"
    BY DEF SignerStatus
  <2>2. Begin(r, "sent", 0, Signer, mine)
    BY <1>2 DEF Send
  <2> HIDE DEF given
  <2>3. m1 \in Copy /\ m1.status = "sent" /\ m1.filled = env.filled
        /\ m1.final = env.final
    BY <1>1 DEF Copy, EnvelopeStatus
  <2> HIDE DEF m1
  <2>4. mine \in Copy /\ mine.status = "sent" /\ mine.filled = env.filled
        /\ mine.final = env.final /\ mine.signer = given
    BY <2>1, <2>3 DEF Copy
  <2> HIDE DEF mine
  <2>5. Means("sent", 0, mine)
    BY <2>1, <2>4 DEF Means
  <2> QED
    BY <2>2, <2>4, <2>5, OpensBy DEF Actions
<1>3. CASE Cancel(r)
  <2> PICK mine : mine = [env EXCEPT !.status = "voided"]
    OBVIOUS
  <2>1. Begin(r, "voided", 0, {}, mine)
    BY <1>3 DEF Cancel
  <2>2. /\ mine \in Copy /\ mine.status = "voided"
        /\ mine.signer = env.signer /\ mine.filled = env.filled
        /\ mine.final = env.final
    BY <1>1, StatusOf DEF EnvelopeStatus
  <2>3. Means("voided", 0, mine)
    BY <2>2 DEF Means
  <2> QED
    BY <2>1, <2>2, <2>3, OpensBy DEF Actions
<1>4. CASE Download(r)
  <2> PICK mine : mine = [env EXCEPT !.status = "completed"]
    OBVIOUS
  <2>1. /\ Begin(r, "completed", 0, {}, mine)
        /\ sealed = NotSealed
        /\ \A s \in Signer : env.signer[s] = "signed"
    BY <1>4 DEF Download, AllSigned
  <2>2. /\ mine \in Copy /\ mine.status = "completed"
        /\ mine.signer = env.signer /\ mine.filled = env.filled
        /\ mine.final = env.final
    BY <1>1, StatusOf DEF EnvelopeStatus
  <2>3. Means("completed", 0, mine)
    BY <2>1, <2>2 DEF Means
  <2> QED
    BY <2>1, <2>2, <2>3, OpensBy DEF Actions
<1>5. ASSUME NEW s \in Signer, GetSignerView(r, s) PROVE Opens(r)
  <2> PICK mine : mine = Marked(env, s, "viewed")
    OBVIOUS
  <2>1. /\ Begin(r, "viewed", s, {s}, mine)
        /\ env.signer[s] \in {"sent", "pending"}
    BY <1>5 DEF GetSignerView, Marked
  <2>2. /\ mine \in Copy /\ mine.status = env.status
        /\ mine.filled = env.filled /\ mine.final = env.final
        /\ \A x \in Signer :
             mine.signer[x] = IF x = s THEN "viewed" ELSE env.signer[x]
    BY <1>1, MarkedIs DEF SignerStatus
  <2>3. Means("viewed", s, mine)
    BY <2>1, <2>2 DEF Means
  <2> QED
    BY <2>1, <2>2, <2>3, OpensBy DEF Actions
<1>6. ASSUME NEW s \in Signer, Complete(r, s) PROVE Opens(r)
  <2> DEFINE m1 == Marked(env, s, "signed")
             signed == [m1 EXCEPT !.filled = @ \union {s}]
             mine == IF AllSigned(signed)
                     THEN [signed EXCEPT !.status = "completed"] ELSE signed
  <2>1. Begin(r, "signed", s, {s}, mine)
    BY <1>6 DEF Complete, Completed, Marked
  <2>2. /\ m1 \in Copy /\ m1.status = env.status
        /\ m1.filled = env.filled /\ m1.final = env.final
        /\ \A x \in Signer :
             m1.signer[x] = IF x = s THEN "signed" ELSE env.signer[x]
    BY <1>1, MarkedIs DEF SignerStatus
  <2> HIDE DEF m1
  <2>3. /\ signed \in Copy /\ signed.status = m1.status
        /\ signed.filled = m1.filled \union {s} /\ signed.final = m1.final
        /\ signed.signer = m1.signer
    BY <2>2 DEF Copy
  <2> HIDE DEF signed
  <2>4. /\ mine \in Copy /\ mine.filled = signed.filled
        /\ mine.final = signed.final /\ mine.signer = signed.signer
        /\ mine.status = "completed" =>
             signed.status = "completed" \/ AllSigned(signed)
    BY <2>3 DEF Copy, EnvelopeStatus
  <2> HIDE DEF mine
  <2>5. Means("signed", s, mine)
    BY <2>2, <2>3, <2>4 DEF Means, AllSigned
  <2> QED
    BY <2>1, <2>4, <2>5, OpensBy DEF Actions
<1>7. ASSUME NEW s \in Signer, Decline(r, s) PROVE Opens(r)
  <2> DEFINE m1 == Marked(env, s, "declined")
             mine == [m1 EXCEPT !.status = "declined"]
  <2>1. Begin(r, "declined", s, {s}, mine) /\ env.signer[s] # "signed"
    BY <1>7 DEF Decline, Active, Marked
  <2>2. /\ m1 \in Copy /\ m1.filled = env.filled /\ m1.final = env.final
        /\ \A x \in Signer :
             m1.signer[x] = IF x = s THEN "declined" ELSE env.signer[x]
    BY <1>1, MarkedIs DEF SignerStatus
  <2> HIDE DEF m1
  <2>3. /\ mine \in Copy /\ mine.status = "declined"
        /\ mine.filled = m1.filled /\ mine.final = m1.final
        /\ mine.signer = m1.signer
    BY <2>2 DEF Copy, EnvelopeStatus
  <2> HIDE DEF mine
  <2>4. Means("declined", s, mine)
    BY <2>1, <2>2, <2>3 DEF Means
  <2> QED
    BY <2>1, <2>3, <2>4, OpensBy DEF Actions
<1> QED
  BY <1>2, <1>3, <1>4, <1>5, <1>6, <1>7 DEF Calls

-----------------------------------------------------------------------------
(* The audit chain.  An event that is still to be appended is no older     *)
(* than any in the log but those that overlapped it, no other has its      *)
(* timestamp, and once the log was listed it names the event before it.    *)
Appends(q) == q.ts # 0 /\ "append" \in Steps(q.plan)
Last(t) == Latest({f \in log : f.ts < t})
Linked(q) ==
  Appends(q) =>
    /\ q.ts \in 1..clock
    /\ \A e \in log : /\ e.ts # q.ts
                      /\ e.ts > q.ts => e.ts \in broken /\ q.ts \in broken
    /\ "list" \notin Steps(q.plan) => q.ts \in broken \/ q.prev = Last(q.ts)
Chain ==
  /\ \A e \in log : e.ts \in 1..clock
  /\ \A r \in Request : Linked(request[r])
  /\ \A r, s \in Request :
       Appends(request[r]) /\ Appends(request[s]) /\ r # s =>
         request[r].ts # request[s].ts
  /\ \A e \in log : e.ts \notin broken => e.prev = Last(e.ts)

LEMMA ChainIs == Chain => ChainIntact
BY DEF Chain, ChainIntact, Links, Before, Last

(* The steps that neither stamp nor append.                                *)
LEMMA QuietKeepsChain ==
  ASSUME Chain, NEW r \in Request,
         UNCHANGED <<log, clock>>, broken \subseteq broken',
         \A x \in Request \ {r} : request'[x] = request[x],
         Appends(request'[r]) =>
           /\ Appends(request[r]) /\ request'[r].ts = request[r].ts
           /\ "list" \notin Steps(request'[r].plan) =>
                \/ "list" \notin Steps(request[r].plan)
                   /\ request'[r].prev = request[r].prev
                \/ request[r].ts \in broken'
                \/ request'[r].prev = Last(request[r].ts)
  PROVE  Chain'
<1>1. \A t : Last(t)' = Last(t)
  BY DEF Last
<1>2. \A x \in Request : Linked(request[x])'
  <2> TAKE x \in Request
  <2>1. CASE x # r
    <3>1. request'[x] = request[x] /\ Linked(request[x])
      BY <2>1 DEF Chain
    <3> QED
      BY <1>1, <3>1 DEF Linked, Appends
  <2>2. CASE x = r
    <3>1. Linked(request[r])
      BY DEF Chain
    <3> QED
      BY <1>1, <2>2, <3>1 DEF Linked, Appends
  <2> QED
    BY <2>1, <2>2
<1>3. \A x \in Request : Appends(request[x])' =>
                           Appends(request[x]) /\ request'[x].ts = request[x].ts
  BY DEF Appends
<1>4. (\A x, s \in Request :
         Appends(request[x]) /\ Appends(request[s]) /\ x # s =>
           request[x].ts # request[s].ts)'
  BY <1>3 DEF Chain
<1>5. \A e \in log' : e.ts \in 1..clock'
                      /\ (e.ts \notin broken' => e.prev = Last(e.ts)')
  BY <1>1 DEF Chain
<1> QED
  BY <1>2, <1>4, <1>5 DEF Chain

LEMMA StampKeepsChain ==
  ASSUME Types, Chain, NEW r \in Request, Stamp(r)
  PROVE  Chain'
<1> PICK o : o = request[r]
  OBVIOUS
<1> PICK q : q = request'[r]
  OBVIOUS
<1> PICK saw : saw = IF o.action = "completed" THEN log ELSE {}
  OBVIOUS
<1>1. /\ Moves(r, "stamp") /\ clock' = clock + 1
      /\ UNCHANGED <<log, broken>>
      /\ Becomes(o, "stamp", q, o.base, o.mine, AsSent, clock + 1,
                 o.prev, saw)
  BY StampIs
<1>2. clock \in Nat
  BY DEF Types
<1>3. \A t : Last(t)' = Last(t)
  BY <1>1 DEF Last
<1>4. Appends(q) => q.ts = clock + 1 /\ "list" \in Steps(q.plan)
  <2>1. "stamp" \in Steps(o.plan) /\ o.plan # << >>
        /\ o.plan \in Plans(o.action)
    BY <1>1 DEF Moves, Types, Typed
  <2>2. "list" \in Steps(o.plan)
    BY <2>1, PlanSteps
  <2> QED
    BY <1>1, <2>2, NoRequestIs DEF Becomes, Appends, Marks
<1>5. \A x \in Request \ {r} : request'[x] = request[x]
  BY <1>1 DEF Moves
<1>6. \A x \in Request \ {r} : Appends(request[x]) => request[x].ts \in 1..clock
  BY DEF Chain, Linked
<1>7. \A e \in log : e.ts \in 1..clock
  BY DEF Chain
<1>8. \A x \in Request : Linked(request[x])'
  <2> TAKE x \in Request
  <2>1. CASE x # r
    <3>1. request'[x] = request[x] /\ Linked(request[x])
      BY <1>5, <2>1 DEF Chain
    <3> QED
      BY <1>1, <1>2, <1>3, <3>1 DEF Linked, Appends
  <2>2. CASE x = r
    BY <1>1, <1>2, <1>4, <1>7, <2>2 DEF Linked, Appends
  <2> QED
    BY <2>1, <2>2
<1>9. (\A x, s \in Request :
         Appends(request[x]) /\ Appends(request[s]) /\ x # s =>
           request[x].ts # request[s].ts)'
  <2> SUFFICES ASSUME NEW x \in Request, NEW s \in Request, x # s,
                      Appends(request'[x]), Appends(request'[s])
               PROVE  request'[x].ts # request'[s].ts
    BY DEF Appends
  <2>1. CASE x # r /\ s # r
    BY <1>5, <2>1 DEF Chain
  <2>2. CASE x = r
    BY <1>2, <1>4, <1>5, <1>6, <2>2
  <2>3. CASE s = r
    BY <1>2, <1>4, <1>5, <1>6, <2>3
  <2> QED
    BY <2>1, <2>2, <2>3
<1>10. \A e \in log' : e.ts \in 1..clock'
                       /\ (e.ts \notin broken' => e.prev = Last(e.ts)')
  BY <1>1, <1>2, <1>3 DEF Chain
<1> QED
  BY <1>8, <1>9, <1>10 DEF Chain

LEMMA AppendPlan ==
  ASSUME NEW action, NEW plan \in Plans(action), plan # << >>,
         Head(plan) = "append"
  PROVE  "list" \notin Steps(plan) /\ "stamp" \notin Steps(plan)
<1>1. CASE action = "signed"
  BY <1>1, PlanOf DEF Plans, SignedPlans
<1>2. CASE action = "completed"
  BY <1>2, PlanOf DEF Plans, CompletedPlans
<1>3. CASE action \notin {"signed", "completed"}
  BY <1>3, PlanOf DEF Plans, OtherPlans, Ends
<1> QED
  BY <1>1, <1>2, <1>3

LEMMA AppendKeepsChain ==
  ASSUME Types, Chain, NEW r \in Request, AppendAuditEvent(r)
  PROVE  Chain'
<1> PICK o : o = request[r]
  OBVIOUS
<1> PICK q : q = request'[r]
  OBVIOUS
<1> PICK e0 : e0 = Event(o.ts, o.action, o.by, o.prev)
  OBVIOUS
<1>1. /\ Moves(r, "append") /\ clock' = clock /\ log' = log \union {e0}
      /\ Becomes(o, "append", q, o.base, o.mine, AsSent, o.ts, o.prev,
                 o.saw)
  BY AppendIs
<1>2. e0.ts = o.ts /\ e0.prev = o.prev
  BY DEF Event
<1>3. Appends(o) /\ "list" \notin Steps(o.plan)
  <2>1. /\ o.plan # << >> /\ o.plan \in Plans(o.action)
        /\ Head(o.plan) = "append" /\ "append" \in Steps(o.plan)
        /\ o.ts # 0 <=> Stamped(o)
    BY <1>1 DEF Moves, Types, Typed
  <2> QED
    BY <2>1, AppendPlan DEF Appends, Stamped
<1>4. Linked(o) /\ o.ts \in 1..clock
  BY <1>3 DEF Chain, Linked
<1>5. ~Appends(q)
  BY <1>1, NoRequestIs, PlanOf DEF Becomes, Appends, Marks
<1>6. \A x \in Request \ {r} : request'[x] = request[x]
  BY <1>1 DEF Moves
<1>7. /\ broken \subseteq broken'
      /\ \/ broken' = broken
            /\ \A x \in Request \ {r} : ~Appends(request[x])
         \/ \A x \in Request : Appends(request[x]) =>
                                 request[x].ts \in broken'
  <2>1. Appending = {x \in Request : Appends(request[x])}
    BY DEF Appending, Remaining, Steps, Appends
  <2>2. broken' = IF Appending = {r} THEN broken
                  ELSE broken \union {request[x].ts : x \in Appending}
    BY DEF AppendAuditEvent
  <2> QED
    BY <2>1, <2>2
<1>8. \A e \in log : o.ts \notin broken' \/ e.ts \notin broken' => e.ts < o.ts
  <2> TAKE e \in log
  <2>1. e.ts \in Nat /\ o.ts \in Nat
    BY <1>4 DEF Chain, Types
  <2>2. /\ e.ts # o.ts
        /\ e.ts > o.ts => e.ts \in broken /\ o.ts \in broken
    BY <1>3, <1>4 DEF Linked
  <2> QED
    BY <1>7, <2>1, <2>2
<1>9. ASSUME NEW t \in Nat, t <= o.ts PROVE Last(t)' = Last(t)
  <2>1. {f \in log' : f.ts < t} = {f \in log : f.ts < t}
    BY <1>1, <1>2, <1>4, <1>9 DEF Types
  <2> QED
    BY <2>1 DEF Last
<1>10. ASSUME NEW x \in Request PROVE Linked(request[x])'
  <2>1. CASE x = r
    BY <1>5, <2>1 DEF Linked, Appends
  <2>2. CASE x # r
    <3>1. SUFFICES ASSUME Appends(request[x]) PROVE Linked(request[x])'
      BY <1>6, <2>2 DEF Linked, Appends
    <3>2. request'[x] = request[x] /\ Linked(request[x])
          /\ request[x].ts \in broken' /\ o.ts \in broken'
          /\ request[x].ts # o.ts
      BY <1>3, <1>6, <1>7, <2>2, <3>1 DEF Chain
    <3> QED
      BY <1>1, <1>2, <1>7, <3>1, <3>2 DEF Linked, Appends
  <2> QED
    BY <2>1, <2>2
<1>11. (\A x, s \in Request :
          Appends(request[x]) /\ Appends(request[s]) /\ x # s =>
            request[x].ts # request[s].ts)'
  BY <1>5, <1>6 DEF Chain, Appends
<1>12. ASSUME NEW e \in log'
       PROVE  e.ts \in 1..clock' /\ (e.ts \notin broken' => e.prev = Last(e.ts)')
  <2>1. CASE e = e0
    <3>1. e.ts \notin broken' => o.prev = Last(o.ts)
      BY <1>2, <1>3, <1>4, <1>7, <2>1 DEF Linked
    <3>2. Last(o.ts)' = Last(o.ts)
      BY <1>4, <1>9 DEF Types
    <3> QED
      BY <1>1, <1>2, <1>4, <2>1, <3>1, <3>2
  <2>2. CASE e # e0
    <3>1. e \in log /\ e.ts \in 1..clock
          /\ (e.ts \notin broken' => e.prev = Last(e.ts))
      BY <1>1, <1>7, <2>2 DEF Chain
    <3>2. e.ts \notin broken' => Last(e.ts)' = Last(e.ts)
      BY <1>4, <1>8, <1>9, <3>1 DEF Types
    <3> QED
      BY <1>1, <3>1, <3>2
  <2> QED
    BY <2>1, <2>2
<1> QED
  BY <1>10, <1>11, <1>12 DEF Chain

LEMMA MoveKeepsChain ==
  ASSUME Chain, NEW r \in Request, NEW h \in Marks \union {"upsert", "replace"},
         h # "list", Moves(r, h), UNCHANGED <<log, clock, broken>>,
         NEW base, NEW mine, NEW fresh, NEW saw,
         Becomes(request[r], h, request'[r], base, mine, fresh, request[r].ts,
                 request[r].prev, saw)
  PROVE  Chain'
<1> PICK o : o = request[r]
  OBVIOUS
<1> PICK q : q = request'[r]
  OBVIOUS
<1>1. Appends(q) => /\ Appends(o) /\ q.ts = o.ts /\ q.prev = o.prev
                    /\ "list" \notin Steps(q.plan) => "list" \notin Steps(o.plan)
  BY NoRequestIs DEF Becomes, Appends, Marks
<1>2. \A x \in Request \ {r} : request'[x] = request[x]
  BY DEF Moves
<1> QED
  BY <1>1, <1>2, QuietKeepsChain

LEMMA ListKeepsChain ==
  ASSUME Types, Chain, NEW r \in Request,
         List(r) \/ ListFails(r)
  PROVE  Types' /\ Chain'
<1> PICK o : o = request[r]
  OBVIOUS
<1> PICK q : q = request'[r]
  OBVIOUS
<1>1. PICK prev :
        /\ Moves(r, "list")
        /\ Becomes(o, "list", q, o.base, o.mine, AsSent, o.ts, prev, o.saw)
        /\ UNCHANGED <<log, clock>> /\ broken \subseteq broken'
        /\ prev = Latest(log) \/ o.ts \in broken'
  <2>1. CASE List(r)
    <3>1. /\ Step(r, "list") /\ UNCHANGED <<env, log, clock, broken>>
          /\ Continue(r, [Popped(r) EXCEPT !.prev = Latest(log)])
      BY <2>1 DEF List
    <3> QED
      BY <3>1, PrevIs
  <2>2. CASE ListFails(r)
    <3>1. /\ Step(r, "list") /\ UNCHANGED <<env, log, clock>>
          /\ broken' = broken \union {o.ts}
          /\ Continue(r, [Popped(r) EXCEPT !.prev = 0])
      BY <2>2 DEF ListFails
    <3> QED
      BY <3>1, PrevIs
  <2> QED
    BY <2>1, <2>2
<1>2. Appends(q) => Appends(o) /\ q.ts = o.ts /\ q.prev = prev
  BY <1>1, NoRequestIs DEF Becomes, Appends, Marks
<1>3. Appends(o) => o.ts \in broken' \/ prev = Last(o.ts)
  <2> SUFFICES ASSUME Appends(o), o.ts \notin broken' PROVE prev = Last(o.ts)
    OBVIOUS
  <2>1. /\ o.ts \in 1..clock
        /\ \A e \in log : /\ e.ts \in 1..clock /\ e.ts # o.ts
                          /\ e.ts > o.ts => o.ts \in broken
    BY DEF Chain, Linked
  <2>2. clock \in Nat
    BY DEF Types
  <2>3. \A e \in log : e.ts < o.ts
    BY <1>1, <2>1, <2>2
  <2>4. {f \in log : f.ts < o.ts} = log
    BY <2>3
  <2> QED
    BY <1>1, <2>4 DEF Last
<1>4. \A x \in Request \ {r} : request'[x] = request[x]
  BY <1>1 DEF Moves
<1>5. Chain'
  BY <1>1, <1>2, <1>3, <1>4, QuietKeepsChain
<1> QED
  BY <1>1, <1>5 DEF Moves

Moving(r) ==
  \/ Calls(r) \/ Fetch(r) \/ Replace(r) \/ Write(r)
  \/ Stamp(r) \/ StoreSealedPDF(r) \/ List(r)
  \/ ListFails(r) \/ AppendAuditEvent(r) \/ Die(r)

LEMMA SignSteps ==
  ASSUME Next PROVE Update \/ \E r \in Request : Moving(r)
BY DEF Next, Moving, Calls

LEMMA CallKeepsChain ==
  ASSUME Chain, NEW r \in Request, Opens(r) PROVE Chain'
<1>1. /\ UNCHANGED <<log, clock, broken>> /\ request'[r].ts = 0
      /\ \A x \in Request \ {r} : request'[x] = request[x]
  BY DEF Opens, Rest, New
<1> QED
  BY <1>1, QuietKeepsChain DEF Appends

LEMMA MovingKeepsChain ==
  ASSUME Types, Chain, NEW r \in Request, Moving(r)
  PROVE  Types' /\ Chain'
<1>1. CASE Calls(r)
  BY <1>1, CallIs, CallKeepsChain DEF Opens
<1>2. CASE Fetch(r)
  <2>1. /\ Moves(r, "upsert") /\ UNCHANGED <<log, clock, broken>>
        /\ \E base, mine, fresh, saw :
             Becomes(request[r], "upsert", request'[r], base, mine, fresh,
                     request[r].ts, request[r].prev, saw)
    BY <1>2, FetchIs DEF Rest
  <2> QED
    BY <2>1, MoveKeepsChain DEF Moves, Marks
<1>3. CASE Replace(r)
  <2>1. /\ Moves(r, "replace") /\ UNCHANGED <<log, clock, broken>>
        /\ \E base, mine, fresh, saw :
             Becomes(request[r], "replace", request'[r], base, mine, fresh,
                     request[r].ts, request[r].prev, saw)
    BY <1>3, ReplaceIs DEF Replaced
  <2> QED
    BY <2>1, MoveKeepsChain DEF Moves, Marks
<1>4. CASE Write(r)
  <2>1. /\ Moves(r, "write") /\ UNCHANGED <<log, clock, broken>>
        /\ \E base, mine, fresh, saw :
             Becomes(request[r], "write", request'[r], base, mine, fresh,
                     request[r].ts, request[r].prev, saw)
    BY <1>4, WriteIs DEF Wrote
  <2> QED
    BY <2>1, MoveKeepsChain DEF Moves, Marks
<1>5. CASE Stamp(r)
  BY <1>5, StampIs, StampKeepsChain DEF Moves
<1>6. CASE StoreSealedPDF(r)
  <2>1. /\ Moves(r, "store") /\ UNCHANGED <<log, clock, broken>>
        /\ \E base, mine, fresh, saw :
             Becomes(request[r], "store", request'[r], base, mine, fresh,
                     request[r].ts, request[r].prev, saw)
    BY <1>6, StoreIs
  <2> QED
    BY <2>1, MoveKeepsChain DEF Moves, Marks
<1>7. CASE List(r) \/ ListFails(r)
  BY <1>7, ListKeepsChain
<1>8. CASE AppendAuditEvent(r)
  BY <1>8, AppendIs, AppendKeepsChain DEF Moves
<1>9. CASE Die(r)
  BY <1>9, DieIs, NoRequestIs, QuietKeepsChain DEF Appends
<1> QED
  BY <1>1, <1>2, <1>3, <1>4, <1>5, <1>6, <1>7, <1>8, <1>9 DEF Moving

LEMMA UpdateKeepsChain ==
  ASSUME Types, Chain, Update PROVE Types' /\ Chain'
<1>1. Types' /\ UNCHANGED <<log, clock, request, broken>>
  BY UpdateIs
<1>2. Chain'
  BY <1>1 DEF Chain, Linked, Appends, Last
<1> QED
  BY <1>1, <1>2

-----------------------------------------------------------------------------
(* The first states.                                                       *)
LEMMA LatestIs ==
  ASSUME NEW events, NEW e \in events, \A f \in events : f.ts \in Nat,
         \A f \in events : f.ts <= e.ts
  PROVE  Latest(events) = e.ts
<1> DEFINE last == CHOOSE x \in events : \A f \in events : f.ts <= x.ts
<1>1. last \in events /\ \A f \in events : f.ts <= last.ts
  OBVIOUS
<1>2. Latest(events) = last.ts
  BY DEF Latest
<1> HIDE DEF last
<1> QED
  BY <1>1, <1>2

(* Envelopes are first considered when they were sent, and some signed.    *)
Opened(n) ==
  /\ n \in 0..SignedFirst /\ env = SignedBy(1..n) /\ clock = 2 + n
  /\ log = {Event(1, "created", 0, 0), Event(2, "sent", 0, 1)}
             \union {Event(2 + s, "signed", s, 1 + s) : s \in 1..n}
  /\ sealed = NotSealed
  /\ request = [r \in Request |-> NoRequest]
  /\ broken = {} /\ stale = FALSE /\ died = FALSE

LEMMA OpenedIs == ASSUME Init PROVE \E n : Opened(n)
BY DEF Init, Opened

LEMMA FirstTypes == ASSUME Numbered, NEW n, Opened(n) PROVE Types
<1>1. env \in Copy
  <2>1. 1..n \subseteq Signer
    BY DEF Numbered, Opened
  <2> QED
    BY <2>1 DEF Opened, SignedBy, Copy, EnvelopeStatus,
                SignerStatus
<1>2. clock \in Nat
  BY DEF Numbered, Opened
<1> QED
  BY <1>1, <1>2, NoRequestIs DEF Opened, Types

LEMMA FirstChain == ASSUME Numbered, NEW n, Opened(n) PROVE Chain
<1> DEFINE created == Event(1, "created", 0, 0)
           sent == Event(2, "sent", 0, 1)
           signed(s) == Event(2 + s, "signed", s, 1 + s)
<1>1. n \in Nat /\ clock = 2 + n
  BY DEF Numbered, Opened
<1>2. /\ created.ts = 1 /\ created.prev = 0
      /\ sent.ts = 2 /\ sent.prev = 1
      /\ \A s \in 1..n : signed(s).ts = 2 + s /\ signed(s).prev = 1 + s
  BY DEF Event
<1>3. log = {created, sent} \union {signed(s) : s \in 1..n}
  BY DEF Opened
<1> HIDE DEF created, sent, signed
<1>4. \A e \in log : e.ts \in 1..clock
  BY <1>1, <1>2, <1>3
<1>5. \A r \in Request : ~Appends(request[r])
  BY NoRequestIs DEF Opened, Appends
<1>6. ASSUME NEW e \in log PROVE e.prev = Last(e.ts)
  <2> DEFINE before == {f \in log : f.ts < e.ts}
  <2>1. \A f \in before : f.ts \in Nat
    BY <1>1, <1>4
  <2>2. CASE e = created
    <3>1. before = {}
      BY <1>1, <1>2, <1>4, <2>2
    <3> QED
      BY <1>2, <2>2, <3>1 DEF Last, Latest
  <2>3. CASE e = sent
    <3>1. created \in before /\ \A f \in before : f.ts <= created.ts
      BY <1>1, <1>2, <1>3, <1>4, <2>3
    <3> HIDE DEF before
    <3>2. Latest(before) = created.ts
      BY <2>1, <3>1, LatestIs
    <3> QED
      BY <1>2, <2>3, <3>2 DEF Last, before
  <2>4. ASSUME NEW s \in 1..n, e = signed(s) PROVE e.prev = Last(e.ts)
    <3>1. e.ts = 2 + s /\ e.prev = 1 + s
      BY <1>2, <2>4
    <3>2. PICK d \in log : d.ts = 1 + s
      <4>1. CASE s = 1
        BY <1>2, <1>3, <4>1
      <4>2. CASE s # 1
        <5>1. s - 1 \in 1..n /\ 2 + (s - 1) = 1 + s
          BY <1>1, <4>2
        <5>2. signed(s - 1) \in log /\ signed(s - 1).ts = 2 + (s - 1)
          BY <1>2, <1>3, <5>1
        <5> QED
          BY <5>1, <5>2
      <4> QED
        BY <4>1, <4>2
    <3>3. d \in before /\ \A f \in before : f.ts <= d.ts
      BY <2>1, <3>1, <3>2
    <3> HIDE DEF before
    <3>4. Latest(before) = d.ts
      BY <2>1, <3>3, LatestIs
    <3> QED
      BY <3>1, <3>2, <3>4 DEF Last, before
  <2> QED
    BY <1>3, <2>2, <2>3, <2>4
<1> QED
  BY <1>4, <1>5, <1>6 DEF Chain, Linked

-----------------------------------------------------------------------------
(* The seal.  A copy of the envelope, whoever holds it, is vouched for by  *)
(* the log: whom it shows as signed has signed - but for the signer whose  *)
(* own request is still to say so - and it has a hash only after a seal.   *)
Signs(events, s) == SignedEvents(events, s) # {}
Vouches(c, but, events, pdf) ==
  /\ \A s \in Signer \ but : c.signer[s] = "signed" => Signs(events, s)
  /\ c.status = "completed" => \A s \in Signer \ but : Signs(events, s)
  /\ c.final # 0 => pdf # NotSealed
Own(q) ==
  IF q.action = "signed" /\ "append" \in Steps(q.plan) THEN {q.by} ELSE {}
Reads(events, cut) ==
  \A e \in events : e.ts \in cut \/ Links(events, e)
Backed(q, events, pdf, cut) ==
  /\ Vouches(q.base, {}, events, pdf) /\ Vouches(q.fresh, {}, events, pdf)
  /\ Vouches(q.mine, Own(q), events, pdf)
  /\ Reads(q.saw, cut)
  /\ q.action = "completed" =>
       /\ \A s \in Signer : Signs(events, s)
       /\ "stamp" \notin Steps(q.plan) =>
            IF "store" \in Steps(q.plan) THEN \A s \in Signer : Signs(q.saw, s)
                                         ELSE pdf # NotSealed
Proven(pdf, cut) ==
  pdf # NotSealed =>
    (\A s \in Signer : Signs(pdf.events, s)) /\ Reads(pdf.events, cut)
Seal ==
  /\ Vouches(env, {}, log, sealed) /\ Proven(sealed, broken)
  /\ \A r \in Request : Backed(request[r], log, sealed, broken)

LEMMA SignsGrows ==
  ASSUME NEW events, NEW more, events \subseteq more, NEW s, Signs(events, s)
  PROVE  Signs(more, s)
BY DEF Signs, SignedEvents

LEMMA VouchesGrows ==
  ASSUME NEW events, NEW more, events \subseteq more, NEW pdf, NEW made,
         pdf # NotSealed => made # NotSealed,
         NEW c, NEW but, NEW those, but \subseteq those,
         Vouches(c, but, events, pdf)
  PROVE  Vouches(c, those, more, made)
BY SignsGrows DEF Vouches

LEMMA ReadsGrows ==
  ASSUME NEW events, NEW cut, NEW more, cut \subseteq more, Reads(events, cut)
  PROVE  Reads(events, more)
BY DEF Reads

LEMMA BackedGrows ==
  ASSUME NEW events, NEW more, events \subseteq more, NEW pdf, NEW made,
         pdf # NotSealed => made # NotSealed,
         NEW cut, NEW cuts, cut \subseteq cuts,
         NEW q, Backed(q, events, pdf, cut)
  PROVE  Backed(q, more, made, cuts)
<1>1. Vouches(q.base, {}, more, made) /\ Vouches(q.fresh, {}, more, made)
      /\ Vouches(q.mine, Own(q), more, made)
  BY VouchesGrows DEF Backed
<1>2. Reads(q.saw, cuts)
  BY ReadsGrows DEF Backed
<1>3. q.action = "completed" => \A s \in Signer : Signs(more, s)
  BY SignsGrows DEF Backed
<1> QED
  BY <1>1, <1>2, <1>3 DEF Backed

LEMMA SentVouches ==
  ASSUME NEW but, NEW events, NEW pdf
  PROVE  Vouches(AsSent, but, events, pdf)
BY NoRequestIs DEF Vouches

LEMMA NoneBacked ==
  ASSUME NEW events, NEW pdf, NEW cut
  PROVE  Backed(NoRequest, events, pdf, cut)
BY NoRequestIs, SentVouches DEF Backed, Reads

(* A step keeps the seal if what it leaves behind is vouched for.          *)
LEMMA StepKeepsSeal ==
  ASSUME Seal, NEW r \in Request, log \subseteq log', broken \subseteq broken',
         sealed # NotSealed => sealed' # NotSealed,
         \A x \in Request \ {r} : request'[x] = request[x],
         Backed(request'[r], log', sealed', broken'),
         Vouches(env', {}, log', sealed'), Proven(sealed', broken')
  PROVE  Seal'
<1>1. \A x \in Request : Backed(request'[x], log', sealed', broken')
  <2> TAKE x \in Request
  <2>1. CASE x = r
    BY <2>1
  <2>2. CASE x # r
    <3>1. request'[x] = request[x] /\ Backed(request[x], log, sealed, broken)
      BY <2>2 DEF Seal
    <3> QED
      BY <3>1, BackedGrows
  <2> QED
    BY <2>1, <2>2
<1> QED
  BY <1>1 DEF Seal

LEMMA ProvenGrows ==
  ASSUME Seal, broken \subseteq broken'
  PROVE  Proven(sealed, broken')
BY ReadsGrows DEF Seal, Proven

(* A storage call that leaves log and seal alone.                          *)
LEMMA BackedBecomes ==
  ASSUME NEW o, NEW h, h \notin {"stamp", "store", "append"}, NEW q,
         NEW base, NEW mine, NEW fresh, NEW ts, NEW prev,
         Becomes(o, h, q, base, mine, fresh, ts, prev, o.saw),
         NEW events, NEW pdf, NEW cut, Backed(o, events, pdf, cut),
         Vouches(base, {}, events, pdf), Vouches(fresh, {}, events, pdf),
         Vouches(mine, Own(o), events, pdf)
  PROVE  Backed(q, events, pdf, cut)
<1>1. CASE q = NoRequest
  BY <1>1, NoneBacked
<1>2. CASE q # NoRequest
  <2>1. /\ q.action = o.action /\ q.by = o.by /\ q.base = base
        /\ q.mine = mine /\ q.fresh = fresh /\ q.saw = o.saw
        /\ \A x \in {"stamp", "store", "append"} :
             x \in Steps(q.plan) <=> x \in Steps(o.plan)
    BY <1>2 DEF Becomes, Marks
  <2>2. Own(q) = Own(o)
    BY <2>1 DEF Own
  <2> QED
    BY <2>1, <2>2 DEF Backed
<1> QED
  BY <1>1, <1>2

LEMMA CallKeepsSeal ==
  ASSUME Seal, NEW r \in Request, Opens(r) PROVE Seal'
<1> PICK q : q = request'[r]
  OBVIOUS
<1> PICK action \in Actions : \E by : \E mine \in Copy :
        Means(action, by, mine) /\ New(action, by, mine, q)
  BY DEF Opens
<1> PICK by : \E mine \in Copy :
        Means(action, by, mine) /\ New(action, by, mine, q)
  OBVIOUS
<1>1. PICK mine \in Copy :
        Means(action, by, mine) /\ New(action, by, mine, q)
  OBVIOUS
<1>2. /\ UNCHANGED <<env, log, sealed, broken>>
      /\ \A x \in Request \ {r} : request'[x] = request[x]
  BY DEF Opens, Rest
<1>3. Vouches(env, {}, log, sealed) /\ Proven(sealed, broken)
  BY DEF Seal
<1>4. Backed(q, log, sealed, broken)
  <2>1. /\ q.action = action /\ q.by = by /\ q.base = env /\ q.mine = mine
        /\ q.fresh = AsSent /\ q.saw = {}
        /\ {"stamp", "append"} \subseteq Steps(q.plan)
    BY <1>1 DEF New
  <2>2. Vouches(mine, Own(q), log, sealed)
    <3>1. Own(q) = IF action = "signed" THEN {by} ELSE {}
      BY <2>1 DEF Own
    <3> QED
      BY <1>1, <1>3, <3>1 DEF Means, Vouches
  <2>3. Vouches(AsSent, {}, log, sealed)
    BY SentVouches
  <2>4. action = "completed" => \A s \in Signer : Signs(log, s)
    BY <1>1, <1>3 DEF Means, Vouches
  <2> QED
    BY <1>3, <2>1, <2>2, <2>3, <2>4 DEF Backed, Reads
<1> QED
  BY <1>2, <1>3, <1>4, StepKeepsSeal

(* At these steps a signature was logged already.                          *)
LEMMA LoggedFirst ==
  ASSUME NEW q, q.plan \in Plans(q.action), q.plan # << >>,
         Head(q.plan) \in {"replace", "write"}
  PROVE  /\ Own(q) = {}
         /\ q.action = "completed" =>
              /\ Head(q.plan) = "write"
              /\ "store" \notin Steps(q.plan) /\ "stamp" \notin Steps(q.plan)
<1>1. q.action = "signed" => "append" \notin Steps(q.plan)
  BY PlanSteps
<1>2. q.action = "completed" =>
        /\ Head(q.plan) = "write"
        /\ "store" \notin Steps(q.plan) /\ "stamp" \notin Steps(q.plan)
  BY PlanSteps
<1> QED
  BY <1>1, <1>2 DEF Own

LEMMA FetchKeepsSeal ==
  ASSUME Types, Seal, NEW r \in Request, Fetch(r) PROVE Seal'
<1> PICK o : o = request[r]
  OBVIOUS
<1>1. /\ Moves(r, "upsert") /\ UNCHANGED <<env, log, sealed, broken>>
      /\ Becomes(o, "upsert", request'[r], o.base, o.mine, env, o.ts, o.prev,
                 o.saw)
  BY FetchIs DEF Rest
<1>2. /\ Vouches(env, {}, log, sealed) /\ Proven(sealed, broken)
      /\ Backed(o, log, sealed, broken)
  BY DEF Seal
<1>3. Vouches(o.base, {}, log, sealed) /\ Vouches(o.mine, Own(o), log, sealed)
  BY <1>2 DEF Backed
<1>4. Backed(request'[r], log, sealed, broken)
  BY <1>1, <1>2, <1>3, BackedBecomes
<1> QED
  BY <1>1, <1>2, <1>4, StepKeepsSeal DEF Moves

LEMMA ReplaceKeepsSeal ==
  ASSUME Types, Seal, NEW r \in Request, Replace(r) PROVE Seal'
<1> PICK o : o = request[r]
  OBVIOUS
<1> PICK s : \E base \in Copy : Replaced(o, request'[r], s, base)
  BY ReplaceIs
<1> PICK base \in Copy : Replaced(o, request'[r], s, base)
  OBVIOUS
<1>1. /\ Moves(r, "replace") /\ UNCHANGED <<log, sealed, broken>>
      /\ Replaced(o, request'[r], s, base)
  BY ReplaceIs
<1>2. Proven(sealed, broken) /\ Backed(o, log, sealed, broken)
  BY DEF Seal
<1>3. Own(o) = {}
  BY <1>1, LoggedFirst DEF Moves, Types, Typed
<1>4. /\ Vouches(o.base, {}, log, sealed) /\ Vouches(o.fresh, {}, log, sealed)
      /\ Vouches(o.mine, {}, log, sealed)
  BY <1>2, <1>3 DEF Backed
<1>5. Vouches(base, {}, log, sealed)
  BY <1>1, <1>4 DEF Replaced, Vouches
<1>6. Vouches(env', {}, log, sealed)
  BY <1>1, <1>4 DEF Replaced, Vouches
<1>7. Backed(request'[r], log, sealed, broken)
  <2>1. Becomes(o, "replace", request'[r], base, o.mine, AsSent, o.ts,
                o.prev, o.saw)
    BY <1>1 DEF Replaced
  <2>2. Vouches(AsSent, {}, log, sealed)
    BY SentVouches
  <2>3. Vouches(o.mine, Own(o), log, sealed)
    BY <1>2 DEF Backed
  <2> QED
    BY <1>2, <1>5, <2>1, <2>2, <2>3, BackedBecomes
<1> QED
  BY <1>1, <1>2, <1>6, <1>7, StepKeepsSeal DEF Moves

LEMMA WriteKeepsSeal ==
  ASSUME Types, Seal, NEW r \in Request, Write(r) PROVE Seal'
<1> PICK o : o = request[r]
  OBVIOUS
<1>1. PICK mine \in Copy :
        /\ Moves(r, "write") /\ UNCHANGED <<log, sealed, broken>>
        /\ Wrote(o, request'[r], mine)
  BY WriteIs
<1>2. Proven(sealed, broken) /\ Backed(o, log, sealed, broken)
  BY DEF Seal
<1>3. /\ Own(o) = {}
      /\ o.action = "completed" =>
           "store" \notin Steps(o.plan) /\ "stamp" \notin Steps(o.plan)
  BY <1>1, LoggedFirst DEF Moves, Types, Typed
<1>4. Vouches(o.mine, {}, log, sealed)
  BY <1>2, <1>3 DEF Backed
<1>5. Vouches(env', {}, log, sealed)
  <2>1. o.action = "completed" => sealed # NotSealed
    BY <1>2, <1>3 DEF Backed
  <2> QED
    BY <1>1, <1>4, <2>1 DEF Wrote, Vouches
<1>6. Vouches(mine, {}, log, sealed)
  BY <1>1, <1>5 DEF Wrote, Vouches
<1>7. Backed(request'[r], log, sealed, broken)
  <2>1. Becomes(o, "write", request'[r], env', mine, AsSent, o.ts,
                o.prev, o.saw)
    BY <1>1 DEF Wrote
  <2>2. Vouches(AsSent, {}, log, sealed)
    BY SentVouches
  <2>3. Vouches(mine, Own(o), log, sealed)
    BY <1>3, <1>6
  <2> QED
    BY <1>2, <1>5, <2>1, <2>2, <2>3, BackedBecomes
<1> QED
  BY <1>1, <1>2, <1>5, <1>7, StepKeepsSeal DEF Moves

LEMMA StampKeepsSeal ==
  ASSUME Types, Chain, Seal, NEW r \in Request, Stamp(r)
  PROVE  Seal'
<1> PICK o : o = request[r]
  OBVIOUS
<1> PICK q : q = request'[r]
  OBVIOUS
<1> PICK saw : saw = IF o.action = "completed" THEN log ELSE {}
  OBVIOUS
<1>1. /\ Moves(r, "stamp") /\ UNCHANGED <<env, log, sealed, broken>>
      /\ Becomes(o, "stamp", q, o.base, o.mine, AsSent, clock + 1,
                 o.prev, saw)
  BY StampIs
<1>2. /\ Vouches(env, {}, log, sealed) /\ Proven(sealed, broken)
      /\ Backed(o, log, sealed, broken)
  BY DEF Seal
<1>3. Backed(q, log, sealed, broken)
  <2>1. CASE q = NoRequest
    BY <2>1, NoneBacked
  <2>2. CASE q # NoRequest
    <3>1. /\ q.action = o.action /\ q.by = o.by /\ q.base = o.base
          /\ q.mine = o.mine /\ q.fresh = AsSent /\ q.saw = saw
          /\ \A x \in {"store", "append"} :
               x \in Steps(q.plan) <=> x \in Steps(o.plan)
      BY <1>1, <2>2 DEF Becomes, Marks
    <3>2. Own(q) = Own(o) /\ Vouches(q.fresh, {}, log, sealed)
      BY <3>1, SentVouches DEF Own
    <3>3. Reads(saw, broken)
      BY ChainIs DEF Reads, ChainIntact
    <3>4. q.action = "completed" =>
            /\ \A s \in Signer : Signs(q.saw, s)
            /\ "store" \in Steps(q.plan)
      <4>1. /\ o.plan # << >> /\ o.plan \in Plans(o.action)
            /\ "stamp" \in Steps(o.plan)
        BY <1>1 DEF Moves, Types, Typed
      <4>2. o.action = "completed" => "store" \in Steps(o.plan)
        BY <4>1, PlanSteps
      <4> QED
        BY <1>2, <3>1, <4>2 DEF Backed
    <3> QED
      BY <1>2, <3>1, <3>2, <3>3, <3>4 DEF Backed
  <2> QED
    BY <2>1, <2>2
<1> QED
  BY <1>1, <1>2, <1>3, StepKeepsSeal DEF Moves

LEMMA StoreKeepsSeal ==
  ASSUME Types, Seal, NEW r \in Request, StoreSealedPDF(r)
  PROVE  Seal'
<1> PICK o : o = request[r]
  OBVIOUS
<1> PICK q : q = request'[r]
  OBVIOUS
<1>1. /\ Moves(r, "store") /\ UNCHANGED <<env, log, broken>>
      /\ sealed' = [hash |-> o.ts, events |-> o.saw]
      /\ Becomes(o, "store", q, o.base, o.mine, AsSent, o.ts, o.prev, {})
  BY StoreIs
<1>2. Vouches(env, {}, log, sealed) /\ Backed(o, log, sealed, broken)
  BY DEF Seal
<1>3. /\ o.action = "completed" /\ "store" \in Steps(o.plan)
      /\ "stamp" \notin Steps(o.plan) /\ o.ts # 0
  <2>1. /\ o.plan # << >> /\ o.plan \in Plans(o.action)
        /\ Head(o.plan) = "store" /\ "store" \in Steps(o.plan)
        /\ o.ts # 0 <=> Stamped(o)
    BY <1>1 DEF Moves, Types, Typed
  <2>2. o.action = "completed" /\ "stamp" \notin Steps(o.plan)
    BY <2>1, PlanSteps
  <2> QED
    BY <2>1, <2>2 DEF Stamped
<1>4. sealed' # NotSealed
  BY <1>1, <1>3 DEF NotSealed
<1>5. Proven(sealed', broken)
  BY <1>1, <1>2, <1>3 DEF Proven, Backed
<1>6. Backed(q, log, sealed', broken)
  <2>1. CASE q = NoRequest
    BY <2>1, NoneBacked
  <2>2. CASE q # NoRequest
    <3>1. /\ q.action = o.action /\ q.by = o.by /\ q.base = o.base
          /\ q.mine = o.mine /\ q.fresh = AsSent /\ q.saw = {}
          /\ "append" \in Steps(q.plan) <=> "append" \in Steps(o.plan)
          /\ "store" \notin Steps(q.plan)
      BY <1>1, <2>2 DEF Becomes, Marks
    <3>2. Own(q) = Own(o) /\ Vouches(q.fresh, {}, log, sealed')
      BY <3>1, SentVouches DEF Own
    <3>3. Vouches(q.base, {}, log, sealed') /\ Vouches(q.mine, Own(q), log, sealed')
      BY <1>2, <1>4, <3>1, <3>2, VouchesGrows DEF Backed
    <3> QED
      BY <1>2, <1>4, <3>1, <3>2, <3>3 DEF Backed, Reads
  <2> QED
    BY <2>1, <2>2
<1>7. Vouches(env, {}, log, sealed')
  BY <1>2, <1>4, VouchesGrows
<1> QED
  BY <1>1, <1>4, <1>5, <1>6, <1>7, StepKeepsSeal DEF Moves

LEMMA ListKeepsSeal ==
  ASSUME Types, Seal, NEW r \in Request, List(r) \/ ListFails(r)
  PROVE  Seal'
<1> PICK o : o = request[r]
  OBVIOUS
<1>1. PICK prev :
        /\ Moves(r, "list") /\ UNCHANGED <<env, log, sealed>>
        /\ broken \subseteq broken'
        /\ Becomes(o, "list", request'[r], o.base, o.mine, AsSent, o.ts,
                   prev, o.saw)
  <2>1. CASE List(r)
    <3>1. /\ Step(r, "list")
          /\ UNCHANGED <<env, log, sealed, clock, broken>>
          /\ Continue(r, [Popped(r) EXCEPT !.prev = Latest(log)])
      BY <2>1 DEF List
    <3> QED
      BY <3>1, PrevIs
  <2>2. CASE ListFails(r)
    <3>1. /\ Step(r, "list") /\ UNCHANGED <<env, log, sealed, clock>>
          /\ broken \subseteq broken'
          /\ Continue(r, [Popped(r) EXCEPT !.prev = 0])
      BY <2>2 DEF ListFails
    <3> QED
      BY <3>1, PrevIs
  <2> QED
    BY <2>1, <2>2
<1>2. /\ Vouches(env, {}, log, sealed) /\ Backed(o, log, sealed, broken)
      /\ Vouches(AsSent, {}, log, sealed) /\ Proven(sealed, broken')
  BY <1>1, SentVouches, ProvenGrows DEF Seal
<1>3. Vouches(o.base, {}, log, sealed) /\ Vouches(o.mine, Own(o), log, sealed)
  BY <1>2 DEF Backed
<1>4. Backed(request'[r], log, sealed, broken)
  BY <1>1, <1>2, <1>3, BackedBecomes
<1>5. Backed(request'[r], log, sealed, broken')
  BY <1>1, <1>4, BackedGrows
<1> QED
  BY <1>1, <1>2, <1>5, StepKeepsSeal DEF Moves

LEMMA AppendGrows ==
  ASSUME NEW r \in Request, AppendAuditEvent(r)
  PROVE  broken \subseteq broken'
BY DEF AppendAuditEvent

LEMMA AppendKeepsSeal ==
  ASSUME Types, Seal, NEW r \in Request, AppendAuditEvent(r)
  PROVE  Seal'
<1> PICK o : o = request[r]
  OBVIOUS
<1> PICK q : q = request'[r]
  OBVIOUS
<1> PICK e0 : e0 = Event(o.ts, o.action, o.by, o.prev)
  OBVIOUS
<1>1. /\ Moves(r, "append") /\ UNCHANGED <<env, sealed>>
      /\ log' = log \union {e0} /\ broken \subseteq broken'
      /\ Becomes(o, "append", q, o.base, o.mine, AsSent, o.ts, o.prev,
                 o.saw)
  BY AppendIs, AppendGrows
<1>2. /\ Vouches(env, {}, log, sealed) /\ Backed(o, log, sealed, broken)
      /\ Proven(sealed, broken')
  BY <1>1, ProvenGrows DEF Seal
<1>3. Backed(o, log', sealed, broken') /\ Vouches(env, {}, log', sealed)
  BY <1>1, <1>2, BackedGrows, VouchesGrows
<1>4. Backed(q, log', sealed, broken')
  <2>1. CASE q = NoRequest
    BY <2>1, NoneBacked
  <2>2. CASE q # NoRequest
    <3>1. /\ q.action = o.action /\ q.by = o.by /\ q.base = o.base
          /\ q.mine = o.mine /\ q.fresh = AsSent /\ q.saw = o.saw
          /\ "append" \notin Steps(q.plan)
          /\ \A x \in {"stamp", "store"} :
               x \in Steps(q.plan) <=> x \in Steps(o.plan)
      BY <1>1, <2>2 DEF Becomes, Marks
    <3>2. Own(q) = {} /\ Vouches(q.fresh, {}, log', sealed)
      BY <3>1, SentVouches DEF Own
    <3>3. Vouches(q.mine, {}, log', sealed)
      <4>1. CASE o.action = "signed"
        <5>1. e0 \in SignedEvents(log', o.by)
          BY <1>1, <4>1 DEF SignedEvents, Event
        <5>2. Signs(log', o.by)
          BY <5>1 DEF Signs
        <5>3. Own(o) \subseteq {o.by} /\ Vouches(o.mine, Own(o), log', sealed)
          BY <1>3 DEF Own, Backed
        <5> QED
          BY <3>1, <5>2, <5>3 DEF Vouches
      <4>2. CASE o.action # "signed"
        BY <1>3, <3>1, <4>2 DEF Own, Backed
      <4> QED
        BY <4>1, <4>2
    <3> QED
      BY <1>3, <3>1, <3>2, <3>3 DEF Backed
  <2> QED
    BY <2>1, <2>2
<1> QED
  BY <1>1, <1>2, <1>3, <1>4, StepKeepsSeal DEF Moves

LEMMA MovingKeepsSeal ==
  ASSUME Types, Chain, Seal, NEW r \in Request, Moving(r)
  PROVE  Seal'
<1>1. CASE Calls(r)
  BY <1>1, CallIs, CallKeepsSeal
<1>2. CASE Die(r)
  <2>1. /\ UNCHANGED <<env, log, sealed, broken>>
        /\ \A x \in Request \ {r} : request'[x] = request[x]
        /\ request'[r] = NoRequest
    BY <1>2, DieIs
  <2>2. /\ Backed(request'[r], log, sealed, broken)
        /\ Vouches(env, {}, log, sealed) /\ Proven(sealed, broken)
    BY <2>1, NoneBacked DEF Seal
  <2> QED
    BY <2>1, <2>2, StepKeepsSeal
<1> QED
  BY <1>1, <1>2, FetchKeepsSeal, ReplaceKeepsSeal, WriteKeepsSeal,
     StampKeepsSeal, StoreKeepsSeal, ListKeepsSeal, AppendKeepsSeal DEF Moving

LEMMA UpdateKeepsSeal ==
  ASSUME Types, Seal, Update PROVE Seal'
<1>1. /\ env'.status = "draft" /\ env'.final = 0
      /\ \A s \in Signer : env'.signer[s] = "pending"
      /\ UNCHANGED <<log, sealed, request, broken>>
  BY UpdateIs
<1>2. Vouches(env', {}, log, sealed)
  BY <1>1 DEF Vouches
<1> QED
  BY <1>1, <1>2 DEF Seal

LEMMA FirstSeal == ASSUME NEW n, Opened(n) PROVE Seal
<1>1. \A r \in Request : Backed(request[r], log, sealed, broken)
  BY NoneBacked DEF Opened
<1>2. Vouches(env, {}, log, sealed)
  <2>1. ASSUME NEW s \in 1..n PROVE Signs(log, s)
    <3> DEFINE e == Event(2 + s, "signed", s, 1 + s)
    <3>1. e \in log /\ e.action = "signed" /\ e.by = s
      BY DEF Opened, Event
    <3> QED
      BY <3>1 DEF Signs, SignedEvents
  <2>2. /\ env.status = "sent" /\ env.final = 0
        /\ \A s \in Signer : env.signer[s] = IF s \in 1..n THEN "signed"
                                                           ELSE "sent"
    BY DEF Opened, SignedBy
  <2> QED
    BY <2>1, <2>2 DEF Vouches
<1> QED
  BY <1>1, <1>2 DEF Seal, Proven, Opened

LEMMA SealIs ==
  ASSUME Seal PROVE SealVerifies /\ CompletedIsSigned
BY DEF Seal, Proven, Reads, Vouches, Signs, SealVerifies,
       CompletedIsSigned

-----------------------------------------------------------------------------
(* The hash and the signatures.  What a handler writes last keeps the hash *)
(* it read, or is that of the PDF it stored; and it shows all as signed    *)
(* whom it read as signed.                                                 *)
Finals(q) ==
  /\ q.action # "completed" => q.mine.final = q.base.final
  /\ q.action = "completed" /\ "write" \in Steps(q.plan) => q.base.final = 0
Keeps(q) ==
  /\ q.base.filled \subseteq q.mine.filled
  /\ q.action # "sent" =>
       \A s \in Signer : q.base.signer[s] = "signed" => q.mine.signer[s] = "signed"
  /\ q.action = "signed" => /\ q.mine.signer[q.by] = "signed"
                            /\ q.by \in q.mine.filled

(* Who is still to write the hash of the stored PDF, or a logged signature.*)
Finishing(q, hash) ==
  /\ q.action = "completed" /\ q.ts = hash
  /\ "write" \in Steps(q.plan) /\ "store" \notin Steps(q.plan)
Putting(q, s) ==
  q.action = "signed" /\ q.by = s /\ "write" \in Steps(q.plan)
KeptIn(c, s) == c.signer[s] = "signed" /\ s \in c.filled
Hash ==
  sealed # NotSealed =>
    \/ env.final = sealed.hash
    \/ \E r \in Request : Finishing(request[r], sealed.hash)
Signatures ==
  \A s \in Signer : Signs(log, s) =>
    KeptIn(env, s) \/ \E r \in Request : Putting(request[r], s)
Written ==
  /\ \A r \in Request : Finals(request[r]) /\ Keeps(request[r])
  /\ sealed # NotSealed =>
       sealed.hash # 0 /\ \A s \in Signer : Signs(log, s)
  /\ ~stale /\ ~died => Hash /\ Signatures

LEMMA NoneKeeps == Finals(NoRequest) /\ Keeps(NoRequest)
BY NoRequestIs DEF Finals, Keeps

LEMMA NoneSteps == Steps(NoRequest.plan) = {}
BY NoRequestIs, PlanOf

(* A request that moves on without writing.                                *)
LEMMA StillWrites ==
  ASSUME NEW o, NEW h, h # "write", NEW q, NEW base, NEW mine, NEW fresh,
         NEW ts, NEW prev, NEW saw,
         Becomes(o, h, q, base, mine, fresh, ts, prev, saw),
         "write" \in Steps(o.plan)
  PROVE  /\ q.action = o.action /\ q.by = o.by /\ q.ts = ts
         /\ "write" \in Steps(q.plan)
         /\ "store" \in Steps(q.plan) <=> "store" \in Steps(o.plan) /\ h # "store"
BY DEF Becomes, Marks

LEMMA StillKeeps ==
  ASSUME NEW o, NEW h, h # "write", NEW q, NEW fresh,
         NEW ts, NEW prev, NEW saw,
         Becomes(o, h, q, o.base, o.mine, fresh, ts, prev, saw),
         Finals(o), Keeps(o)
  PROVE  Finals(q) /\ Keeps(q)
<1>1. CASE q = NoRequest
  BY <1>1, NoneKeeps
<1>2. CASE q # NoRequest
  <2>1. /\ q.action = o.action /\ q.by = o.by /\ q.base = o.base
        /\ q.mine = o.mine
        /\ "write" \in Steps(q.plan) <=> "write" \in Steps(o.plan)
    BY <1>2 DEF Becomes, Marks
  <2> QED
    BY <2>1 DEF Finals, Keeps
<1> QED
  BY <1>1, <1>2

(* A step of r that leaves the log and the seal as they were: who else is  *)
(* to write still is, and so is r, unless it is there now.                 *)
LEMMA StepKeepsWritten ==
  ASSUME Written, NEW r \in Request, UNCHANGED <<log, sealed, died>>,
         \A x \in Request \ {r} : request'[x] = request[x],
         Finals(request'[r]) /\ Keeps(request'[r]),
         ~stale' =>
           /\ ~stale
           /\ sealed # NotSealed /\ env.final = sealed.hash =>
                env'.final = sealed.hash
           /\ \A hash : Finishing(request[r], hash) =>
                env'.final = hash \/ Finishing(request'[r], hash)
           /\ \A s \in Signer : KeptIn(env, s) => KeptIn(env', s)
           /\ \A s \in Signer : Putting(request[r], s) =>
                KeptIn(env', s) \/ Putting(request'[r], s)
  PROVE  Written'
<1>1. \A x \in Request : Finals(request'[x]) /\ Keeps(request'[x])
  BY DEF Written
<1>2. sealed' # NotSealed =>
        sealed'.hash # 0 /\ \A s \in Signer : Signs(log', s)
  BY DEF Written
<1>3. ASSUME ~stale', ~died' PROVE Hash'
  <2>1. Hash
    BY <1>3 DEF Written
  <2> SUFFICES ASSUME sealed # NotSealed, env'.final # sealed.hash
               PROVE  \E x \in Request : Finishing(request'[x], sealed.hash)
    BY DEF Hash
  <2>2. PICK x \in Request : Finishing(request[x], sealed.hash)
    BY <1>3, <2>1 DEF Hash
  <2>3. Finishing(request'[x], sealed.hash)
    BY <1>3, <2>2
  <2> QED
    BY <2>3
<1>4. ASSUME ~stale', ~died' PROVE Signatures'
  <2>1. Signatures
    BY <1>4 DEF Written
  <2> SUFFICES ASSUME NEW s \in Signer, Signs(log, s), ~KeptIn(env', s)
               PROVE  \E x \in Request : Putting(request'[x], s)
    BY DEF Signatures
  <2>2. PICK x \in Request : Putting(request[x], s)
    BY <1>4, <2>1 DEF Signatures
  <2>3. Putting(request'[x], s)
    BY SMTT(30), <1>4, <2>2
  <2> QED
    BY <2>3
<1> QED
  BY <1>1, <1>2, <1>3, <1>4 DEF Written

LEMMA CallIdle ==
  ASSUME NEW r \in Request, Calls(r) PROVE request[r].plan = << >>
BY Zenon DEF Calls, Send, Cancel, Download, GetSignerView,
       Complete, Decline, Begin, Idle

LEMMA CallKeepsWritten ==
  ASSUME Seal, Written, NEW r \in Request, Opens(r),
         request[r].plan = << >>
  PROVE  Written'
<1> PICK q : q = request'[r]
  OBVIOUS
<1> PICK action \in Actions : \E by : \E mine \in Copy :
        Means(action, by, mine) /\ New(action, by, mine, q)
  BY DEF Opens
<1> PICK by : \E mine \in Copy :
        Means(action, by, mine) /\ New(action, by, mine, q)
  OBVIOUS
<1>1. PICK mine \in Copy :
        Means(action, by, mine) /\ New(action, by, mine, q)
  OBVIOUS
<1>2. /\ UNCHANGED <<env, log, sealed, died, stale>>
      /\ \A x \in Request \ {r} : request'[x] = request[x]
  BY DEF Opens, Rest
<1>3. /\ q.action = action /\ q.by = by /\ q.base = env /\ q.mine = mine
  BY <1>1 DEF New
<1>4. Finals(q)
  <2>1. action = "completed" => env.final = 0
    BY <1>1 DEF Means, Seal, Vouches
  <2> QED
    BY <1>1, <1>3, <2>1 DEF Means, Finals
<1>5. Keeps(q)
  BY <1>1, <1>3 DEF Means, Keeps
<1>6. "write" \notin Steps(request[r].plan)
  BY PlanOf
<1>7. /\ \A hash : ~Finishing(request[r], hash)
      /\ \A s \in Signer : ~Putting(request[r], s)
  BY <1>6 DEF Finishing, Putting
<1>8. \A s \in Signer : KeptIn(env, s) => KeptIn(env', s)
  BY <1>2
<1> QED
  BY <1>2, <1>4, <1>5, <1>7, <1>8, StepKeepsWritten

(* A storage call that writes no envelope.                                 *)
LEMMA MoveKeepsWritten ==
  ASSUME Written, NEW r \in Request, NEW h, h \notin {"write", "stamp", "store"},
         Moves(r, h), UNCHANGED <<env, log, sealed, died, stale>>,
         NEW fresh, NEW prev, NEW saw,
         Becomes(request[r], h, request'[r], request[r].base, request[r].mine,
                 fresh, request[r].ts, prev, saw)
  PROVE  Written'
<1> PICK o : o = request[r]
  OBVIOUS
<1> PICK q : q = request'[r]
  OBVIOUS
<1>1. Becomes(o, h, q, o.base, o.mine, fresh, o.ts, prev, saw)
  OBVIOUS
<1>2. Finals(q) /\ Keeps(q)
  BY <1>1, StillKeeps DEF Written
<1>3. "write" \in Steps(o.plan) =>
        /\ q.action = o.action /\ q.by = o.by /\ q.ts = o.ts
        /\ "write" \in Steps(q.plan)
        /\ "store" \in Steps(q.plan) <=> "store" \in Steps(o.plan)
  BY <1>1, StillWrites
<1>4. /\ \A hash : Finishing(o, hash) => Finishing(q, hash)
      /\ \A s \in Signer : Putting(o, s) => Putting(q, s)
  BY <1>3 DEF Finishing, Putting
<1>5. \A s \in Signer : KeptIn(env, s) => KeptIn(env', s)
  OBVIOUS
<1>6. \A x \in Request \ {r} : request'[x] = request[x]
  BY DEF Moves
<1> QED
  BY <1>2, <1>4, <1>5, <1>6, StepKeepsWritten

LEMMA FetchKeepsWritten ==
  ASSUME Types, Written, NEW r \in Request, Fetch(r) PROVE Written'
<1>1. /\ Moves(r, "upsert") /\ UNCHANGED <<env, log, sealed, died, stale>>
      /\ Becomes(request[r], "upsert", request'[r], request[r].base,
                 request[r].mine, env, request[r].ts, request[r].prev,
                 request[r].saw)
  BY FetchIs DEF Rest
<1> QED
  BY <1>1, MoveKeepsWritten

LEMMA ListKeepsWritten ==
  ASSUME Types, Written, NEW r \in Request,
         List(r) \/ ListFails(r)
  PROVE  Written'
<1>1. PICK prev : 
        /\ Step(r, "list")
        /\ UNCHANGED <<env, log, sealed, clock, died, stale>>
        /\ Continue(r, [Popped(r) EXCEPT !.prev = prev])
  <2>1. CASE List(r)
    <3>1. /\ Step(r, "list")
          /\ UNCHANGED <<env, log, sealed, clock, died, stale>>
          /\ Continue(r, [Popped(r) EXCEPT !.prev = Latest(log)])
      BY <2>1 DEF List
    <3> QED
      BY <3>1
  <2>2. CASE ListFails(r)
    <3>1. /\ Step(r, "list")
          /\ UNCHANGED <<env, log, sealed, clock, died, stale>>
          /\ Continue(r, [Popped(r) EXCEPT !.prev = 0])
      BY <2>2 DEF ListFails
    <3> QED
      BY <3>1
  <2> QED
    BY <2>1, <2>2
<1>2. /\ Moves(r, "list")
      /\ Becomes(request[r], "list", request'[r], request[r].base,
                 request[r].mine, AsSent, request[r].ts, prev,
                 request[r].saw)
  BY <1>1, PrevIs
<1> QED
  BY <1>1, <1>2, MoveKeepsWritten

LEMMA ReplaceKeepsWritten ==
  ASSUME Types, Written, NEW r \in Request, Replace(r)
  PROVE  Written'
<1> PICK o : o = request[r]
  OBVIOUS
<1> PICK q : q = request'[r]
  OBVIOUS
<1> PICK s : \E base \in Copy : Replaced(o, q, s, base)
  BY ReplaceIs
<1>1. PICK base \in Copy : Replaced(o, q, s, base)
  OBVIOUS
<1>2. /\ Moves(r, "replace") /\ UNCHANGED <<log, sealed, died>>
      /\ Becomes(o, "replace", q, base, o.mine, AsSent, o.ts, o.prev,
                 o.saw)
  BY <1>1, ReplaceIs DEF Replaced
<1>3. o.action # "completed" /\ Finals(o) /\ Keeps(o)
  <2>1. /\ o.plan # << >> /\ o.plan \in Plans(o.action)
        /\ Head(o.plan) = "replace"
    BY <1>2 DEF Moves, Types, Typed
  <2> QED
    BY <2>1, PlanSteps DEF Written
<1>4. Finals(q) /\ Keeps(q)
  <2>1. CASE q = NoRequest
    BY <2>1, NoneKeeps
  <2>2. CASE q # NoRequest
    <3>1. /\ q.action = o.action /\ q.by = o.by /\ q.base = base
          /\ q.mine = o.mine
      BY <1>2, <2>2 DEF Becomes
    <3>2. /\ base.final = o.base.final /\ base.filled = o.base.filled
          /\ \A x \in Signer : base.signer[x] = IF x = s THEN o.mine.signer[x]
                                                ELSE o.base.signer[x]
      BY <1>1 DEF Replaced
    <3>3. Finals(q)
      BY <1>3, <3>1, <3>2 DEF Finals
    <3>4. Keeps(q)
      BY <1>3, <3>1, <3>2 DEF Keeps
    <3> QED
      BY <3>3, <3>4
  <2> QED
    BY <2>1, <2>2
<1>5. "write" \in Steps(o.plan) =>
        /\ q.action = o.action /\ q.by = o.by /\ q.ts = o.ts
        /\ "write" \in Steps(q.plan)
        /\ "store" \in Steps(q.plan) <=> "store" \in Steps(o.plan)
  BY <1>2, StillWrites
<1>6. /\ \A hash : Finishing(o, hash) => Finishing(q, hash)
      /\ \A x \in Signer : Putting(o, x) => Putting(q, x)
  BY <1>5 DEF Finishing, Putting
<1>7. ASSUME ~stale'
      PROVE  /\ ~stale /\ env'.final = env.final
             /\ \A x \in Signer : KeptIn(env, x) => KeptIn(env', x)
  <2>1. /\ ~stale /\ env = o.fresh /\ o.action # "sent"
        /\ env.signer[s] = o.base.signer[s]
        /\ env'.final = o.fresh.final /\ env'.filled = o.fresh.filled
        /\ \A x \in Signer : env'.signer[x] = IF x = s THEN o.mine.signer[x]
                                              ELSE o.fresh.signer[x]
    BY <1>1, <1>7 DEF Replaced
  <2>2. ASSUME NEW x \in Signer, KeptIn(env, x) PROVE KeptIn(env', x)
    <3>1. CASE x = s
      BY <1>3, <2>1, <2>2, <3>1 DEF Keeps, KeptIn
    <3>2. CASE x # s
      BY <2>1, <2>2, <3>2 DEF KeptIn
    <3> QED
      BY <3>1, <3>2
  <2> QED
    BY <2>1, <2>2
<1>8. \A x \in Request \ {r} : request'[x] = request[x]
  BY <1>2 DEF Moves
<1> QED
  BY <1>2, <1>4, <1>6, <1>7, <1>8, StepKeepsWritten

LEMMA WriteKeepsWritten ==
  ASSUME Types, Written, NEW r \in Request, Write(r)
  PROVE  Written'
<1> PICK o : o = request[r]
  OBVIOUS
<1> PICK q : q = request'[r]
  OBVIOUS
<1>1. PICK mine \in Copy : Wrote(o, q, mine)
  BY WriteIs
<1>2. /\ Moves(r, "write") /\ UNCHANGED <<log, sealed, died>>
      /\ Becomes(o, "write", q, env', mine, AsSent, o.ts, o.prev, o.saw)
  BY <1>1, WriteIs DEF Wrote
<1>3. /\ env'.filled = o.mine.filled
      /\ env'.final = IF o.action = "completed" THEN o.ts ELSE o.mine.final
      /\ mine.filled = env'.filled /\ mine.final = env'.final
      /\ \A x \in Signer :
           /\ env'.signer[x] = o.mine.signer[x]
           /\ \/ mine.signer[x] = env'.signer[x]
              \/ mine.signer[x] = "sent" /\ env'.signer[x] = "pending"
      /\ ~stale' => ~stale /\ env = o.base /\ o.action # "sent"
  BY <1>1 DEF Wrote
<1>4. /\ Finals(o) /\ Keeps(o) /\ "write" \in Steps(o.plan)
      /\ o.action = "signed" => o.by \in Signer
  BY <1>2 DEF Moves, Types, Typed, Written
<1>5. Finals(q) /\ Keeps(q)
  <2>1. CASE q = NoRequest
    BY <2>1, NoneKeeps
  <2>2. CASE q # NoRequest
    <3>1. /\ q.action = o.action /\ q.by = o.by /\ q.base = env'
          /\ q.mine = mine /\ "write" \notin Steps(q.plan)
      BY <1>2, <2>2 DEF Becomes, Marks
    <3>2. Finals(q)
      BY <1>3, <3>1 DEF Finals
    <3>3. Keeps(q)
      BY <1>3, <1>4, <3>1 DEF Keeps
    <3> QED
      BY <3>2, <3>3
  <2> QED
    BY <2>1, <2>2
<1>6. ASSUME ~stale'
      PROVE  /\ ~stale
             /\ sealed # NotSealed /\ env.final = sealed.hash =>
                  env'.final = sealed.hash
             /\ \A hash : Finishing(o, hash) => env'.final = hash
             /\ \A s \in Signer : KeptIn(env, s) => KeptIn(env', s)
             /\ \A s \in Signer : Putting(o, s) => KeptIn(env', s)
  <2>1. ~stale /\ env = o.base /\ o.action # "sent"
    BY <1>3, <1>6
  <2>2. sealed # NotSealed /\ env.final = sealed.hash =>
          env'.final = sealed.hash
    BY <1>3, <1>4, <2>1 DEF Written, Finals
  <2>3. \A hash : Finishing(o, hash) => env'.final = hash
    BY <1>3 DEF Finishing
  <2>4. \A s \in Signer : KeptIn(env, s) => KeptIn(env', s)
    BY <1>3, <1>4, <2>1 DEF Keeps, KeptIn
  <2>5. \A s \in Signer : Putting(o, s) => KeptIn(env', s)
    BY <1>3, <1>4 DEF Keeps, KeptIn, Putting
  <2> QED
    BY <2>1, <2>2, <2>3, <2>4, <2>5
<1>7. \A x \in Request \ {r} : request'[x] = request[x]
  BY <1>2 DEF Moves
<1> QED
  BY <1>2, <1>5, <1>6, <1>7, StepKeepsWritten

LEMMA StampKeepsWritten ==
  ASSUME Types, Written, NEW r \in Request, Stamp(r)
  PROVE  Written'
<1> PICK o : o = request[r]
  OBVIOUS
<1> PICK q : q = request'[r]
  OBVIOUS
<1> PICK saw : saw = IF o.action = "completed" THEN log ELSE {}
  OBVIOUS
<1>1. /\ Moves(r, "stamp") /\ UNCHANGED <<env, log, sealed, died, stale>>
      /\ Becomes(o, "stamp", q, o.base, o.mine, AsSent, clock + 1,
                 o.prev, saw)
  BY StampIs
<1>2. Finals(q) /\ Keeps(q)
  BY <1>1, StillKeeps DEF Written
<1>3. \A hash : ~Finishing(o, hash)
  <2>1. /\ o.plan # << >> /\ o.plan \in Plans(o.action)
        /\ "stamp" \in Steps(o.plan)
    BY <1>1 DEF Moves, Types, Typed
  <2> QED
    BY <2>1, PlanSteps DEF Finishing
<1>4. "write" \in Steps(o.plan) =>
        q.action = o.action /\ q.by = o.by /\ "write" \in Steps(q.plan)
  BY <1>1, StillWrites
<1>5. \A s \in Signer : Putting(o, s) => Putting(q, s)
  BY <1>4 DEF Putting
<1>6. \A s \in Signer : KeptIn(env, s) => KeptIn(env', s)
  BY <1>1
<1>7. \A x \in Request \ {r} : request'[x] = request[x]
  BY <1>1 DEF Moves
<1> QED
  BY <1>1, <1>2, <1>3, <1>5, <1>6, <1>7, StepKeepsWritten

LEMMA StoreKeepsWritten ==
  ASSUME Types, Seal, Written, NEW r \in Request, StoreSealedPDF(r)
  PROVE  Written'
<1> PICK o : o = request[r]
  OBVIOUS
<1> PICK q : q = request'[r]
  OBVIOUS
<1>1. /\ Moves(r, "store") /\ UNCHANGED <<env, log, died, stale>>
      /\ sealed' = [hash |-> o.ts, events |-> o.saw]
      /\ Becomes(o, "store", q, o.base, o.mine, AsSent, o.ts, o.prev, {})
  BY StoreIs
<1>2. /\ o.action = "completed" /\ "store" \in Steps(o.plan)
      /\ "write" \in Steps(o.plan) /\ o.ts # 0
  <2>1. /\ o.plan # << >> /\ o.plan \in Plans(o.action)
        /\ Head(o.plan) = "store" /\ "store" \in Steps(o.plan)
        /\ o.ts # 0 <=> Stamped(o)
    BY <1>1 DEF Moves, Types, Typed
  <2>2. /\ o.action = "completed" /\ "stamp" \notin Steps(o.plan)
        /\ "write" \in Steps(o.plan)
    BY <2>1, PlanSteps
  <2> QED
    BY <2>1, <2>2 DEF Stamped
<1>3. /\ q.action = o.action /\ q.by = o.by /\ q.ts = o.ts
      /\ "write" \in Steps(q.plan) /\ "store" \notin Steps(q.plan)
  BY <1>1, <1>2, StillWrites
<1>4. Finals(q) /\ Keeps(q)
  BY <1>1, StillKeeps DEF Written
<1>5. \A x \in Request \ {r} : request'[x] = request[x]
  BY <1>1 DEF Moves
<1>6. \A x \in Request : Finals(request'[x]) /\ Keeps(request'[x])
  BY <1>4, <1>5 DEF Written
<1>7. sealed'.hash = o.ts /\ \A s \in Signer : Signs(log, s)
  BY <1>1, <1>2 DEF Seal, Backed
<1>8. Hash'
  BY <1>2, <1>3, <1>7 DEF Hash, Finishing
<1>9. ASSUME ~stale', ~died' PROVE Signatures'
  <2>1. Signatures
    BY <1>1, <1>9 DEF Written
  <2>2. \A s \in Signer : ~Putting(o, s)
    BY <1>2 DEF Putting
  <2> QED
    BY <1>1, <1>5, <2>1, <2>2 DEF Signatures
<1> QED
  BY <1>1, <1>2, <1>6, <1>7, <1>8, <1>9 DEF Written

LEMMA AppendKeepsWritten ==
  ASSUME Types, Written, NEW r \in Request, AppendAuditEvent(r)
  PROVE  Written'
<1> PICK o : o = request[r]
  OBVIOUS
<1> PICK q : q = request'[r]
  OBVIOUS
<1> PICK e0 : e0 = Event(o.ts, o.action, o.by, o.prev)
  OBVIOUS
<1>1. /\ Moves(r, "append") /\ UNCHANGED <<env, sealed, died, stale>>
      /\ log' = log \union {e0}
      /\ Becomes(o, "append", q, o.base, o.mine, AsSent, o.ts, o.prev,
                 o.saw)
  BY AppendIs
<1>2. Finals(q) /\ Keeps(q)
  BY <1>1, StillKeeps DEF Written
<1>3. "write" \in Steps(o.plan) =>
        /\ q.action = o.action /\ q.by = o.by /\ q.ts = o.ts
        /\ "write" \in Steps(q.plan)
        /\ "store" \in Steps(q.plan) <=> "store" \in Steps(o.plan)
  BY <1>1, StillWrites
<1>4. /\ \A hash : Finishing(o, hash) => Finishing(q, hash)
      /\ \A s \in Signer : Putting(o, s) => Putting(q, s)
  BY <1>3 DEF Finishing, Putting
<1>5. \A x \in Request \ {r} : request'[x] = request[x]
  BY <1>1 DEF Moves
<1>6. \A x \in Request : Finals(request'[x]) /\ Keeps(request'[x])
  BY <1>2, <1>5 DEF Written
<1>7. sealed' # NotSealed =>
        sealed'.hash # 0 /\ \A s \in Signer : Signs(log', s)
  BY <1>1, SignsGrows DEF Written
<1>8. ASSUME ~stale', ~died' PROVE Hash'
  <2>1. Hash
    BY <1>1, <1>8 DEF Written
  <2> QED
    BY <1>1, <1>4, <1>5, <2>1 DEF Hash
<1>9. ASSUME ~stale', ~died' PROVE Signatures'
  <2>1. Signatures
    BY <1>1, <1>9 DEF Written
  <2> SUFFICES ASSUME NEW s \in Signer, Signs(log', s), ~KeptIn(env, s)
               PROVE  \E x \in Request : Putting(request'[x], s)
    BY <1>1 DEF Signatures
  <2>2. CASE Signs(log, s)
    <3>1. PICK x \in Request : Putting(request[x], s)
      BY <2>1, <2>2 DEF Signatures
    <3> QED
      BY <1>4, <1>5, <3>1
  <2>3. CASE ~Signs(log, s)
    <3>1. o.action = "signed" /\ o.by = s
      BY <1>1, <2>3 DEF Signs, SignedEvents, Event
    <3>2. /\ o.plan # << >> /\ o.plan \in Plans(o.action)
          /\ "append" \in Steps(o.plan)
      BY <1>1 DEF Moves, Types, Typed
    <3>3. "write" \in Steps(o.plan)
      BY <3>1, <3>2, PlanSteps
    <3> QED
      BY <1>4, <3>1, <3>3 DEF Putting
  <2> QED
    BY <2>2, <2>3
<1> QED
  BY <1>6, <1>7, <1>8, <1>9 DEF Written

LEMMA DieKeepsWritten ==
  ASSUME Types, Written, NEW r \in Request, Die(r) PROVE Written'
<1>1. /\ \A x \in Request \ {r} : request'[x] = request[x]
      /\ request'[r] = NoRequest /\ died' = TRUE
      /\ UNCHANGED <<log, sealed>>
  BY DieIs
<1>2. \A x \in Request : Finals(request'[x]) /\ Keeps(request'[x])
  BY <1>1, NoneKeeps DEF Written
<1> QED
  BY <1>1, <1>2 DEF Written

LEMMA UpdateKeepsWritten ==
  ASSUME Numbered, Types, Written, Update PROVE Written'
<1>1. /\ UNCHANGED <<log, sealed, request, died>>
      /\ ~stale' => ~stale /\ \A e \in log : e.action # "signed"
  BY UpdateIs
<1>2. ~stale' => \A s : ~Signs(log, s)
  BY <1>1 DEF Signs, SignedEvents
<1>3. ~stale' => Hash' /\ Signatures'
  BY <1>1, <1>2 DEF Numbered, Hash, Signatures, Written
<1> QED
  BY <1>1, <1>3 DEF Written

LEMMA MovingKeepsWritten ==
  ASSUME Types, Seal, Written, NEW r \in Request, Moving(r)
  PROVE  Written'
<1>1. CASE Calls(r)
  BY <1>1, CallIs, CallIdle, CallKeepsWritten
<1> QED
  BY <1>1, FetchKeepsWritten, ReplaceKeepsWritten, WriteKeepsWritten,
     StampKeepsWritten, StoreKeepsWritten, ListKeepsWritten,
     AppendKeepsWritten, DieKeepsWritten DEF Moving

LEMMA FirstWritten == ASSUME NEW n, Opened(n) PROVE Written
<1>1. \A r \in Request : Finals(request[r]) /\ Keeps(request[r])
  BY NoneKeeps DEF Opened
<1>2. Signatures
  <2> SUFFICES ASSUME NEW s \in Signer, Signs(log, s) PROVE KeptIn(env, s)
    BY DEF Signatures
  <2>1. s \in 1..n
    BY DEF Opened, Signs, SignedEvents, Event
  <2> QED
    BY <2>1 DEF Opened, SignedBy, KeptIn
<1> QED
  BY <1>1, <1>2 DEF Written, Hash, Opened

-----------------------------------------------------------------------------
IInv == Types /\ Chain /\ Seal /\ Written

LEMMA InitIInv == ASSUME Numbered, Init PROVE IInv
<1>1. PICK n : Opened(n)
  BY OpenedIs
<1> QED
  BY <1>1, FirstTypes, FirstChain, FirstSeal, FirstWritten DEF IInv

LEMMA StepKeepsIInv == ASSUME Numbered, IInv, [Next]_vars PROVE IInv'
<1>1. CASE UNCHANGED vars
  <2>1. UNCHANGED <<env, log, sealed, clock, request, died, broken, stale>>
    BY <1>1 DEF vars
  <2>2. Types'
    BY <2>1 DEF IInv, Types
  <2>3. Chain'
    BY <2>1 DEF IInv, Chain, Linked, Appends, Last
  <2>4. Seal'
    BY <2>1 DEF IInv, Seal
  <2>5. Written'
    BY <2>1 DEF IInv, Written, Hash, Signatures
  <2> QED
    BY <2>2, <2>3, <2>4, <2>5 DEF IInv
<1>2. CASE Update
  BY <1>2, UpdateKeepsChain, UpdateKeepsSeal, UpdateKeepsWritten DEF IInv
<1>3. ASSUME NEW r \in Request, Moving(r) PROVE IInv'
  BY <1>3, MovingKeepsChain, MovingKeepsSeal, MovingKeepsWritten DEF IInv
<1> QED
  BY <1>1, <1>2, <1>3, SignSteps

-----------------------------------------------------------------------------
LEMMA HashIsOfSeal == ASSUME IInv PROVE FinalHashIsOfSeal
<1> SUFFICES ASSUME env.final # 0, ~stale, ~died,
                    \A r \in Request : ~Sealing(r) \/ "write" \notin Remaining(r)
             PROVE  env.final = sealed.hash
  BY DEF FinalHashIsOfSeal
<1>1. sealed # NotSealed /\ Hash
  BY DEF IInv, Seal, Vouches, Written
<1>2. ASSUME NEW r \in Request, Finishing(request[r], sealed.hash) PROVE FALSE
  <2>1. request[r].action = "completed" /\ "write" \in Steps(request[r].plan)
    BY <1>2 DEF Finishing
  <2>2. request[r].plan # << >>
    BY <2>1, PlanOf
  <2> QED
    BY <2>1, <2>2 DEF Sealing, Idle, Remaining, Steps
<1> QED
  BY <1>1, <1>2 DEF Hash

LEMMA SignaturesStay == ASSUME IInv PROVE SignatureKept
<1> SUFFICES ASSUME NEW s \in Signer, Signs(log, s), ~stale, ~died,
                    ~KeptIn(env, s)
             PROVE  \E r \in Request :
                      ~Idle(r) /\ request[r].by = s /\ request[r].action = "signed"
  BY DEF SignatureKept, Signs, KeptIn
<1>1. PICK r \in Request : Putting(request[r], s)
  BY DEF IInv, Written, Signatures
<1>2. request[r].plan # << >>
  BY <1>1, PlanOf DEF Putting
<1> QED
  BY <1>1, <1>2 DEF Putting, Idle

LEMMA IInvSuffices ==
  ASSUME IInv
  PROVE  /\ ChainIntact /\ SealVerifies /\ FinalHashIsOfSeal
         /\ SignatureKept /\ CompletedIsSigned
BY ChainIs, SealIs, HashIsOfSeal, SignaturesStay DEF IInv

(* signing.go, orchestration.go, seal.go: the audit chain links, whatever  *)
(* handlers overlap, except where two events were made at once or could    *)
(* not be read; a sealed PDF was signed by every signer and its hash is    *)
(* the envelope's; a logged signature is in the envelope, and a completed  *)
(* one was signed by all - unless a request died or wrote over another.    *)
THEOREM EnvelopesAreTrue ==
  ASSUME Numbered
  PROVE  Spec => [](/\ ChainIntact /\ SealVerifies /\ FinalHashIsOfSeal
                    /\ SignatureKept /\ CompletedIsSigned)
<1>1. Init => IInv
  BY InitIInv
<1>2. IInv /\ [Next]_vars => IInv'
  BY StepKeepsIInv
<1>3. IInv => /\ ChainIntact /\ SealVerifies /\ FinalHashIsOfSeal
              /\ SignatureKept /\ CompletedIsSigned
  BY IInvSuffices
<1> QED
  BY <1>1, <1>2, <1>3, PTL DEF Spec
=============================================================================
