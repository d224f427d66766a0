------------------------------- MODULE Limiters -------------------------------
(***************************************************************************)
(* The two request limiters of backend/middleware, for one key: the token  *)
(* bucket of the writes (tokenbucket.go) and the fixed window of the       *)
(* sensitive endpoints (ratelimit.go).  Each call holds its lock and takes *)
(* no time.  A request costs Cost and one unit flows back in each tick, so *)
(* that Cap / Cost is the burst; that amounts are floats is left out.      *)
(***************************************************************************)
EXTENDS Naturals

CONSTANTS Cap,     \* cap of NewTokenBucket, in units
          Cost,    \* one token, in units
          Limit,   \* limit of NewRateLimiter
          Window,  \* window of NewRateLimiter
          MaxTime  \* bound: ticks

VARIABLES now,
          bucket,    \* the key's tbEntry, if there is one
          entry,     \* the key's rlEntry, if there is one
          mark,      \* history: a moment to count from
          allowed,   \* history: what each limiter let in since
          promised   \* history: when the one last refused may come back,
                     \* until another is let in

vars == <<now, bucket, entry, mark, allowed, promised>>

NoBucket == [there |-> FALSE, tokens |-> 0, last |-> 0]
NoEntry == [there |-> FALSE, count |-> 0, start |-> 0]
None == [bucket |-> 0, window |-> 0]
Promise == [due : BOOLEAN, at : Nat]
NoPromise == [due |-> FALSE, at |-> 0]

Init ==
  /\ now = 0 /\ mark = 0
  /\ bucket = NoBucket /\ entry = NoEntry
  /\ allowed = None
  /\ promised = [bucket |-> NoPromise, window |-> NoPromise]

-----------------------------------------------------------------------------
Smaller(a, b) == IF a < b THEN a ELSE b

(* Mutated form of Refilled: the capacity does not cap.                    *)
RefilledPast == bucket.tokens + (now - bucket.last)

(* What the bucket holds by now; a key without one has a full one.         *)
Refilled == Smaller(Cap, bucket.tokens + (now - bucket.last))
Holds == IF bucket.there THEN Refilled ELSE Cap

(* Mutated form of Idle: buckets are pruned before they are full again.    *)
IdleHalf == bucket.there /\ 2 * (now - bucket.last) > Cap

(* Mutated form of Over: a window is over one tick early.                  *)
OverEarly == entry.there /\ now - entry.start + 1 >= Window

(* Any call, of whichever key, prunes the buckets idle for long enough to  *)
(* be full, and the windows that are over.                                 *)
Idle == bucket.there /\ now - bucket.last > Cap
Over == entry.there /\ now - entry.start >= Window

Letting(limiter) ==
  /\ allowed' = [allowed EXCEPT ![limiter] = @ + 1]
  /\ promised' = [promised EXCEPT ![limiter] = NoPromise]
Refusing(limiter, wait) ==
  /\ allowed' = allowed
  /\ promised' = [promised EXCEPT ![limiter] = [due |-> TRUE, at |-> now + wait]]

(* Allow: a new key starts with a full bucket; a refusal keeps what flowed *)
(* back.                                                                   *)
AllowBucket ==
  LET full == ~bucket.there \/ Idle
      tokens == IF full THEN Cap ELSE Refilled
  IN  /\ bucket' = [there |-> TRUE, last |-> now,
                    tokens |-> IF full \/ tokens >= Cost THEN tokens - Cost
                                                         ELSE tokens]
      /\ IF full \/ tokens >= Cost THEN Letting("bucket")
                                   ELSE Refusing("bucket", Cost - tokens)
      /\ UNCHANGED <<now, entry, mark>>
PruneBucket ==
  /\ Idle
  /\ bucket' = NoBucket
  /\ UNCHANGED <<now, entry, mark, allowed, promised>>

(* allow of RateLimiter.                                                   *)
AllowWindow ==
  LET new == ~entry.there \/ Over
  IN  /\ \/ /\ new
            /\ entry' = [there |-> TRUE, count |-> 1, start |-> now]
            /\ Letting("window")
         \/ /\ ~new /\ entry.count < Limit
            /\ entry' = [entry EXCEPT !.count = @ + 1]
            /\ Letting("window")
         \/ /\ ~new /\ entry.count >= Limit
            /\ entry' = entry
            /\ Refusing("window", Window - (now - entry.start))
      /\ UNCHANGED <<now, bucket, mark>>
PruneWindow ==
  /\ Over
  /\ entry' = NoEntry
  /\ UNCHANGED <<now, bucket, mark, allowed, promised>>

Tick ==
  /\ now < MaxTime
  /\ now' = now + 1
  /\ UNCHANGED <<bucket, entry, mark, allowed, promised>>

(* Count from here.                                                        *)
Mark ==
  /\ mark' = now /\ allowed' = None
  /\ UNCHANGED <<now, bucket, entry, promised>>

Next ==
  \/ AllowBucket \/ PruneBucket \/ AllowWindow \/ PruneWindow \/ Tick \/ Mark
Spec == Init /\ [][Next]_vars

-----------------------------------------------------------------------------
TypeOK ==
  /\ now \in Nat /\ mark \in 0..now
  /\ bucket \in [there : BOOLEAN, tokens : 0..Cap, last : 0..now]
  /\ entry \in [there : BOOLEAN, count : 0..Limit, start : 0..now]
  /\ allowed \in [bucket : Nat, window : Nat]
  /\ promised \in [bucket : Promise, window : Promise]

(* Counted from any moment, the bucket lets in no more than a burst and    *)
(* what flowed back since, prunings and refusals or not.                   *)
BurstBounded == allowed.bucket * Cost <= Cap + (now - mark)

(* Counted from any moment, the window lets in no more than its limit in   *)
(* the time of each window since, and for two windows more.                *)
WindowBounded ==
  allowed.window * Window <= Limit * (2 * Window + (now - mark))

(* One who was refused and comes back after the wait told, with nobody let *)
(* in meanwhile, is let in.                                                *)
WaitIsEnough ==
  /\ promised.bucket.due /\ promised.bucket.at <= now => Holds >= Cost
  /\ promised.window.due /\ promised.window.at <= now =>
       ~entry.there \/ Over
LimitsAsTold == BurstBounded /\ WindowBounded /\ WaitIsEnough
=============================================================================
