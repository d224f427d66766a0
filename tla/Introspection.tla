----------------------------- MODULE Introspection -----------------------------
(***************************************************************************)
(* The three caches of what a remote provider says of one credential:      *)
(*   session      session/session.go, trusted for a while and never past   *)
(*                the session's own expiry; an error is a refusal          *)
(*   apikey       apikey/apikey.go, trusted for a while; an error is a     *)
(*                refusal                                                  *)
(*   entitlement  entitlementFor of billing/enforce.go: asked every time,  *)
(*                the cache is for errors, and without one the account is  *)
(*                let in                                                   *)
(* Requests overlap, answers take time, and the provider changes its mind. *)
(***************************************************************************)
EXTENDS Integers

CONSTANTS Kind,     \* the caches to consider, of the three above
          TTL,      \* cacheMaxTTL, cacheTTL, entCacheTTL
          Timeout,  \* of the HTTP client
          Expiry,   \* the times to live of a session to consider
          Request   \* bound: requests under way at once

(* All times are what is left of them.                                     *)
VARIABLES kind,
          expires,  \* time to the session's expiresAt, or Never
          valid,    \* what the provider would say now
          cache,    \* the cached result and the time it is trusted for
          request,  \* request[r]: a request waiting for the provider
          age,      \* history: time since the provider would have said valid
          worst,    \* history: the greatest age at which one was let in
          late      \* history: one was let in after the session expired

vars == <<kind, expires, valid, cache, request, age, worst, late>>

Never == -1
MaxAge == TTL + Timeout + 1  \* ages above are not told apart
Idle == [at |-> "idle", valid |-> FALSE, left |-> 0]

Init ==
  /\ kind \in Kind
  /\ expires \in IF kind = "session" THEN Expiry \union {Never} ELSE {Never}
  /\ valid \in BOOLEAN /\ age = IF valid THEN 0 ELSE MaxAge
  /\ cache = [valid |-> FALSE, left |-> 0]
  /\ request = [r \in Request |-> Idle]
  /\ worst = 0 /\ late = FALSE

-----------------------------------------------------------------------------
(* fromCache.                                                              *)
Fresh == cache.left > 0

(* Mutated form of Trusted: the session's own expiry is not looked at.     *)
TrustedForTTL(isValid) == TTL

(* remember: of a session no longer than it lives.                         *)
Trusted(isValid) ==
  IF isValid /\ expires # Never /\ expires < TTL THEN expires ELSE TTL
Remembered(isValid) ==
  IF Trusted(isValid) = 0 THEN cache
  ELSE [valid |-> isValid, left |-> Trusted(isValid)]

Grant(isValid) ==
  IF isValid THEN /\ worst' = IF age > worst THEN age ELSE worst
                  /\ late' = (late \/ expires = 0)
             ELSE UNCHANGED <<worst, late>>

(* A credential is presented. Of a session or a key, a cached result       *)
(* answers at once.                                                        *)
Present(r) ==
  /\ request[r] = Idle
  /\ IF kind # "entitlement" /\ Fresh
       THEN Grant(cache.valid) /\ UNCHANGED request
       ELSE /\ request' = [request EXCEPT
                             ![r] = [Idle EXCEPT !.at = "asked",
                                                 !.left = Timeout]]
            /\ UNCHANGED <<worst, late>>
  /\ UNCHANGED <<kind, expires, valid, cache, age>>

(* The provider answers.                                                   *)
Reply(r) ==
  /\ request[r].at = "asked"
  /\ request' = [request EXCEPT ![r].at = "answered", ![r].valid = valid]
  /\ UNCHANGED <<kind, expires, valid, cache, age, worst, late>>

(* Mutated form of Introspected: the expiry in the answer is not looked    *)
(* at.                                                                     *)
IntrospectedAsTold(r) ==
  /\ request[r].at = "answered"
  /\ cache' = Remembered(request[r].valid) /\ Grant(request[r].valid)
  /\ request' = [request EXCEPT ![r] = Idle]
  /\ UNCHANGED <<kind, expires, valid, age>>

(* The answer arrives.  A session that has expired by then is invalid.     *)
Introspected(r) ==
  LET isValid == request[r].valid /\ expires # 0
  IN  /\ request[r].at = "answered"
      /\ cache' = Remembered(isValid) /\ Grant(isValid)
      /\ request' = [request EXCEPT ![r] = Idle]
      /\ UNCHANGED <<kind, expires, valid, age>>

(* No answer, or none in time: a session or a key is refused, an account   *)
(* goes by the cache, and without one it is let in.                        *)
Unavailable(r) ==
  /\ request[r].at # "idle"
  /\ request' = [request EXCEPT ![r] = Idle]
  /\ IF kind = "entitlement" /\ Fresh THEN Grant(cache.valid)
                                      ELSE UNCHANGED <<worst, late>>
  /\ UNCHANGED <<kind, expires, valid, cache, age>>

(* The session is revoked, the key or the account suspended, or restored.  *)
Change ==
  /\ valid' = ~valid
  /\ age' = IF valid' THEN 0 ELSE age
  /\ UNCHANGED <<kind, expires, cache, request, worst, late>>

Less1(n) == IF n > 0 THEN n - 1 ELSE n
Tick ==
  /\ \A r \in Request : request[r] # Idle => request[r].left > 0
  /\ request' = [r \in Request |-> [request[r] EXCEPT !.left = Less1(@)]]
  /\ cache' = [cache EXCEPT !.left = Less1(@)]
  /\ expires' = Less1(expires)
  /\ age' = IF valid \/ age = MaxAge THEN age ELSE age + 1
  /\ UNCHANGED <<kind, valid, worst, late>>

Next ==
  \/ Change \/ Tick
  \/ \E r \in Request :
       Present(r) \/ Reply(r) \/ Introspected(r) \/ Unavailable(r)
Spec == Init /\ [][Next]_vars

-----------------------------------------------------------------------------
TypeOK ==
  /\ cache \in [valid : BOOLEAN, left : 0..TTL]
  /\ request \in [Request -> [at : {"idle", "asked", "answered"},
                              valid : BOOLEAN, left : 0..Timeout]]
  /\ age \in 0..MaxAge /\ worst \in 0..MaxAge

(* Whoever is let in had been valid, by the provider, within the TTL and   *)
(* the time an answer takes - although the answers of overlapping requests *)
(* may be cached in the wrong order, and the office may be cut off - but   *)
(* for an account of which nothing was known; and no session is let in     *)
(* once it has expired.                                                    *)
TrustIsRecent == worst <= TTL + Timeout /\ ~late
=============================================================================
