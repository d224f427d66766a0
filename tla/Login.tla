-------------------------------- MODULE Login --------------------------------
(***************************************************************************)
(* The lockout of the login (handlers/auth.go), for one client address.    *)
(* Login takes the address's record of attempts under the mutex, checks    *)
(* the password without it, and counts the outcome into the record it      *)
(* took, which by then the sweep may have dropped from the map.  Times are *)
(* in ticks: what is left of a lock, and how long a record has been quiet. *)
(***************************************************************************)
EXTENDS Naturals, FiniteSets

CONSTANTS Request,      \* logins under way at a time
          MaxAttempts,  \* cfg.Auth.MaxAttempts
          Lockout,      \* cfg.Auth.LockoutMinutes, in ticks
          TTL,          \* attemptTTL, no shorter than Lockout
          MaxTime       \* bound: ticks from where counting began

VARIABLES record,   \* attemptRecords, in the map or held by a login
          current,  \* the one in the map; 0: none
          attempt,  \* the record each login holds; 0: not under way
          guesses,  \* history: wrong passwords tried, since the last success
                    \* or the last record pushed out
          elapsed   \* history: ticks since then

vars == <<record, current, attempt, guesses, elapsed>>

(* Enough for one held by each login and one in the map.                   *)
Record == 1..(Cardinality(Request) + 1)
NewRecord == [count |-> 0, lock |-> 0, quiet |-> 0]

Init ==
  /\ record = [i \in Record |-> NewRecord] /\ current = 0
  /\ attempt = [r \in Request |-> 0]
  /\ guesses = 0 /\ elapsed = 0

-----------------------------------------------------------------------------
(* Mutated form of Quiet: a record may go as soon as nobody tries.         *)
QuietEarly == current # 0 /\ record[current].quiet > 0
Quiet == current # 0 /\ record[current].quiet > TTL

Held == {attempt[r] : r \in Request} \ {0}
Unused == CHOOSE i \in Record : i \notin Held \cup {current}

(* A record that neither the map nor a login has is as good as new.        *)
Keep(f, kept) ==
  record' = [i \in Record |-> IF i \in kept THEN f[i] ELSE NewRecord]

(* Login, up to the lockout check: a sweep, if one is due, drops a quiet   *)
(* record; a locked one is noted as seen and answered 429.                 *)
Begin(r) ==
  /\ attempt[r] = 0
  /\ \E found \in BOOLEAN :
       /\ found => current # 0
       /\ ~found => current = 0 \/ Quiet
       /\ current' = IF found THEN current ELSE Unused
       /\ Keep([record EXCEPT ![current'].quiet = 0], Held \cup {current'})
       /\ attempt' = IF record[current'].lock > 0
                     THEN attempt ELSE [attempt EXCEPT ![r] = current']
  /\ UNCHANGED <<guesses, elapsed>>

Finish(r, f) ==
  /\ attempt[r] # 0
  /\ attempt' = [attempt EXCEPT ![r] = 0]
  /\ Keep(f, {attempt[q] : q \in Request \ {r}} \cup {current})
  /\ UNCHANGED current

(* A body that is no LoginRequest.                                         *)
Malformed(r) ==
  /\ Finish(r, record) /\ UNCHANGED <<guesses, elapsed>>

(* Mutated form of Counted: the count starts again, and nothing locks.     *)
CountedUnlocked(c) == [c EXCEPT !.count = (@ + 1) % MaxAttempts]
Counted(c) ==
  IF c.count + 1 >= MaxAttempts
  THEN [c EXCEPT !.lock = Lockout, !.count = 0]
  ELSE [c EXCEPT !.count = @ + 1]
Fail(r) ==
  /\ Finish(r, [record EXCEPT ![attempt[r]] = Counted(@)])
  /\ guesses' = guesses + 1 /\ UNCHANGED elapsed

Succeed(r) ==
  /\ Finish(r, [record EXCEPT ![attempt[r]].count = 0, ![attempt[r]].lock = 0])
  /\ guesses' = 0 /\ elapsed' = 0

Drop ==
  /\ current' = 0
  /\ Keep(record, Held)
  /\ UNCHANGED attempt
(* Logins from other addresses sweep too, and push out the record that was *)
(* not seen for longest when there are more than maxAttemptRecords.        *)
Sweep == Quiet /\ Drop /\ UNCHANGED <<guesses, elapsed>>
PushOut == current # 0 /\ Drop /\ guesses' = 0 /\ elapsed' = 0

Tick ==
  /\ elapsed < MaxTime /\ elapsed' = elapsed + 1
  /\ record' = [i \in Record |-> IF i \notin Held \cup {current} THEN record[i]
       ELSE [record[i] EXCEPT !.lock = IF @ = 0 THEN 0 ELSE @ - 1,
                              !.quiet = IF @ > TTL THEN @ ELSE @ + 1]]
  /\ UNCHANGED <<current, attempt, guesses>>

Next ==
  \/ \E r \in Request : Begin(r) \/ Malformed(r) \/ Fail(r) \/ Succeed(r)
  \/ Sweep \/ PushOut \/ Tick
Spec == Init /\ [][Next]_vars

-----------------------------------------------------------------------------
TypeOK ==
  /\ record \in [Record -> [count : 0..(MaxAttempts - 1), lock : 0..Lockout,
                            quiet : 0..(TTL + 1)]]
  /\ current \in Record \cup {0}
  /\ attempt \in [Request -> Record \cup {0}]
  /\ guesses \in Nat /\ elapsed \in 0..MaxTime

(* Counted from a success, or from the loss of the record, no more wrong   *)
(* passwords are tried in the time of each lockout than are allowed and    *)
(* overlap the last of them, and once that many more: whatever was swept   *)
(* meanwhile, and however long a login took.                               *)
GuessesBounded ==
  guesses <= (MaxAttempts + Cardinality(Request) - 1)
               * (2 + elapsed \div Lockout)
=============================================================================
