----------------------------- MODULE StorageQuota -----------------------------
(***************************************************************************)
(* billing/enforce.go: the storage cap of one account.  Every handler that *)
(* stores bytes reserves them first (GateStorage), then writes, then       *)
(* commits the reservation or, if a step of the write failed, releases it. *)
(* The two counters are of this process, and of bytes admitted: neither a  *)
(* replaced content nor a deleted file gives any back.                     *)
(***************************************************************************)
EXTENDS FiniteSetsExt

CONSTANTS MaxStorage, \* MaxStorageBytes, of a finite plan
          Size,       \* the sizes to consider
          Request,    \* bound: writes under way at once
          MaxWritten  \* bound: bytes written by this process

VARIABLES committed, reserved,
          request,    \* request[r]: a write under way
          written     \* history: bytes written since the process started,
                      \* with and without a reservation

vars == <<committed, reserved, request, written>>

Idle == [at |-> "idle", bytes |-> 0, active |-> FALSE]
NothingWritten == [reserved |-> 0, unlimited |-> 0]

Init ==
  /\ committed = 0 /\ reserved = 0
  /\ request = [r \in Request |-> Idle]
  /\ written = NothingWritten

-----------------------------------------------------------------------------
(* Mutated form of Fits: reservations under way do not count.              *)
FitsCommitted(bytes) == committed + bytes <= MaxStorage

(* GateStorage.  Standalone, and while the control plane is out of reach   *)
(* and nothing is cached, the plan is the unlimited one, which reserves    *)
(* nothing.                                                                *)
Fits(bytes) == committed + reserved + bytes <= MaxStorage
GateStorage(r, bytes, unlimited) ==
  /\ request[r] = Idle
  /\ unlimited \/ Fits(bytes)
  /\ request' = [request EXCEPT ![r] =
       [at |-> "write", bytes |-> bytes, active |-> ~unlimited]]
  /\ reserved' = IF unlimited THEN reserved ELSE reserved + bytes
  /\ UNCHANGED <<committed, written>>

(* The handler's store call, and with Create the recording of the owner,   *)
(* whose failure deletes the file again.                                   *)
Write(r) ==
  LET p == request[r]
      kind == IF p.active THEN "reserved" ELSE "unlimited"
  IN  /\ p.at = "write"
      /\ written.reserved + written.unlimited + p.bytes <= MaxWritten
      /\ request' = [request EXCEPT ![r].at = "commit"]
      /\ written' = [written EXCEPT ![kind] = @ + p.bytes]
      /\ UNCHANGED <<committed, reserved>>
WriteFails(r) ==
  /\ request[r].at = "write"
  /\ request' = [request EXCEPT ![r].at = "release"]
  /\ UNCHANGED <<committed, reserved, written>>

Commit(r) ==
  LET bytes == IF request[r].active THEN request[r].bytes ELSE 0
  IN  /\ request[r].at = "commit"
      /\ reserved' = reserved - bytes /\ committed' = committed + bytes
      /\ request' = [request EXCEPT ![r] = Idle]
      /\ UNCHANGED written
Release(r) ==
  LET bytes == IF request[r].active THEN request[r].bytes ELSE 0
  IN  /\ request[r].at = "release"
      /\ reserved' = reserved - bytes
      /\ request' = [request EXCEPT ![r] = Idle]
      /\ UNCHANGED <<committed, written>>

(* The process starts again, with its counters at zero.                    *)
Restart ==
  /\ committed' = 0 /\ reserved' = 0
  /\ request' = [r \in Request |-> Idle]
  /\ written' = NothingWritten

Next ==
  \/ Restart
  \/ \E r \in Request :
       \/ Write(r) \/ WriteFails(r) \/ Commit(r) \/ Release(r)
       \/ \E bytes \in Size, unlimited \in BOOLEAN :
            GateStorage(r, bytes, unlimited)
Spec == Init /\ [][Next]_vars

-----------------------------------------------------------------------------
TypeOK ==
  /\ committed \in 0..MaxStorage /\ reserved \in 0..MaxStorage
  /\ request \in [Request -> [at : {"idle", "write", "commit", "release"},
                              bytes : Size \union {0}, active : BOOLEAN]]

(* What is reserved is what the writes under way may yet add; with what    *)
(* was written under a reservation it is never more than the cap, however  *)
(* writes overlap and fail, and each write is counted once.                *)
Bytes(r) == IF request[r].active THEN request[r].bytes ELSE 0
Uncommitted == {r \in Request : request[r].at = "commit"}
QuotaHeld ==
  /\ reserved = MapThenSumSet(Bytes, Request)
  /\ committed + reserved <= MaxStorage
  /\ written.reserved = committed + MapThenSumSet(Bytes, Uncommitted)
=============================================================================
