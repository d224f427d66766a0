--------------------------- MODULE ProtectedRanges ----------------------------
(***************************************************************************)
(* A cell of a spreadsheet in a range that one account protects and        *)
(* another, an editor of the file, may not edit: enforceProtectedRanges of *)
(* handlers/protected_ranges.go, before the saves of files.go, the patches *)
(* of v1.go and the imports of sheets_import_export.go.  Each reads the    *)
(* stored content to check against and leaves the write to UpdateFile,     *)
(* which reads the revision again.                                         *)
(***************************************************************************)
EXTENDS Integers

CONSTANTS Value,    \* what the cell may hold
          Request,  \* bound: requests under way at once
          MaxRev,   \* bound: saves
          MaxFaults \* bound: reads that fail

VARIABLES backend,  \* "local" or "postgres"
          stored,   \* rev and content: the cell, and whether it is protected
          request,  \* request[r]: see Idle
          faults,
          intruded  \* history: a save by one who may not changed the cell or
                    \* its protection

vars == <<backend, stored, request, faults, intruded>>

Content == [cell : Value, on : BOOLEAN]

(* base: the rev the save is based on, 0 for none, AsRead for that of the  *)
(* stored content; new: the content; unread: there was nothing to check    *)
(* against; over: another save went through since the check.               *)
AsRead == -1
Idle == [at |-> "idle", by |-> "owner", base |-> 0,
         new |-> [cell |-> CHOOSE v \in Value : TRUE, on |-> FALSE],
         unread |-> FALSE, over |-> FALSE]

Init ==
  /\ backend \in {"local", "postgres"}
  /\ stored = [rev |-> 1, cell |-> CHOOSE v \in Value : TRUE, on |-> TRUE]
  /\ request = [r \in Request |-> Idle]
  /\ faults = 0 /\ intruded = FALSE

Goes(r, q) == request' = [request EXCEPT ![r] = q]

(* Mutated form of Enforced: only the cell is compared.                    *)
EnforcedCell(q, prev) ==
  q.by = "owner" \/ ~prev.on \/ q.new.cell = prev.cell

(* enforceProtectedRanges: one who may not edit the range must leave its   *)
(* cell and its protection as they are.                                    *)
Enforced(q, prev) ==
  \/ q.by = "owner" \/ ~prev.on
  \/ (q.new.cell = prev.cell /\ q.new.on)

-----------------------------------------------------------------------------
(* A save with the rev that its client last read, or without one; or a     *)
(* patch or an import.                                                     *)
Call(r) ==
  /\ request[r] = Idle
  /\ \E by \in {"owner", "guest"}, base \in AsRead..stored.rev,
        new \in Content :
       Goes(r, [Idle EXCEPT !.at = "check", !.by = by, !.base = base,
                            !.new = new])
  /\ UNCHANGED <<backend, stored, faults, intruded>>

(* The check.  A patch keeps the rev it read.                              *)
Check(r) ==
  LET q == request[r]
  IN  /\ q.at = "check"
      /\ Goes(r, IF Enforced(q, stored)
                   THEN [q EXCEPT !.at = "save",
                                  !.base = IF @ = AsRead THEN stored.rev
                                                         ELSE @]
                 ELSE Idle)
      /\ UNCHANGED <<backend, stored, faults, intruded>>

(* The read fails: a save goes on unchecked.                               *)
CheckFails(r) ==
  LET q == request[r]
  IN  /\ q.at = "check" /\ faults < MaxFaults /\ faults' = faults + 1
      /\ Goes(r, IF q.base # AsRead
                   THEN [q EXCEPT !.at = "save", !.unread = TRUE] ELSE Idle)
      /\ UNCHANGED <<backend, stored, intruded>>

-----------------------------------------------------------------------------
(* Mutated form of Swaps: the revision is not compared.                    *)
SwapsAlways(q) == TRUE

(* UpdateFile: in Postgres its UPDATE compares again what it read; on the  *)
(* disk it reads, compares and then writes.                                *)
Swaps(q) == q.base \in {0, stored.rev}

Written(r, rev) ==
  LET q == request[r]
      changes == stored.on /\ ~(q.new.cell = stored.cell /\ q.new.on)
      excused == q.unread \/ (q.over /\ (q.base = 0 \/ backend = "local"))
  IN  /\ rev <= MaxRev
      /\ stored' = [rev |-> rev, cell |-> q.new.cell, on |-> q.new.on]
      /\ request' = [s \in Request |->
           IF s = r THEN Idle
           ELSE IF request[s].at \in {"save", "write"}
             THEN [request[s] EXCEPT !.over = TRUE]
           ELSE request[s]]
      /\ intruded' = (intruded \/ (q.by = "guest" /\ changes /\ ~excused))
      /\ UNCHANGED <<backend, faults>>
Save(r) ==
  LET q == request[r]
  IN  /\ q.at = "save"
      /\ \/ /\ Goes(r, Idle)  \* a conflict, or an error
            /\ UNCHANGED <<backend, stored, faults, intruded>>
         \/ /\ Swaps(q) /\ backend = "local"
            /\ Goes(r, [q EXCEPT !.at = "write", !.base = stored.rev])
            /\ UNCHANGED <<backend, stored, faults, intruded>>
         \/ Swaps(q) /\ backend = "postgres" /\ Written(r, stored.rev + 1)
Write(r) == request[r].at = "write" /\ Written(r, request[r].base + 1)

Next ==
  \E r \in Request :
    Call(r) \/ Check(r) \/ CheckFails(r) \/ Save(r) \/ Write(r)
Spec == Init /\ [][Next]_vars

-----------------------------------------------------------------------------
TypeOK ==
  /\ stored \in [rev : 1..MaxRev, cell : Value, on : BOOLEAN]
  /\ \A r \in Request :
       request[r].base \in AsRead..MaxRev /\ request[r].new \in Content

(* A cell that is protected from an account keeps what it holds, and its   *)
(* protection, whatever that account saves, patches and imports, with the  *)
(* revision it read, while others save too, on Postgres always; without    *)
(* the revision, or on the disk, while nothing was saved between its check *)
(* and its write; and in either case only if the check could be made.      *)
RangeKept == ~intruded
=============================================================================
