------------------------------ MODULE FileStore ------------------------------
(***************************************************************************)
(* One document's record and version history behind the whole-document     *)
(* endpoints: save (FileHandler.Update), patch (the v1 API and the xlsx    *)
(* import), restore and named snapshot of a version, move (folder, star,   *)
(* trash) and permanent delete, over both implementations of Storage:      *)
(*                                                                         *)
(*   local     LocalStorage, a JSON file rewritten in place by             *)
(*             os.WriteFile (truncate, then write), without any lock;      *)
(*   postgres  PostgresStorage, rows; the UPDATE is guarded on rev.        *)
(*                                                                         *)
(* Req are the requests in progress.  An action is one statement or file   *)
(* operation, with the local computation up to the next.  The access,      *)
(* quota and protected-range checks before an operation only refuse it and *)
(* are left out, as is the read that composes an answer.  A content is the *)
(* number of the call that brought it, 0 the content the document was      *)
(* created with; the two parts of a file's organization, its place and its *)
(* star, likewise.                                                         *)
(***************************************************************************)
EXTENDS Naturals, FiniteSets

CONSTANTS Req,
          Stores,    \* the storage.type a deployment may have chosen
          Cap,       \* DefaultVersionCap
          MaxCalls   \* bound: requests ever made

ASSUME FileStoreAssumption ==
  /\ Stores \subseteq {"local", "postgres"}
  /\ Cap \in Nat \ {0} /\ MaxCalls \in Nat

VARIABLES backend,   \* the storage in use
          record,    \* the file's JSON or row
          versions,  \* its version history
          req,       \* req[r]: the handler serving r
          clock,     \* time.Now(), advanced by what is stamped with it
          calls,     \* requests made so far
          saved,     \* history: contents whose write succeeded
          moved,     \* history: the organization last asked for
          overlaps,  \* history: which requests have overlapped
          unsnapped  \* history: storing a version has failed

storage == <<record, versions, clock>>
history == <<saved, moved, overlaps, unsnapped>>
vars == <<backend, storage, req, calls, history>>

Number == 0..MaxCalls
Field == {"place", "star"}
Meta == [Field -> Number]

(* torn tells which kind of request truncated a file that nobody has filled *)
(* since ("no" when it holds a whole JSON); what it held is kept for the    *)
(* properties.  stamp is updated_at, in Postgres.                           *)
File == [ present : BOOLEAN, torn : {"no", "save", "move"},
          rev : 1..(MaxCalls + 1), content : Number, meta : Meta,
          stamp : 0..(2 * MaxCalls) ]

(* A version: created_at, which also identifies it, and the content.        *)
Version == [at : 0..(2 * MaxCalls), content : Number]

Created == [ present |-> TRUE, torn |-> "no", rev |-> 1, content |-> 0,
             meta |-> [f \in Field |-> 0], stamp |-> 0 ]

NoCall == [ pc |-> "idle", op |-> "none", base |-> 0, content |-> 0,
            pick |-> 0, field |-> "place", file |-> Created ]

Init ==
  /\ backend \in Stores
  /\ record = Created /\ versions = {}
  /\ req = [r \in Req |-> NoCall]
  /\ clock = 0 /\ calls = 0
  /\ saved = {0} /\ moved = Created.meta
  /\ overlaps = {} /\ unsnapped = FALSE

-----------------------------------------------------------------------------
Saves == {"save", "patch", "restore"}
Label(r) == req[r].pc
Continue(r, call) == req' = [req EXCEPT ![r] = call]
Goto(r, label) == Continue(r, [req[r] EXCEPT !.pc = label])
Return(r) == Continue(r, NoCall)

(* GetFile succeeds: the file exists and its JSON parses.                   *)
Readable == record.present /\ record.torn = "no"

(* Which handlers r joins, all and those of its own kind when it is a move. *)
Overlap(call) ==
  (IF \E q \in Req : Label(q) # "idle" THEN {"calls"} ELSE {})
    \union
  (IF call.op = "move" /\ \E q \in Req : req[q].op = "move"
     THEN {"moves"} ELSE {})

Start(r, call) ==
  /\ Label(r) = "idle" /\ calls < MaxCalls
  /\ calls' = calls + 1
  /\ Continue(r, call)
  /\ overlaps' = overlaps \union Overlap(call)
  /\ UNCHANGED <<backend, storage, saved, moved, unsnapped>>

(* A request comes in.  A save carries the rev its client last read, or 0   *)
(* to force; a restore names a version; a move sets one field.              *)
Call(r) ==
  LET new == [NoCall EXCEPT !.content = calls + 1]
  IN  \/ \E rev \in 0..record.rev :
           Start(r, [new EXCEPT !.op = "save", !.pc = "existing", !.base = rev])
      \/ Start(r, [new EXCEPT !.op = "patch", !.pc = "read"])
      \/ \E v \in versions :
           Start(r, [new EXCEPT !.op = "restore", !.pc = "read", !.pick = v.at])
      \/ Start(r, [new EXCEPT !.op = "name", !.pc = "read"])
      \/ \E f \in Field :
           Start(r, [new EXCEPT !.op = "move", !.pc = "read", !.field = f])
      \/ Start(r, [new EXCEPT !.op = "delete", !.pc = "remove"])

(* The handler's own GetFile: what a patch, a restore or a move starts from. *)
(* The rev it read is the one its UpdateFile compares.                      *)
Read(r) ==
  /\ Label(r) = "read"
  /\ IF Readable
       THEN Continue(r, [req[r] EXCEPT
              !.file = record, !.base = record.rev,
              !.pc = CASE req[r].op = "patch" -> "existing"
                       [] req[r].op = "restore" -> "version"
                       [] req[r].op = "name" -> "backup"
                       [] req[r].op = "move" ->
                            IF backend = "local" THEN "existing" ELSE "update"])
       ELSE Return(r)
  /\ UNCHANGED <<backend, storage, calls, history>>

(* RestoreVersion's GetVersion: the version may have been pruned meanwhile. *)
GetVersion(r) ==
  /\ Label(r) = "version"
  /\ \/ \E v \in versions :
          /\ v.at = req[r].pick
          /\ Continue(r, [req[r] EXCEPT !.content = v.content, !.pc = "backup"])
     \/ (\A v \in versions : v.at # req[r].pick) /\ Return(r)
  /\ UNCHANGED <<backend, storage, calls, history>>

-----------------------------------------------------------------------------
(* CreateVersion: a stamp that is taken leaves the version stored under it. *)
CreateVersion(at, content) ==
  versions' = IF \E v \in versions : v.at = at THEN versions
              ELSE versions \union {[at |-> at, content |-> content]}

(* A restore, or a named snapshot, stores what it read, dated now.  In      *)
(* Postgres the version of a deleted file violates its foreign key.         *)
Backup(r) ==
  /\ Label(r) = "backup"
  /\ backend = "postgres" => record.present
  /\ CreateVersion(clock + 1, req[r].file.content)
  /\ clock' = clock + 1
  /\ Goto(r, "backupPrune")
  /\ UNCHANGED <<backend, record, calls, history>>

(* Mutated form of ReadExisting: the client's rev is not compared.          *)
ReadExistingAnyRev(r) ==
  /\ Label(r) = "existing"
  /\ IF Readable
       THEN Continue(r, [req[r] EXCEPT !.file = record,
              !.pc = IF req[r].op = "move" THEN "truncate" ELSE "snapshot"])
       ELSE Return(r)
  /\ UNCHANGED <<backend, storage, calls, history>>

(* UpdateFile's GetFile and rev check (and, locally, UpdateFileMeta's       *)
(* GetFile).  A stale rev is a conflict: nothing is written.                *)
ReadExisting(r) ==
  LET stale == req[r].op # "move" /\ req[r].base \notin {0, record.rev}
  IN  /\ Label(r) = "existing"
      /\ IF Readable /\ ~stale
           THEN Continue(r, [req[r] EXCEPT !.file = record,
                  !.pc = IF req[r].op = "move" THEN "truncate" ELSE "snapshot"])
           ELSE Return(r)
      /\ UNCHANGED <<backend, storage, calls, history>>

(* UpdateFile stores the content it is about to supersede: dated now by     *)
(* LocalStorage, by the row's updated_at in Postgres.                       *)
Snapshot(r) ==
  LET file == req[r].file
  IN  /\ Label(r) = "snapshot"
      /\ backend = "postgres" => record.present
      /\ CreateVersion(IF backend = "local" THEN clock + 1 ELSE file.stamp,
                       file.content)
      /\ clock' = IF backend = "local" THEN clock + 1 ELSE clock
      /\ Goto(r, "prune")
      /\ UNCHANGED <<backend, record, calls, history>>

(* CreateVersion fails: UpdateFile and RestoreVersion go on without it, the *)
(* named snapshot fails.                                                    *)
VersionFails(r) ==
  /\ Label(r) \in {"backup", "snapshot"}
  /\ IF req[r].op = "name" THEN Return(r)
     ELSE Goto(r, IF Label(r) = "backup" THEN "backupPrune" ELSE "prune")
  /\ unsnapped' = TRUE
  /\ UNCHANGED <<backend, storage, calls, saved, moved, overlaps>>

(* PruneVersions: the newest Cap stay.                                      *)
Prune(r) ==
  /\ Label(r) \in {"backupPrune", "prune"}
  /\ versions' = {v \in versions :
                    Cardinality({w \in versions : w.at > v.at}) < Cap}
  /\ IF Label(r) = "prune"
       THEN Goto(r, IF backend = "local" THEN "truncate" ELSE "update")
       ELSE IF req[r].op = "name" THEN Return(r) ELSE Goto(r, "existing")
  /\ UNCHANGED <<backend, record, clock, calls, history>>

-----------------------------------------------------------------------------
(* What a move writes: the fields it was not asked to change come from its  *)
(* own GetFile.                                                             *)
Moved(r) == [req[r].file.meta EXCEPT ![req[r].field] = req[r].content]

(* Mutated form of UpdateRow: the UPDATE is not guarded on rev.             *)
UpdateRowUnguarded(r) ==
  /\ backend = "postgres" /\ Label(r) = "update" /\ req[r].op \in Saves
  /\ IF record.present
       THEN /\ record' = [record EXCEPT !.rev = req[r].file.rev + 1,
                            !.content = req[r].content, !.stamp = clock + 1]
            /\ clock' = clock + 1
            /\ saved' = saved \union {req[r].content}
       ELSE UNCHANGED <<record, clock, saved>>
  /\ Return(r)
  /\ UNCHANGED <<backend, versions, calls, moved, overlaps, unsnapped>>

(* Mutated form of UpdateRow: a row that is gone is inserted again.         *)
UpdateRowInserting(r) ==
  /\ backend = "postgres" /\ Label(r) = "update" /\ req[r].op \in Saves
  /\ IF record.rev = req[r].file.rev
       THEN /\ record' = [record EXCEPT !.rev = @ + 1, !.present = TRUE,
                            !.content = req[r].content, !.stamp = clock + 1]
            /\ clock' = clock + 1
            /\ saved' = saved \union {req[r].content}
       ELSE UNCHANGED <<record, clock, saved>>
  /\ Return(r)
  /\ UNCHANGED <<backend, versions, calls, moved, overlaps, unsnapped>>

(* PostgresStorage.UpdateFile's UPDATE ... WHERE rev: no row, no change.    *)
UpdateRow(r) ==
  /\ backend = "postgres" /\ Label(r) = "update" /\ req[r].op \in Saves
  /\ IF record.present /\ record.rev = req[r].file.rev
       THEN /\ record' = [record EXCEPT !.rev = @ + 1,
                            !.content = req[r].content, !.stamp = clock + 1]
            /\ clock' = clock + 1
            /\ saved' = saved \union {req[r].content}
       ELSE UNCHANGED <<record, clock, saved>>
  /\ Return(r)
  /\ UNCHANGED <<backend, versions, calls, moved, overlaps, unsnapped>>

(* PostgresStorage.UpdateFileMeta.                                          *)
MoveRow(r) ==
  /\ backend = "postgres" /\ Label(r) = "update" /\ req[r].op = "move"
  /\ IF record.present
       THEN /\ record' = [record EXCEPT !.meta = Moved(r), !.stamp = clock + 1]
            /\ clock' = clock + 1
            /\ moved' = [moved EXCEPT ![req[r].field] = req[r].content]
       ELSE UNCHANGED <<record, clock, moved>>
  /\ Return(r)
  /\ UNCHANGED <<backend, versions, calls, saved, overlaps, unsnapped>>

(* os.WriteFile opens the file with O_CREATE and O_TRUNC.                   *)
Truncate(r) ==
  /\ Label(r) = "truncate"
  /\ record' = [record EXCEPT !.present = TRUE,
                  !.torn = IF req[r].op = "move" THEN "move" ELSE "save"]
  /\ Goto(r, "fill")
  /\ UNCHANGED <<backend, versions, clock, calls, history>>

(* Mutated form of Written: the rev in the request is stored.               *)
WrittenWithRequestRev(r) ==
  LET file == req[r].file
  IN  IF req[r].op = "move" THEN [file EXCEPT !.meta = Moved(r)]
      ELSE [file EXCEPT !.rev = req[r].base, !.content = req[r].content]

(* Mutated form of Written: a save wipes the folder and the star.           *)
WrittenWithoutMeta(r) ==
  LET file == req[r].file
  IN  IF req[r].op = "move" THEN [file EXCEPT !.meta = Moved(r)]
      ELSE [file EXCEPT !.rev = @ + 1, !.content = req[r].content,
                        !.meta = Created.meta]

(* The JSON a handler writes: what it read, but for what it was asked to   *)
(* change.                                                                 *)
Written(r) ==
  LET file == req[r].file
  IN  IF req[r].op = "move" THEN [file EXCEPT !.meta = Moved(r)]
      ELSE [file EXCEPT !.rev = @ + 1, !.content = req[r].content]

(* os.WriteFile then writes the whole JSON, to a file that may have been    *)
(* removed meanwhile (the write is lost with it) or filled by another       *)
(* handler (the longer of the two leaves its tail behind).                  *)
Fill(r) ==
  /\ Label(r) = "fill"
  /\ \/ record' = IF record.present THEN Written(r) ELSE record
     \/ Readable /\ record' = [Written(r) EXCEPT
                     !.torn = IF req[r].op = "move" THEN "move" ELSE "save"]
  /\ IF req[r].op = "move"
       THEN /\ moved' = [moved EXCEPT ![req[r].field] = req[r].content]
            /\ UNCHANGED saved
       ELSE /\ saved' = saved \union {req[r].content}
            /\ UNCHANGED moved
  /\ Return(r)
  /\ UNCHANGED <<backend, versions, clock, calls, overlaps, unsnapped>>

(* DeleteFile: the row takes its versions with it, the JSON file does not.  *)
Remove(r) ==
  /\ Label(r) = "remove"
  /\ record' = [record EXCEPT !.present = FALSE, !.torn = "no"]
  /\ versions' = IF backend = "postgres" THEN {} ELSE versions
  /\ Return(r)
  /\ UNCHANGED <<backend, clock, calls, history>>

(* A statement or a file operation fails, or the process dies: the request  *)
(* ends where it is.                                                        *)
Fails(r) ==
  /\ Label(r) # "idle"
  /\ Return(r)
  /\ UNCHANGED <<backend, storage, calls, history>>

Next ==
  \E r \in Req :
    \/ Call(r) \/ Read(r) \/ GetVersion(r) \/ Backup(r) \/ ReadExisting(r)
    \/ Snapshot(r) \/ VersionFails(r) \/ Prune(r) \/ UpdateRow(r) \/ MoveRow(r)
    \/ Truncate(r) \/ Fill(r) \/ Remove(r) \/ Fails(r)

Spec == Init /\ [][Next]_vars

-----------------------------------------------------------------------------
TypeOK ==
  /\ backend \in Stores /\ record \in File
  /\ versions \subseteq Version /\ clock \in 0..(2 * MaxCalls)
  /\ saved \subseteq Number /\ moved \in Meta
  /\ overlaps \subseteq {"calls", "moves"} /\ unsnapped \in BOOLEAN
  /\ backend = "postgres" => record.torn = "no"
  /\ \A v, w \in versions : v.at = w.at => v = w

(* LocalStorage promises nothing to requests that overlap.                  *)
Serial == backend = "postgres" \/ "calls" \notin overlaps

(* "A concurrent editor's save can't silently overwrite a newer one": until *)
(* Cap versions exist, whatever was saved is the document's content or one  *)
(* of its versions, even when a crash left a half-written file.  (A move    *)
(* rewrites the file without storing a version first.)                      *)
NoSaveLost ==
  record.present /\ record.torn # "move" /\ ~unsnapped
    /\ Cardinality(versions) < Cap =>
      saved \ {v.content : v \in versions}
        \subseteq (IF record.torn = "no" THEN {record.content} ELSE {})

(* It is so in Postgres, and locally while requests come one by one.        *)
SavesKept == Serial => NoSaveLost

(* A write that succeeds and what it was based on.                          *)
Swaps ==
  \A r \in Req :
    Serial' /\ Label(r) \in {"update", "fill"} /\ req'[r] # req[r]
      /\ record' # record /\ record'.torn = "no" =>
        IF req[r].op = "move" THEN record'.rev = record.rev
        ELSE /\ record'.rev = record.rev + 1
             /\ req[r].base \in {0, record.rev}

(* Two saves based on one rev never both succeed: a save replaces the rev   *)
(* it was based on by the next one, or forces, and a move keeps the rev.    *)
(* About UpdateFile's compare-and-swap.                                     *)
SwapsOnlyItsBase == [][Swaps]_vars

(* Folder and star survive saves, restores and patches, concurrent ones     *)
(* included in Postgres, as long as no two moves overlap: each of them      *)
(* writes back, for the fields it was not asked to change, what it read.    *)
OrganizationKept ==
  Serial /\ "moves" \notin overlaps /\ Readable => record.meta = moved

(* A step does not make a deleted document exist.                           *)
StaysDeleted == Serial' /\ ~record.present => ~record'.present

(* A document that was permanently deleted does not come back: a save that  *)
(* was under way finds no row.                                              *)
DeletedStaysDeleted == [][StaysDeleted]_vars
=============================================================================
