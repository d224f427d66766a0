--------------------------- MODULE FileStoreProofs ---------------------------
(***************************************************************************)
(* Proofs about FileStore, for any set of handlers, any number of requests *)
(* and any cap on the history: a save replaces exactly the rev it was      *)
(* based on, a deleted document stays deleted, and a document stays where  *)
(* it was put, and no save is lost before the history is full.  In        *)
(* Postgres all handlers may run at once; on LocalStorage the properties   *)
(* are about requests that do not overlap.                                 *)
(***************************************************************************)
EXTENDS FileStore, FiniteSetTheorems, TLAPS

Labels == {"idle", "existing", "read", "version", "backup", "backupPrune",
           "snapshot", "prune", "update", "truncate", "fill", "remove"}
Ops == {"none", "save", "patch", "restore", "name", "move", "delete"}

Shape == [ present : BOOLEAN, torn : {"no", "save", "move"}, rev : Nat,
           content : Nat, meta : [Field -> Nat], stamp : Nat ]

CallShape == [ pc : Labels, op : Ops, base : Nat, content : Nat, pick : Nat,
               field : Field, file : Shape ]

(* The variables have their shapes (unbounded, unlike in TypeOK).           *)
Shapes ==
  /\ backend \in {"local", "postgres"}
  /\ record \in Shape /\ req \in [Req -> CallShape]
  /\ versions \subseteq [at : Nat, content : Nat]
  /\ calls \in Nat /\ clock \in Nat
  /\ overlaps \subseteq {"calls", "moves"}

(* The handler has read the record UpdateFile compares and is to write.     *)
Holding == {"snapshot", "prune", "update", "truncate", "fill"}

(* What is known of a handler alone: past the comparison its base is the    *)
(* rev it read, and it writes the way the storage b does.                   *)
CallOK(c, b) ==
  /\ c.pc \in Holding /\ c.op # "move" => c.base \in {0, c.file.rev}
  /\ c.pc \in {"truncate", "fill"} => b = "local"
  /\ c.pc = "update" => b = "postgres"
  /\ c.pc = "existing" /\ c.op = "move" => b = "local"
  /\ c.pc \in {"version", "backup", "backupPrune"} => c.op # "move"
  /\ c.pc = "read" => c.op \in {"patch", "restore", "name", "move"}

CallsOK == \A r \in Req : CallOK(req[r], backend)

(* While requests come one by one, at most one handler is busy ...          *)
Alone ==
  "calls" \notin overlaps =>
    \A p, q \in Req : Label(p) # "idle" /\ Label(q) # "idle" => p = q

(* ... and locally what it has read is still there.                         *)
Fresh ==
  backend = "local" /\ "calls" \notin overlaps =>
    \A r \in Req : Label(r) \in Holding =>
      record.present /\ record.rev = req[r].file.rev

Inv == Shapes /\ CallsOK /\ Alone /\ Fresh

-----------------------------------------------------------------------------
(* Only r's entry changes, to c.                                            *)
LEMMA Continued ==
  ASSUME NEW r \in Req, NEW c \in CallShape, req \in [Req -> CallShape],
         Continue(r, c)
  PROVE  /\ req' \in [Req -> CallShape]
         /\ req'[r] = c
         /\ \A q \in Req : q # r => req'[q] = req[q]
  BY DEF Continue

(* The idle call is well formed.                                            *)
LEMMA NoCallOK ==
  /\ NoCall \in CallShape /\ NoCall.pc = "idle"
  /\ \A b : CallOK(NoCall, b)
  BY DEF NoCall, CallShape, Created, Shape, Labels, Ops, Field, CallOK, Holding

(* A step of r that leaves r with call c keeps CallsOK if c is well formed. *)
LEMMA CallsKept ==
  ASSUME NEW r \in Req, NEW c \in CallShape, req \in [Req -> CallShape],
         Continue(r, c), CallsOK, backend' = backend, CallOK(c, backend)
  PROVE  CallsOK'
  BY Continued DEF CallsOK

(* A step of r with no change of the record keeps Fresh, if c holds what    *)
(* the record is.                                                           *)
LEMMA FreshKept ==
  ASSUME NEW r \in Req, NEW c \in CallShape, req \in [Req -> CallShape],
         Continue(r, c), Fresh, backend' = backend,
         overlaps \subseteq overlaps', record' = record,
         c.pc \in Holding /\ backend = "local" /\ "calls" \notin overlaps =>
           record.present /\ record.rev = c.file.rev
  PROVE  Fresh'
  BY Continued DEF Fresh, Label

-----------------------------------------------------------------------------
(* A call comes in, well formed, and its handler has read nothing yet.      *)
Started(r) ==
  \E c \in CallShape :
    /\ Start(r, c) /\ CallOK(c, backend)
    /\ c.pc \in {"existing", "read", "remove"}
    /\ c.pc = "existing" => c.op = "save"

(* Every kind of request starts well formed.                                *)
LEMMA CallStarts ==
  ASSUME Inv, NEW r \in Req, Call(r)
  PROVE  Started(r)
<1> DEFINE new == [NoCall EXCEPT !.content = calls + 1]
<1>1. new \in CallShape /\ new.pc = "idle"
  BY NoCallOK DEF Inv, Shapes, CallShape
<1>2. ASSUME NEW c \in CallShape, Start(r, c),
             c.pc \in {"existing", "read", "remove"},
             c.op = "move" => c.pc = "read", c.pc = "existing" => c.op = "save",
             c.pc = "read" => c.op \in {"patch", "restore", "name", "move"}
      PROVE  Started(r)
  BY <1>2 DEF Started, CallOK, Holding
<1>3. CASE \E rev \in 0..record.rev :
             Start(r, [new EXCEPT !.op = "save", !.pc = "existing",
                                  !.base = rev])
  <2>1. PICK rev \in 0..record.rev :
          Start(r, [new EXCEPT !.op = "save", !.pc = "existing", !.base = rev])
    BY <1>3
  <2> DEFINE c == [new EXCEPT !.op = "save", !.pc = "existing", !.base = rev]
  <2>2. rev \in Nat
    BY DEF Inv, Shapes, Shape
  <2>3. c \in CallShape /\ c.pc = "existing" /\ c.op = "save"
    BY <1>1, <2>2 DEF CallShape, Labels, Ops
  <2> HIDE DEF new, c
  <2> QED BY <2>1, <2>3, <1>2 DEF c
<1>4. CASE Start(r, [new EXCEPT !.op = "patch", !.pc = "read"])
  <2> DEFINE c == [new EXCEPT !.op = "patch", !.pc = "read"]
  <2>1. c \in CallShape /\ c.pc = "read" /\ c.op = "patch"
    BY <1>1 DEF CallShape, Labels, Ops
  <2> QED BY <1>4, <2>1, <1>2
<1>5. CASE \E v \in versions :
             Start(r, [new EXCEPT !.op = "restore", !.pc = "read", !.pick = v.at])
  <2>1. PICK v \in versions :
          Start(r, [new EXCEPT !.op = "restore", !.pc = "read", !.pick = v.at])
    BY <1>5
  <2> DEFINE c == [new EXCEPT !.op = "restore", !.pc = "read", !.pick = v.at]
  <2>2. v.at \in Nat
    BY DEF Inv, Shapes
  <2>3. c \in CallShape /\ c.pc = "read" /\ c.op = "restore"
    BY <1>1, <2>2 DEF CallShape, Labels, Ops
  <2> HIDE DEF new, c
  <2> QED BY <2>1, <2>3, <1>2 DEF c
<1>6. CASE Start(r, [new EXCEPT !.op = "name", !.pc = "read"])
  <2> DEFINE c == [new EXCEPT !.op = "name", !.pc = "read"]
  <2>1. c \in CallShape /\ c.pc = "read" /\ c.op = "name"
    BY <1>1 DEF CallShape, Labels, Ops
  <2> QED BY <1>6, <2>1, <1>2
<1>7. CASE \E f \in Field :
             Start(r, [new EXCEPT !.op = "move", !.pc = "read", !.field = f])
  <2>1. PICK f \in Field :
          Start(r, [new EXCEPT !.op = "move", !.pc = "read", !.field = f])
    BY <1>7
  <2> DEFINE c == [new EXCEPT !.op = "move", !.pc = "read", !.field = f]
  <2>2. c \in CallShape /\ c.pc = "read" /\ c.op = "move"
    BY <1>1 DEF CallShape, Labels, Ops
  <2> HIDE DEF new, c
  <2> QED BY <2>1, <2>2, <1>2 DEF c
<1>8. CASE Start(r, [new EXCEPT !.op = "delete", !.pc = "remove"])
  <2> DEFINE c == [new EXCEPT !.op = "delete", !.pc = "remove"]
  <2>1. c \in CallShape /\ c.pc = "remove" /\ c.op = "delete"
    BY <1>1 DEF CallShape, Labels, Ops
  <2> QED BY <1>8, <2>1, <1>2
<1> QED BY <1>3, <1>4, <1>5, <1>6, <1>7, <1>8 DEF Call

(* A request that joins a busy handler is an overlap; one that does not is  *)
(* alone.                                                                   *)
LEMMA CallKeeps ==
  ASSUME Inv, NEW r \in Req, Call(r)
  PROVE  Inv'
<1>1. ASSUME NEW c \in CallShape, Start(r, c), CallOK(c, backend),
             c.pc \notin Holding
      PROVE  Inv'
  <2>1. Continue(r, c) /\ UNCHANGED <<backend, record, versions, clock>>
        /\ overlaps' = overlaps \union Overlap(c) /\ calls' = calls + 1
        /\ Label(r) = "idle"
    BY <1>1 DEF Start, storage
  <2>2. overlaps' \subseteq {"calls", "moves"} /\ overlaps \subseteq overlaps'
    BY <2>1 DEF Overlap, Inv, Shapes
  <2>3. Shapes'
    BY <2>1, <2>2, <1>1, Continued DEF Inv, Shapes
  <2>4. CallsOK'
    BY <2>1, <1>1, CallsKept DEF Inv, Shapes
  <2>5. Alone'
    <3>1. SUFFICES ASSUME "calls" \notin overlaps', NEW p \in Req, NEW q \in Req,
                          Label(p)' # "idle", Label(q)' # "idle"
                   PROVE  p = q
      BY DEF Alone
    <3>2. \A s \in Req : Label(s) = "idle"
      BY <3>1, <2>1 DEF Overlap
    <3>3. \A s \in Req : s # r => req'[s] = req[s]
      BY <2>1, <1>1, Continued DEF Inv, Shapes
    <3> QED BY <3>1, <3>2, <3>3 DEF Label
  <2>6. Fresh'
    BY <2>1, <2>2, <1>1, FreshKept DEF Inv, Shapes
  <2> QED BY <2>3, <2>4, <2>5, <2>6 DEF Inv
<1> QED BY <1>1, CallStarts DEF Started, Holding

-----------------------------------------------------------------------------
(* A step of a busy handler that leaves it with call c keeps the invariant  *)
(* if c is well formed and holds the record as it now is: while requests    *)
(* come one by one no other handler is busy.                                *)
LEMMA StepKeeps ==
  ASSUME Inv, NEW r \in Req, NEW c \in CallShape, Continue(r, c),
         Label(r) # "idle", CallOK(c, backend), record' \in Shape,
         c.pc \in Holding /\ backend = "local" /\ "calls" \notin overlaps =>
           record'.present /\ record'.rev = c.file.rev,
         UNCHANGED <<backend, calls, overlaps>>,
         versions' \subseteq [at : Nat, content : Nat], clock' \in Nat
  PROVE  Inv'
<1>1. Shapes'
  BY Continued DEF Inv, Shapes
<1>2. CallsOK'
  BY CallsKept DEF Inv, Shapes
<1>3. Alone'
  BY Continued DEF Inv, Shapes, Alone, Label
<1>4. Fresh'
  <2> SUFFICES ASSUME backend = "local", "calls" \notin overlaps,
                      NEW q \in Req, req'[q].pc \in Holding
               PROVE  record'.present /\ record'.rev = req'[q].file.rev
    BY DEF Fresh, Label
  <2>1. CASE q = r
    BY <2>1, Continued DEF Inv, Shapes
  <2>2. CASE q # r
    BY <2>2, Continued DEF Inv, Shapes, Alone, Label, Holding
  <2> QED BY <2>1, <2>2
<1> QED BY <1>1, <1>2, <1>3, <1>4 DEF Inv

(* The end of a handler, whatever it did to the record.                     *)
LEMMA ReturnKeeps ==
  ASSUME Inv, NEW r \in Req, Return(r), Label(r) # "idle", record' \in Shape,
         UNCHANGED <<backend, calls, overlaps>>,
         versions' \subseteq [at : Nat, content : Nat], clock' \in Nat
  PROVE  Inv'
  BY NoCallOK, StepKeeps DEF Return, Holding

(* What is known of r and of what it has read.                              *)
LEMMA Shaped ==
  ASSUME Inv, NEW r \in Req
  PROVE  /\ req[r] \in CallShape /\ req[r].file \in Shape
         /\ record \in Shape /\ CallOK(req[r], backend)
         /\ clock \in Nat /\ clock + 1 \in Nat
         /\ versions \subseteq [at : Nat, content : Nat]
         /\ backend \in {"local", "postgres"}
         /\ Label(r) \in Holding /\ backend = "local"
              /\ "calls" \notin overlaps =>
                record.present /\ record.rev = req[r].file.rev
  BY DEF Inv, Shapes, CallShape, CallsOK, Fresh

(* A copy of r's call that differs in pc only.                              *)
LEMMA Relabelled ==
  ASSUME Inv, NEW r \in Req, NEW label \in Labels
  PROVE  LET c == [req[r] EXCEPT !.pc = label]
         IN  /\ c \in CallShape /\ c.pc = label /\ c.file = req[r].file
             /\ c.op = req[r].op /\ c.base = req[r].base
  BY Shaped DEF CallShape

(* Going on to the next label, without a change of the record.              *)
LEMMA GotoKeeps ==
  ASSUME Inv, NEW r \in Req, NEW label \in Labels, Goto(r, label),
         Label(r) # "idle", UNCHANGED <<backend, record, calls, overlaps>>,
         CallOK([req[r] EXCEPT !.pc = label], backend),
         label \in Holding => Label(r) \in Holding,
         versions' \subseteq [at : Nat, content : Nat], clock' \in Nat
  PROVE  Inv'
<1> DEFINE c == [req[r] EXCEPT !.pc = label]
<1>1. c \in CallShape /\ c.pc = label /\ c.file = req[r].file
  BY Relabelled
<1>2. Continue(r, c)
  BY DEF Goto
<1> HIDE DEF c
<1>3. record' \in Shape
  BY Shaped
<1>4. c.pc \in Holding /\ backend = "local" /\ "calls" \notin overlaps =>
        record'.present /\ record'.rev = c.file.rev
  BY <1>1, Shaped
<1>5. CallOK(c, backend)
  BY DEF c
<1> QED BY <1>1, <1>2, <1>3, <1>4, <1>5, StepKeeps

-----------------------------------------------------------------------------
(* Read: what it holds from then on is what is there.                       *)
LEMMA ReadKeeps ==
  ASSUME Inv, NEW r \in Req, Read(r)
  PROVE  Inv'
<1>1. /\ Label(r) = "read" /\ Label(r) # "idle"
      /\ UNCHANGED <<backend, record, versions, clock, calls, overlaps>>
  BY DEF Read, storage, history
<1>2. CASE ~Readable
  BY <1>1, <1>2, Shaped, ReturnKeeps DEF Read
<1>3. CASE Readable
  <2> DEFINE label == CASE req[r].op = "patch" -> "existing"
                        [] req[r].op = "restore" -> "version"
                        [] req[r].op = "name" -> "backup"
                        [] req[r].op = "move" ->
                             IF backend = "local" THEN "existing" ELSE "update"
             c == [req[r] EXCEPT !.file = record, !.base = record.rev, !.pc = label]
  <2>1. Continue(r, c)
    BY <1>3 DEF Read
  <2>2. req[r].op \in {"patch", "restore", "name", "move"}
    BY <1>1, Shaped DEF CallOK, Label
  <2>3. /\ label \in {"existing", "version", "backup", "update"}
        /\ label = "existing" /\ req[r].op = "move" => backend = "local"
        /\ label \in {"version", "backup"} => req[r].op # "move"
        /\ label = "update" => req[r].op = "move" /\ backend = "postgres"
    BY <2>2, Shaped
  <2> HIDE DEF label
  <2>4. /\ c \in CallShape /\ c.pc = label /\ c.op = req[r].op
        /\ c.file = record
    BY <2>3, Shaped DEF CallShape, Labels, Shape
  <2> HIDE DEF c
  <2>5. CallOK(c, backend)
    BY <2>3, <2>4 DEF CallOK, Holding
  <2>6. c.pc \in Holding => backend = "postgres"
    BY <2>3, <2>4 DEF Holding
  <2> QED BY <1>1, <2>1, <2>4, <2>5, <2>6, Shaped, StepKeeps
<1> QED BY <1>2, <1>3

(* GetVersion: only the content to be written changes.                      *)
LEMMA GetVersionKeeps ==
  ASSUME Inv, NEW r \in Req, GetVersion(r)
  PROVE  Inv'
<1>1. /\ Label(r) = "version" /\ Label(r) # "idle"
      /\ UNCHANGED <<backend, record, versions, clock, calls, overlaps>>
  BY DEF GetVersion, storage, history
<1>2. CASE Return(r)
  BY <1>1, <1>2, Shaped, ReturnKeeps
<1>3. ASSUME NEW v \in versions,
             Continue(r, [req[r] EXCEPT !.content = v.content, !.pc = "backup"])
      PROVE  Inv'
  <2> DEFINE c == [req[r] EXCEPT !.content = v.content, !.pc = "backup"]
  <2>1. v.content \in Nat
    BY Shaped
  <2>2. c \in CallShape /\ c.pc = "backup" /\ c.op = req[r].op
    BY <2>1, Shaped DEF CallShape, Labels
  <2>3. Continue(r, c)
    BY <1>3
  <2> HIDE DEF c
  <2>4. CallOK(c, backend) /\ c.pc \notin Holding
    BY <1>1, <2>2, Shaped DEF CallOK, Holding, Label
  <2> QED BY <1>1, <2>2, <2>3, <2>4, Shaped, StepKeeps
<1> QED BY <1>2, <1>3 DEF GetVersion

(* A version that is stored, or not, leaves a history of versions.          *)
LEMMA CreateVersionShape ==
  ASSUME NEW at \in Nat, NEW content \in Nat,
         versions \subseteq [at : Nat, content : Nat], CreateVersion(at, content)
  PROVE  versions' \subseteq [at : Nat, content : Nat]
  BY DEF CreateVersion

(* Backup: the record is not touched.                                       *)
LEMMA BackupKeeps ==
  ASSUME Inv, NEW r \in Req, Backup(r)
  PROVE  Inv'
<1>1. /\ Label(r) = "backup" /\ Label(r) # "idle"
      /\ Goto(r, "backupPrune")
      /\ UNCHANGED <<backend, record, calls, overlaps>>
      /\ clock' = clock + 1 /\ CreateVersion(clock + 1, req[r].file.content)
  BY DEF Backup, history
<1>2. versions' \subseteq [at : Nat, content : Nat] /\ clock' \in Nat
  BY <1>1, Shaped, CreateVersionShape DEF Shape
<1>3. CallOK([req[r] EXCEPT !.pc = "backupPrune"], backend)
  BY <1>1, Shaped, Relabelled DEF CallOK, Holding, Label, Labels
<1> QED BY <1>1, <1>2, <1>3, GotoKeeps DEF Labels, Holding

(* ReadExisting: the handler holds the record it has compared its base      *)
(* with.                                                                    *)
LEMMA ReadExistingKeeps ==
  ASSUME Inv, NEW r \in Req, ReadExisting(r)
  PROVE  Inv'
<1>1. /\ Label(r) = "existing" /\ Label(r) # "idle"
      /\ UNCHANGED <<backend, record, versions, clock, calls, overlaps>>
  BY DEF ReadExisting, storage, history
<1>2. CASE Return(r)
  BY <1>1, <1>2, Shaped, ReturnKeeps
<1>3. ASSUME Readable, req[r].op = "move" \/ req[r].base \in {0, record.rev},
             Continue(r, [req[r] EXCEPT !.file = record,
               !.pc = IF req[r].op = "move" THEN "truncate" ELSE "snapshot"])
      PROVE  Inv'
  <2> DEFINE label == IF req[r].op = "move" THEN "truncate" ELSE "snapshot"
             c == [req[r] EXCEPT !.file = record, !.pc = label]
  <2>1. label \in {"truncate", "snapshot"} /\ (label = "truncate" <=> req[r].op = "move")
    OBVIOUS
  <2>2. Continue(r, c)
    BY <1>3
  <2> HIDE DEF label
  <2>3. /\ c \in CallShape /\ c.pc = label /\ c.op = req[r].op
        /\ c.file = record /\ c.base = req[r].base
    BY <2>1, Shaped DEF CallShape, Labels
  <2> HIDE DEF c
  <2>4. label = "truncate" => backend = "local"
    BY <1>1, <2>1, Shaped DEF CallOK, Label
  <2>5. CallOK(c, backend)
    BY <1>3, <2>1, <2>3, <2>4 DEF CallOK, Holding
  <2>6. record.present /\ record.rev = c.file.rev
    BY <1>3, <2>3 DEF Readable
  <2> QED BY <1>1, <2>2, <2>3, <2>5, <2>6, Shaped, StepKeeps
<1> QED BY <1>2, <1>3 DEF ReadExisting

(* Snapshot: the record is not touched.                                     *)
LEMMA SnapshotKeeps ==
  ASSUME Inv, NEW r \in Req, Snapshot(r)
  PROVE  Inv'
<1> DEFINE at == IF backend = "local" THEN clock + 1 ELSE req[r].file.stamp
<1>1. /\ Label(r) = "snapshot" /\ Label(r) # "idle"
      /\ Goto(r, "prune")
      /\ UNCHANGED <<backend, record, calls, overlaps>>
      /\ clock' \in {clock, clock + 1} /\ CreateVersion(at, req[r].file.content)
  BY DEF Snapshot, history
<1>2. at \in Nat /\ req[r].file.content \in Nat
  BY Shaped DEF Shape
<1> HIDE DEF at
<1>3. versions' \subseteq [at : Nat, content : Nat] /\ clock' \in Nat
  BY <1>1, <1>2, Shaped, CreateVersionShape
<1>4. CallOK([req[r] EXCEPT !.pc = "prune"], backend)
  BY <1>1, Shaped, Relabelled DEF CallOK, Holding, Label, Labels
<1> QED BY <1>1, <1>3, <1>4, GotoKeeps DEF Labels, Holding

(* VersionFails: the handler goes on holding what it held.                  *)
LEMMA VersionFailsKeeps ==
  ASSUME Inv, NEW r \in Req, VersionFails(r)
  PROVE  Inv'
<1>1. /\ Label(r) \in {"backup", "snapshot"} /\ Label(r) # "idle"
      /\ UNCHANGED <<backend, record, versions, clock, calls, overlaps>>
  BY DEF VersionFails, storage
<1>2. CASE Return(r)
  BY <1>1, <1>2, Shaped, ReturnKeeps
<1>3. ASSUME Goto(r, IF Label(r) = "backup" THEN "backupPrune" ELSE "prune")
      PROVE  Inv'
  <2>1. CASE Label(r) = "backup"
    <3>1. CallOK([req[r] EXCEPT !.pc = "backupPrune"], backend)
      BY <2>1, Shaped, Relabelled DEF CallOK, Holding, Label, Labels
    <3> QED BY <1>1, <1>3, <2>1, <3>1, Shaped, GotoKeeps DEF Labels, Holding
  <2>2. CASE Label(r) = "snapshot"
    <3>1. CallOK([req[r] EXCEPT !.pc = "prune"], backend)
      BY <2>2, Shaped, Relabelled DEF CallOK, Holding, Label, Labels
    <3> QED BY <1>1, <1>3, <2>2, <3>1, Shaped, GotoKeeps DEF Labels, Holding
  <2> QED BY <1>1, <2>1, <2>2
<1> QED BY <1>2, <1>3 DEF VersionFails

(* Prune: the same, and the storage decides how the record is written.      *)
LEMMA PruneKeeps ==
  ASSUME Inv, NEW r \in Req, Prune(r)
  PROVE  Inv'
<1>1. /\ Label(r) \in {"backupPrune", "prune"} /\ Label(r) # "idle"
      /\ UNCHANGED <<backend, record, clock, calls, overlaps>>
      /\ versions' \subseteq versions
  BY DEF Prune, history
<1>2. versions' \subseteq [at : Nat, content : Nat] /\ clock' \in Nat
  BY <1>1, Shaped
<1>3. CASE Return(r)
  BY <1>1, <1>2, <1>3, Shaped, ReturnKeeps
<1>4. CASE Label(r) = "backupPrune" /\ Goto(r, "existing")
  <2>1. CallOK([req[r] EXCEPT !.pc = "existing"], backend)
    BY <1>4, Shaped, Relabelled DEF CallOK, Holding, Label, Labels
  <2> QED BY <1>1, <1>2, <1>4, <2>1, GotoKeeps DEF Labels, Holding
<1>5. CASE Label(r) = "prune" /\ backend = "local" /\ Goto(r, "truncate")
  <2>1. CallOK([req[r] EXCEPT !.pc = "truncate"], backend)
    BY <1>5, Shaped, Relabelled DEF CallOK, Holding, Label, Labels
  <2> QED BY <1>1, <1>2, <1>5, <2>1, GotoKeeps DEF Labels, Holding
<1>6. CASE Label(r) = "prune" /\ backend # "local" /\ Goto(r, "update")
  <2>1. CallOK([req[r] EXCEPT !.pc = "update"], backend)
    BY <1>6, Shaped, Relabelled DEF CallOK, Holding, Label, Labels
  <2> QED BY <1>1, <1>2, <1>6, <2>1, GotoKeeps DEF Labels, Holding
<1> QED BY <1>1, <1>3, <1>4, <1>5, <1>6 DEF Prune

-----------------------------------------------------------------------------
(* UpdateRow: the handler has ended, nothing relies on the old row.         *)
LEMMA UpdateRowKeeps ==
  ASSUME Inv, NEW r \in Req, UpdateRow(r)
  PROVE  Inv'
<1>1. /\ Label(r) = "update" /\ Label(r) # "idle" /\ Return(r)
      /\ UNCHANGED <<backend, versions, calls, overlaps>>
      /\ clock' \in {clock, clock + 1}
  BY DEF UpdateRow
<1>2. \/ UNCHANGED record
      \/ record' = [record EXCEPT !.rev = @ + 1, !.content = req[r].content,
                                  !.stamp = clock + 1]
  BY DEF UpdateRow
<1>3. req[r].content \in Nat /\ record.rev + 1 \in Nat
  BY Shaped DEF CallShape, Shape
<1>4. record' \in Shape
  BY <1>2, <1>3, Shaped DEF Shape
<1> QED BY <1>1, <1>4, Shaped, ReturnKeeps

(* What a move writes has the shape of an organization.                     *)
LEMMA MovedShape ==
  ASSUME Inv, NEW r \in Req
  PROVE  Moved(r) \in [Field -> Nat]
  BY Shaped DEF Moved, CallShape, Shape

(* MoveRow: likewise.                                                       *)
LEMMA MoveRowKeeps ==
  ASSUME Inv, NEW r \in Req, MoveRow(r)
  PROVE  Inv'
<1>1. /\ Label(r) = "update" /\ Label(r) # "idle" /\ Return(r)
      /\ UNCHANGED <<backend, versions, calls, overlaps>>
      /\ clock' \in {clock, clock + 1}
  BY DEF MoveRow
<1>2. \/ UNCHANGED record
      \/ record' = [record EXCEPT !.meta = Moved(r), !.stamp = clock + 1]
  BY DEF MoveRow
<1>3. record' \in Shape
  BY <1>2, Shaped, MovedShape DEF Shape
<1> QED BY <1>1, <1>3, Shaped, ReturnKeeps

(* Truncate: the file stays, and keeps its rev for the one that fills it.   *)
LEMMA TruncateKeeps ==
  ASSUME Inv, NEW r \in Req, Truncate(r)
  PROVE  Inv'
<1> DEFINE c == [req[r] EXCEPT !.pc = "fill"]
<1>1. /\ Label(r) = "truncate" /\ Label(r) # "idle" /\ Continue(r, c)
      /\ UNCHANGED <<backend, versions, clock, calls, overlaps>>
  BY DEF Truncate, history, Goto
<1>2. record' \in Shape /\ record'.present /\ record'.rev = record.rev
  BY Shaped DEF Truncate, Shape
<1>3. /\ c \in CallShape /\ c.pc = "fill" /\ c.file = req[r].file
      /\ c.op = req[r].op /\ c.base = req[r].base
  BY Relabelled DEF Labels
<1> HIDE DEF c
<1>4. CallOK(c, backend)
  BY <1>1, <1>3, Shaped DEF CallOK, Holding, Label
<1>5. backend = "local" /\ "calls" \notin overlaps => record'.rev = c.file.rev
  BY <1>1, <1>2, <1>3, Shaped DEF Holding
<1> QED BY <1>1, <1>2, <1>3, <1>4, <1>5, Shaped, StepKeeps

(* What a handler writes has the shape of a record; its rev is the one it   *)
(* read, for a move, or the next.                                           *)
LEMMA WrittenShape ==
  ASSUME Inv, NEW r \in Req
  PROVE  /\ Written(r) \in Shape
         /\ Written(r).rev = IF req[r].op = "move" THEN req[r].file.rev
                             ELSE req[r].file.rev + 1
         /\ Written(r).present = req[r].file.present
<1> DEFINE file == req[r].file
<1>1. file \in Shape /\ req[r].content \in Nat /\ file.rev + 1 \in Nat
  BY Shaped DEF CallShape, Shape
<1> HIDE DEF file
<1>2. Written(r) = IF req[r].op = "move" THEN [file EXCEPT !.meta = Moved(r)]
                   ELSE [file EXCEPT !.rev = file.rev + 1, !.content = req[r].content]
  BY DEF Written, file
<1>3. Written(r) \in Shape
  BY <1>1, <1>2, MovedShape DEF Shape
<1>4. /\ Written(r).rev = IF req[r].op = "move" THEN file.rev ELSE file.rev + 1
      /\ Written(r).present = file.present
  BY <1>1, <1>2 DEF Shape
<1> QED BY <1>3, <1>4 DEF file

(* Fill: the handler has ended; alone, no other held the old record.        *)
LEMMA FillKeeps ==
  ASSUME Inv, NEW r \in Req, Fill(r)
  PROVE  Inv'
<1>1. /\ Label(r) = "fill" /\ Label(r) # "idle" /\ Return(r)
      /\ UNCHANGED <<backend, versions, clock, calls, overlaps>>
  BY DEF Fill
<1>2. record' \in Shape
  BY Shaped, WrittenShape DEF Fill, Shape
<1> QED BY <1>1, <1>2, Shaped, ReturnKeeps

(* Remove: likewise.                                                        *)
LEMMA RemoveKeeps ==
  ASSUME Inv, NEW r \in Req, Remove(r)
  PROVE  Inv'
<1>1. /\ Label(r) = "remove" /\ Label(r) # "idle" /\ Return(r)
      /\ UNCHANGED <<backend, clock, calls, overlaps>>
      /\ versions' \subseteq versions
  BY DEF Remove, history
<1>2. record' \in Shape
  BY Shaped DEF Remove, Shape
<1> QED BY <1>1, <1>2, Shaped, ReturnKeeps

(* Fails: a handler that ends where it is leaves the record as it was.      *)
LEMMA FailsKeeps ==
  ASSUME Inv, NEW r \in Req, Fails(r)
  PROVE  Inv'
  BY Shaped, ReturnKeeps DEF Fails, storage, history

-----------------------------------------------------------------------------
(* At first every handler is idle.                                          *)
LEMMA InitInv ==
  ASSUME Init
  PROVE  Inv
<1>1. Created \in Shape
  BY DEF Created, Shape, Field
<1>2. Shapes
  BY <1>1, NoCallOK, FileStoreAssumption DEF Init, Shapes
<1>3. \A r \in Req : req[r] = NoCall
  BY DEF Init
<1>4. CallsOK
  BY <1>3, NoCallOK DEF CallsOK
<1>5. Alone /\ Fresh
  BY <1>3, NoCallOK DEF Alone, Fresh, Label, Holding
<1> QED BY <1>2, <1>4, <1>5 DEF Inv

(* Nothing changes.                                                         *)
LEMMA StutterKeeps ==
  ASSUME Inv, UNCHANGED vars
  PROVE  Inv'
  BY DEF vars, storage, history, Inv, Shapes, CallsOK, Alone, Fresh, Label

(* Every step keeps the invariant.                                          *)
LEMMA NextInv ==
  ASSUME Inv, [Next]_vars
  PROVE  Inv'
<1>1. ASSUME NEW r \in Req,
             Call(r) \/ Read(r) \/ GetVersion(r) \/ Backup(r) \/ ReadExisting(r)
      PROVE  Inv'
  BY <1>1, CallKeeps, ReadKeeps, GetVersionKeeps, BackupKeeps, ReadExistingKeeps
<1>2. ASSUME NEW r \in Req,
             Snapshot(r) \/ VersionFails(r) \/ Prune(r) \/ UpdateRow(r) \/ MoveRow(r)
      PROVE  Inv'
  BY <1>2, SnapshotKeeps, VersionFailsKeeps, PruneKeeps, UpdateRowKeeps, MoveRowKeeps
<1>3. ASSUME NEW r \in Req,
             Truncate(r) \/ Fill(r) \/ Remove(r) \/ Fails(r)
      PROVE  Inv'
  BY <1>3, TruncateKeeps, FillKeeps, RemoveKeeps, FailsKeeps
<1>4. CASE UNCHANGED vars
  BY <1>4, StutterKeeps
<1> QED BY <1>1, <1>2, <1>3, <1>4 DEF Next

(* On either storage, whatever the requests and the crashes: handlers write *)
(* only over a base they compared, and, one by one, over what they read.    *)
THEOREM Invariance == Spec => []Inv
  BY InitInv, NextInv, PTL DEF Spec

-----------------------------------------------------------------------------
(* The steps that change the record.                                        *)
Writes(r) == UpdateRow(r) \/ MoveRow(r) \/ Truncate(r) \/ Fill(r) \/ Remove(r)

(* No other step changes the record.                                        *)
LEMMA OthersRead ==
  ASSUME NEW r \in Req,
         \/ Call(r) \/ Read(r) \/ GetVersion(r) \/ Backup(r) \/ ReadExisting(r)
         \/ Snapshot(r) \/ VersionFails(r) \/ Prune(r) \/ Fails(r)
  PROVE  record' = record
  BY DEF Call, Start, Read, GetVersion, Backup, ReadExisting, Snapshot,
         VersionFails, Prune, Fails, storage

(* A step that changes the record is one of these.                          *)
LEMMA Stepped ==
  ASSUME [Next]_vars
  PROVE  record' = record \/ \E r \in Req : Writes(r)
  BY OthersRead DEF Next, Writes, vars, storage

(* A writer changes its own entry only.                                     *)
LEMMA WritesAlone ==
  ASSUME Inv, NEW s \in Req, Writes(s), NEW r \in Req, req'[r] # req[r]
  PROVE  r = s
<1>1. \E c : Continue(s, c)
  BY DEF Writes, UpdateRow, MoveRow, Truncate, Fill, Remove, Return, Goto
<1> QED BY <1>1 DEF Continue, Inv, Shapes

(* A write that goes through replaces what its handler compared.            *)
LEMMA SwapStep ==
  ASSUME Inv, [Next]_vars
  PROVE  Swaps
<1> SUFFICES ASSUME NEW r \in Req, Serial', Label(r) \in {"update", "fill"},
                    req'[r] # req[r], record' # record, record'.torn = "no"
             PROVE  IF req[r].op = "move" THEN record'.rev = record.rev
                    ELSE /\ record'.rev = record.rev + 1
                         /\ req[r].base \in {0, record.rev}
  BY DEF Swaps
<1>1. Writes(r)
  BY Stepped, WritesAlone
<1>2. req[r].op # "move" => req[r].base \in {0, req[r].file.rev}
  BY Shaped DEF CallOK, Holding, Label
<1>3. CASE UpdateRow(r)
  BY <1>2, <1>3, Shaped DEF UpdateRow, Shape, Saves
<1>4. CASE MoveRow(r)
  BY <1>4, Shaped DEF MoveRow, Shape
<1>5. CASE Fill(r)
  <2>1. backend = "local" /\ backend' = backend /\ overlaps' = overlaps
    BY <1>5, Shaped DEF Fill, CallOK, Label
  <2>2. record.rev = req[r].file.rev
    BY <1>5, <2>1, Shaped DEF Fill, Holding, Serial
  <2>3. record' = Written(r)
    BY <1>5, Shaped, WrittenShape DEF Fill, Shape
  <2> QED BY <1>2, <2>2, <2>3, WrittenShape
<1>6. CASE Truncate(r) \/ Remove(r)
  BY <1>6 DEF Truncate, Remove
<1> QED BY <1>1, <1>3, <1>4, <1>5, <1>6 DEF Writes

(* No write creates the record: a row must exist, a file was read before.   *)
LEMMA DeletedStep ==
  ASSUME Inv, [Next]_vars
  PROVE  StaysDeleted
<1> SUFFICES ASSUME Serial', ~record.present
             PROVE  ~record'.present
  BY DEF StaysDeleted
<1>1. ASSUME NEW r \in Req, Writes(r)
      PROVE  ~record'.present
  <2>1. CASE UpdateRow(r) \/ MoveRow(r)
    BY <2>1 DEF UpdateRow, MoveRow
  <2>2. CASE Fill(r)
    BY <2>2 DEF Fill, Readable
  <2>3. CASE Remove(r)
    BY <2>3, Shaped DEF Remove, Shape
  <2>4. CASE Truncate(r)
    <3>1. backend = "local" /\ backend' = backend /\ overlaps' = overlaps
      BY <2>4, Shaped DEF Truncate, CallOK, Label, history
    <3> QED BY <2>4, <3>1, Shaped DEF Truncate, Holding, Serial
  <2> QED BY <1>1, <2>1, <2>2, <2>3, <2>4 DEF Writes
<1> QED BY <1>1, Stepped

(* UpdateFile's compare-and-swap, on either storage (locally, while         *)
(* requests come one by one): a save replaces exactly the rev it was based  *)
(* on, or forces, and a move keeps the rev.                                 *)
THEOREM Swapping == Spec => SwapsOnlyItsBase
<1>1. Inv /\ [Next]_vars => [Swaps]_vars
  BY SwapStep
<1> QED BY <1>1, Invariance, PTL DEF Spec, SwapsOnlyItsBase

(* A permanently deleted document does not come back by a save, a move or a *)
(* restore that was under way.                                              *)
THEOREM Deletion == Spec => DeletedStaysDeleted
<1>1. Inv /\ [Next]_vars => [StaysDeleted]_vars
  BY DeletedStep
<1> QED BY <1>1, Invariance, PTL DEF Spec, DeletedStaysDeleted

-----------------------------------------------------------------------------
(* For the organization: at most one move is in progress while none have    *)
(* overlapped, and what a move (locally, any writer) has read of it is what *)
(* was last asked for.                                                      *)
MovesAlone ==
  "moves" \notin overlaps =>
    \A p, q \in Req : req[p].op = "move" /\ req[q].op = "move" => p = q

Organized ==
  Serial /\ "moves" \notin overlaps =>
    /\ Readable => record.meta = moved
    /\ \A r \in Req :
         Label(r) \in Holding /\ (backend = "local" \/ req[r].op = "move") =>
           req[r].file.meta = moved

OrgInv == MovesAlone /\ Organized

(* A step that leaves r with call c, of the same operation or ended.        *)
LEMMA OrgStepKeeps ==
  ASSUME Inv, OrgInv, NEW r \in Req, NEW c \in CallShape, Continue(r, c),
         Label(r) # "idle", c.op \in {req[r].op, "none"},
         UNCHANGED <<backend, overlaps>>,
         moved' # moved => req[r].op = "move",
         Serial /\ "moves" \notin overlaps =>
           /\ Readable' => record'.meta = moved'
           /\ c.pc \in Holding /\ (backend = "local" \/ c.op = "move") =>
                c.file.meta = moved'
  PROVE  OrgInv'
<1>1. /\ req'[r] = c
      /\ \A q \in Req : q # r => req'[q] = req[q]
  BY Continued DEF Inv, Shapes
<1>2. MovesAlone'
  BY <1>1 DEF OrgInv, MovesAlone
<1>3. Organized'
  <2> SUFFICES ASSUME Serial', "moves" \notin overlaps'
               PROVE  /\ Readable' => record'.meta = moved'
                      /\ \A q \in Req :
                           req'[q].pc \in Holding
                             /\ (backend' = "local" \/ req'[q].op = "move") =>
                               req'[q].file.meta = moved'
    BY DEF Organized, Label
  <2>1. Serial /\ "moves" \notin overlaps
    BY DEF Serial
  <2>2. ASSUME NEW q \in Req, req'[q].pc \in Holding,
               backend' = "local" \/ req'[q].op = "move"
        PROVE  req'[q].file.meta = moved'
    <3>1. CASE q = r
      BY <1>1, <2>1, <2>2, <3>1
    <3>2. CASE q # r
      <4>1. req'[q] = req[q]
        BY <1>1, <3>2
      <4>2. backend # "local"
        BY <2>1, <2>2, <3>2, <4>1 DEF Inv, Alone, Serial, Label, Holding
      <4>3. req[q].op = "move" /\ req[q].file.meta = moved
        BY <2>1, <2>2, <4>1, <4>2 DEF OrgInv, Organized, Label
      <4>4. moved' = moved
        BY <2>1, <3>2, <4>3 DEF OrgInv, MovesAlone
      <4> QED BY <4>1, <4>3, <4>4
    <3> QED BY <3>1, <3>2
  <2> QED BY <2>1, <2>2
<1> QED BY <1>2, <1>3 DEF OrgInv

(* The steps of a busy handler that do not write leave it with what it had  *)
(* read, or with what is there to be read.                                  *)
Quiet(r, c) ==
  /\ c \in CallShape /\ Continue(r, c) /\ c.op \in {req[r].op, "none"}
  /\ c.pc \in Holding => \/ Label(r) \in Holding /\ c.file = req[r].file
                         \/ Readable /\ c.file = record
  /\ Label(r) # "idle" /\ UNCHANGED <<backend, record, moved, overlaps>>

(* The end of a handler is such a step,                                     *)
LEMMA QuietReturn ==
  ASSUME Inv, NEW r \in Req, Return(r), Label(r) # "idle",
         UNCHANGED <<backend, record, moved, overlaps>>
  PROVE  \E c : Quiet(r, c)
<1>1. Quiet(r, NoCall)
  BY NoCallOK DEF Quiet, Return, Holding, NoCall
<1> QED BY <1>1

(* and so is going on to the next label,                                    *)
LEMMA QuietGoto ==
  ASSUME Inv, NEW r \in Req, NEW label \in Labels, Goto(r, label),
         Label(r) # "idle", label \in Holding => Label(r) \in Holding,
         UNCHANGED <<backend, record, moved, overlaps>>
  PROVE  \E c : Quiet(r, c)
<1> DEFINE c == [req[r] EXCEPT !.pc = label]
<1>1. c \in CallShape /\ c.pc = label /\ c.file = req[r].file /\ c.op = req[r].op
  BY Relabelled
<1>2. Continue(r, c)
  BY DEF Goto
<1> HIDE DEF c
<1>3. Quiet(r, c)
  BY <1>1, <1>2 DEF Quiet
<1> QED BY <1>3

(* a read,                                                                  *)
LEMMA QuietRead ==
  ASSUME Inv, NEW r \in Req, Read(r) \/ GetVersion(r) \/ ReadExisting(r)
  PROVE  \E c : Quiet(r, c)
<1>1. /\ Label(r) \in {"read", "version", "existing"} /\ Label(r) # "idle"
      /\ UNCHANGED <<backend, record, moved, overlaps>>
  BY DEF Read, GetVersion, ReadExisting, storage, history
<1>2. CASE Return(r)
  BY <1>1, <1>2, QuietReturn
<1>3. CASE Read(r) /\ Readable
  <2> DEFINE label == CASE req[r].op = "patch" -> "existing"
                        [] req[r].op = "restore" -> "version"
                        [] req[r].op = "name" -> "backup"
                        [] req[r].op = "move" ->
                             IF backend = "local" THEN "existing" ELSE "update"
             c == [req[r] EXCEPT !.file = record, !.base = record.rev, !.pc = label]
  <2>1. Continue(r, c) /\ Label(r) = "read"
    BY <1>3 DEF Read
  <2>2. req[r].op \in {"patch", "restore", "name", "move"}
    BY <2>1, Shaped DEF CallOK, Label
  <2>3. label \in {"existing", "version", "backup", "update"}
    BY <2>2
  <2> HIDE DEF label
  <2>4. c \in CallShape /\ c.op = req[r].op /\ c.file = record
    BY <2>3, Shaped DEF CallShape, Labels, Shape
  <2> HIDE DEF c
  <2>5. Quiet(r, c)
    BY <1>1, <1>3, <2>1, <2>4 DEF Quiet
  <2> QED BY <2>5
<1>4. ASSUME NEW v \in versions,
             Continue(r, [req[r] EXCEPT !.content = v.content, !.pc = "backup"])
      PROVE  \E c : Quiet(r, c)
  <2> DEFINE c == [req[r] EXCEPT !.content = v.content, !.pc = "backup"]
  <2>1. v.content \in Nat
    BY Shaped
  <2>2. c \in CallShape /\ c.pc = "backup" /\ c.op = req[r].op
    BY <2>1, Shaped DEF CallShape, Labels
  <2>3. Continue(r, c)
    BY <1>4
  <2> HIDE DEF c
  <2>4. Quiet(r, c)
    BY <1>1, <2>2, <2>3 DEF Quiet, Holding
  <2> QED BY <2>4
<1>5. ASSUME Readable,
             Continue(r, [req[r] EXCEPT !.file = record,
               !.pc = IF req[r].op = "move" THEN "truncate" ELSE "snapshot"])
      PROVE  \E c : Quiet(r, c)
  <2> DEFINE label == IF req[r].op = "move" THEN "truncate" ELSE "snapshot"
             c == [req[r] EXCEPT !.file = record, !.pc = label]
  <2>1. label \in {"truncate", "snapshot"}
    OBVIOUS
  <2>2. Continue(r, c)
    BY <1>5
  <2> HIDE DEF label
  <2>3. c \in CallShape /\ c.op = req[r].op /\ c.file = record
    BY <2>1, Shaped DEF CallShape, Labels
  <2> HIDE DEF c
  <2>4. Quiet(r, c)
    BY <1>1, <1>5, <2>2, <2>3 DEF Quiet
  <2> QED BY <2>4
<1>6. CASE Read(r)
  BY <1>2, <1>3, <1>6 DEF Read
<1>7. CASE GetVersion(r)
  BY <1>2, <1>4, <1>7 DEF GetVersion
<1>8. CASE ReadExisting(r)
  BY <1>2, <1>5, <1>8 DEF ReadExisting
<1> QED BY <1>6, <1>7, <1>8

(* and a step on the version history.                                       *)
LEMMA QuietVersion ==
  ASSUME Inv, NEW r \in Req,
         Backup(r) \/ Snapshot(r) \/ VersionFails(r) \/ Prune(r) \/ Fails(r)
  PROVE  \E c : Quiet(r, c)
<1>1. Label(r) # "idle" /\ UNCHANGED <<backend, record, moved, overlaps>>
  BY DEF Backup, Snapshot, VersionFails, Prune, Fails, storage, history
<1>2. CASE Return(r)
  BY <1>1, <1>2, QuietReturn
<1>3. CASE Goto(r, "backupPrune") \/ Goto(r, "existing")
  BY <1>1, <1>3, QuietGoto DEF Labels, Holding
<1>4. CASE /\ Label(r) \in {"snapshot", "prune"}
           /\ Goto(r, "prune") \/ Goto(r, "truncate") \/ Goto(r, "update")
  BY <1>1, <1>4, QuietGoto DEF Labels, Holding
<1>5. CASE Backup(r)
  BY <1>3, <1>5 DEF Backup
<1>6. CASE Snapshot(r)
  BY <1>4, <1>6 DEF Snapshot
<1>7. CASE VersionFails(r)
  BY <1>2, <1>3, <1>4, <1>7 DEF VersionFails
<1>8. CASE Prune(r)
  BY <1>2, <1>3, <1>4, <1>8 DEF Prune
<1>9. CASE Fails(r)
  BY <1>2, <1>9 DEF Fails
<1> QED BY <1>5, <1>6, <1>7, <1>8, <1>9

(* They keep what is known of the organization.                             *)
LEMMA QuietKeeps ==
  ASSUME Inv, OrgInv, NEW r \in Req, NEW c, Quiet(r, c)
  PROVE  OrgInv'
<1>1. Readable' = Readable
  BY DEF Quiet, Readable
<1>2. Serial /\ "moves" \notin overlaps =>
        /\ Readable' => record'.meta = moved'
        /\ c.pc \in Holding /\ (backend = "local" \/ c.op = "move") =>
             c.file.meta = moved'
  BY <1>1 DEF Quiet, OrgInv, Organized
<1> QED BY <1>2, OrgStepKeeps DEF Quiet

(* The end of a handler that leaves the record organized as was asked for.  *)
LEMMA OrgReturnKeeps ==
  ASSUME Inv, OrgInv, NEW r \in Req, Return(r), Label(r) # "idle",
         UNCHANGED <<backend, overlaps>>,
         moved' # moved => req[r].op = "move",
         Serial /\ "moves" \notin overlaps /\ Readable' => record'.meta = moved'
  PROVE  OrgInv'
  BY NoCallOK, OrgStepKeeps DEF Return, Holding, NoCall

(* What a move has read of the organization gives, with its own field, what *)
(* is asked for now.                                                        *)
LEMMA MovedIsAsked ==
  ASSUME NEW r \in Req, req[r].file.meta = moved,
         moved' = [moved EXCEPT ![req[r].field] = req[r].content]
  PROVE  Moved(r) = moved'
  BY DEF Moved

(* A save writes back the organization, a move what is asked for.           *)
LEMMA WritersKeep ==
  ASSUME Inv, OrgInv, NEW r \in Req, Writes(r)
  PROVE  OrgInv'
<1>1. CASE UpdateRow(r)
  <2>1. /\ Label(r) # "idle" /\ Return(r) /\ UNCHANGED <<backend, moved, overlaps>>
    BY <1>1 DEF UpdateRow
  <2>2. record'.meta = record.meta /\ (Readable' => Readable)
    BY <1>1, Shaped DEF UpdateRow, Readable, Shape
  <2> QED BY <2>1, <2>2, OrgReturnKeeps DEF OrgInv, Organized
<1>2. CASE MoveRow(r)
  <2>1. /\ Label(r) = "update" /\ Label(r) # "idle" /\ Return(r)
        /\ UNCHANGED <<backend, overlaps>> /\ req[r].op = "move"
    BY <1>2 DEF MoveRow
  <2>2. ASSUME Serial, "moves" \notin overlaps, Readable'
        PROVE  record'.meta = moved'
    <3>1. req[r].file.meta = moved
      BY <2>1, <2>2 DEF OrgInv, Organized, Holding
    <3>2. CASE record.present
      <4>1. record'.meta = Moved(r)
        BY <1>2, <3>2, Shaped DEF MoveRow, Shape
      <4> QED BY <1>2, <3>1, <3>2, <4>1, MovedIsAsked DEF MoveRow
    <3>3. CASE ~record.present
      BY <1>2, <2>2, <3>3 DEF MoveRow, Readable
    <3> QED BY <3>2, <3>3
  <2> QED BY <2>1, <2>2, OrgReturnKeeps
<1>3. CASE Truncate(r)
  <2> DEFINE c == [req[r] EXCEPT !.pc = "fill"]
  <2>1. /\ Label(r) = "truncate" /\ Label(r) # "idle" /\ Continue(r, c)
        /\ UNCHANGED <<backend, moved, overlaps>>
    BY <1>3 DEF Truncate, history, Goto
  <2>2. ~Readable'
    BY <1>3, Shaped DEF Truncate, Readable, Shape
  <2>3. /\ c \in CallShape /\ c.op = req[r].op /\ c.file = req[r].file
    BY Relabelled DEF Labels
  <2> HIDE DEF c
  <2>4. Serial /\ "moves" \notin overlaps
          /\ (backend = "local" \/ req[r].op = "move") =>
            req[r].file.meta = moved
    BY <2>1 DEF OrgInv, Organized, Holding
  <2> QED BY <2>1, <2>2, <2>3, <2>4, OrgStepKeeps
<1>4. CASE Fill(r)
  <2>1. /\ Label(r) = "fill" /\ Label(r) # "idle" /\ Return(r)
        /\ UNCHANGED <<backend, overlaps>> /\ backend = "local"
    BY <1>4, Shaped DEF Fill, CallOK, Label
  <2>2. moved' # moved => req[r].op = "move"
    BY <1>4 DEF Fill
  <2>3. ASSUME Serial, "moves" \notin overlaps, Readable'
        PROVE  record'.meta = moved'
    <3>1. req[r].file.meta = moved
      BY <2>1, <2>3 DEF OrgInv, Organized, Holding
    <3>2. record' = Written(r)
      BY <1>4, <2>3, Shaped, WrittenShape DEF Fill, Readable, Shape
    <3>3. CASE req[r].op = "move"
      <4>1. record'.meta = Moved(r)
        BY <3>2, <3>3, Shaped DEF Written, Shape
      <4> QED BY <1>4, <3>1, <3>3, <4>1, MovedIsAsked DEF Fill
    <3>4. CASE req[r].op # "move"
      <4>1. record'.meta = req[r].file.meta
        BY <3>2, <3>4, Shaped DEF Written, Shape
      <4> QED BY <1>4, <3>1, <3>4, <4>1 DEF Fill
    <3> QED BY <3>3, <3>4
  <2> QED BY <2>1, <2>2, <2>3, OrgReturnKeeps
<1>5. CASE Remove(r)
  <2>1. /\ Label(r) # "idle" /\ Return(r) /\ UNCHANGED <<backend, moved, overlaps>>
    BY <1>5 DEF Remove, history
  <2>2. ~Readable'
    BY <1>5, Shaped DEF Remove, Readable, Shape
  <2> QED BY <2>1, <2>2, OrgReturnKeeps
<1> QED BY <1>1, <1>2, <1>3, <1>4, <1>5 DEF Writes

(* A new request reads later; a second move under way would be an overlap.  *)
LEMMA StartKeepsOrg ==
  ASSUME Inv, OrgInv, NEW r \in Req, NEW c, Start(r, c), c.pc \notin Holding
  PROVE  OrgInv'
<1>1. /\ Continue(r, c) /\ UNCHANGED <<backend, record, moved>>
      /\ overlaps' = overlaps \union Overlap(c)
  BY DEF Start, storage
<1>2. req'[r] = c /\ \A q \in Req : q # r => req'[q] = req[q]
  BY <1>1 DEF Continue, Inv, Shapes
<1>3. MovesAlone'
  <2> SUFFICES ASSUME "moves" \notin overlaps', NEW p \in Req, NEW q \in Req,
                      req'[p].op = "move", req'[q].op = "move", p # q
               PROVE  FALSE
    BY DEF MovesAlone
  <2>1. "moves" \notin overlaps /\ "moves" \notin Overlap(c)
    BY <1>1
  <2>2. CASE p # r /\ q # r
    BY <1>2, <2>1, <2>2 DEF OrgInv, MovesAlone
  <2>3. CASE p = r \/ q = r
    <3>1. c.op = "move" /\ \E s \in Req : req[s].op = "move"
      BY <1>2, <2>3
    <3> QED BY <2>1, <3>1 DEF Overlap
  <2> QED BY <2>2, <2>3
<1>4. Organized'
  BY <1>1, <1>2 DEF OrgInv, Organized, Serial, Readable, Label
<1> QED BY <1>3, <1>4 DEF OrgInv

(* So every request keeps what is known.                                    *)
LEMMA CallKeepsOrg ==
  ASSUME Inv, OrgInv, NEW r \in Req, Call(r)
  PROVE  OrgInv'
  BY CallStarts, StartKeepsOrg DEF Started, Holding

(* The document is created where it is.                                     *)
LEMMA OrgInit ==
  ASSUME Init
  PROVE  OrgInv
<1>1. \A r \in Req : Label(r) = "idle" /\ req[r].op = "none"
  BY DEF Init, NoCall, Label
<1>2. record.meta = moved
  BY DEF Init
<1> QED BY <1>1, <1>2 DEF OrgInv, MovesAlone, Organized, Holding

(* Every step keeps what is known of the organization.                      *)
LEMMA OrgNext ==
  ASSUME Inv, OrgInv, [Next]_vars
  PROVE  OrgInv'
<1>1. ASSUME NEW r \in Req, \E c : Quiet(r, c)
      PROVE  OrgInv'
  BY <1>1, QuietKeeps
<1>2. CASE UNCHANGED vars
  BY <1>2 DEF vars, storage, history, OrgInv, MovesAlone, Organized, Serial,
              Readable, Label
<1>3. ASSUME NEW r \in Req, Read(r) \/ GetVersion(r) \/ ReadExisting(r)
      PROVE  OrgInv'
  BY <1>1, <1>3, QuietRead
<1>4. ASSUME NEW r \in Req,
             Backup(r) \/ Snapshot(r) \/ VersionFails(r) \/ Prune(r) \/ Fails(r)
      PROVE  OrgInv'
  BY <1>1, <1>4, QuietVersion
<1> QED BY <1>2, <1>3, <1>4, CallKeepsOrg, WritersKeep DEF Next, Writes

(* Folder and star survive every save, restore and patch: while no two      *)
(* moves overlap, a readable document is where it was last asked to be.     *)
THEOREM Organization == Spec => []OrganizationKept
<1>1. OrgInv => OrganizationKept
  BY DEF OrgInv, Organized, OrganizationKept
<1> QED BY <1>1, Invariance, OrgInit, OrgNext, PTL DEF Spec

-----------------------------------------------------------------------------
(* For the saves.  What a handler has read and may write is a whole         *)
(* document; only a move does without a snapshot.                           *)
Kind(c) ==
  /\ c.pc \in Holding \union {"existing"} => c.op \in Saves \union {"move"}
  /\ c.pc \in {"snapshot", "prune"} => c.op # "move"
  /\ c.pc = "version" => c.op = "restore"
  /\ c.pc \in {"backup", "backupPrune"} => c.op \in {"restore", "name"}
  /\ c.pc \in Holding => c.file.present /\ c.file.torn = "no"

(* What there is under a date: the versions and, in Postgres, the row and   *)
(* the copies of it that handlers hold.  The clock has passed every date,   *)
(* and one date is of one content: CreateVersion need not look further.     *)
AsVersion(file) == [at |-> file.stamp, content |-> file.content]
Held == {AsVersion(req[r].file) : r \in {q \in Req : Label(q) \in Holding}}
Dates ==
  versions \union
    (IF backend = "postgres" THEN {AsVersion(record)} \union Held ELSE {})
Dated ==
  /\ \A d \in Dates : d.at <= clock
  /\ \A d, e \in Dates : d.at = e.at => d = e

(* In Postgres the row that a handler has read is at its rev or behind; at  *)
(* its rev the content is the one it read.                                  *)
Behind(c) ==
  backend = "postgres" /\ c.pc \in Holding =>
    /\ c.file.rev <= record.rev
    /\ c.file.rev = record.rev => c.file.content = record.content

(* Locally, while requests come one by one, the file is what the handler    *)
(* has read, until it truncates it.                                         *)
InHand(c) ==
  backend = "local" /\ "calls" \notin overlaps /\ c.pc \in Holding =>
    /\ record.content = c.file.content
    /\ record.torn = IF c.pc # "fill" THEN "no"
                     ELSE IF c.op = "move" THEN "move" ELSE "save"

(* While no version can have been pruned: what a handler supersedes is      *)
(* stored before it goes on, and locally nothing else is at stake.          *)
Counted ==
  /\ Serial /\ record.present /\ ~unsnapped
  /\ Cardinality(versions) < Cap
Contents == {v.content : v \in versions}
Safe(c) ==
  Counted /\ c.pc \in Holding =>
    /\ backend = "local" => saved \subseteq Contents \union {c.file.content}
    /\ c.pc # "snapshot" /\ c.op # "move" => c.file.content \in Contents
Kept ==
  /\ backend = "postgres" => record.torn = "no"
  /\ Counted /\ record.torn # "move" =>
       saved \subseteq Contents \union
                       (IF record.torn = "no" THEN {record.content} ELSE {})

Knows(c) == Kind(c) /\ Behind(c) /\ InHand(c) /\ Safe(c)
SaveInv ==
  /\ IsFiniteSet(versions) /\ Dated /\ Kept
  /\ \A r \in Req : Knows(req[r])
-----------------------------------------------------------------------------
(* A finite set of finite sets that has members has a smallest one.         *)
LEMMA SmallestSet ==
  ASSUME NEW S, IsFiniteSet(S), NEW T, T \subseteq SUBSET S, T # {}
  PROVE  \E A \in T : \A B \in T : B \subseteq A => B = A
<1>1. IsWellFoundedOn(StrictSubsetOrdering(S), SUBSET S)
  BY FS_StrictSubsetOrderingWellFounded, FS_FiniteSubsetsOfFinite
<1>2. PICK A \in T : \A B \in T : ~ (<<B, A>> \in StrictSubsetOrdering(S))
  BY <1>1, WFMin
<1>3. \A B \in T : B \subseteq A => B = A
  BY <1>2 DEF StrictSubsetOrdering
<1> QED BY <1>3

(* PruneVersions leaves Cap versions at least, or all.                      *)
Newer(v) == {w \in versions : w.at > v.at}
LEMMA PruneKeepsCap ==
  ASSUME IsFiniteSet(versions), versions \subseteq [at : Nat, content : Nat],
         Cap \in Nat, NEW r, Prune(r), Cardinality(versions') < Cap
  PROVE  versions' = versions
<1>1. versions' = {v \in versions : Cardinality(Newer(v)) < Cap}
  BY DEF Prune, Newer
<1>2. SUFFICES ASSUME versions' # versions PROVE FALSE
  OBVIOUS
<1> DEFINE gone == versions \ versions'
           sets == {Newer(v) : v \in gone}
<1>3. PICK A \in sets : \A B \in sets : B \subseteq A => B = A
  <2>1. sets # {}
    BY <1>1, <1>2
  <2>2. sets \subseteq SUBSET versions
    BY DEF Newer
  <2> HIDE DEF sets
  <2> QED BY <2>1, <2>2, SmallestSet
<1>4. PICK v \in gone : A = Newer(v)
  BY <1>3
<1>5. Newer(v) \subseteq versions'
  <2> SUFFICES ASSUME NEW w \in Newer(v), w \notin versions' PROVE FALSE
    OBVIOUS
  <2>1. w \in gone /\ w.at > v.at
    BY DEF Newer
  <2>2. Newer(w) \subseteq Newer(v)
    BY <2>1 DEF Newer
  <2>3. w \in Newer(v) /\ w \notin Newer(w)
    BY <2>1 DEF Newer
  <2> QED BY <1>3, <1>4, <2>1, <2>2, <2>3
<1>6. IsFiniteSet(versions') /\ Cardinality(versions') \in Nat
  BY <1>1, FS_Subset, FS_CardinalityType
<1>7. Cardinality(Newer(v)) <= Cardinality(versions') /\ Cardinality(Newer(v)) \in Nat
  BY <1>5, <1>6, FS_Subset, FS_CardinalityType
<1>8. ~ (Cardinality(Newer(v)) < Cap)
  BY <1>1, <1>4
<1> QED BY <1>6, <1>7, <1>8

-----------------------------------------------------------------------------
(* Counted only ends, and keeps what is stored while it lasts.              *)
Grows == Counted' => Counted /\ versions \subseteq versions'

(* Each step moves the row on, if it changes what the row holds.            *)
Onward ==
  backend = "postgres" =>
    \/ record'.rev = record.rev /\ record'.content = record.content
    \/ record'.rev > record.rev

(* A step that leaves r with call c: what the others know is not disturbed. *)
LEMMA SaveStepKeeps ==
  ASSUME Inv, SaveInv, NEW r \in Req, NEW c \in CallShape, Continue(r, c),
         Label(r) # "idle", UNCHANGED <<backend, overlaps>>,
         record' \in Shape,
         IsFiniteSet(versions'), Dated', Kept', Grows, Onward, Knows(c)'
  PROVE  SaveInv'
<1>1. req'[r] = c /\ \A q \in Req : q # r => req'[q] = req[q]
  BY Continued DEF Inv, Shapes
<1>2. ASSUME NEW q \in Req PROVE Knows(req[q])'
  <2>1. CASE q = r
    BY <1>1, <2>1
  <2>2. CASE q # r
    <3> PICK d : d = req[q]
      OBVIOUS
    <3>1. req'[q] = d /\ Knows(d) /\ d \in CallShape
      BY <1>1, <2>2 DEF SaveInv, Inv, Shapes
    <3>2. Kind(d)'
      BY <3>1 DEF Knows, Kind
    <3>3. Behind(d)'
      BY <3>1, Shaped DEF Knows, Behind, Onward, CallShape, Shape
    <3>4. backend = "local" /\ "calls" \notin overlaps => d.pc = "idle"
      BY <2>2 DEF Inv, Alone, Label
    <3>5. InHand(d)'
      BY <3>4 DEF InHand, Holding
    <3>6. Safe(d)'
      BY <3>1, <3>4 DEF Knows, Safe, Grows, Counted, Serial, Holding, Contents,
                        Inv, Shapes
    <3> QED BY <3>1, <3>2, <3>3, <3>5, <3>6 DEF Knows
  <2> QED BY <2>1, <2>2
<1> QED BY <1>2 DEF SaveInv

(* The idle call knows nothing.                                             *)
LEMMA IdleKnows == Knows(NoCall)'
  BY NoCallOK DEF Knows, Kind, Behind, InHand, Safe, Holding, NoCall

(* A step of r, left with call c, that dates no more than D has.            *)
LEMMA DatesIn ==
  ASSUME Inv, NEW r \in Req, NEW c \in CallShape, Continue(r, c),
         backend' = backend, NEW D, Dates \subseteq D, versions' \subseteq D,
         backend = "postgres" =>
           AsVersion(record)' \in D /\ (c.pc \in Holding => AsVersion(c.file) \in D)
  PROVE  Dates' \subseteq D
<1>1. req'[r] = c /\ \A q \in Req : q # r => req'[q] = req[q]
  BY Continued DEF Inv, Shapes
<1> SUFFICES ASSUME NEW d \in Dates', d \notin versions' PROVE d \in D
  OBVIOUS
<1>2. backend = "postgres"
  BY DEF Dates
<1>3. CASE d \in Held'
  <2>1. PICK q \in Req : Label(q)' \in Holding /\ d = AsVersion(req'[q].file)
    BY <1>3 DEF Held, AsVersion
  <2>2. CASE q = r
    BY <1>1, <1>2, <2>1, <2>2 DEF Label
  <2>3. CASE q # r
    BY <1>1, <1>2, <2>1, <2>3 DEF Label, Held, Dates
  <2> QED BY <2>2, <2>3
<1>4. CASE d \notin Held'
  <2>1. d = AsVersion(record)'
    BY <1>2, <1>4 DEF Dates
  <2> QED BY <1>2, <2>1
<1> QED BY <1>3, <1>4

(* Dates are numbers.                                                       *)
LEMMA DatesAreNumbers ==
  ASSUME Inv
  PROVE  clock \in Nat /\ \A d \in Dates : d.at \in Nat
<1>1. clock \in Nat /\ \A d \in versions : d.at \in Nat
  BY DEF Inv, Shapes
<1>2. AsVersion(record).at \in Nat
  BY DEF Inv, Shapes, Shape, AsVersion
<1>3. \A d \in Held : d.at \in Nat
  BY Shaped DEF Held, AsVersion, Shape
<1> QED BY <1>1, <1>2, <1>3 DEF Dates

(* Nothing is dated anew,                                                   *)
LEMMA DatesKept ==
  ASSUME Inv, Dated, NEW r \in Req, NEW c \in CallShape, Continue(r, c),
         backend' = backend, clock' \in {clock, clock + 1},
         versions' \subseteq Dates,
         backend = "postgres" =>
           /\ AsVersion(record)' \in Dates
           /\ c.pc \in Holding => AsVersion(c.file) \in Dates
  PROVE  Dated'
<1> PICK D : D = Dates
  OBVIOUS
<1>1. Dates' \subseteq D
  BY DatesIn
<1> QED BY <1>1, DatesAreNumbers DEF Dated

(* or something is dated now.                                               *)
LEMMA DatesGrow ==
  ASSUME Inv, Dated, NEW r \in Req, NEW c \in CallShape, Continue(r, c),
         backend' = backend, clock' = clock + 1, NEW d, d.at = clock + 1,
         versions' \subseteq Dates \union {d},
         backend = "postgres" =>
           /\ AsVersion(record)' \in Dates \union {d}
           /\ c.pc \in Holding => AsVersion(c.file) \in Dates
  PROVE  Dated'
<1> PICK D : D = Dates \union {d}
  OBVIOUS
<1>1. Dates' \subseteq D
  BY DatesIn
<1>2. \A e \in Dates : e.at <= clock /\ e.at # d.at
  BY DatesAreNumbers DEF Dated
<1>3. \A e \in Dates' : e.at <= clock + 1
  BY <1>1, <1>2, DatesAreNumbers
<1>4. ASSUME NEW e \in Dates', NEW f \in Dates', e.at = f.at PROVE e = f
  BY <1>1, <1>2, <1>4 DEF Dated
<1> QED BY <1>3, <1>4 DEF Dated

(* A busy handler that writes nothing: it goes on with what it had read, or *)
(* reads what is there.                                                     *)
LEMMA ReadsKeep ==
  ASSUME Inv, SaveInv, NEW r \in Req, NEW c \in CallShape, Continue(r, c),
         Label(r) # "idle", UNCHANGED <<backend, overlaps, record, saved>>,
         IsFiniteSet(versions'), Dated', Grows, Kind(c), c.pc # "fill",
         c.pc \in Holding =>
           \/ /\ Label(r) \in Holding \ {"fill"}
              /\ c.file = req[r].file /\ c.op = req[r].op
           \/ Readable /\ c.file = record,
         Counted' /\ c.pc \in Holding /\ c.pc # "snapshot" /\ c.op # "move" =>
           c.file.content \in Contents'
  PROVE  SaveInv'
<1>1. record' \in Shape /\ Onward
  BY Shaped DEF Onward
<1>2. Kept'
  BY DEF SaveInv, Kept, Grows, Contents
<1>3. Knows(req[r]) /\ (Label(r) \in Holding => req[r].pc \in Holding)
  BY DEF SaveInv, Label
<1>4. Kind(c)'
  BY DEF Kind
<1>5. Behind(c)'
  BY <1>3, Shaped DEF Behind, Knows, Label, Shape
<1>6. InHand(c)'
  BY <1>3 DEF InHand, Knows, Label, Readable
<1>7. Safe(c)'
  <2> SUFFICES ASSUME Counted', c.pc \in Holding, backend = "local"
               PROVE  saved \subseteq Contents' \union {c.file.content}
    BY DEF Safe
  <2>1. Counted /\ Contents \subseteq Contents'
    BY DEF Grows, Contents
  <2>2. saved \subseteq Contents \union {c.file.content}
    BY <1>3, <2>1 DEF Knows, Safe, SaveInv, Kept, Label, Readable
  <2> QED BY <2>1, <2>2
<1>8. Knows(c)'
  BY <1>4, <1>5, <1>6, <1>7 DEF Knows
<1> QED BY <1>1, <1>2, <1>8, SaveStepKeeps DEF SaveInv

(* A handler that does not touch the version history either,                *)
LEMMA LooksKeep ==
  ASSUME Inv, SaveInv, NEW r \in Req, NEW c \in CallShape, Continue(r, c),
         Label(r) # "idle", UNCHANGED <<backend, overlaps, storage, saved>>,
         unsnapped' \in {unsnapped, TRUE}, Kind(c), c.pc # "fill",
         c.pc \in Holding =>
           \/ /\ Label(r) \in Holding \ {"fill"}
              /\ c.file = req[r].file /\ c.op = req[r].op
           \/ Readable /\ c.file = record,
         Counted' /\ c.pc \in Holding /\ c.pc # "snapshot" /\ c.op # "move" =>
           c.file.content \in Contents
  PROVE  SaveInv'
<1>1. UNCHANGED <<record, versions, clock>>
  BY DEF storage
<1>2. IsFiniteSet(versions') /\ Grows /\ Contents' = Contents
  <2>1. ~unsnapped' => ~unsnapped
    OBVIOUS
  <2>2. IsFiniteSet(versions') /\ Contents' = Contents
    BY <1>1 DEF SaveInv, Contents
  <2>3. Cardinality(versions') = Cardinality(versions) /\ Serial' = Serial
        /\ record'.present = record.present
    BY <1>1 DEF Serial
  <2>4. Grows
    BY <1>1, <2>1, <2>3 DEF Grows, Counted
  <2> QED BY <2>2, <2>4
<1>3. Dated'
  <2>1. versions' \subseteq Dates
    BY <1>1 DEF Dates
  <2>2. backend = "postgres" => AsVersion(record)' \in Dates
    BY <1>1 DEF Dates, AsVersion
  <2>3. backend = "postgres" /\ c.pc \in Holding => AsVersion(c.file) \in Dates
    BY DEF Dates, Held
  <2> QED BY <1>1, <2>1, <2>2, <2>3, DatesKept DEF SaveInv
<1> QED BY <1>1, <1>2, <1>3, ReadsKeep

(* its end among them.                                                      *)
LEMMA EndsKeep ==
  ASSUME Inv, SaveInv, NEW r \in Req, Return(r), Label(r) # "idle",
         UNCHANGED <<backend, overlaps, storage, saved>>,
         unsnapped' \in {unsnapped, TRUE}
  PROVE  SaveInv'
<1>1. Continue(r, NoCall) /\ NoCall \in CallShape /\ NoCall.pc = "idle"
  BY NoCallOK DEF Return
<1>2. Kind(NoCall)
  BY <1>1 DEF Kind, Holding
<1> QED BY <1>1, <1>2, LooksKeep DEF Holding

LEMMA ReadSaves ==
  ASSUME Inv, SaveInv, NEW r \in Req, Read(r)
  PROVE  SaveInv'
<1>1. /\ Label(r) = "read" /\ Label(r) # "idle"
      /\ UNCHANGED <<backend, overlaps, storage, saved, unsnapped>>
  BY DEF Read, history
<1>2. CASE ~Readable
  BY <1>1, <1>2, EndsKeep DEF Read
<1>3. CASE Readable
  <2> DEFINE label == CASE req[r].op = "patch" -> "existing"
                        [] req[r].op = "restore" -> "version"
                        [] req[r].op = "name" -> "backup"
                        [] req[r].op = "move" ->
                             IF backend = "local" THEN "existing" ELSE "update"
  <2> PICK c : c = [req[r] EXCEPT !.file = record, !.base = record.rev,
                                  !.pc = label]
    OBVIOUS
  <2>1. Continue(r, c)
    BY <1>3 DEF Read
  <2>2. req[r].op \in {"patch", "restore", "name", "move"}
    BY <1>1, Shaped DEF CallOK, Label
  <2>3. /\ label \in {"existing", "version", "backup", "update"}
        /\ label = "existing" => req[r].op \in {"patch", "move"}
        /\ label = "version" => req[r].op = "restore"
        /\ label = "backup" => req[r].op = "name"
        /\ label = "update" => req[r].op = "move"
    BY <2>2
  <2> HIDE DEF label
  <2>4. /\ c \in CallShape /\ c.pc = label /\ c.op = req[r].op
        /\ c.file = record
    BY <2>3, Shaped DEF CallShape, Labels, Shape
  <2>5. Kind(c)
    BY <1>3, <2>3, <2>4 DEF Kind, Holding, Saves, Readable
  <2>6. c.pc \in Holding => c.op = "move"
    BY <2>3, <2>4 DEF Holding
  <2>7. c.pc # "fill" /\ unsnapped' \in {unsnapped, TRUE}
    BY <1>1, <2>3, <2>4
  <2> QED BY <1>1, <1>3, <2>1, <2>4, <2>5, <2>6, <2>7, LooksKeep
<1> QED BY <1>2, <1>3

LEMMA GetVersionSaves ==
  ASSUME Inv, SaveInv, NEW r \in Req, GetVersion(r)
  PROVE  SaveInv'
<1>1. /\ Label(r) = "version" /\ Label(r) # "idle"
      /\ UNCHANGED <<backend, overlaps, storage, saved, unsnapped>>
  BY DEF GetVersion, history
<1>2. CASE Return(r)
  BY <1>1, <1>2, EndsKeep
<1>3. ASSUME NEW v \in versions,
             Continue(r, [req[r] EXCEPT !.content = v.content, !.pc = "backup"])
      PROVE  SaveInv'
  <2> PICK c : c = [req[r] EXCEPT !.content = v.content, !.pc = "backup"]
    OBVIOUS
  <2>1. v.content \in Nat
    BY Shaped
  <2>2. c \in CallShape /\ c.pc = "backup" /\ c.op = req[r].op
    BY <2>1, Shaped DEF CallShape, Labels
  <2>3. c.op = "restore"
    BY <1>1, <2>2 DEF SaveInv, Knows, Kind, Label
  <2>4. Kind(c) /\ c.pc # "fill" /\ c.pc \notin Holding
    BY <2>2, <2>3 DEF Kind, Holding
  <2>5. Continue(r, c) /\ unsnapped' \in {unsnapped, TRUE}
    BY <1>1, <1>3
  <2> QED BY <1>1, <2>2, <2>4, <2>5, LooksKeep
<1> QED BY <1>2, <1>3 DEF GetVersion

LEMMA ReadExistingSaves ==
  ASSUME Inv, SaveInv, NEW r \in Req, ReadExisting(r)
  PROVE  SaveInv'
<1>1. /\ Label(r) = "existing" /\ Label(r) # "idle"
      /\ UNCHANGED <<backend, overlaps, storage, saved, unsnapped>>
  BY DEF ReadExisting, history
<1>2. CASE Return(r)
  BY <1>1, <1>2, EndsKeep
<1>3. ASSUME Readable,
             Continue(r, [req[r] EXCEPT !.file = record,
               !.pc = IF req[r].op = "move" THEN "truncate" ELSE "snapshot"])
      PROVE  SaveInv'
  <2> DEFINE label == IF req[r].op = "move" THEN "truncate" ELSE "snapshot"
  <2> PICK c : c = [req[r] EXCEPT !.file = record, !.pc = label]
    OBVIOUS
  <2>1. /\ label \in {"truncate", "snapshot"}
        /\ label = "truncate" <=> req[r].op = "move"
    OBVIOUS
  <2>2. Continue(r, c) /\ unsnapped' \in {unsnapped, TRUE}
    BY <1>1, <1>3
  <2> HIDE DEF label
  <2>3. /\ c \in CallShape /\ c.pc = label /\ c.op = req[r].op
        /\ c.file = record
    BY <2>1, Shaped DEF CallShape, Labels
  <2>4. c.op \in Saves \union {"move"}
    BY <1>1, <2>3 DEF SaveInv, Knows, Kind, Label
  <2>5. Kind(c)
    BY <1>3, <2>1, <2>3, <2>4 DEF Kind, Readable, Holding
  <2>6. c.pc # "fill" /\ (c.pc = "snapshot" \/ c.op = "move")
    BY <2>1, <2>3
  <2> QED BY <1>1, <1>3, <2>2, <2>3, <2>5, <2>6, LooksKeep
<1> QED BY <1>2, <1>3 DEF ReadExisting

LEMMA FailureSaves ==
  ASSUME Inv, SaveInv, NEW r \in Req, VersionFails(r) \/ Fails(r)
  PROVE  SaveInv'
<1>1. /\ Label(r) # "idle"
      /\ UNCHANGED <<backend, overlaps, storage, saved>>
      /\ unsnapped' \in {unsnapped, TRUE}
  BY DEF VersionFails, Fails, history
<1>2. CASE Return(r)
  BY <1>1, <1>2, EndsKeep
<1>3. ASSUME VersionFails(r), NEW label \in {"backupPrune", "prune"},
             label = "backupPrune" <=> Label(r) = "backup", Goto(r, label)
      PROVE  SaveInv'
  <2> PICK c : c = [req[r] EXCEPT !.pc = label]
    OBVIOUS
  <2>1. Label(r) \in {"backup", "snapshot"} /\ unsnapped'
    BY <1>3 DEF VersionFails
  <2>2. /\ c \in CallShape /\ c.pc = label /\ c.file = req[r].file
        /\ c.op = req[r].op
    <3>1. label \in Labels
      BY DEF Labels
    <3> QED BY <3>1, Relabelled
  <2>3. Continue(r, c)
    BY <1>3 DEF Goto
  <2>4. Kind(req[r]) /\ req[r].pc = Label(r)
    BY DEF SaveInv, Knows, Label
  <2>5. Kind(c)
    <3>1. CASE label = "backupPrune"
      <4>1. c.op \in {"restore", "name"}
        BY <1>3, <2>2, <2>4, <3>1 DEF Kind
      <4> QED BY <2>2, <3>1, <4>1 DEF Kind, Holding
    <3>2. CASE label = "prune"
      <4>1. Label(r) = "snapshot" /\ Label(r) \in Holding
        BY <1>3, <2>1, <3>2 DEF Holding
      <4>2. /\ c.op \in Saves \union {"move"} /\ c.op # "move"
            /\ c.file.present /\ c.file.torn = "no"
        BY <2>2, <2>4, <4>1 DEF Kind
      <4> QED BY <2>2, <3>2, <4>2 DEF Kind
    <3> QED BY <1>3, <3>1, <3>2
  <2>6. c.pc # "fill" /\ ~Counted'
    BY <2>1, <2>2 DEF Counted
  <2>7. c.pc \in Holding => Label(r) \in Holding \ {"fill"}
    BY <1>3, <2>1, <2>2 DEF Holding
  <2> QED BY <1>1, <2>2, <2>3, <2>5, <2>6, <2>7, LooksKeep
<1>4. CASE VersionFails(r)
  BY <1>2, <1>3, <1>4 DEF VersionFails
<1>5. CASE Fails(r)
  BY <1>2, <1>5 DEF Fails
<1> QED BY <1>4, <1>5

(* A version is stored under its date, or one is there already.             *)
LEMMA CreateGrows ==
  ASSUME Inv, SaveInv, NEW at, NEW content, CreateVersion(at, content),
         UNCHANGED <<backend, overlaps, record, unsnapped>>
  PROVE  /\ IsFiniteSet(versions') /\ Grows
         /\ versions \subseteq versions'
         /\ versions' \subseteq versions \union {[at |-> at, content |-> content]}
         /\ \E v \in versions' : v.at = at
         /\ \/ [at |-> at, content |-> content] \in versions'
            \/ \E v \in versions : v.at = at
<1> PICK new : new = [at |-> at, content |-> content]
  OBVIOUS
<1>1. /\ versions' = versions /\ \E v \in versions : v.at = at
      \/ versions' = versions \union {new}
  BY DEF CreateVersion
<1>2. IsFiniteSet(versions') /\ versions \subseteq versions'
  BY <1>1, FS_AddElement DEF SaveInv
<1>3. /\ Cardinality(versions) <= Cardinality(versions')
      /\ Cardinality(versions) \in Nat /\ Cardinality(versions') \in Nat
  BY <1>2, FS_Subset, FS_CardinalityType
<1>4. Grows
  <2>1. Cap \in Nat /\ Serial' = Serial /\ record'.present = record.present
    BY FileStoreAssumption DEF Serial
  <2>2. Cardinality(versions') < Cap => Cardinality(versions) < Cap
    BY <1>3, <2>1
  <2> QED BY <1>2, <2>1, <2>2 DEF Grows, Counted
<1> QED BY <1>1, <1>2, <1>4

LEMMA BackupSaves ==
  ASSUME Inv, SaveInv, NEW r \in Req, Backup(r)
  PROVE  SaveInv'
<1> PICK c : c = [req[r] EXCEPT !.pc = "backupPrune"]
  OBVIOUS
<1>1. /\ Label(r) = "backup" /\ Label(r) # "idle" /\ Continue(r, c)
      /\ CreateVersion(clock + 1, req[r].file.content) /\ clock' = clock + 1
      /\ UNCHANGED <<backend, overlaps, record, saved, unsnapped>>
  BY DEF Backup, history, Goto
<1>2. c \in CallShape /\ c.pc = "backupPrune" /\ c.op = req[r].op
  BY Relabelled DEF Labels
<1>3. /\ IsFiniteSet(versions') /\ Grows
      /\ versions' \subseteq versions \union
           {[at |-> clock + 1, content |-> req[r].file.content]}
  BY <1>1, CreateGrows
<1>4. Dated'
  <2> PICK d : d = [at |-> clock + 1, content |-> req[r].file.content]
    OBVIOUS
  <2>1. d.at = clock + 1 /\ versions' \subseteq Dates \union {d}
    BY <1>3 DEF Dates
  <2>2. backend = "postgres" => AsVersion(record)' \in Dates
    BY <1>1 DEF Dates, AsVersion
  <2>3. c.pc \notin Holding /\ Dated
    BY <1>2 DEF Holding, SaveInv
  <2> QED BY <1>1, <1>2, <2>1, <2>2, <2>3, DatesGrow
<1>5. Kind(c) /\ c.pc # "fill" /\ c.pc \notin Holding
  BY <1>1, <1>2 DEF SaveInv, Knows, Kind, Label, Holding
<1> QED BY <1>1, <1>2, <1>3, <1>4, <1>5, ReadsKeep

LEMMA SnapshotSaves ==
  ASSUME Inv, SaveInv, NEW r \in Req, Snapshot(r)
  PROVE  SaveInv'
<1> PICK c : c = [req[r] EXCEPT !.pc = "prune"]
  OBVIOUS
<1> PICK at : at = IF backend = "local" THEN clock + 1 ELSE req[r].file.stamp
  OBVIOUS
<1> PICK new : new = [at |-> at, content |-> req[r].file.content]
  OBVIOUS
<1>1. /\ Label(r) = "snapshot" /\ Label(r) # "idle" /\ Continue(r, c)
      /\ CreateVersion(at, req[r].file.content)
      /\ clock' = IF backend = "local" THEN clock + 1 ELSE clock
      /\ UNCHANGED <<backend, overlaps, record, saved, unsnapped>>
  BY DEF Snapshot, history, Goto
<1>2. /\ c \in CallShape /\ c.pc = "prune" /\ c.op = req[r].op
      /\ c.file = req[r].file
  BY Relabelled DEF Labels
<1>3. /\ IsFiniteSet(versions') /\ Grows
      /\ versions' \subseteq versions \union {new}
      /\ new \in versions' \/ \E v \in versions : v.at = at
  BY <1>1, CreateGrows
<1>4. backend = "postgres" => new = AsVersion(c.file) /\ new \in Dates
  BY <1>1, <1>2 DEF AsVersion, Dates, Held, Holding
<1>5. backend = "postgres" => AsVersion(record)' \in Dates
  BY <1>1 DEF Dates, AsVersion
<1>6. versions \subseteq Dates /\ Dated /\ backend \in {"local", "postgres"}
  BY DEF Dates, SaveInv, Inv, Shapes
<1>7. Dated'
  <2>1. CASE backend = "postgres"
    BY <1>1, <1>2, <1>3, <1>4, <1>5, <1>6, <2>1, DatesKept
  <2>2. CASE backend = "local"
    <3>1. new.at = clock + 1 /\ versions' \subseteq Dates \union {new}
      BY <1>3, <1>6, <2>2
    <3> QED BY <1>1, <1>2, <1>5, <1>6, <2>2, <3>1, DatesGrow
  <2> QED BY <1>6, <2>1, <2>2
<1>8. Contents' = {v.content : v \in versions'} /\ new.content = c.file.content
  BY <1>2 DEF Contents
<1>9. c.file.content \in Contents'
  <2>1. CASE new \in versions'
    BY <1>8, <2>1
  <2>2. ASSUME NEW v \in versions, v.at = at, new \notin versions' PROVE FALSE
    <3>1. v \in Dates /\ v.at <= clock
      BY <1>6 DEF Dated
    <3>2. backend = "postgres"
      BY <1>6, <2>2, <3>1, DatesAreNumbers
    <3>3. v = new
      BY <1>4, <1>6, <2>2, <3>1, <3>2 DEF Dated
    <3>4. v \in versions'
      BY <1>1, <2>2 DEF CreateVersion
    <3> QED BY <2>2, <3>3, <3>4
  <2> QED BY <1>3, <2>1, <2>2
<1>10. Kind(req[r]) /\ req[r].pc = "snapshot"
  BY <1>1 DEF SaveInv, Knows, Label
<1>11. Kind(c) /\ c.pc # "fill" /\ Label(r) \in Holding \ {"fill"}
  BY <1>1, <1>2, <1>10 DEF Kind, Holding
<1> QED BY <1>1, <1>2, <1>3, <1>7, <1>9, <1>11, ReadsKeep

LEMMA PruneSaves ==
  ASSUME Inv, SaveInv, NEW r \in Req, Prune(r)
  PROVE  SaveInv'
<1>1. /\ Label(r) \in {"backupPrune", "prune"} /\ Label(r) # "idle"
      /\ UNCHANGED <<backend, overlaps, record, saved, unsnapped, clock>>
      /\ versions' \subseteq versions
  BY DEF Prune, history
<1>2. IsFiniteSet(versions') /\ IsFiniteSet(versions)
  BY <1>1, FS_Subset DEF SaveInv
<1>3. Counted' => Counted /\ versions' = versions
  <2> SUFFICES ASSUME Counted' PROVE versions' = versions
    BY <1>1 DEF Counted, Serial
  <2>1. Cardinality(versions') < Cap /\ Cap \in Nat
    BY FileStoreAssumption DEF Counted
  <2> QED BY <1>2, <2>1, PruneKeepsCap DEF Inv, Shapes
<1>4. Grows /\ (Counted' => Contents' = Contents)
  BY <1>3 DEF Grows, Contents
<1>5. ASSUME NEW c \in CallShape, Continue(r, c), Kind(c), c.pc # "fill",
             c.pc \in Holding => /\ Label(r) = "prune"
                                 /\ c.file = req[r].file /\ c.op = req[r].op
      PROVE  SaveInv'
  <2>1. Dated'
    <3>1. versions' \subseteq Dates
      BY <1>1 DEF Dates
    <3>2. backend = "postgres" => AsVersion(record)' \in Dates
      BY <1>1 DEF Dates, AsVersion
    <3>3. backend = "postgres" /\ c.pc \in Holding => AsVersion(c.file) \in Dates
      BY <1>5 DEF Dates, Held, Holding
    <3> QED BY <1>1, <1>5, <3>1, <3>2, <3>3, DatesKept DEF SaveInv
  <2>2. /\ Counted' /\ c.pc \in Holding /\ c.op # "move"
        => c.file.content \in Contents'
    <3>1. Safe(req[r])
      BY DEF SaveInv, Knows
    <3> QED BY <1>3, <1>4, <1>5, <3>1 DEF Safe, Label, Holding
  <2>3. c.pc \in Holding => Label(r) \in Holding \ {"fill"}
    BY <1>5 DEF Holding
  <2> QED BY <1>1, <1>2, <1>4, <1>5, <2>1, <2>2, <2>3, ReadsKeep
<1>6. CASE Return(r)
  <2>1. Continue(r, NoCall) /\ NoCall \in CallShape /\ NoCall.pc = "idle"
    BY <1>6, NoCallOK DEF Return
  <2>2. Kind(NoCall) /\ NoCall.pc \notin Holding
    BY <2>1 DEF Kind, Holding
  <2> QED BY <1>5, <2>1, <2>2
<1>7. ASSUME NEW label \in {"existing", "truncate", "update"}, Goto(r, label),
             label = "existing" => Label(r) = "backupPrune" /\ req[r].op # "name",
             label # "existing" => Label(r) = "prune"
      PROVE  SaveInv'
  <2> PICK c : c = [req[r] EXCEPT !.pc = label]
    OBVIOUS
  <2>1. /\ c \in CallShape /\ c.pc = label /\ c.op = req[r].op
        /\ c.file = req[r].file
    <3>1. label \in Labels
      BY DEF Labels
    <3> QED BY <3>1, Relabelled
  <2>2. Continue(r, c)
    BY <1>7 DEF Goto
  <2>3. Kind(req[r]) /\ req[r].pc = Label(r)
    BY DEF SaveInv, Knows, Label
  <2>4. Kind(c)
    <3>1. CASE label = "existing"
      <4>1. c.op = "restore"
        BY <1>7, <2>1, <2>3, <3>1 DEF Kind
      <4> QED BY <2>1, <3>1, <4>1 DEF Kind, Holding, Saves
    <3>2. CASE label # "existing"
      <4>1. Label(r) \in Holding
        BY <1>7, <3>2 DEF Holding
      <4>2. c.pc \in {"truncate", "update"} /\ c.pc \in Holding
        BY <2>1, <3>2 DEF Holding
      <4>3. /\ c.op \in Saves \union {"move"}
            /\ c.file.present /\ c.file.torn = "no"
        BY <2>1, <2>3, <4>1 DEF Kind
      <4> QED BY <4>2, <4>3 DEF Kind
    <3> QED BY <3>1, <3>2
  <2>5. c.pc # "fill" /\ (c.pc \in Holding => Label(r) = "prune")
    BY <1>7, <2>1 DEF Holding
  <2> QED BY <1>5, <2>1, <2>2, <2>4, <2>5
<1> QED BY <1>1, <1>6, <1>7 DEF Prune

-----------------------------------------------------------------------------
(* The end of a handler that has written.                                   *)
LEMMA WriteSaves ==
  ASSUME Inv, SaveInv, NEW r \in Req, Return(r), Label(r) # "idle",
         UNCHANGED <<backend, overlaps>>, record' \in Shape,
         IsFiniteSet(versions'), Dated', Kept', Grows, Onward
  PROVE  SaveInv'
  BY NoCallOK, IdleKnows, SaveStepKeeps DEF Return

(* What it dated, and what not.                                             *)
LEMMA WriteDates ==
  ASSUME Inv, SaveInv, NEW r \in Req, Return(r), backend' = backend,
         versions' \subseteq versions,
         \/ /\ clock' = clock
            /\ backend = "postgres" => AsVersion(record)' = AsVersion(record)
         \/ clock' = clock + 1 /\ record'.stamp = clock + 1
  PROVE  Dated'
<1>1. Continue(r, NoCall) /\ NoCall \in CallShape /\ NoCall.pc \notin Holding
  BY NoCallOK DEF Return, Holding
<1>2. /\ Dated /\ versions' \subseteq Dates
      /\ backend = "postgres" => AsVersion(record) \in Dates
  BY DEF SaveInv, Dates
<1>3. CASE /\ clock' = clock
           /\ backend = "postgres" => AsVersion(record)' = AsVersion(record)
  BY <1>1, <1>2, <1>3, DatesKept
<1>4. CASE clock' = clock + 1 /\ record'.stamp = clock + 1
  <2> PICK d : d = AsVersion(record)'
    OBVIOUS
  <2>1. d.at = clock + 1
    BY <1>4 DEF AsVersion
  <2> QED BY <1>1, <1>2, <1>4, <2>1, DatesGrow
<1> QED BY <1>3, <1>4

LEMMA UpdateRowSaves ==
  ASSUME Inv, SaveInv, NEW r \in Req, UpdateRow(r)
  PROVE  SaveInv'
<1>1. /\ backend = "postgres" /\ Label(r) = "update" /\ Label(r) # "idle"
      /\ Return(r) /\ req[r].op \in Saves /\ req[r].op # "move"
      /\ UNCHANGED <<backend, versions, overlaps, unsnapped>>
  BY DEF UpdateRow, Saves
<1>2. CASE UNCHANGED <<record, clock, saved>>
  BY <1>1, <1>2, EndsKeep DEF storage
<1>3. CASE /\ record.present /\ record.rev = req[r].file.rev
           /\ record' = [record EXCEPT !.rev = @ + 1,
                           !.content = req[r].content, !.stamp = clock + 1]
           /\ clock' = clock + 1
           /\ saved' = saved \union {req[r].content}
  <2>1. /\ record' \in Shape /\ record'.rev = record.rev + 1
        /\ record'.content = req[r].content /\ record'.stamp = clock + 1
        /\ record'.present = record.present /\ record'.torn = record.torn
        /\ record.rev \in Nat
    <3>1. /\ req[r].content \in Nat /\ record.rev \in Nat
          /\ record.rev + 1 \in Nat /\ clock + 1 \in Nat
      BY Shaped DEF Shape, CallShape
    <3>2. record' \in Shape
      BY <1>3, <3>1, Shaped DEF Shape
    <3> QED BY <1>3, <3>1, <3>2, Shaped DEF Shape
  <2>2. Knows(req[r]) /\ req[r].pc = "update" /\ req[r].pc \in Holding
    BY <1>1 DEF SaveInv, Label, Holding
  <2>3. Grows /\ (Counted' => Counted)
    BY <1>1, <2>1 DEF Grows, Counted, Serial
  <2>4. Onward
    BY <2>1 DEF Onward
  <2>5. Dated'
    BY <1>1, <1>3, <2>1, WriteDates
  <2>6. Kept'
    <3>1. record.torn = "no" /\ record'.torn = "no"
      BY <1>1, <2>1 DEF SaveInv, Kept
    <3>2. ASSUME Counted' PROVE saved' \subseteq Contents \union {record'.content}
      <4>1. saved \subseteq Contents \union {record.content}
        BY <2>3, <3>1, <3>2 DEF SaveInv, Kept
      <4>2. record.content \in Contents
        BY <1>1, <1>3, <2>2, <2>3, <3>2 DEF Knows, Behind, Safe
      <4> QED BY <1>3, <2>1, <4>1, <4>2
    <3>3. Contents' = Contents
      BY <1>1 DEF Contents
    <3> QED BY <3>1, <3>2, <3>3 DEF Kept
  <2> QED BY <1>1, <2>1, <2>3, <2>4, <2>5, <2>6, WriteSaves DEF SaveInv
<1> QED BY <1>2, <1>3 DEF UpdateRow

LEMMA MoveRowSaves ==
  ASSUME Inv, SaveInv, NEW r \in Req, MoveRow(r)
  PROVE  SaveInv'
<1>1. /\ backend = "postgres" /\ Label(r) = "update" /\ Label(r) # "idle"
      /\ Return(r) /\ UNCHANGED <<backend, versions, overlaps, unsnapped, saved>>
  BY DEF MoveRow
<1>2. CASE UNCHANGED <<record, clock>>
  BY <1>1, <1>2, EndsKeep DEF storage
<1>3. CASE /\ record' = [record EXCEPT !.meta = Moved(r), !.stamp = clock + 1]
           /\ clock' = clock + 1
  <2>1. /\ record' \in Shape /\ record'.rev = record.rev
        /\ record'.content = record.content /\ record'.stamp = clock + 1
        /\ record'.present = record.present /\ record'.torn = record.torn
    BY <1>3, Shaped, MovedShape DEF Shape
  <2>2. Grows /\ (Counted' => Counted) /\ Contents' = Contents
    BY <1>1, <2>1 DEF Grows, Counted, Serial, Contents
  <2>3. Onward /\ Kept'
    BY <1>1, <2>1, <2>2 DEF Onward, Kept, SaveInv
  <2>4. Dated'
    BY <1>1, <1>3, <2>1, WriteDates
  <2> QED BY <1>1, <2>1, <2>2, <2>3, <2>4, WriteSaves DEF SaveInv
<1> QED BY <1>2, <1>3 DEF MoveRow

LEMMA TruncateSaves ==
  ASSUME Inv, SaveInv, NEW r \in Req, Truncate(r)
  PROVE  SaveInv'
<1> PICK c : c = [req[r] EXCEPT !.pc = "fill"]
  OBVIOUS
<1>1. /\ Label(r) = "truncate" /\ Label(r) # "idle" /\ Continue(r, c)
      /\ UNCHANGED <<backend, versions, clock, overlaps, unsnapped, saved>>
  BY DEF Truncate, history, Goto
<1>2. /\ c \in CallShape /\ c.pc = "fill" /\ c.op = req[r].op
      /\ c.file = req[r].file
  BY Relabelled DEF Labels
<1>3. backend = "local" /\ backend # "postgres"
  BY <1>1, Shaped DEF CallOK, Label
<1>4. /\ record' \in Shape /\ record'.content = record.content
      /\ record'.present
      /\ record'.torn = IF c.op = "move" THEN "move" ELSE "save"
  BY <1>2, Shaped DEF Truncate, Shape
<1>5. /\ Knows(req[r]) /\ req[r].pc = "truncate"
      /\ req[r].pc \in Holding /\ c.pc \in Holding
  BY <1>1, <1>2 DEF SaveInv, Label, Holding
<1>6. Counted' => Counted
  <2> SUFFICES ASSUME Counted' PROVE record.present
    BY <1>1 DEF Counted, Serial
  <2>1. "calls" \notin overlaps
    BY <1>1, <1>3 DEF Counted, Serial
  <2> QED BY <1>1, <1>3, <2>1, Shaped DEF Holding
<1>7. Grows /\ Contents' = Contents
  BY <1>1, <1>6 DEF Grows, Contents
<1>8. Onward
  BY <1>3 DEF Onward
<1>9. Dated'
  <2>1. versions' \subseteq Dates
    BY <1>1 DEF Dates
  <2> QED BY <1>1, <1>2, <1>3, <2>1, DatesKept DEF SaveInv
<1>10. Counted' => /\ saved \subseteq Contents \union {c.file.content}
                   /\ c.op # "move" => c.file.content \in Contents
  BY <1>2, <1>3, <1>5, <1>6 DEF Knows, Safe
<1>11. Kept'
  BY <1>1, <1>3, <1>4, <1>7, <1>10 DEF Kept
<1>12. Kind(c)'
  <2>1. Kind(req[r])
    BY <1>5 DEF Knows
  <2> QED BY <1>2, <1>5, <2>1 DEF Kind
<1>13. Behind(c)'
  BY <1>1, <1>3 DEF Behind
<1>14. InHand(c)'
  BY <1>1, <1>2, <1>3, <1>4, <1>5 DEF InHand, Knows
<1>15. Safe(c)'
  BY <1>1, <1>7, <1>10 DEF Safe
<1>16. Knows(c)'
  BY <1>12, <1>13, <1>14, <1>15 DEF Knows
<1> QED BY <1>1, <1>2, <1>4, <1>7, <1>8, <1>9, <1>11, <1>16, SaveStepKeeps
           DEF SaveInv

LEMMA FillSaves ==
  ASSUME Inv, SaveInv, NEW r \in Req, Fill(r)
  PROVE  SaveInv'
<1>1. /\ Label(r) = "fill" /\ Label(r) # "idle" /\ Return(r)
      /\ UNCHANGED <<backend, versions, clock, overlaps, unsnapped>>
      /\ saved' = IF req[r].op = "move" THEN saved
                  ELSE saved \union {req[r].content}
  BY DEF Fill
<1>2. backend = "local" /\ backend # "postgres"
  BY <1>1, Shaped DEF CallOK, Label
<1>3. Knows(req[r]) /\ req[r].pc = "fill" /\ req[r].pc \in Holding
  BY <1>1 DEF SaveInv, Label, Holding
<1>4. record' \in Shape
  BY Shaped, WrittenShape DEF Fill, Shape
<1>5. ASSUME Serial
      PROVE  /\ record.present /\ record' = Written(r)
             /\ record'.torn = "no"
             /\ record'.content = IF req[r].op = "move" THEN req[r].file.content
                                  ELSE req[r].content
  <2>1. record.present
    BY <1>1, <1>2, <1>5, Shaped DEF Holding, Serial
  <2>2. ~Readable
    BY <1>2, <1>3, <1>5 DEF Readable, Knows, InHand, Serial
  <2>3. record' = Written(r)
    BY <2>1, <2>2 DEF Fill
  <2>4. req[r].file.torn = "no"
    BY <1>3 DEF Knows, Kind
  <2>5. CASE req[r].op = "move"
    BY <2>1, <2>3, <2>4, <2>5, Shaped DEF Written, Shape
  <2>6. CASE req[r].op # "move"
    BY <2>1, <2>3, <2>4, <2>6, Shaped DEF Written, Shape
  <2> QED BY <2>1, <2>3, <2>5, <2>6
<1>6. Counted' => Counted /\ Serial
  <2> SUFFICES ASSUME Counted' PROVE record.present /\ Serial
    BY <1>1 DEF Counted, Serial
  <2>1. Serial
    BY <1>1 DEF Counted, Serial
  <2> QED BY <1>5, <2>1
<1>7. Grows /\ Contents' = Contents
  BY <1>1, <1>6 DEF Grows, Contents
<1>8. Onward
  BY <1>2 DEF Onward
<1>9. Dated'
  BY <1>1, <1>2, WriteDates
<1>10. Kept'
  <2> SUFFICES ASSUME Counted'
               PROVE  saved' \subseteq Contents \union {record'.content}
                      /\ record'.torn = "no"
    BY <1>1, <1>2, <1>7 DEF Kept
  <2>1. /\ saved \subseteq Contents \union {req[r].file.content}
        /\ req[r].op # "move" => req[r].file.content \in Contents
    BY <1>2, <1>3, <1>6 DEF Knows, Safe
  <2>2. CASE req[r].op = "move"
    BY <1>1, <1>5, <1>6, <2>1, <2>2
  <2>3. CASE req[r].op # "move"
    BY <1>1, <1>5, <1>6, <2>1, <2>3
  <2> QED BY <2>2, <2>3
<1> QED BY <1>1, <1>4, <1>7, <1>8, <1>9, <1>10, WriteSaves DEF SaveInv

LEMMA RemoveSaves ==
  ASSUME Inv, SaveInv, NEW r \in Req, Remove(r)
  PROVE  SaveInv'
<1>1. /\ Label(r) # "idle" /\ Return(r)
      /\ UNCHANGED <<backend, clock, overlaps>>
      /\ versions' \subseteq versions
      /\ record' = [record EXCEPT !.present = FALSE, !.torn = "no"]
  BY DEF Remove, history
<1>2. /\ record' \in Shape /\ record'.rev = record.rev
      /\ record'.content = record.content /\ record'.stamp = record.stamp
      /\ ~record'.present /\ record'.torn = "no"
  BY <1>1, Shaped DEF Shape
<1>3. ~Counted'
  BY <1>2 DEF Counted
<1>4. Grows /\ Onward /\ Kept'
  BY <1>2, <1>3 DEF Grows, Onward, Kept
<1>5. IsFiniteSet(versions')
  BY <1>1, FS_Subset DEF SaveInv
<1>6. Dated'
  <2>1. AsVersion(record)' = AsVersion(record)
    BY <1>2 DEF AsVersion
  <2> QED BY <1>1, <2>1, WriteDates
<1> QED BY <1>1, <1>2, <1>4, <1>5, <1>6, WriteSaves

(* A new request has read nothing yet; what overlaps is not serial.         *)
LEMMA CallSaves ==
  ASSUME Inv, SaveInv, NEW r \in Req, Call(r)
  PROVE  SaveInv'
<1>1. PICK c \in CallShape :
        /\ Start(r, c) /\ c.pc \in {"existing", "read", "remove"}
        /\ c.pc = "existing" => c.op = "save"
  BY CallStarts DEF Started
<1>2. /\ Continue(r, c) /\ overlaps' = overlaps \union Overlap(c)
      /\ UNCHANGED <<backend, record, versions, clock, saved, unsnapped>>
  BY <1>1 DEF Start, storage
<1>3. req'[r] = c /\ \A q \in Req : q # r => req'[q] = req[q]
  BY <1>2, Continued DEF Inv, Shapes
<1>4. c.pc \notin Holding
  BY <1>1 DEF Holding
<1>5. (Serial' => Serial) /\ ("calls" \notin overlaps' => "calls" \notin overlaps)
  BY <1>2 DEF Serial
<1>6. (Counted' => Counted) /\ Contents' = Contents
  BY <1>2, <1>5 DEF Counted, Contents
<1>7. Kept'
  BY <1>2, <1>6 DEF SaveInv, Kept
<1>8. Dated'
  <2>1. versions' \subseteq Dates
    BY <1>2 DEF Dates
  <2>2. backend = "postgres" => AsVersion(record)' \in Dates
    BY <1>2 DEF Dates, AsVersion
  <2> QED BY <1>2, <1>4, <2>1, <2>2, DatesKept DEF SaveInv
<1>9. ASSUME NEW q \in Req PROVE Knows(req[q])'
  <2> PICK d : d = req'[q]
    OBVIOUS
  <2>1. CASE q = r
    <3>1. d = c /\ Kind(d)
      BY <1>1, <1>3, <1>4, <2>1 DEF Kind, Saves
    <3> QED BY <1>4, <3>1 DEF Knows, Kind, Behind, InHand, Safe
  <2>2. CASE q # r
    <3>1. d = req[q] /\ Knows(d)
      BY <1>3, <2>2 DEF SaveInv
    <3>2. Kind(d)' /\ Behind(d)'
      BY <1>2, <3>1 DEF Knows, Kind, Behind
    <3>3. InHand(d)'
      BY <1>2, <1>5, <3>1 DEF Knows, InHand
    <3>4. Safe(d)'
      BY <1>2, <1>6, <3>1 DEF Knows, Safe
    <3> QED BY <3>1, <3>2, <3>3, <3>4 DEF Knows
  <2> QED BY <2>1, <2>2
<1> QED BY <1>2, <1>7, <1>8, <1>9 DEF SaveInv

(* The document is created with its content saved.                          *)
LEMMA SaveInit ==
  ASSUME Init
  PROVE  SaveInv
<1>1. \A r \in Req : req[r] = NoCall /\ NoCall.pc = "idle"
  BY DEF Init, NoCall
<1>2. /\ versions = {} /\ record = Created /\ saved = {0} /\ clock = 0
      /\ Created.content = 0 /\ Created.torn = "no" /\ Created.stamp = 0
  BY DEF Init, Created
<1>3. IsFiniteSet(versions)
  BY <1>2, FS_EmptySet
<1>4. Kept
  BY <1>2 DEF Kept
<1>5. Dated
  <2>1. Held = {}
    BY <1>1 DEF Held, Label, Holding
  <2>2. \A d \in Dates : d = AsVersion(record) /\ d.at = 0
    BY <1>2, <2>1 DEF Dates, AsVersion
  <2> QED BY <1>2, <2>2 DEF Dated
<1>6. \A r \in Req : Knows(req[r])
  BY <1>1 DEF Knows, Kind, Behind, InHand, Safe, Holding
<1> QED BY <1>3, <1>4, <1>5, <1>6 DEF SaveInv

(* Every step keeps what is known of the saves.                             *)
LEMMA SaveNext ==
  ASSUME Inv, SaveInv, [Next]_vars
  PROVE  SaveInv'
<1>1. CASE UNCHANGED vars
  BY <1>1 DEF vars, storage, history, SaveInv, Dated, Dates, Held, AsVersion,
              Kept, Counted, Serial, Contents, Knows, Kind, Behind, InHand,
              Safe, Label
<1>2. ASSUME NEW r \in Req,
             \/ Call(r) \/ Read(r) \/ GetVersion(r) \/ ReadExisting(r)
             \/ VersionFails(r) \/ Fails(r)
             \/ Backup(r) \/ Snapshot(r) \/ Prune(r)
      PROVE  SaveInv'
  BY <1>2, CallSaves, ReadSaves, GetVersionSaves, ReadExistingSaves,
     FailureSaves, BackupSaves, SnapshotSaves, PruneSaves
<1>3. ASSUME NEW r \in Req,
             \/ UpdateRow(r) \/ MoveRow(r) \/ Truncate(r) \/ Fill(r)
             \/ Remove(r)
      PROVE  SaveInv'
  BY <1>3, UpdateRowSaves, MoveRowSaves, TruncateSaves, FillSaves, RemoveSaves
<1> QED BY <1>1, <1>2, <1>3 DEF Next

(* No save is lost: until the history is full, whatever was saved is what   *)
(* the document holds or a version of it, whoever saves meanwhile (in       *)
(* Postgres) and wherever a request died.                                   *)
THEOREM NothingOverwritten == Spec => []SavesKept
<1>1. SaveInv => SavesKept
  <2> SUFFICES ASSUME Kept, Serial, record.present, record.torn # "move",
                      ~unsnapped, Cardinality(versions) < Cap
               PROVE  saved \ {v.content : v \in versions}
                        \subseteq (IF record.torn = "no" THEN {record.content}
                                   ELSE {})
    BY DEF SaveInv, SavesKept, NoSaveLost
  <2> QED BY DEF Kept, Counted, Contents
<1> QED BY <1>1, Invariance, SaveInit, SaveNext, PTL DEF Spec
=============================================================================
