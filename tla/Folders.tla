------------------------------- MODULE Folders -------------------------------
(***************************************************************************)
(* The folder tree of one account and a file in it: the handlers of        *)
(* handlers/folders.go and Move of files.go over the rows of either        *)
(* storage.  Every handler checks first and writes later, and an update    *)
(* writes the whole row that it read.  Names, stars and the trash are the  *)
(* fields an update changes without moving anything.                       *)
(***************************************************************************)
EXTENDS Integers, FiniteSets

CONSTANTS Folder,   \* ids, 1..n
          Request,  \* bound: requests under way at once
          MaxCalls  \* bound: requests

VARIABLES backend, \* "local" or "postgres"
          parent,  \* parent[f]: where the row of f puts it; Gone without one
          owned,   \* the folders with an ACL record
          place,   \* the folder of the file
          request, \* request[r]: see Idle
          calls,
          asked,   \* history: asked[f]: where f was last put
          filed,   \* history: where the file was last put
          deleted, \* history: the folders whose row was deleted
          muddled, \* history: a row changed between an update's reads and its
                   \* write, or a walk could not read the tree
          slipped  \* history: the file moved, or its folder went, while a
                   \* request held what it had read of it, or a listing or
                   \* a reparenting failed

vars == <<backend, parent, owned, place, request, calls, asked, filed,
          deleted, muddled, slipped>>
history == <<asked, filed, deleted, muddled, slipped>>

Root == 0
Gone == -1

(* id: the folder, or the new one; to: where it, or the file, shall go.    *)
Idle == [at |-> "idle", does |-> "label", id |-> Root, to |-> Root]
Updates == {"label", "move"}
FileMoves == {"file", "star"}

(* The walk from f up the rows; and the folders above f, f not among them   *)
(* unless they run in a circle.                                            *)
Climb(rows, f) ==
  LET up[n \in 0..Cardinality(Folder)] ==
        IF n = 0 THEN f
        ELSE IF up[n - 1] \in Folder THEN rows[up[n - 1]] ELSE Root
  IN  up
Above(rows, f) ==
  {Climb(rows, f)[n] : n \in 1..Cardinality(Folder)} \cap Folder

Init ==
  /\ backend \in {"local", "postgres"}
  (* folders made one after the other, the last one perhaps not yet *)
  /\ parent \in {p \in [Folder -> Folder \union {Root, Gone}] :
                   \A f \in Folder :
                     \/ p[f] \in 1..(f - 1) \union {Root}
                     \/ p[f] = Gone /\ f + 1 \notin Folder}
  /\ owned = {f \in Folder : parent[f] # Gone}
  /\ place \in owned \union {Root}
  /\ request = [r \in Request |-> Idle] /\ calls = 0
  /\ asked = parent /\ filed = place
  /\ deleted = {} /\ muddled = FALSE /\ slipped = FALSE

Goes(r, q) == request' = [request EXCEPT ![r] = q]
To(r, at) == Goes(r, [request[r] EXCEPT !.at = at])
End(r) == Goes(r, Idle)

-----------------------------------------------------------------------------
(* A request, past its own folder's or file's owner check.                 *)
Call(r) ==
  /\ request[r] = Idle /\ calls < MaxCalls /\ calls' = calls + 1
  /\ \E does \in Updates \union FileMoves \union {"create", "delete"},
        id \in Folder \union {Root}, to \in Folder \union {Root} :
       /\ (does \in FileMoves) = (id = Root)
       /\ does \in {"label", "star", "delete"} => to = Root
       /\ does \in Updates \union {"delete"} => id \in owned
       /\ does = "create" => /\ parent[id] = Gone
                             /\ id \notin owned \union deleted
                             /\ \A s \in Request : request[s].id # id
       /\ does = "move" => id # to
       /\ Goes(r, [at |-> IF does = "create" THEN "target" ELSE "get",
                   does |-> does, id |-> id, to |-> to])
  /\ UNCHANGED <<backend, parent, owned, place, history>>

(* GetFolder, GetFile: the fields it does not change are kept from here.   *)
Get(r) ==
  LET q == request[r]
  IN  /\ q.at = "get" /\ q.does # "delete"
      /\ \/ q.does \in Updates /\ parent[q.id] = Gone /\ End(r)
         \/ /\ q.does = "label" /\ parent[q.id] # Gone
            /\ Goes(r, [q EXCEPT !.at = "put", !.to = parent[q.id]])
         \/ /\ q.does = "star"
            /\ Goes(r, [q EXCEPT !.at = "put", !.to = place])
         \/ /\ q.does = "file" \/ (q.does = "move" /\ parent[q.id] # Gone)
            /\ To(r, "target")
      /\ UNCHANGED <<backend, parent, owned, place, calls, history>>

(* The caller must own where it goes; a file's folder must be there too.   *)
Target(r) ==
  LET q == request[r]
  IN  /\ q.at = "target"
      /\ IF q.to \notin owned \union {Root} THEN End(r)
         ELSE To(r, IF q.to = Root \/ q.does = "create" THEN "put"
                    ELSE IF q.does = "move" THEN "walk" ELSE "folder")
      /\ UNCHANGED <<backend, parent, owned, place, calls, history>>
TargetFolder(r) ==
  /\ request[r].at = "folder"
  /\ IF parent[request[r].to] = Gone THEN End(r) ELSE To(r, "put")
  /\ UNCHANGED <<backend, parent, owned, place, calls, history>>

(* Mutated form of IsDescendant: only the folder right above is looked at. *)
IsDescendantOf(candidate, ancestor) == parent[candidate] = ancestor

(* isDescendant; the walk ends where a row is missing.  Without a listing  *)
(* it says no.                                                             *)
IsDescendant(candidate, ancestor) == ancestor \in Above(parent, candidate)
Walk(r) ==
  LET q == request[r]
  IN  /\ q.at = "walk"
      /\ \/ /\ IF IsDescendant(q.to, q.id) THEN End(r) ELSE To(r, "put")
            /\ UNCHANGED muddled
         \/ To(r, "put") /\ muddled' = TRUE
      /\ UNCHANGED <<backend, parent, owned, place, calls, asked, filed,
                     deleted, slipped>>

(* UpdateFolder: on the disk it looks whether the folder is there and      *)
(* then writes; the row's UPDATE does both.  A change of place under other *)
(* updates that have read muddles.                                         *)
Writes(r, f, to) ==
  /\ parent' = [parent EXCEPT ![f] = to]
  /\ asked' = IF request[r].does = "label" THEN asked
                                           ELSE [asked EXCEPT ![f] = to]
  /\ muddled' = (muddled \/ /\ parent[f] # to
                            /\ \E s \in Request \ {r} :
                                 /\ request[s].does \in Updates
                                 /\ request[s].at \notin {"idle", "get"})
  /\ End(r)
  /\ UNCHANGED <<backend, owned, place, calls, filed, deleted, slipped>>
UpdateFolder(r) ==
  LET q == request[r]
  IN  /\ q.at = "put" /\ q.does \in Updates
      /\ \/ /\ parent[q.id] = Gone /\ End(r)
            /\ UNCHANGED <<backend, parent, owned, place, calls, history>>
         \/ /\ parent[q.id] # Gone /\ backend = "local" /\ To(r, "write")
            /\ UNCHANGED <<backend, parent, owned, place, calls, history>>
         \/ /\ parent[q.id] # Gone /\ backend = "postgres"
            /\ Writes(r, q.id, q.to)
WriteFolder(r) ==
  request[r].at = "write" /\ Writes(r, request[r].id, request[r].to)

(* CreateFolder and its owner; if that fails the row is deleted again,     *)
(* which does not fail here.                                               *)
CreateFolder(r) ==
  LET q == request[r]
  IN  /\ q.at = "put" /\ q.does = "create" /\ To(r, "own")
      /\ parent' = [parent EXCEPT ![q.id] = q.to]
      /\ asked' = [asked EXCEPT ![q.id] = q.to]
      /\ UNCHANGED <<backend, owned, place, calls, filed, deleted, muddled,
                     slipped>>
RecordOwner(r) ==
  LET q == request[r]
  IN  /\ q.at = "own" /\ End(r)
      /\ \/ owned' = owned \union {q.id} /\ UNCHANGED <<parent, deleted>>
         \/ /\ parent' = [parent EXCEPT ![q.id] = Gone] /\ UNCHANGED owned
            /\ deleted' = deleted \union {q.id}
      /\ UNCHANGED <<backend, place, calls, asked, filed, muddled, slipped>>

-----------------------------------------------------------------------------
(* Holds(s): s has read where the file is or shall go.                     *)
Holds(s) ==
  LET q == request[s]
  IN  \/ q.does \in FileMoves /\ q.at \in {"target", "folder", "put"}
      \/ q.does = "delete" /\ q.at = "reparent"

(* UpdateFileMeta of a move of the file.                                   *)
MoveFile(r) ==
  LET q == request[r]
  IN  /\ q.at = "put" /\ q.does \in FileMoves /\ End(r)
      /\ place' = q.to
      /\ filed' = IF q.does = "star" THEN filed ELSE q.to
      /\ slipped' = (slipped \/ \E s \in Request \ {r} : Holds(s))
      /\ UNCHANGED <<backend, parent, owned, calls, asked, deleted, muddled>>

(* Mutated form of DeleteFolder: an error is ignored, the files are moved  *)
(* and the folder's row stays.                                             *)
DeleteFolderNot(r) ==
  LET q == request[r]
  IN  /\ q.at = "get" /\ q.does = "delete" /\ To(r, "list")
      /\ deleted' = deleted \union {q.id}
      /\ UNCHANGED <<backend, parent, owned, place, calls, asked, filed,
                     muddled, slipped>>

(* Delete: the row; then the files that a listing finds in it go to the    *)
(* root, one by one; then the ACL record.  Subfolders stay as they are,    *)
(* and an error after the first step is ignored.                           *)
DeleteFolder(r) ==
  LET q == request[r]
  IN  /\ q.at = "get" /\ q.does = "delete"
      /\ IF parent[q.id] = Gone THEN End(r) ELSE To(r, "list")
      /\ parent' = [parent EXCEPT ![q.id] = Gone]
      /\ deleted' = deleted \union {q.id}
      /\ slipped' = (slipped \/ \E s \in Request :
                                  /\ request[s].does \in FileMoves /\ Holds(s)
                                  /\ request[s].at = "put"
                                  /\ request[s].to = q.id)
      /\ UNCHANGED <<backend, owned, place, calls, asked, filed, muddled>>
ListFiles(r) ==
  LET q == request[r]
  IN  /\ q.at = "list"
      /\ \/ /\ To(r, IF place = q.id THEN "reparent" ELSE "acl")
            /\ UNCHANGED slipped
         \/ To(r, "acl") /\ slipped' = TRUE
      /\ UNCHANGED <<backend, parent, owned, place, calls, asked, filed,
                     deleted, muddled>>
(* Mutated form of Reparent: the file goes where the folder was.           *)
ReparentUp(r) ==
  LET q == request[r]
  IN  /\ q.at = "reparent" /\ To(r, "acl")
      /\ place' = asked[q.id]
      /\ slipped' = (slipped \/ \E s \in Request \ {r} : Holds(s))
      /\ UNCHANGED <<backend, parent, owned, calls, asked, filed, deleted,
                     muddled>>

Reparent(r) ==
  LET q == request[r]
  IN  /\ q.at = "reparent" /\ To(r, "acl")
      /\ \/ /\ place' = Root
            /\ slipped' = (slipped \/ \E s \in Request \ {r} : Holds(s))
         \/ UNCHANGED place /\ slipped' = TRUE
      /\ UNCHANGED <<backend, parent, owned, calls, asked, filed, deleted,
                     muddled>>
DropOwner(r) ==
  /\ request[r].at = "acl" /\ End(r)
  /\ owned' \in {owned, owned \ {request[r].id}}
  /\ UNCHANGED <<backend, parent, place, calls, history>>

Next ==
  \E r \in Request :
    \/ Call(r) \/ Get(r) \/ Target(r) \/ TargetFolder(r) \/ Walk(r)
    \/ UpdateFolder(r) \/ WriteFolder(r) \/ CreateFolder(r) \/ RecordOwner(r)
    \/ MoveFile(r) \/ DeleteFolder(r) \/ ListFiles(r) \/ Reparent(r)
    \/ DropOwner(r)
Spec == Init /\ [][Next]_vars

-----------------------------------------------------------------------------
TypeOK ==
  /\ parent \in [Folder -> Folder \union {Root, Gone}]
  /\ owned \subseteq Folder /\ deleted \subseteq Folder
  /\ place \in Folder \union {Root}

(* No folder is inside itself, whatever is moved, created and deleted,     *)
(* unless an update wrote what another had changed since it read: a rename *)
(* suffices for that.                                                      *)
NoCircle == ~muddled => \A f \in Folder : f \notin Above(parent, f)

(* A folder is where it was last put.                                      *)
FolderKept ==
  ~muddled => \A f \in Folder : parent[f] # Gone => parent[f] = asked[f]

(* The file is in the folder where it was last put, and that folder is      *)
(* there; or the folder was deleted and the file is in the root, although   *)
(* files are moved into folders that are being deleted.  Not so if a move   *)
(* wrote what it had read before, or an error was ignored.                  *)
Deleting == {request[r].id : r \in {s \in Request : request[s].at \in
                                     {"list", "reparent"}}}
FileFound ==
  ~slipped /\ filed \notin Deleting =>
    \/ place = filed /\ (filed \in Folder => parent[filed] # Gone)
    \/ place = Root /\ filed \in deleted

(* In Postgres a deleted folder stays deleted, whatever updates of it are  *)
(* under way; and each folder has its owner but while it is made.          *)
DeletedStays ==
  backend = "postgres" =>
    \A f \in Folder :
      /\ f \in deleted => parent[f] = Gone
      /\ parent[f] # Gone /\ f \notin owned =>
           \E r \in Request : request[r].at = "own" /\ request[r].id = f

FolderTree == NoCircle /\ FolderKept /\ FileFound /\ DeletedStays
=============================================================================
