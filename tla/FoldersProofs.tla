--------------------------- MODULE FoldersProofs ---------------------------
(***************************************************************************)
(* No folder gets inside itself, and folders and files are where they were *)
(* put, for any number of folders and of requests at a time.  The walk up  *)
(* the rows is a recursive function; what it does is proved from the least *)
(* step at which it would not.  Rows run in no circle as long as each set  *)
(* of folders has one that is not in a folder of the set, and this is kept *)
(* because an update that has made its checks carries a set of folders,    *)
(* closed under being above, that holds where the folder goes and not the  *)
(* folder: that nothing else moved since is what ~muddled says.            *)
(***************************************************************************)
EXTENDS Folders, FiniteSetTheorems, TLAPS

(* The folders are numbered in the order in which they are made.           *)
Numbered == \E n \in Nat : Folder = 1..n

LEMMA FolderFacts ==
  ASSUME Numbered
  PROVE  /\ Folder \subseteq Nat /\ Root \notin Folder /\ Gone \notin Folder
         /\ IsFiniteSet(Folder) /\ Cardinality(Folder) \in Nat
<1>1. PICK n \in Nat : Folder = 1..n
  BY DEF Numbered
<1>2. IsFiniteSet(Folder)
  BY <1>1, FS_Interval
<1>3. Cardinality(Folder) \in Nat
  BY <1>2, FS_CardinalityType
<1> QED
  BY <1>1, <1>2, <1>3 DEF Root, Gone

(* A set of numbers that has members has a least one.                      *)
LEMMA LeastOf ==
  ASSUME NEW T, T \subseteq Nat, T # {}
  PROVE  \E n \in T : \A m \in T : n <= m
<1>1. PICK k : k \in T
  OBVIOUS
<1>2. k \in Nat
  BY <1>1
<1> PICK S : S = 0..k
  OBVIOUS
<1> PICK sets : sets = {0..n : n \in {m \in T : m <= k}}
  OBVIOUS
<1>3. sets \subseteq SUBSET S /\ sets # {}
  BY <1>1, <1>2
<1>4. IsFiniteSet(S)
  BY <1>2, FS_Interval
<1>5. IsWellFoundedOn(StrictSubsetOrdering(S), SUBSET S)
  BY <1>4, FS_StrictSubsetOrderingWellFounded, FS_FiniteSubsetsOfFinite
<1>6. PICK A \in sets : \A B \in sets : ~ (<<B, A>> \in StrictSubsetOrdering(S))
  BY <1>3, <1>5, WFMin
<1>7. \A B \in sets : B \subseteq A => B = A
  BY <1>3, <1>6 DEF StrictSubsetOrdering
<1>8. PICK n \in T : n <= k /\ A = 0..n
  OBVIOUS
<1>9. ASSUME NEW m \in T, m < n PROVE FALSE
  <2>1. m \in Nat /\ n \in Nat /\ m <= k
    BY <1>2, <1>8, <1>9
  <2>2. 0..m \in sets /\ 0..m \subseteq A
    BY <1>8, <1>9, <2>1
  <2>3. 0..m = 0..n
    BY <1>7, <1>8, <2>2
  <2>4. n \in 0..m
    BY <2>1, <2>3
  <2> QED
    BY <1>9, <2>1, <2>4
<1> QED
  BY <1>8, <1>9

(* The walk is what its equation says.                                     *)
Up(rows, x) == IF x \in Folder THEN rows[x] ELSE Root
LEMMA ClimbIs ==
  ASSUME Numbered, NEW rows, NEW f
  PROVE  /\ Climb(rows, f)[0] = f
         /\ \A n \in 1..Cardinality(Folder) :
              Climb(rows, f)[n] = Up(rows, Climb(rows, f)[n - 1])
<1> PICK N : N = Cardinality(Folder)
  OBVIOUS
<1>1. N \in Nat
  BY FolderFacts
<1> DEFINE Fits(h, k) == h = [n \in 0..k |-> IF n = 0 THEN f
                                            ELSE Up(rows, h[n - 1])]
           short == {k \in Nat : ~ \E h : Fits(h, k)}
<1>2. short = {}
  <2> SUFFICES ASSUME short # {} PROVE FALSE
    OBVIOUS
  <2>1. PICK k \in short : \A m \in short : k <= m
    <3> HIDE DEF short
    <3>1. short \subseteq Nat
      BY DEF short
    <3> QED
      BY <3>1, LeastOf
  <2>2. k # 0
    <3>1. Fits([n \in 0..0 |-> f], 0)
      OBVIOUS
    <3> QED
      BY <3>1
  <2>3. k \in Nat /\ k - 1 \in Nat /\ k - 1 \notin short
    <3>1. k \in Nat
      OBVIOUS
    <3>2. k - 1 \in Nat /\ ~ (k <= k - 1)
      BY <2>2, <3>1
    <3> HIDE DEF short
    <3> QED
      BY <2>1, <3>1, <3>2
  <2>4. PICK h : Fits(h, k - 1)
    BY <2>3
  <2> DEFINE g == [n \in 0..k |-> IF n < k THEN h[n] ELSE Up(rows, h[k - 1])]
  <2>5. Fits(g, k)
    <3>1. ASSUME NEW n \in 0..k
          PROVE  g[n] = IF n = 0 THEN f ELSE Up(rows, g[n - 1])
      <4>1. CASE n = 0
        BY <2>2, <2>3, <2>4, <4>1
      <4>2. CASE n # 0 /\ n < k
        <5>1. n \in 0..(k - 1) /\ n - 1 \in 0..k /\ n - 1 < k
          BY <2>3, <4>2
        <5>2. h[n] = Up(rows, h[n - 1])
          BY <2>4, <4>2, <5>1
        <5> QED
          BY <4>2, <5>1, <5>2
      <4>3. CASE n # 0 /\ n = k
        <5>1. n - 1 \in 0..k /\ n - 1 < k
          BY <2>3, <4>3
        <5> QED
          BY <4>3, <5>1
      <4> QED
        BY <2>3, <4>1, <4>2, <4>3
    <3> HIDE DEF g
    <3>2. g = [n \in 0..k |-> g[n]]
      BY DEF g
    <3> QED
      BY <3>1, <3>2
  <2> QED
    BY <2>1, <2>5
<1>3. \E h : Fits(h, N)
  BY <1>1, <1>2
<1>4. Climb(rows, f) = CHOOSE h : Fits(h, N)
  BY DEF Climb, Up
<1>5. Fits(Climb(rows, f), N)
  <2> HIDE DEF Fits
  <2> QED
    BY <1>3, <1>4
<1> PICK up : up = Climb(rows, f)
  OBVIOUS
<1>6. Fits(up, N)
  BY <1>5
<1>7. up[0] = f /\ \A n \in 1..N : up[n] = Up(rows, up[n - 1])
  BY <1>1, <1>6
<1> QED
  BY <1>7

-----------------------------------------------------------------------------
(* No circle: each set of folders has one that is not in a folder of it.   *)
CircleFree(rows) ==
  \A S \in SUBSET Folder : S # {} => \E x \in S : rows[x] \notin S

(* A walk that is at a folder was at folders all the way.                  *)
LEMMA ClimbAtFolders ==
  ASSUME Numbered, NEW rows, NEW f, NEW n \in 0..Cardinality(Folder),
         Climb(rows, f)[n] \in Folder
  PROVE  \A m \in 0..n : Climb(rows, f)[m] \in Folder
<1> PICK up : up = Climb(rows, f)
  OBVIOUS
<1> PICK N : N = Cardinality(Folder)
  OBVIOUS
<1>1. N \in Nat /\ n \in Nat /\ n <= N
  BY FolderFacts
<1>2. \A i \in 1..N : up[i] = Up(rows, up[i - 1])
  BY ClimbIs
<1> SUFFICES ASSUME NEW m \in 0..n, up[m] \notin Folder PROVE FALSE
  OBVIOUS
<1> PICK T : T = {i \in (m + 1)..n : up[i] \in Folder}
  OBVIOUS
<1>3. n \in T
  <2>1. m # n
    OBVIOUS
  <2> QED
    BY <1>1, <2>1
<1>4. PICK i \in T : \A j \in T : i <= j
  BY <1>1, <1>3, LeastOf
<1>5. i \in (m + 1)..n /\ up[i] \in Folder
  BY <1>4
<1>6. i \in 1..N /\ i - 1 \in m..n /\ i \in Nat /\ ~ (i <= i - 1)
  BY <1>1, <1>5
<1>7. up[i - 1] \notin Folder
  <2>1. CASE i - 1 = m
    BY <2>1
  <2>2. CASE i - 1 # m
    <3>1. i - 1 \in (m + 1)..n
      BY <1>1, <1>6, <2>2
    <3> QED
      BY <1>4, <1>6, <3>1
  <2> QED
    BY <2>1, <2>2
<1>8. up[i] = Root
  BY <1>2, <1>6, <1>7 DEF Up
<1> QED
  BY <1>5, <1>8, FolderFacts

(* So folders that run in no circle are not above themselves.              *)
LEMMA NotAboveItself ==
  ASSUME Numbered, NEW rows, CircleFree(rows), NEW f \in Folder
  PROVE  f \notin Above(rows, f)
<1> PICK up : up = Climb(rows, f)
  OBVIOUS
<1> PICK N : N = Cardinality(Folder)
  OBVIOUS
<1>1. N \in Nat
  BY FolderFacts
<1>2. up[0] = f /\ \A i \in 1..N : up[i] = Up(rows, up[i - 1])
  BY ClimbIs
<1> SUFFICES ASSUME NEW n \in 1..N, up[n] = f PROVE FALSE
  BY DEF Above
<1>3. \A m \in 0..n : up[m] \in Folder
  BY <1>1, ClimbAtFolders
<1> PICK S : S = {up[m] : m \in 0..(n - 1)}
  OBVIOUS
<1>4. S \in SUBSET Folder /\ S # {}
  <2>1. 0 \in 0..(n - 1) /\ 0..(n - 1) \subseteq 0..n
    BY <1>1
  <2> QED
    BY <1>3, <2>1
<1>5. ASSUME NEW x \in S PROVE rows[x] \in S
  <2>1. PICK m \in 0..(n - 1) : x = up[m]
    OBVIOUS
  <2>2. m + 1 \in 1..N /\ (m + 1) - 1 = m
    BY <1>1
  <2>3. rows[x] = up[m + 1]
    BY <1>2, <1>4, <2>1, <2>2 DEF Up
  <2>4. CASE m + 1 = n
    <3>1. 0 \in 0..(n - 1)
      BY <1>1
    <3> QED
      BY <1>2, <2>3, <2>4, <3>1
  <2>5. CASE m + 1 # n
    <3>1. m + 1 \in 0..(n - 1)
      BY <1>1, <2>5
    <3> QED
      BY <2>3, <3>1
  <2> QED
    BY <2>4, <2>5
<1> QED
  BY <1>4, <1>5 DEF CircleFree

(* They are not so many that the walk would not get out of them.           *)
LEMMA ClimbGetsOut ==
  ASSUME Numbered, NEW rows, CircleFree(rows), NEW f
  PROVE  Climb(rows, f)[Cardinality(Folder)] \notin Folder
<1> PICK up : up = Climb(rows, f)
  OBVIOUS
<1> PICK N : N = Cardinality(Folder)
  OBVIOUS
<1>1. N \in Nat
  BY FolderFacts
<1>2. \A i \in 1..N : up[i] = Up(rows, up[i - 1])
  BY ClimbIs
<1> SUFFICES ASSUME up[N] \in Folder PROVE FALSE
  OBVIOUS
<1>3. \A m \in 0..N : up[m] \in Folder
  BY <1>1, ClimbAtFolders
<1>4. PICK i \in 0..N : \E j \in 0..N : i # j /\ up[i] = up[j]
  <2>1. IsFiniteSet(0..N) /\ Cardinality(0..N) = N + 1
    BY <1>1, FS_Interval
  <2>2. Cardinality(Folder) < Cardinality(0..N)
    BY <1>1, <2>1
  <2> PICK S : S = 0..N
    OBVIOUS
  <2> PICK g : g = [m \in S |-> up[m]]
    OBVIOUS
  <2>3. g \in [S -> Folder]
    BY <1>3
  <2>4. IsFiniteSet(S) /\ IsFiniteSet(Folder) /\ Cardinality(Folder) < Cardinality(S)
    BY <2>1, <2>2, FolderFacts
  <2>5. \E j, k \in S : j # k /\ g[j] = g[k]
    BY ONLY <2>3, <2>4, FS_PigeonHole
  <2> QED
    BY <2>5
<1>5. PICK a \in 0..N : \E b \in 0..N : a < b /\ up[a] = up[b]
  <2>1. PICK j \in 0..N : i # j /\ up[i] = up[j]
    BY <1>4
  <2>2. i < j \/ j < i
    BY <1>1, <2>1
  <2> QED
    BY <2>1, <2>2
<1>6. PICK b \in 0..N : a < b /\ up[a] = up[b]
  BY <1>5
<1> PICK S : S = {up[m] : m \in a..(b - 1)}
  OBVIOUS
<1>7. S \in SUBSET Folder /\ S # {}
  <2>1. a \in a..(b - 1) /\ a..(b - 1) \subseteq 0..N
    BY <1>1, <1>6
  <2> QED
    BY <1>3, <2>1
<1>8. ASSUME NEW x \in S PROVE rows[x] \in S
  <2>1. PICK m \in a..(b - 1) : x = up[m]
    OBVIOUS
  <2>2. m + 1 \in 1..N /\ (m + 1) - 1 = m
    BY <1>1
  <2>3. rows[x] = up[m + 1]
    BY <1>2, <1>7, <2>1, <2>2 DEF Up
  <2>4. CASE m + 1 = b
    <3>1. a \in a..(b - 1)
      BY <1>1, <1>6
    <3> QED
      BY <1>6, <2>3, <2>4, <3>1
  <2>5. CASE m + 1 # b
    <3>1. m + 1 \in a..(b - 1)
      BY <1>1, <2>5
    <3> QED
      BY <2>3, <3>1
  <2> QED
    BY <2>4, <2>5
<1> QED
  BY <1>7, <1>8 DEF CircleFree

(* The folders above one, and it, are closed under being above.            *)
Closed(rows, P) == \A x \in P : rows[x] \in P \/ rows[x] \notin Folder
LEMMA AboveIsClosed ==
  ASSUME Numbered, NEW rows, CircleFree(rows), NEW f \in Folder
  PROVE  /\ Closed(rows, Above(rows, f)) /\ Closed(rows, Above(rows, f) \union {f})
         /\ rows[f] \in Folder => rows[f] \in Above(rows, f)
<1> PICK up : up = Climb(rows, f)
  OBVIOUS
<1> PICK N : N = Cardinality(Folder)
  OBVIOUS
<1>1. N \in Nat
  BY FolderFacts
<1>2. up[0] = f /\ \A i \in 1..N : up[i] = Up(rows, up[i - 1])
  BY ClimbIs
<1>3. Above(rows, f) = {up[n] : n \in 1..N} \cap Folder
  BY DEF Above
<1>4. ASSUME NEW n \in 0..N, up[n] \in Folder, rows[up[n]] \in Folder
      PROVE  rows[up[n]] \in Above(rows, f)
  <2>1. n # N
    BY <1>4, ClimbGetsOut
  <2>2. n + 1 \in 1..N /\ (n + 1) - 1 = n
    BY <1>1, <2>1
  <2>3. up[n + 1] = rows[up[n]]
    BY <1>2, <1>4, <2>2 DEF Up
  <2> QED
    BY <1>3, <1>4, <2>2, <2>3
<1>5. rows[f] \in Folder => rows[f] \in Above(rows, f)
  <2>1. 0 \in 0..N
    BY <1>1
  <2> QED
    BY <1>2, <1>4, <2>1
<1>6. ASSUME NEW x \in Above(rows, f), rows[x] \in Folder
      PROVE  rows[x] \in Above(rows, f)
  <2>1. PICK n \in 1..N : x = up[n] /\ up[n] \in Folder
    BY <1>3
  <2>2. n \in 0..N
    BY <1>1
  <2> QED
    BY <1>4, <1>6, <2>1, <2>2
<1> QED
  BY <1>5, <1>6 DEF Closed

-----------------------------------------------------------------------------
(* A folder may be put to the root, or among folders closed under being    *)
(* above that it is not one of.                                            *)
LEMMA MovedIsFree ==
  ASSUME Numbered, NEW rows \in [Folder -> Folder \union {Root, Gone}],
         CircleFree(rows), NEW f \in Folder, NEW to,
         \/ to \notin Folder
         \/ \E P \in SUBSET Folder : to \in P /\ f \notin P /\ Closed(rows, P)
  PROVE  CircleFree([rows EXCEPT ![f] = to])
<1> PICK new : new = [rows EXCEPT ![f] = to]
  OBVIOUS
<1>1. new[f] = to /\ \A x \in Folder : x # f => new[x] = rows[x]
  OBVIOUS
<1> SUFFICES ASSUME NEW S \in SUBSET Folder, S # {}, \A x \in S : new[x] \in S
             PROVE  FALSE
  BY DEF CircleFree
<1>2. f \in S
  BY <1>1 DEF CircleFree
<1>3. to \in S
  BY <1>1, <1>2
<1>4. PICK P \in SUBSET Folder : to \in P /\ f \notin P /\ Closed(rows, P)
  BY <1>3
<1>5. \A x \in S \cap P : rows[x] \in S \cap P
  BY <1>1, <1>4 DEF Closed
<1> QED
  BY <1>3, <1>4, <1>5 DEF CircleFree

(* A row that is deleted, or made for a folder that nothing is in, closes  *)
(* no circle.                                                              *)
LEMMA DeletedIsFree ==
  ASSUME Numbered, NEW rows \in [Folder -> Folder \union {Root, Gone}],
         CircleFree(rows), NEW f \in Folder
  PROVE  CircleFree([rows EXCEPT ![f] = Gone])
BY MovedIsFree, FolderFacts

LEMMA CreatedIsFree ==
  ASSUME Numbered, NEW rows \in [Folder -> Folder \union {Root, Gone}],
         CircleFree(rows), NEW f \in Folder, NEW to, to # f,
         \A x \in Folder : rows[x] # f
  PROVE  CircleFree([rows EXCEPT ![f] = to])
<1> PICK new : new = [rows EXCEPT ![f] = to]
  OBVIOUS
<1>1. new[f] = to /\ \A x \in Folder : x # f => new[x] = rows[x]
  OBVIOUS
<1> SUFFICES ASSUME NEW S \in SUBSET Folder, S # {}, \A x \in S : new[x] \in S
             PROVE  FALSE
  BY DEF CircleFree
<1> PICK R : R = S \ {f}
  OBVIOUS
<1>2. R \in SUBSET Folder /\ \A x \in R : rows[x] \in R
  BY <1>1
<1>3. R # {}
  <2>1. f \in S => to \in R
    BY <1>1
  <2> QED
    BY <2>1
<1> QED
  BY <1>2, <1>3 DEF CircleFree

-----------------------------------------------------------------------------
(* The invariant.                                                          *)
Ats == {"idle", "get", "target", "folder", "walk", "put", "write", "own",
        "list", "reparent", "acl"}
Does == Updates \union FileMoves \union {"create", "delete"}
Places == Folder \union {Root}
Calls == [at : Ats, does : Does, id : Places, to : Places]

Types ==
  /\ parent \in [Folder -> Places \union {Gone}]
  /\ asked \in [Folder -> Places \union {Gone}]
  /\ owned \subseteq Folder /\ deleted \subseteq Folder
  /\ place \in Places /\ filed \in Places
  /\ backend \in {"local", "postgres"}
  /\ request \in [Request -> Calls]

(* The folders that have been: nothing is put anywhere else.               *)
Known == owned \union deleted

(* What a request is at, and what it has made sure of.                     *)
Shaped(q) ==
  /\ q.does \in FileMoves => q.at \in {"idle", "get", "target", "folder", "put"}
  /\ q.does \in Updates => q.at \in {"idle", "get", "target", "walk", "put", "write"}
  /\ q.does = "create" => q.at \in {"idle", "target", "put", "own"}
  /\ q.does = "delete" => q.at \in {"idle", "get", "list", "reparent", "acl"}
  /\ q.at = "target" => q.does # "label"
  /\ q.at \in {"target", "folder"} => q.does # "star"
  /\ q.at = "walk" => q.does = "move" /\ q.to \in Folder
  /\ q.at # "idle" /\ q.does \notin FileMoves => q.id \in Folder
  /\ q.does = "move" => q.id # q.to
Knows(q) ==
  /\ q.at \in {"folder", "walk", "put", "write"} /\ q.does # "star" =>
       q.to \in Known \union {Root}
  /\ q.at # "idle" /\ q.does \in Updates \union {"delete"} => q.id \in Known
  /\ q.at \in {"list", "reparent", "acl"} => q.id \in deleted
  /\ q.does = "create" /\ q.at \in {"target", "put"} =>
       q.id \notin Known /\ parent[q.id] = Gone
  /\ q.at = "own" => q.id \notin Known
  /\ q.at = "write" => backend = "local"

Refs ==
  /\ \A f \in Folder : parent[f] \in Known \union {Root, Gone}
  /\ filed \in Known \union {Root}
  /\ \A r \in Request : Shaped(request[r]) /\ Knows(request[r])
  /\ \A r, s \in Request :
       r # s /\ request[r].does = "create" /\ request[r].at # "idle" =>
         request[s].id # request[r].id

(* What an update will write closes no circle.                             *)
Free(q) ==
  q.at \in {"put", "write"} /\ q.does \in Updates =>
    /\ \/ q.to \notin Folder
       \/ \E P \in SUBSET Folder :
            q.to \in P /\ q.id \notin P /\ Closed(parent, P)
    /\ q.does = "label" => asked[q.id] = q.to
Shape ==
  ~muddled =>
    /\ CircleFree(parent) /\ FolderKept
    /\ \A r \in Request : Free(request[r])

(* The file's place, and what the requests that will move it know of it.   *)
FileKnown(q) ==
  /\ q.does = "star" /\ q.at = "put" => q.to = place
  /\ q.does = "file" /\ q.at = "put" /\ q.to \in Folder => parent[q.to] # Gone
  /\ q.at = "reparent" => q.id = place
File ==
  ~slipped =>
    /\ place = filed \/ (place = Root /\ filed \in deleted)
    /\ place \in Folder /\ place = filed /\ filed \notin Deleting =>
         parent[filed] # Gone
    /\ \A r \in Request : FileKnown(request[r])

IInv == Types /\ Refs /\ Shape /\ File /\ DeletedStays

-----------------------------------------------------------------------------
(* A step of r changes nothing of what the others hold.                    *)
LEMMA OneGoes ==
  ASSUME Types, NEW r \in Request, NEW q \in Calls, Goes(r, q)
  PROVE  /\ request' \in [Request -> Calls] /\ request'[r] = q
         /\ \A s \in Request : s # r => request'[s] = request[s]
BY DEF Types, Goes

LEMMA IdleIsCall ==
  Idle \in Calls /\ Idle.at = "idle" /\ Idle.id = Root /\ Idle.does = "label"
BY DEF Idle, Calls, Ats, Does, Updates, Places

LEMMA IdleKnows ==
  ASSUME Numbered
  PROVE  Shaped(Idle) /\ Knows(Idle)' /\ Free(Idle)' /\ FileKnown(Idle)'
BY IdleIsCall DEF Shaped, Knows, Free, FileKnown, Updates, FileMoves

(* Nobody else has the id of a folder that is being made.                  *)
Apart(r, q) ==
  \A s \in Request :
    /\ s # r
    /\ \/ q.does = "create" /\ q.at # "idle"
       \/ request[s].does = "create" /\ request[s].at # "idle"
    => request[s].id # q.id

LEMMA StaysApart ==
  ASSUME Numbered, IInv, NEW r \in Request, NEW q,
         \/ q = Idle
         \/ /\ request[r].at # "idle"
            /\ q.id = request[r].id /\ q.does = request[r].does
  PROVE  Apart(r, q)
<1>1. CASE q = Idle
  <2> SUFFICES ASSUME NEW s \in Request, s # r, request[s].does = "create",
                      request[s].at # "idle"
               PROVE  request[s].id # Root
    BY <1>1, IdleIsCall DEF Apart
  <2>1. request[s].id \in Folder
    BY DEF IInv, Refs, Shaped, FileMoves
  <2> QED
    BY <2>1, FolderFacts
<1>2. CASE /\ request[r].at # "idle"
           /\ q.id = request[r].id /\ q.does = request[r].does
  BY <1>2 DEF Apart, IInv, Refs
<1> QED
  BY <1>1, <1>2

LEMMA PairsApart ==
  ASSUME IInv, NEW r \in Request, NEW q \in Calls, Goes(r, q), Apart(r, q)
  PROVE  \A s, t \in Request :
           s # t /\ request'[s].does = "create" /\ request'[s].at # "idle" =>
             request'[t].id # request'[s].id
BY OneGoes DEF IInv, Refs, Apart

(* A step of r that changes no row, no place and no history of them.       *)
LEMMA RequestKeeps ==
  ASSUME Numbered, IInv, NEW r \in Request, NEW q \in Calls, Goes(r, q),
         Apart(r, q), request[r].at # "own",
         UNCHANGED <<backend, parent, owned, place, asked, filed, deleted>>,
         muddled' \in {muddled, TRUE}, slipped' \in {slipped, TRUE},
         Shaped(q), Knows(q), ~muddled' => Free(q), ~slipped' => FileKnown(q),
         ~slipped' /\ place = filed /\ place \in Folder
           /\ request[r].at \in {"list", "reparent"}
           /\ (q.at \in {"list", "reparent"} => q.id # request[r].id)
         => request[r].id # filed
  PROVE  IInv'
<1>1. /\ request' \in [Request -> Calls] /\ request'[r] = q
      /\ \A s \in Request : s # r => request'[s] = request[s]
  BY OneGoes DEF IInv
<1>2. Types'
  BY <1>1 DEF IInv, Types
<1>3. Refs'
  <2>1. ASSUME NEW s \in Request PROVE (Shaped(request[s]) /\ Knows(request[s]))'
    <3> PICK d : d = request'[s]
      OBVIOUS
    <3>1. Shaped(d) /\ Knows(d)
      BY <1>1 DEF IInv, Refs
    <3>2. Knows(d)'
      BY <3>1 DEF Knows, Known
    <3> QED
      BY <3>1, <3>2
  <2>2. /\ \A f \in Folder : parent'[f] \in Known' \union {Root, Gone}
        /\ filed' \in Known' \union {Root}
    BY DEF IInv, Refs, Known
  <2> QED
    BY <2>1, <2>2, PairsApart DEF Refs
<1>4. Shape'
  <2> SUFFICES ASSUME ~muddled' PROVE /\ CircleFree(parent)' /\ FolderKept'
                                      /\ \A s \in Request : Free(request[s])'
    BY DEF Shape
  <2>1. ~muddled
    OBVIOUS
  <2>2. CircleFree(parent)' /\ FolderKept'
    BY <2>1 DEF IInv, Shape, CircleFree, FolderKept
  <2>3. ASSUME NEW s \in Request PROVE Free(request[s])'
    <3> PICK d : d = request'[s]
      OBVIOUS
    <3>1. Free(d)
      BY <1>1, <2>1 DEF IInv, Shape
    <3>2. Free(d)'
      BY <3>1 DEF Free, Closed
    <3> QED
      BY <3>2
  <2> QED
    BY <2>2, <2>3
<1>5. File'
  <2> SUFFICES ASSUME ~slipped'
               PROVE  /\ place = filed \/ (place = Root /\ filed \in deleted)
                      /\ place \in Folder /\ place = filed /\ filed \notin Deleting'
                           => parent[filed] # Gone
                      /\ \A s \in Request : FileKnown(request[s])'
    BY DEF File
  <2>4. ~slipped
    OBVIOUS
  <2>1. File
    BY DEF IInv
  <2>2. ASSUME place \in Folder, place = filed, filed \in Deleting
        PROVE  filed \in Deleting'
    <3>1. PICK s \in Request : /\ request[s].at \in {"list", "reparent"}
                               /\ filed = request[s].id
      BY <2>2 DEF Deleting
    <3>2. /\ request'[s].at \in {"list", "reparent"}
          /\ request'[s].id = filed
      BY <1>1, <2>2, <3>1
    <3> QED
      BY <3>2 DEF Deleting
  <2>3. ASSUME NEW s \in Request PROVE FileKnown(request[s])'
    <3> PICK d : d = request'[s]
      OBVIOUS
    <3>1. FileKnown(d)
      BY <1>1, <2>1, <2>4 DEF File
    <3>2. FileKnown(d)'
      BY <3>1 DEF FileKnown
    <3> QED
      BY <3>2
  <2> QED
    BY <2>1, <2>2, <2>3, <2>4 DEF File
<1>6. DeletedStays'
  <2> SUFFICES ASSUME backend = "postgres", NEW f \in Folder
               PROVE  /\ f \in deleted => parent[f] = Gone
                      /\ parent[f] # Gone /\ f \notin owned =>
                           \E s \in Request : request'[s].at = "own"
                                              /\ request'[s].id = f
    BY DEF DeletedStays
  <2>1. DeletedStays
    BY DEF IInv
  <2>2. ASSUME NEW s \in Request, request[s].at = "own"
        PROVE  request'[s] = request[s]
    BY <1>1, <2>2
  <2> QED
    BY <2>1, <2>2 DEF DeletedStays
<1> QED
  BY <1>2, <1>3, <1>4, <1>5, <1>6 DEF IInv

-----------------------------------------------------------------------------
(* The steps that change the request only.                                 *)
LEMMA CallKeeps ==
  ASSUME Numbered, IInv, NEW r \in Request, Call(r)
  PROVE  IInv'
<1>1. PICK does \in Does, id \in Places, to \in Places :
        /\ (does \in FileMoves) = (id = Root)
        /\ does \in {"label", "star", "delete"} => to = Root
        /\ does \in Updates \union {"delete"} => id \in owned
        /\ does = "create" => /\ parent[id] = Gone
                              /\ id \notin owned \union deleted
                              /\ \A s \in Request : request[s].id # id
        /\ does = "move" => id # to
        /\ Goes(r, [at |-> IF does = "create" THEN "target" ELSE "get",
                    does |-> does, id |-> id, to |-> to])
  BY Zenon DEF Call, Does, Places
<1> PICK at : at = IF does = "create" THEN "target" ELSE "get"
  OBVIOUS
<1> PICK q : q = [at |-> at, does |-> does, id |-> id, to |-> to]
  OBVIOUS
<1>2. q \in Calls
  BY DEF Calls, Ats
<1>3. Shaped(q)
  BY <1>1, FolderFacts DEF Shaped, Updates, FileMoves, Does, Places
<1>4. Knows(q)
  BY <1>1 DEF Knows, Updates, FileMoves, Does, Known
<1>5. Apart(r, q)
  <2> SUFFICES ASSUME NEW s \in Request, s # r, request[s].id = id,
                      does # "create", request[s].does = "create",
                      request[s].at # "idle"
               PROVE  FALSE
    BY <1>1 DEF Apart
  <2>1. Shaped(request[s]) /\ Knows(request[s])
    BY DEF IInv, Refs
  <2>2. request[s].id \in Folder /\ request[s].at \in {"target", "put", "own"}
    BY <2>1 DEF Shaped, FileMoves
  <2>3. request[s].id \notin Known
    BY <2>1, <2>2 DEF Knows
  <2>4. id \in owned
    BY <1>1, <2>2, FolderFacts DEF Does, FileMoves, Updates
  <2> QED
    BY <2>3, <2>4 DEF Known
<1>6. request[r].at = "idle"
  BY IdleIsCall DEF Call
<1>7. Free(q) /\ FileKnown(q)
  BY <1>1 DEF Free, FileKnown
<1>8. Goes(r, q)
  BY <1>1
<1>9. UNCHANGED <<backend, parent, owned, place, asked, filed, deleted, muddled, slipped>>
  BY DEF Call, history
<1> QED
  BY <1>2, <1>3, <1>4, <1>5, <1>6, <1>7, <1>8, <1>9, RequestKeeps

(* A request that ends.                                                    *)
LEMMA EndKeeps ==
  ASSUME Numbered, IInv, NEW r \in Request, End(r),
         request[r].at \notin {"own", "list", "reparent"},
         UNCHANGED <<backend, parent, owned, place, history>>
  PROVE  IInv'
<1>1. Goes(r, Idle) /\ Idle \in Calls /\ Apart(r, Idle)
  BY IdleIsCall, StaysApart DEF End
<1>2. Shaped(Idle) /\ Knows(Idle) /\ Free(Idle) /\ FileKnown(Idle)
  BY IdleIsCall DEF Shaped, Knows, Free, FileKnown, Updates, FileMoves
<1> QED
  BY <1>1, <1>2, RequestKeeps DEF history

(* A request that goes on, the same folder or file still in hand.          *)
LEMMA GoesOnKeeps ==
  ASSUME Numbered, IInv, NEW r \in Request, NEW at \in Ats, NEW to \in Places,
         request[r].at \notin {"idle", "own", "list", "reparent"},
         Goes(r, [request[r] EXCEPT !.at = at, !.to = to]),
         UNCHANGED <<backend, parent, owned, place, asked, filed, deleted, slipped>>,
         muddled' \in {muddled, TRUE},
         Shaped([request[r] EXCEPT !.at = at, !.to = to]),
         Knows([request[r] EXCEPT !.at = at, !.to = to]),
         ~muddled' => Free([request[r] EXCEPT !.at = at, !.to = to]),
         ~slipped => FileKnown([request[r] EXCEPT !.at = at, !.to = to])
  PROVE  IInv'
<1> PICK q : q = [request[r] EXCEPT !.at = at, !.to = to]
  OBVIOUS
<1>1. request[r] \in Calls
  BY DEF IInv, Types
<1>2. q \in Calls /\ q.id = request[r].id /\ q.does = request[r].does
  BY <1>1 DEF Calls
<1>3. Apart(r, q)
  BY <1>2, StaysApart
<1> QED
  BY <1>2, <1>3, RequestKeeps

LEMMA WhatItIs ==
  ASSUME IInv, NEW r \in Request
  PROVE  /\ request[r] \in Calls /\ Shaped(request[r]) /\ Knows(request[r])
         /\ ~muddled => Free(request[r])
         /\ ~slipped => FileKnown(request[r])
BY DEF IInv, Types, Refs, Shape, File

LEMMA GetKeeps ==
  ASSUME Numbered, IInv, NEW r \in Request, Get(r)
  PROVE  IInv'
<1> PICK q : q = request[r]
  OBVIOUS
<1>1. q \in Calls /\ Shaped(q) /\ Knows(q)
  BY WhatItIs
<1>2. q.at = "get" /\ q.does # "delete"
  BY DEF Get
<1>3. UNCHANGED <<backend, parent, owned, place, asked, filed, deleted, muddled, slipped>>
  BY DEF Get, history
<1>4. CASE q.does \in Updates /\ parent[q.id] = Gone
  <2>1. End(r)
    BY <1>2, <1>4 DEF Get, Updates
  <2> QED
    BY <1>2, <1>3, <2>1, EndKeeps DEF history
<1>5. CASE q.does = "label" /\ parent[q.id] # Gone
  <2>1. q.id \in Folder /\ q.id \in Known
    BY <1>1, <1>2, <1>5 DEF Shaped, Knows, FileMoves, Updates
  <2> PICK to : to = parent[q.id]
    OBVIOUS
  <2>2. to \in Places /\ to \in Known \union {Root}
    BY <1>5, <2>1 DEF IInv, Types, Refs
  <2> PICK d : d = [q EXCEPT !.at = "put", !.to = to]
    OBVIOUS
  <2>3. Goes(r, d)
    BY <1>2, <1>5 DEF Get, Updates
  <2>4. d.at = "put" /\ d.does = "label" /\ d.id = q.id /\ d.to = to
    BY <1>1, <1>5 DEF Calls
  <2>5. Shaped(d) /\ Knows(d) /\ FileKnown(d)
    BY <2>1, <2>2, <2>4 DEF Shaped, Knows, FileKnown, Updates, FileMoves
  <2>6. ASSUME ~muddled PROVE Free(d)
    <3>1. CircleFree(parent) /\ FolderKept
      BY <2>6 DEF IInv, Shape
    <3>2. asked[q.id] = to
      BY <1>5, <2>1, <2>6, <3>1 DEF FolderKept
    <3> PICK P : P = Above(parent, q.id)
      OBVIOUS
    <3>3. Closed(parent, P) /\ q.id \notin P /\ (to \in Folder => to \in P)
      BY <2>1, <3>1, AboveIsClosed, NotAboveItself
    <3>4. P \in SUBSET Folder
      BY DEF Above
    <3> QED
      BY <2>4, <3>2, <3>3, <3>4 DEF Free
  <2>7. "put" \in Ats /\ request[r].at \notin {"idle", "own", "list", "reparent"}
    BY <1>2 DEF Ats
  <2> QED
    BY <1>3, <2>2, <2>3, <2>5, <2>6, <2>7, GoesOnKeeps
<1>6. CASE q.does = "star"
  <2> PICK d : d = [q EXCEPT !.at = "put", !.to = place]
    OBVIOUS
  <2>1. Goes(r, d)
    BY <1>2, <1>6 DEF Get, Updates
  <2>2. d.at = "put" /\ d.does = "star" /\ d.to = place
    BY <1>1, <1>6 DEF Calls
  <2>3. Shaped(d) /\ Knows(d) /\ FileKnown(d) /\ Free(d)
    BY <2>2 DEF Shaped, Knows, FileKnown, Free, Updates, FileMoves
  <2>4. place \in Places
    BY DEF IInv, Types
  <2>5. "put" \in Ats /\ request[r].at \notin {"idle", "own", "list", "reparent"}
    BY <1>2 DEF Ats
  <2> QED
    BY <1>3, <2>1, <2>3, <2>4, <2>5, GoesOnKeeps
<1>7. CASE q.does \notin {"label", "star"} /\ ~(q.does \in Updates /\ parent[q.id] = Gone)
  <2> PICK d : d = [q EXCEPT !.at = "target", !.to = q.to]
    OBVIOUS
  <2>1. Goes(r, d)
    <3>1. To(r, "target")
      BY <1>2, <1>7 DEF Get
    <3>2. d = [q EXCEPT !.at = "target"]
      BY <1>1 DEF Calls
    <3> QED
      BY <3>1, <3>2 DEF To
  <2>2. d.at = "target" /\ d.does = q.does /\ d.to = q.to /\ d.id = q.id
    BY <1>1 DEF Calls
  <2>3. q.does \in {"move", "file"}
    BY <1>1, <1>2, <1>7 DEF Shaped, Calls, Does, Updates, FileMoves
  <2>4. Shaped(d) /\ Knows(d) /\ FileKnown(d) /\ Free(d)
    BY <1>1, <1>2, <2>2, <2>3 DEF Shaped, Knows, FileKnown, Free, Updates, FileMoves
  <2>5. q.to \in Places
    BY <1>1 DEF Calls
  <2>6. "target" \in Ats /\ request[r].at \notin {"idle", "own", "list", "reparent"}
    BY <1>2 DEF Ats
  <2> QED
    BY <1>3, <2>1, <2>4, <2>5, <2>6, GoesOnKeeps
<1> QED
  BY <1>4, <1>5, <1>6, <1>7 DEF Updates

LEMMA TargetKeeps ==
  ASSUME Numbered, IInv, NEW r \in Request, Target(r)
  PROVE  IInv'
<1> PICK q : q = request[r]
  OBVIOUS
<1>1. q \in Calls /\ Shaped(q) /\ Knows(q)
  BY WhatItIs
<1>2. q.at = "target" /\ q.does \in {"move", "file", "create"}
  BY <1>1 DEF Target, Shaped, Calls, Does, Updates, FileMoves
<1>3. UNCHANGED <<backend, parent, owned, place, asked, filed, deleted, muddled, slipped>>
  BY DEF Target, history
<1>4. CASE q.to # Root /\ q.to \notin owned
  <2>1. End(r)
    BY <1>4 DEF Target
  <2> QED
    BY <1>2, <1>3, <2>1, EndKeeps DEF history
<1>5. CASE q.to = Root \/ q.to \in owned
  <2>1. PICK at \in {"put", "walk", "folder"} :
          /\ To(r, at)
          /\ at = "walk" => q.does = "move" /\ q.to # Root
          /\ at = "folder" => q.does = "file" /\ q.to # Root
          /\ at = "put" => q.does = "create" \/ q.to = Root
    BY <1>2, <1>5 DEF Target
  <2> PICK d : d = [q EXCEPT !.at = at, !.to = q.to]
    OBVIOUS
  <2>2. Goes(r, d)
    <3>1. d = [q EXCEPT !.at = at]
      BY <1>1 DEF Calls
    <3> QED
      BY <2>1, <3>1 DEF To
  <2>3. d.at = at /\ d.does = q.does /\ d.to = q.to /\ d.id = q.id
    BY <1>1 DEF Calls
  <2>4. q.to \in Known \union {Root} /\ q.to \in Places /\ Root \notin Folder
    BY <1>1, <1>5, FolderFacts DEF Calls, Known
  <2>5. Shaped(d)
    <3>1. at = "walk" => q.to \in Folder
      BY <2>1, <2>4 DEF Places
    <3> QED
      BY <1>1, <1>2, <2>1, <2>3, <3>1 DEF Shaped, Updates, FileMoves
  <2>6. Knows(d)
    BY <1>1, <1>2, <2>1, <2>3, <2>4 DEF Knows, Updates
  <2>7. Free(d)
    BY <1>2, <2>1, <2>3, <2>4 DEF Free, Updates
  <2>8. FileKnown(d)
    BY <1>2, <2>1, <2>3, <2>4 DEF FileKnown
  <2>9. at \in Ats /\ request[r].at \notin {"idle", "own", "list", "reparent"}
    BY <1>2 DEF Ats
  <2> QED
    BY <1>3, <2>2, <2>4, <2>5, <2>6, <2>7, <2>8, <2>9, GoesOnKeeps
<1> QED
  BY <1>4, <1>5

LEMMA TargetFolderKeeps ==
  ASSUME Numbered, IInv, NEW r \in Request, TargetFolder(r)
  PROVE  IInv'
<1> PICK q : q = request[r]
  OBVIOUS
<1>1. q \in Calls /\ Shaped(q) /\ Knows(q)
  BY WhatItIs
<1>2. q.at = "folder" /\ q.does = "file"
  BY <1>1 DEF TargetFolder, Shaped, Calls, Does, Updates, FileMoves
<1>3. UNCHANGED <<backend, parent, owned, place, asked, filed, deleted, muddled, slipped>>
  BY DEF TargetFolder, history
<1>4. CASE parent[q.to] = Gone
  <2>1. End(r)
    BY <1>4 DEF TargetFolder
  <2> QED
    BY <1>2, <1>3, <2>1, EndKeeps DEF history
<1>5. CASE parent[q.to] # Gone
  <2> PICK d : d = [q EXCEPT !.at = "put", !.to = q.to]
    OBVIOUS
  <2>1. Goes(r, d)
    <3>1. d = [q EXCEPT !.at = "put"]
      BY <1>1 DEF Calls
    <3>2. To(r, "put")
      BY <1>5 DEF TargetFolder
    <3> QED
      BY <3>1, <3>2 DEF To
  <2>2. d.at = "put" /\ d.does = "file" /\ d.to = q.to /\ d.id = q.id
    BY <1>1, <1>2 DEF Calls
  <2>3. Shaped(d) /\ Knows(d) /\ Free(d) /\ FileKnown(d)
    BY <1>1, <1>2, <1>5, <2>2
       DEF Shaped, Knows, Free, FileKnown, Updates, FileMoves
  <2>4. q.to \in Places /\ "put" \in Ats
        /\ request[r].at \notin {"idle", "own", "list", "reparent"}
    BY <1>1, <1>2 DEF Calls, Ats
  <2> QED
    BY <1>3, <2>1, <2>3, <2>4, GoesOnKeeps
<1> QED
  BY <1>4, <1>5

LEMMA WalkKeeps ==
  ASSUME Numbered, IInv, NEW r \in Request, Walk(r)
  PROVE  IInv'
<1> PICK q : q = request[r]
  OBVIOUS
<1>1. q \in Calls /\ Shaped(q) /\ Knows(q)
  BY WhatItIs
<1>2. q.at = "walk" /\ q.does = "move" /\ q.to \in Folder /\ q.id # q.to
      /\ q.id \in Folder
  BY <1>1 DEF Walk, Shaped, FileMoves
<1>3. UNCHANGED <<backend, parent, owned, place, asked, filed, deleted, slipped>>
  BY DEF Walk
<1>4. CASE End(r) /\ UNCHANGED muddled
  BY <1>2, <1>3, <1>4, EndKeeps DEF history
<1>5. CASE /\ To(r, "put")
           /\ \/ UNCHANGED muddled /\ ~IsDescendant(q.to, q.id)
              \/ muddled' = TRUE
  <2> PICK d : d = [q EXCEPT !.at = "put", !.to = q.to]
    OBVIOUS
  <2>1. Goes(r, d)
    <3>1. d = [q EXCEPT !.at = "put"]
      BY <1>1 DEF Calls
    <3> QED
      BY <1>5, <3>1 DEF To
  <2>2. d.at = "put" /\ d.does = "move" /\ d.to = q.to /\ d.id = q.id
    BY <1>1, <1>2 DEF Calls
  <2>3. Shaped(d) /\ Knows(d) /\ FileKnown(d)
    BY <1>1, <1>2, <2>2 DEF Shaped, Knows, FileKnown, Updates, FileMoves
  <2>4. ASSUME ~muddled' PROVE Free(d)
    <3>1. ~muddled /\ q.id \notin Above(parent, q.to)
      BY <1>5, <2>4 DEF IsDescendant, Walk
    <3>2. CircleFree(parent)
      BY <3>1 DEF IInv, Shape
    <3> PICK P : P = Above(parent, q.to) \union {q.to}
      OBVIOUS
    <3>3. Closed(parent, P)
      BY <1>2, <3>2, AboveIsClosed
    <3>4. P \in SUBSET Folder /\ q.to \in P /\ q.id \notin P
      BY <1>2, <3>1 DEF Above
    <3> QED
      BY <2>2, <3>3, <3>4 DEF Free
  <2>5. q.to \in Places /\ "put" \in Ats
        /\ request[r].at \notin {"idle", "own", "list", "reparent"}
    BY <1>1, <1>2 DEF Calls, Ats
  <2>6. muddled' \in {muddled, TRUE}
    BY <1>5
  <2> QED
    BY <1>3, <2>1, <2>3, <2>4, <2>5, <2>6, GoesOnKeeps
<1> QED
  BY <1>4, <1>5 DEF Walk

LEMMA ListFilesKeeps ==
  ASSUME Numbered, IInv, NEW r \in Request, ListFiles(r)
  PROVE  IInv'
<1> PICK q : q = request[r]
  OBVIOUS
<1>1. q \in Calls /\ Shaped(q) /\ Knows(q)
  BY WhatItIs
<1>2. q.at = "list" /\ q.does = "delete"
  BY <1>1 DEF ListFiles, Shaped, Calls, Does, Updates, FileMoves
<1>3. UNCHANGED <<backend, parent, owned, place, asked, filed, deleted, muddled>>
  BY DEF ListFiles
<1>4. PICK at \in {"reparent", "acl"} :
        /\ To(r, at)
        /\ slipped' \in {slipped, TRUE}
        /\ at = "reparent" => place = q.id
        /\ at = "acl" => place # q.id \/ slipped'
  BY DEF ListFiles
<1> PICK d : d = [q EXCEPT !.at = at]
  OBVIOUS
<1>5. Goes(r, d)
  BY <1>4 DEF To
<1>6. d \in Calls /\ d.at = at /\ d.does = "delete" /\ d.to = q.to /\ d.id = q.id
  BY <1>1, <1>2, <1>4 DEF Calls, Ats
<1>7. Shaped(d) /\ Knows(d) /\ Free(d) /\ FileKnown(d)
  BY <1>1, <1>2, <1>4, <1>6
     DEF Shaped, Knows, Free, FileKnown, Updates, FileMoves
<1>8. Apart(r, d)
  BY <1>2, <1>6, StaysApart
<1>9. ASSUME ~slipped', place = filed, d.at \in {"list", "reparent"} => d.id # q.id
      PROVE  q.id # filed
  BY <1>4, <1>6, <1>9
<1> QED
  BY <1>2, <1>3, <1>4, <1>5, <1>6, <1>7, <1>8, <1>9, RequestKeeps

-----------------------------------------------------------------------------
(* The steps that change rows.                                             *)
LEMMA WritesKeeps ==
  ASSUME Numbered, IInv, NEW r \in Request,
         request[r].at \in {"put", "write"}, request[r].does \in Updates,
         backend = "postgres" => parent[request[r].id] # Gone,
         Writes(r, request[r].id, request[r].to)
  PROVE  IInv'
<1> PICK q : q = request[r]
  OBVIOUS
<1> PICK f : f = q.id
  OBVIOUS
<1> PICK to : to = q.to
  OBVIOUS
<1>1. q \in Calls /\ Shaped(q) /\ Knows(q) /\ (~muddled => Free(q))
  BY WhatItIs
<1>2. f \in Folder /\ f \in Known /\ to \in Known \union {Root} /\ to \in Places
  BY <1>1 DEF Shaped, Knows, Calls, Updates, FileMoves
<1>3. to # Gone
  BY <1>2, FolderFacts DEF Places, Root, Gone
<1>4. /\ parent' = [parent EXCEPT ![f] = to]
      /\ asked' = IF q.does = "label" THEN asked ELSE [asked EXCEPT ![f] = to]
      /\ muddled' = (muddled \/ /\ parent[f] # to
                                /\ \E s \in Request \ {r} :
                                     /\ request[s].does \in Updates
                                     /\ request[s].at \notin {"idle", "get"})
      /\ End(r)
      /\ UNCHANGED <<backend, owned, place, calls, filed, deleted, slipped>>
  BY DEF Writes
<1>5. /\ request' \in [Request -> Calls] /\ request'[r] = Idle
      /\ \A s \in Request : s # r => request'[s] = request[s]
  BY <1>4, IdleIsCall, OneGoes DEF IInv, End
<1>6. /\ parent' \in [Folder -> Places \union {Gone}]
      /\ asked' \in [Folder -> Places \union {Gone}]
      /\ parent'[f] = to /\ \A x \in Folder : x # f => parent'[x] = parent[x]
  BY <1>2, <1>4 DEF IInv, Types
<1>7. Types'
  BY <1>4, <1>5, <1>6 DEF IInv, Types
<1>8. Known' = Known
  BY <1>4 DEF Known
<1>9. Refs'
  <2>1. ASSUME NEW s \in Request PROVE (Shaped(request[s]) /\ Knows(request[s]))'
    <3> PICK d : d = request'[s]
      OBVIOUS
    <3>1. CASE s = r
      BY <1>5, <3>1, IdleKnows
    <3>2. CASE s # r
      <4>1. d = request[s] /\ Shaped(d) /\ Knows(d)
        BY <1>5, <3>2, WhatItIs
      <4>2. d.does = "create" /\ d.at \in {"target", "put"} => parent'[d.id] = Gone
        <5> SUFFICES ASSUME d.does = "create", d.at \in {"target", "put"}
                     PROVE  parent'[d.id] = Gone
          OBVIOUS
        <5>1. d.id \in Folder /\ d.id \notin Known /\ parent[d.id] = Gone
          BY <4>1 DEF Shaped, Knows, FileMoves
        <5> QED
          BY <1>2, <1>6, <5>1
      <4>3. Knows(d)'
        BY <1>4, <1>8, <4>1, <4>2 DEF Knows
      <4> QED
        BY <4>1, <4>3
    <3> QED
      BY <3>1, <3>2
  <2>2. /\ \A x \in Folder : parent'[x] \in Known \union {Root, Gone}
        /\ filed' \in Known \union {Root}
    BY <1>2, <1>4, <1>6 DEF IInv, Refs
  <2>3. Goes(r, Idle) /\ Apart(r, Idle) /\ Idle \in Calls
    BY <1>4, StaysApart, IdleIsCall DEF End
  <2> QED
    BY <1>8, <2>1, <2>2, <2>3, PairsApart DEF Refs
<1>10. Shape'
  <2> SUFFICES ASSUME ~muddled' PROVE /\ CircleFree(parent)' /\ FolderKept'
                                      /\ \A s \in Request : Free(request[s])'
    BY DEF Shape
  <2>1. ~muddled
    BY <1>4
  <2>2. CircleFree(parent) /\ FolderKept /\ Free(q)
        /\ \A s \in Request : Free(request[s])
    BY <2>1 DEF IInv, Shape
  <2>3. CircleFree(parent')
    <3>1. \/ to \notin Folder
          \/ \E P \in SUBSET Folder : to \in P /\ f \notin P /\ Closed(parent, P)
      BY <2>2 DEF Free
    <3>2. parent \in [Folder -> Folder \union {Root, Gone}]
      BY DEF IInv, Types, Places
    <3> QED
      BY <1>2, <1>4, <2>2, <3>1, <3>2, MovedIsFree
  <2>4. asked'[f] = to /\ \A x \in Folder : x # f => asked'[x] = asked[x]
    <3>1. CASE q.does = "label"
      BY <1>4, <2>2, <3>1 DEF Free
    <3>2. CASE q.does # "label"
      BY <1>2, <1>4, <3>2 DEF IInv, Types
    <3> QED
      BY <3>1, <3>2
  <2>5. FolderKept'
    BY <1>6, <2>1, <2>2, <2>4 DEF FolderKept
  <2>6. ASSUME NEW s \in Request PROVE Free(request[s])'
    <3> PICK d : d = request'[s]
      OBVIOUS
    <3>1. CASE s = r
      BY <1>5, <3>1, IdleKnows
    <3>2. CASE s # r /\ d.at \in {"put", "write"} /\ d.does \in Updates
      <4>1. d = request[s]
        BY <1>5, <3>2
      <4>2. parent[f] = to
        BY <1>4, <3>2, <4>1
      <4>3. parent' = parent
        BY <1>4, <4>2, <1>2 DEF IInv, Types
      <4>4. asked[f] = to
        BY <1>2, <1>3, <2>1, <2>2, <4>2 DEF FolderKept
      <4>5. \A x \in Folder : asked'[x] = asked[x]
        BY <2>4, <4>4
      <4>6. d.id \in Folder
        BY <3>2, <4>1, WhatItIs DEF Shaped, Updates, FileMoves
      <4>7. Free(d)
        BY <2>2, <4>1
      <4>8. \A P : Closed(parent, P) => Closed(parent', P)
        BY <4>3
      <4>9. Free(d)'
        BY <4>5, <4>6, <4>7, <4>8 DEF Free, Closed
      <4> QED
        BY <4>9
    <3>3. CASE ~(d.at \in {"put", "write"} /\ d.does \in Updates)
      BY <3>3 DEF Free
    <3> QED
      BY <3>1, <3>2, <3>3
  <2> QED
    BY <2>3, <2>5, <2>6 DEF CircleFree
<1>11. File'
  <2> SUFFICES ASSUME ~slipped'
               PROVE  /\ (place = filed \/ (place = Root /\ filed \in deleted))'
                      /\ (place \in Folder /\ place = filed /\ filed \notin Deleting)'
                           => parent'[filed] # Gone
                      /\ \A s \in Request : FileKnown(request[s])'
    BY <1>4 DEF File
  <2>1. ~slipped /\ File
    BY <1>4 DEF IInv
  <2>2. \A x \in Folder : parent[x] # Gone => parent'[x] # Gone
    BY <1>3, <1>6
  <2>3. Deleting \subseteq Deleting'
    BY <1>5 DEF Deleting
  <2>4. ASSUME NEW s \in Request PROVE FileKnown(request[s])'
    <3> PICK d : d = request'[s]
      OBVIOUS
    <3>1. CASE s = r
      BY <1>5, <3>1, IdleKnows
    <3>2. CASE s # r
      <4>1. d = request[s] /\ FileKnown(d)
        BY <1>5, <2>1, <3>2 DEF File
      <4>2. FileKnown(d)'
        BY <1>4, <2>2, <4>1 DEF FileKnown
      <4> QED
        BY <4>2
    <3> QED
      BY <3>1, <3>2
  <2> QED
    BY <1>4, <2>1, <2>2, <2>3, <2>4 DEF File
<1>12. DeletedStays'
  <2> SUFFICES ASSUME backend = "postgres", NEW x \in Folder
               PROVE  /\ x \in deleted => parent'[x] = Gone
                      /\ parent'[x] # Gone /\ x \notin owned =>
                           \E s \in Request : request'[s].at = "own"
                                              /\ request'[s].id = x
    BY <1>4 DEF DeletedStays
  <2>1. DeletedStays /\ parent[f] # Gone
    BY DEF IInv
  <2>2. x \in deleted => x # f
    BY <1>2, <2>1 DEF DeletedStays
  <2>3. parent'[x] # Gone => parent[x] # Gone
    BY <1>6, <2>1
  <2>4. \A s \in Request : request[s].at = "own" => request'[s] = request[s]
    BY <1>5
  <2> QED
    BY <1>6, <2>1, <2>2, <2>3, <2>4 DEF DeletedStays
<1> QED
  BY <1>7, <1>9, <1>10, <1>11, <1>12 DEF IInv

LEMMA UpdateFolderKeeps ==
  ASSUME Numbered, IInv, NEW r \in Request, UpdateFolder(r)
  PROVE  IInv'
<1> PICK q : q = request[r]
  OBVIOUS
<1>1. q \in Calls /\ Shaped(q) /\ Knows(q) /\ (~muddled => Free(q))
  BY WhatItIs
<1>2. q.at = "put" /\ q.does \in Updates
  BY DEF UpdateFolder
<1>3. CASE End(r) /\ UNCHANGED <<backend, parent, owned, place, calls, history>>
  BY <1>2, <1>3, EndKeeps
<1>4. CASE /\ parent[q.id] # Gone /\ backend = "local" /\ To(r, "write")
           /\ UNCHANGED <<backend, parent, owned, place, calls, history>>
  <2> PICK d : d = [q EXCEPT !.at = "write", !.to = q.to]
    OBVIOUS
  <2>1. Goes(r, d)
    <3>1. d = [q EXCEPT !.at = "write"]
      BY <1>1 DEF Calls
    <3> QED
      BY <1>4, <3>1 DEF To
  <2>2. d.at = "write" /\ d.does = q.does /\ d.to = q.to /\ d.id = q.id
    BY <1>1 DEF Calls
  <2>3. Shaped(d) /\ Knows(d) /\ FileKnown(d)
    BY <1>1, <1>2, <1>4, <2>2 DEF Shaped, Knows, FileKnown, Updates, FileMoves
  <2>4. ~muddled => Free(d)
    BY <1>1, <1>2, <2>2 DEF Free
  <2>5. q.to \in Places /\ "write" \in Ats
        /\ request[r].at \notin {"idle", "own", "list", "reparent"}
    BY <1>1, <1>2 DEF Calls, Ats
  <2> QED
    BY <1>4, <2>1, <2>3, <2>4, <2>5, GoesOnKeeps DEF history
<1>5. CASE parent[q.id] # Gone /\ Writes(r, q.id, q.to)
  BY <1>2, <1>5, WritesKeeps
<1> QED
  BY <1>3, <1>4, <1>5 DEF UpdateFolder

LEMMA WriteFolderKeeps ==
  ASSUME Numbered, IInv, NEW r \in Request, WriteFolder(r)
  PROVE  IInv'
<1>1. Shaped(request[r]) /\ Knows(request[r]) /\ request[r] \in Calls
  BY WhatItIs
<1>2. request[r].at = "write"
  BY DEF WriteFolder
<1>3. request[r].does \in Updates /\ backend = "local"
  BY <1>1, <1>2 DEF Shaped, Knows, Calls, Does
<1> QED
  BY <1>2, <1>3, WritesKeeps DEF WriteFolder

LEMMA CreateFolderKeeps ==
  ASSUME Numbered, IInv, NEW r \in Request, CreateFolder(r)
  PROVE  IInv'
<1> PICK q : q = request[r]
  OBVIOUS
<1> PICK f : f = q.id
  OBVIOUS
<1> PICK to : to = q.to
  OBVIOUS
<1> PICK new : new = [q EXCEPT !.at = "own"]
  OBVIOUS
<1>1. q \in Calls /\ Shaped(q) /\ Knows(q) /\ q.at = "put" /\ q.does = "create"
  BY WhatItIs DEF CreateFolder
<1>2. f \in Folder /\ f \notin Known /\ parent[f] = Gone
      /\ to \in Known \union {Root} /\ to \in Places
  BY <1>1 DEF Shaped, Knows, Calls, Updates, FileMoves
<1>3. to # Gone /\ to # f /\ Root \notin Folder /\ Gone \notin Folder
  BY <1>2, FolderFacts DEF Places, Root, Gone
<1>4. /\ parent' = [parent EXCEPT ![f] = to] /\ asked' = [asked EXCEPT ![f] = to]
      /\ Goes(r, new)
      /\ UNCHANGED <<backend, owned, place, calls, filed, deleted, muddled, slipped>>
  BY DEF CreateFolder, To
<1>5. new \in Calls /\ new.at = "own" /\ new.does = "create" /\ new.id = f
  BY <1>1 DEF Calls, Ats
<1>6. /\ request' \in [Request -> Calls] /\ request'[r] = new
      /\ \A s \in Request : s # r => request'[s] = request[s]
  BY <1>4, <1>5, OneGoes DEF IInv
<1>7. /\ parent' \in [Folder -> Places \union {Gone}]
      /\ asked' \in [Folder -> Places \union {Gone}]
      /\ parent'[f] = to /\ \A x \in Folder : x # f => parent'[x] = parent[x]
      /\ asked'[f] = to /\ \A x \in Folder : x # f => asked'[x] = asked[x]
  BY <1>2, <1>4 DEF IInv, Types
<1>8. Types'
  BY <1>4, <1>6, <1>7 DEF IInv, Types
<1>9. Known' = Known
  BY <1>4 DEF Known
<1>10. \A s \in Request : s # r => request[s].id # f
  BY <1>1 DEF IInv, Refs
<1>11. Refs'
  <2>1. ASSUME NEW s \in Request PROVE (Shaped(request[s]) /\ Knows(request[s]))'
    <3> PICK d : d = request'[s]
      OBVIOUS
    <3>1. CASE s = r
      <4>1. d = new
        BY <1>6, <3>1
      <4> QED
        BY <1>1, <1>2, <1>5, <1>9, <4>1 DEF Shaped, Knows, Updates, FileMoves
    <3>2. CASE s # r
      <4>1. d = request[s] /\ Shaped(d) /\ Knows(d)
        BY <1>6, <3>2, WhatItIs
      <4>2. d.does = "create" /\ d.at \in {"target", "put"} => parent'[d.id] = Gone
        BY <1>7, <1>10, <3>2, <4>1 DEF Shaped, Knows, FileMoves
      <4>3. Knows(d)'
        BY <1>4, <1>9, <4>1, <4>2 DEF Knows
      <4> QED
        BY <4>1, <4>3
    <3> QED
      BY <3>1, <3>2
  <2>2. /\ \A x \in Folder : parent'[x] \in Known \union {Root, Gone}
        /\ filed' \in Known \union {Root}
    BY <1>2, <1>4, <1>7 DEF IInv, Refs
  <2>3. Apart(r, new)
    BY <1>1, <1>5, StaysApart
  <2> QED
    BY <1>4, <1>5, <1>9, <2>1, <2>2, <2>3, PairsApart DEF Refs
<1>12. Shape'
  <2> SUFFICES ASSUME ~muddled' PROVE /\ CircleFree(parent)' /\ FolderKept'
                                      /\ \A s \in Request : Free(request[s])'
    BY DEF Shape
  <2>1. CircleFree(parent) /\ FolderKept /\ \A s \in Request : Free(request[s])
    BY <1>4 DEF IInv, Shape
  <2>2. \A x \in Folder : parent[x] # f
    BY <1>2, <1>3 DEF IInv, Refs
  <2>3. CircleFree(parent')
    <3>1. parent \in [Folder -> Folder \union {Root, Gone}]
      BY DEF IInv, Types, Places
    <3> QED
      BY <1>2, <1>3, <1>4, <2>1, <2>2, <3>1, CreatedIsFree
  <2>4. FolderKept'
    BY <1>4, <1>7, <2>1 DEF FolderKept
  <2>5. ASSUME NEW s \in Request PROVE Free(request[s])'
    <3> PICK d : d = request'[s]
      OBVIOUS
    <3>1. CASE s = r \/ ~(d.at \in {"put", "write"} /\ d.does \in Updates)
      <4>1. d.at \notin {"put", "write"} \/ d.does \notin Updates
        BY <1>5, <1>6, <3>1
      <4> QED
        BY <4>1 DEF Free
    <3>2. CASE s # r /\ d.at \in {"put", "write"} /\ d.does \in Updates
      <4>1. d = request[s] /\ Shaped(d) /\ Knows(d) /\ Free(d)
        BY <1>6, <2>1, <3>2, WhatItIs
      <4>2. d.id \in Folder /\ d.id # f /\ d.to # f
        BY <1>2, <1>3, <1>10, <3>2, <4>1 DEF Shaped, Knows, Updates, FileMoves
      <4>3. ASSUME d.to \in Folder
            PROVE  \E P \in SUBSET Folder : d.to \in P /\ d.id \notin P /\ Closed(parent', P)
        <5>1. PICK P \in SUBSET Folder :
                d.to \in P /\ d.id \notin P /\ Closed(parent, P)
          BY <3>2, <4>1, <4>3 DEF Free
        <5> PICK R : R = P \ {f}
          OBVIOUS
        <5>2. Closed(parent', R)
          BY <1>7, <2>2, <5>1 DEF Closed
        <5> QED
          BY <4>2, <5>1, <5>2
      <4>4. d.does = "label" => asked'[d.id] = d.to
        BY <1>7, <3>2, <4>1, <4>2 DEF Free
      <4> QED
        BY <4>3, <4>4 DEF Free, Closed
    <3> QED
      BY <3>1, <3>2
  <2> QED
    BY <2>3, <2>4, <2>5 DEF CircleFree
<1>13. File'
  <2> SUFFICES ASSUME ~slipped'
               PROVE  /\ (place = filed \/ (place = Root /\ filed \in deleted))'
                      /\ (place \in Folder /\ place = filed /\ filed \notin Deleting)'
                           => parent'[filed] # Gone
                      /\ \A s \in Request : FileKnown(request[s])'
    BY <1>4 DEF File
  <2>1. ~slipped /\ File
    BY <1>4 DEF IInv
  <2>2. \A x \in Folder : parent[x] # Gone => parent'[x] # Gone
    BY <1>3, <1>7
  <2>3. Deleting \subseteq Deleting'
    BY <1>1, <1>6 DEF Deleting
  <2>4. ASSUME NEW s \in Request PROVE FileKnown(request[s])'
    <3> PICK d : d = request'[s]
      OBVIOUS
    <3>1. CASE s = r
      BY <1>5, <1>6, <3>1 DEF FileKnown
    <3>2. CASE s # r
      <4>1. d = request[s] /\ FileKnown(d)
        BY <1>6, <2>1, <3>2 DEF File
      <4>2. FileKnown(d)'
        BY <1>4, <2>2, <4>1 DEF FileKnown
      <4> QED
        BY <4>2
    <3> QED
      BY <3>1, <3>2
  <2> QED
    BY <1>4, <2>1, <2>2, <2>3, <2>4 DEF File
<1>14. DeletedStays'
  <2> SUFFICES ASSUME backend = "postgres", NEW x \in Folder
               PROVE  /\ x \in deleted => parent'[x] = Gone
                      /\ parent'[x] # Gone /\ x \notin owned =>
                           \E s \in Request : request'[s].at = "own"
                                              /\ request'[s].id = x
    BY <1>4 DEF DeletedStays
  <2>1. DeletedStays
    BY DEF IInv
  <2>2. x \in deleted => x # f
    BY <1>2 DEF Known
  <2>3. \A s \in Request : request[s].at = "own" => request'[s] = request[s]
    BY <1>1, <1>6
  <2>4. request'[r].at = "own" /\ request'[r].id = f
    BY <1>5, <1>6
  <2> QED
    BY <1>7, <2>1, <2>2, <2>3, <2>4 DEF DeletedStays
<1> QED
  BY <1>8, <1>11, <1>12, <1>13, <1>14 DEF IInv

(* A row that goes closes no circle, and leaves every update free.         *)
LEMMA ShapeWithoutRow ==
  ASSUME Numbered, IInv, NEW r \in Request, NEW q \in Calls, Goes(r, q),
         q.does \notin Updates \/ q.at = "idle", NEW f \in Folder,
         parent' = [parent EXCEPT ![f] = Gone], asked' = asked, muddled' = muddled
  PROVE  Shape'
<1>1. /\ request' \in [Request -> Calls] /\ request'[r] = q
      /\ \A s \in Request : s # r => request'[s] = request[s]
  BY OneGoes DEF IInv
<1>2. parent'[f] = Gone /\ \A x \in Folder : x # f => parent'[x] = parent[x]
  BY DEF IInv, Types
<1> SUFFICES ASSUME ~muddled' PROVE /\ CircleFree(parent)' /\ FolderKept'
                                    /\ \A s \in Request : Free(request[s])'
  BY DEF Shape
<1>3. CircleFree(parent) /\ FolderKept /\ \A s \in Request : Free(request[s])
  BY DEF IInv, Shape
<1>4. CircleFree(parent')
  <2>1. parent \in [Folder -> Folder \union {Root, Gone}]
    BY DEF IInv, Types, Places
  <2> QED
    BY <1>3, <2>1, DeletedIsFree
<1>5. FolderKept'
  BY <1>2, <1>3 DEF FolderKept
<1>6. \A P \in SUBSET Folder : Closed(parent, P) => Closed(parent', P)
  BY <1>2, FolderFacts DEF Closed
<1>7. ASSUME NEW s \in Request PROVE Free(request[s])'
  <2>1. CASE s = r
    BY <1>1, <2>1 DEF Free
  <2>2. CASE s # r
    BY <1>1, <1>3, <1>6, <2>2 DEF Free, Closed
  <2> QED
    BY <2>1, <2>2
<1> QED
  BY <1>4, <1>5, <1>7 DEF CircleFree

LEMMA RecordOwnerKeeps ==
  ASSUME Numbered, IInv, NEW r \in Request, RecordOwner(r)
  PROVE  IInv'
<1> PICK q : q = request[r]
  OBVIOUS
<1> PICK f : f = q.id
  OBVIOUS
<1>1. q \in Calls /\ Shaped(q) /\ Knows(q) /\ q.at = "own" /\ q.does = "create"
  BY WhatItIs DEF RecordOwner, Shaped, Calls, Does, Updates, FileMoves
<1>2. f \in Folder /\ f \notin Known
  BY <1>1 DEF Shaped, Knows, FileMoves
<1>3. /\ \/ owned' = owned \union {f} /\ UNCHANGED <<parent, deleted>>
         \/ /\ parent' = [parent EXCEPT ![f] = Gone] /\ UNCHANGED owned
            /\ deleted' = deleted \union {f}
      /\ Goes(r, Idle)
      /\ UNCHANGED <<backend, place, calls, asked, filed, muddled, slipped>>
  BY DEF RecordOwner, End
<1>4. /\ request' \in [Request -> Calls] /\ request'[r] = Idle
      /\ \A s \in Request : s # r => request'[s] = request[s]
  BY <1>3, IdleIsCall, OneGoes DEF IInv
<1>5. /\ parent' \in [Folder -> Places \union {Gone}]
      /\ \A x \in Folder : x # f => parent'[x] = parent[x]
      /\ parent'[f] \in {parent[f], Gone}
  BY <1>2, <1>3 DEF IInv, Types
<1>6. Types'
  BY <1>2, <1>3, <1>4, <1>5 DEF IInv, Types
<1>7. Known' = Known \union {f}
  BY <1>3 DEF Known
<1>8. \A s \in Request : s # r => request[s].id # f
  BY <1>1 DEF IInv, Refs
<1>9. Refs'
  <2>1. ASSUME NEW s \in Request PROVE (Shaped(request[s]) /\ Knows(request[s]))'
    <3> PICK d : d = request'[s]
      OBVIOUS
    <3>1. CASE s = r
      BY <1>4, <3>1, IdleKnows
    <3>2. CASE s # r
      <4>1. d = request[s] /\ Shaped(d) /\ Knows(d) /\ d.id # f
        BY <1>4, <1>8, <3>2, WhatItIs
      <4>2. d.does = "create" /\ d.at \in {"target", "put"} => parent'[d.id] = Gone
        BY <1>5, <4>1 DEF Shaped, Knows, FileMoves
      <4>3. d.at \in {"list", "reparent", "acl"} => d.id \in deleted'
        BY <1>3, <4>1 DEF Knows
      <4>4. Knows(d)'
        BY <1>3, <1>7, <4>1, <4>2, <4>3 DEF Knows
      <4> QED
        BY <4>1, <4>4
    <3> QED
      BY <3>1, <3>2
  <2>2. /\ \A x \in Folder : parent'[x] \in Known' \union {Root, Gone}
        /\ filed' \in Known' \union {Root}
    BY <1>2, <1>3, <1>5, <1>7 DEF IInv, Refs
  <2>3. Apart(r, Idle) /\ Idle \in Calls
    BY StaysApart, IdleIsCall
  <2> QED
    BY <1>3, <2>1, <2>2, <2>3, PairsApart DEF Refs
<1>10. Shape'
  <2>1. CASE parent' = [parent EXCEPT ![f] = Gone]
    BY <1>2, <1>3, <2>1, IdleIsCall, ShapeWithoutRow
  <2>2. CASE parent' = parent
    <3> SUFFICES ASSUME ~muddled' PROVE /\ CircleFree(parent)' /\ FolderKept'
                                        /\ \A s \in Request : Free(request[s])'
      BY DEF Shape
    <3>1. CircleFree(parent) /\ FolderKept /\ \A s \in Request : Free(request[s])
      BY <1>3 DEF IInv, Shape
    <3>2. CircleFree(parent)' /\ FolderKept'
      BY <1>3, <2>2, <3>1 DEF CircleFree, FolderKept
    <3>3. ASSUME NEW s \in Request PROVE Free(request[s])'
      <4>1. CASE s = r
        BY <1>4, <4>1, IdleKnows
      <4>2. CASE s # r
        BY <1>3, <1>4, <2>2, <3>1, <4>2 DEF Free, Closed
      <4> QED
        BY <4>1, <4>2
    <3> QED
      BY <3>2, <3>3
  <2> QED
    BY <1>3, <2>1, <2>2
<1>11. File'
  <2> SUFFICES ASSUME ~slipped'
               PROVE  /\ (place = filed \/ (place = Root /\ filed \in deleted))'
                      /\ (place \in Folder /\ place = filed /\ filed \notin Deleting)'
                           => parent'[filed] # Gone
                      /\ \A s \in Request : FileKnown(request[s])'
    BY <1>3 DEF File
  <2>1. ~slipped /\ File
    BY <1>3 DEF IInv
  <2>2. \A x \in Known : x \in Folder => parent'[x] = parent[x]
    BY <1>2, <1>5
  <2>3. Deleting \subseteq Deleting'
    BY <1>1, <1>4 DEF Deleting
  <2>4. ASSUME NEW s \in Request PROVE FileKnown(request[s])'
    <3> PICK d : d = request'[s]
      OBVIOUS
    <3>1. CASE s = r
      BY <1>4, <3>1, IdleKnows
    <3>2. CASE s # r
      <4>1. d = request[s] /\ FileKnown(d) /\ Knows(d)
        BY <1>4, <2>1, <3>2, WhatItIs DEF File
      <4>2. d.does = "file" /\ d.at = "put" /\ d.to \in Folder => d.to \in Known
        BY <4>1, FolderFacts DEF Knows
      <4>3. FileKnown(d)'
        BY <1>3, <2>2, <4>1, <4>2 DEF FileKnown
      <4> QED
        BY <4>3
    <3> QED
      BY <3>1, <3>2
  <2>5. filed \in Folder => filed \in Known
    BY FolderFacts DEF IInv, Refs
  <2> QED
    BY <1>3, <2>1, <2>2, <2>3, <2>4, <2>5 DEF File
<1>12. DeletedStays'
  <2> SUFFICES ASSUME backend = "postgres", NEW x \in Folder
               PROVE  /\ x \in deleted' => parent'[x] = Gone
                      /\ parent'[x] # Gone /\ x \notin owned' =>
                           \E s \in Request : request'[s].at = "own"
                                              /\ request'[s].id = x
    BY <1>3 DEF DeletedStays
  <2>1. DeletedStays
    BY DEF IInv
  <2>2. CASE x = f
    <3>1. f \in deleted' => parent'[f] = Gone
      BY <1>2, <1>3 DEF IInv, Types, Known
    <3>2. f \in owned' \/ parent'[f] = Gone
      BY <1>2, <1>3 DEF IInv, Types
    <3> QED
      BY <2>2, <3>1, <3>2
  <2>3. CASE x # f
    <3>1. x \in deleted' => parent'[x] = Gone
      BY <1>3, <1>5, <2>1, <2>3 DEF DeletedStays
    <3>2. ASSUME parent'[x] # Gone, x \notin owned'
          PROVE  \E s \in Request : request'[s].at = "own" /\ request'[s].id = x
      <4>1. PICK s \in Request : request[s].at = "own" /\ request[s].id = x
        BY <1>3, <1>5, <2>1, <2>3, <3>2 DEF DeletedStays
      <4>2. s # r
        BY <2>3, <4>1
      <4> QED
        BY <1>4, <4>1, <4>2
    <3> QED
      BY <3>1, <3>2
  <2> QED
    BY <2>2, <2>3
<1> QED
  BY <1>6, <1>9, <1>10, <1>11, <1>12 DEF IInv

LEMMA DeleteFolderKeeps ==
  ASSUME Numbered, IInv, NEW r \in Request, DeleteFolder(r)
  PROVE  IInv'
<1> PICK q : q = request[r]
  OBVIOUS
<1> PICK f : f = q.id
  OBVIOUS
<1>1. q \in Calls /\ Shaped(q) /\ Knows(q) /\ q.at = "get" /\ q.does = "delete"
  BY WhatItIs DEF DeleteFolder
<1>2. f \in Folder /\ f \in Known
  BY <1>1 DEF Shaped, Knows, FileMoves
<1> PICK new : new = IF parent[f] = Gone THEN Idle ELSE [q EXCEPT !.at = "list"]
  OBVIOUS
<1>3. /\ parent' = [parent EXCEPT ![f] = Gone]
      /\ deleted' = deleted \union {f}
      /\ Goes(r, new)
      /\ slipped' = (slipped \/ \E s \in Request :
                                  /\ request[s].does \in FileMoves /\ Holds(s)
                                  /\ request[s].at = "put"
                                  /\ request[s].to = f)
      /\ UNCHANGED <<backend, owned, place, calls, asked, filed, muddled>>
  BY DEF DeleteFolder, End, To
<1>4. /\ new \in Calls
      /\ \/ new = Idle /\ parent[f] = Gone
         \/ new.at = "list" /\ new.does = "delete" /\ new.id = f
  BY <1>1, IdleIsCall DEF Calls, Ats
<1>5. /\ request' \in [Request -> Calls] /\ request'[r] = new
      /\ \A s \in Request : s # r => request'[s] = request[s]
  BY <1>3, <1>4, OneGoes DEF IInv
<1>6. /\ parent' \in [Folder -> Places \union {Gone}] /\ parent'[f] = Gone
      /\ \A x \in Folder : x # f => parent'[x] = parent[x]
  BY <1>2, <1>3 DEF IInv, Types
<1>7. Types'
  BY <1>2, <1>3, <1>5, <1>6 DEF IInv, Types
<1>8. Known' = Known
  BY <1>2, <1>3 DEF Known
<1>9. Refs'
  <2>1. ASSUME NEW s \in Request PROVE (Shaped(request[s]) /\ Knows(request[s]))'
    <3> PICK d : d = request'[s]
      OBVIOUS
    <3>1. CASE s = r /\ new = Idle
      BY <1>5, <3>1, IdleKnows
    <3>2. CASE s = r /\ new # Idle
      <4>1. d = new
        BY <1>5, <3>2
      <4> QED
        BY <1>2, <1>3, <1>4, <1>8, <3>2, <4>1
           DEF Shaped, Knows, Updates, FileMoves
    <3>3. CASE s # r
      <4>1. d = request[s] /\ Shaped(d) /\ Knows(d)
        BY <1>5, <3>3, WhatItIs
      <4>2. d.does = "create" /\ d.at \in {"target", "put"} => parent'[d.id] = Gone
        BY <1>6, <4>1 DEF Shaped, Knows, FileMoves
      <4>3. Knows(d)'
        BY <1>3, <1>8, <4>1, <4>2 DEF Knows
      <4> QED
        BY <4>1, <4>3
    <3> QED
      BY <3>1, <3>2, <3>3
  <2>2. /\ \A x \in Folder : parent'[x] \in Known \union {Root, Gone}
        /\ filed' \in Known \union {Root}
    BY <1>3, <1>6 DEF IInv, Refs
  <2>3. Apart(r, new)
    BY <1>1, <1>4, StaysApart
  <2> QED
    BY <1>3, <1>4, <1>8, <2>1, <2>2, <2>3, PairsApart DEF Refs
<1>10. Shape'
  <2>1. new.does \notin Updates \/ new.at = "idle"
    BY <1>4, IdleIsCall DEF Updates
  <2> QED
    BY <1>2, <1>3, <1>4, <2>1, ShapeWithoutRow
<1>11. File'
  <2> SUFFICES ASSUME ~slipped'
               PROVE  /\ (place = filed \/ (place = Root /\ filed \in deleted))'
                      /\ (place \in Folder /\ place = filed /\ filed \notin Deleting)'
                           => parent'[filed] # Gone
                      /\ \A s \in Request : FileKnown(request[s])'
    BY <1>3 DEF File
  <2>1. ~slipped /\ File
    BY <1>3 DEF IInv
  <2>2. Deleting \subseteq Deleting'
    BY <1>1, <1>5 DEF Deleting
  <2>3. ASSUME place' \in Folder, place' = filed', filed' \notin Deleting'
        PROVE  parent'[filed] # Gone
    <3>1. parent[filed] # Gone
      BY <1>3, <2>1, <2>2, <2>3 DEF File
    <3>2. CASE filed = f
      <4>1. new.at = "list" /\ new.id = f
        BY <1>4, <3>1, <3>2
      <4>2. f \in Deleting'
        BY <1>5, <4>1 DEF Deleting
      <4> QED
        BY <1>3, <2>3, <3>2, <4>2
    <3>3. CASE filed # f
      BY <1>3, <1>6, <2>3, <3>1, <3>3
    <3> QED
      BY <3>2, <3>3
  <2>4. ASSUME NEW s \in Request PROVE FileKnown(request[s])'
    <3> PICK d : d = request'[s]
      OBVIOUS
    <3>1. CASE s = r
      <4>1. d.does # "star" /\ d.does # "file" /\ d.at # "reparent"
        BY <1>4, <1>5, <3>1, IdleIsCall
      <4> QED
        BY <4>1 DEF FileKnown
    <3>2. CASE s # r
      <4>1. d = request[s] /\ FileKnown(d)
        BY <1>5, <2>1, <3>2 DEF File
      <4>2. d.does = "file" /\ d.at = "put" => d.to # f
        BY <1>3, <4>1 DEF FileMoves, Holds
      <4>3. FileKnown(d)'
        BY <1>3, <1>6, <4>1, <4>2 DEF FileKnown
      <4> QED
        BY <4>3
    <3> QED
      BY <3>1, <3>2
  <2> QED
    BY <1>3, <2>1, <2>3, <2>4 DEF File
<1>12. DeletedStays'
  <2> SUFFICES ASSUME backend = "postgres", NEW x \in Folder
               PROVE  /\ x \in deleted' => parent'[x] = Gone
                      /\ parent'[x] # Gone /\ x \notin owned =>
                           \E s \in Request : request'[s].at = "own"
                                              /\ request'[s].id = x
    BY <1>3 DEF DeletedStays
  <2>1. DeletedStays
    BY DEF IInv
  <2>2. \A s \in Request : request[s].at = "own" => request'[s] = request[s]
    BY <1>1, <1>5
  <2> QED
    BY <1>3, <1>6, <2>1, <2>2 DEF DeletedStays
<1> QED
  BY <1>7, <1>9, <1>10, <1>11, <1>12 DEF IInv

(* A step that changes no row, and no history of the rows.                 *)
LEMMA RowsKeep ==
  ASSUME Numbered, IInv, NEW r \in Request, NEW q \in Calls, Goes(r, q),
         q.at \notin {"put", "write"}, request[r].at # "own",
         UNCHANGED <<parent, asked, deleted, muddled, backend>>,
         \/ owned' = owned
         \/ \E f \in deleted : owned' = owned \ {f}
  PROVE  Shape' /\ DeletedStays' /\ Known' = Known
<1>1. /\ request' \in [Request -> Calls] /\ request'[r] = q
      /\ \A s \in Request : s # r => request'[s] = request[s]
  BY OneGoes DEF IInv
<1>2. Shape'
  <2> SUFFICES ASSUME ~muddled' PROVE /\ CircleFree(parent)' /\ FolderKept'
                                      /\ \A s \in Request : Free(request[s])'
    BY DEF Shape
  <2>1. CircleFree(parent) /\ FolderKept /\ \A s \in Request : Free(request[s])
    BY DEF IInv, Shape
  <2>2. CircleFree(parent)' /\ FolderKept'
    BY <2>1 DEF CircleFree, FolderKept
  <2>3. ASSUME NEW s \in Request PROVE Free(request[s])'
    <3>1. CASE s = r
      BY <1>1, <3>1 DEF Free
    <3>2. CASE s # r
      BY <1>1, <2>1, <3>2 DEF Free, Closed
    <3> QED
      BY <3>1, <3>2
  <2> QED
    BY <2>2, <2>3
<1>3. Known' = Known
  BY DEF Known
<1>4. DeletedStays'
  <2> SUFFICES ASSUME backend = "postgres", NEW x \in Folder
               PROVE  /\ x \in deleted => parent[x] = Gone
                      /\ parent[x] # Gone /\ x \notin owned' =>
                           \E s \in Request : request'[s].at = "own"
                                              /\ request'[s].id = x
    BY DEF DeletedStays
  <2>1. DeletedStays
    BY DEF IInv
  <2>2. \A s \in Request : request[s].at = "own" => request'[s] = request[s]
    BY <1>1
  <2>3. parent[x] # Gone => (x \in owned' <=> x \in owned)
    BY <2>1 DEF DeletedStays
  <2> QED
    BY <2>1, <2>2, <2>3 DEF DeletedStays
<1> QED
  BY <1>2, <1>3, <1>4

LEMMA MoveFileKeeps ==
  ASSUME Numbered, IInv, NEW r \in Request, MoveFile(r)
  PROVE  IInv'
<1> PICK q : q = request[r]
  OBVIOUS
<1>1. q \in Calls /\ Shaped(q) /\ Knows(q) /\ q.at = "put" /\ q.does \in FileMoves
      /\ (~slipped => FileKnown(q))
  BY WhatItIs DEF MoveFile
<1>2. /\ place' = q.to
      /\ filed' = IF q.does = "star" THEN filed ELSE q.to
      /\ slipped' = (slipped \/ \E s \in Request \ {r} : Holds(s))
      /\ Goes(r, Idle)
      /\ UNCHANGED <<backend, parent, owned, calls, asked, deleted, muddled>>
  BY DEF MoveFile, End
<1>3. /\ request' \in [Request -> Calls] /\ request'[r] = Idle
      /\ \A s \in Request : s # r => request'[s] = request[s]
  BY <1>2, IdleIsCall, OneGoes DEF IInv
<1>4. q.to \in Places /\ (q.does = "file" => q.to \in Known \union {Root})
  BY <1>1 DEF Calls, Knows
<1>5. Types'
  BY <1>2, <1>3, <1>4 DEF IInv, Types
<1>6. Shape' /\ DeletedStays' /\ Known' = Known
  BY <1>1, <1>2, IdleIsCall, RowsKeep
<1>7. Refs'
  <2>1. ASSUME NEW s \in Request PROVE (Shaped(request[s]) /\ Knows(request[s]))'
    <3> PICK d : d = request'[s]
      OBVIOUS
    <3>1. CASE s = r
      BY <1>3, <3>1, IdleKnows
    <3>2. CASE s # r
      <4>1. d = request[s] /\ Shaped(d) /\ Knows(d)
        BY <1>3, <3>2, WhatItIs
      <4>2. Knows(d)'
        BY <1>2, <1>6, <4>1 DEF Knows
      <4> QED
        BY <4>1, <4>2
    <3> QED
      BY <3>1, <3>2
  <2>2. filed' \in Known \union {Root}
    BY <1>1, <1>2, <1>4 DEF IInv, Refs, FileMoves
  <2>3. \A x \in Folder : parent'[x] \in Known \union {Root, Gone}
    BY <1>2 DEF IInv, Refs
  <2>4. Apart(r, Idle) /\ Idle \in Calls
    BY StaysApart, IdleIsCall
  <2> QED
    BY <1>2, <1>6, <2>1, <2>2, <2>3, <2>4, PairsApart DEF Refs
<1>8. File'
  <2> SUFFICES ASSUME ~slipped'
               PROVE  /\ (place = filed \/ (place = Root /\ filed \in deleted))'
                      /\ (place \in Folder /\ place = filed /\ filed \notin Deleting)'
                           => parent'[filed'] # Gone
                      /\ \A s \in Request : FileKnown(request[s])'
    BY DEF File
  <2>1. ~slipped /\ File /\ FileKnown(q) /\ \A s \in Request \ {r} : ~Holds(s)
    BY <1>1, <1>2 DEF IInv
  <2>2. Deleting \subseteq Deleting'
    BY <1>1, <1>3 DEF Deleting
  <2>3. ASSUME NEW s \in Request PROVE FileKnown(request[s])'
    <3> PICK d : d = request'[s]
      OBVIOUS
    <3>1. CASE s = r
      BY <1>3, <3>1, IdleKnows
    <3>2. CASE s # r
      <4>1. d = request[s] /\ Shaped(d) /\ d \in Calls /\ ~Holds(s)
        BY <1>3, <2>1, <3>2, WhatItIs
      <4>2. ~(d.does \in FileMoves /\ d.at = "put") /\ d.at # "reparent"
        BY <4>1 DEF Holds, Shaped, Calls, Does, Updates, FileMoves
      <4> QED
        BY <4>2 DEF FileKnown, FileMoves
    <3> QED
      BY <3>1, <3>2
  <2>4. CASE q.does = "star"
    <3>1. place' = place /\ filed' = filed
      BY <1>1, <1>2, <2>1, <2>4 DEF FileKnown
    <3> QED
      BY <1>2, <2>1, <2>2, <2>3, <3>1 DEF File
  <2>5. CASE q.does = "file"
    <3>1. place' = q.to /\ filed' = q.to /\ (q.to \in Folder => parent[q.to] # Gone)
      BY <1>1, <1>2, <2>1, <2>5 DEF FileKnown
    <3> QED
      BY <1>2, <2>3, <3>1
  <2> QED
    BY <1>1, <2>4, <2>5 DEF FileMoves
<1> QED
  BY <1>5, <1>6, <1>7, <1>8 DEF IInv

LEMMA ReparentKeeps ==
  ASSUME Numbered, IInv, NEW r \in Request, Reparent(r)
  PROVE  IInv'
<1> PICK q : q = request[r]
  OBVIOUS
<1>1. q \in Calls /\ Shaped(q) /\ Knows(q) /\ q.at = "reparent" /\ q.does = "delete"
      /\ (~slipped => FileKnown(q))
  BY WhatItIs DEF Reparent, Shaped, Calls, Does, Updates, FileMoves
<1> PICK new : new = [q EXCEPT !.at = "acl"]
  OBVIOUS
<1>2. /\ \/ /\ place' = Root
            /\ slipped' = (slipped \/ \E s \in Request \ {r} : Holds(s))
         \/ UNCHANGED place /\ slipped' = TRUE
      /\ Goes(r, new)
      /\ UNCHANGED <<backend, parent, owned, calls, asked, filed, deleted, muddled>>
  BY DEF Reparent, To
<1>3. new \in Calls /\ new.at = "acl" /\ new.does = "delete" /\ new.id = q.id
  BY <1>1 DEF Calls, Ats
<1>4. /\ request' \in [Request -> Calls] /\ request'[r] = new
      /\ \A s \in Request : s # r => request'[s] = request[s]
  BY <1>2, <1>3, OneGoes DEF IInv
<1>5. Types'
  BY <1>2, <1>4 DEF IInv, Types, Places
<1>6. Shape' /\ DeletedStays' /\ Known' = Known
  BY <1>1, <1>2, <1>3, RowsKeep
<1>7. Refs'
  <2>1. ASSUME NEW s \in Request PROVE (Shaped(request[s]) /\ Knows(request[s]))'
    <3> PICK d : d = request'[s]
      OBVIOUS
    <3>1. CASE s = r
      <4>1. d = new
        BY <1>4, <3>1
      <4> QED
        BY <1>1, <1>2, <1>3, <1>6, <4>1 DEF Shaped, Knows, Updates, FileMoves
    <3>2. CASE s # r
      <4>1. d = request[s] /\ Shaped(d) /\ Knows(d)
        BY <1>4, <3>2, WhatItIs
      <4>2. Knows(d)'
        BY <1>2, <1>6, <4>1 DEF Knows
      <4> QED
        BY <4>1, <4>2
    <3> QED
      BY <3>1, <3>2
  <2>2. /\ \A x \in Folder : parent'[x] \in Known \union {Root, Gone}
        /\ filed' \in Known \union {Root}
    BY <1>2 DEF IInv, Refs
  <2>3. Apart(r, new)
    BY <1>1, <1>3, StaysApart
  <2> QED
    BY <1>2, <1>3, <1>6, <2>1, <2>2, <2>3, PairsApart DEF Refs
<1>8. File'
  <2> SUFFICES ASSUME ~slipped'
               PROVE  /\ (place = filed \/ (place = Root /\ filed \in deleted))'
                      /\ (place \in Folder /\ place = filed /\ filed \notin Deleting)'
                           => parent'[filed'] # Gone
                      /\ \A s \in Request : FileKnown(request[s])'
    BY DEF File
  <2>1. ~slipped /\ File /\ FileKnown(q) /\ place' = Root
        /\ \A s \in Request \ {r} : ~Holds(s)
    BY <1>1, <1>2 DEF IInv
  <2>2. Root \notin Folder /\ place \in Folder
    BY <1>1, <2>1, FolderFacts DEF FileKnown, Shaped, FileMoves
  <2>3. place = filed /\ filed \in deleted
    BY <1>1, <2>1, <2>2 DEF File, FileKnown, Knows
  <2>4. ASSUME NEW s \in Request PROVE FileKnown(request[s])'
    <3> PICK d : d = request'[s]
      OBVIOUS
    <3>1. CASE s = r
      <4>1. d = new
        BY <1>4, <3>1
      <4> QED
        BY <1>3, <4>1 DEF FileKnown
    <3>2. CASE s # r
      <4>1. d = request[s] /\ Shaped(d) /\ d \in Calls /\ ~Holds(s)
        BY <1>4, <2>1, <3>2, WhatItIs
      <4>2. ~(d.does \in FileMoves /\ d.at = "put") /\ d.at # "reparent"
        BY <4>1 DEF Holds, Shaped, Calls, Does, Updates, FileMoves
      <4> QED
        BY <4>2 DEF FileKnown, FileMoves
    <3> QED
      BY <3>1, <3>2
  <2> QED
    BY <1>2, <2>1, <2>2, <2>3, <2>4
<1> QED
  BY <1>5, <1>6, <1>7, <1>8 DEF IInv

LEMMA DropOwnerKeeps ==
  ASSUME Numbered, IInv, NEW r \in Request, DropOwner(r)
  PROVE  IInv'
<1> PICK q : q = request[r]
  OBVIOUS
<1>1. q \in Calls /\ Shaped(q) /\ Knows(q) /\ q.at = "acl" /\ q.id \in deleted
  BY WhatItIs DEF DropOwner, Knows
<1>2. /\ owned' \in {owned, owned \ {q.id}} /\ Goes(r, Idle)
      /\ UNCHANGED <<backend, parent, place, calls, asked, filed, deleted, muddled, slipped>>
  BY DEF DropOwner, End, history
<1>3. /\ request' \in [Request -> Calls] /\ request'[r] = Idle
      /\ \A s \in Request : s # r => request'[s] = request[s]
  BY <1>2, IdleIsCall, OneGoes DEF IInv
<1>4. Types'
  BY <1>2, <1>3 DEF IInv, Types
<1>5. Shape' /\ DeletedStays' /\ Known' = Known
  BY <1>1, <1>2, IdleIsCall, RowsKeep
<1>6. Refs'
  <2>1. ASSUME NEW s \in Request PROVE (Shaped(request[s]) /\ Knows(request[s]))'
    <3> PICK d : d = request'[s]
      OBVIOUS
    <3>1. CASE s = r
      BY <1>3, <3>1, IdleKnows
    <3>2. CASE s # r
      <4>1. d = request[s] /\ Shaped(d) /\ Knows(d)
        BY <1>3, <3>2, WhatItIs
      <4>2. Knows(d)'
        BY <1>2, <1>5, <4>1 DEF Knows
      <4> QED
        BY <4>1, <4>2
    <3> QED
      BY <3>1, <3>2
  <2>2. /\ \A x \in Folder : parent'[x] \in Known \union {Root, Gone}
        /\ filed' \in Known \union {Root}
    BY <1>2 DEF IInv, Refs
  <2>3. Apart(r, Idle) /\ Idle \in Calls
    BY StaysApart, IdleIsCall
  <2> QED
    BY <1>2, <1>5, <2>1, <2>2, <2>3, PairsApart DEF Refs
<1>7. File'
  <2> SUFFICES ASSUME ~slipped'
               PROVE  /\ (place = filed \/ (place = Root /\ filed \in deleted))'
                      /\ (place \in Folder /\ place = filed /\ filed \notin Deleting)'
                           => parent'[filed'] # Gone
                      /\ \A s \in Request : FileKnown(request[s])'
    BY DEF File
  <2>1. ~slipped /\ File
    BY <1>2 DEF IInv
  <2>2. Deleting \subseteq Deleting'
    BY <1>1, <1>3 DEF Deleting
  <2>3. ASSUME NEW s \in Request PROVE FileKnown(request[s])'
    <3>1. CASE s = r
      BY <1>3, <3>1, IdleKnows
    <3>2. CASE s # r
      BY <1>2, <1>3, <2>1, <3>2 DEF File, FileKnown
    <3> QED
      BY <3>1, <3>2
  <2> QED
    BY <1>2, <2>1, <2>2, <2>3 DEF File
<1> QED
  BY <1>4, <1>5, <1>6, <1>7 DEF IInv

-----------------------------------------------------------------------------
(* The invariant holds at first, every step keeps it, and it is enough.    *)
LEMMA InitIInv ==
  ASSUME Numbered, Init
  PROVE  IInv
<1>1. PICK n \in Nat : Folder = 1..n
  BY DEF Numbered
<1>2. /\ parent \in [Folder -> Places \union {Gone}]
      /\ \A f \in Folder : \/ parent[f] \in 1..(f - 1) \union {Root}
                           \/ parent[f] = Gone /\ f + 1 \notin Folder
  BY DEF Init, Places
<1>3. /\ backend \in {"local", "postgres"}
      /\ owned = {f \in Folder : parent[f] # Gone}
      /\ place \in owned \union {Root}
      /\ request = [r \in Request |-> Idle]
      /\ asked = parent /\ filed = place
      /\ deleted = {} /\ muddled = FALSE /\ slipped = FALSE
  BY DEF Init
<1>4. Types
  BY <1>2, <1>3, IdleIsCall DEF Types, Places
<1>5. \A f \in Folder : parent[f] \in owned \union {Root, Gone}
  <2> SUFFICES ASSUME NEW f \in Folder, parent[f] \in 1..(f - 1)
               PROVE  parent[f] \in owned
    BY <1>2
  <2> PICK g : g = parent[f]
    OBVIOUS
  <2>1. g \in Folder /\ g + 1 \in Folder /\ g # Gone
    BY <1>1 DEF Gone
  <2>2. parent[g] # Gone
    <3>1. g - 1 \in Int /\ \A i \in 1..(g - 1) \union {Root} : i # Gone
      BY <1>1, <2>1 DEF Root, Gone
    <3> QED
      BY <1>2, <2>1, <3>1
  <2> QED
    BY <1>3, <2>1, <2>2
<1>6. \A r \in Request : request[r] = Idle
  BY <1>3
<1>7. \A r \in Request : /\ Shaped(request[r]) /\ Knows(request[r])
                         /\ Free(request[r]) /\ FileKnown(request[r])
  BY <1>6, IdleIsCall
     DEF Shaped, Knows, Free, FileKnown, Updates, FileMoves
<1>8. Refs
  BY <1>3, <1>5, <1>6, <1>7, IdleIsCall DEF Refs, Known
<1>9. CircleFree(parent)
  <2> SUFFICES ASSUME NEW S \in SUBSET Folder, S # {}
               PROVE  \E x \in S : parent[x] \notin S
    BY DEF CircleFree
  <2>1. PICK x \in S : \A y \in S : x <= y
    BY FolderFacts, LeastOf
  <2>2. x \in Folder /\ x \in Nat /\ Root \notin S /\ Gone \notin S
    BY FolderFacts
  <2>3. \A y \in 1..(x - 1) : ~(x <= y)
    BY <2>2
  <2> QED
    BY <1>2, <2>1, <2>2, <2>3
<1>10. Shape
  BY <1>3, <1>7, <1>9 DEF Shape, FolderKept
<1>11. File
  <2>1. place \in Folder => parent[place] # Gone
    BY <1>3, FolderFacts
  <2> QED
    BY <1>3, <1>7, <2>1 DEF File
<1>12. DeletedStays
  BY <1>3 DEF DeletedStays
<1> QED
  BY <1>4, <1>8, <1>10, <1>11, <1>12 DEF IInv

LEMMA StutterKeeps ==
  ASSUME IInv, UNCHANGED vars
  PROVE  IInv'
BY DEF IInv, Types, Refs, Known, Shaped, Knows, Shape, CircleFree, FolderKept,
       Free, Closed, File, FileKnown, Deleting, DeletedStays, vars

LEMMA StepKeepsIInv ==
  ASSUME Numbered, IInv, [Next]_vars
  PROVE  IInv'
<1>1. CASE UNCHANGED vars
  BY <1>1, StutterKeeps
<1>2. ASSUME NEW r \in Request,
             \/ Call(r) \/ Get(r) \/ Target(r) \/ TargetFolder(r) \/ Walk(r)
             \/ UpdateFolder(r) \/ WriteFolder(r) \/ CreateFolder(r)
             \/ RecordOwner(r) \/ MoveFile(r) \/ DeleteFolder(r)
             \/ ListFiles(r) \/ Reparent(r) \/ DropOwner(r)
      PROVE  IInv'
  BY <1>2, CallKeeps, GetKeeps, TargetKeeps, TargetFolderKeeps, WalkKeeps,
     UpdateFolderKeeps, WriteFolderKeeps, CreateFolderKeeps,
     RecordOwnerKeeps, MoveFileKeeps, DeleteFolderKeeps, ListFilesKeeps,
     ReparentKeeps, DropOwnerKeeps
<1> QED
  BY <1>1, <1>2 DEF Next

LEMMA IInvSuffices ==
  ASSUME Numbered, IInv
  PROVE  FolderTree
<1>1. NoCircle
  BY NotAboveItself DEF NoCircle, IInv, Shape
<1>2. FolderKept
  BY DEF FolderKept, IInv, Shape
<1>3. FileFound
  BY FolderFacts DEF FileFound, IInv, File, Types, Places
<1> QED
  BY <1>1, <1>2, <1>3 DEF FolderTree, IInv

(* folders.go: no folder gets inside itself, every folder is where it was  *)
(* last put, the file is found in its folder or, that one deleted, in the  *)
(* root, and a row that was deleted in Postgres does not come back.        *)
THEOREM TreeIsKept ==
  ASSUME Numbered
  PROVE  Spec => []FolderTree
<1>1. Init => IInv
  BY InitIInv
<1>2. IInv /\ [Next]_vars => IInv'
  BY StepKeepsIInv
<1>3. IInv => FolderTree
  BY IInvSuffices
<1> QED
  BY <1>1, <1>2, <1>3, PTL DEF Spec
=============================================================================
