# A TLA+ model of Ofisi

Ofisi is an office suite (documents, sheets, slides, whiteboards, PDF signing)
with a Go server and a React client. Its editors are CRDT-based; a document is
kept by whole-file autosave, by an opt-in append-only log of CRDT frames, or
exchanged peer to peer. This directory holds TLA+ specifications of the parts
whose correctness depends on interleavings and failures, the TLC configurations
that check them, and TLAPS proofs of what matters most about them.

Paths below are relative to the repository root.

## 1. Inventory

| Component | State it keeps | Operations | What is hard about it | What makes it correct |
|---|---|---|---|---|
| Update-log stores (`backend/updatelog`) | per file: update frames, one snapshot; the next seq is derived | Append, Load, Head, Pending | concurrent handlers, several file operations per call, crashes between them, several server processes | a seq is never assigned twice; nothing above the floor is lost; a reader gets all it is missing |
| Update-log handler (`backend/handlers/updates.go`) | none | List, Append | lost answers, the flag turned off under a client, advice to compact | an accepted frame stays recoverable |
| Update-log clients (`src/lib/collab/opLogSync.js`, `updateLog.js`) | buffer or dirty flag, timer, `_flushing`, `coveredSeq`, state vector | hydrate, start, flush, snapshot, stop | edits between awaits, timers that race replies, retries, several sessions | no edit dropped; `coveredSeq` is truthful; everything gets logged |
| Document CRDTs (`src/lib/crdt/{grid,tree,text,comments,suggestions}.js`) | cells, nodes, Lamport clock, localStorage copy | local op, remote op, snapshot, restore | reordering, duplication, clock that lags behind what was loaded | convergence; a later edit wins |
| Peer-to-peer sessions (`src/lib/crdt/p2p*.js`, `yP2PSession.js`) | room keys, role, document | join, broadcast, resync | lost and reordered frames, read-only peers | convergence after resync; a read-only peer changes nothing |
| Fabric transport (`src/lib/collab/webrtc`) | connections, pending offers, relay boxes | connect, negotiate, reconnect | offer glare, timeouts, fallback | a peer pair ends on one connection |
| Endpoint selection (`src/lib/endpoints`, `reachableBase.js`) | cached base URL | probe, pick, invalidate | a cached answer that has gone stale | a dead endpoint is not used for ever |
| Whole-document save (`backend/handlers/files.go`, `versions.go`, `backend/storage`, `src/store/filesStore.js`, `src/lib/draftStore.js`) | record with revision, versions, drafts, save queue | create, update, meta update, restore, autosave | compare-and-swap, concurrent saves, reconnects, drafts | no acknowledged save silently overwritten |
| File access, share links (`backend/fileacl`, `backend/storage/*sharelinks*`) | grants, links | claim, grant, revoke, open | owner claim races, expiry | one owner; a revoked grant opens nothing |
| Comments, suggestions, protected ranges, folders | one record each | read-modify-write per request | two requests on one record | no update lost |
| E-signing (`backend/handlers/{signing,envelopes,orchestration,seal}.go`, `backend/signing`) | envelopes, tokens, hash-chained audit | create, sign, decline, complete | parallel signers, single-use tokens | routing order; the chain does not fork |
| Accounts, invites, seats (`backend/handlers/auth.go`, `backend/invites`, `backend/userauth`, `backend/billing`) | users, invites, reservations | register, redeem, reserve, commit, release | check-then-act across stores | an invite is used once; seats are not exceeded |
| Sessions, rate limits (`backend/session`, `backend/apikey`, `backend/middleware`) | introspection caches, token buckets | authenticate, limit | cached verdicts, boundary arithmetic | revocation takes effect within the TTL; the bucket never exceeds its burst |
| Storage selection, audit, notifications, directory, search, import/export, configuration, UI | start-up choices, append-only records, pure conversions, rendering | - | little that interleaves | - |

How they interact: an editor mounts a CRDT session (and, for Docs and
Whiteboard, a Y.Doc), an update-log client that subscribes to its local edits,
and, if the deployment has a peering backend, a fabric that exchanges edits
with other open editors. The update-log client talks to the handler over HTTP,
one exchange at a time; the handler calls a store (filesystem or Postgres, by
`storage.type`). Independently the whole document is autosaved with a revision
compare-and-swap.

## 2. Modules

```
FrameLog            pure rules of a frame log: head, floor clamp, stale, load answer
  DurableLog        abstract: what the Store interface promises
  UpdateLogLocal    LocalStore, one file operation per action, with crashes
    UpdateLogLocalProofs      theorems (TLAPS)
    MCUpdateLogLocal          instance for TLC
  UpdateLogPostgres PostgresStore, one statement or commit per action
    UpdateLogPostgresProofs   theorems (TLAPS)
    MCUpdateLogPostgres
  FileStore         one document's record and versions, both storages
    FileStoreProofs           theorems (TLAPS)
    MCFileStore
  LogService        the HTTP endpoints as a client meets them
    OpLogSync       client of the op-based CRDTs (Sheets, Slides)
      MCOpLogSync
    UpdateLogSync   client of the Yjs documents (Docs, Whiteboard)
      MCUpdateLogSync
    Clients                   both clients
      ClientsProofs           theorems (TLAPS)
      MCClients               instance for TLC
Replicas            tabs and the op ids they mint
  GridSession       the sheet: last-writer-wins cells, localStorage, reloads
  SlideTree         the deck: ordered tree with per-object stamps
  TextSession       the RGA text
    MCDocuments               all three
FileSave            saves of one document by the editors of one browser
PeerSession         the Yjs room of two peers
Fabric              how two peers reach each other: channel or relay
Presence            who is shown as present
Endpoints           which server a request goes to
    Sessions                  these five
      SessionsProofs          theorems (TLAPS)
      MCSessions              instance for TLC
Signing             one envelope: signers, audit chain, seal
  SigningProofs               theorem (TLAPS)
Accounts            registration, invites, seats
Introspection       cached answers of the providers
StorageQuota        reservations of storage
Limiters            token bucket and fixed window
Login               the lockout of the login
FileAccess          owner, shares and checks of one file
Folders             the folder tree and a file in it
  FoldersProofs               theorem (TLAPS)
ProtectedRanges     a protected cell under overlapping saves
  Services          these nine, and UpdateLogPostgres
    ServicesProofs            theorems (TLAPS)
    MCServices                instance for TLC
```

`UpdateLogLocal` and `UpdateLogPostgres` each instantiate `DurableLog` under the
name `Abstract` and are checked to implement it. The clients are composed with
`LogService`, which takes the store at the atomic interface that refinement
justifies. `Clients`, `MCDocuments`, `Sessions` and `Services` put components
that do not interact into one specification: a variable `part` (`layer` in `Clients`) is
chosen in `Init` and never changes, only the variables of that part move, and a
property that is about a part says so. So the state spaces add up, they do not
multiply, and what such a run checks is what a run for each part would. `Clients`,
`Sessions` and `Services` are parameterised, with named assumptions on their constants;
`MCClients`, `MCSessions` and `MCServices` give them their values for TLC,
`ClientsProofs`, `SessionsProofs` and `ServicesProofs` leave them open.

### FrameLog
A log is `frames`, a set of `[seq, data]`, and `snap`, `[seq, floor, data]`
(`NoSnapshot` when the code has `nil`). `HeadSeq` is `headLocked` / `headTx`,
`ClampFloor` and `Stale` the two guards of a snapshot append, `LoadAnswer` what
`Load` hands out. Data is opaque, as it is to the server.

### DurableLog
One ever-growing sequence `log` of everything accepted, in which the position is
the seq, the latest snapshot, and the reply each caller holds. `WriteSpec` is the
writers' half.

### UpdateLogLocal
`Req` are handlers inside the store. `Lock` and `List` are the two reads of
`headLocked` under the process mutex, `WriteFrame` and `WriteSnapshot` the rename
in `writeJSON`, `Prune` one `os.Remove` (whose error the code ignores, so the
frame may stay), `FileError` any failing file operation, `Crash` the death of the
process between any two of these: the directory survives, everything else is
reset. `log` is a history variable.

### UpdateLogPostgres
An append is one READ COMMITTED transaction under the advisory lock: `Begin`,
`ReadHead`, `ReadFloor`, and a commit that makes its rows visible at once. `Load`
is three statements outside any transaction: `LoadSnapshot`, `LoadHead`,
`LoadFrames`. `Abort` is a failing statement or a dying process; a commit whose
acknowledgement is lost is covered in the client modules (`LogService.Lose`).

### FileStore
A request is a handler of `Req`; `record` is the file's JSON or row, `versions` its
history. `ReadExisting`, `Snapshot`, `Prune` and then `UpdateRow` (Postgres) or
`Truncate` and `Fill` (local) are `UpdateFile`; `Read`, `GetVersion` and `Backup` are what
the patch, restore and named-snapshot handlers do before it; `MoveRow`, or `Truncate` and
`Fill` again, is `UpdateFileMeta`. `backend` is chosen in `Init` and never changes, as at
start-up. `Truncate` and `Fill` are the two halves of `os.WriteFile`: between them a
reader fails to parse the file, a process that dies leaves it so, and a second writer
may leave a mixture. `Fails` is any failing operation and any process death. A content is
the number of the request that brought it, so that losing one shows. `clock` orders the
version stamps; two calls of `time.Now()` are taken to differ. Left out: the checks that
can only refuse a request, the `type` field (which LocalStorage's `UpdateFile` does not
carry over), version labels, and the mirror of contents in the organization's bucket.

### LogService
`wire[s]` is the one exchange a session can have open: a request until the server
takes it, a reply until the session reads it. The server appends (`ServeUpdate`),
then asks `Pending` in a second call (`Advise`), which other appends may precede.
`Lose` drops a request, refuses it (ACL, quota, 5xx), or loses the answer to one
that was carried out; the client cannot tell which. `SwitchOff` is the
deployment turning `persistence.updatelog` off: from then on 404. `accepted` is a
history variable with every frame ever stored.

### OpLogSync and UpdateLogSync
A session is one mount of an editor. An action is what runs between two awaits,
since JavaScript runs one callback at a time; `client[s].awaiting` says which
await the session is at, and `_flushing` is `awaiting` an update or a snapshot.
`Open` is the editor effect, `Hydrated`/`HydrateFails` the resumption of
`hydrate()` with the `start()` that follows in the same turn, `Edit` a local op,
`TimerFires` the debounce timer, `Flushed`, `FlushNotFound`, `FlushFails` the
resumptions of `flush()`, `Compacted`, `CompactFails` those of `snapshot()`, `Stop`
the unmount, `Kill` the death of the tab (a request already on the wire may still
be served), `Gossip` an edit that arrives peer to peer and is merged without
being a local edit. In `OpLogSync` a document is a set of ops `<<s, n>>`, because
the CRDTs' merge is commutative and idempotent; in `UpdateLogSync` it is a set of
structs `<<client, clock>>`, `StateVector` is the contiguous prefix per client and
`Beyond` the delta Yjs encodes against a state vector.

### GridSession, SlideTree, TextSession
All three draw op ids from `Replicas`: a Lamport counter, then the replica. An op
that was sent may reach any session at any time, repeatedly, or never, which is
what a fabric and an update log together do. `GridSession` has the snapshot and the
capped op log in `localStorage`, shared by the tabs of a browser, and reloads that
start from them; `evicted` are the ops the cap pushed off. `SlideTree` has inserts,
moves, deletes, sets and removals of an object, stubs for ops that come before their
insert, and joiners that start from a snapshot; the nodes of an editor's own slide
ids are in it (`Own`). `TextSession` is driven by the repository's tests only: Docs
edits through Yjs.

### FileSave
The four editors differ in when they take the content (timer set or timer fired), in
drafts and in retries: `kind` is the editor. An action runs from one await to the
next: `Autosave`, `DraftWritten`, `Serve` or `Lose`, `Answered` with the retry on a
conflict, `DraftCleared`. `crossed` is a history variable with the tabs that left the
single-save path; section 6 has what happens to them.

### PeerSession, Fabric, Presence
`PeerSession` is who has which edit: `held` per peer, `sealing` frames that the
crypto has not returned, `wire` frames under way; `Open` of a channel asks for what is
missing. `Fabric` is below it: joins seen on the board, offers and answers through
inboxes, `link` negotiations, the relay timer, polling, and departures. `Presence` is
above it and timed: heartbeats, silence and delay are constants in ticks (in the run a
tick is 5 s: 2, 5 and 1), `net` the frames under way, and the roster is that of one
watcher. Only joins are frames there, since no `leave` is ever delivered: `usePresence`
is mounted after `useCollabFabric` in every editor, so at unmount the fabric has
dropped its peers before the manager says that it goes.

### Endpoints
`injected` is the pair the page was served with, `cache` the one in `localStorage`,
`selecting` the one selection that all callers share. Its probes take up to `Timeout`
ticks and see the world as it is when they are answered. `Call`, `Answer`, `Fail` and
`FailAgain` are `request` of `api.js` with its single retry.

### Signing, Accounts, Introspection, StorageQuota, Limiters, Login, FileAccess
Requests of the server, two at a time, each a sequence of calls of stores that no
lock spans. In `Signing` a handler works on the copy of the envelope it read and an
event's hash is its timestamp. In `Accounts` the credential and the invite store are
two databases. `Introspection` has the three caches (session, API key, entitlement)
with the provider changing its mind; `StorageQuota` the counters of `enforce.go` with
`Release` and `Restart`; `Limiters` integer amounts, one unit flowing back per tick.
`FileAccess` splits each check into its statements. In `Login` an attempt holds the
record it took from the map (`attempt`) while its password is checked; `current` is
the one in the map, which a sweep or a crowd of other addresses may have replaced.

### Folders, ProtectedRanges
`Folders` is the tree of one account: `parent` the rows, `owned` the ACL records,
`place` the folder of one file. An update reads a row (`Get`), checks its target
(`Target`, `Walk`) and writes the whole row; a deletion is the row, a listing, the
files one by one, the ACL record. `ProtectedRanges` is one cell and its protection,
saved by an owner and by a guest; the check reads the content, the store reads the
revision again.

## 3. Runs

| Run | Bounds | What it shows |
|---|---|---|
| `local` | 2 handlers, 2 payloads, 3 appends, floors -1..4, `since` 0..2 | LocalStore: no seq reused, no tail frame lost, the inductive invariant of the proofs, snapshots never regress, refinement of `DurableLog`, and every call returns: no path keeps the mutex |
| `postgres_torn` | 2 calls, 2 payloads, 3 appends, floors -1..4, `since` 0..3 | *violated*: a Load returns every missing frame |
| `opsync_live` | 2 sessions, 1 edit each, fabric, 1 fault, the flag turned off, compaction at every append | every await ends, an armed timer leads to the log |
| `opsync_lost` | 2 sessions at once, 2 edits each, fabric | *violated*: compaction never drops a peer's un-merged work |
| `opsync_strand` | 2 sessions, 2 edits each, no fault | *violated*: a buffered op gets logged, by the next flush or by stop |
| `updatesync_clean` | 2 sessions, 3 edits each | *violated*: edits during an append are captured by the next flush |
| `clients` | op log: 2 sessions, 2 edits each, 1 fault, flag turned off, compaction every 2 appends and on advice; Yjs: 2 sessions, 2 edits each, 1 fault, fabric, frames of at most 1 struct | no op is dropped by the client; one session after the other, coverage is truthful, compaction loses nothing, and a Yjs log without raced or early edits, and with nothing unlogged counted as flushed, replays without a gap |
| `filestore` | both storages, 2 handlers, 4 requests, 3 versions kept | saves replace exactly their base, nothing saved is lost, organization survives saves, deleted documents stay deleted |
| `filestore_lost` | LocalStorage, 2 handlers, 2 requests | *violated*: a save cannot silently overwrite another |
| `documents` | 2 tabs of one browser; grid: 1 cell, 2 edits each, an op log of 2; tree: 1 object, 4 ops; text: 3 edits of up to 2 characters | each replica shows what the ops it has seen say, in any order, live or by snapshot; the next edit of a session lands and wins; a sheet's edits survive a reload and its clock never falls behind |
| `sessions` | saves: of each editor one tab with 2 overlapping saves, or two tabs with one save at a time, 2 edits, 1 fault; peers: 2 peers, writer or reader, 1 edit each, 2 channels; fabric: 2 offers, 1 fault; endpoints: 2 boxes, a cloud, 2 requests, 5 ticks; presence: 2 tabs, 11 ticks, 1 change, 1 loss | unsaved work is due or its user was told; "saved" is said of what the server holds; peers that are quiet agree and readers change nothing; both ends of a pair reach each other the same way; no request goes to a server that lately failed, and none waits in vain; who is there is shown and who is gone is not |
| `services` | 2 requests at a time, 2 or 3 calls each part; signing: 2 signers, both storages; accounts: 3 accounts, 2 invites, 2 seats, 1 fault; limits: a burst of 2, a window of 2 ticks, 7 ticks; login: 2 attempts, a lock of 2 ticks, records kept 4, 8 ticks; folders: 3 folders; ranges: 3 revisions, 1 fault; rows: 3 appends | the audit chain links and a seal is true and keeps signatures; invites count, one account at most is unasked; trust is recent; storage and seats keep within the plan; limiters let in what they say, and the login as many wrong passwords per lockout as allowed and overlapping; access is by role; folders stay a tree and files findable; a protected cell is kept; the Postgres log implements the Store's writers, and a Load is torn only by a compaction |

Why the bounds are enough. Two handlers, sessions, tabs or peers are the fewest that
interleave, and every conflict in this code is between two parties and one
retained snapshot, rev or version. Three appends give a store an update, a
snapshot over it and an update above that, or a second, stale, snapshot. Floors
run from below 0 to above any head, so that both clamps act; `since` 2 lies below,
at and above every floor of interest. Two edits per session allow one in flight and
one arriving meanwhile; three allow a gap with something after it. `MaxFrame` 1 makes
two edits an oversize frame. One fault is what a retry needs; a second one only
repeats it. Four requests are a save, a restore of what it superseded, and two more
that push the history over its cap. Three folders are a chain whose top can be moved
below its bottom, and one call of each request suffices for that. Eleven ticks of
presence are a silence, a heartbeat and a delay after a change, with time before it.
Five ticks of endpoints are a selection, its time of trust and the next one. Seven
ticks of the limiters are three windows and a refilled bucket; eight of the login are
four locks, or a lock and a sweep with time after it. One cell and one object
suffice where cells and objects do not touch each other. Deadlock checking is off
where a system really stops: editors that are closed, requests and ticks used up.

Properties that hold only without overlap say so themselves: each component has a
history variable that becomes true when what its property leaves out happens, and the
comment of the property names the case. In the log clients `overlapped` is a session
that opens while another uses the log (`overlaps` of requests in `FileStore`); `raced`
and `early` are edits during an append or a load; `heard` is a session that counted as
flushed what came peer to peer and was not in the log; `crossed` is a tab or a seat check
that overlapped; `broken` and `stale` are audit events and envelopes written over
each other; `contested` invites; `muddled` and `slipped` rows written over a change;
`over` and `unread` in a protected save; `lost`, `hurried`, `dropped` in the fabric.
In Postgres `SavesKept`, `SwapsOnlyItsBase`, `DeletedStaysDeleted` and
`ImplementsWriters` are unconditional. What overlap does to the rest is what
`opsync_lost`, `filestore_lost` and `updatesync_clean` show, and section 6 lists.

Symmetry: handlers and payloads in `postgres_torn` and handlers in `filestore`,
sessions in the safety runs of the clients, requests in `services`; nothing orders
them and no property names one. Runs with liveness properties use none. A type
invariant is checked in `documents` and `services` and is a part of `IInv` in `local`;
the others are there to be read and for the proofs.

## 4. Fairness

`UpdateLogLocal!FairSpec` (run `local`): weak fairness of each handler's steps (the
scheduler runs a goroutine that can run) and strong fairness of taking the mutex
(Go's `sync.Mutex` hands over to a waiter that has starved). Calls and crashes are
not fair. `OpLogSync!FairSpec` (`opsync_live`, `opsync_strand`): weak fairness of a
timer firing, of resuming an await whose reply has arrived, and of the server
answering. That users edit, open or close editors is never assumed. `opsync_live` has
a fault and the flag turned off in it: a request that is refused, or whose answer is
lost, is answered with an error in the end, which is what weak fairness of the server
says; `fetch` has no timeout of its own here, so an answer that never comes at all is
left out. `opsync_strand` has no fault. Nothing else is claimed to happen eventually:
`PeersAgree`, `ReachTheSameWay` and `WaitsOnSelection` speak of what is so once
nothing is left to do, and `Presence` bounds it by ticks.

## 5. Proofs

`UpdateLogLocalProofs` proves, for any set of handlers, payloads and floors, any
number of appends and any number of crashes (assuming only `LocalAssumption`):

* `Invariance`: `Spec => []IInv`;
* `TypeCorrect`, `HeadCorrect`, `TailCorrect`, `NeverRegresses`: the four safety
  properties of the run `local`;
* `Refinement`: `Spec => Abstract!Spec`, that LocalStore implements the Store
  interface.

The argument. `HeadNeverLost` is not inductive: nothing in it says that the
process which is about to write read the directory as it is now. `IInv` adds that
whoever is between `Lock` and its return owns the mutex (`LockOwned`) and that what
it has read is still on disk (`ViewCurrent`); that the entry with the highest seq
is on disk, as a frame or as the snapshot (`HighestOnDisk`); that a snapshot's own
seq is above its floor (`FloorBelowSnapshot`); and that only frames at or below the
retained floor are queued for unlinking (`PruneSafe`). So unlinking, interrupted
anywhere, cannot remove the highest entry, and the recomputed head is always the
number of entries accepted. Each action has one lemma (`LockKeeps`,
`WriteSnapshotKeeps`, ...); `HeadIs`, `ClampBounds` and `MaxIs` are the facts about
the operators. For the refinement each action maps to a step of `DurableLog` or to
a stutter; a snapshot takes effect at its rename, which is why `out` shows its
reply from then on.

`FileStoreProofs` proves, for any set of handlers, any number of requests and any
cap on the history (assuming only `FileStoreAssumption`):

* `Swapping`: `Spec => SwapsOnlyItsBase`;
* `Deletion`: `Spec => DeletedStaysDeleted`;
* `Organization`: `Spec => []OrganizationKept`;
* `NothingOverwritten`: `Spec => []SavesKept`.

The argument. `Inv` says what a handler that holds a record knows: the base it
compared is the rev it read (`CallsOK`), and, on LocalStorage, what it read is still
the file's rev and the file still exists (`Fresh`). The latter is true only because
nobody else is busy (`Alone`) while no overlap has been recorded; in Postgres it is
not needed, since the UPDATE compares again. `Invariance` is `Spec => []Inv`, and the
first two theorems follow from the five steps that change the record. For the third,
`OrgInv` adds that a move in progress (on LocalStorage, any writer) holds the
organization last asked for (`Organized`), which needs at most one move at a time
(`MovesAlone`): a second one is what makes the first one's other fields stale. For the
fourth, `SaveInv` says what there is under each date (`Dated`: the clock has passed it
and it is of one content, so `CreateVersion` need not look further), that a row read is
the stored one or behind it (`Behind`), and that what a handler supersedes is stored
before it goes on (`Safe`). What pruning leaves of a finite set is had from
`FiniteSetTheorems` (`PruneKeepsCap`).

`UpdateLogPostgresProofs` proves, for any calls, payloads, floors and positions
(assuming only `Sizes`: numbers, and the lock's "nobody" is not a call): `TailRetained`,
`TornLoadOnlyByCompaction` and the refinement of the writers' half of `DurableLog`. The
lock makes what a transaction has read the present (`LockOwned`, `HeadCurrent`);
`HighestInTables` and `FloorBelowSnapshot` are as in LocalStore; `LoadOfThePast` and
`AnswerOfThePast` say of a Load, which no lock covers, that it read a snapshot with the
retained floor unless a compaction came between, and a head that has been.

`SigningProofs` proves the five promises of an envelope together (`EnvelopesAreTrue`),
for any signers (assuming only `Numbered`: they are numbered from 1), any number of
requests at a time, any faults. Its invariant has four parts. `Types` includes which
steps a handler may still have before it (`Plans`). `Chain`: two handlers never hold the
same timestamp, and a handler that has listed the events knows the last one before its
own, or its event is in `broken`. `Seal`: a handler that completes has seen every
signer's event among those it lists, and so a seal does. `Written`: as long as nothing
died and nothing was written over, a signature in the log is in the envelope or in what a
handler is about to write (`Putting`), and the seal's hash likewise (`Finishing`).

`FoldersProofs` proves `TreeIsKept`, for any folders numbered from 1 and any requests.
That no folder is inside itself is stated by the model as a walk up the rows that ends.
`CircleFree` says the same without a walk: each set of folders has one whose parent is
not in the set. A request that has made its checks carries a set closed under being
above that holds the target and not the folder (`Free`), which stays true until another
request moves something (`muddled`). `ClimbIs` and `ClimbGetsOut` relate the two.

`ClientsProofs` proves the four properties the run `clients` checks, for any number of
sessions, edits and faults, any cap, threshold and budget, with or without a fabric and a
flag that is turned off (assuming only `ClientsAreSet`: the numbers are numbers, and a
client compacts after at least one append):

* `NothingIsDropped`: `Spec => []NothingDropped`;
* `CoveredIsIntegrated`: `Spec => []CoveredTruthful`;
* `CompactionKeepsAll`: `Spec => []AloneRecoverable`;
* `ReplayIsWhole`: `Spec => []LogIntegrates`.

The argument. Both clients exchange the same messages with the same service, and what
these do to the log and to `coveredSeq` is proved once, of `Exchanges`: steps that say
only what a session and its exchange look like before and after. `ExchangeInv` says that
the highest seq was given to something that is kept (`StoreOK`), that a message speaks of
items and seqs that exist (`MessageOK`) and fits the await it answers (`Fits`), and, as
long as sessions use the log one after the other (`AloneOK`), what the one that uses it
knows: its document holds all that is logged once it has loaded, what it sends is in its
document, and a snapshot under way holds all that is logged (`Knows`). That is why a
`coveredSeq` taken from its own append is truthful, and a prune up to it harmless; with
two sessions at once each of these breaks, which is what `opsync_lost` shows. Each client
is then shown to take such steps (`OpsServes`, `YjsServes`, and one lemma per action), and
what is its own is followed: for `OpLogSync` where an op is (`OpsHolds`); for
`UpdateLogSync` that what no frame has lies beyond the flushed vector, under the dirty
flag, and in the append under way (`YjsHolds`).

`ReplayIsWhole` needs more. A set of structs is `Closed` if it has each struct's
predecessors; Yjs integrates such a set whole (`ClosedIntegrates`). `CleanInv` says that
every document is closed, that what a session counts as flushed is recoverable, and that
the log stays closed if what is under way arrives (`CleanHolds`). A session's own structs
are nowhere before they are in its document (`OwnInv`), so that what others bring cannot
run ahead of it. The state vector is a largest number, had from a least one by
well-foundedness (`Least`, `VectorIs`).

`ServicesProofs` proves of `Services`, assuming only its named `ASSUME`s, each property
the run `services` checks but its type invariant:

| Theorem | Property | The invariant adds |
|---|---|---|
| `CellsAreProtected` | `RangeKept` | between check and write nothing was saved, or a save with a revision is refused (`CheckHolds`, `SwapIsAtomic`) |
| `LoadsAreTornOnlyByCompaction`, `WritersAreOneLog` | `TornLoadOnlyByCompaction`, `ImplementsWriters` | from `UpdateLogPostgresProofs` |
| `AuditChainLinks`, `SealsAreTrue`, `SignaturesAreKept` | `SignChainIntact`, `SignSealIsTrue`, `SignSignaturesKept` | from `SigningProofs` |
| `FoldersStayATree` | `FolderTree` | from `FoldersProofs` |
| `TrustIsAlwaysRecent` | `TrustIsRecent` | a cached or travelling answer's age and the time left to it add up to no more than TTL and time-out |
| `LimitsAreAsTold` | `LimitsAsTold` | what was let in and what is left is paid for by a burst and the time passed (`LimiterInv`); for the login, what the guesses made so far and those that may come have been paid for by lockouts (`Paid`): by time over, by the lock under way, by the time since the record was last seen |
| `FilesAreOpenByRole` | `AccessIsByRole` | a check knows at least what its account may do now, or notes that it was taken (`Founded`); one transfer at a time knows both owners (`InOrder`) |
| `AccountsAreLetIn` | `AccountsAreAuthorised` | one handler at a time makes use of an invite that is not contested (`Counted`) |
| `PlanLimitsAreHeld` | `PlanLimitsHeld` | sums over handlers as the number of their bytes (`SumIsCount`); a handler that counted the seats knows of room (`Room`) |

Of the rate limiters, for any capacity, cost, limit and window: a bound on what was let
in is not inductive. `BucketPays` is: what was let in since the mark and what the bucket
still holds add up to a burst and the time since, so that a prune, which gives a full
bucket, is harmless only because it waits until the bucket would be full. `WindowPays`
counts the window under way apart from those that are over, and `PromisesKept` relates
the wait that was told to the bucket's and the window's clock.

`PartSteps` says that a step moves one part only; every theorem rests on it. A module
that `Services` instantiates with substitutions is met once more under the names of its
proofs (`SignProof`, `TreeProof`, ...), and lemmas such as `SameSteps` show that the two
are the same.

`SessionsProofs` proves of `Sessions`, assuming only its named `ASSUME`s, all six
properties the run `sessions` checks. The assumptions are of two kinds: numbers are
numbers and names differ (`PartsAreKnown`, `SavesAreCounted`, `PeersHaveLinks`,
`OffersAreNumbered`, `BasesDiffer`), and `SilenceIsLong`, that a frame takes less than a heartbeat and that
the silence after which a member is forgotten leaves room for the frames that may be
lost: with the code's 10 s and 25 s, for one.

| Theorem | Property | The invariant adds |
|---|---|---|
| `RequestsGoWhereProbed` | `EndpointsAsProbed` | a selection that is trusted answered a probe when it was made and was not doubted since (`ValidIsProbed`); the pair that is being probed, and the one that would be next, have not been replaced (`SelectingIsFresh`, `NextIsNotRetired`) |
| `WritersAreHeard` | `PeersAgree` | what a state vector counts is held (`FramesSound`); to each peer with a channel from a writer a request is under way, or every edit of his is there or on its way over that channel (`GetsAcross`) |
| `NoEditIsForgotten`, `SavedIsSaved` | `SaveUnsavedIsPendingOrTold`, `SaveSavedIsWhatIsShown` | what an answer says was taken is on the server unless its rev moved (`AnswerTrue`); a tab with one save at a time sends what it shows or has a timer for it (`TabGood`) |
| `BothReachTheSameWay` | `FabricReachTheSameWay` | messages under way are newer than what their reader is at (`InboxesInOrder`); a connection fails with its link, or because a newer offer took its place, and then that offer is made again (`GoneIsFailed`, `Outrun`); whoever is neither connected nor in the relay has something to come (`OneTries`, `TwoTries`, `RelayIsTold`) |
| `RosterIsAsHeard` | `PresenceAsHeard` | of the heartbeats due since a tab opened, those its watcher has neither heard nor may still hear are no more than were lost (`FewUnheard`); who is heard of is open or left lately (`HeardOf`) |

The invariant of `BothReachTheSameWay` is about two peers that nothing has troubled yet
(`Untroubled`: both in the room, no frame lost, no state changed while a frame was being
accepted, no channel closed by the network), since once something has, the property
leaves the run out; its proof shows that no step leads back from trouble. Reinitiating
is what makes it inductive: a peer may be left with a connection that a newer offer
outran only while the peer that made this offer will make another.

The last is a count: a tab that was silent for long has a heartbeat due in every interval
of the silence, one more than can be lost.

Where an induction seems needed and the provers cannot instantiate one (a walk of any
length, a sum over any set, pruning down to a cap), the proofs take a smallest
counterexample instead, which `FiniteSetTheorems` and `WellFoundedInduction` provide
without an operator parameter.

Attempts to prove these have corrected the model, all on instances larger than those of
the runs. `FileAccess`: with three requests a share stored between the two statements of
a deletion let a check through that its history variable called unfounded. `Signing`: a
second Download that dies after it stored its seal leaves the hash of the first one, so
the property leaves out that a request died. `Folders`: on local storage an update that
is under way brings the row of a deleted folder back, and with a third request the file
can be moved there; the property said that it is in the root, and now says that the
folder it is in exists. `SignatureKept` had a premise that turned out not to be needed,
and lost it. `UpdateLogSync`: an edit whose append was lost can reach, through an editor
whose log is off, a session that opens after its author left; that session counts it as
flushed, and the next one logs what follows it, beyond a gap. It takes four sessions, so
no run met it; `LogIntegrates` now leaves it out (`heard`).

Only model-checked: the document CRDTs (the properties of `documents`), whose
convergence is an induction over the ops seen; `TypeOK` of `MCServices`, whose bounds are
those of its run; everything temporal but the action properties above (liveness and ENABLED are out
of TLAPS' reach); and what a RECURSIVE operator computes.

## 6. Where code and documentation part

The five violated properties above are recorded in `PROJECT.json` under `findings`,
with the sentence they contradict. In short:

1. `PostgresStore.Load` can miss frames it claims to cover (`LoadComplete`).
2. `coveredSeq` advances over peers' frames that were never merged, and the next
   snapshot prunes them (`AckedRecoverable`; both clients, shown for `OpLogSync`).
3. An op buffered during an append, whose timer fires before the append answers,
   waits for the next edit; if the editor unmounts instead, it is never sent
   (`BufferedOpsLogged`).
4. `UpdateLogSync` counts an edit made during an append as flushed
   (`CleanIsLogged`). What follows that edit is logged behind a clock gap. The same
   happens to an edit made while `hydrate()` is loading.
5. LocalStorage rewrites a document's JSON without a lock: of two overlapping
   requests the later write wins entirely, even a move over a save, and the save is
   in no version (`NoSaveLost`).

The whole-document autosave runs beside the log, so none of 1 to 4 loses a document
by itself.

The modules show more that their properties have to leave out, or that was met while
they were written; no sentence of the repository is contradicted by a run there.

* Saves (`FileSave`): of two overlapping saves of a tab the success of one hides the
  failure of the other, and a retry after a conflict can put the older content on
  top. Restoring a draft sets no timer; an older save that was due overwrites and
  clears it. A deck edited during its save is marked "Saved", and the failure of its
  autosave is silent. Whiteboard and slides never offer a draft.
* Sheets: the cap of the op log pushes off ops that are in no snapshot; the comment
  "a periodic saveLocal() resets it" (`grid.js:383`) has no caller.
* Slides: the editor drops the id that `insertSlide` returns and names slides by its
  own, so sets and moves make stubs, and each open inserts all slides once more.
* Text: a tab that dies before its snapshot is written mints the same ids again.
* Fabric: the guard against offer glare cannot act, since only the smaller id offers;
  a `join` handled after an answer resets the answering connection; a state set after
  `await signal()` can overwrite "connected"; a lost offer leaves the answerer without
  polling; a late close of an old channel marks a newer one as lost. A resync answer
  may be 1 MiB where the fabric drops what is above 256 KiB.
* Presence: departures show only after 25 to 35 s (above, `Presence`); the roster is
  keyed by account, so a `leave` that did arrive would drop all its tabs.
* Endpoints: a failure or a seed during a selection is absorbed by it, although
  `index.js:86` says a failed request always forces a new one; the failure of a second
  attempt is not noted; a POST whose answer was lost is carried out twice.
* Signing: no lock spans reading and writing an envelope; `Send` resets signed
  signers; a seal is reused after the owner wrote the envelope again.
* Accounts: the check of an invite and its use are two steps and an error of the
  second is ignored; the seat gate counts, then adds. Storage counts every save in
  full, and starts at zero with the process.
* Login: with `lockout_minutes` above 30 the sweep (`attemptTTL`) drops a locked record
  of an address that keeps still, and its lock with it; `Login` assumes a lock no longer
  than that, which the default of 15 is. A success clears the record of its address,
  whatever overlaps, and so does a crowd of more than 10,000 addresses: the property
  counts from there.
* Access: a role taken between the two lookups of a check counts as a file nobody
  owns, which is allowed; a transfer of ownership is three statements.
* Folders: a rename that overlaps a move undoes it, and can close a circle; when the
  folders cannot be listed a move goes through unchecked; subfolders of a deleted
  folder stay where no view shows them, although `folders.go:192` speaks of orphans
  that fall back to the root.
* Protected ranges: a save whose check could not read the content goes on, where the
  comment (`files.go:218`) says fail-closed; without a revision, and in LocalStorage,
  a save that came in between is overwritten with its protection. Restoring a version
  is not checked at all.

## 7. Not modelled, and why

The map covers about a twentieth of the implementation. Most of the rest is not a matter
of states: half of it is React (toolbars, dialogs, menus, the canvas, the PDF viewer),
and much of the other half converts (import, export, PDF pages), parses, lists or
configures. Modelling these line by line would be transliteration, and no property of
behaviour would follow.

Cryptography (sealed frames, prekeys, signatures) is beyond TLC and taken to work.
Import and export are pure conversions. Storage selection and migration run once, at
start-up. Audit and notifications are single SQL statements. File-system loss after a
power failure (`writeJSON` does not fsync) and corrupted frame files lie outside what
the code controls. In the log clients the editors' `localStorage` copy is taken as
empty when a session opens: sessions are in browser profiles of their own
(`GridSession` has that copy). `createMemoryUpdateLog` is a test double; unlike the Go
stores it consumes a seq when it refuses a stale snapshot. Ids that a `TextSession`
mints twice after a crash are in the model, and its property speaks of behaviours
without them. Anonymous share links, comments and suggestions have no module: each is
one row or record read and written per request. A folder whose creation fails twice, in the
ACL and in the rollback, is left out.

## 8. Plan

1. Proofs: convergence of `GridSession`.
2. Comments and suggestions as rows read and written
   under overlapping requests; share links with password and expiry.
3. The rendezvous board and the transport probes under `Fabric`; three peers in
   `PeerSession`.
