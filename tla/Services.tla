------------------------------- MODULE Services -------------------------------
(***************************************************************************)
(* What the server and its databases do: e-signing, accounts, cached       *)
(* answers of the providers, storage quota, rate limits, the lockout of    *)
(* the login, file access, folders, protected ranges and the Postgres      *)
(* update log.  These keep no state in common, so a behaviour is one of a  *)
(* single component, the part chosen at first: the others stay as they     *)
(* were, and the state spaces of all add up instead of multiplying.        *)
(***************************************************************************)
EXTENDS Integers, FiniteSets

CONSTANTS
  Account, Data, Nobody,
  Request,            \* bound: requests under way at once
  Handler,            \* the same of e-signing and registration, numbered
  Setting, Signer, SignedFirst, MaxSignCalls,
  Reserved, Invite, MaxUses, MaxSeats, MaxRegistrations, MaxStoreFaults,
  Kind, TrustTTL, Timeout, Expiry,
  MaxStorage, Size, MaxWritten,
  FirstOwner, FirstViewer, MaxAccesses,
  Cap, Cost, Limit, Window, MaxTime,
  MaxAttempts, Lockout, AttemptTTL, MaxElapsed,
  Folder, MaxFolds,
  Value, MaxRev, MaxMisses,
  FloorArg, SinceArg, MaxSeq

(* config.go: durations, sizes and limits are counts; a bucket has room    *)
(* for a request, a window lets one in, a lockout takes one failure at     *)
(* least and lasts, and is over before its record is dropped (attemptTTL). *)
ASSUME LimitsAreSet ==
  /\ MaxStorage \in Nat /\ Size \subseteq Nat /\ MaxSeats \in Nat
  /\ TrustTTL \in Nat /\ Timeout \in Nat /\ Expiry \subseteq Nat
  /\ Cap \in Nat /\ Cost \in Nat /\ Cost <= Cap
  /\ Limit \in Nat \ {0} /\ Window \in Nat
  /\ MaxAttempts \in Nat \ {0} /\ Lockout \in Nat \ {0}
  /\ AttemptTTL \in Nat /\ Lockout <= AttemptTTL
  /\ MaxTime \in Nat /\ MaxElapsed \in Nat

(* signing.go: an envelope that was sent has signers, numbered from 1, of  *)
(* whom the first may have signed.                                         *)
ASSUME SignersAreNumbered ==
  /\ Signer \subseteq Nat \ {0} /\ Signer # {}
  /\ SignedFirst \in Nat /\ 1..SignedFirst \subseteq Signer

(* Requests are finitely many, and none is nobody; a cell holds something. *)
ASSUME RequestsAreFinite ==
  IsFiniteSet(Request) /\ IsFiniteSet(Handler) /\ Nobody \notin Request
ASSUME CellsHoldValues == Value # {}

(* The names of accounts are not empty, which is how no owner is stored.   *)
ASSUME FilesHaveOwners ==
  "none" \notin Account /\ FirstOwner \in Account /\ FirstViewer \in Account

(* folders.go: the folders are numbered in the order they are made in.     *)
ASSUME FoldersAreNumbered ==
  IsFiniteSet(Folder) /\ Folder = 1..Cardinality(Folder)

(* invites/store.go: invites are finitely many, and the uses of one are a  *)
(* count; what came without a token is none of them.                       *)
ASSUME InvitesHaveUses ==
  IsFiniteSet(Invite) /\ 0 \notin Invite /\ MaxUses \in [Invite -> Nat]

(* postgres.go: floors are any integer a client posts, positions are not   *)
(* negative (parseSince of updatelog.go).                                  *)
ASSUME PositionsAreNumbers ==
  FloorArg \subseteq Int /\ SinceArg \subseteq Nat

VARIABLES part,
          backend, mode, env, log, sealed, clock, request, left, mayFail,
          died, broken, stale,
          users, invite, registration, calls, storeFaults, admitted, unasked,
          contested, seatsCrossed,
          credential, expires, valid, cache, introspection, age, worst, late,
          committed, reserved, upload, written,
          owner, share, exists, access, accesses, granted, unfounded, muddled,
          now, bucket, entry, mark, allowed, promised,
          record, current, attempt, guesses, elapsed,
          storage, parent, owned, place, folding, folds, asked, filed,
          deleted, tangled, slipped,
          keeper, stored, saving, misses, intruded,
          snap, frames, lock, pc, args, seen, reply, rows, raised

signVars == <<backend, mode, env, log, sealed, clock, request, left, mayFail,
              died, broken, stale>>
accountVars == <<users, invite, registration, calls, storeFaults, admitted,
                 unasked, contested, seatsCrossed>>
trustVars == <<credential, expires, valid, cache, introspection, age, worst,
               late>>
quotaVars == <<committed, reserved, upload, written>>
accessVars == <<owner, share, exists, access, accesses, granted, unfounded,
                muddled>>
limitVars == <<now, bucket, entry, mark, allowed, promised>>
loginVars == <<record, current, attempt, guesses, elapsed>>
folderVars == <<storage, parent, owned, place, folding, folds, asked, filed,
                deleted, tangled, slipped>>
rangeVars == <<keeper, stored, saving, misses, intruded>>
rowVars == <<snap, frames, lock, pc, args, seen, reply, rows, raised>>

Sign == INSTANCE Signing WITH Request <- Handler, MaxCalls <- MaxSignCalls

Reg == INSTANCE Accounts WITH
  Request <- Handler, MaxCalls <- MaxRegistrations,
  MaxFaults <- MaxStoreFaults, request <- registration,
  faults <- storeFaults, crossed <- seatsCrossed

Trust == INSTANCE Introspection WITH
  TTL <- TrustTTL, kind <- credential, request <- introspection

Quota == INSTANCE StorageQuota WITH request <- upload

Access == INSTANCE FileAccess WITH
  MaxCalls <- MaxAccesses, request <- access, calls <- accesses

Limits == INSTANCE Limiters

Attempts == INSTANCE Login WITH TTL <- AttemptTTL, MaxTime <- MaxElapsed

Tree == INSTANCE Folders WITH
  MaxCalls <- MaxFolds, backend <- storage, request <- folding,
  calls <- folds, muddled <- tangled

Ranges == INSTANCE ProtectedRanges WITH
  MaxFaults <- MaxMisses, backend <- keeper, request <- saving,
  faults <- misses

Rows == INSTANCE UpdateLogPostgres WITH Req <- Request, log <- rows

-----------------------------------------------------------------------------
Parts == {"sign", "accounts", "trust", "quota", "access", "limits", "login",
          "folders", "ranges", "rows"}

(* Each part starts as it would alone; of the parts that will not move one *)
(* initial state is as good as another.                                    *)
Init ==
  /\ part \in Parts
  /\ Sign!Init /\ Reg!Init /\ Trust!Init /\ Quota!Init
  /\ Access!Init /\ Limits!Init /\ Attempts!Init /\ Tree!Init
  /\ Ranges!Init /\ Rows!Init
  /\ part # "sign" => backend = "local" /\ env = Sign!AsSent
  /\ part # "trust" => credential = "apikey" /\ valid
  /\ part # "folders" => /\ storage = "local" /\ place = Tree!Root
                         /\ \A f \in Folder : parent[f] = Tree!Root
  /\ part # "ranges" => keeper = "local"

fileVars == <<accessVars, folderVars, rangeVars>>
requestVars == <<signVars, fileVars>>
providerVars == <<accountVars, trustVars, quotaVars, limitVars, loginVars>>

RequestStep ==
  /\ \/ /\ part = "sign" /\ Sign!Next
        /\ UNCHANGED fileVars
     \/ /\ part = "access" /\ Access!Next
        /\ UNCHANGED <<signVars, folderVars, rangeVars>>
     \/ /\ part = "folders" /\ Tree!Next
        /\ UNCHANGED <<signVars, accessVars, rangeVars>>
     \/ /\ part = "ranges" /\ Ranges!Next
        /\ UNCHANGED <<signVars, accessVars, folderVars>>
  /\ UNCHANGED <<part, providerVars, rowVars>>
ProviderStep ==
  /\ \/ /\ part = "accounts" /\ Reg!Next
        /\ UNCHANGED <<trustVars, quotaVars, limitVars, loginVars>>
     \/ /\ part = "trust" /\ Trust!Next
        /\ UNCHANGED <<accountVars, quotaVars, limitVars, loginVars>>
     \/ /\ part = "quota" /\ Quota!Next
        /\ UNCHANGED <<accountVars, trustVars, limitVars, loginVars>>
     \/ /\ part = "limits" /\ Limits!Next
        /\ UNCHANGED <<accountVars, trustVars, quotaVars, loginVars>>
     \/ /\ part = "login" /\ Attempts!Next
        /\ UNCHANGED <<accountVars, trustVars, quotaVars, limitVars>>
  /\ UNCHANGED <<part, requestVars, rowVars>>
LogStep ==
  /\ part = "rows" /\ Rows!Next
  /\ UNCHANGED <<part, requestVars, providerVars>>

Next == RequestStep \/ ProviderStep \/ LogStep

vars == <<part, requestVars, providerVars, rowVars>>
Spec == Init /\ [][Next]_vars

-----------------------------------------------------------------------------
(* The type invariant of the part that moves.                              *)
TypeOK ==
  /\ part = "sign" => Sign!TypeOK
  /\ part = "accounts" => Reg!TypeOK
  /\ part = "trust" => Trust!TypeOK
  /\ part = "quota" => Quota!TypeOK
  /\ part = "access" => Access!TypeOK
  /\ part = "limits" => Limits!TypeOK
  /\ part = "login" => Attempts!TypeOK
  /\ part = "folders" => Tree!TypeOK
  /\ part = "ranges" => Ranges!TypeOK
  /\ part = "rows" => Rows!TypeOK

(* signing.go: the audit chain links, where no two events overlapped.      *)
SignChainIntact == part = "sign" => Sign!ChainIntact

(* seal.go: a sealed PDF lists every signature and verifies, and the       *)
(* envelope's final hash is that of the stored one.                        *)
SignSealIsTrue ==
  part = "sign" => Sign!SealVerifies /\ Sign!FinalHashIsOfSeal

(* signing.go: a signature that was logged is in the envelope, and a       *)
(* completed envelope was signed by all.                                   *)
SignSignaturesKept ==
  part = "sign" => Sign!SignatureKept /\ Sign!CompletedIsSigned

(* auth.go, invites/store.go: each account an invite lets in is counted,   *)
(* one account at most had no authorisation, and no reserved id.           *)
AccountsAreAuthorised ==
  part = "accounts" => Reg!InvitesAreCounted /\ Reg!OneBootstrap

(* session.go, apikey.go, enforce.go: nobody is let in on an answer older  *)
(* than the cache and the time-out allow, or after the session's expiry.   *)
TrustIsRecent == part = "trust" => Trust!TrustIsRecent

(* enforce.go: reservations and commitments of storage keep within the     *)
(* cap, each write counted once; and members and invites keep within the   *)
(* seats, unless two checks overlapped.                                    *)
PlanLimitsHeld ==
  /\ part = "quota" => Quota!QuotaHeld
  /\ part = "accounts" => Reg!SeatsWithinCap

(* tokenbucket.go, ratelimit.go: neither lets in more than it is set to,   *)
(* from whenever it is counted, and the wait a refusal tells is enough;    *)
(* auth.go: nor does the login, of wrong passwords, whatever overlaps.     *)
LimitsAsTold ==
  /\ part = "limits" => Limits!LimitsAsTold
  /\ part = "login" => Attempts!GuessesBounded

(* file_authz.go, fileacl/store.go: who is let through had the role while  *)
(* it was checked, and nobody loses access but by who takes it.            *)
AccessIsByRole ==
  part = "access" => Access!LetThroughWithRole /\ Access!NobodyLockedOut

(* folders.go: no folder gets inside itself, folders and files are where   *)
(* they were put, and a file of a deleted folder is in the root.           *)
FolderTree == part = "folders" => Tree!FolderTree

(* protected_ranges.go: a protected cell stays as it is, whatever one who  *)
(* may not edit it saves at the revision he read.                          *)
RangeKept == part = "ranges" => Ranges!RangeKept

(* postgres.go: a Load misses an update only if a compaction committed     *)
(* while it was under way, and then loading again from 0 gets it.          *)
TornLoadOnlyByCompaction == part = "rows" => Rows!TornLoadOnlyByCompaction

(* postgres.go: several server processes that append implement the writing *)
(* half of the Store interface.                                            *)
ImplementsWriters ==
  /\ part = "rows" => Rows!Abstract!Init
  /\ [][part = "rows" => [Rows!Abstract!WriteNext]_(Rows!Abstract!vars)]_rowVars
=============================================================================
