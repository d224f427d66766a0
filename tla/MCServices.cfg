SPECIFICATION Spec
CONSTANTS
  r1 = r1
  r2 = r2
  Account = {a1, a2, a3}
  Data = {d1, d2}
  Nobody = Nobody
  Request = {r1, r2}
  Handler = {1, 2}
  Setting <- MCSetting
  Signer = {1, 2}
  SignedFirst = 1
  MaxSignCalls = 2
  Reserved = {a1}
  Invite = {1, 2}
  MaxUses <- MCMaxUses
  MaxSeats = 2
  MaxRegistrations = 3
  MaxStoreFaults = 1
  Kind = {"session", "apikey", "entitlement"}
  TrustTTL = 2
  Timeout = 1
  Expiry = {1, 3}
  MaxStorage = 4
  Size = {1, 2}
  MaxWritten = 6
  FirstOwner = a1
  FirstViewer = a2
  MaxAccesses = 2
  Cap = 4
  Cost = 2
  Limit = 2
  Window = 2
  MaxTime = 7
  MaxAttempts = 2
  Lockout = 2
  AttemptTTL = 4
  MaxElapsed = 8
  Folder = {1, 2, 3}
  MaxFolds = 2
  Value = {1, 2}
  MaxRev = 3
  MaxMisses = 1
  FloorArg <- MCFloorArg
  SinceArg = {0, 1, 2}
  MaxSeq = 3
SYMMETRY Symmetry
INVARIANTS
  TypeOK
  SignChainIntact
  SignSealIsTrue
  SignSignaturesKept
  AccountsAreAuthorised
  TrustIsRecent
  PlanLimitsHeld
  LimitsAsTold
  AccessIsByRole
  FolderTree
  RangeKept
  TornLoadOnlyByCompaction
PROPERTIES
  ImplementsWriters
CHECK_DEADLOCK FALSE
