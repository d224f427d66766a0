SPECIFICATION Spec
CONSTANTS
  t1 = t1
  t2 = t2
  Part = {"saves", "peers", "fabric", "endpoints", "presence"}
  SaveTab = {1, 2}
  Kind = {"docs", "sheets", "slides", "whiteboard"}
  Save = {1, 2}
  MaxAtOnce = 3
  MaxRetries = 1
  MaxSaves = 2
  MaxRev = 3
  MaxSaveFaults = 1
  Member = {1, 2}
  Capability <- MCCapability
  MaxEdits = 1
  MaxLinks = 2
  MaxOffers = 2
  MaxFaults = 1
  Box = {"lan1", "lan2"}
  Cloud = "cloud"
  Request = {1, 2}
  Revalidate = 2
  Timeout = 1
  MaxTime = 5
  MaxCalls = 2
  MaxChanges = 1
  Tab = {t1, t2}
  Account <- MCAccount
  Self = "own"
  Heartbeat = 2
  Silence = 5
  Delay = 1
  MaxClock = 11
  MaxComings = 1
  MaxLost = 1
SYMMETRY Symmetry
INVARIANTS
  
  
  PeersAgree
  FabricReachTheSameWay
  EndpointsAsProbed
  PresenceAsHeard
CHECK_DEADLOCK FALSE
