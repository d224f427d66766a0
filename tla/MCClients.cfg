SPECIFICATION Spec
CONSTANTS
  s1 = s1
  s2 = s2
  Session = {s1, s2}
  MaxFaults = 1
  MaxOps = 2
  SnapshotEvery = 2
  OpsFrame = 2
  OpsAdviseAt = 2
  OpsSwitchOff = TRUE
  OpsFabric = FALSE
  YjsFrame = 1
  YjsAdviseAt = 3
  YjsSwitchOff = FALSE
  YjsFabric = TRUE
SYMMETRY Symmetry
INVARIANTS
  NothingDropped
  CoveredTruthful
  AloneRecoverable
  LogIntegrates
CHECK_DEADLOCK FALSE
