SPECIFICATION Spec
CONSTANTS
  s1 = s1
  s2 = s2
  Session = {s1, s2}
  MaxFrame = 2
  AdviseAt = 9
  MaxFaults = 0
  CanSwitchOff = FALSE
  SnapshotEvery = 2
  MaxOps = 2
  Fabric = TRUE
SYMMETRY Symmetry
INVARIANTS
  AckedRecoverable
CHECK_DEADLOCK FALSE
