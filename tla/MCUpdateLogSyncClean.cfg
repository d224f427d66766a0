SPECIFICATION Spec
CONSTANTS
  s1 = s1
  s2 = s2
  Session = {s1, s2}
  MaxFrame = 3
  AdviseAt = 9
  MaxFaults = 0
  CanSwitchOff = FALSE
  SnapshotEvery = 5
  MaxOps = 3
  Fabric = FALSE
SYMMETRY Symmetry
INVARIANTS
  CleanIsLogged
CHECK_DEADLOCK FALSE
