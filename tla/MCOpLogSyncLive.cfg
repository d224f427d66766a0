SPECIFICATION FairSpec
CONSTANTS
  s1 = s1
  s2 = s2
  Session = {s1, s2}
  MaxFrame = 2
  AdviseAt = 5
  MaxFaults = 1
  CanSwitchOff = TRUE
  SnapshotEvery = 1
  MaxOps = 1
  Fabric = TRUE
PROPERTIES
  EveryAwaitEnds
  ArmedTimerLogs
CHECK_DEADLOCK FALSE
