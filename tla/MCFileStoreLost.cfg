SPECIFICATION Spec
CONSTANTS
  r1 = r1
  r2 = r2
  Req = {r1, r2}
  Stores = {"local"}
  Cap = 2
  MaxCalls = 2
SYMMETRY Symmetry
INVARIANTS
  NoSaveLost
CHECK_DEADLOCK FALSE
