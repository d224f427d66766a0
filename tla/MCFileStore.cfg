SPECIFICATION Spec
CONSTANTS
  r1 = r1
  r2 = r2
  Req = {r1, r2}
  Stores = {"local", "postgres"}
  Cap = 3
  MaxCalls = 4
SYMMETRY Symmetry
INVARIANTS
  SavesKept
  OrganizationKept
PROPERTIES
  SwapsOnlyItsBase
  DeletedStaysDeleted
CHECK_DEADLOCK FALSE
