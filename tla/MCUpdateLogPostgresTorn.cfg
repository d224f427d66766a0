SPECIFICATION Spec
CONSTANTS
  r1 = r1
  r2 = r2
  r3 = r3
  d1 = d1
  d2 = d2
  Req <- MCTwoReq
  Data <- MCData
  FloorArg <- MCFloorArg
  SinceArg <- MCSinceArg
  Nobody = Nobody
  MaxSeq = 3
SYMMETRY SymmetryTwo
INVARIANTS
  LoadComplete
