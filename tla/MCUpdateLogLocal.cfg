SPECIFICATION FairSpec
CONSTANTS
  r1 = r1
  r2 = r2
  d1 = d1
  d2 = d2
  Req <- MCReq
  Data <- MCData
  FloorArg <- MCFloorArg
  SinceArg <- MCSinceArg
  Nobody = Nobody
  MaxSeq = 3
INVARIANTS
  HeadNeverLost
  TailRetained
  IInv
PROPERTIES
  CompactionNeverRegresses
  ImplementsDurableLog
  EveryCallReturns
