SPECIFICATION Spec
CONSTANTS
  b1 = b1
  k1 = k1
  o1 = o1
  Tab = {1, 2}
  Browser = {b1}
  Home <- MCHome
INVARIANTS
  TypeOK
  
  ShowsWhatItHasSeen
  

  
CHECK_DEADLOCK FALSE
