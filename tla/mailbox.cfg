SPECIFICATION FairSpec
CONSTANTS
  c1 = c1
  c2 = c2
  c3 = c3
  k1 = k1
  k2 = k2
  Calls <- AllCalls
  Capacity = 1
  NoCall = NoCall
  Cases = {k1, k2}
  CaseOf <- TwoCases
  Hung = {k2}
CHECK_DEADLOCK FALSE
INVARIANTS TypeOK OneAtATime
PROPERTIES CallContractSpec CallsReturn ShutdownDrains
