SPECIFICATION FairSpec
CONSTANTS
  FifoDepth = 4
  WaterMark = 2
  MaxSets = 5
INVARIANTS TypeOK NeverBack
PROPERTIES Settles
CHECK_DEADLOCK FALSE
