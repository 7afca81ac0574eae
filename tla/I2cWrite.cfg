SPECIFICATION Spec
CONSTANTS
  Transfers <- const_Transfers
  StopPolls = 2
  MaxCalls = 1
INVARIANTS OkMeansWritten
CHECK_DEADLOCK FALSE
