SPECIFICATION FairSpec
CONSTANTS
  Transfers <- const_Transfers
  StopPolls = 2
  MaxCalls = 3
INVARIANTS WireFollows ReleasesBus
PROPERTIES ImplementsXfer TransferReturns
CHECK_DEADLOCK FALSE
