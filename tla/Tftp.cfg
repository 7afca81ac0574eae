SPECIFICATION Spec
CONSTANTS
  TFTP_SEQUENCE_SIZE = 4
  TFTP_BLOCK_SIZE = 1
  TFTP_MTU_BLOCKSIZE = 2
  TIMEOUT_COUNT = 1
  ARP_TIMEOUT_COUNT = 2
  Setups <- MCSetups
  MaxSessions = 2
  MaxResends = 1
  ServerCapacity = 1
  ClientCapacity = 2
INVARIANTS LoadedIsFile AckedIsStored WaitsArmed
CHECK_DEADLOCK FALSE
PROPERTY Terminates
