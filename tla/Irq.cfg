SPECIFICATION FairSpec
CONSTANTS
  NUMBER_OF_INT_VECTORS = 160
  EPIT1 = 88
  GPIO1_0_15 = 98
  GPIO1_16_31 = 99
  PWM1 = 115
  MaxEvents = 2
INVARIANTS NoDefaultDispatch VectorsReady MainResumesIntact
PROPERTIES Served
CHECK_DEADLOCK FALSE
