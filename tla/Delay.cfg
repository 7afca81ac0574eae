SPECIFICATION FairSpec
CONSTANTS
  Wrap = 8
  UsPerMs = 5
  Calls = {0, 1, 3}
  MaxAway = 3
  MaxElapsed = 60
INVARIANTS TypeOK NeverEarly NeverVeryLate
PROPERTIES Returns

CHECK_DEADLOCK FALSE
