SPECIFICATION FairSpec
CONSTANTS
  IntModes = {2, 3}
  MaxPoints = 1
  MaxReports = 2
  Fails = FALSE
PROPERTIES InitFinishes
