SPECIFICATION FairSpec
CONSTANTS
  IntModes = {0, 1, 2, 3}
  MaxPoints = 2
  MaxReports = 2
  Fails = TRUE
INVARIANTS BusExclusive LastReportKept FailedInitIsClosed
PROPERTIES DisplaySettles
