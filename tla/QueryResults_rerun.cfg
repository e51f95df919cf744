CONSTANTS
  MaxRuns = 3
  MaxReceived = 1
  MaxFlushes = 1
SPECIFICATION ResultsSpec
INVARIANT LastRunIsDescribed
CHECK_DEADLOCK FALSE
