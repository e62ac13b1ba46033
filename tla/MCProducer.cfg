SPECIFICATION FairSpec
CONSTANTS
  BurstEvery = 2
  BurstMultiplier = 2
  Capacity = 3
  MaxEvents = 5
  MaxRuns = 2
  MaxFaults = 2
INVARIANTS
  NothingVanishes
  RunIsPrefix
  CleanStopDeliversAll
PROPERTIES
  StopsWhenTold
\* The last run ends.
CHECK_DEADLOCK FALSE
