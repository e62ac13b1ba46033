SPECIFICATION StreamFairSpec
CONSTANTS
  WindowSeconds = 2
  RetentionWindows = 1
  Timestamps = {0}
  Garbled = Garbled
  Incomplete = Incomplete
  MaxLog = 2
  MaxFaults = 1
  EpmMax = 30
  ConvMinPercent = 50
  LookbackWindows = 1
  MaxNow = 3
  MaxFailures = 1
INVARIANTS
  RateAlertsTrue
PROPERTIES
  SurgesReported
