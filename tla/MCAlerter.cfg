CONSTANTS
  WindowSeconds = 2
  RetentionWindows = 1
  Timestamps = {0, 3}
  Garbled = Garbled
  Incomplete = Incomplete
  MaxLog = 3
  EpmMax = 30
  ConvMinPercent = 50
  LookbackWindows = 1
  MaxNow = 3
  MaxFailures = 1
SPECIFICATION AllFairSpec
INVARIANTS AlertsJustified RateAlertsBelowRows
PROPERTIES BreachesReported
