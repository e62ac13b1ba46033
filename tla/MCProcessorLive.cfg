CONSTANTS
  WindowSeconds = 2
  RetentionWindows = 1
  Timestamps = {0, 4}
  Garbled = Garbled
  Incomplete = Incomplete
  MaxLog = 2
  MaxFaults = 2
SPECIFICATION FairSpec
PROPERTIES EveryMessagePassed EveryEventReflected
