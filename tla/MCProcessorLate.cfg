CONSTANTS
  WindowSeconds = 2
  RetentionWindows = 1
  Timestamps = {0, 4}
  Garbled = Garbled
  Incomplete = Incomplete
  MaxLog = 4
  MaxFaults = 0
SPECIFICATION Spec
PROPERTIES FinalizedOnceClosed
