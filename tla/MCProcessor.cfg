CONSTANTS
  WindowSeconds = 2
  RetentionWindows = 1
  Timestamps = {0, 3, 4}
  Garbled = Garbled
  Incomplete = Incomplete
  MaxLog = 3
  MaxFaults = 1
SPECIFICATION Spec
INVARIANTS RowsFromDistinctEvents MemoryIsExact CleanStopStoresAll OvercountBounded
PROPERTIES RowsOnlyRefined FlushBoundsMemory StoreRefined
