SPECIFICATION PureSpec
CONSTANTS
  MaxValue = 3
  MaxSize = 4
  Bins = 3
  DaySeconds = 2
  NUsers = 2
  Days = 2
  EventsPerDay = {1, 2}
  OrdersPerDay = {0, 1, 2}
  Amounts = {1, 2}
  Statuses = {"placed", "completed"}
  MaxEvents = 3
  MaxOrders = 2
INVARIANTS
  EveryValueCounted
  KsIsLargestGap
  SameDistributionStable
  DauCountsSessions
  MartsAgreeWithHelpers
  MartsReconcile
\* The inputs are bounded, and the generator ends.
CHECK_DEADLOCK FALSE
