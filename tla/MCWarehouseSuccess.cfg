SPECIFICATION Spec
CONSTANTS
  DaySeconds = 2
  p1 = p1
  p2 = p2
  Pipelines = {p1, p2}
  Models = {"fct_daily_active_users", "fct_revenue_by_day", "dim_users"}
  Data <- MCData
  GoldenDate = 1
  WaitAttempts = 1
  MaxFaults = 0
\* The pipelines end.
CHECK_DEADLOCK FALSE
PROPERTIES SuccessMeansPopulated
