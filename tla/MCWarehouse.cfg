SPECIFICATION FairSpec
CONSTANTS
  DaySeconds = 2
  p1 = p1
  p2 = p2
  Pipelines = {p1, p2}
  Models = {"fct_revenue_by_day", "dim_users"}
  Data <- MCData
  GoldenDate = 1
  WaitAttempts = 2
  MaxFaults = 1
INVARIANTS
  MartsOfWholeLoads
  SomePipelineSucceeds
PROPERTIES
  AloneMeansPopulated
  EveryPipelineEnds
\* The pipelines end.
CHECK_DEADLOCK FALSE
