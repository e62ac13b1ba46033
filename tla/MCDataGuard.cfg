SPECIFICATION FairSpec
CONSTANTS
  j1 = j1
  j2 = j2
  Jobs = {j1, j2}
  NoJob = NoJob
  ClockModes = {TRUE, FALSE}
  Elapsed = 60
INVARIANTS
  EmptyOnlyMidSeed
  GoldenUnlessDisturbed
  DisturbanceShows
  ResultsWhole
  AnswerOfOneRun
  TrendShowsEveryRun
PROPERTIES
  WallclockLatestIsMostRecent
  FinishedRunsAnswered
\* The system may stop: every job has ended and nothing was stored.
CHECK_DEADLOCK FALSE
