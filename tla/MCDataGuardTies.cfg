SPECIFICATION Spec
CONSTANTS
  j1 = j1
  j2 = j2
  Jobs = {j1, j2}
  NoJob = NoJob
  ClockModes = {FALSE}
  Elapsed = 0
PROPERTIES
  LatestIsMostRecent
\* The system may stop: every job has ended and nothing was stored.
CHECK_DEADLOCK FALSE
