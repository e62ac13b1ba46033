SPECIFICATION FairSpec
CONSTANTS
  w1 = w1
  w2 = w2
  Pages = {w1, w2}
  Retries = 2
  Passes = 2
  MaxOutages = 1
INVARIANTS
  ReadyMeansSchema
  RaceCostsOneAttempt
PROPERTIES
  ServicesComeUp
  PagesRecover
