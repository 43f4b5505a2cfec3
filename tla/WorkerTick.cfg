SPECIFICATION FairSpec
CONSTANTS
  Workers = {w1, w2}
  NoAttempt = NoAttempt
  Matches = {m1}
  Rounds = {0}
  RoundOffset <- EverySecond
  Duration = 1
  Grace = 1
  ActivateBy = 0
  SKEW = 1
  PriceTimes = {1}
  Faulty = {}
  LEASE = 0
  REQUEUE = 0
  MaxFaults = 1
  MaxTime = 4
INVARIANT TypeOK
INVARIANT SucceededMeansLanded
INVARIANT NothingTriedTooEarly
PROPERTY FinishedJobsStay
PROPERTY HealthyMatchesEnd
CHECK_DEADLOCK FALSE
