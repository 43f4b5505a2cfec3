SPECIFICATION PromptSpec
CONSTANTS
  Workers = {w1}
  NoAttempt = NoAttempt
  Matches = {m1}
  Rounds = {0, 1}
  RoundOffset <- EverySecond
  Duration = 2
  Grace = 1
  ActivateBy = 1
  SKEW = 0
  PriceTimes = {2}
  Faulty = {}
  LEASE = 5
  REQUEUE = 0
  MaxFaults = 0
  MaxTime = 6
INVARIANT FailureMeansNoPrice
CHECK_DEADLOCK FALSE
