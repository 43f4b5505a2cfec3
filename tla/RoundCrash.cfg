SPECIFICATION PromptSpec
CONSTANTS
  a1 = a1
  a2 = a2
  a3 = a3
  creator = creator
  challenger = challenger
  Attempts = {a1, a2}
  NoAttempt = NoAttempt
  Sides = {creator, challenger}
  Stored = {"posted"}
  RoundDue = 1
  WindowEnd = 6
  LEASE = 5
  REQUEUE = 0
  MaxOutages = 0
  MaxTime = 6
INVARIANT CrashIsRecovered
CHECK_DEADLOCK FALSE
