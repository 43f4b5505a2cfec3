SPECIFICATION Spec
CONSTANTS
  a1 = a1
  a2 = a2
  a3 = a3
  creator = creator
  challenger = challenger
  Attempts = {a1, a2}
  NoAttempt = NoAttempt
  Sides = {creator, challenger}
  Stored = {"posted", "missing", "tampered"}
  RoundDue = 1
  WindowEnd = 4
  LEASE = 1
  REQUEUE = 0
  MaxOutages = 1
  MaxTime = 4
SYMMETRY Interchangeable
INVARIANT AtMostOneChat
INVARIANT LeaseHolderUndisturbed
INVARIANT PostedAnswersAreRecorded
PROPERTY AnswersAreFinal
CHECK_DEADLOCK FALSE
