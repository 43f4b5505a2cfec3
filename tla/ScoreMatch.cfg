SPECIFICATION Spec
CONSTANTS
  ArenaExponent <- PythExponent
  Settlements <- MCSettlements
  I64Max = 20000
INVARIANT PriceNeverAltered
INVARIANT CloserInEveryRoundNeverLoses
INVARIANT LeadOfFourBpsWins
INVARIANT ShownTableExplainsVerdict
CHECK_DEADLOCK FALSE
