SPECIFICATION Spec
CONSTANTS
  p1 = p1
  p2 = p2
  p3 = p3
  A = A
  B = B
  C = C
  Players <- MCPlayers
  NoPlayer = NoPlayer
  Orchestrators = {"o1", "o2"}
  Assets = {A, B, C}
  Benchmark <- MCBenchmark
  Profile <- MCProfile
  MinStake <- MCMinStake
  Decimals <- MCDecimals
  QUOTE_DECIMALS = 6
  U64_MAX = 80000
  Registry <- MCRegistry
  Forms <- MCForms
  UpstreamPrices <- MCUpstreamPrices
  TermsOffered <- BothDuels
  Commitments = {"c"}
  NoCommitment = NoCommitment
  Inputs <- MCInputs
  PriceUpdates <- MCPriceUpdates
  ConfigParams <- MCThreeConfigs
  MinDuration = 3
  InitialWallet <- MCWallet
  InitialQuote <- MCQuote
  MaxSurplus <- NoSurplus
  MaxTime = 10
  I64Max = 1000
SYMMETRY PlayerSymmetry
INVARIANT EscrowInv
INVARIANT DepositsMatchFlags
INVARIANT DeadlinesLeaveNoGap
INVARIANT EscrowNeverTrapped
INVARIANT OfferedActionsSucceed
INVARIANT AcceptedActionsAreOffered
INVARIANT StatusPromisesHold
INVARIANT FormsAreAccepted
PROPERTY WinnerGetsFullWindow
PROPERTY JoinedTermsFrozen
PROPERTY ImplementsPromise
CHECK_DEADLOCK FALSE
