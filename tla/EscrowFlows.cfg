SPECIFICATION FairSpec
CONSTANTS
  p1 = p1
  p2 = p2
  p3 = p3
  A = A
  B = B
  C = C
  Players <- TwoPlayers
  NoPlayer = NoPlayer
  Orchestrators = {"o1"}
  Assets = {A, B}
  Benchmark <- MCBenchmark
  Profile <- MCProfile
  MinStake <- MCMinStake
  Decimals <- MCDecimals
  QUOTE_DECIMALS = 6
  U64_MAX = 80000
  Registry <- MCRegistry
  Forms <- MCForms
  UpstreamPrices <- MCUpstreamPrices
  TermsOffered <- BothDuels
  Commitments = {"c"}
  NoCommitment = NoCommitment
  Inputs <- MCInputs
  PriceUpdates <- DecisivePriceUpdates
  ConfigParams <- MCConfigParams
  MinDuration = 3
  InitialWallet <- MCWallet
  InitialQuote <- MCQuote
  MaxSurplus <- OneSurplus
  MaxTime = 10
  I64Max = 1000
INVARIANT Solvent
PROPERTIES
  StakesChangeHandsOnlyAtStrike
  EscrowDrains
CHECK_DEADLOCK FALSE
