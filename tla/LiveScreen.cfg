CONSTANTS
    Servers = {s1, s2}
    Wallets = {w1, w2}
    NoWallet = NoWallet
    MainnetMints = {"SPACEX", "OPENAI"}
    TokenAccounts <- MCTokenAccounts
    BENCHMARK_MAX_AGE = 1
    CACHE_MS = 1
    MAX_LIVE_POINTS = 2
    Polls = {p1, p2}
    Requests = {r1, r2}
    StartTime = 2
    StartTs = 2
    TargetEnd = 3
    RoundDue = {2}
    Rounds = 2
    MaxTime = 4
SPECIFICATION Spec
SYMMETRY Interchangeable
INVARIANT PickerTellsTheTruth
PROPERTIES ChartRunsForward ServedPriceIsRecent
CHECK_DEADLOCK FALSE
