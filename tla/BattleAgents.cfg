SPECIFICATION FairSpec
CONSTANTS
    t1 = t1
    t2 = t2
    p1 = p1
    a1 = a1
    a2 = a2
    NoAgent = NoAgent
    Turns = {t1, t2}
    Players = {p1}
    PlayerOf <- OnePlayer
    Agents = {a1, a2}
    Kinds = {"token2022"}
    HISTORY_RETRIES = 1
    HistoryLimit = 3
INVARIANTS
    ValidAnswersAreOwn
    AskedAgentsAreOnRecord
    FundedAgentsAreNeverAsked
PROPERTIES
    ImplementsChatPromise
    TurnsEnd
CHECK_DEADLOCK FALSE
