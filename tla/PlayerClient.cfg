SPECIFICATION Spec
CONSTANTS
    createTab = createTab
    joinTab = joinTab
    alice = alice
    bob = bob
    plain = plain
    messy = messy
    blank = blank
    NoTerms = NoTerms
    NoTx = NoTx
    NoPage = NoPage
    Matches = {m1, m2}
    Wallets = {alice, bob}
    Salts = {1, 2, 3}
    Texts = {messy, plain, blank}
    Normal <- NormalOf
    Blank = {blank}
    LongAsTyped = {}
    LongOnceNormal = {}
    Creators = {createTab}
    Joiners = {joinTab}
    Owner <- OwnerOf
    Terms = {d1, d2}
    Rounds = {r1}
    InFlight = 1
INVARIANTS
    EveryCommitmentHasItsText
    TermsWereReviewed
    OnlySignedStrategiesShown
    NoAnswerShownEarly
    TextReadWasTyped
SYMMETRY Interchangeable
CHECK_DEADLOCK FALSE
