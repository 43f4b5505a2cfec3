----------------------------- MODULE MCMatchEscrow -----------------------------
(***************************************************************************)
(* Small instances of MatchEscrow and PlayerActions for TLC: three keys    *)
(* that may play (so there is always a stranger), two mints, one timing    *)
(* profile of length 4 (not a multiple of three), unit windows.            *)
(***************************************************************************)
EXTENDS PlayerActions, TLC

CONSTANTS p1, p2, p3, A, B, C   \* model values

MCPlayers == {p1, p2, p3}
TwoPlayers == {p1, p2}
PlayerSymmetry == Permutations(MCPlayers)

MCBenchmark ==
    [a \in Assets |-> [feed |-> "QQQ", exponent |-> -5, quote |-> "USDC",
                         max_price_age_seconds |-> 1, max_confidence_bps |-> 5000]]

MCProfile ==
    [k \in {"demo"} |->
        [duration_seconds |-> 4, settlement_grace_seconds |-> 1,
         exercise_window_seconds |-> 1, join_window_seconds |-> 1,
         activation_window_seconds |-> 1]]

\* A unit of either mint is a hundredth or a thousandth of a token; of C's, which only forms
\* name, a tenth.
MCDecimals == [a \in Assets |-> IF a = A THEN 2 ELSE IF a = B THEN 3 ELSE 1]
MCMinStake == [a \in Assets |-> min_stake_amount(MCDecimals[a])]

\* The creator stakes more than the minimum, the challenger exactly that.
Offer(c, d) ==
    [arena |-> [s \in Sides |-> IF s = "creator" THEN c ELSE d],
     stake |-> [s \in Sides |-> IF s = "creator" THEN MCMinStake[c] + 1 ELSE MCMinStake[d]],
     strike |-> [s \in Sides |-> IF s = "creator" THEN 1 ELSE 3],
     profile_kind |-> "demo"]
BothDuels == {Offer(A, B), Offer(A, A)}

\* The challenger's stake costs more quote than any player has.
MCWallet == [p \in Players |-> [a \in Assets |-> MCMinStake[a] + 1]]
MCQuote == [p \in Players |-> 2]

\* At most one token sent unasked, into the vault both stakes may share.
NoSurplus == [a \in Assets |-> 0]
OneSurplus == [a \in Assets |-> IF a = A THEN 1 ELSE 0]

Valid(n) == [outcome |-> "Valid", predicted_price |-> n]
TimedOut == [outcome |-> "Timeout", predicted_price |-> 0]
MCInputs == {Valid(2), TimedOut}

Update(price, conf) ==
    [full |-> TRUE, feed |-> "QQQ", price |-> price, conf |-> conf, exponent |-> -5]
\* Two usable prices, one unverified, one too uncertain.
MCPriceUpdates == {Update(2, 0), Update(4, 1), [Update(2, 0) EXCEPT !.full = FALSE], Update(2, 2)}

DecisivePriceUpdates == {Update(2, 0)}

MCConfigParams ==
    {[orchestrator |-> o, min_duration_seconds |-> 3, max_duration_seconds |-> 4,
      max_price_age_seconds |-> 1, max_confidence_bps |-> 5000] : o \in Orchestrators}

\* Besides that: another orchestrator with half the confidence limit, and
\* parameters under which the profile is out of bounds.
MCThreeConfigs ==
    {[orchestrator |-> "o1", min_duration_seconds |-> 3, max_duration_seconds |-> 4,
      max_price_age_seconds |-> 1, max_confidence_bps |-> 5000],
     [orchestrator |-> "o2", min_duration_seconds |-> 3, max_duration_seconds |-> 4,
      max_price_age_seconds |-> 2, max_confidence_bps |-> 1000],
     [orchestrator |-> "o2", min_duration_seconds |-> 5, max_duration_seconds |-> 5,
      max_price_age_seconds |-> 1, max_confidence_bps |-> 5000]}

(***************************************************************************)
(* The challenge form: stakes of less than, of exactly and of more than    *)
(* the minimum, with too many places for one mint, for two and for all;    *)
(* prices whose strikes come to nothing, to a fraction, to whole units and *)
(* to more than U64_MAX.                                                   *)
(***************************************************************************)
StakeTexts == {Decimal(0, 4, 2), Decimal(0, 5, 2), Decimal(0, 50, 3), Decimal(0, 55, 3),
               Decimal(0, 500, 4), Decimal(1, 0, 0)}
PriceTexts == {Decimal(0, 0, 0), Decimal(0, 1, 5), Decimal(0, 35, 6), Decimal(1, 5, 1),
               Decimal(0, 1234, 7), NotADecimal}
MCForms ==
    [arena : [Sides -> Assets], stake : [Sides -> StakeTexts],
     price : [Sides -> PriceTexts], profile : {"demo"}]
\* In plain decimals, too fine for the quote mint, and in exponential notation.
MCUpstreamPrices == {Decimal(1, 50, 2), Decimal(0, 1234, 7), NotADecimal}

\* One token of each issuer, one not set up and one switched off.
Entry(symbol, issuer, enabled, devnet) ==
    [symbol |-> symbol, issuer |-> issuer, enabled |-> enabled,
     mainnetMint |-> symbol, devnetTestMint |-> devnet]
MCRegistry ==
    {Entry("PRE", "prestocks", TRUE, A), Entry("XST", "xstocks", TRUE, B),
     Entry("NEW", "xstocks", TRUE, ""), Entry("OLD", "prestocks", FALSE, A)}

=============================================================================
