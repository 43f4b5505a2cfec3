------------------------------ MODULE MatchEscrow ------------------------------
(***************************************************************************)
(* One match of the stock_arena program: the Match account, the vaults its *)
(* PDA owns, the protocol config it is created under and the token         *)
(* accounts of everyone who signs.  Every instruction that can touch an    *)
(* existing match is one action; a rejected instruction changes nothing    *)
(* (a Solana transaction is atomic), so each require! is a conjunct of the *)
(* guard.  Two matches share no account but the config, which is why one   *)
(* match is enough.                                                        *)
(***************************************************************************)
EXTENDS PriceOracle

CONSTANTS
    Players,         \* keys that may sign as a player (or as a stranger)
    NoPlayer,        \* Pubkey::default(), the challenger before join_match
    Orchestrators,   \* keys the admin may configure as orchestrator
    Assets,          \* stake Arenas; an Arena stands for its asset mint
    Benchmark,       \* [Assets -> [feed, exponent, quote]]: fixed by create_arena
    Profile,         \* [kind -> timing profile]: identical on every Arena
    MinStake,        \* [Assets -> Nat]: min_stake_amount of the asset's decimals, or more
                     \* than any amount where that is an error
    TermsOffered,    \* the MatchTerms (and Arenas) creators may propose
    Commitments,     \* strategy commitments players may lock in
    NoCommitment,    \* [0u8; 32]
    Inputs,          \* the PredictionInputs an orchestrator may submit
    PriceUpdates,    \* the Pyth updates anyone may post, publish time apart
    ConfigParams,    \* the ProtocolParams the admin may set
    MinDuration,     \* 9 * 60 in validate
    InitialWallet,   \* [Players -> [Assets -> Nat]]: balances before the match
    InitialQuote,    \* [Players -> Nat]
    MaxSurplus,      \* bound: unsolicited tokens in each vault
    MaxTime          \* bound: the clock stops there

VARIABLES
    config, paused,          \* ProtocolConfig
    state, winner,           \* MatchState ("Absent" before create_match), Winner
    player, commitment,      \* [Sides -> key], [Sides -> commitment]
    terms,                   \* Arenas, amounts, strikes, profile, oracle limits
    join_deadline_ts, activation_deadline_ts,
    start_ts, round_due_ts, target_end_ts,
    settlement_deadline_ts, option_expiry_ts,
    start_price, final_price,
    predictions, submitted_rounds, score,
    deposit, refunded,       \* [Sides -> Nat], [Sides -> BOOLEAN]
    winner_stake_claimed,
    vault, wallet, quote,    \* token balances: match PDA, players, quote asset
    now                      \* Clock::unix_timestamp

setup == <<player, commitment, terms, join_deadline_ts>>
schedule == <<start_ts, round_due_ts, target_end_ts,
              settlement_deadline_ts, option_expiry_ts, start_price>>
rounds == <<predictions, submitted_rounds>>
result == <<final_price, score, winner>>
escrow == <<deposit, refunded, winner_stake_claimed, vault, wallet, quote>>

vars == <<config, paused, state, setup, activation_deadline_ts, schedule, rounds,
          result, escrow, now>>

-----------------------------------------------------------------------------
(***************************************************************************)
(* Types and assumptions                                                   *)
(***************************************************************************)
MatchStates == {"Absent", "Open", "Ready", "Active", "WinnerOptionOpen",
                "TieRefundable", "FailureRefundable", "OptionExercised",
                "OptionExpired", "Cancelled"}

Kinds == DOMAIN Profile

ConfigType == [orchestrator : Orchestrators,
               min_duration_seconds : Nat, max_duration_seconds : Nat,
               max_price_age_seconds : Nat, max_confidence_bps : Nat]

\* The price-age and confidence limits of an Arena are part of its Benchmark.
MatchTerms == [arena : [Sides -> Assets], stake : [Sides -> Nat],
               strike : [Sides -> Nat], profile_kind : Kinds]

\* What the Match account keeps of them: the terms and the effective limits.
AgreedTerms == [arena : [Sides -> Assets], stake : [Sides -> Nat],
                strike : [Sides -> Nat], profile_kind : Kinds,
                max_price_age_seconds : Nat, max_confidence_bps : Nat]
NoTerms == [profile_kind |-> "none"]

ASSUME PlayersAssumption == NoPlayer \notin Players /\ Orchestrators # {}

\* create_arena: what validate_profile pins, and positive oracle limits.
ASSUME ProfileAssumption ==
    \A k \in Kinds :
        /\ Profile[k].duration_seconds \in Nat /\ Profile[k].duration_seconds >= 3
        /\ Profile[k].settlement_grace_seconds \in Nat \ {0}
        /\ Profile[k].exercise_window_seconds \in Nat \ {0}
        /\ Profile[k].join_window_seconds \in Nat \ {0}
        /\ Profile[k].activation_window_seconds \in Nat \ {0}

ASSUME BenchmarkAssumption ==
    \A a \in Assets :
        /\ Benchmark[a].exponent \in Int
        /\ Benchmark[a].max_price_age_seconds \in Nat \ {0}
        /\ Benchmark[a].max_confidence_bps \in Nat \ {0}

ASSUME AmountAssumption ==
    /\ MinStake \in [Assets -> Nat \ {0}]
    /\ TermsOffered \subseteq MatchTerms
    /\ InitialWallet \in [Players -> [Assets -> Nat]]
    /\ InitialQuote \in [Players -> Nat]
    /\ MaxSurplus \in [Assets -> Nat] /\ MaxTime \in Nat

ASSUME InputAssumption ==
    /\ Inputs \subseteq PredictionRecord
    /\ \A u \in PriceUpdates : IsPriceUpdate(u)
    /\ ConfigParams \subseteq ConfigType
    /\ MinDuration \in Nat

Other(s) == IF s = "creator" THEN "challenger" ELSE "creator"
MinOf(a, b) == IF a <= b THEN a ELSE b

\* round_due_offsets == [0, duration / 3, duration / 3 * 2]
RoundOffset(k, r) == r * (Profile[k].duration_seconds \div 3)

TargetEnd(k) == now + Profile[k].duration_seconds
SettlementDeadline(k) == TargetEnd(k) + Profile[k].settlement_grace_seconds

\* Seeded bug: the exercise window starts at the target end, not at the deadline.
OptionExpiryFromTarget(k) == TargetEnd(k) + Profile[k].exercise_window_seconds
OptionExpiry(k) == SettlementDeadline(k) + Profile[k].exercise_window_seconds


\* Match::round_window_end
round_window_end(r) == IF r = 2 THEN target_end_ts ELSE round_due_ts[r + 1]

-----------------------------------------------------------------------------
(***************************************************************************)
(* Token transfers.  A transfer fails when the source cannot cover it, and *)
(* takes the whole instruction with it, so what it needs is part of the    *)
(* instruction's guard.  Every handler is such a guard, Can..., and the    *)
(* values it assigns: whoever passes the guard can take the step.          *)
(***************************************************************************)
CanPayIn(p, a, amount) == wallet[p][a] >= amount

PayIn(p, a, amount) ==
    /\ wallet' = [wallet EXCEPT ![p][a] = @ - amount]
    /\ vault' = [vault EXCEPT ![a] = @ + amount]

\* vault.rs pay_out: from the match's vault of mint a to p's token account.
pay_out(p, a, amount) ==
    /\ vault' = [vault EXCEPT ![a] = @ - amount]
    /\ wallet' = [wallet EXCEPT ![p][a] = @ + amount]

\* Seeded bugs: the payout does not zero the deposit; it empties the vault.
PayDepositKept(s, p) ==
    /\ pay_out(p, terms.arena[s], deposit[s])
    /\ UNCHANGED deposit
PayWholeVault(s, p) ==
    /\ deposit' = [deposit EXCEPT ![s] = 0]
    /\ pay_out(p, terms.arena[s], vault[terms.arena[s]])

\* Zero the recorded deposit of side s and pay it to key p, in s's own mint.
CanPayDeposit(s) == deposit[s] > 0 /\ vault[terms.arena[s]] >= deposit[s]

PayDeposit(s, p) ==
    /\ deposit' = [deposit EXCEPT ![s] = 0]
    /\ pay_out(p, terms.arena[s], deposit[s])

-----------------------------------------------------------------------------
(***************************************************************************)
(* Admin: protocol.rs.  Neither handler takes a match or a vault.          *)
(***************************************************************************)
ValidParams(c) ==
    /\ c.min_duration_seconds >= MinDuration
    /\ c.max_duration_seconds >= c.min_duration_seconds
    /\ c.max_price_age_seconds > 0
    /\ c.max_confidence_bps > 0

UpdateProtocolConfig(c) ==
    /\ ValidParams(c)
    /\ config' = c
    /\ UNCHANGED <<paused, state, setup, activation_deadline_ts, schedule,
                   rounds, result, escrow, now>>

SetPaused(b) ==
    /\ paused' = b
    /\ UNCHANGED <<config, state, setup, activation_deadline_ts, schedule,
                   rounds, result, escrow, now>>

-----------------------------------------------------------------------------
(***************************************************************************)
(* Setup: match_setup.rs                                                   *)
(***************************************************************************)
CanCreate(p, t) ==
    LET a == t.arena["creator"]
        duration == Profile[t.profile_kind].duration_seconds
    IN
    /\ state = "Absent"
    /\ ~paused
    /\ Benchmark[t.arena["challenger"]].feed = Benchmark[a].feed
    /\ Benchmark[t.arena["challenger"]].exponent = Benchmark[a].exponent
    /\ Benchmark[t.arena["challenger"]].quote = Benchmark[a].quote
    /\ \A s \in Sides : t.stake[s] >= MinStake[t.arena[s]] /\ t.strike[s] > 0
    /\ config.min_duration_seconds <= duration
    /\ duration <= config.max_duration_seconds
    /\ CanPayIn(p, a, t.stake["creator"])

CreateMatch(p, t, c) ==
    LET a == t.arena["creator"] IN
    /\ CanCreate(p, t)
    /\ PayIn(p, a, t.stake["creator"])
    /\ terms' = [arena |-> t.arena, stake |-> t.stake, strike |-> t.strike,
                 profile_kind |-> t.profile_kind,
                 max_price_age_seconds |->
                     MinOf(Benchmark[a].max_price_age_seconds, config.max_price_age_seconds),
                 max_confidence_bps |->
                     MinOf(Benchmark[a].max_confidence_bps, config.max_confidence_bps)]
    /\ player' = [player EXCEPT !["creator"] = p]
    /\ commitment' = [commitment EXCEPT !["creator"] = c]
    /\ join_deadline_ts' = now + Profile[t.profile_kind].join_window_seconds
    /\ deposit' = [deposit EXCEPT !["creator"] = t.stake["creator"]]
    /\ state' = "Open"
    /\ UNCHANGED <<config, paused, activation_deadline_ts, schedule, rounds, result,
                   refunded, winner_stake_claimed, quote, now>>

\* Seeded bugs: no check of the state, of the challenger's key.
CanJoinTwice(p) ==
    /\ ~paused /\ state \in {"Open", "Ready"} /\ p # player["creator"] /\ now <= join_deadline_ts
    /\ CanPayIn(p, terms.arena["challenger"], terms.stake["challenger"])

CanJoinOneself(p) ==
    /\ ~paused /\ state = "Open" /\ now <= join_deadline_ts
    /\ CanPayIn(p, terms.arena["challenger"], terms.stake["challenger"])

CanJoin(p) ==
    /\ ~paused
    /\ state = "Open"
    /\ p # player["creator"]
    /\ now <= join_deadline_ts
    /\ CanPayIn(p, terms.arena["challenger"], terms.stake["challenger"])

JoinMatch(p, c) ==
    /\ CanJoin(p)
    /\ PayIn(p, terms.arena["challenger"], terms.stake["challenger"])
    /\ player' = [player EXCEPT !["challenger"] = p]
    /\ commitment' = [commitment EXCEPT !["challenger"] = c]
    /\ deposit' = [deposit EXCEPT !["challenger"] = terms.stake["challenger"]]
    /\ activation_deadline_ts' = now + Profile[terms.profile_kind].activation_window_seconds
    /\ state' = "Ready"
    /\ UNCHANGED <<config, paused, terms, join_deadline_ts, schedule, rounds, result,
                   refunded, winner_stake_claimed, quote, now>>

CanCancel(p) ==
    /\ p = player["creator"]
    /\ state = "Open"
    /\ ~refunded["creator"]
    /\ CanPayDeposit("creator")

CancelOpenMatch(p) ==
    /\ CanCancel(p)
    /\ PayDeposit("creator", p)
    /\ refunded' = [refunded EXCEPT !["creator"] = TRUE]
    /\ state' = "Cancelled"
    /\ UNCHANGED <<config, paused, setup, activation_deadline_ts, schedule, rounds,
                   result, winner_stake_claimed, quote, now>>

-----------------------------------------------------------------------------
(***************************************************************************)
(* The running match: settlement.rs.  The benchmark is the creator's Arena.*)
(***************************************************************************)
Accepted(u) ==
    LET b == Benchmark[terms.arena["creator"]]
    IN  readable(u, b.feed, b.exponent, terms.max_confidence_bps)

ObservedPrice(u) == observed_price(u, Benchmark[terms.arena["creator"]].exponent)

\* A price that may start the match now.
Fresh(u, publish_time) ==
    /\ Accepted(u)
    /\ publish_time <= now
    /\ now - publish_time <= terms.max_price_age_seconds

CanActivate(o, u, publish_time) ==
    /\ o = config.orchestrator
    /\ ~paused
    /\ state = "Ready"
    /\ Fresh(u, publish_time)
    /\ now <= activation_deadline_ts

ActivateMatch(o, u, publish_time) ==
    LET k == terms.profile_kind IN
    /\ CanActivate(o, u, publish_time)
    /\ start_ts' = now
    /\ round_due_ts' = [r \in Rounds |-> now + RoundOffset(k, r)]
    /\ target_end_ts' = TargetEnd(k)
    /\ settlement_deadline_ts' = SettlementDeadline(k)
    /\ option_expiry_ts' = OptionExpiry(k)
    /\ start_price' = ObservedPrice(u)
    /\ state' = "Active"
    /\ UNCHANGED <<config, paused, setup, activation_deadline_ts, rounds, result,
                   escrow, now>>

\* Round r accepts predictions now.
InWindow(r) == round_due_ts[r] <= now /\ now < round_window_end(r)

CanSubmit(o, r, input) ==
    /\ o = config.orchestrator
    /\ state = "Active"
    /\ r \notin submitted_rounds
    /\ InWindow(r)
    /\ \A s \in Sides : into_record_ok(input[s])

SubmitRoundPredictions(o, r, input) ==
    /\ CanSubmit(o, r, input)
    /\ predictions' = [predictions EXCEPT ![r] = input]
    /\ submitted_rounds' = submitted_rounds \cup {r}
    /\ UNCHANGED <<config, paused, state, setup, activation_deadline_ts, schedule,
                   result, escrow, now>>

\* One player's three records, creator_predictions / challenger_predictions.
PredictionsOf(s) == [r \in Rounds |-> predictions[r][s]]

\* A price that may settle the match now.
Settling(u, publish_time) ==
    /\ Accepted(u)
    /\ publish_time <= now
    /\ target_end_ts <= publish_time
    /\ publish_time <= settlement_deadline_ts

CanSettle(u, publish_time) ==
    /\ state = "Active"
    /\ Settling(u, publish_time)
    /\ target_end_ts <= now
    /\ now <= settlement_deadline_ts
    /\ \A s \in Sides : scorable(PredictionsOf(s), start_price)

SettleMatch(u, publish_time) ==
    LET scores == [s \in Sides |-> total_score(PredictionsOf(s), ObservedPrice(u), start_price)]
        verdict == select_winner(scores)
    IN
    /\ CanSettle(u, publish_time)
    /\ final_price' = ObservedPrice(u)
    /\ score' = scores
    /\ winner' = verdict
    /\ state' = IF verdict = "tie" THEN "TieRefundable" ELSE "WinnerOptionOpen"
    /\ UNCHANGED <<config, paused, setup, activation_deadline_ts, schedule, rounds,
                   escrow, now>>

\* Seeded bug: any match past its settlement deadline is failed, decided or not.
MarkAnyRefundable ==
    /\ state \in {"Active", "WinnerOptionOpen"}
    /\ now > settlement_deadline_ts
    /\ state' = "FailureRefundable"
    /\ UNCHANGED <<config, paused, setup, activation_deadline_ts, schedule, rounds,
                   result, escrow, now>>

CanMarkOracleFailure == state = "Active" /\ now > settlement_deadline_ts

MarkOracleFailureRefundable ==
    /\ CanMarkOracleFailure
    /\ state' = "FailureRefundable"
    /\ UNCHANGED <<config, paused, setup, activation_deadline_ts, schedule, rounds,
                   result, escrow, now>>

-----------------------------------------------------------------------------
(***************************************************************************)
(* Refunds: refund.rs.  withdraw_own_deposit and settle_refund.            *)
(***************************************************************************)
CanSettleRefund(p, s) == p = player[s] /\ ~refunded[s] /\ CanPayDeposit(s)

SettleRefund(p, s) ==
    /\ PayDeposit(s, p)
    /\ refunded' = [refunded EXCEPT ![s] = TRUE]

\* Seeded bugs: refunds stop while paused; the last activation second is refundable.
FailedUnpaused ==
    /\ ~paused
    /\ \/ state = "Ready" /\ now > activation_deadline_ts
       \/ state = "FailureRefundable"
FailedAtDeadline ==
    \/ state = "Ready" /\ now >= activation_deadline_ts
    \/ state = "FailureRefundable"

\* The match of refund_failed_match: never started, or without a final price.
Failed ==
    \/ state = "Ready" /\ now > activation_deadline_ts
    \/ state = "FailureRefundable"

CanRefundFailed(p, s) == Failed /\ CanSettleRefund(p, s)

RefundFailedMatch(p, s) ==
    /\ CanRefundFailed(p, s)
    /\ SettleRefund(p, s)
    /\ state' = "FailureRefundable"
    /\ UNCHANGED <<config, paused, setup, activation_deadline_ts, schedule, rounds,
                   result, winner_stake_claimed, quote, now>>

CanRefundTie(p, s) == state = "TieRefundable" /\ CanSettleRefund(p, s)

RefundTie(p, s) ==
    /\ CanRefundTie(p, s)
    /\ SettleRefund(p, s)
    /\ UNCHANGED <<config, paused, state, setup, activation_deadline_ts, schedule, rounds,
                   result, winner_stake_claimed, quote, now>>

-----------------------------------------------------------------------------
(***************************************************************************)
(* The winner's option: option.rs.  s is the winning side.                 *)
(***************************************************************************)
CanClaim(p, s) ==
    /\ state \in {"WinnerOptionOpen", "OptionExercised", "OptionExpired"}
    /\ s = winner
    /\ p = player[s]
    /\ ~winner_stake_claimed
    /\ CanPayDeposit(s)

ClaimWinnerStake(p, s) ==
    /\ CanClaim(p, s)
    /\ PayDeposit(s, p)
    /\ winner_stake_claimed' = TRUE
    /\ UNCHANGED <<config, paused, state, setup, activation_deadline_ts, schedule, rounds,
                   result, refunded, quote, now>>

\* Seeded bug: the strike of the winner's own stake.
StrikeOfOpponent(s) == terms.strike[Other(s)]

\* Match::stake_strike, the price of side s's stake.
stake_strike(s) == terms.strike[s]

CanExercise(p, s) ==
    /\ state = "WinnerOptionOpen"
    /\ now <= option_expiry_ts
    /\ s = winner
    /\ p = player[s]
    /\ quote[p] >= stake_strike(Other(s))
    /\ CanPayDeposit(Other(s))

\* Both legs in one instruction: the strike to the loser, the loser's stake to p.
ExerciseOption(p, s) ==
    LET loser == Other(s)
        strike == stake_strike(loser)
    IN
    /\ CanExercise(p, s)
    /\ quote' = [k \in Players |-> quote[k] - (IF k = p THEN strike ELSE 0)
                                           + (IF k = player[loser] THEN strike ELSE 0)]
    /\ PayDeposit(loser, p)
    /\ state' = "OptionExercised"
    /\ UNCHANGED <<config, paused, setup, activation_deadline_ts, schedule, rounds,
                   result, refunded, winner_stake_claimed, now>>

CanReclaim(p, s) ==
    /\ state = "WinnerOptionOpen"
    /\ now > option_expiry_ts
    /\ Other(s) = winner
    /\ p = player[s]
    /\ CanPayDeposit(s)

ReclaimAfterOptionExpiry(p, s) ==
    /\ CanReclaim(p, s)
    /\ PayDeposit(s, p)
    /\ refunded' = [refunded EXCEPT ![s] = TRUE]
    /\ state' = "OptionExpired"
    /\ UNCHANGED <<config, paused, setup, activation_deadline_ts, schedule, rounds,
                   result, winner_stake_claimed, quote, now>>

-----------------------------------------------------------------------------
(***************************************************************************)
(* The environment: anyone may transfer tokens into a vault, and the clock *)
(* advances.  Nothing depends on the time before the match exists.         *)
(***************************************************************************)
Side1(a) == IF terms.arena["creator"] = a THEN deposit["creator"] ELSE 0
Side2(a) == IF terms.arena["challenger"] = a THEN deposit["challenger"] ELSE 0

\* What the account records as owed out of the vault of mint a.
RecordedDeposits(a) == IF state = "Absent" THEN 0 ELSE Side1(a) + Side2(a)

UnsolicitedTransfer(p, a) ==
    /\ state # "Absent"
    /\ vault[a] - RecordedDeposits(a) < MaxSurplus[a]
    /\ CanPayIn(p, a, 1)
    /\ PayIn(p, a, 1)
    /\ UNCHANGED <<config, paused, state, setup, activation_deadline_ts, schedule, rounds,
                   result, deposit, refunded, winner_stake_claimed, quote, now>>

Tick ==
    /\ state # "Absent"
    /\ now < MaxTime
    /\ now' = now + 1
    /\ UNCHANGED <<config, paused, state, setup, activation_deadline_ts, schedule, rounds,
                   result, escrow>>

-----------------------------------------------------------------------------
Init ==
    /\ config \in {c \in ConfigParams : ValidParams(c)}
    /\ paused = FALSE
    /\ state = "Absent"
    /\ winner = "unset"
    /\ player = [s \in Sides |-> NoPlayer]
    /\ commitment = [s \in Sides |-> NoCommitment]
    /\ terms = NoTerms
    /\ join_deadline_ts = 0 /\ activation_deadline_ts = 0
    /\ start_ts = 0 /\ target_end_ts = 0
    /\ round_due_ts = [r \in Rounds |-> 0]
    /\ settlement_deadline_ts = 0 /\ option_expiry_ts = 0
    /\ start_price = 0 /\ final_price = 0
    /\ predictions = [r \in Rounds |-> [s \in Sides |-> NoPrediction]]
    /\ submitted_rounds = {}
    /\ score = [s \in Sides |-> 0]
    /\ deposit = [s \in Sides |-> 0]
    /\ refunded = [s \in Sides |-> FALSE]
    /\ winner_stake_claimed = FALSE
    /\ vault = [a \in Assets |-> 0]
    /\ wallet = InitialWallet
    /\ quote = InitialQuote
    /\ now = 1   \* a real timestamp: zero means "not set" in the account

AdminStep == (\E c \in ConfigParams : UpdateProtocolConfig(c))
             \/ \E b \in BOOLEAN : SetPaused(b)

Activate == \E o \in Orchestrators, u \in PriceUpdates, t \in 0..MaxTime : ActivateMatch(o, u, t)
Submit == \E o \in Orchestrators, r \in Rounds, i \in [Sides -> Inputs] :
              SubmitRoundPredictions(o, r, i)
Settle == \E u \in PriceUpdates, t \in 0..MaxTime : SettleMatch(u, t)

\* The ways out: every instruction by which key p takes tokens out of escrow.
CanExit(p) ==
    \/ CanCancel(p)
    \/ \E s \in Sides :
         \/ CanRefundFailed(p, s)
         \/ CanRefundTie(p, s)
         \/ CanClaim(p, s)
         \/ CanExercise(p, s)
         \/ CanReclaim(p, s)

Exit(p) ==
    \/ CancelOpenMatch(p)
    \/ \E s \in Sides :
         \/ RefundFailedMatch(p, s)
         \/ RefundTie(p, s)
         \/ ClaimWinnerStake(p, s)
         \/ ExerciseOption(p, s)
         \/ ReclaimAfterOptionExpiry(p, s)

PlayerStep(p) ==
    \/ \E t \in TermsOffered, c \in Commitments : CreateMatch(p, t, c)
    \/ \E c \in Commitments : JoinMatch(p, c)
    \/ Exit(p)
    \/ \E a \in Assets : UnsolicitedTransfer(p, a)

Next ==
    \/ AdminStep
    \/ \E p \in Players : PlayerStep(p)
    \/ Activate \/ Submit \/ Settle
    \/ MarkOracleFailureRefundable
    \/ Tick

Spec == Init /\ [][Next]_vars

-----------------------------------------------------------------------------
(***************************************************************************)
(* Fairness for liveness: the clock never stops before its bound, and each *)
(* player keeps trying the exits open to them.  Nothing is assumed of the  *)
(* orchestrator, the admin, strangers or an opponent's willingness to pay. *)
(***************************************************************************)
FairSpec ==
    /\ Spec
    /\ WF_vars(Tick)
    /\ WF_vars(MarkOracleFailureRefundable)
    /\ \A p \in Players : WF_vars(Exit(p))

-----------------------------------------------------------------------------
(***************************************************************************)
(* Properties                                                              *)
(***************************************************************************)

\* Type correctness of the account, the token balances and the clock.
TypeOK ==
    /\ config \in ConfigType /\ paused \in BOOLEAN
    /\ state \in MatchStates
    /\ winner \in Sides \cup {"unset", "tie"}
    /\ player \in [Sides -> Players \cup {NoPlayer}]
    /\ commitment \in [Sides -> Commitments \cup {NoCommitment}]
    /\ IF state = "Absent" THEN terms = NoTerms ELSE terms \in AgreedTerms
    /\ join_deadline_ts \in Nat /\ activation_deadline_ts \in Nat
    /\ start_ts \in Nat /\ target_end_ts \in Nat
    /\ round_due_ts \in [Rounds -> Nat]
    /\ settlement_deadline_ts \in Nat /\ option_expiry_ts \in Nat
    /\ start_price \in I64 /\ final_price \in I64
    /\ predictions \in [Rounds -> [Sides -> PredictionRecord]]
    /\ submitted_rounds \subseteq Rounds
    /\ score \in [Sides -> Int]
    /\ deposit \in [Sides -> Nat]
    /\ refunded \in [Sides -> BOOLEAN]
    /\ winner_stake_claimed \in BOOLEAN
    /\ vault \in [Assets -> Nat]
    /\ wallet \in [Players -> [Assets -> Nat]]
    /\ quote \in [Players -> Nat]
    /\ now \in Nat

Decisive == {"WinnerOptionOpen", "OptionExercised", "OptionExpired"}
Running == {"Ready", "Active"}

\* Side s's stake has left escrow: refunded, claimed by its winner, or sold.
Sold(s) == state = "OptionExercised" /\ winner = Other(s)
PaidOut(s) == refunded[s] \/ (winner_stake_claimed /\ winner = s) \/ Sold(s)

(***************************************************************************)
(* The recorded deposits, the three single-use flags, the state and the    *)
(* winner always agree: a side's deposit is its full stake until exactly   *)
(* one of refund, claim or sale has taken it, and zero afterwards; and     *)
(* each route has been taken only under the verdict that opens it          *)
(* (withdraw_own_deposit, claim_winner_stake, exercise_option,             *)
(* reclaim_after_option_expiry, cancel_open_match).                        *)
(***************************************************************************)
DepositsMatchFlags ==
    state # "Absent" =>
      /\ \A s \in Sides :
           deposit[s] = IF player[s] = NoPlayer \/ PaidOut(s) THEN 0 ELSE terms.stake[s]
      /\ \A s \in Sides : ~(refunded[s] /\ (Sold(s) \/ (winner_stake_claimed /\ winner = s)))
      /\ \A s \in Sides : refunded[s] =>
           \/ state \in {"TieRefundable", "FailureRefundable"}
           \/ state = "Cancelled" /\ s = "creator"
           \/ state = "OptionExpired" /\ winner = Other(s)
      /\ winner_stake_claimed => winner \in Sides
      /\ (winner \in Sides) <=> (state \in Decisive)

(***************************************************************************)
(* Recorded deposits are always covered by the vault of their mint, also   *)
(* when both stakes share one vault (same-token duel) and when somebody    *)
(* transferred tokens into it: pay_out can never fail for lack of funds    *)
(* (state.rs total_deposits, vault.rs pay_out).                            *)
(***************************************************************************)
Solvent == \A a \in Assets : RecordedDeposits(a) <= vault[a]

(***************************************************************************)
(* The inductive invariant behind the accounting and the deadlines: who    *)
(* the players are in each state (join_match refuses the creator), that    *)
(* every agreed stake is positive (create_match's minimum), which refund   *)
(* has been taken in a final state, that every deadline of a running match *)
(* is timed from its start (activate_match), and that whatever has been    *)
(* recorded can be scored (into_record, written for both players at once). *)
(***************************************************************************)
Untouched ==
    /\ winner = "unset" /\ ~winner_stake_claimed
    /\ \A s \in Sides : player[s] = NoPlayer /\ deposit[s] = 0 /\ ~refunded[s]

PlayersFitState ==
    /\ state = "Absent" => Untouched
    /\ state # "Absent" => player["creator"] \in Players
    /\ state \in {"Open", "Cancelled"} => player["challenger"] = NoPlayer
    /\ state \notin {"Absent", "Open", "Cancelled"} =>
         player["challenger"] \in Players \ {player["creator"]}

StakesPositive == state # "Absent" => \A s \in Sides : terms.stake[s] > 0

FinalStatesRefunded ==
    /\ state = "Cancelled" => refunded["creator"]
    /\ state = "OptionExpired" => \A s \in Sides : Other(s) = winner => refunded[s]

TimedFromStart ==
    LET profile == Profile[terms.profile_kind] IN
    /\ now > 0
    /\ state \in {"Absent", "Open", "Ready"} => start_ts = 0
    /\ state \in {"Active", "WinnerOptionOpen"} =>
         /\ start_ts > 0 /\ start_ts <= now
         /\ \A r \in Rounds : round_due_ts[r] = start_ts + RoundOffset(terms.profile_kind, r)
         /\ target_end_ts = start_ts + profile.duration_seconds
         /\ settlement_deadline_ts = target_end_ts + profile.settlement_grace_seconds
         /\ option_expiry_ts = settlement_deadline_ts + profile.exercise_window_seconds

RecordsScorable ==
    /\ state = "Active" => start_price > 0
    /\ \A r \in Rounds, s \in Sides :
         IF r \in submitted_rounds THEN into_record_ok(predictions[r][s])
                                   ELSE predictions[r][s] = NoPrediction

AccountInv ==
    /\ TypeOK
    /\ PlayersFitState
    /\ StakesPositive
    /\ FinalStatesRefunded
    /\ DepositsMatchFlags
    /\ Solvent

TimingInv == TimedFromStart /\ RecordsScorable

EscrowInv == AccountInv /\ TimingInv

(***************************************************************************)
(* The two outcomes that a deadline separates are never both available and *)
(* never both unavailable, at no instant: activation against refund and    *)
(* settlement against oracle failure, given a price fit for it, exercise   *)
(* against reclaim.  Between the first round's due time and the target end *)
(* exactly one round is open, and no prediction is accepted once a         *)
(* settling price can exist (settlement.rs, refund.rs, option.rs deadline  *)
(* comparisons; state.rs round_window_end).                                *)
(***************************************************************************)
StartOrRefund ==
    state = "Ready" /\ ~paused =>
      \A u \in PriceUpdates, t \in 0..MaxTime : Fresh(u, t) =>
        (CanActivate(config.orchestrator, u, t)
           <=> ~\E p \in Players, s \in Sides : CanRefundFailed(p, s))

SettleOrFail ==
    state = "Active" =>
      \A u \in PriceUpdates, t \in 0..MaxTime : Settling(u, t) =>
        (CanSettle(u, t) <=> ~CanMarkOracleFailure)

ExerciseOrReclaim ==
    LET exercisable == \E p \in Players, s \in Sides : CanExercise(p, s)
        reclaimable == \E p \in Players, s \in Sides : CanReclaim(p, s)
    IN  state = "WinnerOptionOpen" =>
          /\ exercisable => ~reclaimable
          /\ quote[player[winner]] >= terms.strike[Other(winner)] => exercisable \/ reclaimable

OneRoundOpen ==
    state = "Active" /\ round_due_ts[0] <= now /\ now < target_end_ts =>
      \E r \in Rounds : \A q \in Rounds : InWindow(q) <=> q = r

RoundsBeforeSettlement ==
    (\E o \in Orchestrators, r \in Rounds, i \in [Sides -> Inputs] : CanSubmit(o, r, i))
      => \A u \in PriceUpdates, t \in 0..MaxTime : ~CanSettle(u, t)

DeadlinesLeaveNoGap ==
    /\ StartOrRefund
    /\ SettleOrFail
    /\ ExerciseOrReclaim
    /\ OneRoundOpen
    /\ RoundsBeforeSettlement

(***************************************************************************)
(* Escrow is never trapped: past the deadline of its state, every side     *)
(* that still has a deposit can take the next step towards it by itself,   *)
(* without orchestrator, admin or opponent, and whether or not the         *)
(* protocol is paused (code.md 7.4; the refund, cancel, claim, reclaim and *)
(* oracle-failure handlers).                                               *)
(***************************************************************************)
StateDeadline ==
    CASE state = "Ready" -> activation_deadline_ts
      [] state = "Active" -> settlement_deadline_ts
      [] state = "WinnerOptionOpen" -> option_expiry_ts
      [] OTHER -> 0

EscrowNeverTrapped ==
    \A s \in Sides : deposit[s] > 0 /\ now > StateDeadline =>
        CanExit(player[s]) \/ CanMarkOracleFailure

(***************************************************************************)
(* A settlement, however late it lands, leaves the winner at least the     *)
(* whole configured exercise window (activate_match, settle_match: the     *)
(* expiry is measured from the settlement deadline).                       *)
(***************************************************************************)
WinnerGetsFullWindow ==
    [][state = "Active" /\ state' = "WinnerOptionOpen" =>
         option_expiry_ts' - now >= Profile[terms.profile_kind].exercise_window_seconds]_vars

(***************************************************************************)
(* What key p owns of mint a, in its own accounts and recorded in escrow.  *)
(***************************************************************************)
Recorded(p, s, a) ==
    IF player[s] = p /\ terms.arena[s] = a THEN deposit[s] ELSE 0
Holding(p, a) == wallet[p][a] + Recorded(p, "creator", a) + Recorded(p, "challenger", a)

(***************************************************************************)
(* Nobody's holding changes except in one atomic exchange: the loser's     *)
(* whole stake for the strike the creator named for that stake.  Tokens    *)
(* sent to the vault unasked are lost to the sender and gained by nobody   *)
(* (exercise_option; every other handler moves value between a key's own   *)
(* account and its own deposit).                                           *)
(***************************************************************************)
Exchange(p, s) ==
    LET loser == Other(s)
        q == player[loser]
    IN
    /\ winner = s /\ p = player[s]
    /\ \A k \in Players, a \in Assets :
         Holding(k, a)' = Holding(k, a)
             + (IF k = p /\ a = terms.arena[loser] THEN terms.stake[loser] ELSE 0)
             - (IF k = q /\ a = terms.arena[loser] THEN terms.stake[loser] ELSE 0)
    /\ \A k \in Players :
         quote'[k] = quote[k] + (IF k = q THEN terms.strike[loser] ELSE 0)
                              - (IF k = p THEN terms.strike[loser] ELSE 0)

StakesChangeHandsOnlyAtStrike ==
    [][\/ /\ \A k \in Players, a \in Assets : Holding(k, a)' = Holding(k, a)
          /\ quote' = quote
       \/ \E p \in Players, s \in Sides : Exchange(p, s)
       \/ \E p \in Players, a \in Assets : UnsolicitedTransfer(p, a)]_vars

(***************************************************************************)
(* While the protocol is paused nothing new is put at risk: no deposit     *)
(* grows and no match starts (create_match, join_match, activate_match).   *)
(***************************************************************************)
PauseStopsNewRisk ==
    [][paused => /\ \A s \in Sides : deposit'[s] <= deposit[s]
                 /\ state = "Ready" => state' # "Active"]_vars

(***************************************************************************)
(* Once both have joined, the players, commitments and terms of a match    *)
(* (with the oracle limits taken from the config at creation) never        *)
(* change, and once it is active neither does any deadline or the start    *)
(* price, whatever the admin, the orchestrator or the clock does           *)
(* (match_setup.rs:261, settlement.rs:66, state.rs:209).                   *)
(***************************************************************************)
Joined == state \notin {"Absent", "Open"}
JoinedTermsFrozen ==
    [][/\ Joined => UNCHANGED <<setup, activation_deadline_ts>>
       /\ Joined /\ state # "Ready" => UNCHANGED schedule]_vars

(***************************************************************************)
(* Under FairSpec every deposit eventually leaves escrow, even if the      *)
(* orchestrator and the admin never act again.                             *)
(***************************************************************************)
EscrowDrains == \A s \in Sides : deposit[s] > 0 ~> deposit[s] = 0

(***************************************************************************)
(* The account implements EscrowPromise.                                   *)
(***************************************************************************)
stakeBar ==
    [s \in Sides |-> IF deposit[s] > 0 THEN "held"
                     ELSE IF player[s] = NoPlayer THEN "none"
                     ELSE IF Sold(s) THEN "sold" ELSE "returned"]
verdictBar ==
    IF state \in Decisive THEN winner
    ELSE IF state \in {"TieRefundable", "FailureRefundable"} THEN "void"
    ELSE "pending"

Promise == INSTANCE EscrowPromise WITH stake <- stakeBar, verdict <- verdictBar

\* Each stake is held once and leaves once, by the route its verdict opens.
ImplementsPromise == Promise!Spec

=============================================================================
