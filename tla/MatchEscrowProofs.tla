--------------------------- MODULE MatchEscrowProofs ---------------------------
(***************************************************************************)
(* Theorems about MatchEscrow, and about the match screen and the          *)
(* challenge form that read it (PlayerActions, MatchForm), for every set   *)
(* of players, mints, terms, prices, typed amounts and timing profiles     *)
(* that satisfy their assumptions.                                         *)
(***************************************************************************)
EXTENDS PlayerActions, DecimalProofs, FiniteSetTheorems

-----------------------------------------------------------------------------
(***************************************************************************)
(* Operators                                                               *)
(***************************************************************************)

\* Truncating division by a positive number stays an integer.
LEMMA DivType ==
    ASSUME NEW a \in Int, NEW b \in Int, b > 0
    PROVE  a \div b \in Int
OBVIOUS

\* The start price divides, so the error of a round is an integer.
LEMMA RoundErrorType ==
    ASSUME NEW p \in PredictionRecord, NEW actual \in Int, NEW start \in Int, start # 0
    PROVE  round_error_bps(p, actual, start) \in Int
<1>1. p.predicted_price \in Int
  BY DEF PredictionRecord, I64
<1>2. Abs(p.predicted_price - actual) * BPS_DENOMINATOR \in Int
  BY <1>1 DEF Abs, BPS_DENOMINATOR
<1>3. Abs(start) \in Int /\ Abs(start) > 0
  BY DEF Abs
<1>4. (Abs(p.predicted_price - actual) * BPS_DENOMINATOR) \div Abs(start) \in Int
  BY <1>2, <1>3, DivType
<1> QED
  BY <1>4 DEF round_error_bps, MAX_ROUND_ERROR_BPS

\* A player's total is an integer (total_score).
LEMMA TotalScoreType ==
    ASSUME NEW p \in [Rounds -> PredictionRecord],
           NEW actual \in Int, NEW start \in Int, start # 0
    PROVE  total_score(p, actual, start) \in Int
<1> DEFINE weighted(r) ==
      weighted_error_bps(round_error_bps(p[r], actual, start), ROUND_WEIGHTS_BPS[r])
<1>1. \A r \in Rounds : weighted(r) \in Int
  <2> TAKE r \in Rounds
  <2>1. round_error_bps(p[r], actual, start) \in Int
    BY RoundErrorType
  <2>2. ROUND_WEIGHTS_BPS[r] \in Int
    BY DEF ROUND_WEIGHTS_BPS
  <2>3. round_error_bps(p[r], actual, start) * ROUND_WEIGHTS_BPS[r] \in Int
    BY <2>1, <2>2
  <2> QED
    BY <2>3, DivType DEF weighted_error_bps, BPS_DENOMINATOR
<1>2. 0 \in Rounds /\ 1 \in Rounds /\ 2 \in Rounds
  BY DEF Rounds
<1>3. total_score(p, actual, start) = weighted(0) + weighted(1) + weighted(2)
  BY Zenon DEF total_score
<1>4. weighted(0) \in Int /\ weighted(1) \in Int /\ weighted(2) \in Int
  BY <1>1, <1>2
<1> QED
  <2> HIDE DEF weighted
  <2> QED BY <1>3, <1>4

\* A deposit keeps the balances natural numbers.
LEMMA PayInType ==
    ASSUME TypeOK, NEW p \in Players, NEW a \in Assets, NEW amount \in Nat,
           CanPayIn(p, a, amount), PayIn(p, a, amount)
    PROVE  vault' \in [Assets -> Nat] /\ wallet' \in [Players -> [Assets -> Nat]]
<1>1. wallet[p] \in [Assets -> Nat]
  BY DEF TypeOK
<1>2. [wallet[p] EXCEPT ![a] = @ - amount] \in [Assets -> Nat]
  BY <1>1 DEF CanPayIn, PayIn
<1>3. wallet' \in [Players -> [Assets -> Nat]]
  <2>1. wallet \in [Players -> [Assets -> Nat]]
    BY DEF TypeOK
  <2>2. wallet' = [wallet EXCEPT ![p] = [wallet[p] EXCEPT ![a] = @ - amount]]
    BY DEF PayIn
  <2> QED
    BY <1>2, <2>1, <2>2, Zenon
<1>4. vault' \in [Assets -> Nat]
  BY DEF PayIn, TypeOK
<1> QED
  BY <1>3, <1>4

\* So does a payout.
LEMMA PayOutType ==
    ASSUME TypeOK, NEW p \in Players, NEW a \in Assets, NEW amount \in Nat,
           vault[a] >= amount, pay_out(p, a, amount)
    PROVE  vault' \in [Assets -> Nat] /\ wallet' \in [Players -> [Assets -> Nat]]
<1>1. wallet[p] \in [Assets -> Nat]
  BY DEF TypeOK
<1>2. [wallet[p] EXCEPT ![a] = @ + amount] \in [Assets -> Nat]
  BY <1>1
<1>3. wallet' \in [Players -> [Assets -> Nat]]
  <2>1. wallet \in [Players -> [Assets -> Nat]]
    BY DEF TypeOK
  <2>2. wallet' = [wallet EXCEPT ![p] = [wallet[p] EXCEPT ![a] = @ + amount]]
    BY DEF pay_out
  <2> QED
    BY <1>2, <2>1, <2>2, Zenon
<1>4. vault' \in [Assets -> Nat]
  BY DEF pay_out, TypeOK
<1> QED
  BY <1>3, <1>4

\* The benchmark price taken from an accepted update fits the account's field.
LEMMA ObservedType ==
    ASSUME NEW u, Accepted(u)
    PROVE  ObservedPrice(u) \in I64
BY DEF Accepted, readable, normalizes, ObservedPrice, observed_price

-----------------------------------------------------------------------------
(***************************************************************************)
(* Type correctness                                                        *)
(***************************************************************************)
\* Before create_match every field has its default.
LEMMA InitType == Init => TypeOK
<1> SUFFICES ASSUME Init PROVE TypeOK
  OBVIOUS
<1>1. 0 \in I64 /\ NoPrediction \in PredictionRecord
  BY WidthAssumption DEF I64, NoPrediction, PredictionRecord, Outcomes
<1>2. config \in ConfigType
  BY InputAssumption DEF Init
<1>3. wallet \in [Players -> [Assets -> Nat]] /\ quote \in [Players -> Nat]
  BY AmountAssumption DEF Init
<1>4. predictions \in [Rounds -> [Sides -> PredictionRecord]]
  BY <1>1 DEF Init
<1>5. player \in [Sides -> Players \cup {NoPlayer}]
  BY DEF Init
<1>6. commitment \in [Sides -> Commitments \cup {NoCommitment}]
  BY DEF Init
<1>7. round_due_ts \in [Rounds -> Nat] /\ vault \in [Assets -> Nat]
  BY DEF Init
<1>8. /\ score \in [Sides -> Int] /\ deposit \in [Sides -> Nat]
      /\ refunded \in [Sides -> BOOLEAN]
  BY DEF Init
<1> QED
  BY <1>1, <1>2, <1>3, <1>4, <1>5, <1>6, <1>7, <1>8 DEF Init, TypeOK, MatchStates

\* The instructions by which tokens leave escrow to key p.
LEMMA ExitType ==
    ASSUME TypeOK, NEW p \in Players, Exit(p)
    PROVE  TypeOK'
<1>1. ASSUME NEW s \in Sides, CanPayDeposit(s), PayDeposit(s, p), state # "Absent"
      PROVE  /\ deposit' \in [Sides -> Nat]
             /\ vault' \in [Assets -> Nat]
             /\ wallet' \in [Players -> [Assets -> Nat]]
  <2>1. terms.arena[s] \in Assets /\ deposit[s] \in Nat
    BY <1>1 DEF TypeOK, AgreedTerms
  <2>2. pay_out(p, terms.arena[s], deposit[s])
    BY <1>1 DEF PayDeposit
  <2> QED
    BY <1>1, <2>1, <2>2, PayOutType DEF CanPayDeposit, PayDeposit, TypeOK
<1>2. CASE CancelOpenMatch(p)
  BY <1>1, <1>2 DEF CancelOpenMatch, CanCancel, TypeOK, MatchStates, Sides, schedule, setup,
                    rounds, result
<1>3. ASSUME NEW s \in Sides, RefundFailedMatch(p, s) PROVE TypeOK'
  BY <1>1, <1>3 DEF RefundFailedMatch, CanRefundFailed, CanSettleRefund, Failed, SettleRefund,
                    TypeOK, MatchStates, schedule, setup, rounds, result
<1>4. ASSUME NEW s \in Sides, RefundTie(p, s) PROVE TypeOK'
  BY <1>1, <1>4 DEF RefundTie, CanRefundTie, CanSettleRefund, SettleRefund, TypeOK, schedule,
                    setup, rounds, result
<1>5. ASSUME NEW s \in Sides, ClaimWinnerStake(p, s) PROVE TypeOK'
  BY <1>1, <1>5 DEF ClaimWinnerStake, CanClaim, TypeOK, schedule, setup, rounds, result
<1>6. ASSUME NEW s \in Sides, ExerciseOption(p, s) PROVE TypeOK'
  <2>1. Other(s) \in Sides
    BY DEF Other, Sides
  <2>2. CanPayDeposit(Other(s)) /\ PayDeposit(Other(s), p) /\ state # "Absent"
    BY <1>6 DEF ExerciseOption, CanExercise
  <2>3. quote' \in [Players -> Nat]
    <3> DEFINE strike == stake_strike(Other(s))
    <3>1. strike \in Nat
      BY <2>1, <2>2 DEF TypeOK, AgreedTerms, stake_strike
    <3>2. quote \in [Players -> Nat] /\ quote[p] >= strike
      BY <1>6 DEF TypeOK, ExerciseOption, CanExercise
    <3> QED
      BY <1>6, <3>1, <3>2 DEF ExerciseOption
  <2> QED
    BY <1>1, <1>6, <2>1, <2>2, <2>3 DEF ExerciseOption, TypeOK, MatchStates, schedule, setup,
                                        rounds, result
<1>7. ASSUME NEW s \in Sides, ReclaimAfterOptionExpiry(p, s) PROVE TypeOK'
  BY <1>1, <1>7 DEF ReclaimAfterOptionExpiry, CanReclaim, TypeOK, MatchStates, schedule, setup,
                    rounds, result
<1> QED
  BY <1>2, <1>3, <1>4, <1>5, <1>6, <1>7 DEF Exit

\* Setup and the surrounding world.
LEMMA CreateType ==
    ASSUME TypeOK, NEW p \in Players, NEW t \in TermsOffered, NEW c \in Commitments,
           CreateMatch(p, t, c)
    PROVE  TypeOK'
<1> DEFINE a == t.arena["creator"]
<1>1. t \in MatchTerms /\ a \in Assets /\ t.stake["creator"] \in Nat
  BY AmountAssumption DEF MatchTerms, Sides
<1>2. Benchmark[a].max_price_age_seconds \in Nat /\ Benchmark[a].max_confidence_bps \in Nat
  BY <1>1, BenchmarkAssumption
<1>3. Profile[t.profile_kind].join_window_seconds \in Nat
  BY <1>1, ProfileAssumption DEF MatchTerms
<1>4. vault' \in [Assets -> Nat] /\ wallet' \in [Players -> [Assets -> Nat]]
  BY <1>1, PayInType DEF CreateMatch, CanCreate
<1>5. terms' \in AgreedTerms
  BY <1>1, <1>2 DEF CreateMatch, MatchTerms, AgreedTerms, MinOf, TypeOK, ConfigType
<1>6. join_deadline_ts' \in Nat
  BY <1>3 DEF CreateMatch, TypeOK
<1>7. deposit' \in [Sides -> Nat]
  BY <1>1 DEF CreateMatch, TypeOK
<1> QED
  BY <1>4, <1>5, <1>6, <1>7 DEF CreateMatch, TypeOK, MatchStates, schedule, rounds, result

\* join_match writes the second key, deposit and the activation deadline.
LEMMA JoinType ==
    ASSUME TypeOK, NEW p \in Players, NEW c \in Commitments, JoinMatch(p, c)
    PROVE  TypeOK'
<1>1. state = "Open" /\ "challenger" \in Sides
  BY DEF JoinMatch, CanJoin, Sides
<1>2. /\ terms \in AgreedTerms
      /\ terms.arena["challenger"] \in Assets
      /\ terms.stake["challenger"] \in Nat
      /\ terms.profile_kind \in Kinds
  BY <1>1 DEF TypeOK, AgreedTerms
<1>3. Profile[terms.profile_kind].activation_window_seconds \in Nat
  BY <1>2, ProfileAssumption
<1>4. vault' \in [Assets -> Nat] /\ wallet' \in [Players -> [Assets -> Nat]]
  BY <1>2, PayInType DEF JoinMatch, CanJoin
<1> QED
  BY <1>1, <1>2, <1>3, <1>4 DEF JoinMatch, TypeOK, MatchStates, schedule, rounds, result

\* A stranger's transfer moves one token from a wallet to a vault.
LEMMA TransferType ==
    ASSUME TypeOK, NEW p \in Players, NEW a \in Assets, UnsolicitedTransfer(p, a)
    PROVE  TypeOK'
<1>1. vault' \in [Assets -> Nat] /\ wallet' \in [Players -> [Assets -> Nat]]
  BY PayInType DEF UnsolicitedTransfer
<1> QED
  BY <1>1 DEF UnsolicitedTransfer, TypeOK, setup, schedule, rounds, result

\* The orchestrator's instructions and settlement.
LEMMA ActivateType ==
    ASSUME TypeOK, NEW o, NEW u, NEW t, ActivateMatch(o, u, t)
    PROVE  TypeOK'
<1> DEFINE k == terms.profile_kind
<1>1. k \in Kinds
  BY DEF ActivateMatch, CanActivate, TypeOK, AgreedTerms
<1>2. /\ Profile[k].duration_seconds \in Nat
      /\ Profile[k].settlement_grace_seconds \in Nat
      /\ Profile[k].exercise_window_seconds \in Nat
  BY <1>1, ProfileAssumption
<1>3. \A r \in Rounds : RoundOffset(k, r) \in Nat
  BY <1>2 DEF RoundOffset, Rounds
<1>4. ObservedPrice(u) \in I64
  BY ObservedType DEF ActivateMatch, CanActivate, Fresh
<1>5. TargetEnd(k) \in Nat /\ SettlementDeadline(k) \in Nat /\ OptionExpiry(k) \in Nat
  BY <1>2 DEF TargetEnd, SettlementDeadline, OptionExpiry, TypeOK
<1> QED
  BY <1>3, <1>4, <1>5 DEF ActivateMatch, CanActivate, TypeOK, MatchStates, setup, rounds, result,
                          escrow

\* submit_round_predictions stores what into_record made of the input.
LEMMA SubmitType ==
    ASSUME TypeOK, NEW o, NEW r \in Rounds, NEW input \in [Sides -> Inputs],
           SubmitRoundPredictions(o, r, input)
    PROVE  TypeOK'
<1>1. input \in [Sides -> PredictionRecord]
  BY InputAssumption
<1> QED
  BY <1>1 DEF SubmitRoundPredictions, TypeOK, setup, schedule, result, escrow

\* settle_match stores a price of the account's width and integer scores.
LEMMA SettleType ==
    ASSUME TypeOK, NEW u, NEW t, SettleMatch(u, t)
    PROVE  TypeOK'
<1> DEFINE final == ObservedPrice(u)
           scores == [s \in Sides |-> total_score(PredictionsOf(s), final, start_price)]
<1>1. final \in I64
  BY ObservedType DEF SettleMatch, CanSettle, Settling
<1>2. final \in Int /\ start_price \in Int
  BY <1>1 DEF TypeOK, I64
<1>3. \A s \in Sides : PredictionsOf(s) \in [Rounds -> PredictionRecord]
  BY DEF PredictionsOf, TypeOK
<1>4. start_price # 0
  BY DEF SettleMatch, CanSettle, scorable, Sides
<1>5. scores \in [Sides -> Int]
  BY <1>2, <1>3, <1>4, TotalScoreType
<1>6. select_winner(scores) \in Sides \cup {"tie"}
  BY DEF select_winner, Sides
<1>7. final_price' = final /\ score' = scores /\ winner' = select_winner(scores)
  BY DEF SettleMatch
<1>8. state' \in {"TieRefundable", "WinnerOptionOpen"} /\ state # "Absent"
  BY DEF SettleMatch, CanSettle
<1> HIDE DEF final, scores
<1> QED
  BY <1>1, <1>5, <1>6, <1>7, <1>8 DEF SettleMatch, TypeOK, MatchStates, setup, schedule, rounds,
                                      escrow

\* Every step, whoever takes it, keeps the types.
LEMMA StepType == TypeOK /\ [Next]_vars => TypeOK'
<1> SUFFICES ASSUME TypeOK, [Next]_vars PROVE TypeOK'
  OBVIOUS
<1>1. CASE AdminStep
  <2>1. ASSUME NEW c \in ConfigParams, UpdateProtocolConfig(c) PROVE TypeOK'
    BY <2>1, InputAssumption
    DEF UpdateProtocolConfig, TypeOK, setup, schedule, rounds, result, escrow
  <2>2. ASSUME NEW b \in BOOLEAN, SetPaused(b) PROVE TypeOK'
    BY <2>2 DEF SetPaused, TypeOK, setup, schedule, rounds, result, escrow
  <2> QED
    BY <1>1, <2>1, <2>2 DEF AdminStep
<1>2. ASSUME NEW p \in Players, PlayerStep(p) PROVE TypeOK'
  BY <1>2, CreateType, JoinType, ExitType, TransferType DEF PlayerStep
<1>3. CASE Activate
  BY <1>3, ActivateType DEF Activate
<1>4. CASE Submit
  BY <1>4, SubmitType DEF Submit
<1>5. CASE Settle
  BY <1>5, SettleType DEF Settle
<1>6. CASE MarkOracleFailureRefundable
  BY <1>6 DEF MarkOracleFailureRefundable, CanMarkOracleFailure, TypeOK, MatchStates, setup,
              schedule, rounds, result, escrow
<1>7. CASE Tick
  BY <1>7 DEF Tick, TypeOK, setup, schedule, rounds, result, escrow
<1>8. CASE UNCHANGED vars
  BY <1>8 DEF vars, TypeOK, setup, schedule, rounds, result, escrow
<1> QED
  BY <1>1, <1>2, <1>3, <1>4, <1>5, <1>6, <1>7, <1>8 DEF Next

\* Every reachable state is well typed: no balance, deposit or timestamp goes
\* negative and every recorded price fits its i64 (all handlers).
THEOREM TypeCorrect == Spec => []TypeOK
BY InitType, StepType, PTL DEF Spec

-----------------------------------------------------------------------------
(***************************************************************************)
(* Accounting: AccountInv is inductive                                      *)
(***************************************************************************)
\* A match has two sides, each the opponent of the other.
LEMMA SidesFacts ==
    /\ "creator" \in Sides /\ "challenger" \in Sides
    /\ \A s \in Sides : s = "creator" \/ s = "challenger"
    /\ \A s \in Sides : Other(s) \in Sides /\ Other(s) # s /\ Other(Other(s)) = s
BY DEF Sides, Other

\* Nothing is recorded before create_match.
LEMMA InitInv == Init => AccountInv
<1> SUFFICES ASSUME Init PROVE AccountInv
  OBVIOUS
<1>1. TypeOK
  BY InitType
<1>2. PlayersFitState
  BY DEF Init, PlayersFitState, Untouched
<1>3. StakesPositive /\ DepositsMatchFlags /\ FinalStatesRefunded
  BY DEF Init, StakesPositive, DepositsMatchFlags, FinalStatesRefunded
<1>4. Solvent
  BY DEF Init, Solvent, RecordedDeposits
<1> QED
  BY <1>1, <1>2, <1>3, <1>4 DEF AccountInv

\* A payout of a side's own deposit leaves the other side's covered, also
\* when both are in one vault.
LEMMA PayDepositSolvent ==
    ASSUME AccountInv, NEW s \in Sides, NEW p \in Players, state # "Absent",
           PayDeposit(s, p), state' # "Absent", UNCHANGED terms
    PROVE  Solvent'
<1>1. /\ deposit \in [Sides -> Nat] /\ vault \in [Assets -> Nat]
      /\ terms.arena \in [Sides -> Assets]
  BY DEF AccountInv, TypeOK, AgreedTerms
<1>2. /\ deposit' = [deposit EXCEPT ![s] = 0]
      /\ vault' = [vault EXCEPT ![terms.arena[s]] = @ - deposit[s]]
  BY DEF PayDeposit, pay_out
<1>3. \A a \in Assets : Side1(a) + Side2(a) <= vault[a]
  BY DEF AccountInv, Solvent, RecordedDeposits
<1>4. ASSUME NEW a \in Assets
      PROVE  Side1(a)' + Side2(a)' <= vault'[a]
  <2>1. Side1(a) + Side2(a) <= vault[a]
    BY <1>3
  <2>2. CASE s = "creator"
    BY <1>1, <1>2, <2>1, <2>2, SidesFacts DEF Side1, Side2
  <2>3. CASE s = "challenger"
    BY <1>1, <1>2, <2>1, <2>3, SidesFacts DEF Side1, Side2
  <2> QED
    BY <2>2, <2>3, SidesFacts
<1> QED
  BY <1>4 DEF Solvent, RecordedDeposits

\* Every exit happens to a match with two players, or to an open one by its creator.
LEMMA ExitInv ==
    ASSUME AccountInv, NEW p \in Players, Exit(p)
    PROVE  AccountInv'
<1>1. TypeOK'
  BY ExitType DEF AccountInv
<1> USE SidesFacts
<1>2. CASE CancelOpenMatch(p)
  <2>1. Solvent'
    BY <1>2, PayDepositSolvent DEF CancelOpenMatch, CanCancel, setup
  <2>2. PlayersFitState' /\ StakesPositive'
    BY <1>2 DEF CancelOpenMatch, CanCancel, setup, result, AccountInv, PlayersFitState,
                StakesPositive
  <2>3. DepositsMatchFlags' /\ FinalStatesRefunded'
    BY <1>2 DEF CancelOpenMatch, CanCancel, PayDeposit, setup, result, AccountInv, TypeOK,
                PlayersFitState, DepositsMatchFlags, FinalStatesRefunded, PaidOut, Sold, Decisive
  <2> QED
    BY <1>1, <2>1, <2>2, <2>3 DEF AccountInv
<1>3. ASSUME NEW s \in Sides, RefundFailedMatch(p, s) PROVE AccountInv'
  <2>1. Solvent'
    BY <1>3, PayDepositSolvent DEF RefundFailedMatch, CanRefundFailed, Failed, SettleRefund, setup
  <2>2. PlayersFitState' /\ StakesPositive'
    BY <1>3 DEF RefundFailedMatch, CanRefundFailed, Failed, setup, result, AccountInv,
                PlayersFitState, StakesPositive
  <2>3. DepositsMatchFlags' /\ FinalStatesRefunded'
    BY <1>3 DEF RefundFailedMatch, CanRefundFailed, Failed, SettleRefund, PayDeposit, setup,
                result, AccountInv, TypeOK, PlayersFitState, DepositsMatchFlags,
                FinalStatesRefunded, PaidOut, Sold, Decisive
  <2> QED
    BY <1>1, <2>1, <2>2, <2>3 DEF AccountInv
<1>4. ASSUME NEW s \in Sides, RefundTie(p, s) PROVE AccountInv'
  <2>1. Solvent'
    BY <1>4, PayDepositSolvent DEF RefundTie, CanRefundTie, SettleRefund, setup
  <2>2. PlayersFitState' /\ StakesPositive'
    BY <1>4 DEF RefundTie, CanRefundTie, setup, result, AccountInv, PlayersFitState,
                StakesPositive
  <2>3. DepositsMatchFlags' /\ FinalStatesRefunded'
    BY <1>4 DEF RefundTie, CanRefundTie, SettleRefund, PayDeposit, setup, result, AccountInv,
                TypeOK, PlayersFitState, DepositsMatchFlags, FinalStatesRefunded, PaidOut, Sold,
                Decisive
  <2> QED
    BY <1>1, <2>1, <2>2, <2>3 DEF AccountInv
<1>5. ASSUME NEW s \in Sides, ClaimWinnerStake(p, s) PROVE AccountInv'
  <2>1. Solvent'
    BY <1>5, PayDepositSolvent DEF ClaimWinnerStake, CanClaim, setup
  <2>2. PlayersFitState' /\ StakesPositive'
    BY <1>5 DEF ClaimWinnerStake, CanClaim, setup, result, AccountInv, PlayersFitState,
                StakesPositive
  <2>3. DepositsMatchFlags' /\ FinalStatesRefunded'
    BY <1>5 DEF ClaimWinnerStake, CanClaim, PayDeposit, setup, result, AccountInv, TypeOK,
                PlayersFitState, DepositsMatchFlags, FinalStatesRefunded, PaidOut, Sold, Decisive
  <2> QED
    BY <1>1, <2>1, <2>2, <2>3 DEF AccountInv
<1>6. ASSUME NEW s \in Sides, ExerciseOption(p, s) PROVE AccountInv'
  <2>1. Solvent'
    BY <1>6, PayDepositSolvent DEF ExerciseOption, CanExercise, setup
  <2>2. PlayersFitState' /\ StakesPositive'
    BY <1>6 DEF ExerciseOption, CanExercise, setup, result, AccountInv, PlayersFitState,
                StakesPositive
  <2>3. DepositsMatchFlags' /\ FinalStatesRefunded'
    BY <1>6 DEF ExerciseOption, CanExercise, PayDeposit, setup, result, AccountInv, TypeOK,
                PlayersFitState, DepositsMatchFlags, FinalStatesRefunded, PaidOut, Sold, Decisive
  <2> QED
    BY <1>1, <2>1, <2>2, <2>3 DEF AccountInv
<1>7. ASSUME NEW s \in Sides, ReclaimAfterOptionExpiry(p, s) PROVE AccountInv'
  <2>1. Solvent'
    BY <1>7, PayDepositSolvent DEF ReclaimAfterOptionExpiry, CanReclaim, setup
  <2>2. PlayersFitState' /\ StakesPositive'
    BY <1>7 DEF ReclaimAfterOptionExpiry, CanReclaim, setup, result, AccountInv, PlayersFitState,
                StakesPositive
  <2>3. DepositsMatchFlags' /\ FinalStatesRefunded'
    BY <1>7 DEF ReclaimAfterOptionExpiry, CanReclaim, PayDeposit, setup, result, AccountInv,
                TypeOK, PlayersFitState, DepositsMatchFlags, FinalStatesRefunded, PaidOut, Sold,
                Decisive
  <2> QED
    BY <1>1, <2>1, <2>2, <2>3 DEF AccountInv
<1> QED
  BY <1>2, <1>3, <1>4, <1>5, <1>6, <1>7 DEF Exit

\* create_match and join_match put a stake in; the rest of the world may add to a vault.
LEMMA CreateInv ==
    ASSUME AccountInv, NEW p \in Players, NEW t \in TermsOffered, NEW c \in Commitments,
           CreateMatch(p, t, c)
    PROVE  AccountInv'
<1> USE SidesFacts
<1>1. TypeOK'
  BY CreateType DEF AccountInv
<1>2. /\ t \in MatchTerms
      /\ \A s \in Sides : t.stake[s] \in Nat /\ t.stake[s] > 0
  <2>1. t \in MatchTerms
    BY AmountAssumption
  <2> QED
    BY <2>1, AmountAssumption DEF CreateMatch, CanCreate, MatchTerms
<1>3. PlayersFitState' /\ StakesPositive'
  BY <1>2, PlayersAssumption DEF CreateMatch, CanCreate, AccountInv, TypeOK, PlayersFitState,
                                 Untouched, StakesPositive
<1>4. DepositsMatchFlags' /\ FinalStatesRefunded'
  BY <1>2, PlayersAssumption DEF CreateMatch, CanCreate, result, AccountInv, TypeOK,
                                 PlayersFitState, Untouched, DepositsMatchFlags,
                                 FinalStatesRefunded, PaidOut, Sold, Decisive
<1>5. Solvent'
  BY <1>2 DEF CreateMatch, CanCreate, PayIn, MatchTerms, AccountInv, TypeOK, PlayersFitState,
              Untouched, Solvent, RecordedDeposits, Side1, Side2
<1> QED
  BY <1>1, <1>3, <1>4, <1>5 DEF AccountInv

\* join_match: the challenger is not the creator and the whole stake is paid in.
LEMMA JoinInv ==
    ASSUME AccountInv, NEW p \in Players, NEW c \in Commitments, JoinMatch(p, c)
    PROVE  AccountInv'
<1> USE SidesFacts
<1>1. TypeOK'
  BY JoinType DEF AccountInv
<1>2. /\ terms \in AgreedTerms
      /\ \A s \in Sides : terms.stake[s] \in Nat /\ terms.stake[s] > 0
  BY DEF JoinMatch, CanJoin, AccountInv, TypeOK, AgreedTerms, StakesPositive
<1>3. PlayersFitState' /\ StakesPositive'
  BY <1>2 DEF JoinMatch, CanJoin, AccountInv, TypeOK, PlayersFitState, StakesPositive
<1>4. DepositsMatchFlags' /\ FinalStatesRefunded'
  BY <1>2, PlayersAssumption DEF JoinMatch, CanJoin, result, AccountInv, TypeOK, PlayersFitState,
                                 DepositsMatchFlags, FinalStatesRefunded, PaidOut, Sold, Decisive
<1>5. Solvent'
  <2>1. deposit["challenger"] = 0
    BY DEF JoinMatch, CanJoin, AccountInv, PlayersFitState, DepositsMatchFlags
  <2>2. \A a \in Assets : Side1(a) + Side2(a) <= vault[a]
    BY DEF JoinMatch, CanJoin, AccountInv, Solvent, RecordedDeposits
  <2> QED
    BY <1>2, <2>1, <2>2 DEF JoinMatch, PayIn, AccountInv, TypeOK, AgreedTerms, Solvent,
                            RecordedDeposits, Side1, Side2
<1> QED
  BY <1>1, <1>3, <1>4, <1>5 DEF AccountInv

\* Steps that leave every balance, deposit, flag and player alone.
LEMMA QuietInv ==
    ASSUME AccountInv, TypeOK', UNCHANGED <<player, terms, deposit, refunded, vault,
                                           winner_stake_claimed, winner, state>>
    PROVE  AccountInv'
BY DEF AccountInv, PlayersFitState, Untouched, StakesPositive, DepositsMatchFlags,
       FinalStatesRefunded, PaidOut, Sold, Solvent, RecordedDeposits, Side1, Side2

\* Steps of the match itself: no token moves, the state does.
LEMMA ProgressInv ==
    ASSUME AccountInv, TypeOK', UNCHANGED <<player, terms, deposit, refunded, vault,
                                           winner_stake_claimed>>,
           state \in Running, state' \in {"Active", "FailureRefundable", "TieRefundable",
                                          "WinnerOptionOpen"},
           state' = "WinnerOptionOpen" <=> winner' \in Sides
    PROVE  AccountInv'
<1>1. PlayersFitState' /\ StakesPositive' /\ Solvent'
  BY DEF AccountInv, Running, PlayersFitState, StakesPositive, Solvent, RecordedDeposits,
         Side1, Side2
<1>2. \A s \in Sides : ~refunded[s] /\ ~winner_stake_claimed
  BY DEF AccountInv, Running, Decisive, DepositsMatchFlags, TypeOK
<1>3. DepositsMatchFlags' /\ FinalStatesRefunded'
  BY <1>2, SidesFacts DEF AccountInv, Running, Decisive, DepositsMatchFlags, FinalStatesRefunded,
                          PaidOut, Sold
<1> QED
  BY <1>1, <1>3 DEF AccountInv

\* Every step keeps the accounting.
LEMMA StepInv == AccountInv /\ [Next]_vars => AccountInv'
<1> SUFFICES ASSUME AccountInv, [Next]_vars PROVE AccountInv'
  OBVIOUS
<1>1. TypeOK'
  BY StepType DEF AccountInv
<1>2. CASE AdminStep
  BY <1>1, <1>2, QuietInv
  DEF AdminStep, UpdateProtocolConfig, SetPaused, setup, schedule, result, escrow
<1>3. ASSUME NEW p \in Players, NEW a \in Assets, UnsolicitedTransfer(p, a) PROVE AccountInv'
  <2>1. /\ PlayersFitState' /\ StakesPositive'
        /\ DepositsMatchFlags' /\ FinalStatesRefunded'
    BY <1>3 DEF UnsolicitedTransfer, setup, schedule, result, AccountInv, PlayersFitState,
                StakesPositive, DepositsMatchFlags, FinalStatesRefunded, PaidOut, Sold
  <2>2. Solvent'
    BY <1>3 DEF UnsolicitedTransfer, PayIn, setup, AccountInv, TypeOK, AgreedTerms, Sides,
                Solvent, RecordedDeposits, Side1, Side2
  <2> QED
    BY <1>1, <2>1, <2>2 DEF AccountInv
<1>4. ASSUME NEW p \in Players, PlayerStep(p) PROVE AccountInv'
  BY <1>3, <1>4, CreateInv, JoinInv, ExitInv DEF PlayerStep
<1>5. ASSUME NEW o, NEW u, NEW t, ActivateMatch(o, u, t) PROVE AccountInv'
  <2>1. winner \notin Sides
    BY <1>5 DEF ActivateMatch, CanActivate, AccountInv, DepositsMatchFlags, Decisive
  <2> QED
    BY <1>1, <1>5, <2>1, ProgressInv DEF ActivateMatch, CanActivate, Running, setup, result,
                                         escrow
<1>6. CASE Submit
  BY <1>1, <1>6, QuietInv DEF Submit, SubmitRoundPredictions, setup, schedule, result, escrow
<1>7. ASSUME NEW u, NEW t, SettleMatch(u, t) PROVE AccountInv'
  <2>1. state' = "WinnerOptionOpen" <=> winner' \in Sides
    BY <1>7 DEF SettleMatch, select_winner, Sides
  <2>2. state' \in {"TieRefundable", "WinnerOptionOpen"}
    BY <1>7 DEF SettleMatch
  <2> QED
    BY <1>1, <1>7, <2>1, <2>2, ProgressInv DEF SettleMatch, CanSettle, Running, setup, escrow
<1>8. CASE MarkOracleFailureRefundable
  <2>1. winner \notin Sides
    BY <1>8 DEF MarkOracleFailureRefundable, CanMarkOracleFailure, AccountInv,
                DepositsMatchFlags, Decisive
  <2> QED
    BY <1>1, <1>8, <2>1, ProgressInv
    DEF MarkOracleFailureRefundable, CanMarkOracleFailure, Running, setup, result, escrow
<1>9. CASE Tick
  BY <1>1, <1>9, QuietInv DEF Tick, setup, schedule, result, escrow
<1>10. CASE UNCHANGED vars
  BY <1>1, <1>10, QuietInv DEF vars, setup, schedule, result, escrow
<1> QED
  BY <1>2, <1>4, <1>5, <1>6, <1>7, <1>8, <1>9, <1>10 DEF Next, Activate, Settle

-----------------------------------------------------------------------------
(***************************************************************************)
(* Deadlines and records: TimingInv is inductive                           *)
(***************************************************************************)
\* An accepted price is positive at the Arena's exponent too: it was scaled up, or
\* down without a remainder.
LEMMA ObservedPositive ==
    ASSUME AccountInv, state # "Absent", NEW u \in PriceUpdates, Accepted(u)
    PROVE  ObservedPrice(u) > 0
<1> DEFINE to == Benchmark[terms.arena["creator"]].exponent
<1>1. /\ u.exponent \in Int /\ to \in Int /\ u.price \in Nat \ {0}
  BY InputAssumption, BenchmarkAssumption
     DEF IsPriceUpdate, I64, Accepted, readable, AccountInv, TypeOK, AgreedTerms, Sides
<1>2. normalizes(u.price, u.exponent, to) /\ ObservedPrice(u) = normalized(u.price, u.exponent, to)
  BY DEF Accepted, readable, ObservedPrice, observed_price
<1> HIDE DEF to
<1>3. CASE u.exponent >= to
  <2>1. pow10[u.exponent - to] \in Nat /\ pow10[u.exponent - to] >= 1
    BY <1>1, <1>3, PowerType
  <2>2. ObservedPrice(u) = u.price * pow10[u.exponent - to]
    BY <1>2, <1>3 DEF normalized
  <2>3. u.price * pow10[u.exponent - to] \in Nat \ {0}
    BY <1>1, <2>1, PositiveProduct
  <2> QED
    BY <2>2, <2>3
<1>4. CASE u.exponent < to
  <2> DEFINE b == pow10[to - u.exponent]
  <2>1. b \in Nat \ {0}
    BY <1>1, <1>4, PowerType
  <2>2. ObservedPrice(u) = u.price \div b /\ u.price % b = 0
    BY <1>1, <1>2, <1>4 DEF normalizes, normalized
  <2> HIDE DEF b
  <2> DEFINE a == u.price
             q == a \div b
  <2>3. a \in Nat \ {0} /\ a % b = 0
    BY <1>1, <2>2
  <2> HIDE DEF a
  <2>4. q \in Int /\ q >= 0 /\ a = b * q + (a % b)
    BY <2>1, <2>3, DivMod
  <2> HIDE DEF q
  <2>5. q # 0
    BY <2>1, <2>3, <2>4
  <2> QED
    BY <2>2, <2>4, <2>5 DEF a, q
<1> QED
  BY <1>1, <1>3, <1>4

\* No deadline and no record exists before create_match.
LEMMA InitTiming == Init => TimingInv
BY DEF Init, TimingInv, TimedFromStart, RecordsScorable

\* Steps that write neither of them, and start no match.
LEMMA QuietTiming ==
    ASSUME AccountInv, TimingInv, UNCHANGED <<schedule, rounds, now>>,
           \/ UNCHANGED <<state, terms>>
           \/ state = "Absent" /\ state' = "Open"
           \/ state = "Open" /\ state' = "Ready" /\ UNCHANGED terms
           \/ state = "Active" /\ state' = "WinnerOptionOpen" /\ UNCHANGED terms
           \/ state' \notin {"Absent", "Open", "Ready", "Active", "WinnerOptionOpen"}
    PROVE  TimingInv'
BY DEF TimingInv, TimedFromStart, RecordsScorable, schedule, rounds

\* Every step keeps them.
LEMMA StepTiming == AccountInv /\ TimingInv /\ [Next]_vars => TimingInv'
<1> SUFFICES ASSUME AccountInv, TimingInv, [Next]_vars PROVE TimingInv'
  OBVIOUS
<1>1. CASE AdminStep \/ UNCHANGED vars
  BY <1>1, QuietTiming DEF AdminStep, UpdateProtocolConfig, SetPaused, vars, setup
<1>2. ASSUME NEW p \in Players, PlayerStep(p) PROVE TimingInv'
  <2>1. ASSUME Exit(p) PROVE TimingInv'
    BY <2>1, QuietTiming
    DEF Exit, CancelOpenMatch, RefundFailedMatch, RefundTie, ClaimWinnerStake, ExerciseOption,
        ReclaimAfterOptionExpiry, setup
  <2>2. ASSUME NEW t, NEW c, CreateMatch(p, t, c) PROVE TimingInv'
    BY <2>2, QuietTiming DEF CreateMatch, CanCreate
  <2>3. ASSUME NEW c, JoinMatch(p, c) PROVE TimingInv'
    BY <2>3, QuietTiming DEF JoinMatch, CanJoin
  <2>4. ASSUME NEW a, UnsolicitedTransfer(p, a) PROVE TimingInv'
    BY <2>4, QuietTiming DEF UnsolicitedTransfer, setup
  <2> QED
    BY <1>2, <2>1, <2>2, <2>3, <2>4 DEF PlayerStep
<1>3. ASSUME NEW o, NEW u \in PriceUpdates, NEW t, ActivateMatch(o, u, t) PROVE TimingInv'
  <2>1. TimedFromStart'
    BY <1>3 DEF ActivateMatch, setup, TimingInv, TimedFromStart, TargetEnd, SettlementDeadline,
                OptionExpiry, RoundOffset, AccountInv, TypeOK
  <2>2. RecordsScorable'
    <3>1. ObservedPrice(u) > 0
      BY <1>3, ObservedPositive DEF ActivateMatch, CanActivate, Fresh
    <3> QED
      BY <1>3, <3>1 DEF ActivateMatch, rounds, TimingInv, RecordsScorable
  <2> QED
    BY <2>1, <2>2 DEF TimingInv
<1>4. ASSUME NEW o, NEW r \in Rounds, NEW i \in [Sides -> Inputs], SubmitRoundPredictions(o, r, i)
      PROVE  TimingInv'
  <2>1. TimedFromStart'
    BY <1>4 DEF SubmitRoundPredictions, setup, schedule, TimingInv, TimedFromStart
  <2>2. RecordsScorable'
    BY <1>4 DEF SubmitRoundPredictions, CanSubmit, schedule, TimingInv, RecordsScorable,
                AccountInv, TypeOK
  <2> QED
    BY <2>1, <2>2 DEF TimingInv
<1>5. CASE Settle
  BY <1>5, QuietTiming DEF Settle, SettleMatch, CanSettle, setup
<1>6. CASE MarkOracleFailureRefundable
  BY <1>6, QuietTiming DEF MarkOracleFailureRefundable, setup
<1>7. CASE Tick
  <2>1. now' = now + 1 /\ now \in Nat /\ start_ts \in Nat
    BY <1>7 DEF Tick, AccountInv, TypeOK
  <2> QED
    BY <1>7, <2>1 DEF Tick, setup, schedule, rounds, TimingInv, TimedFromStart, RecordsScorable
<1> QED
  BY <1>1, <1>2, <1>3, <1>4, <1>5, <1>6, <1>7 DEF Next, Activate, Submit

\* Keys, deposits, single-use flags, state, winner and vault balances agree, deadlines
\* follow from the start and records can be scored (all handlers of the match).
THEOREM Invariance == Spec => []EscrowInv
<1>1. Init => EscrowInv
  BY InitInv, InitTiming DEF EscrowInv
<1>2. EscrowInv /\ [Next]_vars => EscrowInv'
  BY StepInv, StepTiming DEF EscrowInv
<1> QED
  BY <1>1, <1>2, PTL DEF Spec

\* The accounting half of it.
LEMMA Accounting == Spec => []AccountInv
<1>1. EscrowInv => AccountInv
  BY DEF EscrowInv
<1> QED
  BY <1>1, Invariance, PTL

\* A side's recorded deposit is its whole stake until exactly one of refund,
\* claim or sale has taken it (all refund, claim, exercise and reclaim handlers).
THEOREM DepositsAgree == Spec => []DepositsMatchFlags
<1>1. AccountInv => DepositsMatchFlags
  BY DEF AccountInv
<1> QED
  BY <1>1, Accounting, PTL

\* pay_out never fails for lack of funds, whoever shares or feeds the vault.
THEOREM AlwaysSolvent == Spec => []Solvent
<1>1. AccountInv => Solvent
  BY DEF AccountInv
<1> QED
  BY <1>1, Accounting, PTL

-----------------------------------------------------------------------------
(***************************************************************************)
(* Action properties                                                       *)
(***************************************************************************)

\* The winner always gets the whole exercise window, however late the
\* settlement (settle_match, activate_match).
THEOREM FullExerciseWindow == Spec => WinnerGetsFullWindow
<1> DEFINE A == state = "Active" /\ state' = "WinnerOptionOpen" =>
                  option_expiry_ts' - now >= Profile[terms.profile_kind].exercise_window_seconds
<1>1. EscrowInv /\ [Next]_vars => [A]_vars
  <2> SUFFICES ASSUME EscrowInv, Next, state = "Active", state' = "WinnerOptionOpen"
               PROVE  A
    OBVIOUS
  <2>1. PICK u, t : SettleMatch(u, t)
    BY DEF Next, AdminStep, UpdateProtocolConfig, SetPaused, PlayerStep, CreateMatch, JoinMatch,
           Exit, CancelOpenMatch, RefundFailedMatch, RefundTie, ClaimWinnerStake, ExerciseOption,
           ReclaimAfterOptionExpiry, UnsolicitedTransfer, Activate, ActivateMatch, Submit,
           SubmitRoundPredictions, Settle, MarkOracleFailureRefundable, Tick
  <2>2. now <= settlement_deadline_ts /\ option_expiry_ts' = option_expiry_ts
    BY <2>1 DEF SettleMatch, CanSettle, schedule
  <2>3. option_expiry_ts = settlement_deadline_ts
                             + Profile[terms.profile_kind].exercise_window_seconds
    BY DEF EscrowInv, TimingInv, TimedFromStart
  <2>4. /\ settlement_deadline_ts \in Nat /\ now \in Nat
        /\ Profile[terms.profile_kind].exercise_window_seconds \in Nat
    BY ProfileAssumption DEF EscrowInv, AccountInv, TypeOK, AgreedTerms
  <2> QED
    BY <2>2, <2>3, <2>4
<1> QED
  BY <1>1, Invariance, PTL DEF Spec, WinnerGetsFullWindow

\* Exits only ever lower deposits, and never start a match.
LEMMA ExitsOnlyPay ==
    ASSUME AccountInv, NEW p \in Players, Exit(p)
    PROVE  /\ \A s \in Sides : deposit'[s] <= deposit[s]
           /\ state' # "Active"
<1>1. ASSUME NEW s \in Sides, PayDeposit(s, p)
      PROVE  \A q \in Sides : deposit'[q] <= deposit[q]
  BY <1>1 DEF PayDeposit, AccountInv, TypeOK
<1>2. \A s \in Sides : Other(s) \in Sides
  BY DEF Other, Sides
<1>3. "creator" \in Sides
  BY DEF Sides
<1>4. \E s \in Sides : PayDeposit(s, p)
  BY <1>2, <1>3 DEF Exit, CancelOpenMatch, RefundFailedMatch, RefundTie, SettleRefund,
                    ClaimWinnerStake, ExerciseOption, ReclaimAfterOptionExpiry
<1>5. state' # "Active"
  BY DEF Exit, CancelOpenMatch, RefundFailedMatch, RefundTie, CanRefundTie, ClaimWinnerStake,
         CanClaim, ExerciseOption, ReclaimAfterOptionExpiry
<1> QED
  BY <1>1, <1>4, <1>5

\* While paused no deposit grows and no match starts (create, join, activate).
THEOREM PauseIsSafe == Spec => PauseStopsNewRisk
<1> DEFINE A == paused => /\ \A s \in Sides : deposit'[s] <= deposit[s]
                          /\ state = "Ready" => state' # "Active"
<1>1. AccountInv /\ [Next]_vars => [A]_vars
  <2> SUFFICES ASSUME AccountInv, Next, paused PROVE A
    OBVIOUS
  <2>1. ASSUME UNCHANGED <<deposit, state>> PROVE A
    BY <2>1 DEF AccountInv, TypeOK
  <2>2. ASSUME UNCHANGED deposit, state = "Active" PROVE A
    BY <2>2 DEF AccountInv, TypeOK
  <2>3. CASE AdminStep \/ Tick
    BY <2>1, <2>3 DEF AdminStep, UpdateProtocolConfig, SetPaused, Tick, escrow
  <2>4. ASSUME NEW p \in Players, PlayerStep(p) PROVE A
    BY <2>1, <2>4, ExitsOnlyPay DEF PlayerStep, CreateMatch, CanCreate, JoinMatch, CanJoin,
                                    UnsolicitedTransfer
  <2>5. ~Activate
    BY DEF Activate, ActivateMatch, CanActivate
  <2>6. CASE Submit \/ Settle \/ MarkOracleFailureRefundable
    BY <2>2, <2>6 DEF Submit, SubmitRoundPredictions, CanSubmit, Settle, SettleMatch, CanSettle,
                      MarkOracleFailureRefundable, CanMarkOracleFailure, escrow
  <2> QED
    BY <2>3, <2>4, <2>5, <2>6 DEF Next
<1> QED
  BY <1>1, Accounting, PTL DEF Spec, PauseStopsNewRisk

\* Terms are fixed once both have joined, deadlines and start price once active.
THEOREM TermsAreFinal == Spec => JoinedTermsFrozen
<1> DEFINE A == /\ Joined => UNCHANGED <<setup, activation_deadline_ts>>
                /\ Joined /\ state # "Ready" => UNCHANGED schedule
<1>1. [Next]_vars => [A]_vars
  <2> SUFFICES ASSUME Next PROVE A
    OBVIOUS
  <2>1. CASE AdminStep \/ Tick
    BY <2>1 DEF AdminStep, UpdateProtocolConfig, SetPaused, Tick
  <2>2. ASSUME NEW p \in Players, PlayerStep(p) PROVE A
    BY <2>2 DEF PlayerStep, CreateMatch, CanCreate, JoinMatch, CanJoin, Joined,
                UnsolicitedTransfer, Exit, CancelOpenMatch, RefundFailedMatch, RefundTie,
                ClaimWinnerStake, ExerciseOption, ReclaimAfterOptionExpiry
  <2>3. CASE Activate
    BY <2>3 DEF Activate, ActivateMatch, CanActivate, Joined
  <2>4. CASE Submit \/ Settle \/ MarkOracleFailureRefundable
    BY <2>4 DEF Submit, SubmitRoundPredictions, Settle, SettleMatch, MarkOracleFailureRefundable
  <2> QED
    BY <2>1, <2>2, <2>3, <2>4 DEF Next
<1> QED
  BY <1>1, PTL DEF Spec, JoinedTermsFrozen

-----------------------------------------------------------------------------
(***************************************************************************)
(* Holdings: tokens change hands only at the strike                        *)
(***************************************************************************)
\* Every key owns, in its accounts and in escrow, what it owned before.
HoldingsKept == \A k \in Players, b \in Assets : Holding(k, b)' = Holding(k, b)

\* What a transfer into the vault costs each key.
LEMMA PaidInBalance ==
    ASSUME TypeOK, NEW p \in Players, NEW a \in Assets, NEW amount \in Nat,
           PayIn(p, a, amount), NEW k \in Players, NEW b \in Assets
    PROVE  wallet'[k][b] = wallet[k][b] - (IF k = p /\ b = a THEN amount ELSE 0)
<1>1. /\ wallet \in [Players -> [Assets -> Nat]]
      /\ wallet' = [wallet EXCEPT ![p] = [wallet[p] EXCEPT ![a] = wallet[p][a] - amount]]
  BY DEF TypeOK, PayIn
<1>2. CASE k = p
  <2>1. wallet'[p] = [wallet[p] EXCEPT ![a] = wallet[p][a] - amount]
    BY <1>1
  <2> QED
    BY <1>1, <1>2, <2>1
<1>3. CASE k # p
  BY <1>1, <1>3
<1> QED
  BY <1>2, <1>3

\* What a payout gives each key.
LEMMA PaidOutBalance ==
    ASSUME TypeOK, NEW p \in Players, NEW a \in Assets, NEW amount \in Nat,
           pay_out(p, a, amount), NEW k \in Players, NEW b \in Assets
    PROVE  wallet'[k][b] = wallet[k][b] + (IF k = p /\ b = a THEN amount ELSE 0)
<1>1. /\ wallet \in [Players -> [Assets -> Nat]]
      /\ wallet' = [wallet EXCEPT ![p] = [wallet[p] EXCEPT ![a] = wallet[p][a] + amount]]
  BY DEF TypeOK, pay_out
<1>2. CASE k = p
  <2>1. wallet'[p] = [wallet[p] EXCEPT ![a] = wallet[p][a] + amount]
    BY <1>1
  <2> QED
    BY <1>1, <1>2, <2>1
<1>3. CASE k # p
  BY <1>1, <1>3
<1> QED
  BY <1>2, <1>3

\* A deposit taken from side s and paid to p: what each key gains and loses.
LEMMA PayDepositHoldings ==
    ASSUME AccountInv, state # "Absent", NEW s \in Sides, NEW p \in Players,
           PayDeposit(s, p), UNCHANGED <<player, terms>>,
           NEW k \in Players, NEW b \in Assets
    PROVE  Holding(k, b)' = Holding(k, b)
             + (IF k = p /\ b = terms.arena[s] THEN deposit[s] ELSE 0)
             - (IF k = player[s] /\ b = terms.arena[s] THEN deposit[s] ELSE 0)
<1> USE SidesFacts
<1>1. /\ deposit \in [Sides -> Nat] /\ terms.arena \in [Sides -> Assets]
      /\ wallet[k][b] \in Nat
  BY DEF AccountInv, TypeOK, AgreedTerms
<1>2. wallet'[k][b] = wallet[k][b] + (IF k = p /\ b = terms.arena[s] THEN deposit[s] ELSE 0)
  <2>1. pay_out(p, terms.arena[s], deposit[s]) /\ terms.arena[s] \in Assets /\ deposit[s] \in Nat
    BY <1>1 DEF PayDeposit
  <2> QED
    BY <2>1, PaidOutBalance DEF AccountInv
<1>3. /\ Recorded(k, s, b) = IF k = player[s] /\ b = terms.arena[s] THEN deposit[s] ELSE 0
      /\ Recorded(k, s, b)' = 0
  BY <1>1 DEF Recorded, PayDeposit
<1>4. Recorded(k, Other(s), b)' = Recorded(k, Other(s), b) /\ Recorded(k, Other(s), b) \in Nat
  BY <1>1 DEF Recorded, PayDeposit
<1>5. /\ Holding(k, b) = wallet[k][b] + Recorded(k, s, b) + Recorded(k, Other(s), b)
      /\ Holding(k, b)' = wallet'[k][b] + Recorded(k, s, b)' + Recorded(k, Other(s), b)'
  <2>1. Recorded(k, s, b) \in Nat /\ Recorded(k, s, b)' \in Nat /\ wallet'[k][b] \in Nat
    BY <1>1, <1>2, <1>3
  <2>2. CASE s = "creator"
    BY <1>1, <1>4, <2>1, <2>2 DEF Holding, Other
  <2>3. CASE s = "challenger"
    BY <1>1, <1>4, <2>1, <2>3 DEF Holding, Other
  <2> QED
    BY <2>2, <2>3
<1> HIDE DEF Holding
<1> QED
  BY <1>1, <1>2, <1>3, <1>4, <1>5

\* A stake deposited by p for side s, until then without a player, stays p's.
LEMMA StakedHoldings ==
    ASSUME AccountInv, NEW s \in Sides, NEW p \in Players,
           player[s] = NoPlayer, NEW a \in Assets, NEW amount \in Nat,
           PayIn(p, a, amount), terms'.arena[s] = a,
           player' = [player EXCEPT ![s] = p],
           deposit' = [deposit EXCEPT ![s] = amount],
           \/ player[Other(s)] = NoPlayer
           \/ UNCHANGED terms
    PROVE  HoldingsKept
<1> USE SidesFacts
<1> SUFFICES ASSUME NEW k \in Players, NEW b \in Assets
             PROVE  Holding(k, b)' = Holding(k, b)
  BY DEF HoldingsKept
<1>1. /\ deposit \in [Sides -> Nat] /\ player \in [Sides -> Players \cup {NoPlayer}]
      /\ wallet[k][b] \in Nat
  BY DEF AccountInv, TypeOK
<1>2. wallet'[k][b] = wallet[k][b] - (IF k = p /\ b = a THEN amount ELSE 0)
  BY PaidInBalance DEF AccountInv
<1>3. /\ Recorded(k, s, b) = 0
      /\ Recorded(k, s, b)' = IF k = p /\ b = a THEN amount ELSE 0
  BY <1>1, PlayersAssumption DEF Recorded
<1>4. Recorded(k, Other(s), b)' = Recorded(k, Other(s), b) /\ Recorded(k, Other(s), b) \in Nat
  BY <1>1, PlayersAssumption DEF Recorded
<1>5. CASE s = "creator"
  BY <1>1, <1>2, <1>3, <1>4, <1>5 DEF Holding, Other
<1>6. CASE s = "challenger"
  BY <1>1, <1>2, <1>3, <1>4, <1>6 DEF Holding, Other
<1> QED
  BY <1>5, <1>6

\* What StakesChangeHandsOnlyAtStrike allows of a step.
StepExchanges ==
    \/ HoldingsKept /\ quote' = quote
    \/ \E p \in Players, s \in Sides : Exchange(p, s)
    \/ \E p \in Players, a \in Assets : UnsolicitedTransfer(p, a)

\* create_match and join_match move tokens from a key to its own deposit.
LEMMA SetupExchanges ==
    ASSUME AccountInv, NEW p \in Players,
           \/ \E t \in TermsOffered, c \in Commitments : CreateMatch(p, t, c)
           \/ \E c \in Commitments : JoinMatch(p, c)
    PROVE  StepExchanges
<1> USE SidesFacts
<1>1. ASSUME NEW t \in TermsOffered, NEW c \in Commitments, CreateMatch(p, t, c)
      PROVE  StepExchanges
  <2>1. player["creator"] = NoPlayer /\ player[Other("creator")] = NoPlayer
    BY <1>1 DEF CreateMatch, CanCreate, AccountInv, PlayersFitState, Untouched
  <2>2. t.arena["creator"] \in Assets /\ t.stake["creator"] \in Nat
    BY AmountAssumption DEF MatchTerms
  <2>3. /\ PayIn(p, t.arena["creator"], t.stake["creator"])
        /\ terms'.arena["creator"] = t.arena["creator"]
        /\ player' = [player EXCEPT !["creator"] = p]
        /\ deposit' = [deposit EXCEPT !["creator"] = t.stake["creator"]]
        /\ quote' = quote
    BY <1>1 DEF CreateMatch
  <2> QED
    BY <2>1, <2>2, <2>3, StakedHoldings DEF StepExchanges
<1>2. ASSUME NEW c \in Commitments, JoinMatch(p, c)
      PROVE  StepExchanges
  <2>1. player["challenger"] = NoPlayer /\ state # "Absent"
    BY <1>2 DEF JoinMatch, CanJoin, AccountInv, PlayersFitState
  <2>2. terms.arena["challenger"] \in Assets /\ terms.stake["challenger"] \in Nat
    BY <2>1 DEF AccountInv, TypeOK, AgreedTerms
  <2>3. /\ PayIn(p, terms.arena["challenger"], terms.stake["challenger"])
        /\ player' = [player EXCEPT !["challenger"] = p]
        /\ deposit' = [deposit EXCEPT !["challenger"] = terms.stake["challenger"]]
        /\ terms' = terms /\ quote' = quote
    BY <1>2 DEF JoinMatch
  <2> QED
    BY <2>1, <2>2, <2>3, StakedHoldings DEF StepExchanges
<1> QED
  BY <1>1, <1>2

\* Every exit but exercise_option pays a side's deposit to that side's player.
LEMMA ExitExchanges ==
    ASSUME AccountInv, NEW p \in Players, Exit(p)
    PROVE  StepExchanges
<1> USE SidesFacts
<1>1. ASSUME NEW s \in Sides, p = player[s], PayDeposit(s, p), state # "Absent",
             UNCHANGED <<player, terms, quote>>
      PROVE  StepExchanges
  <2>1. ASSUME NEW k \in Players, NEW b \in Assets
        PROVE  Holding(k, b)' = Holding(k, b)
    <3>1. deposit[s] \in Nat /\ Holding(k, b) \in Int
      BY DEF AccountInv, TypeOK, Holding, Recorded
    <3>2. Holding(k, b)' = Holding(k, b)
             + (IF k = p /\ b = terms.arena[s] THEN deposit[s] ELSE 0)
             - (IF k = p /\ b = terms.arena[s] THEN deposit[s] ELSE 0)
      BY <1>1, PayDepositHoldings
    <3> HIDE DEF Holding
    <3> QED
      BY <3>1, <3>2
  <2> QED
    BY <1>1, <2>1 DEF StepExchanges, HoldingsKept
<1>2. CASE CancelOpenMatch(p)
  BY <1>1, <1>2 DEF CancelOpenMatch, CanCancel, setup
<1>3. ASSUME NEW s \in Sides,
             \/ RefundFailedMatch(p, s) \/ RefundTie(p, s)
             \/ ClaimWinnerStake(p, s) \/ ReclaimAfterOptionExpiry(p, s)
      PROVE  StepExchanges
  BY <1>1, <1>3 DEF RefundFailedMatch, CanRefundFailed, CanSettleRefund, Failed, RefundTie,
                    CanRefundTie, SettleRefund, ClaimWinnerStake, CanClaim,
                    ReclaimAfterOptionExpiry, CanReclaim, setup
<1>4. ASSUME NEW s \in Sides, ExerciseOption(p, s)
      PROVE  Exchange(p, s)
  <2> DEFINE loser == Other(s)
  <2>1. /\ state = "WinnerOptionOpen" /\ winner = s /\ p = player[s]
        /\ deposit[loser] > 0 /\ PayDeposit(loser, p) /\ UNCHANGED <<player, terms>>
        /\ quote' = [k \in Players |-> quote[k]
                        - (IF k = p THEN terms.strike[loser] ELSE 0)
                        + (IF k = player[loser] THEN terms.strike[loser] ELSE 0)]
    BY <1>4 DEF ExerciseOption, CanExercise, CanPayDeposit, stake_strike, setup
  <2>2. deposit[loser] = terms.stake[loser]
    BY <2>1 DEF AccountInv, DepositsMatchFlags
  <2>3. ASSUME NEW k \in Players
        PROVE  quote'[k] = quote[k] + (IF k = player[loser] THEN terms.strike[loser] ELSE 0)
                                    - (IF k = p THEN terms.strike[loser] ELSE 0)
    <3>1. quote[k] \in Nat /\ terms.strike[loser] \in Nat
      BY <2>1 DEF AccountInv, TypeOK, AgreedTerms
    <3> QED
      BY <2>1, <3>1
  <2>4. ASSUME NEW k \in Players, NEW b \in Assets
        PROVE  Holding(k, b)' = Holding(k, b)
             + (IF k = p /\ b = terms.arena[loser] THEN terms.stake[loser] ELSE 0)
             - (IF k = player[loser] /\ b = terms.arena[loser] THEN terms.stake[loser] ELSE 0)
    BY <2>1, <2>2, PayDepositHoldings
  <2> QED
    BY <2>1, <2>3, <2>4 DEF Exchange
<1> QED
  BY <1>2, <1>3, <1>4 DEF Exit, StepExchanges

\* No key's holding of a mint or of quote changes but in one atomic exchange of
\* the loser's stake for its strike, or by the sender's own unasked transfer.
THEOREM NothingChangesHandsBelowStrike == Spec => StakesChangeHandsOnlyAtStrike
<1>1. ASSUME UNCHANGED <<player, terms, deposit, wallet, quote>> PROVE StepExchanges
  BY <1>1 DEF StepExchanges, HoldingsKept, Holding, Recorded
<1>2. AccountInv /\ [Next]_vars => [StepExchanges]_vars
  <2> SUFFICES ASSUME AccountInv, Next PROVE StepExchanges
    OBVIOUS
  <2>1. CASE AdminStep \/ Tick
    BY <1>1, <2>1 DEF AdminStep, UpdateProtocolConfig, SetPaused, Tick, setup, escrow
  <2>2. ASSUME NEW p \in Players, PlayerStep(p) PROVE StepExchanges
    BY <2>2, SetupExchanges, ExitExchanges DEF PlayerStep, StepExchanges
  <2>3. CASE Activate \/ Submit \/ Settle \/ MarkOracleFailureRefundable
    BY <1>1, <2>3 DEF Activate, ActivateMatch, Submit, SubmitRoundPredictions, Settle,
                      SettleMatch, MarkOracleFailureRefundable, setup, escrow
  <2> QED
    BY <2>1, <2>2, <2>3 DEF Next
<1>3. [StepExchanges]_vars =>
        [\/ /\ \A k \in Players, a \in Assets : Holding(k, a)' = Holding(k, a)
            /\ quote' = quote
         \/ \E p \in Players, s \in Sides : Exchange(p, s)
         \/ \E p \in Players, a \in Assets : UnsolicitedTransfer(p, a)]_vars
  BY DEF StepExchanges, HoldingsKept
<1> QED
  BY <1>2, <1>3, Accounting, PTL DEF Spec, StakesChangeHandsOnlyAtStrike

-----------------------------------------------------------------------------
(***************************************************************************)
(* Refinement: every step is a step of EscrowPromise or a stutter          *)
(***************************************************************************)
PromiseStep == [Promise!Next]_<<stakeBar, verdictBar>>

\* An account that does not exist holds nothing and has decided nothing.
LEMMA PromiseInit == Init => Promise!Init
BY DEF Init, Promise!Init, stakeBar, verdictBar, Decisive

\* While both are in, both stakes are held and nothing is decided.
LEMMA BothHeld ==
    ASSUME AccountInv, state \in Running
    PROVE  /\ \A s \in Sides : deposit[s] > 0 /\ player[s] # NoPlayer
           /\ stakeBar = [s \in Sides |-> "held"]
           /\ verdictBar = "pending"
<1>1. \A s \in Sides : player[s] # NoPlayer /\ ~PaidOut(s)
  BY PlayersAssumption, SidesFacts DEF AccountInv, PlayersFitState, DepositsMatchFlags, Running,
                                       PaidOut, Sold, Decisive
<1>2. \A s \in Sides : deposit[s] > 0
  BY <1>1 DEF AccountInv, DepositsMatchFlags, StakesPositive, Running
<1> QED
  BY <1>1, <1>2 DEF stakeBar, verdictBar, Running, Decisive

\* A stake that leaves by a refund or a claim goes home, the others stay put.
LEMMA StakeReturns ==
    ASSUME AccountInv, NEW s \in Sides, NEW p \in Players, p = player[s],
           CanPayDeposit(s), PayDeposit(s, p), UNCHANGED <<player, winner>>,
           \A q \in Sides : ~Sold(s)' /\ (Sold(q)' <=> Sold(q))
    PROVE  /\ stakeBar[s] = "held"
           /\ stakeBar' = [stakeBar EXCEPT ![s] = "returned"]
<1>1. /\ deposit \in [Sides -> Nat] /\ deposit[s] > 0
      /\ deposit' = [deposit EXCEPT ![s] = 0]
  BY DEF CanPayDeposit, PayDeposit, AccountInv, TypeOK
<1>2. player'[s] # NoPlayer
  BY PlayersAssumption
<1>3. stakeBar[s] = "held" /\ stakeBar'[s] = "returned"
  BY <1>1, <1>2 DEF stakeBar
<1>4. \A q \in Sides \ {s} : stakeBar'[q] = stakeBar[q]
  BY <1>1 DEF stakeBar
<1> QED
  BY <1>3, <1>4 DEF stakeBar

\* Each exit returns, sells, withdraws or voids a held stake.
LEMMA ExitPromise ==
    ASSUME AccountInv, NEW p \in Players, Exit(p)
    PROVE  PromiseStep
<1> USE SidesFacts
<1>1. CASE CancelOpenMatch(p)
  <2>1. /\ stakeBar["creator"] = "held"
        /\ stakeBar' = [stakeBar EXCEPT !["creator"] = "returned"]
    BY <1>1, StakeReturns DEF CancelOpenMatch, CanCancel, setup, result, Sold
  <2>2. stakeBar["challenger"] = "none"
    BY <1>1, PlayersAssumption DEF CancelOpenMatch, CanCancel, stakeBar, AccountInv,
                                   PlayersFitState, DepositsMatchFlags
  <2>3. verdictBar = "pending" /\ verdictBar' = "pending"
    BY <1>1 DEF CancelOpenMatch, CanCancel, verdictBar, Decisive
  <2>4. Promise!Withdraw("creator")
    BY <2>1, <2>2, <2>3 DEF Promise!Withdraw
  <2> QED
    BY <2>4 DEF PromiseStep, Promise!Next
<1>2. ASSUME NEW s \in Sides, RefundFailedMatch(p, s) PROVE PromiseStep
  <2>1. /\ stakeBar[s] = "held"
        /\ stakeBar' = [stakeBar EXCEPT ![s] = "returned"]
    BY <1>2, StakeReturns DEF RefundFailedMatch, CanRefundFailed, CanSettleRefund, Failed,
                              SettleRefund, setup, result, Sold
  <2>2. verdictBar' = "void"
    BY <1>2 DEF RefundFailedMatch, verdictBar, Decisive
  <2>3. CASE state = "Ready"
    <3>1. Promise!VoidAndReturn(s)
      BY <2>1, <2>2, <2>3, BothHeld DEF Promise!VoidAndReturn, Running
    <3> QED
      BY <3>1 DEF PromiseStep, Promise!Next
  <2>4. CASE state = "FailureRefundable"
    <3>1. verdictBar = "void"
      BY <2>4 DEF verdictBar, Decisive
    <3>2. Promise!Return(s)
      BY <2>1, <2>2, <3>1 DEF Promise!Return
    <3> QED
      BY <3>2 DEF PromiseStep, Promise!Next
  <2> QED
    BY <1>2, <2>3, <2>4 DEF RefundFailedMatch, CanRefundFailed, Failed
<1>3. ASSUME NEW s \in Sides, RefundTie(p, s) PROVE PromiseStep
  <2>1. /\ stakeBar[s] = "held"
        /\ stakeBar' = [stakeBar EXCEPT ![s] = "returned"]
    BY <1>3, StakeReturns DEF RefundTie, CanRefundTie, CanSettleRefund, SettleRefund, setup,
                              result, Sold
  <2>2. verdictBar = "void" /\ verdictBar' = "void"
    BY <1>3 DEF RefundTie, CanRefundTie, verdictBar, Decisive
  <2>3. Promise!Return(s)
    BY <2>1, <2>2 DEF Promise!Return
  <2> QED
    BY <2>3 DEF PromiseStep, Promise!Next
<1>4. ASSUME NEW s \in Sides, ClaimWinnerStake(p, s) PROVE PromiseStep
  <2>1. /\ stakeBar[s] = "held"
        /\ stakeBar' = [stakeBar EXCEPT ![s] = "returned"]
    BY <1>4, StakeReturns DEF ClaimWinnerStake, CanClaim, setup, result, Sold
  <2>2. verdictBar \in Sides /\ verdictBar' = verdictBar
    BY <1>4 DEF ClaimWinnerStake, CanClaim, result, verdictBar, Decisive
  <2>3. Promise!Return(s)
    BY <2>1, <2>2 DEF Promise!Return, Sides
  <2> QED
    BY <2>3 DEF PromiseStep, Promise!Next
<1>5. ASSUME NEW s \in Sides, ExerciseOption(p, s) PROVE PromiseStep
  <2> DEFINE loser == Other(s)
  <2>1. /\ deposit \in [Sides -> Nat] /\ deposit[loser] > 0
        /\ deposit' = [deposit EXCEPT ![loser] = 0]
        /\ player' = player /\ winner' = winner /\ winner = s
        /\ state = "WinnerOptionOpen" /\ state' = "OptionExercised"
    BY <1>5 DEF ExerciseOption, CanExercise, CanPayDeposit, PayDeposit, AccountInv, TypeOK,
                setup, result
  <2>2. player'[loser] # NoPlayer
    BY <2>1, PlayersAssumption DEF AccountInv, PlayersFitState
  <2>3. stakeBar[loser] = "held" /\ stakeBar'[loser] = "sold"
    BY <2>1, <2>2 DEF stakeBar, Sold
  <2>4. \A q \in Sides \ {loser} : stakeBar'[q] = stakeBar[q]
    BY <2>1 DEF stakeBar, Sold
  <2>5. stakeBar' = [stakeBar EXCEPT ![loser] = "sold"]
    BY <2>3, <2>4 DEF stakeBar
  <2>6. verdictBar = s /\ verdictBar' = s
    BY <2>1 DEF verdictBar, Decisive
  <2>7. Promise!Sell(loser)
    BY <2>3, <2>5, <2>6 DEF Promise!Sell
  <2> QED
    BY <2>7 DEF PromiseStep, Promise!Next
<1>6. ASSUME NEW s \in Sides, ReclaimAfterOptionExpiry(p, s) PROVE PromiseStep
  <2>1. /\ stakeBar[s] = "held"
        /\ stakeBar' = [stakeBar EXCEPT ![s] = "returned"]
    BY <1>6, StakeReturns DEF ReclaimAfterOptionExpiry, CanReclaim, setup, result, Sold
  <2>2. verdictBar \in Sides /\ verdictBar' = verdictBar
    BY <1>6 DEF ReclaimAfterOptionExpiry, CanReclaim, result, verdictBar, Decisive
  <2>3. Promise!Return(s)
    BY <2>1, <2>2 DEF Promise!Return, Sides
  <2> QED
    BY <2>3 DEF PromiseStep, Promise!Next
<1> QED
  BY <1>1, <1>2, <1>3, <1>4, <1>5, <1>6 DEF Exit

\* create_match and join_match each hold one more stake.
LEMMA SetupPromise ==
    ASSUME AccountInv, NEW p \in Players,
           \/ \E t \in TermsOffered, c \in Commitments : CreateMatch(p, t, c)
           \/ \E c \in Commitments : JoinMatch(p, c)
    PROVE  PromiseStep
<1> USE SidesFacts
<1>1. ASSUME NEW t \in TermsOffered, NEW c \in Commitments, CreateMatch(p, t, c)
      PROVE  Promise!Deposit("creator")
  <2>1. state = "Absent" /\ Untouched
    BY <1>1 DEF CreateMatch, CanCreate, AccountInv, PlayersFitState
  <2>2. stakeBar = [s \in Sides |-> "none"] /\ verdictBar = "pending"
    BY <2>1 DEF Untouched, stakeBar, verdictBar, Decisive
  <2>3. t.stake["creator"] > 0
    <3>1. t.stake["creator"] >= MinStake[t.arena["creator"]]
      BY <1>1 DEF CreateMatch, CanCreate
    <3>2. t \in MatchTerms
      BY AmountAssumption
    <3>3. t.arena["creator"] \in Assets /\ t.stake["creator"] \in Nat
      BY <3>2 DEF MatchTerms
    <3>4. MinStake[t.arena["creator"]] \in Nat \ {0}
      BY <3>3, AmountAssumption
    <3> QED
      BY <3>1, <3>3, <3>4
  <2>4. deposit' = [deposit EXCEPT !["creator"] = t.stake["creator"]]
    BY <1>1 DEF CreateMatch
  <2>5. deposit'["creator"] > 0 /\ deposit'["challenger"] = 0
    BY <2>1, <2>3, <2>4 DEF Untouched, AccountInv, TypeOK
  <2>6. player'["challenger"] = NoPlayer
    BY <1>1, <2>1 DEF CreateMatch, Untouched, AccountInv, TypeOK
  <2>7. stakeBar' = [stakeBar EXCEPT !["creator"] = "held"]
    <3>1. stakeBar'["creator"] = "held" /\ stakeBar'["challenger"] = "none"
      BY <2>5, <2>6 DEF stakeBar
    <3>2. stakeBar["challenger"] = "none"
      BY <2>2
    <3> QED
      BY <3>1, <3>2 DEF stakeBar
  <2>8. verdictBar' = "pending"
    BY <1>1 DEF CreateMatch, verdictBar, Decisive
  <2> QED
    BY <2>2, <2>7, <2>8 DEF Promise!Deposit
<1>2. ASSUME NEW c \in Commitments, JoinMatch(p, c)
      PROVE  Promise!Deposit("challenger")
  <2>1. state = "Open" /\ state' = "Ready"
    BY <1>2 DEF JoinMatch, CanJoin
  <2>2. player["challenger"] = NoPlayer /\ deposit["challenger"] = 0 /\ deposit["creator"] > 0
    BY <2>1, PlayersAssumption DEF AccountInv, PlayersFitState, DepositsMatchFlags,
                                   StakesPositive, PaidOut, Sold, Decisive
  <2>3. /\ deposit' = [deposit EXCEPT !["challenger"] = terms.stake["challenger"]]
        /\ terms.stake["challenger"] > 0
    BY <1>2, <2>1 DEF JoinMatch, AccountInv, StakesPositive
  <2>4. stakeBar["challenger"] = "none" /\ stakeBar["creator"] = "held"
    BY <2>2 DEF stakeBar
  <2>5. stakeBar'["challenger"] = "held" /\ stakeBar'["creator"] = "held"
    BY <2>2, <2>3 DEF stakeBar, AccountInv, TypeOK
  <2>6. stakeBar' = [stakeBar EXCEPT !["challenger"] = "held"]
    BY <2>4, <2>5 DEF stakeBar
  <2>7. verdictBar = "pending" /\ verdictBar' = "pending"
    BY <2>1 DEF verdictBar, Decisive
  <2> QED
    BY <2>4, <2>6, <2>7 DEF Promise!Deposit
<1> QED
  BY <1>1, <1>2 DEF PromiseStep, Promise!Next

\* Every step of the account is a step of the promise or leaves its image alone.
LEMMA StepPromise == AccountInv /\ [Next]_vars => PromiseStep
<1> SUFFICES ASSUME AccountInv, [Next]_vars PROVE PromiseStep
  OBVIOUS
<1>1. ASSUME UNCHANGED <<deposit, player, state, winner>> PROVE PromiseStep
  BY <1>1 DEF PromiseStep, stakeBar, verdictBar, Sold
<1>2. CASE AdminStep \/ Submit \/ Tick \/ UNCHANGED vars
  BY <1>1, <1>2 DEF AdminStep, UpdateProtocolConfig, SetPaused, Submit, SubmitRoundPredictions,
                    Tick, vars, setup, result, escrow
<1>3. ASSUME NEW p \in Players, PlayerStep(p) PROVE PromiseStep
  <2>1. ASSUME NEW a \in Assets, UnsolicitedTransfer(p, a) PROVE PromiseStep
    BY <1>1, <2>1 DEF UnsolicitedTransfer, setup, result
  <2> QED
    BY <1>3, <2>1, ExitPromise, SetupPromise DEF PlayerStep
<1>4. CASE Activate
  <2>1. state = "Ready" /\ state' = "Active" /\ UNCHANGED <<deposit, player, winner>>
    BY <1>4 DEF Activate, ActivateMatch, CanActivate, setup, result, escrow
  <2>2. UNCHANGED <<stakeBar, verdictBar>>
    BY <2>1 DEF stakeBar, verdictBar, Sold, Decisive
  <2> QED
    BY <2>2 DEF PromiseStep
<1>5. ASSUME state = "Active", UNCHANGED <<deposit, player>>,
             \/ state' = "WinnerOptionOpen" /\ winner' \in Sides
             \/ state' \in {"TieRefundable", "FailureRefundable"}
      PROVE  PromiseStep
  <2>1. /\ stakeBar = [s \in Sides |-> "held"] /\ verdictBar = "pending"
        /\ \A s \in Sides : deposit[s] > 0
    BY <1>5, BothHeld DEF Running
  <2>2. stakeBar' = stakeBar
    BY <1>5, <2>1 DEF stakeBar
  <2>3. verdictBar' \in Sides \cup {"void"}
    BY <1>5 DEF verdictBar, Decisive
  <2>4. Promise!Decide(verdictBar')
    BY <2>1, <2>2 DEF Promise!Decide
  <2> QED
    BY <2>3, <2>4 DEF PromiseStep, Promise!Next
<1>6. CASE Settle
  BY <1>5, <1>6 DEF Settle, SettleMatch, CanSettle, select_winner, Sides, setup, escrow
<1>7. CASE MarkOracleFailureRefundable
  BY <1>5, <1>7 DEF MarkOracleFailureRefundable, CanMarkOracleFailure, setup, escrow
<1> QED
  BY <1>2, <1>3, <1>4, <1>6, <1>7 DEF Next

\* The Match account keeps the abstract promise: each stake is held once and
\* leaves once, home or sold, by the route its final verdict opens.
THEOREM Refinement == Spec => ImplementsPromise
<1>1. AccountInv /\ [Next]_vars => [Promise!Next]_<<stakeBar, verdictBar>>
  BY StepPromise DEF PromiseStep
<1> QED
  BY <1>1, PromiseInit, Accounting, PTL DEF Spec, ImplementsPromise, Promise!Spec

-----------------------------------------------------------------------------
(***************************************************************************)
(* Deadlines and exits                                                     *)
(***************************************************************************)
\* Who has a deposit plays in an existing match, has taken no route out of it yet,
\* and can be paid.
LEMMA DepositPayable ==
    ASSUME AccountInv, NEW s \in Sides, deposit[s] > 0
    PROVE  /\ state # "Absent" /\ player[s] \in Players
           /\ ~PaidOut(s) /\ CanPayDeposit(s)
<1> USE SidesFacts
<1>1. state # "Absent"
  BY DEF AccountInv, PlayersFitState, Untouched
<1>2. player[s] # NoPlayer /\ ~PaidOut(s)
  BY <1>1 DEF AccountInv, DepositsMatchFlags
<1>3. player[s] \in Players
  BY <1>2 DEF AccountInv, TypeOK
<1>4. vault[terms.arena[s]] >= deposit[s]
  <2> DEFINE a == terms.arena[s]
  <2>1. a \in Assets /\ deposit \in [Sides -> Nat] /\ vault[a] \in Nat
    BY <1>1 DEF AccountInv, TypeOK, AgreedTerms
  <2>2. Side1(a) + Side2(a) <= vault[a]
    BY <1>1, <2>1 DEF AccountInv, Solvent, RecordedDeposits
  <2>3. Side1(a) \in Nat /\ Side2(a) \in Nat /\ (Side1(a) = deposit[s] \/ Side2(a) = deposit[s])
    BY <2>1 DEF Side1, Side2
  <2> QED
    BY <2>1, <2>2, <2>3
<1> QED
  BY <1>1, <1>2, <1>3, <1>4 DEF CanPayDeposit

\* A running match has both deposits, which both players can be paid.
LEMMA RunningPayable ==
    ASSUME AccountInv, state \in Running, NEW s \in Sides
    PROVE  player[s] \in Players /\ CanSettleRefund(player[s], s)
<1>1. deposit[s] > 0
  BY BothHeld
<1> QED
  BY <1>1, DepositPayable DEF PaidOut, CanSettleRefund

\* Past the deadline of its state, whoever has a deposit can take it out, or anyone can
\* first fail the match, without orchestrator, admin or opponent (every exit handler).
THEOREM NeverTrapped == Spec => []EscrowNeverTrapped
<1>1. EscrowInv => EscrowNeverTrapped
  <2> SUFFICES ASSUME AccountInv, NEW s \in Sides, deposit[s] > 0, now > StateDeadline
               PROVE  CanExit(player[s]) \/ CanMarkOracleFailure
    BY DEF EscrowInv, EscrowNeverTrapped
  <2> USE SidesFacts
  <2>1. /\ state # "Absent" /\ player[s] # NoPlayer /\ CanPayDeposit(s)
        /\ ~refunded[s] /\ ~(winner_stake_claimed /\ winner = s) /\ ~Sold(s)
    BY DepositPayable, PlayersAssumption DEF PaidOut
  <2>2. state \in {"Open", "Cancelled"} => s = "creator"
    BY <2>1 DEF AccountInv, PlayersFitState
  <2>3. CASE state = "Open"
    BY <2>1, <2>2, <2>3 DEF CanExit, CanCancel
  <2>4. CASE state = "Ready"
    BY <2>1, <2>4 DEF StateDeadline, CanExit, CanRefundFailed, Failed, CanSettleRefund
  <2>5. CASE state = "Active"
    BY <2>5 DEF StateDeadline, CanMarkOracleFailure
  <2>6. CASE state \in {"TieRefundable", "FailureRefundable"}
    BY <2>1, <2>6 DEF CanExit, CanRefundTie, CanRefundFailed, Failed, CanSettleRefund
  <2>7. CASE state \in Decisive
    <3>1. winner \in Sides
      BY <2>1, <2>7 DEF AccountInv, DepositsMatchFlags
    <3>2. CASE winner = s
      BY <2>1, <2>7, <3>2 DEF CanExit, CanClaim, Decisive
    <3>3. CASE winner = Other(s)
      <4>1. state = "WinnerOptionOpen"
        BY <2>1, <2>7, <3>3 DEF AccountInv, FinalStatesRefunded, Decisive, Sold
      <4> QED
        BY <2>1, <3>3, <4>1 DEF StateDeadline, CanExit, CanReclaim
    <3> QED
      BY <3>1, <3>2, <3>3
  <2>8. state # "Cancelled"
    BY <2>1, <2>2 DEF AccountInv, FinalStatesRefunded
  <2> QED
    BY <2>1, <2>3, <2>4, <2>5, <2>6, <2>7, <2>8 DEF AccountInv, TypeOK, MatchStates, Decisive
<1> QED
  BY <1>1, Invariance, PTL

\* The schedule of an active match: its rounds are due one after the other, each for
\* some time, and all close by the target end.
LEMMA RoundSchedule ==
    ASSUME EscrowInv, state = "Active"
    PROVE  /\ now \in Nat /\ now > 0 /\ start_ts > 0 /\ start_ts <= now
           /\ round_due_ts[0] = start_ts /\ start_ts \in Nat
           /\ round_due_ts[1] \in Nat /\ round_due_ts[2] \in Nat
           /\ round_due_ts[0] < round_due_ts[1] /\ round_due_ts[1] < round_due_ts[2]
           /\ round_due_ts[2] < target_end_ts /\ target_end_ts < settlement_deadline_ts
           /\ target_end_ts \in Nat /\ settlement_deadline_ts \in Nat
           /\ \A r \in Rounds : round_window_end(r) <= target_end_ts
<1> DEFINE k == terms.profile_kind
           d == Profile[k].duration_seconds
           third == d \div 3
<1>1. /\ d \in Nat /\ d >= 3 /\ Profile[k].settlement_grace_seconds \in Nat \ {0}
  BY ProfileAssumption DEF EscrowInv, AccountInv, TypeOK, AgreedTerms
<1>2. /\ now \in Nat /\ start_ts \in Nat /\ now > 0 /\ start_ts > 0 /\ start_ts <= now
      /\ target_end_ts \in Nat /\ settlement_deadline_ts \in Nat
      /\ \A r \in Rounds : round_due_ts[r] = start_ts + r * third
      /\ target_end_ts = start_ts + d
      /\ settlement_deadline_ts = target_end_ts + Profile[k].settlement_grace_seconds
  BY DEF EscrowInv, AccountInv, TypeOK, TimingInv, TimedFromStart, RoundOffset
<1> HIDE DEF d
<1>3. third \in Nat /\ third >= 1 /\ 3 * third <= d
  BY <1>1
<1> HIDE DEF third
<1>4. 0 \in Rounds /\ 1 \in Rounds /\ 2 \in Rounds /\ \A r \in Rounds : r \in {0, 1, 2}
  BY DEF Rounds
<1>5. /\ round_due_ts[0] = start_ts /\ round_due_ts[1] = start_ts + third
      /\ round_due_ts[2] = start_ts + 2 * third
  BY <1>2, <1>3, <1>4
<1>6. \A r \in Rounds : round_window_end(r) <= target_end_ts
  BY <1>1, <1>2, <1>3, <1>4, <1>5 DEF round_window_end
<1> QED
  BY <1>1, <1>2, <1>3, <1>5, <1>6

\* Every match that is running can be scored: both players' records were checked
\* when they were written, and so was the start price.
LEMMA RunningScorable ==
    ASSUME EscrowInv, state = "Active", NEW s \in Sides
    PROVE  scorable(PredictionsOf(s), start_price)
<1>1. start_price > 0 /\ start_price \in Int
  BY DEF EscrowInv, TimingInv, RecordsScorable, AccountInv, TypeOK, I64
<1>2. ASSUME NEW r \in Rounds
      PROVE  IF predictions[r][s].outcome = "Valid" THEN predictions[r][s].predicted_price > 0
                                                    ELSE predictions[r][s].predicted_price = 0
  BY DEF EscrowInv, TimingInv, RecordsScorable, into_record_ok, NoPrediction
<1> QED
  BY <1>1, <1>2 DEF scorable, PredictionsOf

\* At every instant exactly one of the two outcomes a deadline separates is available:
\* activation or refund, settlement or oracle failure, exercise or reclaim; and of the
\* rounds of an active match one is open until a settling price can exist (settlement.rs,
\* refund.rs, option.rs).
THEOREM NoGap == Spec => []DeadlinesLeaveNoGap
<1> USE SidesFacts
<1>1. ASSUME EscrowInv PROVE StartOrRefund
  <2> SUFFICES ASSUME state = "Ready", ~paused, NEW u \in PriceUpdates, NEW t \in 0..MaxTime,
                      Fresh(u, t)
               PROVE  CanActivate(config.orchestrator, u, t)
                        <=> ~\E p \in Players, s \in Sides : CanRefundFailed(p, s)
    BY DEF StartOrRefund
  <2>1. now \in Nat /\ activation_deadline_ts \in Nat
    BY <1>1 DEF EscrowInv, AccountInv, TypeOK
  <2>2. CanActivate(config.orchestrator, u, t) <=> now <= activation_deadline_ts
    BY DEF CanActivate
  <2>3. player["creator"] \in Players /\ CanSettleRefund(player["creator"], "creator")
    BY <1>1, RunningPayable DEF EscrowInv, Running
  <2>4. (\E p \in Players, s \in Sides : CanRefundFailed(p, s)) <=> now > activation_deadline_ts
    BY <2>3 DEF CanRefundFailed, Failed
  <2> QED
    BY <2>1, <2>2, <2>4
<1>2. ASSUME EscrowInv PROVE SettleOrFail
  <2> SUFFICES ASSUME state = "Active", NEW u \in PriceUpdates, NEW t \in 0..MaxTime,
                      Settling(u, t)
               PROVE  CanSettle(u, t) <=> ~CanMarkOracleFailure
    BY DEF SettleOrFail
  <2>1. now \in Nat /\ settlement_deadline_ts \in Nat /\ target_end_ts \in Nat
    BY <1>2 DEF EscrowInv, AccountInv, TypeOK
  <2>2. target_end_ts <= now
    BY <2>1, AmountAssumption DEF Settling
  <2>3. CanSettle(u, t) <=> now <= settlement_deadline_ts
    BY <1>2, <2>2, RunningScorable DEF CanSettle
  <2> QED
    BY <2>1, <2>3 DEF CanMarkOracleFailure
<1>3. ASSUME EscrowInv PROVE ExerciseOrReclaim
  <2> SUFFICES ASSUME state = "WinnerOptionOpen"
               PROVE  /\ (\E p \in Players, s \in Sides : CanExercise(p, s))
                           => ~\E p \in Players, s \in Sides : CanReclaim(p, s)
                      /\ quote[player[winner]] >= terms.strike[Other(winner)]
                           => \/ \E p \in Players, s \in Sides : CanExercise(p, s)
                              \/ \E p \in Players, s \in Sides : CanReclaim(p, s)
    BY DEF ExerciseOrReclaim
  <2>1. now \in Nat /\ option_expiry_ts \in Nat
    BY <1>3 DEF EscrowInv, AccountInv, TypeOK
  <2>2. winner \in Sides
    BY <1>3 DEF EscrowInv, AccountInv, DepositsMatchFlags, Decisive
  <2> DEFINE loser == Other(winner)
  <2>3. player[winner] \in Players /\ player[loser] \in Players
    BY <1>3, <2>2 DEF EscrowInv, AccountInv, PlayersFitState
  <2>4. deposit[loser] > 0
    <3>1. player[loser] # NoPlayer /\ ~PaidOut(loser)
      BY <1>3, <2>2, <2>3, PlayersAssumption
         DEF EscrowInv, AccountInv, DepositsMatchFlags, PaidOut, Sold
    <3> QED
      BY <1>3, <2>2, <3>1 DEF EscrowInv, AccountInv, DepositsMatchFlags, StakesPositive
  <2>5. CanPayDeposit(loser)
    BY <1>3, <2>2, <2>4, DepositPayable DEF EscrowInv
  <2>6. (\E p \in Players, s \in Sides : CanReclaim(p, s)) <=> now > option_expiry_ts
    BY <2>2, <2>3, <2>5 DEF CanReclaim
  <2>7. (\E p \in Players, s \in Sides : CanExercise(p, s)) => now <= option_expiry_ts
    BY DEF CanExercise
  <2>8. quote[player[winner]] >= terms.strike[loser] /\ now <= option_expiry_ts
          => CanExercise(player[winner], winner)
    BY <2>5 DEF CanExercise, stake_strike
  <2> QED
    BY <2>1, <2>2, <2>3, <2>6, <2>7, <2>8
<1>4. ASSUME EscrowInv PROVE OneRoundOpen
  <2> SUFFICES ASSUME state = "Active", round_due_ts[0] <= now, now < target_end_ts
               PROVE  \E r \in Rounds : \A q \in Rounds : InWindow(q) <=> q = r
    BY DEF OneRoundOpen
  <2>1. /\ InWindow(0) <=> (round_due_ts[0] <= now /\ now < round_due_ts[1])
        /\ InWindow(1) <=> (round_due_ts[1] <= now /\ now < round_due_ts[2])
        /\ InWindow(2) <=> (round_due_ts[2] <= now /\ now < target_end_ts)
    BY DEF InWindow, round_window_end
  <2>2. 0 \in Rounds /\ 1 \in Rounds /\ 2 \in Rounds /\ \A r \in Rounds : r \in {0, 1, 2}
    BY DEF Rounds
  <2>3. CASE now < round_due_ts[1]
    BY <1>4, <2>1, <2>2, <2>3, RoundSchedule
  <2>4. CASE round_due_ts[1] <= now /\ now < round_due_ts[2]
    BY <1>4, <2>1, <2>2, <2>4, RoundSchedule
  <2>5. CASE round_due_ts[2] <= now
    BY <1>4, <2>1, <2>2, <2>5, RoundSchedule
  <2> QED
    BY <1>4, <2>3, <2>4, <2>5, RoundSchedule
<1>5. ASSUME EscrowInv PROVE RoundsBeforeSettlement
  <2> SUFFICES ASSUME NEW o, NEW r \in Rounds, NEW i, CanSubmit(o, r, i),
                      NEW u, NEW t, CanSettle(u, t)
               PROVE  FALSE
    BY DEF RoundsBeforeSettlement
  <2>1. state = "Active" /\ now < round_window_end(r) /\ target_end_ts <= now
    BY DEF CanSubmit, InWindow, CanSettle
  <2>2. round_window_end(r) \in Nat
    BY <1>5, <2>1, RoundSchedule DEF round_window_end, Rounds
  <2> QED
    BY <1>5, <2>1, <2>2, RoundSchedule
<1>6. EscrowInv => DeadlinesLeaveNoGap
  BY <1>1, <1>2, <1>3, <1>4, <1>5 DEF DeadlinesLeaveNoGap
<1> QED
  BY <1>6, Invariance, PTL

-----------------------------------------------------------------------------
(***************************************************************************)
(* The match screen: its buttons, its sentences and its form               *)
(***************************************************************************)
\* An open match has its creator's deposit; a decided one the winner's until it is
\* claimed, and the loser's as long as the option is open.
LEMMA OpenPayable ==
    ASSUME AccountInv, state = "Open"
    PROVE  CanCancel(player["creator"])
<1>1. player["creator"] # NoPlayer /\ ~PaidOut("creator")
  BY PlayersAssumption, SidesFacts
     DEF AccountInv, PlayersFitState, DepositsMatchFlags, PaidOut, Sold, Decisive
<1>2. deposit["creator"] > 0
  BY <1>1, SidesFacts DEF AccountInv, DepositsMatchFlags, StakesPositive
<1> QED
  BY <1>1, <1>2, SidesFacts, DepositPayable DEF CanCancel, PaidOut

LEMMA DecidedPayable ==
    ASSUME AccountInv, state \in Decisive
    PROVE  /\ winner \in Sides /\ \A s \in Sides : player[s] \in Players
           /\ player[winner] # player[Other(winner)]
           /\ ~winner_stake_claimed => CanPayDeposit(winner)
           /\ state = "WinnerOptionOpen" => CanPayDeposit(Other(winner))
<1> USE SidesFacts
<1>1. state # "Absent" /\ winner \in Sides
  BY DEF Decisive, AccountInv, DepositsMatchFlags
<1>2. \A s \in Sides : player[s] \in Players /\ player[s] # NoPlayer /\ player[s] # player[Other(s)]
  BY PlayersAssumption DEF Decisive, AccountInv, PlayersFitState
<1>3. ~winner_stake_claimed => ~PaidOut(winner)
  BY <1>1 DEF AccountInv, DepositsMatchFlags, PaidOut, Sold, Decisive
<1>4. state = "WinnerOptionOpen" => ~PaidOut(Other(winner))
  BY <1>1 DEF AccountInv, DepositsMatchFlags, PaidOut, Sold, Decisive
<1>5. ASSUME NEW s \in Sides, ~PaidOut(s) PROVE CanPayDeposit(s)
  BY <1>1, <1>2, <1>5, DepositPayable DEF AccountInv, DepositsMatchFlags, StakesPositive
<1> QED
  BY <1>1, <1>2, <1>3, <1>4, <1>5

\* canWithdraw: the side whose deposit settle_refund would pay to w.
LEMMA WithdrawPayable ==
    ASSUME AccountInv, NEW w, canWithdraw(w)
    PROVE  \E s \in Sides : CanSettleRefund(w, s)
BY DepositPayable DEF canWithdraw, Plays, CanSettleRefund

\* Every transaction is built for the accounts its instruction constrains.
LEMMA ButtonTxFits ==
    ASSUME AccountInv, state # "Absent", NEW w \in Players, NEW b \in availableActions(w)
    PROVE  BuiltTxFits(w, b)
<1> USE SidesFacts
<1>1. ASSUME \E s \in Sides : w = player[s] PROVE OwnDepositFits(OwnDepositTx(w))
  BY <1>1 DEF OwnDepositFits, OwnDepositTx, AssetAccounts, ownStake, stakeSide, arenaOf,
              stake_arena, vaultFor
<1>2. CASE b = "join"
  BY <1>2 DEF BuiltTxFits, JoinFits, joinMatchTx, AssetAccounts, stakeSide, vaultFor
<1>3. CASE b = "cancel"
  <2>1. w = player["creator"]
    BY <1>3 DEF availableActions, Plays
  <2> QED
    BY <1>3, <2>1 DEF BuiltTxFits, CancelFits, OwnDepositTx, AssetAccounts, ownStake, stakeSide,
                      arenaOf, vaultFor
<1>4. CASE b = "exercise"
  <2>1. state = "WinnerOptionOpen" /\ w = player[winner]
    BY <1>4 DEF availableActions, offersExercise, Plays
  <2>2. winner \in Sides /\ w # player[Other(winner)]
    BY <2>1, DecidedPayable DEF Decisive
  <2>3. exerciseTx(w).loser = player[Other(winner)]
    BY <2>1, <2>2 DEF exerciseTx
  <2> QED
    BY <1>4, <2>2, <2>3 DEF BuiltTxFits, ExerciseFits, exerciseTx, AssetAccounts, ownStake,
                            stakeSide, arenaOf, stake_arena, vaultFor
<1>5. CASE b \in Buttons \ {"join", "cancel", "exercise"}
  <2>1. \E s \in Sides : w = player[s]
    BY <1>5 DEF availableActions, Buttons, offersRefundFailed, offersClaim, offersReclaim,
                canWithdraw, Plays
  <2> QED
    BY <1>1, <1>5, <2>1 DEF BuiltTxFits
<1> QED
  BY <1>2, <1>3, <1>4, <1>5 DEF availableActions

\* Whatever is offered and afforded is accepted.
LEMMA OfferedIsAccepted ==
    ASSUME AccountInv, state # "Absent", NEW w \in Players, NEW b \in availableActions(w),
           Affords(w, b), b = "join" => ~paused
    PROVE  Accepts(w, b)
<1> USE SidesFacts
<1>1. CASE b = "join"
  BY <1>1 DEF availableActions, Affords, Accepts, CanJoin, CanPayIn, Plays
<1>2. CASE b = "cancel"
  BY <1>2, OpenPayable DEF availableActions, Accepts, Plays
<1>3. CASE b = "refundFailed"
  BY <1>3, WithdrawPayable
     DEF availableActions, offersRefundFailed, Accepts, CanRefundFailed, Failed
<1>4. CASE b = "markOracleFailure"
  BY <1>4, WithdrawPayable DEF availableActions, Accepts, CanMarkOracleFailure
<1>5. CASE b = "refundTie"
  BY <1>5, WithdrawPayable DEF availableActions, Accepts, CanRefundTie
<1>6. CASE b = "claim"
  BY <1>6, DecidedPayable DEF availableActions, offersClaim, Plays, Accepts, CanClaim, Decisive
<1>7. CASE b = "exercise"
  BY <1>7, DecidedPayable DEF availableActions, offersExercise, Plays, Affords, Accepts,
                              CanExercise, stake_strike, Decisive
<1>8. CASE b = "reclaim"
  BY <1>8, DecidedPayable DEF availableActions, offersReclaim, Plays, Accepts, CanReclaim,
                              Decisive
<1> QED
  BY <1>1, <1>2, <1>3, <1>4, <1>5, <1>6, <1>7, <1>8 DEF availableActions, Buttons

\* No player is invited to sign a transaction that must fail (player-actions.ts,
\* transactions.ts against every handler's checks).
THEOREM NoFutileOffer == Spec => []OfferedActionsSucceed
<1>1. AccountInv => OfferedActionsSucceed
  BY ButtonTxFits, OfferedIsAccepted DEF OfferedActionsSucceed
<1> QED
  BY <1>1, Accounting, PTL

\* Every transaction by which a player could move tokens has its button
\* (player-actions.ts availableActions).
THEOREM NothingHidden == Spec => []AcceptedActionsAreOffered
<1>1. ASSUME AccountInv, NEW w, NEW s \in Sides, CanSettleRefund(w, s) PROVE canWithdraw(w)
  BY <1>1 DEF CanSettleRefund, CanPayDeposit, canWithdraw, Plays
<1>2. AccountInv => AcceptedActionsAreOffered
  <2> SUFFICES ASSUME AccountInv, NEW w \in Players, NEW b \in Buttons, Accepts(w, b)
               PROVE  b \in availableActions(w)
    BY DEF AcceptedActionsAreOffered
  <2> USE SidesFacts
  <2>1. CASE b = "join"
    BY <2>1 DEF availableActions, Accepts, CanJoin, Plays
  <2>2. CASE b = "cancel"
    BY <2>2 DEF availableActions, Accepts, CanCancel, Plays
  <2>3. CASE b = "refundFailed"
    BY <1>1, <2>3 DEF availableActions, offersRefundFailed, Accepts, CanRefundFailed, Failed
  <2>4. CASE b = "markOracleFailure"
    BY <1>1, <2>4 DEF availableActions, Accepts, CanMarkOracleFailure
  <2>5. CASE b = "refundTie"
    BY <1>1, <2>5 DEF availableActions, Accepts, CanRefundTie
  <2>6. CASE b = "claim"
    BY <2>6 DEF availableActions, offersClaim, Accepts, CanClaim, Plays
  <2>7. CASE b = "exercise"
    BY <2>7 DEF availableActions, offersExercise, Accepts, CanExercise, Plays
  <2>8. CASE b = "reclaim"
    <3>1. PICK s \in Sides : CanReclaim(w, s)
      BY <2>8 DEF Accepts
    <3>2. ~refunded[s]
      BY <3>1, DepositPayable DEF CanReclaim, CanPayDeposit, PaidOut
    <3> QED
      BY <2>8, <3>1, <3>2
         DEF availableActions, offersReclaim, CanReclaim, CanPayDeposit, canWithdraw, Plays
  <2> QED
    BY <2>1, <2>2, <2>3, <2>4, <2>5, <2>6, <2>7, <2>8 DEF Buttons
<1> QED
  BY <1>2, Accounting, PTL

\* What each sentence says of the account.
LEMMA StatusMeaning ==
    ASSUME EscrowInv
    PROVE  /\ matchStatus = "Waiting for opponent" => state = "Open" /\ now <= join_deadline_ts
           /\ matchStatus = "Join window closed" => state = "Open" /\ now > join_deadline_ts
           /\ matchStatus = "Starting" => state = "Ready" /\ now <= activation_deadline_ts
           /\ matchStatus = "Did not start" => state = "Ready" /\ now > activation_deadline_ts
           /\ matchStatus = "Settlement missed" => state = "Active" /\ now > settlement_deadline_ts
           /\ matchStatus = "Settling" => state = "Active" /\ now <= settlement_deadline_ts
           /\ matchStatus = "Live" => state = "Active" /\ now < target_end_ts
           /\ matchStatus = "option expired" => state = "WinnerOptionOpen" /\ now > option_expiry_ts
           /\ matchStatus = "won" => state = "WinnerOptionOpen" /\ now <= option_expiry_ts
           /\ matchStatus = "Tie" => state = "TieRefundable"
           /\ matchStatus = "Match failed" => state = "FailureRefundable"
<1>1. /\ now \in Nat /\ join_deadline_ts \in Nat /\ activation_deadline_ts \in Nat
      /\ settlement_deadline_ts \in Nat /\ target_end_ts \in Nat /\ option_expiry_ts \in Nat
      /\ state \in MatchStates
  BY DEF EscrowInv, AccountInv, TypeOK
<1>2. CASE state = "Open"
  BY <1>1, <1>2 DEF matchStatus
<1>3. CASE state = "Ready"
  BY <1>1, <1>3 DEF matchStatus
<1>4. CASE state = "Active"
  BY <1>1, <1>4 DEF matchStatus
<1>5. CASE state = "WinnerOptionOpen"
  BY <1>1, <1>5 DEF matchStatus
<1>6. CASE state \in MatchStates \ {"Open", "Ready", "Active", "WinnerOptionOpen"}
  BY <1>1, <1>6 DEF matchStatus, MatchStates
<1> QED
  BY <1>1, <1>2, <1>3, <1>4, <1>5, <1>6

\* While a match is live the rounds that are due are the first ones, and the last of
\* them is the one that is open.
LEMMA LiveRoundIsOpen ==
    ASSUME EscrowInv, state = "Active", now < target_end_ts
    PROVE  \A r \in Rounds : InWindow(r) <=> r + 1 = liveRound
<1>1. 0 \in Rounds /\ 1 \in Rounds /\ 2 \in Rounds /\ \A r \in Rounds : r \in {0, 1, 2}
  BY DEF Rounds
<1>2. /\ InWindow(0) <=> (round_due_ts[0] <= now /\ now < round_due_ts[1])
      /\ InWindow(1) <=> (round_due_ts[1] <= now /\ now < round_due_ts[2])
      /\ InWindow(2) <=> (round_due_ts[2] <= now /\ now < target_end_ts)
  BY DEF InWindow, round_window_end
<1> DEFINE due == {r \in Rounds : round_due_ts[r] > 0 /\ now >= round_due_ts[r]}
<1>3. ASSUME NEW q \in Rounds, due = 0..q PROVE liveRound = q + 1
  <2>1. q \in Int /\ q >= 0 /\ 0 \in Int
    BY DEF Rounds
  <2>2. Cardinality(0..q) = q + 1
    <3>1. Cardinality(0..q) = IF 0 > q THEN 0 ELSE q - 0 + 1
      BY <2>1, FS_Interval, Zenon
    <3> QED
      BY <2>1, <3>1
  <2>3. Cardinality(due) = q + 1
    BY <1>3, <2>2
  <2> QED
    BY <2>1, <2>3 DEF liveRound, currentRound
<1>4. CASE now < round_due_ts[1]
  <2>1. due = 0..0
    BY <1>1, <1>4, RoundSchedule
  <2> QED
    BY <1>1, <1>2, <1>3, <1>4, <2>1, RoundSchedule
<1>5. CASE round_due_ts[1] <= now /\ now < round_due_ts[2]
  <2>1. due = 0..1
    BY <1>1, <1>5, RoundSchedule
  <2> QED
    BY <1>1, <1>2, <1>3, <1>5, <2>1, RoundSchedule
<1>6. CASE round_due_ts[2] <= now
  <2>1. due = 0..2
    BY <1>1, <1>6, RoundSchedule
  <2> QED
    BY <1>1, <1>2, <1>3, <1>6, <2>1, RoundSchedule
<1> QED
  BY <1>4, <1>5, <1>6, RoundSchedule

\* The sentences of the match screen hold of the program: promised refunds are
\* accepted, the live round is the open one, the option costs the price shown, and the
\* countdown runs to a date that is listed (match-status.ts, match page).
THEOREM SentencesAreTrue == Spec => []StatusPromisesHold
<1> USE SidesFacts
<1>1. ASSUME EscrowInv, RefundPromised, NEW s \in Sides, deposit[s] > 0
      PROVE  \E b \in {"refundFailed", "markOracleFailure", "refundTie"} : Accepts(player[s], b)
  <2>1. CanSettleRefund(player[s], s)
    BY <1>1, DepositPayable DEF EscrowInv, CanSettleRefund, PaidOut
  <2>2. \/ state = "Ready" /\ now > activation_deadline_ts
        \/ state = "Active" /\ now > settlement_deadline_ts
        \/ state \in {"TieRefundable", "FailureRefundable"}
    BY <1>1, StatusMeaning DEF RefundPromised
  <2>3. CASE state = "Active" /\ now > settlement_deadline_ts
    <3>1. Accepts(player[s], "markOracleFailure")
      BY <2>1, <2>3 DEF Accepts, CanMarkOracleFailure
    <3> QED
      BY <3>1
  <2>4. CASE state = "TieRefundable"
    <3>1. Accepts(player[s], "refundTie")
      BY <2>1, <2>4 DEF Accepts, CanRefundTie
    <3> QED
      BY <3>1
  <2>5. CASE (state = "Ready" /\ now > activation_deadline_ts) \/ state = "FailureRefundable"
    <3>1. Accepts(player[s], "refundFailed")
      BY <2>1, <2>5 DEF Accepts, CanRefundFailed, Failed
    <3> QED
      BY <3>1
  <2> QED
    BY <2>2, <2>3, <2>4, <2>5
<1>2. ASSUME EscrowInv, matchStatus = "Join window closed"
      PROVE  /\ Accepts(player["creator"], "cancel")
             /\ \A w \in Players : ~Accepts(w, "join")
  <2>1. state = "Open" /\ now > join_deadline_ts
    BY <1>2, StatusMeaning
  <2>2. ~(now <= join_deadline_ts)
    <3>1. now \in Nat /\ join_deadline_ts \in Nat
      BY <1>2 DEF EscrowInv, AccountInv, TypeOK
    <3> QED
      BY <2>1, <3>1
  <2>3. CanCancel(player["creator"])
    BY <1>2, <2>1, OpenPayable DEF EscrowInv
  <2> QED
    BY <2>2, <2>3 DEF Accepts, CanJoin
<1>3. ASSUME EscrowInv, matchStatus = "won"
      PROVE  Accepts(player[winner], "exercise") <=>
               quote[player[winner]] >= parseAmount(strikeShown(Other(winner)), QUOTE_DECIMALS)
  <2>1. state = "WinnerOptionOpen" /\ now <= option_expiry_ts
    BY <1>3, StatusMeaning
  <2>2. winner \in Sides /\ CanPayDeposit(Other(winner))
    BY <1>3, <2>1, DecidedPayable DEF EscrowInv, Decisive
  <2>3. terms.strike[Other(winner)] \in Nat
    BY <1>3, <2>1, <2>2 DEF EscrowInv, AccountInv, TypeOK, AgreedTerms
  <2>4. parseAmount(strikeShown(Other(winner)), QUOTE_DECIMALS) = terms.strike[Other(winner)]
    BY <2>3, FormatParses, FormAssumption DEF strikeShown
  <2>5. Accepts(player[winner], "exercise")
          <=> quote[player[winner]] >= terms.strike[Other(winner)]
    BY <2>1, <2>2 DEF Accepts, CanExercise, stake_strike
  <2> QED
    BY <2>4, <2>5
<1>4. ASSUME EscrowInv, matchStatus = "option expired"
      PROVE  Accepts(player[Other(winner)], "reclaim")
  <2>1. state = "WinnerOptionOpen" /\ now > option_expiry_ts
    BY <1>4, StatusMeaning
  <2>2. winner \in Sides /\ CanPayDeposit(Other(winner))
    BY <1>4, <2>1, DecidedPayable DEF EscrowInv, Decisive
  <2> QED
    BY <2>1, <2>2 DEF Accepts, CanReclaim
<1>5. ASSUME EscrowInv, countdown[1] # "none"
      PROVE  countdown[2] >= now /\ countdown \in TechnicalDetails
  <2>1. /\ now \in Nat /\ join_deadline_ts \in Nat /\ activation_deadline_ts \in Nat
        /\ settlement_deadline_ts \in Nat /\ target_end_ts \in Nat /\ option_expiry_ts \in Nat
    BY <1>5 DEF EscrowInv, AccountInv, TypeOK
  <2>2. /\ state \in {"Open", "Ready"} => ~(start_ts > 0)
        /\ state \in {"Active", "WinnerOptionOpen"} => start_ts > 0
    BY <1>5 DEF EscrowInv, TimingInv, TimedFromStart
  <2>3. CASE matchStatus = "Waiting for opponent"
    BY <1>5, <2>1, <2>2, <2>3, StatusMeaning DEF countdown, TechnicalDetails
  <2>4. CASE matchStatus = "Starting"
    BY <1>5, <2>1, <2>2, <2>4, StatusMeaning DEF countdown, TechnicalDetails
  <2>5. CASE matchStatus = "Live"
    BY <1>5, <2>1, <2>2, <2>5, StatusMeaning DEF countdown, TechnicalDetails
  <2>6. CASE matchStatus = "Settling"
    BY <1>5, <2>1, <2>2, <2>6, StatusMeaning DEF countdown, TechnicalDetails
  <2>7. CASE matchStatus = "won"
    BY <1>5, <2>1, <2>2, <2>7, StatusMeaning DEF countdown, TechnicalDetails
  <2> QED
    BY <1>5, <2>3, <2>4, <2>5, <2>6, <2>7 DEF countdown
<1>6. EscrowInv => StatusPromisesHold
  BY <1>1, <1>2, <1>3, <1>4, <1>5, StatusMeaning, LiveRoundIsOpen DEF StatusPromisesHold
<1> QED
  BY <1>6, Invariance, PTL

\* A text that parses is a plain decimal no finer than the mint, and its amount a
\* number of base units (parseAmount).
LEMMA ParsedText ==
    ASSUME NEW t, IsText(t), NEW d \in Nat, parseAmount(t, d) # Null
    PROVE  PlainDecimal(t) /\ t.places <= d /\ parseAmount(t, d) \in Nat
<1>1. PlainDecimal(t) /\ t.places <= d
  BY DEF IsText, NotADecimal, PlainDecimal, parseAmount
<1> QED
  BY <1>1, ParseIsDigits

\* The stake, price and strike of a side whose texts parse, and what the review makes
\* of them: the same stake, and a strike short of price times stake by less than a unit.
LEMMA HonestReview ==
    ASSUME NEW f, DOMAIN f.stake = Sides, NEW s \in Sides, f.arena[s] \in Assets,
           IsText(f.stake[s]), IsText(f.price[s]), parses(f)
    PROVE  /\ ReviewIsHonest(f, s)
           /\ stakeOf(f, s) \in Nat /\ strikeOf(f, s) \in Nat \ {0}
<1> DEFINE d == Decimals[f.arena[s]]
           whole == pow10[d]
<1>1. d \in Nat /\ QUOTE_DECIMALS \in Nat
  BY FormAssumption
<1>2. stakeOf(f, s) # Null /\ priceOf(f, s) # Null /\ strikeOf(f, s) # 0
  BY DEF parses
<1> HIDE DEF d
<1>3. whole \in Nat \ {0}
  BY <1>1, PowerType
<1>4. /\ stakeOf(f, s) = parseAmount(f.stake[s], d)
      /\ priceOf(f, s) = parseAmount(f.price[s], QUOTE_DECIMALS)
  BY DEF stakeOf, priceOf, d
<1>5. /\ PlainDecimal(f.stake[s]) /\ f.stake[s].places <= d
      /\ stakeOf(f, s) \in Nat /\ priceOf(f, s) \in Nat
  BY <1>1, <1>2, <1>4, ParsedText
<1> DEFINE exact == stakeOf(f, s) * priceOf(f, s)
<1>6. exact \in Nat /\ exact \in Int
  BY <1>5
<1>7. strikeOf(f, s) = exact \div whole
  BY DEF strikeOf, strikeFor, d
<1> HIDE DEF exact, whole
<1>8. strikeOf(f, s) \in Nat \ {0}
  <2>1. exact \div whole \in Int /\ exact \div whole >= 0
    BY <1>3, <1>6, DivMod
  <2> QED
    BY <1>2, <1>7, <2>1
<1>9. strikeOf(f, s) * whole \in (exact - whole + 1)..exact
  BY <1>3, <1>6, <1>7, Floor
<1>10. /\ reviewed(f).stake[s] = formatAmount(stakeOf(f, s), d)
       /\ reviewed(f).strike[s] = formatAmount(strikeOf(f, s), QUOTE_DECIMALS)
  BY DEF reviewed, parseTerms, d
<1>11. SameNumber(reviewed(f).stake[s], f.stake[s])
  <2> DEFINE shown == formatAmount(stakeOf(f, s), d)
  <2>1. PlainDecimal(shown) /\ shown.places <= d /\ parseAmount(shown, d) = stakeOf(f, s)
    BY <1>1, <1>5, FormatParses
  <2> HIDE DEF shown
  <2>2. SameNumber(shown, f.stake[s])
    BY <1>1, <1>4, <1>5, <2>1, SameAmountSameNumber
  <2> QED
    BY <1>10, <2>2 DEF shown
<1>12. parseAmount(reviewed(f).strike[s], QUOTE_DECIMALS) = strikeOf(f, s)
  BY <1>1, <1>8, <1>10, FormatParses
<1>13. ReviewIsHonest(f, s)
  BY <1>9, <1>11, <1>12 DEF ReviewIsHonest, exact, whole, d
<1> QED
  BY <1>5, <1>8, <1>13

\* A stake that fits into a u64 reaches the program's minimum if and only if it reaches the
\* form's and the mint has two decimals.
LEMMA MinimumStake ==
    ASSUME NEW a \in Assets, NEW amount \in Nat, amount <= U64_MAX
    PROVE  amount >= MinStake[a] <=> amount >= minStake(Decimals[a]) /\ Decimals[a] >= 2
<1>1. MinStake[a] = min_stake_amount(Decimals[a]) /\ Decimals[a] \in Nat /\ U64_MAX \in Nat
  BY FormAssumption
<1>2. CASE Decimals[a] >= 2
  <2>1. pow10[Decimals[a] - 2] \in Nat
    BY <1>1, <1>2, PowerType
  <2>2. minStake(Decimals[a]) = 5 * pow10[Decimals[a] - 2]
    BY <1>1, <1>2 DEF minStake
  <2> QED
    BY <1>1, <1>2, <2>1, <2>2 DEF min_stake_amount
<1>3. CASE ~(Decimals[a] >= 2)
  BY <1>1, <1>3 DEF min_stake_amount
<1> QED
  BY <1>2, <1>3

\* Apart from what it does not look at, the form complains about the terms create_match
\* refuses and about no others; the accounts built for them are those it wants.
LEMMA FormCreates ==
    ASSUME state = "Absent", NEW f \in Forms, Readable(f), NEW w \in Players
    PROVE  CreateAccepts(w, parseTerms(f)) <=> parses(f) /\ Creatable(w, parseTerms(f))
<1> DEFINE t == parseTerms(f)
<1>1. /\ f.arena \in [Sides -> Assets] /\ DOMAIN f.stake = Sides
      /\ OneBenchmark(f.arena["creator"], f.arena["challenger"])
      /\ \A s \in Sides : IsText(f.stake[s]) /\ IsText(f.price[s])
  BY FormAssumption
<1>2. /\ t.arena = f.arena /\ DOMAIN t.stake = Sides
      /\ \A s \in Sides : t.stake[s] = stakeOf(f, s) /\ t.strike[s] = strikeOf(f, s)
  BY <1>1 DEF parseTerms
<1>3. \A s \in Sides : stakeOf(f, s) \in Nat /\ strikeOf(f, s) \in Nat
  <2> TAKE s \in Sides
  <2> DEFINE d == Decimals[f.arena[s]]
  <2>1. d \in Nat /\ QUOTE_DECIMALS \in Nat
    BY <1>1, FormAssumption
  <2>2. stakeOf(f, s) \in Nat /\ priceOf(f, s) \in Nat
    BY <1>1, <2>1, ParsedText DEF Readable, stakeOf, priceOf
  <2>3. pow10[d] \in Nat \ {0}
    BY <2>1, PowerType
  <2> DEFINE exact == stakeOf(f, s) * priceOf(f, s)
  <2>4. exact \in Nat /\ exact \in Int
    BY <2>2
  <2>5. strikeOf(f, s) = exact \div pow10[d]
    BY DEF strikeOf, strikeFor
  <2> HIDE DEF exact, d
  <2>6. exact \div pow10[d] \in Int /\ exact \div pow10[d] >= 0
    BY <2>3, <2>4, DivMod
  <2> QED
    BY <2>2, <2>5, <2>6
<1> HIDE DEF t
<1>4. /\ Benchmark[t.arena["challenger"]].feed = Benchmark[t.arena["creator"]].feed
      /\ Benchmark[t.arena["challenger"]].exponent = Benchmark[t.arena["creator"]].exponent
      /\ Benchmark[t.arena["challenger"]].quote = Benchmark[t.arena["creator"]].quote
  BY <1>1, <1>2 DEF OneBenchmark
<1>5. CreateFits(createMatchTx(w, t.arena))
  BY <1>4 DEF CreateFits, createMatchTx, AssetAccounts, stakeSide, vaultFor
<1>6. ASSUME encodes(t)
      PROVE  (\A s \in Sides : t.stake[s] >= MinStake[t.arena[s]] /\ t.strike[s] > 0)
               <=> parses(f) /\ \A s \in Sides : Decimals[t.arena[s]] >= 2
  <2>1. \A s \in Sides : t.stake[s] >= MinStake[t.arena[s]]
                            <=> t.stake[s] >= minStake(Decimals[t.arena[s]]) /\ Decimals[t.arena[s]] >= 2
    <3> TAKE s \in Sides
    <3>1. t.stake[s] \in Nat /\ t.stake[s] <= U64_MAX /\ t.arena[s] \in Assets
      BY <1>1, <1>2, <1>3, <1>6 DEF encodes
    <3> QED
      BY <3>1, MinimumStake
  <2>2. \A s \in Sides : t.strike[s] > 0 <=> t.strike[s] # 0
    BY <1>2, <1>3
  <2>3. parses(f) <=> \A s \in Sides : /\ t.stake[s] >= minStake(Decimals[t.arena[s]])
                                        /\ t.strike[s] # 0
    BY <1>1, <1>2 DEF parses, Readable
  <2> QED
    BY <2>1, <2>2, <2>3
<1>7. CanCreate(w, t) <=>
        /\ ~paused
        /\ \A s \in Sides : t.stake[s] >= MinStake[t.arena[s]] /\ t.strike[s] > 0
        /\ config.min_duration_seconds <= Profile[t.profile_kind].duration_seconds
        /\ Profile[t.profile_kind].duration_seconds <= config.max_duration_seconds
        /\ wallet[w][t.arena["creator"]] >= t.stake["creator"]
  BY <1>4 DEF CanCreate, CanPayIn
<1>8. CreateAccepts(w, t) <=> parses(f) /\ Creatable(w, t)
  <2>1. CASE encodes(t)
    BY <1>5, <1>6, <1>7, <2>1 DEF CreateAccepts, Creatable
  <2>2. CASE ~encodes(t)
    BY <2>2 DEF CreateAccepts, Creatable
  <2> QED
    BY <2>1, <2>2
<1> QED
  BY <1>8 DEF t

\* What a price service names is a text.
LEMMA UpstreamIsText ==
    ASSUME NEW up \in Upstreams(UpstreamPrices), NEW a
    PROVE  IsText(upstreamPrice(a, up))
<1>1. PICK keys : up.prestocks \in UNION {[some -> UpstreamPrices] : some \in SUBSET keys}
  BY DEF Upstreams
<1>2. PICK mints : up.jupiter \in UNION {[some -> UpstreamPrices] : some \in SUBSET mints}
  BY DEF Upstreams
<1>3. /\ \A k \in DOMAIN up.prestocks : up.prestocks[k] \in UpstreamPrices
      /\ \A k \in DOMAIN up.jupiter : up.jupiter[k] \in UpstreamPrices
  BY <1>1, <1>2
<1> QED
  BY <1>3, FormAssumption DEF upstreamPrice, IsText

\* The reference price is the token's own, rounded down, or blank.
LEMMA ReferenceIsOwn ==
    ASSUME NEW up \in Upstreams(UpstreamPrices), NEW f, NEW s,
           f.price[s] = referencePrice(f.arena[s], up)
    PROVE  PrefillIsOwn(f, s, up) /\ IsText(f.price[s])
<1> DEFINE raw == upstreamPrice(f.arena[s], up)
<1>1. IsText(raw) /\ QUOTE_DECIMALS \in Nat
  BY UpstreamIsText, FormAssumption
<1>2. f.price[s] = IF raw.plain THEN truncateDecimal(raw, QUOTE_DECIMALS) ELSE NotADecimal
  BY DEF referencePrice, Blank
<1>3. priceOf(f, s) = parseAmount(f.price[s], QUOTE_DECIMALS)
  BY DEF priceOf
<1>4. CASE PlainDecimal(raw)
  <2>1. f.price[s] = truncateDecimal(raw, QUOTE_DECIMALS)
    BY <1>2, <1>4 DEF PlainDecimal
  <2> DEFINE exact == Digits(raw) * pow10[QUOTE_DECIMALS]
  <2>2. /\ PlainDecimal(f.price[s]) /\ priceOf(f, s) \in Nat
        /\ priceOf(f, s) * pow10[raw.places] \in (exact - pow10[raw.places] + 1)..exact
    BY <1>1, <1>3, <1>4, <2>1, TruncateFloors
  <2>3. priceOf(f, s) # Null
    BY <2>2 DEF Null
  <2> QED
    BY <1>4, <2>2, <2>3 DEF PrefillIsOwn, Digits, PlainDecimal, IsText
<1>5. CASE raw = NotADecimal
  <2>1. ~raw.plain /\ f.price[s] = NotADecimal
    BY <1>2, <1>5 DEF NotADecimal
  <2>2. priceOf(f, s) = Null
    BY <1>3, <2>1 DEF parseAmount, NotADecimal
  <2> QED
    BY <2>1, <2>2 DEF PrefillIsOwn, IsText
<1> QED
  BY <1>1, <1>4, <1>5 DEF IsText

\* Every form the page fills in, as opened and after the opponent's token was chosen.
LEMMA PrefilledForm ==
    ASSUME NEW up \in Upstreams(UpstreamPrices), NEW own \in loadArenaOptions, NEW k \in Kinds,
           NEW f \in Prefilled(own, k, up), NEW s \in Sides
    PROVE  /\ DOMAIN f.stake = Sides /\ IsText(f.stake[s]) /\ f.arena[s] \in Assets
           /\ f.price[s] = referencePrice(f.arena[s], up)
<1>1. Sides = {"creator", "challenger"} /\ own \in Assets
  BY FormAssumption DEF Sides
<1>2. IsText(Decimal(1, 0, 0))
  BY DEF Decimal, IsText, PlainDecimal
<1>3. CASE f = initialForm(own, k, up)
  BY <1>1, <1>2, <1>3 DEF initialForm
<1>4. ASSUME NEW a \in loadArenaOptions, f = setOpponent(initialForm(own, k, up), a, up)
      PROVE  /\ DOMAIN f.stake = Sides /\ IsText(f.stake[s]) /\ f.arena[s] \in Assets
             /\ f.price[s] = referencePrice(f.arena[s], up)
  <2>1. a \in Assets
    BY FormAssumption
  <2> QED
    BY <1>1, <1>2, <1>4, <2>1 DEF initialForm, setOpponent
<1> QED
  BY <1>3, <1>4 DEF Prefilled

\* The form complains about what create_match refuses and about nothing else, but for what
\* it does not look at, a u64's width and mints of less than two decimals among it; what is
\* accepted is what was reviewed, and what the page fills in is each token's own price,
\* never rounded up (create-match-form.tsx, format.ts, state.rs:20-28).
THEOREM FormsAreHonest == Spec => []FormsAreAccepted
<1>1. ASSUME NEW f \in Forms, parses(f), NEW s \in Sides PROVE ReviewIsHonest(f, s)
  <2>1. DOMAIN f.stake = Sides /\ f.arena[s] \in Assets /\ IsText(f.stake[s]) /\ IsText(f.price[s])
    BY FormAssumption
  <2> QED
    BY <1>1, <2>1, HonestReview
<1>2. ASSUME NEW up \in Upstreams(UpstreamPrices), NEW own \in loadArenaOptions, NEW k \in Kinds,
             NEW f \in Prefilled(own, k, up), NEW s \in Sides
      PROVE  PrefillIsOwn(f, s, up) /\ (parses(f) => ReviewIsHonest(f, s))
  BY PrefilledForm, ReferenceIsOwn, HonestReview
<1>3. FormsAreAccepted
  BY <1>1, <1>2, FormCreates DEF FormsAreAccepted
<1> QED
  BY <1>3, PTL

=============================================================================
