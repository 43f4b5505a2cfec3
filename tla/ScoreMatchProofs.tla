--------------------------- MODULE ScoreMatchProofs ---------------------------
(***************************************************************************)
(* Theorems about ScoreMatch for every price, every start price and every  *)
(* pair of records, where TLC can only try a few.                          *)
(***************************************************************************)
EXTENDS ScoreViews, DecimalProofs

-----------------------------------------------------------------------------
(***************************************************************************)
(* The truncating division of Scoring                                      *)
(***************************************************************************)
LEMMA Quotient ==
    ASSUME NEW a \in Nat, NEW d \in Nat \ {0}
    PROVE  /\ a \div d \in Nat
           /\ (a \div d) * d <= a /\ a < (a \div d) * d + d
OBVIOUS

LEMMA AbsNat == ASSUME NEW n \in Int PROVE Abs(n) \in Nat /\ (n # 0 => Abs(n) > 0)
BY DEF Abs

\* The largest common factor on both sides of an inequality goes.
LEMMA Cancel ==
    ASSUME NEW a \in Int, NEW b \in Int, NEW d \in Nat \ {0}, a * d < b * d
    PROVE  a < b
<1> SUFFICES ASSUME b <= a PROVE b * d <= a * d
  OBVIOUS
<1>1. a - b \in Nat /\ (a - b) * d \in Nat
  OBVIOUS
<1>2. (a - b) * d = a * d - b * d
  OBVIOUS
<1> QED
  BY <1>1, <1>2

\* The error of a round, in whole basis points, is its exact one rounded down.
LEMMA RoundError ==
    ASSUME start \in Int \ {0}, actual \in Int, NEW p \in PredictionRecord
    PROVE  /\ round_error_bps(p, actual, start) \in Nat /\ distance(p) \in Nat
           /\ round_error_bps(p, actual, start) * Abs(start) <= distance(p)
           /\ distance(p) < round_error_bps(p, actual, start) * Abs(start) + Abs(start)
<1>1. Abs(start) \in Nat \ {0}
  BY AbsNat
<1>2. CASE p.outcome = "Valid"
  <2>1. p.predicted_price \in Int
    BY DEF PredictionRecord, I64
  <2>2. Abs(p.predicted_price - actual) * BPS_DENOMINATOR \in Nat
    BY <2>1, AbsNat DEF BPS_DENOMINATOR
  <2> QED
    BY <1>1, <1>2, <2>2, Quotient DEF round_error_bps, distance
<1>3. CASE p.outcome # "Valid"
  BY <1>1, <1>3 DEF round_error_bps, distance, MAX_ROUND_ERROR_BPS
<1> QED
  BY <1>2, <1>3

\* So is its weight in the total.
LEMMA WeightedError ==
    ASSUME NEW e \in Nat, NEW w \in Nat, NEW t, t = weighted_error_bps(e, w)
    PROVE  t \in Nat /\ t * 10000 <= e * w /\ e * w < t * 10000 + 10000
<1>1. e * w \in Nat
  OBVIOUS
<1> QED
  BY <1>1, Quotient DEF weighted_error_bps, BPS_DENOMINATOR

LEMMA WeightedMonotone ==
    ASSUME NEW e \in Nat, NEW f \in Nat, e <= f, NEW w \in Nat
    PROVE  weighted_error_bps(e, w) <= weighted_error_bps(f, w)
<1>1. e * w <= f * w
  <2>1. f * w = e * w + (f - e) * w /\ f - e \in Nat
    OBVIOUS
  <2> QED
    BY <2>1
<1>2. ASSUME NEW t, t = weighted_error_bps(e, w), NEW u, u = weighted_error_bps(f, w)
      PROVE  t <= u
  <2>1. t \in Nat /\ t * 10000 <= e * w
    BY <1>2, WeightedError
  <2>2. u \in Nat /\ f * w < u * 10000 + 10000
    BY <1>2, WeightedError
  <2> QED
    BY <1>1, <2>1, <2>2
<1> QED
  BY <1>2

-----------------------------------------------------------------------------
(***************************************************************************)
(* The inductive invariant: the loop has added up the rounds before this   *)
(* one, of both players.                                                   *)
(***************************************************************************)
InputsOK ==
    /\ mantissa \in I64 /\ mantissa > 0 /\ exponent \in Int
    /\ start \in I64 \ {0}
    /\ predictions \in [Sides -> [Rounds -> PredictionRecord]]
    /\ \A r \in Rounds : \A s, o \in Sides :
         predictions[s][r].outcome = "Unsubmitted" => predictions[o][r].outcome = "Unsubmitted"

error(s, r) == round_error_bps(predictions[s][r], actual, start)
share(s, r) == weighted_error_bps(error(s, r), ROUND_WEIGHTS_BPS[r])
added(s, r) == IF r < round THEN share(s, r) ELSE 0

LoopInv ==
    /\ \A s \in Sides : total[s] = added(s, 0) + added(s, 1) + added(s, 2)
    /\ stage \in {"read", "refused"} => round = 0
    /\ stage = "done" => round = 3 /\ verdict = select_winner(total)

\* What the price that is scored has to do with the posted one.
PriceInv ==
    /\ stage = "refused" => ~normalizes(mantissa, exponent, ArenaExponent)
    /\ stage \in {"score", "done"} =>
         /\ normalizes(mantissa, exponent, ArenaExponent)
         /\ actual = normalized(mantissa, exponent, ArenaExponent)

IInv == InputsOK /\ TypeOK /\ LoopInv /\ PriceInv

LEMMA ShareNat ==
    ASSUME InputsOK, actual \in I64, NEW s \in Sides, NEW r \in Rounds
    PROVE  error(s, r) \in Nat /\ share(s, r) \in Nat /\ ROUND_WEIGHTS_BPS[r] \in Nat
<1>1. start \in Int \ {0} /\ actual \in Int /\ predictions[s][r] \in PredictionRecord
  BY DEF InputsOK, I64
<1>2. error(s, r) \in Nat /\ ROUND_WEIGHTS_BPS[r] \in Nat
  BY <1>1, RoundError DEF error, ROUND_WEIGHTS_BPS
<1>3. \A e \in Nat, w \in Nat : weighted_error_bps(e, w) \in Nat
  <2> SUFFICES ASSUME NEW e \in Nat, NEW w \in Nat, NEW t, t = weighted_error_bps(e, w)
               PROVE  t \in Nat
    OBVIOUS
  <2> QED
    BY WeightedError
<1> QED
  BY <1>2, <1>3 DEF share

LEMMA InitHolds == Init => IInv
<1> SUFFICES ASSUME Init PROVE IInv
  OBVIOUS
<1>1. InputsOK
  BY ScoreAssumption DEF Init, InputsOK
<1>2. TypeOK
  BY WidthAssumption DEF Init, TypeOK, I64
<1>3. LoopInv /\ PriceInv
  BY DEF Init, LoopInv, PriceInv, added
<1> QED
  BY <1>1, <1>2, <1>3 DEF IInv

LEMMA StepHolds == IInv /\ [Next]_vars => IInv'
<1> SUFFICES ASSUME IInv, [Next]_vars PROVE IInv'
  OBVIOUS
<1> USE DEF IInv
<1>1. InputsOK'
  BY DEF Next, ReadPrice, RefusePrice, ScoreRound, Decide, vars, inputs, InputsOK
<1>0. PriceInv'
  BY DEF Next, ReadPrice, RefusePrice, ScoreRound, Decide, vars, inputs, PriceInv
<1>2. CASE ReadPrice
  <2>1. TypeOK'
    BY <1>2 DEF ReadPrice, normalizes, TypeOK
  <2>2. LoopInv'
    BY <1>2 DEF ReadPrice, TypeOK, LoopInv, added
  <2> QED
    BY <1>0, <1>1, <2>1, <2>2
<1>3. CASE RefusePrice
  BY <1>0, <1>1, <1>3 DEF RefusePrice, inputs, TypeOK, LoopInv, added, share, error
<1>4. CASE ScoreRound
  <2>1. \A s \in Sides : share(s, round) \in Nat /\ total'[s] = total[s] + share(s, round)
    BY <1>4, ShareNat DEF ScoreRound, TypeOK, share, error
  <2>2. round' = round + 1 /\ round \in 0..2 /\ stage' = "score" /\ UNCHANGED <<actual, inputs, verdict>>
    BY <1>4 DEF ScoreRound, Rounds
  <2>3. \A s \in Sides, r \in Rounds :
           added(s, r)' = IF r = round THEN share(s, r) ELSE added(s, r)
    BY <2>2 DEF added, share, error, Rounds, inputs
  <2>4. \A s \in Sides : added(s, round) = 0
    BY <2>2 DEF added
  <2>5. TypeOK'
    BY <1>4, <2>1, <2>2 DEF ScoreRound, TypeOK
  <2>6. LoopInv'
    <3>1. ASSUME NEW s \in Sides PROVE total'[s] = added(s, 0)' + added(s, 1)' + added(s, 2)'
      <4>1. \A r \in Rounds : added(s, r) \in Nat
        BY ShareNat DEF TypeOK, added
      <4> QED
        BY <2>1, <2>2, <2>3, <2>4, <4>1 DEF LoopInv, Rounds
    <3> QED
      BY <2>2, <3>1 DEF LoopInv
  <2> QED
    BY <1>0, <1>1, <2>5, <2>6
<1>5. CASE Decide
  BY <1>0, <1>1, <1>5 DEF Decide, inputs, Rounds, TypeOK, LoopInv, added, share, error, select_winner, Sides
<1>6. CASE UNCHANGED vars
  BY <1>0, <1>1, <1>6 DEF vars, inputs, TypeOK, LoopInv, added, share, error
<1> QED
  BY <1>2, <1>3, <1>4, <1>5, <1>6 DEF Next

\* The invariant holds in every reachable state.
LEMMA Invariance == Spec => []IInv
BY InitHolds, StepHolds, PTL DEF Spec

(***************************************************************************)
(* The price that is scored fits the account's i64 and both totals are     *)
(* natural numbers, at every step of the loop (scoring.rs:60-86).          *)
(***************************************************************************)
THEOREM TypeCorrect == Spec => []TypeOK
BY Invariance, PTL DEF IInv

-----------------------------------------------------------------------------
(***************************************************************************)
(* The posted price                                                        *)
(***************************************************************************)

\* 10^19 and everything above it exceeds the largest i64.
LEMMA BeyondWidth == \A d \in Nat : d > 18 => pow10[d] > I64Max
<1> DEFINE P == pow10[9]
           q == I64Max \div P
<1>1. P \in Nat \ {0} /\ I64Max \in Nat /\ q \div P < 10
  BY PowerType, WidthAssumption
<1>2. pow10[19] = 10 * (P * P)
  <2>1. 9 \in Nat /\ 18 \in Nat /\ 9 + 9 = 18 /\ 18 + 1 = 19
    OBVIOUS
  <2>2. pow10[9 + 9] = P * P
    BY <2>1, PowerSum
  <2>3. pow10[18 + 1] = 10 * pow10[18]
    BY <2>1, PowersOfTen
  <2> QED
    BY <2>1, <2>2, <2>3
<1> HIDE DEF P
<1>3. q \in Nat /\ I64Max < P * q + P
  BY <1>1, DivMod
<1> HIDE DEF q
<1>4. q < P * 10
  <2>1. q = P * (q \div P) + (q % P) /\ q % P < P /\ q \div P \in Nat /\ q % P \in Nat
    BY <1>1, <1>3, DivMod
  <2>2. P * (q \div P) <= P * 9
    BY <1>1, <2>1
  <2> QED
    BY <1>1, <1>3, <2>1, <2>2
<1>5. P * q + P <= P * (P * 10)
  BY <1>1, <1>3, <1>4
<1>6. pow10[19] > I64Max
  BY <1>1, <1>2, <1>3, <1>5
<1>7. ASSUME NEW d \in Nat, d > 18 PROVE pow10[d] >= pow10[19]
  BY <1>7, PowerSplit
<1>8. ASSUME NEW d \in Nat, d > 18 PROVE pow10[d] > I64Max
  BY <1>1, <1>6, <1>7, <1>8, PowerType
<1> QED
  BY <1>8

(***************************************************************************)
(* The price that is scored is the posted one exactly, or it is refused,   *)
(* and then no price of an i64 is the posted one (scoring.rs:12-38).       *)
(***************************************************************************)
THEOREM PriceExact == Spec => []PriceNeverAltered
<1>1. IInv => PriceNeverAltered
  <2> SUFFICES ASSUME IInv PROVE PriceNeverAltered
    OBVIOUS
  <2>1. /\ mantissa \in I64 /\ mantissa \in Nat \ {0} /\ exponent \in Int /\ ArenaExponent \in Int
        /\ I64Max \in Nat /\ \A n \in I64 : n \in Int /\ n <= I64Max
    BY ScoreAssumption, WidthAssumption DEF IInv, InputsOK, I64
  <2>2. ASSUME stage \in {"score", "done"} PROVE SameValue(actual)
    <3>1. normalizes(mantissa, exponent, ArenaExponent)
          /\ actual = normalized(mantissa, exponent, ArenaExponent)
      BY <2>2 DEF IInv, PriceInv
    <3>2. CASE exponent >= ArenaExponent
      BY <3>1, <3>2 DEF normalized, SameValue
    <3>3. CASE exponent < ArenaExponent
      <4> DEFINE b == pow10[ArenaExponent - exponent]
      <4>1. b \in Nat \ {0}
        BY <2>1, <3>3, PowerType
      <4>2. mantissa % b = 0 /\ actual = mantissa \div b
        BY <2>1, <3>1, <3>3 DEF normalizes, normalized
      <4>3. SameValue(actual) <=> mantissa = actual * b
        BY <2>1, <3>3 DEF SameValue
      <4> HIDE DEF b
      <4> QED
        BY <2>1, <4>1, <4>2, <4>3, DivMod
    <3> QED
      BY <2>1, <3>2, <3>3
  <2>3. ASSUME stage = "refused", NEW n \in I64 PROVE ~SameValue(n)
    <3> SUFFICES ASSUME SameValue(n) PROVE normalizes(mantissa, exponent, ArenaExponent)
      BY <2>3 DEF IInv, PriceInv
    <3>1. CASE exponent >= ArenaExponent
      <4> DEFINE d == exponent - ArenaExponent
      <4>1. d \in Nat /\ n = mantissa * pow10[d] /\ pow10[d] \in Nat
        BY <2>1, <3>1, PowerType DEF SameValue
      <4>2. n >= pow10[d]
        BY <2>1, <4>1
      <4>3. d \in 0..18
        BY <2>1, <4>1, <4>2, BeyondWidth
      <4> QED
        BY <2>1, <3>1, <4>1, <4>3 DEF normalizes, normalized
    <3>2. CASE exponent < ArenaExponent
      <4> DEFINE d == ArenaExponent - exponent
                 b == pow10[d]
      <4>1. d \in Nat \ {0} /\ mantissa = n * b /\ b \in Nat \ {0} /\ n \in Int
        BY <2>1, <3>2, PowerType DEF SameValue
      <4>2. mantissa >= b
        <5> HIDE DEF b
        <5> QED
          BY <2>1, <4>1
      <4>3. d \in 1..18
        BY <2>1, <4>1, <4>2, BeyondWidth
      <4>4. mantissa \div b = n /\ mantissa % b = 0
        <5> HIDE DEF b
        <5> QED
          BY <4>1, ExactQuotient
      <4> QED
        BY <2>1, <3>2, <4>3, <4>4 DEF normalizes, normalized
    <3> QED
      BY <2>1, <3>1, <3>2
  <2> QED
    BY <2>2, <2>3 DEF PriceNeverAltered
<1> QED
  BY <1>1, Invariance, PTL

-----------------------------------------------------------------------------
(***************************************************************************)
(* What the verdict says of the exact errors                               *)
(***************************************************************************)

\* When the match is decided, the totals are the shares of all three rounds.
LEMMA Totals ==
    ASSUME IInv, stage = "done", NEW s \in Sides
    PROVE  /\ total[s] = share(s, 0) + share(s, 1) + share(s, 2)
           /\ \A r \in Rounds : share(s, r) \in Nat
           /\ verdict = select_winner(total)
BY ShareNat DEF IInv, LoopInv, TypeOK, added

LEMMA CloserScoresLess ==
    ASSUME IInv, NEW s \in Sides, NEW o \in Sides, NEW r \in Rounds,
           distance(predictions[s][r]) <= distance(predictions[o][r])
    PROVE  share(s, r) <= share(o, r)
<1>1. /\ start \in Int \ {0} /\ actual \in Int
      /\ predictions[s][r] \in PredictionRecord /\ predictions[o][r] \in PredictionRecord
  BY DEF IInv, TypeOK, InputsOK, I64
<1> DEFINE A == Abs(start)
<1>2. A \in Nat \ {0} /\ error(s, r) \in Nat /\ error(o, r) \in Nat /\ ROUND_WEIGHTS_BPS[r] \in Nat
  BY <1>1, AbsNat, ShareNat DEF IInv, TypeOK
<1>3. error(s, r) * A < error(o, r) * A + A
  BY <1>1, <1>2, RoundError DEF error
<1> HIDE DEF A
<1>4. error(s, r) * A < (error(o, r) + 1) * A
  BY <1>2, <1>3
<1>5. error(s, r) <= error(o, r)
  BY <1>2, <1>4, Cancel
<1> QED
  BY <1>2, <1>5, WeightedMonotone DEF share

(***************************************************************************)
(* The truncations never hand the match to the worse player: whoever is at *)
(* least as close in every round does not lose (scoring.rs:24-94).         *)
(***************************************************************************)
THEOREM CloserNeverLoses == Spec => []CloserInEveryRoundNeverLoses
<1>1. IInv => CloserInEveryRoundNeverLoses
  <2> SUFFICES ASSUME IInv, stage = "done", NEW s \in Sides,
                      \A r \in Rounds : distance(predictions[s][r]) <= distance(predictions[OtherSide(s)][r])
               PROVE  verdict # OtherSide(s)
    BY DEF CloserInEveryRoundNeverLoses
  <2>1. OtherSide(s) \in Sides /\ OtherSide(s) # s
    BY DEF OtherSide, Sides
  <2>2. share(s, 0) <= share(OtherSide(s), 0) /\ share(s, 1) <= share(OtherSide(s), 1)
        /\ share(s, 2) <= share(OtherSide(s), 2)
    BY <2>1, CloserScoresLess DEF Rounds
  <2>3. total[s] <= total[OtherSide(s)] /\ total[s] \in Nat /\ total[OtherSide(s)] \in Nat
    BY <2>1, <2>2, Totals DEF Rounds, IInv, TypeOK
  <2> QED
    BY <2>1, <2>3, Totals DEF select_winner, OtherSide, Sides
<1> QED
  BY <1>1, Invariance, PTL

\* A round's exact weighted error, and how far its share of the total is below it.
exactShare(s, r) == (ROUND_WEIGHTS_BPS[r] \div 1000) * (distance(predictions[s][r]) \div 10)

LEMMA ShareTruncates ==
    ASSUME IInv, NEW s \in Sides, NEW r \in Rounds
    PROVE  /\ exactShare(s, r) \in Nat
           /\ share(s, r) * Abs(start) <= exactShare(s, r)
           /\ 10000 * exactShare(s, r) < 10000 * (share(s, r) * Abs(start))
                                            + 10000 * Abs(start) + ROUND_WEIGHTS_BPS[r] * Abs(start)
<1> DEFINE A == Abs(start)
           D == distance(predictions[s][r])
           e == error(s, r)
           t == share(s, r)
           w == ROUND_WEIGHTS_BPS[r]
<1>1. /\ start \in Int \ {0} /\ actual \in Int
      /\ predictions[s][r] \in PredictionRecord
  BY DEF IInv, TypeOK, InputsOK, I64
<1>2. A \in Nat \ {0} /\ e \in Nat /\ t \in Nat /\ w \in {2000, 3000, 5000}
  BY <1>1, AbsNat, ShareNat DEF IInv, TypeOK, ROUND_WEIGHTS_BPS, Rounds
<1>3. D \in Nat /\ e * A <= D /\ D < e * A + A
  BY <1>1, RoundError DEF error
<1>4. t * 10000 <= e * w /\ e * w < t * 10000 + 10000
  <2>1. t = weighted_error_bps(e, w) /\ w \in Nat
    BY <1>2 DEF share
  <2> HIDE DEF e, t, w
  <2> QED
    BY <1>2, <2>1, WeightedError
<1>5. PICK n \in Nat : D = 10 * n
  <2>1. CASE predictions[s][r].outcome = "Valid"
    <3>1. Abs(predictions[s][r].predicted_price - actual) \in Nat
      BY <1>1, AbsNat DEF PredictionRecord, I64
    <3>2. D = 10 * (1000 * Abs(predictions[s][r].predicted_price - actual))
      BY <2>1, <3>1 DEF distance, BPS_DENOMINATOR
    <3> QED
      BY <3>1, <3>2
  <2>2. CASE predictions[s][r].outcome # "Valid"
    <3>1. D = 10 * (10000 * A)
      BY <1>2, <2>2 DEF distance, MAX_ROUND_ERROR_BPS
    <3> QED
      BY <1>2, <3>1
  <2> QED
    BY <2>1, <2>2
<1>6. D \div 10 = n
  BY <1>5
<1>7. exactShare(s, r) = (w \div 1000) * n
  BY <1>6 DEF exactShare
<1> HIDE DEF A, D, e, t, w
<1>8. exactShare(s, r) \in Nat /\ 10000 * exactShare(s, r) = w * D
  BY <1>2, <1>5, <1>7
<1>9. w * (e * A) <= w * D /\ w * D < w * (e * A) + w * A
  BY <1>2, <1>3
<1>10. w * (e * A) = (e * w) * A /\ (t * 10000) * A = 10000 * (t * A)
  BY <1>2
<1>11. (t * 10000) * A <= (e * w) * A /\ (e * w) * A <= (t * 10000) * A + 10000 * A
  <2>1. /\ (e * w - t * 10000) \in Nat /\ (t * 10000 + 10000 - e * w) \in Nat
    BY <1>2, <1>4
  <2>2. (e * w - t * 10000) * A \in Nat /\ (t * 10000 + 10000 - e * w) * A \in Nat
    BY <1>2, <2>1
  <2>3. /\ (e * w - t * 10000) * A = (e * w) * A - (t * 10000) * A
        /\ (t * 10000 + 10000 - e * w) * A = (t * 10000) * A + 10000 * A - (e * w) * A
    BY <1>2
  <2> QED
    BY <1>2, <2>2, <2>3
<1> QED
  BY <1>2, <1>8, <1>9, <1>10, <1>11 DEF A, t, w

(***************************************************************************)
(* How much truncation can cost: a lead of 4 bps of exact weighted error   *)
(* always wins (scoring.rs:24-94).                                         *)
(***************************************************************************)
THEOREM FourBpsWin == Spec => []LeadOfFourBpsWins
<1>1. IInv => LeadOfFourBpsWins
  <2> SUFFICES ASSUME IInv, stage = "done", NEW s \in Sides,
                      exact(s) + 4 * Abs(start) <= exact(OtherSide(s))
               PROVE  verdict = s
    BY DEF LeadOfFourBpsWins
  <2> DEFINE A == Abs(start)
  <2>1. OtherSide(s) \in Sides /\ OtherSide(s) # s /\ A \in Nat \ {0}
    BY AbsNat DEF OtherSide, Sides, IInv, InputsOK, I64
  <2>2. ASSUME NEW q \in Sides
        PROVE  /\ total[q] \in Nat /\ exact(q) \in Nat
               /\ total[q] * A <= exact(q) /\ exact(q) < total[q] * A + 4 * A
    <3>0. 0 \in Rounds /\ 1 \in Rounds /\ 2 \in Rounds
      BY DEF Rounds
    <3>1. /\ exact(q) = exactShare(q, 0) + exactShare(q, 1) + exactShare(q, 2)
          /\ total[q] = share(q, 0) + share(q, 1) + share(q, 2)
      BY <2>2, Totals DEF exact, exactShare
    <3>2. ROUND_WEIGHTS_BPS[0] = 2000 /\ ROUND_WEIGHTS_BPS[1] = 3000 /\ ROUND_WEIGHTS_BPS[2] = 5000
      BY DEF ROUND_WEIGHTS_BPS, Rounds
    <3>3. share(q, 0) \in Nat /\ share(q, 1) \in Nat /\ share(q, 2) \in Nat
      BY Totals DEF Rounds
    <3>4. /\ exactShare(q, 0) \in Nat /\ share(q, 0) * A <= exactShare(q, 0)
          /\ 10000 * exactShare(q, 0) < 10000 * (share(q, 0) * A) + 10000 * A + 2000 * A
      BY <2>1, <3>2, <3>0, ShareTruncates
    <3>5. /\ exactShare(q, 1) \in Nat /\ share(q, 1) * A <= exactShare(q, 1)
          /\ 10000 * exactShare(q, 1) < 10000 * (share(q, 1) * A) + 10000 * A + 3000 * A
      BY <2>1, <3>2, <3>0, ShareTruncates
    <3>6. /\ exactShare(q, 2) \in Nat /\ share(q, 2) * A <= exactShare(q, 2)
          /\ 10000 * exactShare(q, 2) < 10000 * (share(q, 2) * A) + 10000 * A + 5000 * A
      BY <2>1, <3>2, <3>0, ShareTruncates
    <3> HIDE DEF A
    <3>7. total[q] * A = share(q, 0) * A + share(q, 1) * A + share(q, 2) * A
      BY <2>1, <3>1, <3>3
    <3> QED
      BY <2>1, <3>1, <3>3, <3>4, <3>5, <3>6, <3>7
  <2>3. total[s] \in Nat /\ total[OtherSide(s)] \in Nat /\ total[s] * A < total[OtherSide(s)] * A
    <3>1. /\ total[s] \in Nat /\ exact(s) \in Nat /\ total[s] * A <= exact(s)
      BY <2>2
    <3>2. /\ total[OtherSide(s)] \in Nat /\ exact(OtherSide(s)) \in Nat
          /\ exact(OtherSide(s)) < total[OtherSide(s)] * A + 4 * A
      BY <2>1, <2>2
    <3>3. exact(s) + 4 * A <= exact(OtherSide(s))
      OBVIOUS
    <3> HIDE DEF A
    <3> QED
      BY <2>1, <3>1, <3>2, <3>3
  <2> HIDE DEF A
  <2>4. total[s] < total[OtherSide(s)]
    BY <2>1, <2>3, Cancel
  <2> QED
    BY <2>1, <2>3, <2>4, Totals DEF select_winner, OtherSide, Sides
<1> QED
  BY <1>1, Invariance, PTL

-----------------------------------------------------------------------------
(***************************************************************************)
(* What the match page makes of it                                         *)
(***************************************************************************)

\* The views recompute the program's errors and totals.
LEMMA ViewsRecompute ==
    ASSUME IInv, stage = "done", NEW s \in Sides
    PROVE  /\ \A r \in Rounds : errorBpsOf(s, r) = error(s, r) /\ error(s, r) \in Nat
           /\ totalScore([r \in Rounds |-> errorBpsOf(s, r)]) = total[s]
           /\ mirrored(s) = total[s]
<1>1. \A r \in Rounds : error(s, r) \in Nat
  BY ShareNat DEF IInv, TypeOK
<1>2. \A r \in Rounds : errorBpsOf(s, r) = error(s, r)
  BY DEF errorBpsOf, settled, error, round_error_bps
<1>3. total[s] = totalScore([r \in Rounds |-> error(s, r)])
  BY Totals DEF totalScore, weightedErrorBps, weighted_error_bps, share, Rounds
<1>4. normalizeToExponent(mantissa, exponent, ArenaExponent) = actual
  <2>1. actual = normalized(mantissa, exponent, ArenaExponent)
        /\ exponent \in Int /\ ArenaExponent \in Int
    BY ScoreAssumption DEF IInv, PriceInv, InputsOK
  <2> QED
    BY <2>1 DEF normalized, normalizeToExponent
<1>5. [r \in Rounds |-> roundErrorBps(predictions[s][r],
            normalizeToExponent(mantissa, exponent, ArenaExponent), start)]
        = [r \in Rounds |-> error(s, r)]
  BY <1>4 DEF roundErrorBps, error, round_error_bps
<1> QED
  BY <1>1, <1>2, <1>3, <1>5 DEF mirrored

\* Fewer compares the amounts behind two percentages.
LEMMA FewerBps ==
    ASSUME NEW a \in Nat, NEW b \in Nat
    PROVE  /\ Fewer(formatBps(a), formatBps(b)) <=> a < b
           /\ formatBps(a) = formatBps(b) => a = b
           /\ formatBps(a) # NotADecimal
<1>1. ASSUME NEW n \in Nat
      PROVE  LET t == formatBps(n)
             IN  /\ t.plain = TRUE
                 /\ parseAmount(t, 2) = n
                 /\ t.whole * pow10[2] + t.fraction * pow10[2 - t.places] = n
  <2> DEFINE t == formatAmount(n, 2)
  <2>1. PlainDecimal(t) /\ t.places <= 2 /\ parseAmount(t, 2) = n
    BY FormatParses
  <2> HIDE DEF t
  <2>2. t.places \in Nat /\ ~(t.places > 2) /\ t.plain = TRUE
    BY <2>1 DEF PlainDecimal
  <2>3. t.whole * pow10[2] + t.fraction * pow10[2 - t.places] = n
    BY <2>1, <2>2 DEF parseAmount
  <2> QED
    BY <2>1, <2>2, <2>3 DEF t, formatBps
<1>2. Fewer(formatBps(a), formatBps(b)) <=> a < b
  BY <1>1 DEF Fewer
<1>3. formatBps(a) = formatBps(b) => a = b
  BY <1>1
<1>4. formatBps(a) # NotADecimal
  <2>1. NotADecimal.plain = FALSE
    BY DEF NotADecimal
  <2>2. formatBps(a).plain = TRUE
    BY <1>1
  <2> QED
    BY <2>1, <2>2
<1> QED
  BY <1>2, <1>3, <1>4

\* Whoever has at least the other's error in every row has at least the other's total.
LEMMA WorseRowsWorseTotal ==
    ASSUME IInv, stage = "done", NEW s \in Sides, NEW o \in Sides,
           \A r \in Rounds : error(s, r) <= error(o, r)
    PROVE  total[s] <= total[o]
<1>1. ASSUME NEW r \in Rounds PROVE share(s, r) <= share(o, r) /\ share(s, r) \in Nat /\ share(o, r) \in Nat
  <2>1. /\ error(s, r) \in Nat /\ error(o, r) \in Nat /\ ROUND_WEIGHTS_BPS[r] \in Nat
        /\ share(s, r) \in Nat /\ share(o, r) \in Nat
    BY ShareNat DEF IInv, TypeOK
  <2> QED
    BY <2>1, WeightedMonotone DEF share
<1> QED
  BY <1>1, Totals DEF Rounds

\* The rows of the scoreboard explain the verdict on one player.
LEMMA RowsExplainVerdict ==
    ASSUME IInv, stage = "done", NEW s \in Sides
    PROVE  RowsExplain(s)
<1> DEFINE o == OtherSide(s)
<1>0. o \in Sides /\ o # s /\ OtherSide(o) = s /\ Sides = {s, o} /\ settled
  BY DEF OtherSide, Sides, settled
<1>1. /\ total[s] \in Nat /\ total[o] \in Nat /\ verdict = select_winner(total)
      /\ \A r \in Rounds : /\ errorBpsOf(s, r) = error(s, r) /\ error(s, r) \in Nat
                           /\ errorBpsOf(o, r) = error(o, r) /\ error(o, r) \in Nat
  BY <1>0, ViewsRecompute, Totals DEF IInv, TypeOK
<1>2. /\ verdict = s <=> total[s] < total[o]
      /\ verdict = o <=> total[o] < total[s]
  BY <1>0, <1>1 DEF select_winner, OtherSide, Sides
<1>3. \A r \in Rounds : closer(r) = s <=> error(s, r) < error(o, r)
  <2> TAKE r \in Rounds
  <2>1. CASE s = "creator"
    BY <1>0, <1>1, <2>1 DEF closer, NoError, OtherSide
  <2>2. CASE s = "challenger"
    BY <1>0, <1>1, <2>2 DEF closer, NoError, OtherSide
  <2> QED
    BY <2>1, <2>2 DEF Sides
<1>4. verdict = s => \E r \in Rounds : closer(r) = s
  <2> SUFFICES ASSUME verdict = s, \A r \in Rounds : ~(error(s, r) < error(o, r)) PROVE FALSE
    BY <1>3
  <2>1. \A r \in Rounds : error(o, r) <= error(s, r)
    BY <1>1
  <2>2. total[o] <= total[s]
    BY <1>0, <2>1, WorseRowsWorseTotal
  <2> QED
    BY <1>1, <1>2, <2>2
<1>5. verdict = s => Fewer(Scoreboard.totals[s], Scoreboard.totals[o])
  <2>1. Scoreboard.totals[s] = formatBps(total[s]) /\ Scoreboard.totals[o] = formatBps(total[o])
    BY <1>0 DEF Scoreboard, shownTotal
  <2> QED
    BY <1>1, <1>2, <2>1, FewerBps
<1>6. (\A r \in Rounds : closer(r) = s) => verdict # o
  <2> SUFFICES ASSUME \A r \in Rounds : error(s, r) < error(o, r) PROVE ~(total[o] < total[s])
    BY <1>2, <1>3
  <2>1. \A r \in Rounds : error(s, r) <= error(o, r)
    BY <1>1
  <2>2. total[s] <= total[o]
    BY <1>0, <2>1, WorseRowsWorseTotal
  <2> QED
    BY <1>1, <2>2
<1>7. ASSUME NEW r \in Rounds, "error" \in DOMAIN cell(s, r)
      PROVE  cell(s, r).error = formatBps(0) <=> predictions[s][r].predicted_price = actual
  <2> DEFINE p == predictions[s][r]
  <2>1. p.outcome = "Valid"
    BY <1>7 DEF cell
  <2>2. cell(s, r).error = IF error(s, r) = 0 /\ p.predicted_price # actual
                           THEN UnderHundredth ELSE formatBps(error(s, r))
    BY <1>1, <2>1 DEF cell, NoError
  <2>3. /\ p \in PredictionRecord /\ p.predicted_price \in Int /\ actual \in Int /\ start \in Int \ {0}
    BY DEF IInv, InputsOK, TypeOK, PredictionRecord, I64
  <2>4. p.predicted_price = actual => error(s, r) = 0
    <3>1. ASSUME p.predicted_price = actual PROVE error(s, r) = 0
      <4>1. Abs(p.predicted_price - actual) * BPS_DENOMINATOR = 0
        BY <2>3, <3>1 DEF Abs, BPS_DENOMINATOR
      <4>2. Abs(start) \in Nat \ {0}
        BY <2>3, AbsNat
      <4>3. 0 \div Abs(start) = 0
        BY <4>2
      <4> QED
        BY <2>1, <4>1, <4>3 DEF error, round_error_bps
    <3> QED
      BY <3>1
  <2>5. /\ formatBps(error(s, r)) = formatBps(0) => error(s, r) = 0
        /\ formatBps(0) # NotADecimal
    BY <1>1, FewerBps
  <2> HIDE DEF p
  <2> QED
    BY <2>2, <2>4, <2>5 DEF UnderHundredth, p
<1> QED
  BY <1>4, <1>5, <1>6, <1>7, ViewsRecompute DEF RowsExplain

\* The log and the chart show the answers the rows charge by their distance.
LEMMA AnswersShown ==
    ASSUME IInv, stage = "done", NEW s \in Sides
    PROVE  AnswersAgree(s)
<1>1. \A r \in Rounds : errorBpsOf(s, r) = error(s, r) /\ error(s, r) \in Nat
  BY ViewsRecompute
<1>2. \A r \in Rounds : Scoreboard.rows[r].cells[s] = cell(s, r)
  BY DEF Scoreboard
<1>3. \A r \in Rounds : "error" \in DOMAIN cell(s, r) <=> predictions[s][r].outcome = "Valid"
  BY <1>1 DEF cell, NoError
<1>4. \A r \in Rounds : predictions[s][r].outcome = "Valid" => r \in accepted
  BY DEF IInv, InputsOK, accepted, Sides
<1>5. drawn(s) = {r \in Rounds : predictions[s][r].outcome = "Valid"}
  BY <1>4 DEF drawn, accepted
<1>6. drawn(s) = ChargedByDistance(s)
  BY <1>2, <1>3, <1>5 DEF ChargedByDistance
<1>7. \A r \in Rounds : predictionText(predictions[s][r]) # NotADecimal
                          <=> predictions[s][r].outcome = "Valid"
  BY DEF predictionText, formatPrice, Decimal, NotADecimal
<1>8. {r \in DOMAIN battleLog.rounds : battleLog.rounds[r][s] # NotADecimal} = drawn(s)
  <2>1. battleLog.rounds = [r \in accepted |-> [q \in Sides |-> predictionText(predictions[q][r])]]
    BY DEF battleLog
  <2>2. accepted \subseteq Rounds
    BY DEF accepted
  <2> HIDE DEF accepted
  <2> QED
    BY <1>4, <1>5, <1>7, <2>1, <2>2
<1>9. \A r \in Rounds \ drawn(s) : errorBpsOf(s, r) = MAX_ROUND_ERROR_BPS
  BY <1>5 DEF errorBpsOf, settled
<1> QED
  BY <1>6, <1>8, <1>9 DEF AnswersAgree

\* Scoreboard, panels and log name one result.
LEMMA ResultsShown == IInv => ResultsAgree
<1> SUFFICES ASSUME IInv PROVE ResultsAgree
  OBVIOUS
<1>0. settled => verdict \in {"creator", "challenger", "tie"}
  BY DEF IInv, LoopInv, settled, select_winner
<1>1. \A s \in Sides : AgentPanel(s).result =
         IF ~settled THEN "open" ELSE IF verdict = s THEN "Winner"
         ELSE IF verdict = "tie" THEN "Tie" ELSE "Lost"
  <2> TAKE s \in Sides
  <2>0. s # "tie"
    BY DEF Sides
  <2> DEFINE result == CASE ~settled -> "open"
                         [] settled /\ verdict = s -> "Winner"
                         [] settled /\ verdict = "tie" -> "Tie"
                         [] OTHER -> "Lost"
  <2>1. AgentPanel(s).result = result
    BY DEF AgentPanel
  <2>2. CASE ~settled
    BY <2>2, <2>1
  <2>3. CASE settled /\ verdict = s
    BY <2>0, <2>1, <2>3
  <2>4. CASE settled /\ verdict # s /\ verdict = "tie"
    BY <2>1, <2>4
  <2>5. CASE settled /\ verdict # s /\ verdict # "tie"
    BY <2>1, <2>5
  <2> QED
    BY <2>2, <2>3, <2>4, <2>5
<1>2. battleLog.winner = IF settled THEN verdict ELSE "none"
  BY DEF battleLog
<1>3. Scoreboard.marked = {s \in Sides : settled /\ verdict = s}
  BY DEF Scoreboard
<1> HIDE DEF settled
<1>4. \A s \in Sides : AgentPanel(s).result = "Winner" <=> Scoreboard.marked = {s}
  <2> TAKE s \in Sides
  <2>1. AgentPanel(s).result = "Winner" <=> settled /\ verdict = s
    BY <1>1
  <2>2. Scoreboard.marked = {s} <=> settled /\ verdict = s
    BY <1>3
  <2> QED
    BY <2>1, <2>2
<1>5. battleLog.winner = "tie" <=> \A s \in Sides : AgentPanel(s).result = "Tie"
  BY <1>0, <1>1, <1>2 DEF Sides
<1>6. battleLog.winner \in Sides => AgentPanel(OtherSide(battleLog.winner)).result = "Lost"
  BY <1>0, <1>1, <1>2 DEF Sides, OtherSide
<1> QED
  BY <1>4, <1>5, <1>6 DEF ResultsAgree

(***************************************************************************)
(* The page explains the verdict it shows, for every settled match: the    *)
(* rows weigh up to the recorded totals, the winner is closer in one of    *)
(* them, an error of zero is an exact hit, the TypeScript mirror agrees    *)
(* with the program, and scoreboard, panels, log and chart agree with each *)
(* other (scoring.ts, matches.ts:198-232, page.tsx, battle-arena.tsx).     *)
(***************************************************************************)
THEOREM TableExplains == Spec => []ShownTableExplainsVerdict
<1>1. IInv => ShownTableExplainsVerdict
  <2> SUFFICES ASSUME IInv PROVE ShownTableExplainsVerdict
    OBVIOUS
  <2>1. ResultsAgree
    BY ResultsShown
  <2>2. ASSUME settled PROVE MirrorAgrees /\ \A s \in Sides : RowsExplain(s) /\ AnswersAgree(s)
    <3>1. stage = "done"
      BY <2>2 DEF settled
    <3>2. rescales(mantissa, exponent, ArenaExponent)
      BY <3>1 DEF rescales, IInv, PriceInv, normalizes
    <3>3. \A s \in Sides : mirrored(s) = total[s]
      BY <3>1, ViewsRecompute
    <3>4. selectWinner(mirrored("creator"), mirrored("challenger")) = verdict
      BY <3>1, <3>3 DEF selectWinner, IInv, LoopInv, select_winner, Sides
    <3> QED
      BY <3>1, <3>2, <3>3, <3>4, RowsExplainVerdict, AnswersShown DEF MirrorAgrees
  <2>3. ASSUME ~settled, NEW s \in Sides
        PROVE  ChargedByDistance(s) = {} /\ AgentPanel(s).result = "open"
    <3>1. AgentPanel(s).result = "open"
      BY <2>3 DEF AgentPanel
    <3>2. \A r \in Rounds : errorBpsOf(s, r) = NoError
      BY <2>3 DEF errorBpsOf
    <3>3. \A r \in Rounds : "error" \notin DOMAIN cell(s, r)
      BY <3>2 DEF cell
    <3>4. \A r \in Rounds : Scoreboard.rows[r].cells[s] = cell(s, r)
      BY DEF Scoreboard
    <3> QED
      BY <3>1, <3>3, <3>4 DEF ChargedByDistance
  <2> QED
    BY <2>1, <2>2, <2>3 DEF ShownTableExplainsVerdict
<1> QED
  BY <1>1, Invariance, PTL

=============================================================================
