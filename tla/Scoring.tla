-------------------------------- MODULE Scoring --------------------------------
(***************************************************************************)
(* The deterministic scoring of programs/stock_arena/src/scoring.rs: error *)
(* of each round in basis points of the start price, weighted and summed,  *)
(* lowest total wins.  All arithmetic is the source's truncating integer   *)
(* arithmetic; its only narrow integer is the i64 a price must fit in.     *)
(***************************************************************************)
EXTENDS Powers

CONSTANT I64Max   \* largest i64: 2^63 - 1 in the build, a small bound in a model

\* It has fewer than 20 digits: 10^19 exceeds it, which normalize_to_exponent relies on.
ASSUME WidthAssumption ==
    I64Max \in Nat \ {0} /\ (I64Max \div pow10[9]) \div pow10[9] < 10

I64 == (-I64Max - 1)..I64Max

Rounds == 0..2
Sides == {"creator", "challenger"}

BPS_DENOMINATOR == 10000
MAX_ROUND_ERROR_BPS == 100000
ROUND_WEIGHTS_BPS == [r \in Rounds |-> IF r = 0 THEN 2000 ELSE IF r = 1 THEN 3000 ELSE 5000]

Outcomes == {"Unsubmitted", "Valid", "Timeout", "ApiError", "Malformed"}
PredictionRecord == [outcome : Outcomes, predicted_price : I64]

\* PredictionRecord::default
NoPrediction == [outcome |-> "Unsubmitted", predicted_price |-> 0]

(***************************************************************************)
(* PredictionInput::into_record: what the orchestrator may submit.         *)
(***************************************************************************)
into_record_ok(input) ==
    /\ input.outcome # "Unsubmitted"
    /\ input.outcome = "Valid" => input.predicted_price > 0
    /\ input.outcome # "Valid" => input.predicted_price = 0

(***************************************************************************)
(* normalize_to_exponent: fewer decimals at the source multiply up, more   *)
(* decimals divide, and only an exact result that fits an i64 is accepted. *)
(***************************************************************************)
normalized(mantissa, from, to) ==
    IF from >= to THEN mantissa * pow10[from - to]
                  ELSE mantissa \div pow10[to - from]

\* Seeded bug: a price with too many decimals is truncated.
NormalizesLossy(mantissa, from, to) ==
    from - to \in -18..18 /\ normalized(mantissa, from, to) \in I64

normalizes(mantissa, from, to) ==
    /\ from - to \in -18..18
    /\ from < to => mantissa % pow10[to - from] = 0
    /\ normalized(mantissa, from, to) \in I64

Abs(n) == IF n < 0 THEN -n ELSE n

\* Seeded bug: a failed round costs nothing.
FailureSkipped(prediction, actual, start) ==
    IF prediction.outcome # "Valid"
    THEN 0
    ELSE (Abs(prediction.predicted_price - actual) * BPS_DENOMINATOR) \div Abs(start)

round_error_bps(prediction, actual, start) ==
    IF prediction.outcome # "Valid"
    THEN MAX_ROUND_ERROR_BPS
    ELSE (Abs(prediction.predicted_price - actual) * BPS_DENOMINATOR) \div Abs(start)

\* Seeded bug: divides before it multiplies.
WeighedTooLate(error, weight) == (error \div BPS_DENOMINATOR) * weight
weighted_error_bps(error, weight) == (error * weight) \div BPS_DENOMINATOR

\* The loop over the three rounds; p[r] is one player's record for round r.
total_score(p, actual, start) ==
    LET weighted(r) ==
            weighted_error_bps(round_error_bps(p[r], actual, start), ROUND_WEIGHTS_BPS[r])
    IN  weighted(0) + weighted(1) + weighted(2)

(***************************************************************************)
(* total_score returns Ok: a non-zero start price, and every record either *)
(* Valid with a positive price or a failure with price zero.               *)
(***************************************************************************)
scorable(p, start) ==
    /\ start # 0
    /\ \A r \in Rounds :
         IF p[r].outcome = "Valid" THEN p[r].predicted_price > 0
                                   ELSE p[r].predicted_price = 0

select_winner(score) ==
    IF score["creator"] = score["challenger"] THEN "tie"
    ELSE IF score["creator"] < score["challenger"] THEN "creator"
    ELSE "challenger"

=============================================================================
