------------------------------ MODULE ScoreMatch ------------------------------
(***************************************************************************)
(* The arithmetic of settle_match, step by step: the final price is        *)
(* brought to the Arena's exponent or refused, then total_score's loop     *)
(* adds up the rounds of both players, then select_winner compares.        *)
(* Scoring states the same arithmetic as operators; the properties here    *)
(* relate it to the exact rational errors, which no integer of the program *)
(* holds.                                                                  *)
(***************************************************************************)
EXTENDS Scoring

CONSTANTS
    ArenaExponent,   \* Arena.benchmark_exponent
    Settlements      \* what settle_match may find: the final update's mantissa
                     \* and exponent, the start price, both players' records

\* read_observation has refused a price that is not positive.  The account's fields:
\* a nonzero start price and records into_record accepts, written for both players at once.
ASSUME ScoreAssumption ==
    /\ ArenaExponent \in Int
    /\ \A m \in Settlements :
         /\ m.mantissa \in I64 /\ m.mantissa > 0 /\ m.exponent \in Int
         /\ m.start \in I64 \ {0}
         /\ m.predictions \in [Sides -> [Rounds -> PredictionRecord]]
         /\ \A s \in Sides : scorable(m.predictions[s], m.start)
         /\ \A r \in Rounds : \A s, o \in Sides :
              m.predictions[s][r].outcome = "Unsubmitted"
                => m.predictions[o][r].outcome = "Unsubmitted"

VARIABLES
    mantissa, exponent,   \* the final update as posted
    start, predictions,   \* what the Match account holds
    stage,                \* "read", "score", "done" or "refused"
    actual,               \* final_observation.price
    round, total,         \* the loop of total_score, both players at once
    verdict

inputs == <<mantissa, exponent, start, predictions>>
vars == <<inputs, stage, actual, round, total, verdict>>

Init ==
    /\ \E m \in Settlements :
         /\ mantissa = m.mantissa /\ exponent = m.exponent
         /\ start = m.start /\ predictions = m.predictions
    /\ stage = "read"
    /\ actual = 0
    /\ round = 0 /\ total = [s \in Sides |-> 0]
    /\ verdict = "unset"

ReadPrice ==
    /\ stage = "read"
    /\ normalizes(mantissa, exponent, ArenaExponent)
    /\ actual' = normalized(mantissa, exponent, ArenaExponent)
    /\ stage' = "score"
    /\ UNCHANGED <<inputs, round, total, verdict>>

RefusePrice ==
    /\ stage = "read"
    /\ ~normalizes(mantissa, exponent, ArenaExponent)
    /\ stage' = "refused"
    /\ UNCHANGED <<inputs, actual, round, total, verdict>>

ScoreRound ==
    /\ stage = "score" /\ round \in Rounds
    /\ total' = [s \in Sides |-> total[s] + weighted_error_bps(
                    round_error_bps(predictions[s][round], actual, start),
                    ROUND_WEIGHTS_BPS[round])]
    /\ round' = round + 1
    /\ UNCHANGED <<inputs, stage, actual, verdict>>

Decide ==
    /\ stage = "score" /\ round \notin Rounds
    /\ verdict' = select_winner(total)
    /\ stage' = "done"
    /\ UNCHANGED <<inputs, actual, round, total>>

Next == ReadPrice \/ RefusePrice \/ ScoreRound \/ Decide

Spec == Init /\ [][Next]_vars

-----------------------------------------------------------------------------
\* Types of the loop's variables; the inputs never change.
TypeOK ==
    /\ stage \in {"read", "score", "done", "refused"}
    /\ actual \in I64
    /\ round \in 0..3
    /\ total \in [Sides -> Nat]
    /\ verdict \in {"unset", "tie"} \cup Sides

(***************************************************************************)
(* The exact error of a record times |start|, in bps; a failure counts as  *)
(* MAX_ROUND_ERROR_BPS.  exact(s) is the exact weighted score times        *)
(* |start|, taken over the whole match without any division.               *)
(***************************************************************************)
distance(p) ==
    IF p.outcome = "Valid" THEN Abs(p.predicted_price - actual) * BPS_DENOMINATOR
                           ELSE MAX_ROUND_ERROR_BPS * Abs(start)
exact(s) ==
    LET weighed(r) == (ROUND_WEIGHTS_BPS[r] \div 1000) * (distance(predictions[s][r]) \div 10)
    IN  weighed(0) + weighed(1) + weighed(2)

OtherSide(s) == IF s = "creator" THEN "challenger" ELSE "creator"

(***************************************************************************)
(* The truncations of round_error_bps and weighted_error_bps never hand    *)
(* the match to the worse player: whoever is at least as close in every    *)
(* round does not lose.                                                    *)
(***************************************************************************)
CloserInEveryRoundNeverLoses ==
    stage = "done" =>
      \A s \in Sides :
        (\A r \in Rounds : distance(predictions[s][r]) <= distance(predictions[OtherSide(s)][r]))
          => verdict # OtherSide(s)

(***************************************************************************)
(* How much truncation can cost: a lead of 4 bps of exact weighted error   *)
(* always wins (less than 1 bps is lost to round_error_bps, less than 1    *)
(* per round to weighted_error_bps).                                       *)
(***************************************************************************)
LeadOfFourBpsWins ==
    stage = "done" =>
      \A s \in Sides : exact(s) + 4 * Abs(start) <= exact(OtherSide(s)) => verdict = s

(***************************************************************************)
(* The price that is scored equals the posted one exactly, whatever the    *)
(* exponents, or is refused (normalize_to_exponent); and nothing that has  *)
(* an exact representation is refused.                                     *)
(***************************************************************************)
SameValue(n) ==
    IF exponent >= ArenaExponent THEN n = mantissa * pow10[exponent - ArenaExponent]
                                 ELSE mantissa = n * pow10[ArenaExponent - exponent]

PriceNeverAltered ==
    /\ stage \in {"score", "done"} => SameValue(actual)
    /\ stage = "refused" => \A n \in I64 : ~SameValue(n)

=============================================================================
