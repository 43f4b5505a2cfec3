------------------------------ MODULE ScoreViews ------------------------------
(***************************************************************************)
(* Three more places recompute or show what ScoreMatch decides: the mirror *)
(* of scoring.rs in TypeScript (packages/shared/src/scoring.ts), the error *)
(* breakdown of a match view (lib/matches.ts), and what the match page     *)
(* makes of it: scoreboard, panels, battle log and chart.  The page reads  *)
(* the account, settled or not; the mirror is given the same integers.     *)
(***************************************************************************)
EXTENDS ScoreMatch, DecimalText, FiniteSets

\* The mirror: no bound on the exponents' distance and no width.
rescales(mantissaIn, from, to) == from < to => mantissaIn % pow10[to - from] = 0

normalizeToExponent(mantissaIn, from, to) ==
    IF from < to THEN mantissaIn \div pow10[to - from] ELSE mantissaIn * pow10[from - to]

roundErrorBps(p, actualFinalPrice, startPrice) ==
    IF p.outcome = "Valid"
    THEN (Abs(p.predicted_price - actualFinalPrice) * BPS_DENOMINATOR) \div Abs(startPrice)
    ELSE MAX_ROUND_ERROR_BPS

weightedErrorBps(errorBps, weight) == (errorBps * weight) \div BPS_DENOMINATOR

totalScore(errors) ==
    weightedErrorBps(errors[0], ROUND_WEIGHTS_BPS[0])
      + weightedErrorBps(errors[1], ROUND_WEIGHTS_BPS[1])
      + weightedErrorBps(errors[2], ROUND_WEIGHTS_BPS[2])

selectWinner(creatorScore, challengerScore) ==
    IF creatorScore = challengerScore THEN "tie"
    ELSE IF creatorScore < challengerScore THEN "creator" ELSE "challenger"

mirrored(s) ==
    totalScore([r \in Rounds |->
        roundErrorBps(predictions[s][r], normalizeToExponent(mantissa, exponent, ArenaExponent),
                      start)])

-----------------------------------------------------------------------------
(***************************************************************************)
(* toMatchView.  An observation is unset until its publish time is, so the *)
(* view has scores and errors exactly when the match is settled.           *)
(***************************************************************************)
settled == stage = "done"

NoError == -1

\* Seeded bug: the error is taken relative to the final price.
ErrorOfFinal(s, r) ==
    IF ~settled THEN NoError
    ELSE IF predictions[s][r].outcome # "Valid" THEN MAX_ROUND_ERROR_BPS
    ELSE (Abs(predictions[s][r].predicted_price - actual) * BPS_DENOMINATOR) \div Abs(actual)

errorBpsOf(s, r) ==
    IF ~settled THEN NoError
    ELSE IF predictions[s][r].outcome # "Valid" THEN MAX_ROUND_ERROR_BPS
    ELSE (Abs(predictions[s][r].predicted_price - actual) * BPS_DENOMINATOR) \div Abs(start)

-----------------------------------------------------------------------------
(***************************************************************************)
(* Scoreboard.  A cell names what became of the prediction and, for a      *)
(* valid one, its error as a percentage; whole bps are floored, so zero    *)
(* is shown as "under 0.01%" unless the prediction was exact.              *)
(***************************************************************************)
OUTCOME_LABELS ==
    [o \in Outcomes \ {"Valid"} |-> IF o = "Unsubmitted" THEN "pending" ELSE "max penalty"]

UnderHundredth == NotADecimal   \* "<0.01%"

cell(s, r) ==
    LET p == predictions[s][r] IN
    IF p.outcome # "Valid" THEN [label |-> OUTCOME_LABELS[p.outcome]]
    ELSE IF errorBpsOf(s, r) = NoError THEN [price |-> formatPrice(p.predicted_price, ArenaExponent)]
    ELSE [price |-> formatPrice(p.predicted_price, ArenaExponent),
          error |-> IF errorBpsOf(s, r) = 0 /\ p.predicted_price # actual
                    THEN UnderHundredth ELSE formatBps(errorBpsOf(s, r))]

closer(r) ==
    LET a == errorBpsOf("creator", r)
        b == errorBpsOf("challenger", r)
    IN  IF a = NoError \/ b = NoError THEN "unknown"
        ELSE IF a = b THEN "Even" ELSE IF a < b THEN "creator" ELSE "challenger"

\* The footer of the scoreboard: both recorded totals in percent and the marked winner.
shownTotal(s) == formatBps(total[s])
Scoreboard ==
    [rows |-> [r \in Rounds |-> [weight |-> formatBps(ROUND_WEIGHTS_BPS[r]), closer |-> closer(r),
                                 cells |-> [s \in Sides |-> cell(s, r)]]],
     totals |-> IF settled THEN [s \in Sides |-> shownTotal(s)] ELSE <<>>,
     marked |-> {s \in Sides : settled /\ verdict = s}]

-----------------------------------------------------------------------------
(***************************************************************************)
(* BattleArena.  A round counts as accepted by the creator's outcome       *)
(* alone.  Each panel shows its player's latest answer and result, the log *)
(* one line per accepted round, and the chart every valid prediction.      *)
(***************************************************************************)
accepted == {r \in Rounds : predictions["creator"][r].outcome # "Unsubmitted"}
latestAccepted == CHOOSE r \in accepted : \A q \in accepted : q <= r

predictionText(p) ==
    IF p.outcome = "Valid" THEN formatPrice(p.predicted_price, ArenaExponent) ELSE NotADecimal

AgentPanel(s) ==
    [latest |-> IF accepted = {} THEN Null ELSE predictionText(predictions[s][latestAccepted]),
     submitted |-> Cardinality(accepted),
     result |-> CASE ~settled -> "open"
                  [] settled /\ verdict = s -> "Winner"
                  [] settled /\ verdict = "tie" -> "Tie"
                  [] OTHER -> "Lost"]

battleLog ==
    [rounds |-> [r \in accepted |-> [s \in Sides |-> predictionText(predictions[s][r])]],
     final |-> IF settled THEN formatPrice(actual, ArenaExponent) ELSE Null,
     winner |-> IF settled THEN verdict ELSE "none"]

\* BenchmarkChart: the predictions drawn, and named in its legend.
drawn(s) == {r \in accepted : predictions[s][r].outcome = "Valid"}

-----------------------------------------------------------------------------
(***************************************************************************)
(* The page explains the verdict it shows.  The errors of the rows weigh   *)
(* up to the recorded totals; the winner is the closer player in one of    *)
(* the rows and shows the lower total; who is closer in all of them has    *)
(* not lost; an error of zero is an exact hit; and the mirror agrees with  *)
(* the program wherever the program accepts the price.  Scoreboard, panels *)
(* and log name one winner, and none before there is one.  The answers the *)
(* log and the chart show are those the rows charge by their distance: all *)
(* others are charged the maximum (matches.ts:198-232, page.tsx:119-204,   *)
(* 366-385, battle-arena.tsx:29, 95-205, benchmark-chart.tsx, scoring.ts). *)
(***************************************************************************)
Fewer(d, e) == d.whole * pow10[2] + d.fraction * pow10[2 - d.places]
                 < e.whole * pow10[2] + e.fraction * pow10[2 - e.places]

MirrorAgrees ==
    /\ rescales(mantissa, exponent, ArenaExponent)
    /\ \A s \in Sides : mirrored(s) = total[s]
    /\ selectWinner(mirrored("creator"), mirrored("challenger")) = verdict

RowsExplain(s) ==
    /\ totalScore([r \in Rounds |-> errorBpsOf(s, r)]) = total[s]
    /\ verdict = s =>
         /\ \E r \in Rounds : closer(r) = s
         /\ Fewer(Scoreboard.totals[s], Scoreboard.totals[OtherSide(s)])
    /\ (\A r \in Rounds : closer(r) = s) => verdict # OtherSide(s)
    /\ \A r \in Rounds : "error" \in DOMAIN cell(s, r) =>
         (cell(s, r).error = formatBps(0) <=> predictions[s][r].predicted_price = actual)

ChargedByDistance(s) == {r \in Rounds : "error" \in DOMAIN Scoreboard.rows[r].cells[s]}

AnswersAgree(s) ==
    /\ drawn(s) = ChargedByDistance(s)
    /\ {r \in DOMAIN battleLog.rounds : battleLog.rounds[r][s] # NotADecimal} = drawn(s)
    /\ \A r \in Rounds \ drawn(s) : errorBpsOf(s, r) = MAX_ROUND_ERROR_BPS

ResultsAgree ==
    /\ \A s \in Sides : AgentPanel(s).result = "Winner" <=> Scoreboard.marked = {s}
    /\ battleLog.winner = "tie" <=> \A s \in Sides : AgentPanel(s).result = "Tie"
    /\ battleLog.winner \in Sides => AgentPanel(OtherSide(battleLog.winner)).result = "Lost"

ShownTableExplainsVerdict ==
    /\ ResultsAgree
    /\ IF settled THEN MirrorAgrees /\ \A s \in Sides : RowsExplain(s) /\ AnswersAgree(s)
       ELSE \A s \in Sides : ChargedByDistance(s) = {} /\ AgentPanel(s).result = "open"

=============================================================================
