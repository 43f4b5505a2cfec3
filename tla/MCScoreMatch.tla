----------------------------- MODULE MCScoreMatch -----------------------------
(***************************************************************************)
(* Instances of ScoreMatch for TLC, at the program's exponent of -5: every *)
(* combination of records over a start price of 7, where one tick is worth *)
(* 1428.57 bps, and of 15000, where two predictions can differ by less     *)
(* than one bps; and prices posted at a finer or coarser exponent.         *)
(***************************************************************************)
EXTENDS ScoreViews

PythExponent == -5

Valid(n) == [outcome |-> "Valid", predicted_price |-> n]
Timeout == [outcome |-> "Timeout", predicted_price |-> 0]

\* Every way two players can fill three rounds from a set of records.
Scored(mantissas, starting, records) ==
    [mantissa : mantissas, exponent : {PythExponent}, start : {starting},
     predictions : [Sides -> [Rounds -> records]]]

CoarseTicks == Scored({1, 10, 100, 110}, 7, {Valid(9), Valid(12), Valid(14), Timeout})

\* Up to 1.4 start prices off the final ones, one tick apart.
FineTicks == Scored({45, 15001}, 15000, {Valid(40), Valid(41), Valid(15020), Timeout})

\* Two decimals more than the Arena's, one more, the same, one less.
OtherExponents ==
    [mantissa : {1, 7, 10, 100, 110, 1500, 12345}, exponent : -7 .. -4, start : {1500},
     predictions : {[s \in Sides |-> [r \in Rounds |->
                         IF s = "creator" THEN Valid(9) ELSE Timeout]]}]

\* The second round was due while the worker was down: nobody's answers are there.
SkippedRound ==
    LET skip(p) == [s \in Sides |-> [p[s] EXCEPT ![1] = NoPrediction]]
    IN  {[m EXCEPT !.predictions = skip(@)] : m \in Scored({10, 110}, 7, {Valid(9), Valid(12), Timeout})}

MCSettlements == CoarseTicks \cup FineTicks \cup OtherExponents \cup SkippedRound

=============================================================================
