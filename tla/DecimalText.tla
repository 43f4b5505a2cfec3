------------------------------ MODULE DecimalText ------------------------------
(***************************************************************************)
(* The numbers the web application reads and shows: lib/format.ts.  A      *)
(* plain decimal is its whole part and a fraction written with some number *)
(* of places; every other text is one that is not plain.                   *)
(***************************************************************************)
EXTENDS Powers

Decimal(whole, fraction, places) ==
    [plain |-> TRUE, whole |-> whole, fraction |-> fraction, places |-> places]
NotADecimal == [plain |-> FALSE]

PlainDecimal(t) ==
    t.plain = TRUE /\ t.whole \in Nat /\ t.places \in Nat /\ t.fraction \in Nat
IsText(t) == t = NotADecimal \/ PlainDecimal(t)

Null == -1

\* A typed decimal in base units, null when malformed or finer than the mint.
parseAmount(text, decimals) ==
    IF ~text.plain \/ text.places > decimals THEN Null
    ELSE text.whole * pow10[decimals] + text.fraction * pow10[decimals - text.places]

\* Base units as a decimal without trailing zeros.
formatAmount(amount, decimals) ==
    LET enough == {p \in 0..decimals : amount % pow10[decimals - p] = 0}
        places == CHOOSE p \in enough : \A q \in enough : p <= q
    IN  Decimal(amount \div pow10[decimals],
                (amount % pow10[decimals]) \div pow10[decimals - places], places)

\* An upstream price cut, never rounded up, to what the quote mint can hold.
truncateDecimal(text, decimals) ==
    formatAmount(text.whole * pow10[decimals]
                   + (text.fraction * pow10[decimals]) \div pow10[text.places], decimals)

\* A Pyth mantissa with a negative exponent, without a float.
formatPrice(mantissa, exponent) ==
    Decimal(mantissa \div pow10[-exponent], mantissa % pow10[-exponent], -exponent)

\* Basis points as a percentage.
formatBps(bps) == formatAmount(bps, 2)

\* The strike of a stake at a price per whole token; floors.
strikeFor(stake, decimals, price) == (stake * price) \div pow10[decimals]

minStake(decimals) == IF decimals < 2 THEN 0 ELSE 5 * pow10[decimals - 2]

\* Two plain decimals name the same number.
SameNumber(d, e) ==
    (d.whole * pow10[d.places] + d.fraction) * pow10[e.places]
        = (e.whole * pow10[e.places] + e.fraction) * pow10[d.places]

=============================================================================
