----------------------------- MODULE DecimalProofs -----------------------------
(***************************************************************************)
(* Lemmas about the numbers of Powers and DecimalText: induction on the    *)
(* natural numbers (for a set, so that no operator has to be instantiated, *)
(* from the least-number principle), the recursion of pow10, and that      *)
(* formatting and parsing amounts are inverse to each other.               *)
(***************************************************************************)
EXTENDS DecimalText, WellFoundedInduction, TLAPS

-----------------------------------------------------------------------------
\* The order of the natural numbers, as a set of pairs.
Below == {ss \in Nat \X Nat : ss[1] < ss[2]}

\* A nonempty set of natural numbers has a least element.
LEMMA LeastNumber ==
    ASSUME NEW T \in SUBSET Nat, T # {}
    PROVE  \E x \in T : \A y \in T : x <= y
<1>1. OpToRel(<, Nat) = Below
  BY DEF OpToRel, Below
<1>2. IsWellFoundedOn(Below, Nat)
  BY <1>1, NatLessThanWellFounded, Zenon
<1>3. PICK x \in T : \A y \in T : ~(<<y, x>> \in Below)
  BY <1>2, WFMin, Zenon
<1>4. ASSUME NEW y \in T
      PROVE  x <= y
  <2>1. x \in Nat /\ y \in Nat
    OBVIOUS
  <2>2. <<y, x>> \in Nat \X Nat /\ <<y, x>>[1] = y /\ <<y, x>>[2] = x
    BY <2>1
  <2>3. ~(y < x)
    BY <1>3, <2>2 DEF Below
  <2> QED
    BY <2>1, <2>3
<1> QED
  BY <1>4

\* Induction: a set with 0 and every successor of a member has every natural number.
LEMMA Induction ==
    ASSUME NEW S, 0 \in S, \A n \in Nat : n \in S => n + 1 \in S
    PROVE  \A n \in Nat : n \in S
<1> DEFINE T == {n \in Nat : n \notin S}
<1> SUFFICES ASSUME T # {} PROVE FALSE
  OBVIOUS
<1>1. T \in SUBSET Nat
  OBVIOUS
<1> HIDE DEF T
<1>2. PICK x \in T : \A y \in T : x <= y
  BY <1>1, LeastNumber
<1>3. x \in Nat /\ x \notin S /\ x # 0
  BY <1>2 DEF T
<1>4. x - 1 \in Nat /\ x - 1 \notin T
  BY <1>2, <1>3
<1>5. (x - 1) + 1 \in S
  BY <1>4 DEF T
<1> QED
  BY <1>3, <1>5

-----------------------------------------------------------------------------
\* The powers of ten up to n, as a table.
Tables(n) == {g \in [0..n -> Nat] : g[0] = 1 /\ \A i \in 1..n : g[i] = 10 * g[i - 1]}

\* There is such a table for every n.
LEMMA TableExists == \A n \in Nat : Tables(n) # {}
<1> DEFINE S == {n \in Nat : Tables(n) # {}}
<1>1. 0 \in S
  <2>1. [i \in 0..0 |-> 1] \in Tables(0)
    BY DEF Tables
  <2> QED
    BY <2>1
<1>2. ASSUME NEW n \in Nat, n \in S
      PROVE  n + 1 \in S
  <2>1. PICK g \in Tables(n) : TRUE
    BY <1>2
  <2> DEFINE h == [i \in 0..(n + 1) |-> IF i = n + 1 THEN 10 * g[n] ELSE g[i]]
  <2>2. g \in [0..n -> Nat] /\ g[0] = 1 /\ \A i \in 1..n : g[i] = 10 * g[i - 1]
    BY <2>1 DEF Tables
  <2>3. h \in [0..(n + 1) -> Nat] /\ h[0] = 1
    BY <2>2
  <2>4. ASSUME NEW i \in 1..(n + 1)
        PROVE  h[i] = 10 * h[i - 1]
    BY <2>2
  <2>5. h \in Tables(n + 1)
    BY <2>3, <2>4 DEF Tables
  <2> QED
    BY <2>5
<1> HIDE DEF S
<1>3. \A n \in Nat : n \in S
  BY <1>1, <1>2, Induction
<1> QED
  BY <1>3 DEF S

\* Two tables agree as far as both go.
LEMMA TablesAgree ==
    ASSUME NEW n \in Nat, NEW m \in Nat, NEW g \in Tables(n), NEW h \in Tables(m)
    PROVE  \A i \in Nat : i <= n /\ i <= m => g[i] = h[i]
<1> DEFINE S == {i \in Nat : i <= n /\ i <= m => g[i] = h[i]}
<1>1. 0 \in S
  BY DEF Tables
<1>2. ASSUME NEW i \in Nat, i \in S
      PROVE  i + 1 \in S
  <2>1. SUFFICES ASSUME i + 1 <= n, i + 1 <= m PROVE g[i + 1] = h[i + 1]
    OBVIOUS
  <2>2. i + 1 \in 1..n /\ i + 1 \in 1..m /\ (i + 1) - 1 = i
    BY <2>1
  <2>3. g[i + 1] = 10 * g[(i + 1) - 1] /\ h[i + 1] = 10 * h[(i + 1) - 1]
    BY <2>2 DEF Tables
  <2>4. g[i] = h[i]
    BY <1>2, <2>1
  <2> QED
    BY <2>2, <2>3, <2>4
<1> HIDE DEF S
<1>3. \A i \in Nat : i \in S
  BY <1>1, <1>2, Induction
<1> QED
  BY <1>3 DEF S

\* The recursion of pow10 defines a function.
THEOREM PowersOfTen ==
    /\ pow10[0] = 1
    /\ \A n \in Nat : pow10[n] \in Nat /\ pow10[n + 1] = 10 * pow10[n]
<1> DEFINE F == [n \in Nat |-> (CHOOSE g \in Tables(n) : TRUE)[n]]
<1>1. \A n \in Nat : \E g \in Tables(n) : F[n] = g[n]
  BY TableExists
<1>2. F \in [Nat -> Nat] /\ F[0] = 1
  <2>1. ASSUME NEW n \in Nat PROVE F[n] \in Nat
    <3>1. PICK g \in Tables(n) : F[n] = g[n]
      BY <1>1
    <3> HIDE DEF F
    <3> QED
      BY <3>1 DEF Tables
  <2>2. F[0] = 1
    <3>1. PICK g \in Tables(0) : F[0] = g[0]
      BY <1>1
    <3> HIDE DEF F
    <3> QED
      BY <3>1 DEF Tables
  <2> QED
    BY <2>1, <2>2
<1>3. ASSUME NEW n \in Nat \ {0}
      PROVE  F[n] = 10 * F[n - 1]
  <2>0. n - 1 \in Nat /\ n \in Nat
    OBVIOUS
  <2>1. PICK g \in Tables(n) : F[n] = g[n]
    BY <1>1
  <2>2. PICK h \in Tables(n - 1) : F[n - 1] = h[n - 1]
    BY <1>1, <2>0
  <2> HIDE DEF F
  <2>3. g[n - 1] = h[n - 1]
    BY <2>0, TablesAgree
  <2>4. g[n] = 10 * g[n - 1]
    BY DEF Tables
  <2> QED
    BY <2>1, <2>2, <2>3, <2>4
<1>4. F = [n \in Nat |-> IF n = 0 THEN 1 ELSE 10 * F[n - 1]]
  <2> HIDE DEF F
  <2> QED
    BY <1>2, <1>3
<1> HIDE DEF F
<1>5. pow10 = [n \in Nat |-> IF n = 0 THEN 1 ELSE 10 * pow10[n - 1]]
  BY <1>4 DEF pow10
<1>6. pow10[0] = 1
  BY <1>5
<1>7. \A n \in Nat : pow10[n + 1] = 10 * pow10[n]
  <2> TAKE n \in Nat
  <2>1. n + 1 \in Nat /\ n + 1 # 0 /\ (n + 1) - 1 = n
    OBVIOUS
  <2> QED
    BY <1>5, <2>1
<1>8. \A n \in Nat : pow10[n] \in Nat
  <2> DEFINE S == {n \in Nat : pow10[n] \in Nat}
  <2>1. 0 \in S /\ \A n \in Nat : n \in S => n + 1 \in S
    BY <1>6, <1>7
  <2> HIDE DEF S
  <2>2. \A n \in Nat : n \in S
    BY <2>1, Induction
  <2> QED
    BY <2>2 DEF S
<1> QED
  BY <1>6, <1>7, <1>8

\* A power of ten is a positive integer, and at least one.
LEMMA PowerType == \A n \in Nat : pow10[n] \in Nat /\ pow10[n] >= 1
<1> DEFINE S == {n \in Nat : pow10[n] >= 1}
<1>1. 0 \in S /\ \A n \in Nat : n \in S => n + 1 \in S
  BY PowersOfTen
<1> HIDE DEF S
<1>2. \A n \in Nat : n \in S
  BY <1>1, Induction
<1> QED
  BY <1>2, PowersOfTen DEF S

\* Powers of ten multiply by adding the exponents.
LEMMA PowerSum == \A m, n \in Nat : pow10[m + n] = pow10[m] * pow10[n]
<1> TAKE m \in Nat
<1> DEFINE S == {n \in Nat : pow10[m + n] = pow10[m] * pow10[n]}
<1>1. 0 \in S
  BY PowersOfTen
<1>2. ASSUME NEW n \in Nat, n \in S
      PROVE  n + 1 \in S
  <2>1. pow10[m + n] = pow10[m] * pow10[n]
    BY <1>2
  <2>2. m + n \in Nat /\ m + (n + 1) = (m + n) + 1
    OBVIOUS
  <2>3. pow10[m + (n + 1)] = 10 * pow10[m + n] /\ pow10[n + 1] = 10 * pow10[n]
    BY <2>2, PowersOfTen
  <2>4. pow10[m] \in Nat /\ pow10[n] \in Nat
    BY PowersOfTen
  <2>5. 10 * (pow10[m] * pow10[n]) = pow10[m] * (10 * pow10[n])
    BY <2>4
  <2> QED
    BY <2>1, <2>3, <2>5
<1> HIDE DEF S
<1>3. \A n \in Nat : n \in S
  BY <1>1, <1>2, Induction
<1> QED
  BY <1>3 DEF S

\* A larger power is a multiple of a smaller one.
LEMMA PowerSplit ==
    ASSUME NEW n \in Nat, NEW m \in 0..n
    PROVE  n - m \in Nat /\ pow10[n] = pow10[m] * pow10[n - m] /\ pow10[n] >= pow10[m]
<1>1. n - m \in Nat /\ m \in Nat /\ m + (n - m) = n
  OBVIOUS
<1>2. pow10[n] = pow10[m] * pow10[n - m]
  BY <1>1, PowerSum
<1>3. pow10[m] \in Nat /\ pow10[n - m] \in Nat /\ pow10[n - m] >= 1
  BY <1>1, PowerType
<1>4. pow10[m] * pow10[n - m] >= pow10[m]
  BY <1>3
<1> QED
  BY <1>1, <1>2, <1>4

\* What quotient and remainder by a positive number are.
LEMMA DivMod ==
    ASSUME NEW a \in Int, NEW b \in Nat \ {0}
    PROVE  /\ a \div b \in Int /\ a % b \in Nat /\ a % b < b
           /\ a = b * (a \div b) + (a % b)
           /\ a >= 0 => a \div b >= 0
OBVIOUS

\* They are determined by that.
LEMMA DivModUnique ==
    ASSUME NEW q \in Int, NEW b \in Nat \ {0}, NEW r \in Nat, r < b
    PROVE  (b * q + r) \div b = q /\ (b * q + r) % b = r
OBVIOUS

\* A multiple leaves no remainder.
LEMMA ExactQuotient ==
    ASSUME NEW q \in Int, NEW b \in Nat \ {0}
    PROVE  (q * b) \div b = q /\ (q * b) % b = 0
<1>1. b * q + 0 = q * b
  OBVIOUS
<1> QED
  BY <1>1, DivModUnique

\* A product of positive numbers is positive.
LEMMA PositiveProduct ==
    ASSUME NEW a \in Nat \ {0}, NEW b \in Nat \ {0}
    PROVE  a * b \in Nat \ {0}
<1>1. a * b = a * (b - 1) + a /\ b - 1 \in Nat /\ a \in Nat /\ a > 0
  OBVIOUS
<1>2. a * (b - 1) \in Nat
  BY <1>1
<1> QED
  BY <1>1, <1>2

\* A common positive factor of two equal products goes.
LEMMA CancelFactor ==
    ASSUME NEW x \in Int, NEW y \in Int, NEW c \in Nat \ {0}, x * c = y * c
    PROVE  x = y
OBVIOUS

-----------------------------------------------------------------------------
\* The digits of a decimal without its point.
Digits(t) == t.whole * pow10[t.places] + t.fraction

\* A parsed amount is the digits moved to the mint's decimals.
LEMMA ParseIsDigits ==
    ASSUME NEW t, PlainDecimal(t), NEW d \in Nat, t.places <= d
    PROVE  /\ parseAmount(t, d) = Digits(t) * pow10[d - t.places]
           /\ parseAmount(t, d) \in Nat
<1> DEFINE a == pow10[t.places]
           b == pow10[d - t.places]
<1>1. t.places \in 0..d /\ t.whole \in Nat /\ t.fraction \in Nat
  BY DEF PlainDecimal
<1>2. pow10[d] = a * b /\ d - t.places \in Nat
  BY <1>1, PowerSplit
<1>3. a \in Nat /\ b \in Nat
  BY <1>1, <1>2, PowerType
<1>4. parseAmount(t, d) = t.whole * pow10[d] + t.fraction * b
  BY DEF parseAmount, PlainDecimal
<1> HIDE DEF a, b
<1>5. t.whole * (a * b) + t.fraction * b = (t.whole * a + t.fraction) * b
  BY <1>1, <1>3
<1>6. (t.whole * a + t.fraction) * b \in Nat
  BY <1>1, <1>3
<1> QED
  BY <1>2, <1>4, <1>5, <1>6 DEF Digits, a, b

\* An amount is written with at most the mint's decimals, and reads back as itself.
THEOREM FormatParses ==
    ASSUME NEW amount \in Nat, NEW d \in Nat
    PROVE  LET t == formatAmount(amount, d)
           IN  /\ PlainDecimal(t) /\ t.places <= d
               /\ parseAmount(t, d) = amount
               /\ t.whole = amount \div pow10[d]
               /\ t.fraction < pow10[t.places]
<1> DEFINE enough == {p \in 0..d : amount % pow10[d - p] = 0}
           places == CHOOSE p \in enough : \A q \in enough : p <= q
           whole == amount \div pow10[d]
           rest == amount % pow10[d]
           unit == pow10[d - places]
           fraction == rest \div unit
<1>1. PICK least \in enough : \A q \in enough : least <= q
  <2>1. d \in enough
    <3>1. d - d = 0 /\ pow10[d - d] = 1
      BY PowersOfTen
    <3> QED
      BY <3>1
  <2>2. \A p \in enough : p \in Nat
    OBVIOUS
  <2> HIDE DEF enough
  <2>3. enough \in SUBSET Nat /\ enough # {}
    BY <2>1, <2>2
  <2> QED
    BY <2>3, LeastNumber
<1>2. places \in enough
  BY <1>1
<1>3. places \in 0..d /\ amount % unit = 0
  BY <1>2
<1> HIDE DEF places, enough
<1>4. /\ pow10[d] = pow10[places] * unit
      /\ pow10[d] \in Nat \ {0} /\ pow10[places] \in Nat \ {0} /\ unit \in Nat \ {0}
  BY <1>3, PowerSplit, PowerType
<1> HIDE DEF unit
<1>5. /\ whole \in Nat /\ rest \in Nat /\ rest < pow10[d]
      /\ amount = pow10[d] * whole + rest
  <2> DEFINE m == pow10[d]
  <2>1. m \in Nat \ {0} /\ amount \in Int /\ amount >= 0
    BY <1>4
  <2> HIDE DEF m
  <2>2. /\ amount \div m \in Int /\ amount \div m >= 0
        /\ amount % m \in Nat /\ amount % m < m
        /\ amount = m * (amount \div m) + (amount % m)
    BY <2>1, DivMod
  <2>3. amount \div m \in Nat
    BY <2>2
  <2> QED
    BY <2>2, <2>3 DEF m
<1>6. amount = unit * (amount \div unit) /\ amount \div unit \in Int
  BY <1>3, <1>4, DivMod
<1> HIDE DEF whole, rest
<1>7. rest = unit * ((amount \div unit) - pow10[places] * whole)
  <2>1. rest = unit * (amount \div unit) - (pow10[places] * unit) * whole
    BY <1>4, <1>5, <1>6
  <2>2. unit * (amount \div unit) - (pow10[places] * unit) * whole
          = unit * ((amount \div unit) - pow10[places] * whole)
    BY <1>4, <1>5, <1>6
  <2> QED
    BY <2>1, <2>2
<1>8. fraction = (amount \div unit) - pow10[places] * whole /\ fraction * unit = rest
  <2> DEFINE q == (amount \div unit) - pow10[places] * whole
  <2>1. q \in Int
    BY <1>4, <1>5, <1>6
  <2>2. rest = q * unit
    BY <1>4, <1>7, <2>1
  <2> HIDE DEF q
  <2>3. rest \div unit = q
    BY <1>4, <2>1, <2>2, ExactQuotient
  <2> QED
    BY <2>2, <2>3 DEF q
<1>9. fraction \in Nat
  BY <1>4, <1>5, DivMod
<1>10. fraction < pow10[places]
  <2>1. fraction * unit < pow10[places] * unit
    BY <1>4, <1>5, <1>8
  <2> HIDE DEF fraction
  <2> QED
    BY <1>4, <1>9, <2>1
<1>11. formatAmount(amount, d) = Decimal(whole, fraction, places)
  BY DEF formatAmount, whole, rest, unit, places, enough
<1> HIDE DEF fraction
<1>12. whole * pow10[d] + fraction * unit = amount
  BY <1>4, <1>5, <1>8
<1>13. places <= d
  BY <1>3
<1> DEFINE t == formatAmount(amount, d)
<1>14. t.plain = TRUE /\ t.whole = whole /\ t.fraction = fraction /\ t.places = places
  BY <1>11 DEF Decimal
<1> HIDE DEF t
<1>15. PlainDecimal(t)
  BY <1>3, <1>5, <1>9, <1>14 DEF PlainDecimal
<1>16. parseAmount(t, d) = amount
  BY <1>3, <1>12, <1>14 DEF parseAmount, unit
<1> QED
  BY <1>10, <1>13, <1>14, <1>15, <1>16 DEF t, whole

\* Two decimals that parse to one amount name the same number.
LEMMA SameAmountSameNumber ==
    ASSUME NEW s, NEW t, PlainDecimal(s), PlainDecimal(t), NEW d \in Nat,
           s.places <= d, t.places <= d, parseAmount(s, d) = parseAmount(t, d)
    PROVE  SameNumber(s, t)
<1> DEFINE ps == pow10[s.places]
           pt == pow10[t.places]
           qs == pow10[d - s.places]
           qt == pow10[d - t.places]
           m == pow10[d]
           ds == Digits(s)
           dt == Digits(t)
<1>1. s.places \in 0..d /\ t.places \in 0..d
  BY DEF PlainDecimal
<1>2. m = ps * qs /\ m = pt * qt /\ d - s.places \in Nat /\ d - t.places \in Nat
  BY <1>1, PowerSplit
<1>3. /\ ps \in Nat /\ pt \in Nat /\ qs \in Nat /\ qt \in Nat /\ m \in Nat \ {0}
  BY <1>1, <1>2, PowerType
<1>4. ds * qs = dt * qt
  BY ParseIsDigits
<1>5. ds \in Nat /\ dt \in Nat
  BY <1>3 DEF Digits, PlainDecimal
<1> HIDE DEF ps, pt, qs, qt, m, ds, dt
<1>6. (ds * pt) * m = (ds * qs) * (ps * pt)
  BY <1>2, <1>3, <1>5
<1>7. (dt * ps) * m = (dt * qt) * (ps * pt)
  BY <1>2, <1>3, <1>5
<1>8. (ds * pt) * m = (dt * ps) * m
  BY <1>4, <1>6, <1>7
<1>9. ds * pt \in Int /\ dt * ps \in Int
  BY <1>3, <1>5
<1>10. ds * pt = dt * ps
  BY <1>3, <1>8, <1>9, CancelFactor
<1> QED
  BY <1>10 DEF SameNumber, Digits, ds, dt, ps, pt

\* A quotient times its divisor is the dividend or less, by less than the divisor.
LEMMA Floor ==
    ASSUME NEW a \in Int, NEW b \in Nat \ {0}
    PROVE  (a \div b) * b \in (a - b + 1)..a
<1>1. /\ a \div b \in Int /\ a % b \in Nat /\ a % b < b
      /\ a = b * (a \div b) + (a % b)
  BY DivMod
<1> DEFINE q == a \div b
           r == a % b
<1>2. q \in Int /\ r \in Nat /\ r < b /\ a = b * q + r
  BY <1>1
<1> HIDE DEF q, r
<1>3. q * b = a - r /\ q * b \in Int
  BY <1>2
<1>4. q * b \in (a - b + 1)..a
  BY <1>2, <1>3
<1> QED
  BY <1>4 DEF q

\* A price cut to the quote mint's decimals reads back as the exact price rounded down.
THEOREM TruncateFloors ==
    ASSUME NEW t, PlainDecimal(t), NEW d \in Nat
    PROVE  LET price == parseAmount(truncateDecimal(t, d), d)
               exact == Digits(t) * pow10[d]
           IN  /\ PlainDecimal(truncateDecimal(t, d)) /\ truncateDecimal(t, d).places <= d
               /\ price \in Nat
               /\ price * pow10[t.places] \in (exact - pow10[t.places] + 1)..exact
<1> DEFINE b == pow10[t.places]
           m == pow10[d]
           q == (t.fraction * m) \div b
           price == t.whole * m + q
<1>1. /\ t.whole \in Nat /\ t.fraction \in Nat /\ t.places \in Nat
      /\ b \in Nat \ {0} /\ m \in Nat \ {0}
  BY PowerType DEF PlainDecimal
<1>2. /\ t.fraction * m \in Nat
  BY <1>1
<1> HIDE DEF b, m
<1>3. q \in Nat
  BY <1>1, <1>2, DivMod
<1>4. q * b \in (t.fraction * m - b + 1)..(t.fraction * m)
  <2> DEFINE n == t.fraction * m
  <2>1. n \in Int
    BY <1>2
  <2> HIDE DEF n
  <2>2. (n \div b) * b \in (n - b + 1)..n
    BY <1>1, <2>1, Floor
  <2> QED
    BY <2>2 DEF n
<1>5. truncateDecimal(t, d) = formatAmount(price, d)
  BY DEF truncateDecimal, b, m
<1> HIDE DEF q
<1>6. price \in Nat
  BY <1>1, <1>3
<1>7. /\ PlainDecimal(truncateDecimal(t, d)) /\ truncateDecimal(t, d).places <= d
      /\ parseAmount(truncateDecimal(t, d), d) = price
  <2> HIDE DEF price
  <2> QED
    BY <1>5, <1>6, FormatParses
<1>8. price * b = (t.whole * b) * m + q * b
  BY <1>1, <1>3
<1>9. Digits(t) * m = (t.whole * b) * m + t.fraction * m
  BY <1>1 DEF Digits, b
<1>10. q * b \in Int /\ (t.whole * b) * m \in Int
  BY <1>1, <1>3
<1> HIDE DEF price
<1>11. price * b \in (Digits(t) * m - b + 1)..(Digits(t) * m)
  BY <1>1, <1>2, <1>4, <1>8, <1>9, <1>10
<1> QED
  BY <1>6, <1>7, <1>11 DEF b, m

=============================================================================
