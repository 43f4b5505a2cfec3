------------------------------ MODULE PriceOracle ------------------------------
(***************************************************************************)
(* What the program accepts as a benchmark price: read_observation of      *)
(* programs/stock_arena/src/oracle.rs.  Freshness is the caller's          *)
(* business, as in the source: activation judges the age of an update,     *)
(* settlement its place in the settlement window.                          *)
(***************************************************************************)
EXTENDS Scoring

(***************************************************************************)
(* A posted Pyth update: verification level, feed, and the mantissa,       *)
(* confidence and exponent of its price message.  The publish time is kept *)
(* apart, because only the callers look at it.                             *)
(***************************************************************************)
IsPriceUpdate(u) ==
    /\ u.full \in BOOLEAN
    /\ u.price \in I64
    /\ u.conf \in Nat
    /\ u.exponent \in Int

(***************************************************************************)
(* read_observation returns Ok: full verification, the Arena's feed, a     *)
(* positive price, confidence within the limit by cross-multiplication     *)
(* (never by division), and both numbers exact at the Arena's exponent.    *)
(***************************************************************************)
readable(u, feed, exponent, max_confidence_bps) ==
    /\ u.full
    /\ u.feed = feed
    /\ u.price > 0
    /\ u.conf * BPS_DENOMINATOR <= u.price * max_confidence_bps
    /\ normalizes(u.price, u.exponent, exponent)
    /\ u.conf \in I64
    /\ normalizes(u.conf, u.exponent, exponent)

\* The price half of the PriceObservation recorded for a readable update.
observed_price(u, exponent) == normalized(u.price, u.exponent, exponent)

=============================================================================
