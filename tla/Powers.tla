-------------------------------- MODULE Powers --------------------------------
(***************************************************************************)
(* Powers of ten: checked_pow in the program, 10n ** BigInt(n) in the web  *)
(* application.  A recursive function rather than the built-in operator,   *)
(* so that proofs can use how one power follows from the one before.       *)
(***************************************************************************)
EXTENDS Integers

pow10[n \in Nat] == IF n = 0 THEN 1 ELSE 10 * pow10[n - 1]

=============================================================================
