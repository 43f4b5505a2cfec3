------------------------------ MODULE MCRoundJob ------------------------------
(***************************************************************************)
(* Instances of RoundJob for TLC.  Lease owners are random, so attempts    *)
(* are interchangeable; and nothing in the worker's handling of a turn     *)
(* depends on which player it is.                                          *)
(***************************************************************************)
EXTENDS RoundJob, TLC

CONSTANTS a1, a2, a3, creator, challenger

Interchangeable ==
    Permutations({a1, a2, a3} \cap Attempts) \cup Permutations({creator, challenger})

=============================================================================
