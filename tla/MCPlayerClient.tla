---------------------------- MODULE MCPlayerClient ----------------------------
(***************************************************************************)
(* Instances of MatchPages and PlayerClient for TLC: one creator's tab and *)
(* one joiner's.                                                           *)
(***************************************************************************)
EXTENDS MatchPages, TLC

CONSTANTS createTab, joinTab, alice, bob, plain, messy, blank

OwnerOf == (createTab :> alice) @@ (joinTab :> bob)
NormalOf == [x \in Texts |-> IF x = messy THEN plain ELSE x]
Interchangeable == Permutations(Matches) \cup Permutations(Terms)

=============================================================================
