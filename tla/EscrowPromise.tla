----------------------------- MODULE EscrowPromise -----------------------------
(***************************************************************************)
(* What the escrow promises, without clocks, prices, instructions or token *)
(* accounts: each side's stake is held once, and leaves exactly once,      *)
(* either back to the side that put it up or sold to the opponent who won. *)
(* A stake may be sold only after a decisive verdict against its owner,    *)
(* and a verdict is final.                                                 *)
(***************************************************************************)
CONSTANT Sides

VARIABLES
    stake,    \* [Sides -> {"none", "held", "returned", "sold"}]
    verdict   \* "pending", "void" (refund everyone), or the winning side

Deposit(s) ==
    /\ verdict = "pending"
    /\ stake[s] = "none"
    /\ \A q \in Sides : stake[q] \in {"none", "held"}
    /\ stake' = [stake EXCEPT ![s] = "held"]
    /\ UNCHANGED verdict

Decide(v) ==
    /\ verdict = "pending"
    /\ \A s \in Sides : stake[s] = "held"
    /\ verdict' = v
    /\ UNCHANGED stake

\* Void the match and take one's own stake out in the same step.
VoidAndReturn(s) ==
    /\ verdict = "pending"
    /\ \A q \in Sides : stake[q] = "held"
    /\ verdict' = "void"
    /\ stake' = [stake EXCEPT ![s] = "returned"]

\* Back out while no opponent has deposited.
Withdraw(s) ==
    /\ verdict = "pending"
    /\ stake[s] = "held"
    /\ \A q \in Sides \ {s} : stake[q] = "none"
    /\ stake' = [stake EXCEPT ![s] = "returned"]
    /\ UNCHANGED verdict

\* Void, won, or lost without the winner having bought it: the stake goes home.
Return(s) ==
    /\ verdict # "pending"
    /\ stake[s] = "held"
    /\ stake' = [stake EXCEPT ![s] = "returned"]
    /\ UNCHANGED verdict

Sell(s) ==
    /\ verdict \in Sides \ {s}
    /\ stake[s] = "held"
    /\ stake' = [stake EXCEPT ![s] = "sold"]
    /\ UNCHANGED verdict

Init ==
    /\ stake = [s \in Sides |-> "none"]
    /\ verdict = "pending"

Next ==
    \/ \E v \in Sides \cup {"void"} : Decide(v)
    \/ \E s \in Sides :
         Deposit(s) \/ VoidAndReturn(s) \/ Withdraw(s) \/ Return(s) \/ Sell(s)

Spec == Init /\ [][Next]_<<stake, verdict>>

=============================================================================
