----------------------------- MODULE MCLiveScreen -----------------------------
(***************************************************************************)
(* An instance of LiveScreen for TLC.                                      *)
(***************************************************************************)
EXTENDS LiveScreen, TLC

\* A registered mint under the newer program, an empty account, and a mint of no arena.
MCTokenAccounts ==
    [w \in Wallets |->
        {[owner |-> w, program |-> "token2022", mint |-> "SPACEX", amount |-> 3],
         [owner |-> w, program |-> "classic", mint |-> "OPENAI", amount |-> 0],
         [owner |-> w, program |-> "classic", mint |-> "OTHER", amount |-> 1]}]

Interchangeable ==
    Permutations(Polls) \cup Permutations(Requests) \cup Permutations(Wallets)
      \cup Permutations(Servers)

=============================================================================
