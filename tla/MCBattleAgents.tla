---------------------------- MODULE MCBattleAgents ----------------------------
(***************************************************************************)
(* Instances of BattleAgents for TLC: turns of one player in several       *)
(* matches, which is where agents are shared.                              *)
(***************************************************************************)
EXTENDS BattleAgents

CONSTANTS t1, t2, p1, a1, a2

OnePlayer == [t \in Turns |-> p1]

=============================================================================
