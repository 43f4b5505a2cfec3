----------------------------- MODULE MCWorkerTick -----------------------------
(***************************************************************************)
(* Instances of WorkerTick for TLC: each round is a second long.           *)
(***************************************************************************)
EXTENDS WorkerTick

EverySecond == [r \in Rounds |-> r]

=============================================================================
