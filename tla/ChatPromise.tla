----------------------------- MODULE ChatPromise -----------------------------
(***************************************************************************)
(* What a round may take for granted about one paid chat: it is sent at    *)
(* most once, whether or not an answer ever comes, and a turn ends with    *)
(* exactly one outcome.  This is the view RoundJob has of a turn between   *)
(* its reservation and its record; BattleAgents shows how it is kept.      *)
(***************************************************************************)
EXTENDS Naturals

CONSTANT Turns

VARIABLES
    stage,      \* [Turns -> Stages]
    sent        \* [Turns -> Nat], how often the turn's prompt left for the provider

Stages == {"waiting", "ready", "asked", "Valid", "Timeout", "ApiError", "Malformed", "Interrupted"}

Init ==
    /\ stage = [t \in Turns |-> "waiting"]
    /\ sent = [t \in Turns |-> 0]

Begin(t) ==
    /\ stage[t] = "waiting"
    /\ stage' = [stage EXCEPT ![t] = "ready"]
    /\ UNCHANGED sent

Send(t) ==
    /\ stage[t] = "ready"
    /\ sent[t] = 0
    /\ stage' = [stage EXCEPT ![t] = "asked"]
    /\ sent' = [sent EXCEPT ![t] = 1]

\* No agent, or none that may be asked: the turn fails without a prompt.
Unasked(t) ==
    /\ stage[t] = "ready"
    /\ stage' = [stage EXCEPT ![t] = "ApiError"]
    /\ UNCHANGED sent

Answered(t) ==
    /\ stage[t] = "asked"
    /\ \E o \in {"Valid", "Timeout", "ApiError", "Malformed"} :
          stage' = [stage EXCEPT ![t] = o]
    /\ UNCHANGED sent

\* The process that runs the turn dies.
Interrupt(t) ==
    /\ stage[t] \in {"ready", "asked"}
    /\ stage' = [stage EXCEPT ![t] = "Interrupted"]
    /\ UNCHANGED sent

Next == \E t \in Turns : Begin(t) \/ Send(t) \/ Unasked(t) \/ Answered(t) \/ Interrupt(t)

Spec == Init /\ [][Next]_<<stage, sent>>

=============================================================================
