------------------------------ MODULE MatchPages ------------------------------
(***************************************************************************)
(* What the pages of a match publish of it: the match page, the proof page *)
(* and the transcript route read the account first and the database after, *)
(* while strategies are stored and rewritten, matches start and rounds are *)
(* answered and posted.                                                    *)
(***************************************************************************)
EXTENDS PlayerClient

CONSTANTS Rounds, NoPage

VARIABLES
    posted,     \* [Matches -> SUBSET (Rounds \X Sides)]: predictions on the account
    turns,      \* [Matches -> SUBSET (Rounds \X Sides)]: agentTurn rows
    page        \* the account a page was last loaded from

vars == <<clientVars, posted, turns, page>>

Sides == {"creator", "challenger"}
PageType == [of : Matches, seen : AccountType, predictions : SUBSET (Rounds \X Sides)]

-----------------------------------------------------------------------------
\* The worker records a turn and posts a round: MatchEscrow and RoundJob have the details.
RecordTurn(m) ==
    /\ account[m].state = "Started"
    /\ \E turn \in (Rounds \X Sides) \ turns[m] : turns' = [turns EXCEPT ![m] = @ \cup {turn}]
    /\ UNCHANGED <<clientVars, posted, page>>

\* Seeded bug: each prediction is posted when it is there.
OwnPrediction(r, answered) == {turn \in answered : turn[1] = r}
written(r, answered) == {r} \X Sides

\* submit_round_predictions writes both predictions, once both turns are recorded.
PostRound(m) ==
    /\ account[m].state = "Started"
    /\ \E r \in Rounds :
        /\ written(r, turns[m]) # {} /\ written(r, turns[m]) \subseteq turns[m]
        /\ posted[m] \cap ({r} \X Sides) = {}
        /\ posted' = [posted EXCEPT ![m] = @ \cup written(r, turns[m])]
    /\ UNCHANGED <<clientVars, turns, page>>

-----------------------------------------------------------------------------
revealed(seen) == seen.state = "Started"

\* Seeded bug: every row of the match, whoever stored it and whether or not it was signed.
AllOfMatch(m, seen) == {c \in DOMAIN rows : rows[c].matchPda = m}
\* transcriptFilters.strategies
participants(m, seen) ==
    {c \in DOMAIN rows :
        /\ rows[c].matchPda = m
        /\ \E tx \in {seen.create, seen.join} \ {NoTx} :
              rows[c].playerWallet = tx.player /\ c = tx.commitment}

\* transcriptFilters.turns, and the match page's acceptedRounds.
completed(predictions) == {r \in Rounds : {r} \X Sides \subseteq predictions}
acceptedRounds(predictions) == {r \in Rounds : <<r, "creator">> \in predictions}

\* The proof page's "hash verified".
verified(c, m) ==
    LET row == rows[c]
    IN recomputed(row, m, row.playerWallet) = c

\* A page loads in two steps: the account, then, in whatever state the database is by then,
\* its rows.  The second step only looks.  Pages of matches nobody joined are left out.
LoadMatch(m) ==
    /\ account[m].join # NoTx
    /\ page' = [of |-> m, seen |-> account[m], predictions |-> posted[m]]
    /\ UNCHANGED <<clientVars, posted, turns>>

\* The answer of the transcript route, and the two sections of the proof page.
Transcript ==
    [strategies |-> IF revealed(page.seen)
                    THEN {[commitment |-> c, row |-> rows[c]] :
                             c \in participants(page.of, page.seen)}
                    ELSE {},
     turns |-> turns[page.of] \cap (completed(page.predictions) \X Sides)]

ShownStrategies ==
    IF page = NoPage THEN {}
    ELSE {[commitment |-> s.commitment, row |-> s.row,
           matches |-> verified(s.commitment, page.of)] : s \in Transcript.strategies}

ProofTurns == IF page = NoPage THEN {} ELSE Transcript.turns

\* What the match page shows of the accepted rounds: their turns with what the agents were shown.
MatchTurns ==
    IF page = NoPage \/ ~revealed(page.seen) THEN {}
    ELSE turns[page.of] \cap (acceptedRounds(page.predictions) \X Sides)

Init ==
    /\ ClientInit
    /\ posted = [m \in Matches |-> {}]
    /\ turns = [m \in Matches |-> {}]
    /\ page = NoPage

Next ==
    \/ ClientNext /\ UNCHANGED <<posted, turns, page>>
    \/ \E m \in Matches : RecordTurn(m) \/ PostRound(m) \/ LoadMatch(m)

Spec == Init /\ [][Next]_vars

-----------------------------------------------------------------------------
(***************************************************************************)
(* Properties                                                              *)
(***************************************************************************)

\* Types of the tabs, the rows, the accounts and the page.
TypeOK ==
    /\ ClientTypeOK
    /\ posted \in [Matches -> SUBSET (Rounds \X Sides)]
    /\ turns \in [Matches -> SUBSET (Rounds \X Sides)]
    /\ page = NoPage \/ page \in PageType

(***************************************************************************)
(* A strategy is published only if its player signed for it, in that match *)
(* and with that very commitment, and only once the match has started, so  *)
(* that an opponent can no longer answer it: never a draft of a click that *)
(* was given up (transcript.ts:3-12, strategy-field.tsx:54-55).            *)
(***************************************************************************)
OnlySignedStrategiesShown ==
    ShownStrategies # {} =>
        /\ account[page.of].state = "Started"
        /\ \A s \in ShownStrategies : \E tx \in Signed(page.of) : tx.commitment = s.commitment

(***************************************************************************)
(* No answer of a round is published before both predictions of the round  *)
(* are on chain, by the page that looks at the creator's outcome only as   *)
(* by the route that looks at both (transcript.ts:13-23, page.tsx:37-39).  *)
(***************************************************************************)
NoAnswerShownEarly ==
    \A turn \in ProofTurns \cup MatchTurns : {turn[1]} \X Sides \subseteq posted[page.of]

(***************************************************************************)
(* The text an agent is prompted with, and the text the proof page calls   *)
(* verified, is up to normalization the one the player typed when they     *)
(* signed, whatever was done to the row since (agents.ts:115-124,          *)
(* proof/page.tsx:51-70).                                                  *)
(***************************************************************************)
TextReadWasTyped ==
    /\ \A m \in Matches : \A tx \in Signed(m) :
        LET text == loadVerifiedStrategy(rows, tx.commitment, m, tx.player)
        IN text \notin {"missing", "mismatch"} => Normal[text] = Normal[tx.typed]
    /\ \A s \in ShownStrategies : \A tx \in Signed(page.of) :
        s.matches /\ s.commitment = tx.commitment => Normal[s.row.strategy] = Normal[tx.typed]

=============================================================================
