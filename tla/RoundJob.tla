------------------------------- MODULE RoundJob -------------------------------
(***************************************************************************)
(* One round of one match in the orchestrator (apps/worker): the job row   *)
(* that leases it, the turn rows that reserve each agent's one chat, the   *)
(* chats themselves, and the submission of both answers.  Every call of    *)
(* withJobLease for the round is an attempt with an owner id of its own;   *)
(* attempts overlap when a lease runs out under a slow one, and within an  *)
(* attempt the two players' turns run concurrently under Promise.all: when *)
(* one throws, the attempt goes to its catch block at once and the other   *)
(* turn runs on, unobserved.  Clock skew between worker and chain is left  *)
(* out.                                                                    *)
(***************************************************************************)
EXTENDS JobLease

CONSTANTS
    Attempts,      \* calls of withJobLease with this round's key
    Sides,         \* the two players
    Stored,        \* what the database may hold as a strategy, of StoredStrategies
    RoundDue,      \* round_due_ts of the round
    WindowEnd,     \* its round_window_end
    MaxOutages,    \* bound: database calls that fail
    MaxTime        \* bound: the clock stops there

VARIABLES
    job,           \* the OrchestrationJob row
    turn,          \* the AgentTurn rows of the round, [Sides -> TurnRow]
    posted,        \* the round on chain: NoPost or [Sides -> Answers]
    chats,         \* [Sides -> Nat]: prompts the player's agent was sent
    strategy,      \* [Sides -> StoredStrategies]
    main,          \* [Attempts -> where withJobLease and submitRound are]
    branch,        \* [Attempts -> [Sides -> where the player's turn is]]
    answer,        \* [Attempts -> [Sides -> parsed]]
    expiry,        \* [Attempts -> the lease expiry it wrote]
    outages, now

vars == <<job, turn, posted, chats, strategy, main, branch, answer, expiry, outages, now>>
control == <<main, branch, answer>>

StoredStrategies == {"posted", "missing", "tampered"}

ASSUME RoundAssumption ==
    /\ NoAttempt \notin Attempts
    /\ Stored \subseteq StoredStrategies
    /\ RoundDue \in Nat /\ WindowEnd \in Nat
    /\ MaxOutages \in Nat /\ MaxTime \in Nat

Answers == {"Valid", "Timeout", "ApiError", "Malformed"}

\* "Interrupted" is the reserved row: outcome ApiError, errorCode TurnInterrupted.
TurnRow == {"none", "Interrupted"} \cup Answers
NoPost == [s \in Sides |-> "Unsubmitted"]
NoAnswer == [s \in Sides |-> "none"]
Inactive == [s \in Sides |-> "off"]

revive(row) == IF row = "Interrupted" THEN "ApiError" ELSE row

\* Move attempt a's main line, or its turn of player p.
Goto(a, place) == main' = [main EXCEPT ![a] = place]
TurnGoto(a, p, place) == branch' = [branch EXCEPT ![a][p] = place]

-----------------------------------------------------------------------------
(***************************************************************************)
(* The lease: withJobLease on the round's row.                             *)
(***************************************************************************)
claimable == Claimable(job, now)
holds(a) == HeldBy(job, a)
LeasedTo(a) == LeasedRow(a, now)
Completed(a, status) == CompletedRow(job, a, status)

\* driveMatch: dueRound finds this round open and not submitted.
Start(a) ==
    /\ main[a] = "idle"
    /\ posted = NoPost
    /\ RoundDue <= now /\ now < WindowEnd
    /\ Goto(a, "lease")
    /\ UNCHANGED <<job, turn, posted, chats, strategy, branch, answer, expiry, outages, now>>

Acquire(a) ==
    /\ main[a] = "lease"
    /\ claimable
    /\ job' = LeasedTo(a)
    /\ expiry' = [expiry EXCEPT ![a] = now + LEASE]
    /\ Goto(a, "work")
    /\ UNCHANGED <<turn, posted, chats, strategy, branch, answer, outages, now>>

Skip(a) ==
    /\ main[a] = "lease"
    /\ ~claimable
    /\ Goto(a, "ended")
    /\ UNCHANGED <<job, turn, posted, chats, strategy, branch, answer, expiry, outages, now>>

Finish(a) ==
    /\ main[a] = "finish"
    /\ job' = Completed(a, "Succeeded")
    /\ Goto(a, "ended")
    /\ UNCHANGED <<turn, posted, chats, strategy, branch, answer, expiry, outages, now>>

\* The catch block: requeue if the database was unavailable, else fail for good.
Catch(a) ==
    /\ main[a] \in {"requeue", "fail"}
    /\ job' = Completed(a, IF main[a] = "requeue" THEN "Pending" ELSE "Failed")
    /\ Goto(a, "ended")
    /\ UNCHANGED <<turn, posted, chats, strategy, branch, answer, expiry, outages, now>>

-----------------------------------------------------------------------------
(***************************************************************************)
(* The work: submitRound and runRoundTurns.                                *)
(***************************************************************************)

\* readBenchmark refuses or fails: an error that is not the database's.
BenchmarkFails(a) ==
    /\ main[a] = "work"
    /\ Goto(a, "fail")
    /\ UNCHANGED <<job, turn, posted, chats, strategy, branch, answer, expiry, outages, now>>

\* findMany: turns already recorded are reused, the others begin.
ReadTurns(a) ==
    /\ main[a] = "work"
    /\ Goto(a, "turns")
    /\ branch' = [branch EXCEPT ![a] =
                     [p \in Sides |-> IF turn[p] = "none" THEN "reserve" ELSE "done"]]
    /\ answer' = [answer EXCEPT ![a] = [p \in Sides |-> revive(turn[p])]]
    /\ UNCHANGED <<job, turn, posted, chats, strategy, expiry, outages, now>>

\* A turn throws: Promise.all rejects with the first error, and only with that.
Throw(a, p, error) ==
    /\ TurnGoto(a, p, "off")
    /\ main' = [main EXCEPT ![a] = IF @ = "turns" THEN error ELSE @]

\* loadVerifiedStrategy: the stored text is not the one committed to.
StrategyMismatch(a, p) ==
    /\ branch[a][p] = "reserve"
    /\ strategy[p] = "tampered"
    /\ Throw(a, p, "fail")
    /\ UNCHANGED <<job, turn, posted, chats, strategy, answer, expiry, outages, now>>

\* Seeded bug: an interrupted or failed turn may be reserved again.
ReserveAgain(p) == turn[p] # "Valid"
unreserved(p) == turn[p] = "none"

\* The reservation, a row before anything that costs: no strategy, no chat.
Reserve(a, p) ==
    /\ branch[a][p] = "reserve"
    /\ strategy[p] # "tampered"
    /\ unreserved(p)
    /\ turn' = [turn EXCEPT ![p] = "Interrupted"]
    /\ IF strategy[p] = "posted"
       THEN TurnGoto(a, p, "chat") /\ UNCHANGED answer
       ELSE TurnGoto(a, p, "save") /\ answer' = [answer EXCEPT ![a][p] = "Malformed"]
    /\ UNCHANGED <<job, posted, chats, strategy, main, expiry, outages, now>>

\* The unique constraint: another attempt was first, its row is read instead.
ReserveTaken(a, p) ==
    /\ branch[a][p] = "reserve"
    /\ strategy[p] # "tampered"
    /\ ~unreserved(p)
    /\ TurnGoto(a, p, "reread")
    /\ UNCHANGED <<job, turn, posted, chats, strategy, main, answer, expiry, outages, now>>

ReadExisting(a, p) ==
    /\ branch[a][p] = "reread"
    /\ answer' = [answer EXCEPT ![a][p] = revive(turn[p])]
    /\ TurnGoto(a, p, "done")
    /\ UNCHANGED <<job, turn, posted, chats, strategy, main, expiry, outages, now>>

\* requestPrediction sends the prompt; ensureAgent may find no agent to send it to.
SendChat(a, p) ==
    /\ branch[a][p] = "chat"
    /\ chats' = [chats EXCEPT ![p] = @ + 1]
    /\ TurnGoto(a, p, "asked")
    /\ UNCHANGED <<job, turn, posted, strategy, main, answer, expiry, outages, now>>

NoAgent(a, p) ==
    /\ branch[a][p] = "chat"
    /\ answer' = [answer EXCEPT ![a][p] = "ApiError"]
    /\ TurnGoto(a, p, "save")
    /\ UNCHANGED <<job, turn, posted, chats, strategy, main, expiry, outages, now>>

\* One reply, a timeout, an API error, or text parseAgentResponse refuses.
Reply(a, p) ==
    /\ branch[a][p] = "asked"
    /\ \E o \in Answers : answer' = [answer EXCEPT ![a][p] = o]
    /\ TurnGoto(a, p, "save")
    /\ UNCHANGED <<job, turn, posted, chats, strategy, main, expiry, outages, now>>

Save(a, p) ==
    /\ branch[a][p] = "save"
    /\ turn' = [turn EXCEPT ![p] = answer[a][p]]
    /\ TurnGoto(a, p, "done")
    /\ UNCHANGED <<job, posted, chats, strategy, main, answer, expiry, outages, now>>

\* Seeded bug: the submission does not wait for the turns to be saved.
KnownAnswers(a) == \A p \in Sides : branch[a][p] \in {"save", "done"}

\* Promise.all resolves.
AllDone(a) == \A p \in Sides : branch[a][p] = "done"

(***************************************************************************)
(* submit_round_predictions as the worker sees it: the program accepts the *)
(* round once and inside its window, and .rpc() may throw although the     *)
(* transaction landed, or because it did not.                              *)
(***************************************************************************)
Submit(a) ==
    /\ main[a] = "turns"
    /\ AllDone(a)
    /\ posted = NoPost
    /\ RoundDue <= now /\ now < WindowEnd
    /\ posted' = answer[a]
    /\ \E place \in {"finish", "fail"} : Goto(a, place)
    /\ UNCHANGED <<job, turn, chats, strategy, branch, answer, expiry, outages, now>>

SubmitFails(a) ==
    /\ main[a] = "turns"
    /\ AllDone(a)
    /\ Goto(a, "fail")
    /\ UNCHANGED <<job, turn, posted, chats, strategy, branch, answer, expiry, outages, now>>

-----------------------------------------------------------------------------
(***************************************************************************)
(* Failures.  A database call fails before or after it took effect, with   *)
(* an unavailable database (requeue) or some other error (fail).           *)
(***************************************************************************)
Outage == outages < MaxOutages /\ outages' = outages + 1

LoseLease(a) ==
    /\ Outage
    /\ main[a] = "lease" /\ claimable
    /\ job' \in {job, LeasedTo(a)}
    /\ Goto(a, "ended")
    /\ UNCHANGED <<turn, posted, chats, strategy, branch, answer, expiry, now>>

LoseRead(a) ==
    /\ Outage
    /\ main[a] = "work"
    /\ \E error \in {"requeue", "fail"} : Goto(a, error)
    /\ UNCHANGED <<job, turn, posted, chats, strategy, branch, answer, expiry, now>>

LoseTurn(a, p) ==
    /\ Outage
    /\ \/ branch[a][p] = "reread" /\ UNCHANGED turn
       \/ /\ branch[a][p] = "reserve"
          /\ turn' \in {turn, [turn EXCEPT ![p] = IF @ = "none" THEN "Interrupted" ELSE @]}
       \/ branch[a][p] = "save" /\ turn' \in {turn, [turn EXCEPT ![p] = answer[a][p]]}
    /\ \E error \in {"requeue", "fail"} : Throw(a, p, error)
    /\ UNCHANGED <<job, posted, chats, strategy, answer, expiry, now>>

LoseCompletion(a) ==
    /\ Outage
    /\ \/ /\ main[a] = "finish"
          /\ job' \in {job, Completed(a, "Succeeded")}
          /\ \E error \in {"requeue", "fail"} : Goto(a, error)
       \/ /\ main[a] \in {"requeue", "fail"}
          /\ job' \in {job, Completed(a, IF main[a] = "requeue" THEN "Pending" ELSE "Failed")}
          /\ Goto(a, "ended")
    /\ UNCHANGED <<turn, posted, chats, strategy, branch, answer, expiry, now>>

Running(a) ==
    \/ main[a] \notin {"idle", "ended"}
    \/ \E p \in Sides : branch[a][p] \notin {"off", "done"}

\* The process dies, with everything the attempt still had running.
Crash(a) ==
    /\ Running(a)
    /\ Goto(a, "ended")
    /\ branch' = [branch EXCEPT ![a] = Inactive]
    /\ UNCHANGED <<job, turn, posted, chats, strategy, answer, expiry, outages, now>>

Tick ==
    /\ now < MaxTime
    /\ now' = now + 1
    /\ UNCHANGED <<job, turn, posted, chats, strategy, control, expiry, outages>>

-----------------------------------------------------------------------------
Init ==
    /\ job = NoJob
    /\ turn = [p \in Sides |-> "none"]
    /\ posted = NoPost
    /\ chats = [p \in Sides |-> 0]
    /\ strategy \in [Sides -> Stored]
    /\ main = [a \in Attempts |-> "idle"]
    /\ branch = [a \in Attempts |-> Inactive]
    /\ answer = [a \in Attempts |-> NoAnswer]
    /\ expiry = [a \in Attempts |-> 0]
    /\ outages = 0
    /\ now = RoundDue

TurnStep(a, p) ==
    \/ StrategyMismatch(a, p) \/ Reserve(a, p) \/ ReserveTaken(a, p) \/ ReadExisting(a, p)
    \/ SendChat(a, p) \/ NoAgent(a, p) \/ Reply(a, p) \/ Save(a, p)

Step(a) ==
    \/ Start(a) \/ Acquire(a) \/ Skip(a) \/ BenchmarkFails(a) \/ ReadTurns(a)
    \/ \E p \in Sides : TurnStep(a, p)
    \/ Submit(a) \/ SubmitFails(a) \/ Finish(a) \/ Catch(a)

Loss(a) ==
    \/ LoseLease(a) \/ LoseRead(a) \/ LoseCompletion(a)
    \/ \E p \in Sides : LoseTurn(a, p)

Next ==
    \/ \E a \in Attempts : Step(a) \/ Loss(a) \/ Crash(a)
    \/ Tick

Spec == Init /\ [][Next]_vars

(***************************************************************************)
(* The same worker at its best: it does all it can before the clock moves, *)
(* polls as soon as the row is claimable, and meets no failure but one     *)
(* crash.                                                                  *)
(***************************************************************************)
Pollable == posted = NoPost /\ now < WindowEnd /\ claimable /\ \E a \in Attempts : main[a] = "idle"
Idle == \A a \in Attempts : ~Running(a)

PromptNext ==
    \/ \E a \in Attempts :
         \/ Idle /\ claimable /\ Start(a)
         \/ Acquire(a) \/ ReadTurns(a) \/ Submit(a) \/ Finish(a)
         \/ \E p \in Sides : TurnStep(a, p)
         \/ Crash(a) /\ \A b \in Attempts \ {a} : main[b] = "idle"
    \/ Idle /\ ~Pollable /\ Tick

PromptSpec == Init /\ [][PromptNext]_vars

-----------------------------------------------------------------------------
(***************************************************************************)
(* Properties                                                              *)
(***************************************************************************)

\* Types of the rows and of the attempts' local variables.
TypeOK ==
    /\ job.status \in JobStatus
    /\ job.owner \in Attempts \cup {NoAttempt} /\ job.until \in Nat /\ job.retry \in Nat
    /\ turn \in [Sides -> TurnRow]
    /\ posted = NoPost \/ posted \in [Sides -> Answers]
    /\ chats \in [Sides -> Nat]
    /\ strategy \in [Sides -> StoredStrategies]
    /\ main \in [Attempts -> {"idle", "lease", "work", "turns", "finish", "requeue", "fail", "ended"}]
    /\ branch \in [Attempts ->
                     [Sides -> {"off", "reserve", "reread", "chat", "asked", "save", "done"}]]
    /\ answer \in [Attempts -> [Sides -> Answers \cup {"none"}]]
    /\ expiry \in [Attempts -> Nat]
    /\ outages \in 0..MaxOutages
    /\ now \in Nat

(***************************************************************************)
(* No agent is asked twice for the same round, whatever leases lapse, rows *)
(* are lost or processes die (agents.ts:262; a chat is paid and not        *)
(* idempotent).                                                            *)
(***************************************************************************)
AtMostOneChat == \A p \in Sides : chats[p] <= 1

(***************************************************************************)
(* Whoever is at work within the lease it wrote still owns the row: no     *)
(* earlier attempt that comes back late can complete, fail or requeue the  *)
(* job under it, and nobody is admitted beside it (jobs.ts:60, 82, 92).    *)
(***************************************************************************)
LeaseHolderUndisturbed ==
    \A a \in Attempts : main[a] \in {"work", "turns", "finish"} /\ now <= expiry[a] => holds(a)

(***************************************************************************)
(* Whatever reached the chain was recorded first: a posted answer other    *)
(* than a penalty for an API error is the one the turn row shows, and no   *)
(* round is posted for a player without a turn row (agents.ts:318-350,     *)
(* tick.ts:181-206).                                                       *)
(***************************************************************************)
PostedAnswersAreRecorded ==
    posted # NoPost =>
      \A p \in Sides :
        /\ turn[p] # "none"
        /\ posted[p] # "ApiError" => turn[p] = posted[p]

(***************************************************************************)
(* A recorded outcome is final: no later attempt and no turn left running  *)
(* by an earlier one rewrites it (agents.ts:253-256, 266-289).             *)
(***************************************************************************)
AnswersAreFinal ==
    [][\A p \in Sides : turn[p] \in Answers => turn'[p] = turn[p]]_vars

(***************************************************************************)
(* agents.ts:234-236 of a resumed round: it "gets the same result, because *)
(* the answers are what was recorded".  An interrupted row stands for an   *)
(* API error.                                                              *)
(***************************************************************************)
PostedIsWhatWasRecorded ==
    posted # NoPost => \A p \in Sides : posted[p] = revive(turn[p])

(***************************************************************************)
(* agents.ts:233-235 of a crash after both agents answered: "the next      *)
(* attempt re-submits the recorded answers".  Claimed for PromptSpec.      *)
(***************************************************************************)
CrashIsRecovered ==
    now >= WindowEnd /\ (\A p \in Sides : turn[p] \in Answers) => posted # NoPost

=============================================================================
