------------------------------- MODULE WorkerTick -------------------------------
(***************************************************************************)
(* The orchestrator's main loop (apps/worker tick.ts): read the chain's    *)
(* clock, fetch the matches that can be acted on, and drive them one after *)
(* the other, each through at most one leased job, from the clock and the  *)
(* accounts read before.  The chain is each match's state with the guards  *)
(* of the four instructions the worker sends; a round's turns and chats    *)
(* (RoundJob) are one step here.  A price is its publish time: what the    *)
(* other checks of read_observation refuse (PriceOracle) counts as not     *)
(* published.                                                              *)
(***************************************************************************)
EXTENDS JobLease, FiniteSets

CONSTANTS
    Workers,       \* processes running the loop (one in the README, two must be safe)
    Matches,
    Rounds,        \* a set of naturals, 0..2 in the program
    RoundOffset,   \* [Rounds -> Nat]: a round's due time after the start
    Duration,      \* target end after the start
    Grace,         \* settlement deadline after the target end
    ActivateBy,    \* activation_deadline_ts of every match
    SKEW,          \* how far other clocks, a worker's or Hermes', may be from the chain's
    PriceTimes,    \* bound: the publish times of the prices Hermes may come by
    Faulty,        \* matches for which a call may throw for no reason of the chain's
    MaxFaults,     \* bound: crashes, lost database calls and missing block times
    MaxTime        \* bound: the clock stops there

VARIABLES
    chain,         \* [Matches -> Account]
    prices,        \* publish times of the prices so far; the worker is given the latest
    jobs,          \* [Matches -> [Jobs -> row]]
    phase,         \* [Workers -> where tick is]
    seen,          \* [Workers -> the tick's clock reading, 0 when no match is left to drive]
    fetched,       \* [Workers -> accounts not driven yet, a function on their matches]
    task,          \* [Workers -> the leased job, or NoTask]
    price,         \* [Workers -> publish time of the price its settlement carries, or 0]
    faults, now

vars == <<chain, prices, jobs, phase, seen, fetched, task, price, faults, now>>

ASSUME TickAssumption ==
    /\ NoAttempt \notin Workers
    /\ Rounds \subseteq Nat
    /\ RoundOffset \in [Rounds -> Nat]
    /\ \A r \in Rounds : RoundOffset[r] < Duration
    /\ Duration \in Nat /\ Grace \in Nat /\ ActivateBy \in Nat
    /\ SKEW \in Nat /\ PriceTimes \subseteq Nat
    /\ Faulty \subseteq Matches
    /\ MaxFaults \in Nat /\ MaxTime \in Nat

Account == [state : {"Ready", "Active", "Settled", "FailureRefundable"},
            start_ts : Nat, submitted : SUBSET Rounds]
Actionable == {"Ready", "Active"}

Activate == [type |-> "Activate", round |-> 0]
Settle == [type |-> "Settle", round |-> 0]
MarkOracleFailure == [type |-> "MarkOracleFailure", round |-> 0]
SubmitRound(r) == [type |-> "SubmitRound", round |-> r]

Jobs == {Activate, Settle, MarkOracleFailure} \cup {SubmitRound(r) : r \in Rounds}

NoTask == [match |-> "none", job |-> [type |-> "none", round |-> 0]]

due(account, r) == account.start_ts + RoundOffset[r]
target(account) == account.start_ts + Duration
deadline(account) == target(account) + Grace

\* A round ends when the next one is due, the last one at the target end.
window_end(account, r) ==
    IF r + 1 \in Rounds THEN due(account, r + 1) ELSE target(account)

-----------------------------------------------------------------------------
(***************************************************************************)
(* driveMatch and dueRound: what a match is due, by the given clock.       *)
(***************************************************************************)
RoundsDue(account, t) ==
    {r \in Rounds \ account.submitted : due(account, r) <= t /\ t < window_end(account, r)}

\* Seeded bug: the failure is marked from the deadline on, not after it.
MarkFromDeadline(account, t) ==
    CASE account.state = "Ready" /\ t <= ActivateBy -> {Activate}
      [] account.state = "Active" /\ t < target(account) ->
           {SubmitRound(r) : r \in RoundsDue(account, t)}
      [] account.state = "Active" /\ t >= target(account) /\ t < deadline(account) -> {Settle}
      [] account.state = "Active" /\ t >= deadline(account) -> {MarkOracleFailure}
      [] OTHER -> {}

JobsDue(account, t) ==
    CASE account.state = "Ready" /\ t <= ActivateBy -> {Activate}
      [] account.state = "Active" /\ t < target(account) ->
           {SubmitRound(r) : r \in RoundsDue(account, t)}
      [] account.state = "Active" /\ t >= target(account) /\ t <= deadline(account) -> {Settle}
      [] account.state = "Active" /\ t > deadline(account) -> {MarkOracleFailure}
      [] OTHER -> {}

(***************************************************************************)
(* The program: whether the instruction behind a job is accepted now, a    *)
(* settlement with the price published at p, and what it leaves.           *)
(***************************************************************************)
Accepts(m, j, p) ==
    LET account == chain[m] IN
    \/ j = Activate /\ account.state = "Ready" /\ now <= ActivateBy
    \/ /\ j.type = "SubmitRound" /\ account.state = "Active"
       /\ j.round \in RoundsDue(account, now)
    \/ /\ j = Settle /\ account.state = "Active"
       /\ target(account) <= p /\ p <= now /\ now <= deadline(account)
    \/ j = MarkOracleFailure /\ account.state = "Active" /\ now > deadline(account)

After(m, j) ==
    CASE j = Activate -> [chain[m] EXCEPT !.state = "Active", !.start_ts = now]
      [] j.type = "SubmitRound" -> [chain[m] EXCEPT !.submitted = @ \cup {j.round}]
      [] j = Settle -> [chain[m] EXCEPT !.state = "Settled"]
      [] j = MarkOracleFailure -> [chain[m] EXCEPT !.state = "FailureRefundable"]

Send(m, j) == chain' = [chain EXCEPT ![m] = After(m, j)]

-----------------------------------------------------------------------------
(***************************************************************************)
(* tick                                                                    *)
(***************************************************************************)
Goto(w, place) == phase' = [phase EXCEPT ![w] = place]

\* chainNow, when the slot has a block time
ReadClock(w) ==
    /\ phase[w] = "idle"
    /\ seen' = [seen EXCEPT ![w] = now]
    /\ Goto(w, "clock")
    /\ UNCHANGED <<chain, prices, jobs, fetched, task, price, faults, now>>

\* Seeded bug: finished matches are fetched too.
FetchAll == Matches
FetchActionable == {m \in Matches : chain[m].state \in Actionable}

FetchMatches(w) ==
    /\ phase[w] = "clock"
    /\ fetched' = [fetched EXCEPT ![w] = [m \in FetchActionable |-> chain[m]]]
    /\ Goto(w, "loop")
    /\ UNCHANGED <<chain, prices, jobs, seen, task, price, faults, now>>

\* The loop goes on without m; nobody looks at the reading after its last match.
Driven(w, m) ==
    /\ fetched' = [fetched EXCEPT ![w] = [q \in DOMAIN fetched[w] \ {m} |-> fetched[w][q]]]
    /\ seen' = IF DOMAIN fetched[w] = {m} THEN [seen EXCEPT ![w] = 0] ELSE seen

\* Nothing is due, or somebody owns the job, or it is finished.
Pass(w, m) ==
    /\ phase[w] = "loop"
    /\ m \in DOMAIN fetched[w]
    /\ \A j \in JobsDue(fetched[w][m], seen[w]) : ~Claimable(jobs[m][j], now)
    /\ Driven(w, m)
    /\ UNCHANGED <<chain, prices, jobs, phase, task, price, faults, now>>

Claim(w, m) ==
    /\ phase[w] = "loop"
    /\ m \in DOMAIN fetched[w]
    /\ \E j \in JobsDue(fetched[w][m], seen[w]) :
         /\ Claimable(jobs[m][j], now)
         /\ jobs' = [jobs EXCEPT ![m][j] = LeasedRow(w, now)]
         /\ task' = [task EXCEPT ![w] = [match |-> m, job |-> j]]
    /\ Driven(w, m)
    /\ Goto(w, "work")
    /\ UNCHANGED <<chain, prices, price, faults, now>>

\* fetchLatestPrice, of which a settlement's fate depends on the publish time.
FetchPrice(w) ==
    /\ phase[w] = "work" /\ task[w].job = Settle
    /\ \E p \in prices :
         /\ \A q \in prices : q <= p
         /\ price' = [price EXCEPT ![w] = p]
    /\ Goto(w, "send")
    /\ UNCHANGED <<chain, prices, jobs, seen, fetched, task, faults, now>>

\* The transaction is ready to go, and is accepted or refused at this moment.
Sending(w) == phase[w] = IF task[w].job = Settle THEN "send" ELSE "work"
Accepted(w) == Sending(w) /\ Accepts(task[w].match, task[w].job, price[w])
Refused(w) == Sending(w) /\ ~Accepts(task[w].match, task[w].job, price[w])

\* The transaction lands; the call may throw all the same.
Land(w) ==
    /\ Accepted(w)
    /\ Send(task[w].match, task[w].job)
    /\ price' = [price EXCEPT ![w] = 0]
    /\ \E place \in {"done", "thrown"} : Goto(w, place)
    /\ UNCHANGED <<prices, jobs, seen, fetched, task, faults, now>>

\* The program refuses; it is paused or the starting price too old, which are
\* not followed here; or any other error keeps the transaction from landing.
Throw(w) ==
    /\ phase[w] \in {"work", "send"}
    /\ Refused(w) \/ task[w].job = Activate \/ task[w].match \in Faulty
    /\ price' = [price EXCEPT ![w] = 0]
    /\ Goto(w, "thrown")
    /\ UNCHANGED <<chain, prices, jobs, seen, fetched, task, faults, now>>

\* Seeded bug: the error is swallowed and the job completed.
AlwaysSucceeded(w) == "Succeeded"
Outcome(w) == IF phase[w] = "done" THEN "Succeeded" ELSE "Failed"

UpdatedRow(w, status) ==
    LET m == task[w].match
        j == task[w].job
    IN [jobs EXCEPT ![m][j] = CompletedRow(@, w, status)]

\* The completing update, then the catch of the loop: on to the next match.
Complete(w) ==
    /\ phase[w] \in {"done", "thrown"}
    /\ jobs' = UpdatedRow(w, Outcome(w))
    /\ task' = [task EXCEPT ![w] = NoTask]
    /\ Goto(w, "loop")
    /\ UNCHANGED <<chain, prices, seen, fetched, price, faults, now>>

EndTick(w) ==
    /\ phase[w] = "loop"
    /\ DOMAIN fetched[w] = {}
    /\ seen' = [seen EXCEPT ![w] = 0]
    /\ Goto(w, "idle")
    /\ UNCHANGED <<chain, prices, jobs, fetched, task, price, faults, now>>

-----------------------------------------------------------------------------
(***************************************************************************)
(* Failures.  A lease they leave behind lapses while the clock still runs. *)
(***************************************************************************)
Fault ==
    /\ faults < MaxFaults
    /\ now + LEASE < MaxTime /\ now + REQUEUE < MaxTime
    /\ faults' = faults + 1

\* chainNow, when the slot was skipped: the wall clock, ahead or behind
\* (one that agrees is ReadClock).
FallBack(w) ==
    /\ Fault
    /\ phase[w] = "idle"
    /\ \E t \in 0..(now + SKEW) : now - SKEW <= t /\ t # now /\ seen' = [seen EXCEPT ![w] = t]
    /\ Goto(w, "clock")
    /\ UNCHANGED <<chain, prices, jobs, fetched, task, price, now>>

\* The projection or the lease is lost, before or after it was written.
LoseClaim(w, m) ==
    /\ Fault
    /\ phase[w] = "loop"
    /\ m \in DOMAIN fetched[w]
    /\ \/ UNCHANGED jobs
       \/ \E j \in JobsDue(fetched[w][m], seen[w]) :
            /\ Claimable(jobs[m][j], now)
            /\ jobs' = [jobs EXCEPT ![m][j] = LeasedRow(w, now)]
    /\ Driven(w, m)
    /\ UNCHANGED <<chain, prices, phase, task, price, now>>

\* A round or the completing update lost the database: requeued, or left Leased.
LoseCompletion(w) ==
    /\ Fault
    /\ phase[w] \in {"done", "thrown"}
    /\ jobs' \in {jobs, UpdatedRow(w, Outcome(w)), UpdatedRow(w, "Pending")}
    /\ task' = [task EXCEPT ![w] = NoTask]
    /\ Goto(w, "loop")
    /\ UNCHANGED <<chain, prices, seen, fetched, price, now>>

\* The process dies and is started again, with nothing but the database.
Crash(w) ==
    /\ Fault
    /\ phase[w] # "idle"
    /\ Goto(w, "idle")
    /\ seen' = [seen EXCEPT ![w] = 0]
    /\ fetched' = [fetched EXCEPT ![w] = [m \in {} |-> 0]]
    /\ task' = [task EXCEPT ![w] = NoTask]
    /\ price' = [price EXCEPT ![w] = 0]
    /\ UNCHANGED <<chain, prices, jobs, now>>

-----------------------------------------------------------------------------
(***************************************************************************)
(* The others: settlement, with any price there has been, and the oracle   *)
(* failure are permissionless; players of a match that did not start in    *)
(* time refund themselves; Hermes comes by a new price, or does not.       *)
(***************************************************************************)
SentByOthers(m) ==
    /\ \E j \in {Settle, MarkOracleFailure}, p \in prices : Accepts(m, j, p) /\ Send(m, j)
    /\ UNCHANGED <<prices, jobs, phase, seen, fetched, task, price, faults, now>>

RefundedByPlayers(m) ==
    /\ chain[m].state = "Ready" /\ now > ActivateBy
    /\ chain' = [chain EXCEPT ![m].state = "FailureRefundable"]
    /\ UNCHANGED <<prices, jobs, phase, seen, fetched, task, price, faults, now>>

Publish ==
    /\ \E p \in PriceTimes \ prices :
         /\ now - SKEW <= p /\ p <= now + SKEW
         /\ prices' = prices \cup {p}
    /\ UNCHANGED <<chain, jobs, phase, seen, fetched, task, price, faults, now>>

Tick ==
    /\ now < MaxTime
    /\ now' = now + 1
    /\ UNCHANGED <<chain, prices, jobs, phase, seen, fetched, task, price, faults>>

Init ==
    /\ chain = [m \in Matches |-> [state |-> "Ready", start_ts |-> 0, submitted |-> {}]]
    /\ prices = {0}
    /\ jobs = [m \in Matches |-> [j \in Jobs |-> NoJob]]
    /\ phase = [w \in Workers |-> "idle"]
    /\ seen = [w \in Workers |-> 0]
    /\ fetched = [w \in Workers |-> [m \in {} |-> 0]]
    /\ task = [w \in Workers |-> NoTask]
    /\ price = [w \in Workers |-> 0]
    /\ faults = 0
    /\ now = 0

\* What the process does by itself while it runs.
Loop(w) ==
    \/ ReadClock(w) \/ FetchMatches(w) \/ EndTick(w)
    \/ \E m \in Matches : Pass(w, m) \/ Claim(w, m)
    \/ FetchPrice(w) \/ Land(w) \/ Throw(w) \/ Complete(w)

Lose(w) ==
    \/ FallBack(w) \/ Crash(w) \/ LoseCompletion(w)
    \/ \E m \in Matches : LoseClaim(w, m)

Next ==
    \/ \E w \in Workers : Loop(w) \/ Lose(w)
    \/ \E m \in Matches : SentByOthers(m) \/ RefundedByPlayers(m)
    \/ Publish \/ Tick

Spec == Init /\ [][Next]_vars

\* The clock runs, and the process does: index.ts loops until it is stopped.
FairSpec == Spec /\ WF_vars(Tick) /\ \A w \in Workers : WF_vars(Loop(w))

(***************************************************************************)
(* The worker at its best, nobody else acting: it does all that is due     *)
(* before the clock moves, and meets no failure but the program's refusal. *)
(***************************************************************************)
Rested ==
    /\ \A w \in Workers : phase[w] = "idle"
    /\ \A m \in Matches : \A j \in JobsDue(chain[m], now) : ~Claimable(jobs[m][j], now)

PromptNext ==
    \/ \E w \in Workers :
         \/ ReadClock(w) \/ FetchMatches(w) \/ EndTick(w) \/ Complete(w)
         \/ \E m \in Matches : Pass(w, m) \/ Claim(w, m)
         \/ FetchPrice(w) \/ Land(w) \/ (Refused(w) /\ Throw(w))
    \/ Publish
    \/ Rested /\ Tick

PromptSpec == Init /\ [][PromptNext]_vars

-----------------------------------------------------------------------------
(***************************************************************************)
(* Properties                                                              *)
(***************************************************************************)

\* Types; only matches that can be acted on are ever driven.
TypeOK ==
    /\ chain \in [Matches -> Account]
    /\ prices \subseteq Nat
    /\ \A m \in Matches, j \in Jobs :
         /\ jobs[m][j].status \in JobStatus
         /\ jobs[m][j].owner \in Workers \cup {NoAttempt}
         /\ jobs[m][j].until \in Nat
    /\ phase \in [Workers -> {"idle", "clock", "loop", "work", "send", "done", "thrown"}]
    /\ seen \in [Workers -> Nat]
    /\ \A w \in Workers :
         /\ DOMAIN fetched[w] \subseteq Matches
         /\ \A m \in DOMAIN fetched[w] : fetched[w][m].state \in Actionable
         /\ phase[w] \in {"work", "send", "done", "thrown"} <=> task[w] # NoTask
         /\ price[w] \in prices \cup {0}
    /\ faults \in 0..MaxFaults
    /\ now \in Nat

(***************************************************************************)
(* A job the database calls succeeded took effect on chain, whatever was   *)
(* stale, retaken, lost or crashed on the way (jobs.ts:79-86).             *)
(***************************************************************************)
Effect(m, j) ==
    CASE j = Activate -> chain[m].state # "Ready"
      [] j.type = "SubmitRound" -> j.round \in chain[m].submitted
      [] OTHER -> chain[m].state \notin Actionable

SucceededMeansLanded ==
    \A m \in Matches, j \in Jobs : jobs[m][j].status = "Succeeded" => Effect(m, j)

(***************************************************************************)
(* A finished job, succeeded or failed, is never re-run (jobs.ts:58-59).   *)
(***************************************************************************)
FinishedJobsStay ==
    [][\A m \in Matches, j \in Jobs :
         jobs[m][j].status \in {"Succeeded", "Failed"} => jobs'[m][j] = jobs[m][j]]_vars

(***************************************************************************)
(* Because a job that fails is never re-run, none may start before the     *)
(* program can accept it: a mark or settlement sent a second early would   *)
(* be the match's last.  What was read may be long past, and only the wall *)
(* clock that stands in for a missing block time may be ahead: a job is    *)
(* early by no more than that clock (tick.ts:67-105, windows.ts:24-35,     *)
(* chain.ts:76-83).                                                        *)
(***************************************************************************)
NothingTriedTooEarly ==
    \A w \in Workers : phase[w] \in {"work", "send"} =>
      LET account == chain[task[w].match]
          j == task[w].job
      IN
      /\ j.type = "SubmitRound" => due(account, j.round) <= now + SKEW
      /\ j = Settle => target(account) <= now + SKEW
      /\ j = MarkOracleFailure => deadline(account) < now + SKEW

(***************************************************************************)
(* A running match comes to its end, settled or failed, although workers   *)
(* crash, calls for other matches throw, rounds are missed, settlements    *)
(* are refused and no price may come; as long as its own calls fail only   *)
(* when the program refuses them.  The one exception is a match whose mark *)
(* was spent before its time by a wall clock ahead of the chain's: nobody  *)
(* but others can end it (tick.ts:48-52, 82-97; jobs.ts:58-70).            *)
(***************************************************************************)
MarkSpent(m) == jobs[m][MarkOracleFailure].status = "Failed"

HealthyMatchesEnd ==
    \A m \in Matches \ Faulty :
      chain[m].state = "Active" ~> chain[m].state \notin Actionable \/ MarkSpent(m)

(***************************************************************************)
(* tick.ts:84 of the oracle-failure job: "No valid final price arrived in  *)
(* the window."  Claimed for PromptSpec, where players do not act.         *)
(***************************************************************************)
FailureMeansNoPrice ==
    \A m \in Matches : chain[m].state = "FailureRefundable" =>
      ~\E p \in prices : target(chain[m]) <= p /\ p <= deadline(chain[m])

=============================================================================
