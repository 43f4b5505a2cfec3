--------------------------- MODULE WorkerTickProofs ---------------------------
(***************************************************************************)
(* Theorems about WorkerTick for any number of workers, matches and        *)
(* rounds, any windows and leases, and any number of faults.               *)
(***************************************************************************)
EXTENDS WorkerTick, TLAPS

-----------------------------------------------------------------------------
(***************************************************************************)
(* The inductive invariant                                                 *)
(***************************************************************************)
Busy == {"work", "send", "done", "thrown"}
Trying == {"work", "send"}
JobRow == [status : JobStatus, owner : Workers \cup {NoAttempt}, until : Nat, retry : Nat]

\* The parts of TypeOK that steps rely on, told in full.
Types ==
    /\ chain \in [Matches -> Account] /\ prices \subseteq Nat
    /\ jobs \in [Matches -> [Jobs -> JobRow]]
    /\ phase \in [Workers -> Busy \cup {"idle", "clock", "loop"}]
    /\ seen \in [Workers -> Nat]
    /\ DOMAIN fetched = Workers /\ DOMAIN task = Workers
    /\ \A w \in Workers :
        /\ DOMAIN fetched[w] \subseteq Matches
        /\ \A m \in DOMAIN fetched[w] : fetched[w][m] \in Account /\ fetched[w][m].state \in Actionable
        /\ IF phase[w] \in Busy THEN task[w] \in [match : Matches, job : Jobs] ELSE task[w] = NoTask
    /\ DOMAIN price = Workers /\ \A w \in Workers : price[w] \in prices \cup {0}
    /\ faults \in 0..MaxFaults /\ now \in Nat

\* What was read is old, but of a match that runs only its rounds and its end have changed.
Snapshots ==
    \A w \in Workers :
      /\ seen[w] <= now + SKEW
      /\ \A m \in DOMAIN fetched[w] : fetched[w][m].state = "Active" =>
           chain[m].state # "Ready" /\ chain[m].start_ts = fetched[w][m].start_ts

\* The earliest moment of a job by a wall clock as far ahead as can be, once its match runs.
Timely(m, j) ==
    j = Activate \/
    /\ chain[m].state # "Ready"
    /\ j.type = "SubmitRound" => due(chain[m], j.round) <= now + SKEW
    /\ j = Settle => target(chain[m]) <= now + SKEW
    /\ j = MarkOracleFailure => deadline(chain[m]) < now + SKEW

TasksTimely == \A w \in Workers : phase[w] \in Trying => Timely(task[w].match, task[w].job)
TasksLanded == \A w \in Workers : phase[w] = "done" => Effect(task[w].match, task[w].job)

IInv ==
    /\ Types
    /\ Snapshots
    /\ TasksTimely
    /\ TasksLanded
    /\ SucceededMeansLanded

-----------------------------------------------------------------------------
(***************************************************************************)
(* What the chain may do                                                   *)
(***************************************************************************)
LEMMA JobKinds ==
    /\ \A j \in Jobs : j # NoTask.job
    /\ \A j \in Jobs : \/ j = Activate \/ j = Settle \/ j = MarkOracleFailure
                       \/ \E r \in Rounds : j = SubmitRound(r)
    /\ \A r : SubmitRound(r).type = "SubmitRound" /\ SubmitRound(r).round = r
    /\ Activate.type = "Activate" /\ Settle.type = "Settle"
    /\ MarkOracleFailure.type = "MarkOracleFailure"
BY DEF Jobs, NoTask, Activate, Settle, MarkOracleFailure, SubmitRound

\* A match that has left Ready never returns to it, and never starts again; an end is an end.
Progress ==
    \A m \in Matches :
      /\ chain[m].state # "Ready" => chain'[m].state # "Ready" /\ chain'[m].start_ts = chain[m].start_ts
      /\ chain[m].state \notin Actionable => chain'[m].state \notin Actionable
      /\ chain[m].submitted \subseteq chain'[m].submitted

\* What a transaction that is accepted is sent with.
LEMMA AcceptedTask ==
    ASSUME Types, NEW w \in Workers, Accepted(w)
    PROVE  /\ phase[w] \in Trying /\ task[w].match \in Matches /\ task[w].job \in Jobs
           /\ price[w] \in Nat /\ Accepts(task[w].match, task[w].job, price[w])
<1>1. phase[w] = "work" \/ phase[w] = "send"
  BY DEF Accepted, Sending
<1>2. task[w] \in [match : Matches, job : Jobs]
  BY <1>1 DEF Types, Busy
<1>3. price[w] \in Nat
  <2>1. price[w] \in prices \cup {0}
    BY DEF Types
  <2>2. \A p \in prices : p \in Nat
    BY DEF Types
  <2>3. 0 \in Nat
    OBVIOUS
  <2> QED
    BY <2>1, <2>2, <2>3
<1> QED
  BY <1>1, <1>2, <1>3 DEF Accepted, Trying

LEMMA SendProgress ==
    ASSUME Types, NEW m \in Matches, NEW j \in Jobs, NEW p \in Nat, Accepts(m, j, p), Send(m, j)
    PROVE  /\ chain' \in [Matches -> Account] /\ Progress
           /\ chain'[m].state # "Ready" /\ Effect(m, j)'
<1> USE DEF Types
<1>1. chain' = [chain EXCEPT ![m] = After(m, j)] /\ chain[m] \in Account
  BY DEF Send
<1>2. CASE j = Activate
  BY <1>1, <1>2, JobKinds DEF Accepts, After, Account, Progress, Actionable, Effect
<1>3. CASE j = Settle \/ j = MarkOracleFailure
  BY <1>1, <1>3, JobKinds DEF Accepts, After, Account, Progress, Actionable, Effect
<1>4. ASSUME NEW r \in Rounds, j = SubmitRound(r)
      PROVE  /\ chain' \in [Matches -> Account] /\ Progress
             /\ chain'[m].state # "Ready" /\ Effect(m, j)'
  BY <1>1, <1>4, JobKinds DEF Accepts, After, Account, Progress, Actionable, Effect
<1> QED
  BY <1>2, <1>3, <1>4, JobKinds

\* The steps that leave the chain alone.
LEMMA ChainStill ==
    ASSUME NEW w \in Workers, (Loop(w) /\ ~Land(w)) \/ Lose(w)
    PROVE  UNCHANGED <<chain, prices>>
BY DEF Loop, Lose, ReadClock, FetchMatches, EndTick, Pass, Claim, FetchPrice, Throw, Complete,
   FallBack, Crash, LoseCompletion, LoseClaim, Fault

LEMMA ChainStep ==
    ASSUME Types, [Next]_vars
    PROVE  chain' \in [Matches -> Account] /\ Progress /\ now' >= now
<1> USE DEF Types
<1>1. CASE UNCHANGED <<chain, now>>
  BY <1>1 DEF Progress
<1>2. ASSUME NEW w \in Workers, Land(w) PROVE chain' \in [Matches -> Account] /\ Progress /\ now' = now
  BY <1>2, AcceptedTask, SendProgress DEF Land
<1>3. ASSUME NEW m \in Matches, SentByOthers(m)
      PROVE  chain' \in [Matches -> Account] /\ Progress /\ now' = now
  <2>1. PICK j \in Jobs, p \in Nat : Accepts(m, j, p) /\ Send(m, j)
    BY <1>3 DEF SentByOthers, Jobs
  <2> QED
    BY <1>3, <2>1, SendProgress DEF SentByOthers
<1>4. ASSUME NEW m \in Matches, RefundedByPlayers(m)
      PROVE  chain' \in [Matches -> Account] /\ Progress /\ now' = now
  BY <1>4 DEF RefundedByPlayers, Progress, Account, Actionable
<1>5. CASE Publish \/ Tick
  BY <1>5 DEF Publish, Tick, Progress
<1>6. ASSUME NEW w \in Workers, Loop(w) \/ Lose(w) PROVE UNCHANGED now
  BY <1>6 DEF Loop, Lose, ReadClock, FetchMatches, EndTick, Pass, Claim, FetchPrice, Land, Throw,
     Complete, FallBack, Crash, LoseCompletion, LoseClaim, Fault
<1> QED
  BY <1>1, <1>2, <1>3, <1>4, <1>5, <1>6, ChainStill DEF Next, vars

\* What has landed stays so.
LEMMA EffectStays ==
    ASSUME Types, Progress, NEW m \in Matches, NEW j \in Jobs, Effect(m, j)
    PROVE  Effect(m, j)'
BY JobKinds DEF Progress, Effect

-----------------------------------------------------------------------------
(***************************************************************************)
(* What a worker may do                                                    *)
(***************************************************************************)

\* A job is due by the account and the clock that were read.
LEMMA DueJobs ==
    ASSUME NEW account \in Account, NEW t \in Nat, NEW j \in JobsDue(account, t)
    PROVE  /\ j \in Jobs
           /\ \/ j = Activate
              \/ /\ account.state = "Active"
                 /\ j.type = "SubmitRound" => due(account, j.round) <= t
                 /\ j = Settle => target(account) <= t
                 /\ j = MarkOracleFailure => deadline(account) < t
<1>1. CASE account.state = "Ready"
  BY <1>1 DEF JobsDue, Jobs
<1>2. CASE account.state = "Active" /\ t < target(account)
  <2>0. JobsDue(account, t) = {SubmitRound(r) : r \in RoundsDue(account, t)}
    <3>1. account.state # "Ready" /\ target(account) \in Nat
      BY <1>2, TickAssumption DEF target, Account
    <3>2. ~(t >= target(account))
      BY <1>2, <3>1
    <3> DEFINE A == {Activate}
               S == {SubmitRound(r) : r \in RoundsDue(account, t)}
               F == {Settle}
               O == {MarkOracleFailure}
    <3>3. JobsDue(account, t) =
            CASE account.state = "Ready" /\ t <= ActivateBy -> A
              [] account.state = "Active" /\ t < target(account) -> S
              [] account.state = "Active" /\ t >= target(account) /\ t <= deadline(account) -> F
              [] account.state = "Active" /\ t > deadline(account) -> O
              [] OTHER -> {}
      BY Zenon DEF JobsDue
    <3>4. ~(t > deadline(account))
      BY <1>2, <3>1, TickAssumption DEF deadline
    <3> HIDE DEF A, S, F, O
    <3>5. JobsDue(account, t) = S
      BY <1>2, <3>1, <3>2, <3>3, <3>4
    <3> QED
      BY <3>5 DEF S
  <2>1. PICK r \in RoundsDue(account, t) : j = SubmitRound(r)
    BY <2>0
  <2> QED
    BY <1>2, <2>1, JobKinds DEF RoundsDue, Jobs
<1>3. CASE account.state = "Active" /\ ~(t < target(account))
  <2>1. target(account) \in Nat /\ deadline(account) \in Nat /\ t >= target(account)
    BY <1>3, TickAssumption DEF target, deadline, Account
  <2>2. CASE t <= deadline(account)
    BY <1>3, <2>1, <2>2, JobKinds DEF JobsDue, Jobs
  <2>3. CASE t > deadline(account)
    BY <1>3, <2>1, <2>3, JobKinds DEF JobsDue, Jobs
  <2> QED
    BY <2>1, <2>2, <2>3
<1>4. CASE account.state \notin {"Ready", "Active"}
  BY <1>4 DEF JobsDue
<1> QED
  BY <1>1, <1>2, <1>3, <1>4

\* So it is not tried before its time, by the chain's clock.
LEMMA DueIsTimely ==
    ASSUME Types, Snapshots, NEW w \in Workers, NEW m \in DOMAIN fetched[w],
           NEW j \in JobsDue(fetched[w][m], seen[w])
    PROVE  j \in Jobs /\ Timely(m, j)
<1>1. m \in Matches /\ fetched[w][m] \in Account /\ chain[m] \in Account
      /\ seen[w] \in Nat /\ now \in Nat /\ seen[w] <= now + SKEW /\ SKEW \in Nat
  BY TickAssumption DEF Types, Snapshots
<1>2. j \in Jobs
  BY <1>1, DueJobs
<1>3. CASE j = Activate
  BY <1>2, <1>3 DEF Timely
<1>4. CASE j # Activate
  <2>1. /\ fetched[w][m].state = "Active"
        /\ j.type = "SubmitRound" => due(fetched[w][m], j.round) <= seen[w]
        /\ j = Settle => target(fetched[w][m]) <= seen[w]
        /\ j = MarkOracleFailure => deadline(fetched[w][m]) < seen[w]
    BY <1>1, <1>4, DueJobs
  <2>2. chain[m].state # "Ready" /\ chain[m].start_ts = fetched[w][m].start_ts
    BY <2>1 DEF Snapshots
  <2>3. /\ target(chain[m]) = target(fetched[w][m]) /\ deadline(chain[m]) = deadline(fetched[w][m])
        /\ \A r : due(chain[m], r) = due(fetched[w][m], r)
    BY <2>2 DEF target, deadline, due
  <2>4. /\ target(chain[m]) \in Nat /\ deadline(chain[m]) \in Nat
        /\ j.type = "SubmitRound" => due(chain[m], j.round) \in Nat
    BY <1>1, <1>2, JobKinds, TickAssumption DEF Account, target, deadline, due
  <2> QED
    BY <1>1, <1>2, <2>1, <2>2, <2>3, <2>4 DEF Timely
<1> QED
  BY <1>3, <1>4

LEMMA TimelyStays ==
    ASSUME Types, Progress, now' \in Nat, now' >= now, NEW m \in Matches, NEW j \in Jobs, Timely(m, j)
    PROVE  Timely(m, j)'
<1>1. CASE j = Activate
  BY <1>1 DEF Timely
<1>2. CASE j # Activate
  <2>1. chain'[m].state # "Ready" /\ chain'[m].start_ts = chain[m].start_ts
    BY <1>2 DEF Timely, Progress
  <2>2. /\ target(chain'[m]) = target(chain[m]) /\ deadline(chain'[m]) = deadline(chain[m])
        /\ \A r : due(chain'[m], r) = due(chain[m], r)
    BY <2>1 DEF target, deadline, due
  <2>3. /\ target(chain[m]) \in Nat /\ deadline(chain[m]) \in Nat /\ now \in Nat
        /\ j.type = "SubmitRound" => due(chain[m], j.round) \in Nat
    BY JobKinds, TickAssumption DEF Types, Account, target, deadline, due
  <2> QED
    BY <1>2, <2>1, <2>2, <2>3, TickAssumption DEF Timely
<1> QED
  BY <1>1, <1>2

\* The rows: the lease that is taken, the row its owner completes.
LEMMA RowTypes ==
    ASSUME Types, NEW w \in Workers
    PROVE  /\ LeasedRow(w, now) \in JobRow
           /\ \A row \in JobRow, status \in JobStatus : CompletedRow(row, w, status) \in JobRow
<1>1. LeasedRow(w, now) \in JobRow
  BY LeaseAssumption DEF Types, LeasedRow, JobRow, JobStatus
<1>2. ASSUME NEW row \in JobRow, NEW status \in JobStatus PROVE CompletedRow(row, w, status) \in JobRow
  BY <1>2, LeaseAssumption DEF Types, CompletedRow, JobRow
<1> QED
  BY <1>1, <1>2

\* All that a worker does to the rows.
RowsWritten(w) ==
    \/ jobs' = jobs
    \/ \E m \in DOMAIN fetched[w] : \E j \in JobsDue(fetched[w][m], seen[w]) :
          /\ phase[w] = "loop" /\ Claimable(jobs[m][j], now)
          /\ jobs' = [jobs EXCEPT ![m][j] = LeasedRow(w, now)]
    \/ /\ phase[w] \in {"done", "thrown"}
       /\ \E status \in {Outcome(w), "Pending"} : jobs' = UpdatedRow(w, status)

LEMMA WorkerWrites ==
    ASSUME NEW w \in Workers, Loop(w) \/ Lose(w)
    PROVE  RowsWritten(w)
<1>1. CASE \E m \in Matches : Claim(w, m) \/ LoseClaim(w, m)
  BY <1>1 DEF Claim, LoseClaim, RowsWritten
<1>2. CASE Complete(w) \/ LoseCompletion(w)
  BY <1>2 DEF Complete, LoseCompletion, RowsWritten
<1>3. CASE UNCHANGED jobs
  BY <1>3 DEF RowsWritten
<1> QED
  BY <1>1, <1>2, <1>3 DEF Loop, Lose, ReadClock, FetchMatches, EndTick, Pass, FetchPrice, Land, Throw,
     FallBack, Crash

LEMMA WrittenRows ==
    ASSUME Types, NEW w \in Workers, RowsWritten(w)
    PROVE  /\ jobs' \in [Matches -> [Jobs -> JobRow]]
           /\ \A m \in Matches, j \in Jobs :
               /\ jobs[m][j].status \in {"Succeeded", "Failed"} => jobs'[m][j] = jobs[m][j]
               /\ jobs'[m][j].status = "Succeeded" =>
                    jobs[m][j].status = "Succeeded" \/ (phase[w] = "done" /\ task[w] = [match |-> m, job |-> j])
<1>0. jobs \in [Matches -> [Jobs -> JobRow]]
  BY DEF Types
<1>1. ASSUME jobs' = jobs
      PROVE  /\ jobs' \in [Matches -> [Jobs -> JobRow]]
             /\ \A m \in Matches, j \in Jobs : jobs'[m][j] = jobs[m][j]
  BY <1>0, <1>1
<1>2. ASSUME NEW m \in DOMAIN fetched[w], NEW j \in JobsDue(fetched[w][m], seen[w]),
             Claimable(jobs[m][j], now), jobs' = [jobs EXCEPT ![m][j] = LeasedRow(w, now)]
      PROVE  /\ jobs' \in [Matches -> [Jobs -> JobRow]]
             /\ \A n \in Matches, k \in Jobs :
                  /\ jobs[n][k].status \in {"Succeeded", "Failed"} => jobs'[n][k] = jobs[n][k]
                  /\ jobs'[n][k].status = "Succeeded" => jobs[n][k].status = "Succeeded"
  <2>1. m \in Matches /\ j \in Jobs
    BY DueJobs DEF Types
  <2>2. LeasedRow(w, now) \in JobRow /\ LeasedRow(w, now).status = "Leased"
    BY RowTypes DEF LeasedRow
  <2>3. jobs[m][j].status \notin {"Succeeded", "Failed"}
    BY <1>2 DEF Claimable
  <2>4. jobs' \in [Matches -> [Jobs -> JobRow]]
    BY <1>0, <1>2, <2>1, <2>2
  <2> QED
    BY <1>0, <1>2, <2>1, <2>2, <2>3, <2>4
<1>3. ASSUME phase[w] \in {"done", "thrown"}, NEW status \in {Outcome(w), "Pending"},
             jobs' = UpdatedRow(w, status)
      PROVE  /\ jobs' \in [Matches -> [Jobs -> JobRow]]
             /\ \A n \in Matches, k \in Jobs :
                 /\ jobs[n][k].status \in {"Succeeded", "Failed"} => jobs'[n][k] = jobs[n][k]
                 /\ jobs'[n][k].status = "Succeeded" =>
                      jobs[n][k].status = "Succeeded" \/ (phase[w] = "done" /\ task[w] = [match |-> n, job |-> k])
  <2> DEFINE m == task[w].match
             j == task[w].job
             row == CompletedRow(jobs[m][j], w, status)
  <2>1. m \in Matches /\ j \in Jobs /\ task[w] = [match |-> m, job |-> j]
    BY <1>3 DEF Busy, Types
  <2>2. status \in JobStatus /\ (status = "Succeeded" => phase[w] = "done")
    BY <1>3 DEF Outcome, JobStatus
  <2>3. row \in JobRow /\ jobs' = [jobs EXCEPT ![m][j] = row]
    BY <1>0, <1>3, <2>1, <2>2, RowTypes DEF UpdatedRow
  <2>4. \/ row = jobs[m][j]
        \/ jobs[m][j].status = "Leased" /\ row.status = status
    BY DEF CompletedRow, HeldBy
  <2> HIDE DEF m, j, row
  <2>5. jobs' \in [Matches -> [Jobs -> JobRow]]
    BY <1>0, <2>1, <2>3
  <2>6. \A n \in Matches, k \in Jobs : jobs'[n][k] = IF n = m /\ k = j THEN row ELSE jobs[n][k]
    BY <1>0, <2>1, <2>3
  <2> SUFFICES ASSUME NEW n \in Matches, NEW k \in Jobs
               PROVE  /\ jobs[n][k].status \in {"Succeeded", "Failed"} => jobs'[n][k] = jobs[n][k]
                      /\ jobs'[n][k].status = "Succeeded" =>
                           jobs[n][k].status = "Succeeded" \/ (phase[w] = "done" /\ task[w] = [match |-> n, job |-> k])
    BY <2>5
  <2>7. CASE n = m /\ k = j
    <3>1. jobs'[n][k] = row /\ jobs[n][k] = jobs[m][j] /\ task[w] = [match |-> n, job |-> k]
      BY <2>1, <2>6, <2>7
    <3> QED
      BY <2>2, <2>4, <3>1
  <2>8. CASE ~(n = m /\ k = j)
    <3>1. jobs'[n][k] = jobs[n][k]
      BY <2>6, <2>8
    <3> QED
      BY <3>1
  <2> QED
    BY <2>7, <2>8
<1>4. CASE jobs' = jobs
  <2>1. \A m \in Matches, j \in Jobs : jobs'[m][j] = jobs[m][j]
    BY <1>1, <1>4
  <2> QED
    BY <1>1, <1>4, <2>1
<1>5. CASE \E m \in DOMAIN fetched[w] : \E j \in JobsDue(fetched[w][m], seen[w]) :
             Claimable(jobs[m][j], now) /\ jobs' = [jobs EXCEPT ![m][j] = LeasedRow(w, now)]
  <2>0. PICK m \in DOMAIN fetched[w] : \E j \in JobsDue(fetched[w][m], seen[w]) :
             Claimable(jobs[m][j], now) /\ jobs' = [jobs EXCEPT ![m][j] = LeasedRow(w, now)]
    BY <1>5
  <2>1. PICK j \in JobsDue(fetched[w][m], seen[w]) :
             Claimable(jobs[m][j], now) /\ jobs' = [jobs EXCEPT ![m][j] = LeasedRow(w, now)]
    BY <2>0
  <2> QED
    BY <1>2, <2>1
<1>6. CASE /\ phase[w] \in {"done", "thrown"}
           /\ \E status \in {Outcome(w), "Pending"} : jobs' = UpdatedRow(w, status)
  BY <1>3, <1>6
<1> QED
  BY <1>4, <1>5, <1>6 DEF RowsWritten

\* Where a worker's steps lead, and what it then works on.
TaskMoves(w) ==
    /\ \A u \in Workers \ {w} : phase'[u] = phase[u] /\ task'[u] = task[u]
    /\ \/ phase'[w] \notin Busy /\ task'[w] = NoTask
       \/ /\ phase'[w] = "work" /\ phase[w] = "loop"
          /\ \E m \in DOMAIN fetched[w] : \E j \in JobsDue(fetched[w][m], seen[w]) :
                task'[w] = [match |-> m, job |-> j]
       \/ phase'[w] = "send" /\ phase[w] = "work" /\ task'[w] = task[w]
       \/ /\ phase'[w] \in {"done", "thrown"} /\ phase[w] \in Trying /\ task'[w] = task[w]
          /\ phase'[w] = "done" => Land(w)

LEMMA WorkerMoves ==
    ASSUME Types, NEW w \in Workers, Loop(w) \/ Lose(w)
    PROVE  /\ phase' \in [Workers -> Busy \cup {"idle", "clock", "loop"}] /\ DOMAIN task' = Workers
           /\ TaskMoves(w)
<1> USE DEF Types, Goto, Busy, Trying, TaskMoves
<1>1. CASE ReadClock(w) \/ FallBack(w) \/ FetchMatches(w) \/ EndTick(w)
  BY <1>1 DEF ReadClock, FallBack, FetchMatches, EndTick
<1>2. ASSUME NEW m \in Matches, Pass(w, m) \/ LoseClaim(w, m) PROVE
           /\ phase' \in [Workers -> Busy \cup {"idle", "clock", "loop"}] /\ DOMAIN task' = Workers
           /\ TaskMoves(w)
  BY <1>2 DEF Pass, LoseClaim
<1>3. ASSUME NEW m \in Matches, Claim(w, m) PROVE
           /\ phase' \in [Workers -> Busy \cup {"idle", "clock", "loop"}] /\ DOMAIN task' = Workers
           /\ TaskMoves(w)
  BY <1>3 DEF Claim
<1>4. CASE FetchPrice(w) \/ Land(w) \/ Throw(w)
  <2>1. CASE FetchPrice(w)
    BY <2>1 DEF FetchPrice
  <2>2. CASE Throw(w)
    BY <2>2 DEF Throw
  <2>3. CASE Land(w)
    BY <2>3, AcceptedTask DEF Land
  <2> QED
    BY <1>4, <2>1, <2>2, <2>3
<1>5. CASE Complete(w) \/ LoseCompletion(w) \/ Crash(w)
  BY <1>5 DEF Complete, LoseCompletion, Crash
<1> QED
  BY <1>1, <1>2, <1>3, <1>4, <1>5 DEF Loop, Lose

\* What a worker knows: a new reading, new copies, or less than before.
Forgets(w) ==
    /\ seen'[w] <= seen[w] /\ seen'[w] \in Nat
    /\ DOMAIN fetched'[w] \subseteq DOMAIN fetched[w]
    /\ \A m \in DOMAIN fetched'[w] : fetched'[w][m] = fetched[w][m]

LEMMA DrivenForgets ==
    ASSUME Types, NEW w \in Workers, NEW m \in DOMAIN fetched[w], Driven(w, m)
    PROVE  /\ \A u \in Workers : Forgets(u)
           /\ DOMAIN fetched' = Workers /\ DOMAIN seen' = Workers
BY DEF Types, Driven, Forgets

\* A new reading, of either clock.
Reads(w) ==
    /\ \E t \in Nat : t <= now + SKEW /\ seen' = [seen EXCEPT ![w] = t]
    /\ UNCHANGED <<chain, fetched>>

LEMMA WorkerReads ==
    ASSUME Types, NEW w \in Workers, Loop(w) \/ Lose(w)
    PROVE  /\ DOMAIN fetched' = Workers /\ DOMAIN seen' = Workers
           /\ \/ \A u \in Workers : Forgets(u)
              \/ Reads(w)
              \/ FetchMatches(w)
<1>1. CASE \E m \in Matches : Pass(w, m) \/ Claim(w, m) \/ LoseClaim(w, m)
  BY <1>1, DrivenForgets DEF Pass, Claim, LoseClaim
<1>2. CASE UNCHANGED <<seen, fetched>>
  BY <1>2 DEF Types, Forgets
<1>3. CASE EndTick(w) \/ Crash(w)
  BY <1>3 DEF EndTick, Crash, Types, Forgets
<1>4. CASE FetchMatches(w)
  BY <1>4 DEF FetchMatches, Types
<1>5. CASE ReadClock(w)
  <2>1. seen' = [seen EXCEPT ![w] = now] /\ UNCHANGED <<chain, fetched>>
    BY <1>5 DEF ReadClock
  <2>2. now \in Nat /\ now <= now + SKEW
    BY TickAssumption DEF Types
  <2> QED
    BY <2>1, <2>2 DEF Reads, Types
<1>6. CASE FallBack(w)
  <2>1. PICK t \in 0..(now + SKEW) : seen' = [seen EXCEPT ![w] = t] /\ UNCHANGED <<chain, fetched>>
    BY <1>6 DEF FallBack
  <2>2. t \in Nat /\ t <= now + SKEW
    BY TickAssumption DEF Types
  <2> QED
    BY <2>1, <2>2 DEF Reads, Types
<1> QED
  BY <1>1, <1>2, <1>3, <1>4, <1>5, <1>6 DEF Loop, Lose, FetchPrice, Land, Throw, Complete, LoseCompletion

\* The price a settlement carries is one there has been.
LEMMA WorkerPrices ==
    ASSUME Types, NEW w \in Workers, Loop(w) \/ Lose(w)
    PROVE  DOMAIN price' = Workers /\ \A u \in Workers : price'[u] \in prices \cup {0}
<1>1. CASE UNCHANGED price
  BY <1>1 DEF Types
<1>2. CASE FetchPrice(w)
  BY <1>2 DEF FetchPrice, Types
<1>3. CASE Land(w) \/ Throw(w) \/ Crash(w)
  BY <1>3 DEF Land, Throw, Crash, Types
<1> QED
  BY <1>1, <1>2, <1>3 DEF Loop, Lose, ReadClock, FetchMatches, EndTick, Pass, Claim, Complete,
     FallBack, LoseCompletion, LoseClaim

-----------------------------------------------------------------------------
(***************************************************************************)
(* The invariant is inductive                                              *)
(***************************************************************************)
LEMMA InitHolds == Init => IInv
<1> SUFFICES ASSUME Init PROVE IInv
  OBVIOUS
<1>1. Types
  BY TickAssumption DEF Init, Types, Account, JobRow, JobStatus, NoJob, Busy, NoTask
<1>2. Snapshots /\ TasksTimely /\ TasksLanded /\ SucceededMeansLanded
  BY TickAssumption
     DEF Init, Snapshots, TasksTimely, Trying, TasksLanded, SucceededMeansLanded, NoJob
<1> QED
  BY <1>1, <1>2 DEF IInv

LEMMA WorkerStep ==
    ASSUME IInv, [Next]_vars, NEW w \in Workers, Loop(w) \/ Lose(w)
    PROVE  IInv'
<1> USE DEF IInv
<1>1. chain' \in [Matches -> Account] /\ Progress /\ now' = now
  <2>1. UNCHANGED now
    BY DEF Loop, Lose, ReadClock, FetchMatches, EndTick, Pass, Claim, FetchPrice, Land, Throw,
       Complete, FallBack, Crash, LoseCompletion, LoseClaim, Fault
  <2> QED
    BY <2>1, ChainStep
<1>2. UNCHANGED prices /\ faults' \in 0..MaxFaults
  BY TickAssumption
     DEF Types, Loop, Lose, ReadClock, FetchMatches, EndTick, Pass, Claim, FetchPrice, Land, Throw,
     Complete, FallBack, Crash, LoseCompletion, LoseClaim, Fault
<1>3. now \in Nat /\ now' \in Nat /\ now' >= now
  BY <1>1 DEF Types
<1>4. ASSUME NEW u \in Workers
      PROVE  /\ seen'[u] \in Nat /\ seen'[u] <= now' + SKEW
             /\ DOMAIN fetched'[u] \subseteq Matches
             /\ \A m \in DOMAIN fetched'[u] :
                  /\ fetched'[u][m] \in Account /\ fetched'[u][m].state \in Actionable
                  /\ fetched'[u][m].state = "Active" =>
                       chain'[m].state # "Ready" /\ chain'[m].start_ts = fetched'[u][m].start_ts
  <2>1. CASE Forgets(u)
    BY <1>1, <1>3, <2>1, TickAssumption DEF Forgets, Types, Snapshots, Progress
  <2>2. CASE Reads(w)
    BY <1>1, <1>3, <2>2 DEF Reads, Types, Snapshots, Progress
  <2>3. CASE FetchMatches(w)
    BY <1>1, <1>3, <2>3 DEF FetchMatches, FetchActionable, Types, Snapshots, Progress, Actionable
  <2> QED
    BY <2>1, <2>2, <2>3, WorkerReads
<1>5. ASSUME NEW u \in Workers
      PROVE  IF phase'[u] \in Busy THEN task'[u] \in [match : Matches, job : Jobs] ELSE task'[u] = NoTask
  <2>1. CASE u # w
    BY <2>1, WorkerMoves DEF TaskMoves, Types
  <2>2. CASE u = w
    <3>1. ASSUME NEW m \in DOMAIN fetched[w], NEW j \in JobsDue(fetched[w][m], seen[w])
          PROVE  m \in Matches /\ j \in Jobs
      BY <3>1, DueIsTimely DEF Types
    <3>2. CASE phase'[w] \notin Busy /\ task'[w] = NoTask
      BY <2>2, <3>2
    <3>3. CASE phase'[w] \in Busy /\ phase[w] \in Busy /\ task'[w] = task[w]
      BY <2>2, <3>3 DEF Types
    <3>4. CASE /\ phase'[w] \in Busy
               /\ \E m \in DOMAIN fetched[w] : \E j \in JobsDue(fetched[w][m], seen[w]) :
                     task'[w] = [match |-> m, job |-> j]
      BY <2>2, <3>1, <3>4
    <3> QED
      BY <3>2, <3>3, <3>4, WorkerMoves DEF TaskMoves, Busy, Trying
  <2> QED
    BY <2>1, <2>2
<1>6. seen' \in [Workers -> Nat]
  <2>1. CASE \A u \in Workers : Forgets(u)
    BY <1>4, <2>1, WorkerReads DEF Types, Loop, Lose, ReadClock, FetchMatches, EndTick, Pass, Claim, FetchPrice, Land, Throw,
     Complete, FallBack, Crash, LoseCompletion, LoseClaim, Driven
  <2>2. CASE Reads(w) \/ FetchMatches(w)
    BY <2>2 DEF Reads, FetchMatches, Types
  <2> QED
    BY <2>1, <2>2, WorkerReads
<1>7. jobs' \in [Matches -> [Jobs -> JobRow]]
  BY WorkerWrites, WrittenRows
<1>8. Types'
  BY <1>1, <1>2, <1>3, <1>4, <1>5, <1>6, <1>7, WorkerMoves, WorkerReads, WorkerPrices DEF Types
<1>9. Snapshots'
  BY <1>4 DEF Snapshots
<1>10. TasksTimely'
  <2>0. ASSUME NEW m \in Matches, NEW j \in Jobs, Timely(m, j) PROVE Timely(m, j)'
    BY <1>1, <1>3, <2>0, TimelyStays
  <2> SUFFICES ASSUME NEW u \in Workers, phase'[u] \in Trying
               PROVE  \E m \in Matches, j \in Jobs : task'[u] = [match |-> m, job |-> j] /\ Timely(m, j)
    <3> SUFFICES ASSUME NEW u \in Workers, phase'[u] \in Trying PROVE Timely(task[u].match, task[u].job)'
      BY DEF TasksTimely
    <3>1. PICK m \in Matches, j \in Jobs : task'[u] = [match |-> m, job |-> j] /\ Timely(m, j)
      OBVIOUS
    <3>2. task'[u].match = m /\ task'[u].job = j
      BY <3>1
    <3> QED
      BY <2>0, <3>1, <3>2
  <2>1. CASE phase[u] \in Trying /\ task'[u] = task[u]
    BY <2>1 DEF TasksTimely, Types, Busy, Trying
  <2>2. CASE ~(phase[u] \in Trying /\ task'[u] = task[u])
    <3>1. u = w /\ \E m \in DOMAIN fetched[w] : \E j \in JobsDue(fetched[w][m], seen[w]) :
                      task'[w] = [match |-> m, job |-> j]
      BY <2>2, WorkerMoves DEF TaskMoves, Busy, Trying
    <3> QED
      BY <3>1, DueIsTimely DEF Types
  <2> QED
    BY <2>1, <2>2
<1>11. TasksLanded'
  <2> SUFFICES ASSUME NEW u \in Workers, phase'[u] = "done"
               PROVE  Effect(task[u].match, task[u].job)' /\ task'[u] = task[u]
    BY DEF TasksLanded
  <2>1. CASE phase[u] = "done" /\ task'[u] = task[u]
    BY <1>1, <2>1, EffectStays DEF TasksLanded, Types, Busy
  <2>2. CASE ~(phase[u] = "done" /\ task'[u] = task[u])
    <3>1. u = w /\ Land(w) /\ task'[w] = task[w]
      BY <2>2, WorkerMoves DEF TaskMoves, Busy
    <3> QED
      BY <3>1, AcceptedTask, SendProgress DEF Land
  <2> QED
    BY <2>1, <2>2
<1>12. SucceededMeansLanded'
  <2> SUFFICES ASSUME NEW m \in Matches, NEW j \in Jobs, jobs'[m][j].status = "Succeeded"
               PROVE  Effect(m, j)'
    BY DEF SucceededMeansLanded
  <2>1. Effect(m, j)
    <3>1. jobs[m][j].status = "Succeeded" \/ (phase[w] = "done" /\ task[w] = [match |-> m, job |-> j])
      BY WorkerWrites, WrittenRows
    <3>2. CASE jobs[m][j].status = "Succeeded"
      BY <3>2 DEF SucceededMeansLanded
    <3>3. CASE phase[w] = "done" /\ task[w] = [match |-> m, job |-> j]
      BY <3>3 DEF TasksLanded
    <3> QED
      BY <3>1, <3>2, <3>3
  <2> QED
    BY <1>1, <2>1, EffectStays
<1> QED
  BY <1>8, <1>9, <1>10, <1>11, <1>12

\* Others, players and the clock change nothing a worker relies on.
LEMMA OutsideStep ==
    ASSUME IInv, [Next]_vars, UNCHANGED <<jobs, phase, seen, fetched, task, price, faults>>,
           prices \subseteq prices', prices' \subseteq Nat, now' \in Nat
    PROVE  IInv'
<1> USE DEF IInv
<1>1. chain' \in [Matches -> Account] /\ Progress /\ now' >= now /\ now \in Nat
  BY ChainStep DEF Types
<1>2. Types'
  BY <1>1 DEF Types
<1>3. Snapshots'
  BY <1>1, TickAssumption DEF Snapshots, Types, Progress
<1>4. TasksTimely'
  <2> SUFFICES ASSUME NEW u \in Workers, phase[u] \in Trying PROVE Timely(task[u].match, task[u].job)'
    BY DEF TasksTimely
  <2>1. task[u].match \in Matches /\ task[u].job \in Jobs /\ Timely(task[u].match, task[u].job)
    BY DEF TasksTimely, Types, Busy, Trying
  <2>2. ASSUME NEW m \in Matches, NEW j \in Jobs, Timely(m, j) PROVE Timely(m, j)'
    BY <1>1, <2>2, TimelyStays
  <2> QED
    BY <2>1, <2>2
<1>5. TasksLanded' /\ SucceededMeansLanded'
  <2>1. ASSUME NEW m \in Matches, NEW j \in Jobs, Effect(m, j) PROVE Effect(m, j)'
    BY <1>1, <2>1, EffectStays
  <2> QED
    BY <2>1 DEF TasksLanded, SucceededMeansLanded, Types, Busy
<1> QED
  BY <1>2, <1>3, <1>4, <1>5

LEMMA StepHolds == IInv /\ [Next]_vars => IInv'
<1> SUFFICES ASSUME IInv, [Next]_vars PROVE IInv'
  OBVIOUS
<1>1. CASE UNCHANGED vars
  BY <1>1, OutsideStep DEF vars, IInv, Types
<1>2. CASE Tick
  BY <1>2, OutsideStep DEF Tick, IInv, Types
<1>4. CASE Publish
  <2>1. prices \subseteq prices' /\ prices' \subseteq Nat /\ now' \in Nat
    BY <1>4, TickAssumption DEF Publish, IInv, Types
  <2> QED
    BY <1>4, <2>1, OutsideStep DEF Publish
<1>3. CASE \E m \in Matches : SentByOthers(m) \/ RefundedByPlayers(m)
  BY <1>3, OutsideStep DEF SentByOthers, RefundedByPlayers, IInv, Types
<1> QED
  BY <1>1, <1>2, <1>3, <1>4, WorkerStep DEF Next

\* The invariant holds in every reachable state.
LEMMA Invariance == Spec => []IInv
BY InitHolds, StepHolds, PTL DEF Spec

-----------------------------------------------------------------------------
(***************************************************************************)
(* Theorems                                                                *)
(***************************************************************************)

(***************************************************************************)
(* Accounts, rows and tasks stay well typed, and only matches that can be  *)
(* acted on are ever driven (tick.ts:28-52).                               *)
(***************************************************************************)
THEOREM TypeCorrect == Spec => []TypeOK
<1>1. Types => TypeOK
  <2> SUFFICES ASSUME Types PROVE TypeOK
    OBVIOUS
  <2>1. \A w \in Workers : phase[w] \in Busy <=> task[w] # NoTask
    BY JobKinds DEF Types, NoTask
  <2> QED
    BY <2>1 DEF Types, TypeOK, JobRow, Busy
<1> QED
  BY <1>1, Invariance, PTL DEF IInv

(***************************************************************************)
(* A job the database calls succeeded took effect on chain, whatever was   *)
(* stale, retaken, lost or crashed on the way (jobs.ts:79-86).             *)
(***************************************************************************)
THEOREM SuccessIsReal == Spec => []SucceededMeansLanded
BY Invariance, PTL DEF IInv

(***************************************************************************)
(* No job starts before the program can accept it, although it is chosen   *)
(* from a clock and accounts read earlier, but by as much as the wall      *)
(* clock that stands in for a missing block time is ahead of the chain's:  *)
(* with SKEW = 0, never (tick.ts:67-105, windows.ts:24-35,                 *)
(* chain.ts:76-83).                                                        *)
(***************************************************************************)
THEOREM NeverTooEarly == Spec => []NothingTriedTooEarly
<1>1. IInv => NothingTriedTooEarly
  BY JobKinds DEF IInv, TasksTimely, Trying, Timely, NothingTriedTooEarly
<1> QED
  BY <1>1, Invariance, PTL

(***************************************************************************)
(* A finished job, succeeded or failed, is never re-run (jobs.ts:58-59).   *)
(***************************************************************************)
THEOREM FinishedIsFinal == Spec => FinishedJobsStay
<1> DEFINE Final == \A m \in Matches, j \in Jobs :
                      jobs[m][j].status \in {"Succeeded", "Failed"} => jobs'[m][j] = jobs[m][j]
<1>1. IInv /\ [Next]_vars => Final
  <2> SUFFICES ASSUME IInv, [Next]_vars PROVE Final
    OBVIOUS
  <2>1. CASE UNCHANGED jobs
    BY <2>1
  <2>2. ASSUME NEW w \in Workers, Loop(w) \/ Lose(w) PROVE Final
    BY <2>2, WorkerWrites, WrittenRows DEF IInv
  <2> QED
    BY <2>1, <2>2 DEF Next, vars, SentByOthers, RefundedByPlayers, Publish, Tick
<1> QED
  BY <1>1, Invariance, PTL DEF Spec, FinishedJobsStay

=============================================================================
