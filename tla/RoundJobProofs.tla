---------------------------- MODULE RoundJobProofs ----------------------------
(***************************************************************************)
(* Theorems about RoundJob for any number of overlapping attempts, players *)
(* and failures, any lease and requeue times, and any instant of a crash.  *)
(***************************************************************************)
EXTENDS RoundJob, TLAPS

-----------------------------------------------------------------------------
(***************************************************************************)
(* The inductive invariant                                                 *)
(***************************************************************************)

\* Attempt a made player p's reservation and has not recorded the outcome.
Asking(a, p) == branch[a][p] \in {"chat", "asked", "save"}

\* A reservation has one owner, and its row shows nothing else meanwhile.
OneAsks ==
    \A p \in Sides, a \in Attempts :
      Asking(a, p) =>
        /\ turn[p] = "Interrupted"
        /\ \A b \in Attempts : Asking(b, p) => b = a

\* A chat follows a reservation, and its sender had not sent one.
ChatsReserved ==
    \A p \in Sides :
      /\ chats[p] <= 1
      /\ turn[p] = "none" => chats[p] = 0
      /\ \A a \in Attempts : branch[a][p] = "chat" => chats[p] = 0

\* A turn that ended well knows an answer, the recorded one or a penalty.
AnswersKnown ==
    \A a \in Attempts, p \in Sides :
      /\ branch[a][p] = "save" => answer[a][p] \in Answers
      /\ branch[a][p] = "reread" => turn[p] # "none"
      /\ branch[a][p] = "done" =>
           /\ turn[p] # "none"
           /\ answer[a][p] \in Answers
           /\ answer[a][p] # "ApiError" => turn[p] = answer[a][p]

\* The row of a lease in force carries the expiry its holder computed.
LeaseKnown ==
    \A a \in Attempts :
      main[a] \in {"work", "turns", "finish"} /\ now <= expiry[a] =>
        holds(a) /\ job.until = expiry[a]

IInv ==
    /\ TypeOK
    /\ OneAsks
    /\ ChatsReserved
    /\ AnswersKnown
    /\ PostedAnswersAreRecorded
    /\ LeaseKnown

\* What the turns have is left alone: the steps of the lease and of the clock.
TurnsUntouched == UNCHANGED <<turn, posted, chats, branch, answer>>

\* What the lease has is left alone, except that an attempt may go to its catch.
LeaseUntouched ==
    /\ UNCHANGED <<job, expiry, now>>
    /\ \A a \in Attempts :
         main'[a] \in {"work", "turns", "finish"} => main[a] \in {"work", "turns", "finish"}

-----------------------------------------------------------------------------
(***************************************************************************)
(* Initial states                                                          *)
(***************************************************************************)

\* Nothing is reserved, leased or posted at the start.
LEMMA InitHolds == Init => IInv
<1> SUFFICES ASSUME Init PROVE IInv
  OBVIOUS
<1>1. TypeOK
  <2>1. strategy \in [Sides -> StoredStrategies]
    BY RoundAssumption DEF Init
  <2>2. outages \in 0..MaxOutages /\ now \in Nat
    BY RoundAssumption DEF Init
  <2>3. posted = NoPost /\ expiry \in [Attempts -> Nat] /\ chats \in [Sides -> Nat]
    BY DEF Init
  <2>4. turn \in [Sides -> TurnRow]
    BY DEF Init, TurnRow
  <2>5. branch \in [Attempts ->
                     [Sides -> {"off", "reserve", "reread", "chat", "asked", "save", "done"}]]
    BY DEF Init, Inactive
  <2>6. answer \in [Attempts -> [Sides -> Answers \cup {"none"}]]
    BY DEF Init, NoAnswer
  <2> QED
    BY <2>1, <2>2, <2>3, <2>4, <2>5, <2>6 DEF Init, TypeOK, NoJob, JobStatus
<1>2. OneAsks /\ ChatsReserved /\ AnswersKnown
  BY DEF Init, OneAsks, Asking, ChatsReserved, AnswersKnown, Inactive
<1>3. PostedAnswersAreRecorded /\ LeaseKnown
  BY DEF Init, PostedAnswersAreRecorded, LeaseKnown
<1> QED
  BY <1>1, <1>2, <1>3 DEF IInv

-----------------------------------------------------------------------------
(***************************************************************************)
(* Types                                                                   *)
(***************************************************************************)

\* The row a takeover writes, and the row a completing update leaves, are rows.
LEMMA JobRowType ==
    ASSUME TypeOK, NEW a \in Attempts, NEW row,
           row \in {job, LeasedTo(a), Completed(a, "Succeeded"),
                    Completed(a, "Pending"), Completed(a, "Failed")}
    PROVE  /\ row.status \in JobStatus
           /\ row.owner \in Attempts \cup {NoAttempt}
           /\ row.until \in Nat /\ row.retry \in Nat
<1>1. now + LEASE \in Nat /\ now + REQUEUE \in Nat
  BY LeaseAssumption DEF TypeOK
<1>2. CASE row = job
  BY <1>2 DEF TypeOK
<1>3. CASE row = LeasedTo(a)
  BY <1>1, <1>3 DEF LeasedTo, LeasedRow, JobStatus
<1>4. CASE row = Completed(a, "Succeeded")
  BY <1>1, <1>4 DEF Completed, CompletedRow, TypeOK, JobStatus
<1>5. CASE row = Completed(a, "Pending")
  BY <1>1, <1>5 DEF Completed, CompletedRow, TypeOK, JobStatus
<1>6. CASE row = Completed(a, "Failed")
  BY <1>1, <1>6 DEF Completed, CompletedRow, TypeOK, JobStatus
<1> QED
  BY <1>2, <1>3, <1>4, <1>5, <1>6

\* Every step of the lease's and the submission's code preserves the types.
LEMMA MainStepType ==
    ASSUME IInv, NEW a \in Attempts,
           \/ Start(a) \/ Acquire(a) \/ Skip(a) \/ BenchmarkFails(a) \/ ReadTurns(a)
           \/ Submit(a) \/ SubmitFails(a) \/ Finish(a) \/ Catch(a)
           \/ LoseLease(a) \/ LoseRead(a) \/ LoseCompletion(a) \/ Crash(a)
    PROVE  TypeOK'
<1> USE DEF IInv
<1>1. CASE Start(a)
  BY <1>1 DEF Start, Goto, TypeOK
<1>2. CASE Acquire(a)
  <2>1. job' = LeasedTo(a) /\ now + LEASE \in Nat
    BY <1>2, LeaseAssumption DEF Acquire, TypeOK
  <2> QED BY <1>2, <2>1, JobRowType DEF Acquire, Goto, TypeOK
<1>3. CASE Skip(a)
  BY <1>3 DEF Skip, Goto, TypeOK
<1>4. CASE BenchmarkFails(a)
  BY <1>4 DEF BenchmarkFails, Goto, TypeOK
<1>5. CASE ReadTurns(a)
  <2>1. \A p \in Sides : revive(turn[p]) \in Answers \cup {"none"}
    BY DEF revive, TypeOK, TurnRow, Answers
  <2> QED BY <1>5, <2>1 DEF ReadTurns, Goto, TypeOK
<1>6. CASE Submit(a)
  <2>1. answer[a] \in [Sides -> Answers]
    BY <1>6 DEF Submit, AllDone, AnswersKnown, TypeOK
  <2> QED BY <1>6, <2>1 DEF Submit, Goto, TypeOK
<1>7. CASE SubmitFails(a)
  BY <1>7 DEF SubmitFails, Goto, TypeOK
<1>8. CASE Finish(a)
  BY <1>8, JobRowType DEF Finish, Goto, TypeOK
<1>9. CASE Catch(a)
  <2>1. job' \in {Completed(a, "Pending"), Completed(a, "Failed")}
    BY <1>9 DEF Catch
  <2> QED BY <1>9, <2>1, JobRowType DEF Catch, Goto, TypeOK
<1>10. CASE LoseLease(a)
  <2>1. outages' \in 0..MaxOutages
    BY <1>10, RoundAssumption DEF LoseLease, Outage, TypeOK
  <2> QED BY <1>10, <2>1, JobRowType DEF LoseLease, Goto, TypeOK
<1>11. CASE LoseRead(a)
  <2>1. outages' \in 0..MaxOutages
    BY <1>11, RoundAssumption DEF LoseRead, Outage, TypeOK
  <2> QED BY <1>11, <2>1 DEF LoseRead, Goto, TypeOK
<1>12. CASE LoseCompletion(a)
  <2>1. outages' \in 0..MaxOutages
    BY <1>12, RoundAssumption DEF LoseCompletion, Outage, TypeOK
  <2>2. job' \in {job, Completed(a, "Succeeded"), Completed(a, "Pending"), Completed(a, "Failed")}
    BY <1>12 DEF LoseCompletion
  <2> QED BY <1>12, <2>1, <2>2, JobRowType DEF LoseCompletion, Goto, TypeOK
<1>13. CASE Crash(a)
  BY <1>13 DEF Crash, Goto, Inactive, TypeOK
<1> QED
  BY <1>1, <1>2, <1>3, <1>4, <1>5, <1>6, <1>7, <1>8, <1>9, <1>10, <1>11, <1>12, <1>13

\* Every step of a player's turn preserves the types.
LEMMA TurnStepType ==
    ASSUME IInv, NEW a \in Attempts, NEW p \in Sides, TurnStep(a, p) \/ LoseTurn(a, p)
    PROVE  TypeOK'
<1> USE DEF IInv
<1>1. CASE StrategyMismatch(a, p)
  BY <1>1 DEF StrategyMismatch, Throw, TurnGoto, TypeOK
<1>2. CASE Reserve(a, p)
  <2>1. turn' \in [Sides -> TurnRow]
    BY <1>2 DEF Reserve, TypeOK, TurnRow
  <2>2. \E place \in {"chat", "save"} : branch' = [branch EXCEPT ![a][p] = place]
    BY <1>2 DEF Reserve, TurnGoto
  <2>3. answer' = answer \/ answer' = [answer EXCEPT ![a][p] = "Malformed"]
    BY <1>2 DEF Reserve
  <2>4. answer' \in [Attempts -> [Sides -> Answers \cup {"none"}]]
    <3>1. answer \in [Attempts -> [Sides -> Answers \cup {"none"}]] /\ "Malformed" \in Answers
      BY DEF TypeOK, Answers
    <3> QED BY <2>3, <3>1
  <2>5. branch' \in [Attempts ->
                      [Sides -> {"off", "reserve", "reread", "chat", "asked", "save", "done"}]]
    BY <2>2 DEF TypeOK
  <2> QED BY <1>2, <2>1, <2>4, <2>5 DEF Reserve, TypeOK
<1>3. CASE ReserveTaken(a, p)
  BY <1>3 DEF ReserveTaken, TurnGoto, TypeOK
<1>4. CASE ReadExisting(a, p)
  <2>1. revive(turn[p]) \in Answers \cup {"none"}
    BY DEF revive, TypeOK, TurnRow, Answers
  <2> QED BY <1>4, <2>1 DEF ReadExisting, TurnGoto, TypeOK
<1>5. CASE SendChat(a, p)
  BY <1>5 DEF SendChat, TurnGoto, TypeOK
<1>6. CASE NoAgent(a, p)
  BY <1>6 DEF NoAgent, TurnGoto, TypeOK, Answers
<1>7. CASE Reply(a, p)
  BY <1>7 DEF Reply, TurnGoto, TypeOK
<1>8. CASE Save(a, p)
  <2>1. answer[a][p] \in TurnRow
    BY DEF TypeOK, TurnRow
  <2> QED BY <1>8, <2>1 DEF Save, TurnGoto, TypeOK
<1>9. CASE LoseTurn(a, p)
  <2>1. outages' \in 0..MaxOutages
    BY <1>9, RoundAssumption DEF LoseTurn, Outage, TypeOK
  <2>2. answer[a][p] \in TurnRow /\ turn[p] \in TurnRow /\ "Interrupted" \in TurnRow
    BY DEF TypeOK, TurnRow
  <2>3. turn' \in [Sides -> TurnRow]
    BY <1>9, <2>2 DEF LoseTurn, TypeOK
  <2> QED BY <1>9, <2>1, <2>3 DEF LoseTurn, Throw, TurnGoto, TypeOK
<1> QED
  BY <1>1, <1>2, <1>3, <1>4, <1>5, <1>6, <1>7, <1>8, <1>9 DEF TurnStep

-----------------------------------------------------------------------------
(***************************************************************************)
(* The lease                                                               *)
(***************************************************************************)

\* Steps that leave the row alone leave the claims on it alone.
LEMMA LeaseFramed ==
    ASSUME IInv, LeaseUntouched
    PROVE  LeaseKnown'
BY DEF IInv, LeaseUntouched, LeaseKnown, holds, HeldBy

\* A lease that somebody still works under is not claimable.
LEMMA TakeoverIsLate ==
    ASSUME IInv, claimable, NEW b \in Attempts, main[b] \in {"work", "turns", "finish"}
    PROVE  ~(now <= expiry[b])
<1> SUFFICES ASSUME now <= expiry[b] PROVE FALSE
  OBVIOUS
<1>1. job.status = "Leased" /\ job.until = expiry[b]
  BY DEF IInv, LeaseKnown, holds, HeldBy
<1>2. job.until < now
  BY <1>1 DEF claimable, Claimable
<1> QED
  BY <1>1, <1>2 DEF IInv, TypeOK

\* An attempt that leaves completes its own row or none: others keep theirs.
LEMMA CompletionIsOwn ==
    ASSUME IInv, NEW a \in Attempts, NEW status,
           job' \in {job, Completed(a, status)},
           main'[a] \notin {"work", "turns", "finish"},
           \A b \in Attempts \ {a} : main'[b] = main[b],
           UNCHANGED <<expiry, now>>
    PROVE  LeaseKnown'
<1> SUFFICES ASSUME NEW b \in Attempts,
                    main'[b] \in {"work", "turns", "finish"}, now <= expiry[b]
             PROVE  holds(b)' /\ job'.until = expiry[b]
  BY DEF LeaseKnown
<1>1. b # a /\ main[b] \in {"work", "turns", "finish"}
  OBVIOUS
<1>2. holds(b) /\ job.until = expiry[b]
  BY <1>1 DEF IInv, LeaseKnown
<1>3. ~holds(a)
  BY <1>1, <1>2 DEF holds, HeldBy
<1>4. job' = job
  BY <1>3 DEF Completed, CompletedRow, holds, HeldBy
<1> QED
  BY <1>2, <1>4 DEF holds, HeldBy

\* A takeover starts a lease of its own and disturbs no holder.
LEMMA TakeoverKeepsLeases ==
    ASSUME IInv, NEW a \in Attempts, claimable, job' \in {job, LeasedTo(a)},
           main[a] = "lease", \A b \in Attempts \ {a} : main'[b] = main[b],
           \A b \in Attempts \ {a} : expiry'[b] = expiry[b], now' = now,
           \/ main'[a] = "ended"
           \/ job' = LeasedTo(a) /\ expiry'[a] = now + LEASE
    PROVE  LeaseKnown'
<1> SUFFICES ASSUME NEW b \in Attempts,
                    main'[b] \in {"work", "turns", "finish"}, now <= expiry'[b]
             PROVE  holds(b)' /\ job'.until = expiry'[b]
  BY DEF LeaseKnown
<1>1. CASE b = a
  BY <1>1 DEF LeasedTo, LeasedRow, holds, HeldBy
<1>2. CASE b # a
  BY <1>2, TakeoverIsLate
<1> QED
  BY <1>1, <1>2

\* Every step of an attempt's main line preserves the claims on the lease.
LEMMA MainStepLease ==
    ASSUME IInv, NEW a \in Attempts,
           \/ Start(a) \/ Acquire(a) \/ Skip(a) \/ BenchmarkFails(a) \/ ReadTurns(a)
           \/ Submit(a) \/ SubmitFails(a) \/ Finish(a) \/ Catch(a)
           \/ LoseLease(a) \/ LoseRead(a) \/ LoseCompletion(a) \/ Crash(a)
    PROVE  LeaseKnown'
<1>0. main \in [Attempts -> {"idle", "lease", "work", "turns", "finish", "requeue", "fail", "ended"}]
      /\ expiry \in [Attempts -> Nat]
  BY DEF IInv, TypeOK
<1>1. CASE Acquire(a)
  <2>1. main' = [main EXCEPT ![a] = "work"] /\ expiry' = [expiry EXCEPT ![a] = now + LEASE]
    BY <1>1 DEF Acquire, Goto
  <2> QED BY <1>0, <1>1, <2>1, TakeoverKeepsLeases DEF Acquire
<1>2. CASE LoseLease(a)
  <2>1. main' = [main EXCEPT ![a] = "ended"] /\ expiry' = expiry
    BY <1>2 DEF LoseLease, Goto
  <2> QED BY <1>0, <1>2, <2>1, TakeoverKeepsLeases DEF LoseLease
<1>3. CASE Finish(a) \/ Catch(a)
  <2>1. PICK status : job' = Completed(a, status)
    BY <1>3 DEF Finish, Catch
  <2>2. main' = [main EXCEPT ![a] = "ended"] /\ UNCHANGED <<expiry, now>>
    BY <1>3 DEF Finish, Catch, Goto
  <2> QED BY <1>0, <2>1, <2>2, CompletionIsOwn
<1>4. CASE LoseCompletion(a)
  <2>1. PICK status : job' \in {job, Completed(a, status)}
    BY <1>4 DEF LoseCompletion
  <2>2. PICK place \in {"ended", "requeue", "fail"} : main' = [main EXCEPT ![a] = place]
    BY <1>4 DEF LoseCompletion, Goto
  <2>3. UNCHANGED <<expiry, now>>
    BY <1>4 DEF LoseCompletion
  <2> QED BY <1>0, <2>1, <2>2, <2>3, CompletionIsOwn
<1>5. CASE \/ Start(a) \/ Skip(a) \/ BenchmarkFails(a) \/ ReadTurns(a) \/ Submit(a)
           \/ SubmitFails(a) \/ LoseRead(a) \/ Crash(a)
  <2>1. UNCHANGED <<job, expiry, now>>
    BY <1>5 DEF Start, Skip, BenchmarkFails, ReadTurns, Submit, SubmitFails, LoseRead, Crash
  <2>2. PICK place : main' = [main EXCEPT ![a] = place]
                     /\ (place \in {"work", "turns", "finish"} => main[a] \in {"work", "turns"})
    BY <1>5 DEF Start, Skip, BenchmarkFails, ReadTurns, Submit, SubmitFails, LoseRead, Crash, Goto
  <2>3. LeaseUntouched
    BY <1>0, <2>1, <2>2 DEF LeaseUntouched
  <2> QED BY <2>3, LeaseFramed
<1> QED
  BY <1>1, <1>2, <1>3, <1>4, <1>5

\* Nothing a turn does concerns the lease.
LEMMA TurnStepLease ==
    ASSUME IInv, NEW a \in Attempts, NEW p \in Sides, TurnStep(a, p) \/ LoseTurn(a, p)
    PROVE  LeaseKnown'
<1>1. main \in [Attempts -> {"idle", "lease", "work", "turns", "finish", "requeue", "fail", "ended"}]
  BY DEF IInv, TypeOK
<1>2. UNCHANGED <<job, expiry, now>>
  BY DEF TurnStep, StrategyMismatch, Reserve, ReserveTaken, ReadExisting, SendChat,
         NoAgent, Reply, Save, LoseTurn
<1>3. CASE UNCHANGED main
  BY <1>2, <1>3, LeaseFramed DEF LeaseUntouched
<1>4. CASE \E error \in {"requeue", "fail"} : Throw(a, p, error)
  BY <1>1, <1>2, <1>4, LeaseFramed DEF LeaseUntouched, Throw
<1> QED
  BY <1>3, <1>4
  DEF TurnStep, StrategyMismatch, Reserve, ReserveTaken, ReadExisting, SendChat,
      NoAgent, Reply, Save, LoseTurn

-----------------------------------------------------------------------------
(***************************************************************************)
(* The turns                                                               *)
(***************************************************************************)

\* The other attempts' and the other player's turns are where they were.
OthersKept(a, p) ==
    \A b \in Attempts, q \in Sides :
      <<b, q>> # <<a, p>> => branch'[b][q] = branch[b][q] /\ answer'[b][q] = answer[b][q]

\* A turn step moves one turn of one attempt and touches one row at most.
LEMMA TurnStepIsLocal ==
    ASSUME IInv, NEW a \in Attempts, NEW p \in Sides, TurnStep(a, p) \/ LoseTurn(a, p)
    PROVE  /\ OthersKept(a, p)
           /\ \A q \in Sides : q # p => turn'[q] = turn[q] /\ chats'[q] = chats[q]
           /\ posted' = posted
<1>1. branch \in [Attempts -> [Sides -> {"off", "reserve", "reread", "chat", "asked", "save", "done"}]]
      /\ answer \in [Attempts -> [Sides -> Answers \cup {"none"}]]
      /\ turn \in [Sides -> TurnRow] /\ chats \in [Sides -> Nat]
  BY DEF IInv, TypeOK
<1>2. \E place : branch' = [branch EXCEPT ![a][p] = place]
  BY DEF TurnStep, StrategyMismatch, Reserve, ReserveTaken, ReadExisting, SendChat,
         NoAgent, Reply, Save, LoseTurn, Throw, TurnGoto
<1>3. answer' = answer \/ \E o : answer' = [answer EXCEPT ![a][p] = o]
  BY DEF TurnStep, StrategyMismatch, Reserve, ReserveTaken, ReadExisting, SendChat,
         NoAgent, Reply, Save, LoseTurn
<1>4. turn' = turn \/ \E row : turn' = [turn EXCEPT ![p] = row]
  BY DEF TurnStep, StrategyMismatch, Reserve, ReserveTaken, ReadExisting, SendChat,
         NoAgent, Reply, Save, LoseTurn
<1>5. chats' = chats \/ chats' = [chats EXCEPT ![p] = @ + 1]
  BY DEF TurnStep, StrategyMismatch, Reserve, ReserveTaken, ReadExisting, SendChat,
         NoAgent, Reply, Save, LoseTurn
<1>6. posted' = posted
  BY DEF TurnStep, StrategyMismatch, Reserve, ReserveTaken, ReadExisting, SendChat,
         NoAgent, Reply, Save, LoseTurn
<1>7. OthersKept(a, p)
  BY <1>1, <1>2, <1>3 DEF OthersKept
<1>8. \A q \in Sides : q # p => turn'[q] = turn[q] /\ chats'[q] = chats[q]
  BY <1>1, <1>4, <1>5
<1> QED
  BY <1>6, <1>7, <1>8

\* What one step may do to the turn it is about: reserve it, settle it, or pass.
TurnMoves(a, p) ==
    \/ /\ branch[a][p] = "reserve" /\ turn[p] = "none" /\ turn'[p] = "Interrupted"
       /\ chats'[p] = chats[p]
       /\ \/ branch'[a][p] = "off"
          \/ branch'[a][p] = "chat"
          \/ branch'[a][p] = "save" /\ answer'[a][p] \in Answers
    \/ /\ branch[a][p] = "save" /\ turn'[p] = answer[a][p]
       /\ branch'[a][p] \in {"off", "done"}
       /\ chats'[p] = chats[p] /\ answer'[a][p] = answer[a][p]
    \/ /\ branch[a][p] = "chat" /\ branch'[a][p] = "asked"
       /\ turn'[p] = turn[p] /\ chats'[p] = chats[p] + 1
    \/ /\ branch[a][p] \in {"chat", "asked"} /\ branch'[a][p] = "save"
       /\ answer'[a][p] \in Answers
       /\ turn'[p] = turn[p] /\ chats'[p] = chats[p]
    \/ /\ branch[a][p] = "reserve" /\ branch'[a][p] = "reread"
       /\ turn[p] # "none"
       /\ turn'[p] = turn[p] /\ chats'[p] = chats[p]
    \/ /\ branch[a][p] = "reread" /\ branch'[a][p] = "done"
       /\ answer'[a][p] = revive(turn[p])
       /\ turn'[p] = turn[p] /\ chats'[p] = chats[p]
    \/ /\ branch'[a][p] = "off"
       /\ turn'[p] = turn[p] /\ chats'[p] = chats[p]

\* These are indeed all the moves.
LEMMA TurnStepMoves ==
    ASSUME IInv, NEW a \in Attempts, NEW p \in Sides, TurnStep(a, p) \/ LoseTurn(a, p)
    PROVE  TurnMoves(a, p)
<1>0. branch \in [Attempts -> [Sides -> {"off", "reserve", "reread", "chat", "asked", "save", "done"}]]
      /\ answer \in [Attempts -> [Sides -> Answers \cup {"none"}]]
      /\ turn \in [Sides -> TurnRow] /\ chats \in [Sides -> Nat]
  BY DEF IInv, TypeOK
<1>1. CASE StrategyMismatch(a, p)
  BY <1>0, <1>1 DEF StrategyMismatch, Throw, TurnGoto, TurnMoves
<1>2. CASE Reserve(a, p)
  BY <1>0, <1>2 DEF Reserve, unreserved, TurnGoto, TurnMoves, Answers
<1>3. CASE ReserveTaken(a, p)
  BY <1>0, <1>3 DEF ReserveTaken, unreserved, TurnGoto, TurnMoves
<1>4. CASE ReadExisting(a, p)
  BY <1>0, <1>4 DEF ReadExisting, TurnGoto, TurnMoves
<1>5. CASE SendChat(a, p)
  BY <1>0, <1>5 DEF SendChat, TurnGoto, TurnMoves
<1>6. CASE NoAgent(a, p)
  BY <1>0, <1>6 DEF NoAgent, TurnGoto, TurnMoves, Answers
<1>7. CASE Reply(a, p)
  BY <1>0, <1>7 DEF Reply, TurnGoto, TurnMoves
<1>8. CASE Save(a, p)
  BY <1>0, <1>8 DEF Save, TurnGoto, TurnMoves
<1>9. CASE LoseTurn(a, p)
  <2>1. branch'[a][p] = "off" /\ chats' = chats /\ answer' = answer
    BY <1>0, <1>9 DEF LoseTurn, Throw, TurnGoto
  <2>2. \/ turn' = turn
        \/ branch[a][p] = "reserve" /\ turn[p] = "none" /\ turn'[p] = "Interrupted"
        \/ branch[a][p] = "save" /\ turn'[p] = answer[a][p]
    BY <1>0, <1>9 DEF LoseTurn
  <2> QED BY <2>1, <2>2 DEF TurnMoves
<1> QED
  BY <1>1, <1>2, <1>3, <1>4, <1>5, <1>6, <1>7, <1>8, <1>9 DEF TurnStep

\* The turns of a player may only move forward: answers stay, rows stay rows.
LEMMA TurnStepForward ==
    ASSUME IInv, NEW a \in Attempts, NEW p \in Sides, TurnStep(a, p) \/ LoseTurn(a, p),
           NEW q \in Sides
    PROVE  /\ turn[q] \in Answers => turn'[q] = turn[q]
           /\ turn[q] # "none" => turn'[q] # "none"
<1>1. CASE q # p
  BY <1>1, TurnStepIsLocal
<1>2. CASE q = p
  <2>1. branch[a][p] = "save" => turn[p] = "Interrupted" /\ answer[a][p] \in Answers
    BY DEF IInv, OneAsks, Asking, AnswersKnown
  <2>2. "none" \notin Answers /\ "Interrupted" \notin Answers
    BY DEF Answers
  <2>3. TurnMoves(a, p)
    BY TurnStepMoves
  <2> QED BY <1>2, <2>1, <2>2, <2>3 DEF TurnMoves
<1> QED
  BY <1>1, <1>2

\* A turn step leaves every reservation with one owner.
LEMMA TurnStepOneAsks ==
    ASSUME IInv, NEW a \in Attempts, NEW p \in Sides, TurnStep(a, p) \/ LoseTurn(a, p)
    PROVE  OneAsks'
<1> SUFFICES ASSUME NEW q \in Sides, NEW b \in Attempts, Asking(b, q)'
             PROVE  /\ turn'[q] = "Interrupted"
                    /\ \A c \in Attempts : Asking(c, q)' => c = b
  BY DEF OneAsks
<1>1. \A c \in Attempts : c # a \/ q # p => (Asking(c, q)' <=> Asking(c, q))
  BY TurnStepIsLocal DEF OthersKept, Asking
<1>2. CASE q # p
  BY <1>1, <1>2, TurnStepIsLocal DEF IInv, OneAsks
<1>3. CASE q = p
  <2>1. TurnMoves(a, p)
    BY TurnStepMoves
  <2>2. CASE branch[a][p] = "reserve" /\ turn[p] = "none" /\ turn'[p] = "Interrupted"
    <3>1. \A c \in Attempts : ~Asking(c, p)
      BY <2>2 DEF IInv, OneAsks
    <3> QED BY <1>1, <1>3, <2>2, <3>1
  <2>3. CASE Asking(a, p)
    <3>1. turn[p] = "Interrupted" /\ \A c \in Attempts : Asking(c, p) => c = a
      BY <2>3 DEF IInv, OneAsks
    <3>2. (Asking(a, p)' /\ turn'[p] = turn[p]) \/ ~Asking(a, p)'
      BY <2>1, <2>3 DEF TurnMoves, Asking
    <3>3. b = a
      BY <1>1, <1>3, <3>1
    <3> QED BY <1>1, <1>3, <3>1, <3>2, <3>3
  <2>4. CASE turn'[p] = turn[p] /\ ~Asking(a, p)'
    <3>1. b # a /\ Asking(b, p)
      BY <1>1, <1>3, <2>4
    <3> QED BY <1>1, <1>3, <2>4, <3>1 DEF IInv, OneAsks
  <2> QED
    BY <2>1, <2>2, <2>3, <2>4 DEF TurnMoves, Asking
<1> QED
  BY <1>2, <1>3

\* A turn step sends a chat only for a reservation that has none.
LEMMA TurnStepChats ==
    ASSUME IInv, NEW a \in Attempts, NEW p \in Sides, TurnStep(a, p) \/ LoseTurn(a, p)
    PROVE  ChatsReserved'
<1> SUFFICES ASSUME NEW q \in Sides
             PROVE  /\ chats'[q] <= 1
                    /\ turn'[q] = "none" => chats'[q] = 0
                    /\ \A b \in Attempts : branch'[b][q] = "chat" => chats'[q] = 0
  BY DEF ChatsReserved
<1>1. CASE q # p
  BY <1>1, TurnStepIsLocal DEF OthersKept, IInv, ChatsReserved
<1>2. CASE q = p
  <2>1. TurnMoves(a, p)
    BY TurnStepMoves
  <2>2. \A b \in Attempts : b # a => branch'[b][p] = branch[b][p]
    BY TurnStepIsLocal DEF OthersKept
  <2>3. /\ chats[p] <= 1
        /\ turn[p] = "none" => chats[p] = 0
        /\ \A b \in Attempts : branch[b][p] = "chat" => chats[p] = 0
    BY DEF IInv, ChatsReserved
  <2>4. turn[p] # "none" => turn'[p] # "none"
    BY TurnStepForward
  <2>5. CASE branch[a][p] = "chat" /\ branch'[a][p] = "asked" /\ chats'[p] = chats[p] + 1
             /\ turn'[p] = turn[p]
    <3>1. turn[p] = "Interrupted" /\ \A b \in Attempts : Asking(b, p) => b = a
      BY <2>5 DEF IInv, OneAsks, Asking
    <3>2. \A b \in Attempts : branch'[b][p] # "chat"
      BY <2>2, <2>5, <3>1 DEF Asking
    <3> QED BY <1>2, <2>3, <2>5, <3>1, <3>2
  <2>6. CASE branch[a][p] = "reserve" /\ turn[p] = "none" /\ turn'[p] = "Interrupted"
             /\ chats'[p] = chats[p]
    BY <1>2, <2>3, <2>6
  <2>7. CASE branch'[a][p] # "chat" /\ chats'[p] = chats[p]
    BY <1>2, <2>2, <2>3, <2>4, <2>7
  <2> QED
    BY <2>1, <2>5, <2>6, <2>7 DEF TurnMoves
<1> QED
  BY <1>1, <1>2

\* What a finished turn knows stays what its row shows.
LEMMA TurnStepAnswers ==
    ASSUME IInv, NEW a \in Attempts, NEW p \in Sides, TurnStep(a, p) \/ LoseTurn(a, p)
    PROVE  AnswersKnown'
<1> SUFFICES ASSUME NEW b \in Attempts, NEW q \in Sides
             PROVE  /\ branch'[b][q] = "save" => answer'[b][q] \in Answers
                    /\ branch'[b][q] = "reread" => turn'[q] # "none"
                    /\ branch'[b][q] = "done" =>
                         /\ turn'[q] # "none"
                         /\ answer'[b][q] \in Answers
                         /\ answer'[b][q] # "ApiError" => turn'[q] = answer'[b][q]
  BY DEF AnswersKnown
<1>1. /\ branch[b][q] = "save" => answer[b][q] \in Answers
      /\ branch[b][q] = "reread" => turn[q] # "none"
      /\ branch[b][q] = "done" =>
           /\ turn[q] # "none"
           /\ answer[b][q] \in Answers
           /\ answer[b][q] # "ApiError" => turn[q] = answer[b][q]
  BY DEF IInv, AnswersKnown
<1>2. /\ turn[q] \in Answers => turn'[q] = turn[q]
      /\ turn[q] # "none" => turn'[q] # "none"
  BY TurnStepForward
<1>3. CASE <<b, q>> # <<a, p>>
  <2>1. branch'[b][q] = branch[b][q] /\ answer'[b][q] = answer[b][q]
    BY <1>3, TurnStepIsLocal DEF OthersKept
  <2> QED BY <1>1, <1>2, <2>1
<1>4. CASE b = a /\ q = p
  <2>1. turn[p] \in TurnRow
    BY DEF IInv, TypeOK
  <2>2. TurnMoves(a, p)
    BY TurnStepMoves
  <2>3. CASE branch[a][p] = "reread" /\ answer'[a][p] = revive(turn[p])
    BY <1>1, <1>2, <1>4, <2>1, <2>2, <2>3 DEF TurnMoves, revive, TurnRow, Answers
  <2>4. CASE branch[a][p] # "reread"
    BY <1>1, <1>2, <1>4, <2>2, <2>4 DEF TurnMoves, Answers
  <2>5. CASE branch'[a][p] = "off"
    BY <1>4, <2>5
  <2> QED BY <2>2, <2>3, <2>4, <2>5 DEF TurnMoves
<1> QED
  BY <1>3, <1>4

\* A posted round stays true of rows that only move forward.
LEMMA TurnStepPosted ==
    ASSUME IInv, NEW a \in Attempts, NEW p \in Sides, TurnStep(a, p) \/ LoseTurn(a, p)
    PROVE  PostedAnswersAreRecorded'
<1> SUFFICES ASSUME posted' # NoPost, NEW q \in Sides
             PROVE  /\ turn'[q] # "none"
                    /\ posted'[q] # "ApiError" => turn'[q] = posted'[q]
  BY DEF PostedAnswersAreRecorded
<1>1. posted' = posted
  BY TurnStepIsLocal
<1>2. posted[q] \in Answers
  BY <1>1 DEF IInv, TypeOK
<1>3. turn[q] # "none" /\ (posted[q] # "ApiError" => turn[q] = posted[q])
  BY <1>1 DEF IInv, PostedAnswersAreRecorded
<1> QED
  BY <1>1, <1>2, <1>3, TurnStepForward

\* What the invariant says of the turns holds on if nothing of theirs changes.
LEMMA TurnsFramed ==
    ASSUME IInv, TurnsUntouched
    PROVE  OneAsks' /\ ChatsReserved' /\ AnswersKnown' /\ PostedAnswersAreRecorded'
<1>1. OneAsks'
  BY DEF IInv, TurnsUntouched, OneAsks, Asking
<1>2. ChatsReserved'
  BY DEF IInv, TurnsUntouched, ChatsReserved
<1>3. AnswersKnown'
  BY DEF IInv, TurnsUntouched, AnswersKnown
<1>4. PostedAnswersAreRecorded'
  BY DEF IInv, TurnsUntouched, PostedAnswersAreRecorded
<1> QED
  BY <1>1, <1>2, <1>3, <1>4

\* Resuming a round, posting it and dying in it keep the turns in order.
LEMMA MainStepTurns ==
    ASSUME IInv, NEW a \in Attempts,
           \/ Start(a) \/ Acquire(a) \/ Skip(a) \/ BenchmarkFails(a) \/ ReadTurns(a)
           \/ Submit(a) \/ SubmitFails(a) \/ Finish(a) \/ Catch(a)
           \/ LoseLease(a) \/ LoseRead(a) \/ LoseCompletion(a) \/ Crash(a)
    PROVE  OneAsks' /\ ChatsReserved' /\ AnswersKnown' /\ PostedAnswersAreRecorded'
<1>0. branch \in [Attempts -> [Sides -> {"off", "reserve", "reread", "chat", "asked", "save", "done"}]]
      /\ answer \in [Attempts -> [Sides -> Answers \cup {"none"}]]
      /\ turn \in [Sides -> TurnRow]
  BY DEF IInv, TypeOK
<1>1. CASE ReadTurns(a)
  <2>1. UNCHANGED <<turn, chats, posted>>
    BY <1>1 DEF ReadTurns
  <2>2. \A p \in Sides : /\ branch'[a][p] \in {"reserve", "done"}
                         /\ branch'[a][p] = "done" => turn[p] # "none"
                         /\ answer'[a][p] = revive(turn[p])
    BY <1>0, <1>1 DEF ReadTurns
  <2>3. \A b \in Attempts : b # a => branch'[b] = branch[b] /\ answer'[b] = answer[b]
    BY <1>0, <1>1 DEF ReadTurns
  <2>4. OneAsks'
    BY <2>1, <2>2, <2>3 DEF IInv, OneAsks, Asking
  <2>5. ChatsReserved'
    BY <2>1, <2>2, <2>3 DEF IInv, ChatsReserved
  <2>6. AnswersKnown'
    <3> SUFFICES ASSUME NEW b \in Attempts, NEW p \in Sides
                 PROVE  /\ branch'[b][p] = "save" => answer'[b][p] \in Answers
                        /\ branch'[b][p] = "reread" => turn'[p] # "none"
                        /\ branch'[b][p] = "done" =>
                             /\ turn'[p] # "none"
                             /\ answer'[b][p] \in Answers
                             /\ answer'[b][p] # "ApiError" => turn'[p] = answer'[b][p]
      BY DEF AnswersKnown
    <3>1. CASE b = a
      <4>1. turn[p] \in TurnRow
        BY <1>0
      <4> QED BY <2>1, <2>2, <3>1, <4>1 DEF revive, TurnRow, Answers
    <3>2. CASE b # a
      BY <2>1, <2>3, <3>2 DEF IInv, AnswersKnown
    <3> QED BY <3>1, <3>2
  <2>7. PostedAnswersAreRecorded'
    BY <2>1 DEF IInv, PostedAnswersAreRecorded
  <2> QED BY <2>4, <2>5, <2>6, <2>7
<1>2. CASE Submit(a)
  <2>1. UNCHANGED <<turn, chats, branch, answer>> /\ posted' = answer[a]
    BY <1>2 DEF Submit
  <2>2. \A p \in Sides : branch[a][p] = "done"
    BY <1>2 DEF Submit, AllDone
  <2>3. OneAsks'
    BY <2>1 DEF IInv, OneAsks, Asking
  <2>4. ChatsReserved'
    BY <2>1 DEF IInv, ChatsReserved
  <2>5. AnswersKnown'
    BY <2>1 DEF IInv, AnswersKnown
  <2>6. PostedAnswersAreRecorded'
    BY <2>1, <2>2 DEF IInv, AnswersKnown, PostedAnswersAreRecorded
  <2> QED BY <2>3, <2>4, <2>5, <2>6
<1>3. CASE Crash(a)
  <2>1. UNCHANGED <<turn, chats, posted, answer>>
    BY <1>3 DEF Crash
  <2>2. \A b \in Attempts, p \in Sides :
          IF b = a THEN branch'[b][p] = "off" ELSE branch'[b][p] = branch[b][p]
    BY <1>0, <1>3 DEF Crash, Inactive
  <2>3. OneAsks'
    BY <2>1, <2>2 DEF IInv, OneAsks, Asking
  <2>4. ChatsReserved'
    BY <2>1, <2>2 DEF IInv, ChatsReserved
  <2>5. AnswersKnown'
    BY <2>1, <2>2 DEF IInv, AnswersKnown
  <2>6. PostedAnswersAreRecorded'
    BY <2>1 DEF IInv, PostedAnswersAreRecorded
  <2> QED BY <2>3, <2>4, <2>5, <2>6
<1>4. CASE \/ Start(a) \/ Acquire(a) \/ Skip(a) \/ BenchmarkFails(a) \/ SubmitFails(a)
           \/ Finish(a) \/ Catch(a) \/ LoseLease(a) \/ LoseRead(a) \/ LoseCompletion(a)
  <2>1. TurnsUntouched
    BY <1>4 DEF Start, Acquire, Skip, BenchmarkFails, SubmitFails, Finish, Catch,
               LoseLease, LoseRead, LoseCompletion, TurnsUntouched
  <2> QED BY <2>1, TurnsFramed
<1> QED
  BY <1>1, <1>2, <1>3, <1>4

-----------------------------------------------------------------------------
(***************************************************************************)
(* The theorems                                                            *)
(***************************************************************************)

\* Every step of the specification is one of the steps the lemmas treat.
LEMMA NextSplits ==
    ASSUME [Next]_vars
    PROVE  \/ \E a \in Attempts :
                \/ Start(a) \/ Acquire(a) \/ Skip(a) \/ BenchmarkFails(a) \/ ReadTurns(a)
                \/ Submit(a) \/ SubmitFails(a) \/ Finish(a) \/ Catch(a)
                \/ LoseLease(a) \/ LoseRead(a) \/ LoseCompletion(a) \/ Crash(a)
           \/ \E a \in Attempts, p \in Sides : TurnStep(a, p) \/ LoseTurn(a, p)
           \/ Tick
           \/ UNCHANGED vars
BY Zenon DEF Next, Step, Loss

\* Every step keeps the invariant.
LEMMA NextKeeps == IInv /\ [Next]_vars => IInv'
<1> SUFFICES ASSUME IInv, [Next]_vars PROVE IInv'
  OBVIOUS
<1>1. ASSUME NEW a \in Attempts,
             \/ Start(a) \/ Acquire(a) \/ Skip(a) \/ BenchmarkFails(a) \/ ReadTurns(a)
             \/ Submit(a) \/ SubmitFails(a) \/ Finish(a) \/ Catch(a)
             \/ LoseLease(a) \/ LoseRead(a) \/ LoseCompletion(a) \/ Crash(a)
      PROVE  IInv'
  BY <1>1, MainStepType, MainStepTurns, MainStepLease DEF IInv
<1>2. ASSUME NEW a \in Attempts, NEW p \in Sides, TurnStep(a, p) \/ LoseTurn(a, p)
      PROVE  IInv'
  BY <1>2, TurnStepType, TurnStepOneAsks, TurnStepChats, TurnStepAnswers, TurnStepPosted,
     TurnStepLease DEF IInv
<1>3. CASE Tick
  <2>1. TypeOK'
    BY <1>3 DEF IInv, TypeOK, Tick, control
  <2>2. TurnsUntouched
    BY <1>3 DEF Tick, control, TurnsUntouched
  <2>3. LeaseKnown'
    <3> SUFFICES ASSUME NEW b \in Attempts,
                        main'[b] \in {"work", "turns", "finish"}, now' <= expiry'[b]
                 PROVE  holds(b)' /\ job'.until = expiry'[b]
      BY DEF LeaseKnown
    <3>1. main[b] \in {"work", "turns", "finish"} /\ now + 1 <= expiry[b]
      BY <1>3 DEF Tick, control
    <3>2. now <= expiry[b]
      BY <3>1 DEF IInv, TypeOK
    <3>3. holds(b) /\ job.until = expiry[b]
      BY <3>1, <3>2 DEF IInv, LeaseKnown
    <3> QED BY <1>3, <3>3 DEF Tick, control, holds, HeldBy
  <2> QED BY <2>1, <2>2, <2>3, TurnsFramed DEF IInv
<1>4. CASE UNCHANGED vars
  <2>1. TypeOK'
    BY <1>4 DEF IInv, TypeOK, vars
  <2>2. TurnsUntouched
    BY <1>4 DEF vars, TurnsUntouched
  <2>3. LeaseKnown'
    BY <1>4, LeaseFramed DEF vars, LeaseUntouched
  <2> QED BY <2>1, <2>2, <2>3, TurnsFramed DEF IInv
<1> QED
  BY <1>1, <1>2, <1>3, <1>4, NextSplits

\* The inductive invariant holds in every reachable state.
THEOREM Invariance == Spec => []IInv
BY InitHolds, NextKeeps, PTL DEF Spec

\* Every reachable state of a round is well typed (TypeOK).
THEOREM TypeCorrect == Spec => []TypeOK
<1>1. IInv => TypeOK
  BY DEF IInv
<1> QED
  BY <1>1, Invariance, PTL

\* However many attempts overlap, fail or die, no agent is sent the round's
\* prompt twice (runAgentTurn's reservation).
THEOREM ChatAtMostOnce == Spec => []AtMostOneChat
<1>1. IInv => AtMostOneChat
  BY DEF IInv, ChatsReserved, AtMostOneChat
<1> QED
  BY <1>1, Invariance, PTL

\* A lease in force is its holder's: late attempts neither complete the job
\* under it nor are admitted beside it (withJobLease).
THEOREM LeaseExclusive == Spec => []LeaseHolderUndisturbed
<1>1. IInv => LeaseHolderUndisturbed
  BY DEF IInv, LeaseKnown, LeaseHolderUndisturbed
<1> QED
  BY <1>1, Invariance, PTL

\* The chain never shows an answer the database does not, except a penalty
\* (submitRound after runRoundTurns).
THEOREM PostedRecorded == Spec => []PostedAnswersAreRecorded
<1>1. IInv => PostedAnswersAreRecorded
  BY DEF IInv
<1> QED
  BY <1>1, Invariance, PTL

\* A recorded outcome of a turn is never rewritten, by no attempt and no turn
\* an abandoned attempt left running (runAgentTurn).
THEOREM RecordedForGood == Spec => AnswersAreFinal
<1>1. IInv /\ [Next]_vars => [\A p \in Sides : turn[p] \in Answers => turn'[p] = turn[p]]_vars
  <2> SUFFICES ASSUME IInv, [Next]_vars, NEW p \in Sides, turn[p] \in Answers
               PROVE  turn'[p] = turn[p]
    OBVIOUS
  <2>1. CASE \E a \in Attempts, q \in Sides : TurnStep(a, q) \/ LoseTurn(a, q)
    BY <2>1, TurnStepForward
  <2>2. CASE UNCHANGED turn
    BY <2>2
  <2>3. CASE \E a \in Attempts :
               \/ Start(a) \/ Acquire(a) \/ Skip(a) \/ BenchmarkFails(a) \/ ReadTurns(a)
               \/ Submit(a) \/ SubmitFails(a) \/ Finish(a) \/ Catch(a)
               \/ LoseLease(a) \/ LoseRead(a) \/ LoseCompletion(a) \/ Crash(a)
    BY <2>3 DEF Start, Acquire, Skip, BenchmarkFails, ReadTurns, Submit, SubmitFails,
                Finish, Catch, LoseLease, LoseRead, LoseCompletion, Crash
  <2>4. Tick \/ UNCHANGED vars => UNCHANGED turn
    BY DEF Tick, vars
  <2> QED
    BY <2>1, <2>2, <2>3, <2>4, NextSplits
<1> QED
  BY <1>1, Invariance, PTL DEF Spec, AnswersAreFinal
=============================================================================
