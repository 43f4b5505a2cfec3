----------------------------- MODULE BattleAgents -----------------------------
(***************************************************************************)
(* The turns of several rounds that share a player's battle agent: finding *)
(* or creating the agent (ensureAgent, createBattleAgent), proving its     *)
(* wallet empty, the one paid chat and the recovery of a reply from the    *)
(* agent's history (requestPrediction, recoverReply), all through          *)
(* fetchJson with its timer and its retries.  Rounds of different matches  *)
(* run at the same time, in one worker or several; the provider answers    *)
(* late, partly or never, and its agents' wallets are anybody's to fund.   *)
(***************************************************************************)
EXTENDS Integers, Sequences, FiniteSets

CONSTANTS
    Turns,             \* turns past their reservation, each with a prompt of its own
    Players,
    PlayerOf,          \* [Turns -> Players]
    Agents,            \* identities the provider may give out
    NoAgent,
    Kinds,             \* what a wallet may hold, of "lamports", "token" and "token2022"
    HISTORY_RETRIES,   \* retries of GET /messages: clawpump.ts:212
    HistoryLimit       \* messages?limit=20

VARIABLES
    row,        \* the BattleAgent rows, [Players -> RowType]
    owner,      \* [Agents -> Players or NoAgent]: agents the provider has created
    holds,      \* [Agents -> SUBSET Kinds]: what is in the wallet
    heldOn,     \* [Turns -> SUBSET Kinds]: history, what has been in the wallet of the
                \* turn's agent without a break since the turn took that agent up
    history,    \* [Agents -> Seq(Message)], in order of createdAt
    place,      \* [Turns -> Places]
    agent,      \* [Turns -> the agent the turn works with]
    attempt,    \* [Turns -> attempt of the call in progress]
    wire,       \* requests that have not reached the provider, of [turn, call]
    reply,      \* [Turns -> what the provider has answered to the call, if anything]
    headers,    \* turns that received the headers of that answer
    sent,       \* [Turns -> [PaidCalls -> Nat]]: requests sent for calls that cost
    used        \* [Turns -> the message a turn parsed], NoText if none

vars ==
    <<row, owner, holds, heldOn, history, place, agent, attempt, wire, reply, headers, sent, used>>

RowType == [agent : Agents \cup {NoAgent}, status : {"none", "Active", "Quarantined"}]
PaidCalls == {"create", "chat"}
Calls == PaidCalls \cup {"start", "messages"}
Outcomes == {"Valid", "Timeout", "ApiError", "Malformed", "Interrupted"}
Checks == {"check", "checkTokens", "checkNew", "checkNewTokens"}
Places == {"waiting", "find", "checked", "record"} \cup Checks \cup Calls \cup Outcomes

\* A stored message: a prompt, or the answer to turn "of"'s prompt.  A sound answer is one
\* JSON object of the schema, with a positive price, echoing the prompt it answers.
Message == [role : {"user", "assistant"}, of : Turns, sound : BOOLEAN]
Prompt(t) == [role |-> "user", of |-> t, sound |-> FALSE]
NoText == [role |-> "none"]

Nothing == [status |-> "none"]
Declined == [status : {"none", "refused", "broken"}]
Replies(call) ==
    Declined \cup
    CASE call = "create" -> [status : {"ok"}, agent : Agents, wallet : BOOLEAN]
      [] call = "chat" -> [status : {"ok"}, text : {NoText} \cup Message]
      [] call = "messages" -> [status : {"ok"}, messages : Seq(Message)]
      [] OTHER -> [status : {"ok"}]

ASSUME AgentsAssumption ==
    /\ PlayerOf \in [Turns -> Players]
    /\ NoAgent \notin Agents /\ NoAgent \notin Players
    /\ Kinds \subseteq {"lamports", "token", "token2022"}
    /\ HISTORY_RETRIES \in Nat /\ HistoryLimit \in Nat

Row(t) == row[PlayerOf[t]]
Running(t) == place[t] \notin {"waiting"} \cup Outcomes
Move(t, p) == place' = [place EXCEPT ![t] = p]

-----------------------------------------------------------------------------
(***************************************************************************)
(* fetchJson: one attempt is a request on the wire, then the headers, then *)
(* the body, with one timer over all of it.  Attempts beyond the first     *)
(* only where the call site asked for them, and never after a 4xx.         *)
(***************************************************************************)

\* Seeded bug: retrying is the default, as for the price providers' GETs.
RetriesByDefault(call) == HISTORY_RETRIES
retries(call) == IF call = "messages" THEN HISTORY_RETRIES ELSE 0

Request(t, call) ==
    /\ wire' = wire \cup {[turn |-> t, call |-> call]}
    /\ reply' = [reply EXCEPT ![t] = Nothing]
    /\ headers' = headers \ {t}
    /\ sent' = IF call \in PaidCalls THEN [sent EXCEPT ![t][call] = @ + 1] ELSE sent

\* fetchJson is called: its first attempt.
Fetch(t, call) ==
    /\ Move(t, call)
    /\ attempt' = [attempt EXCEPT ![t] = 0]
    /\ Request(t, call)

\* Leaving a call, or failing without one: nothing is waited for any more.
Leave(t, to) ==
    /\ Move(t, to)
    /\ reply' = [reply EXCEPT ![t] = Nothing]
    /\ headers' = headers \ {t}
    /\ UNCHANGED <<attempt, wire, sent>>

Worthwhile(t, error) == error # "refused" /\ attempt[t] < retries(place[t])

Retry(t, error) ==
    /\ Worthwhile(t, error)
    /\ attempt' = [attempt EXCEPT ![t] = @ + 1]
    /\ Request(t, place[t])
    /\ UNCHANGED place

\* The last error is thrown: what each caller makes of it.
GiveUp(t, error) ==
    /\ ~Worthwhile(t, error)
    /\ Leave(t, CASE place[t] = "messages" -> "Malformed"
                  [] place[t] = "chat" /\ error = "timeout" -> "Timeout"
                  [] OTHER -> "ApiError")

Fails(t, error) ==
    /\ Retry(t, error) \/ GiveUp(t, error)
    /\ UNCHANGED <<row, owner, holds, heldOn, history, agent, used>>

HeadersArrive(t) ==
    /\ place[t] \in Calls
    /\ reply[t] # Nothing /\ t \notin headers
    /\ headers' = headers \cup {t}
    /\ UNCHANGED <<row, owner, holds, heldOn, history, place, agent, attempt, wire, reply, sent, used>>

\* Seeded bug: the timer is cleared once the headers are there.
TimedUntilHeaders(t) == t \notin headers
timed(t) == TRUE

\* controller.abort(), which ends an attempt wherever it is.
TimesOut(t) ==
    /\ place[t] \in Calls
    /\ timed(t)
    /\ Fails(t, "timeout")

TransportFails(t) ==
    /\ place[t] \in Calls
    /\ Fails(t, "transport")

\* A complete answer that is a 4xx ("refused"), or a 5xx, no JSON or of another shape.
BadAnswer(t) ==
    /\ place[t] \in Calls /\ t \in headers
    /\ reply[t].status # "ok"
    /\ Fails(t, reply[t].status)

Returns(t, call) == place[t] = call /\ t \in headers /\ reply[t].status = "ok"

-----------------------------------------------------------------------------
(***************************************************************************)
(* The provider: it serves a request it received whether or not anybody    *)
(* still waits for the answer, or not at all.                              *)
(***************************************************************************)
Tell(r, answer) ==
    reply' = IF place[r.turn] = r.call THEN [reply EXCEPT ![r.turn] = answer] ELSE reply

Serve(r) ==
    /\ r \in wire
    /\ UNCHANGED <<row, holds, heldOn, place, agent, attempt, headers, sent, used>>

CreatesAgent(r) ==
    /\ Serve(r) /\ r.call = "create"
    /\ wire' = wire \ {r}
    /\ \E a \in Agents, hasWallet \in BOOLEAN :
        /\ owner[a] = NoAgent
        /\ owner' = [owner EXCEPT ![a] = PlayerOf[r.turn]]
        /\ Tell(r, [status |-> "ok", agent |-> a, wallet |-> hasWallet])
    /\ UNCHANGED history

StartsAgent(r) ==
    /\ Serve(r) /\ r.call = "start"
    /\ wire' = wire \ {r}
    /\ Tell(r, [status |-> "ok"])
    /\ UNCHANGED <<owner, history>>

\* The prompt enters the agent's history; the answer follows when the model is done.
ReceivesPrompt(r) ==
    /\ Serve(r) /\ r.call = "chat"
    /\ wire' = (wire \ {r}) \cup {[turn |-> r.turn, call |-> "answer"]}
    /\ history' = [history EXCEPT ![agent[r.turn]] = Append(@, Prompt(r.turn))]
    /\ UNCHANGED <<owner, reply>>

\* The stored answer, and the response to the request: the answer, or an empty one.
Answers(r) ==
    /\ Serve(r) /\ r.call = "answer"
    /\ wire' = wire \ {r}
    /\ \E sound \in BOOLEAN :
        LET message == [role |-> "assistant", of |-> r.turn, sound |-> sound] IN
        /\ history' = [history EXCEPT ![agent[r.turn]] = Append(@, message)]
        /\ \E content \in {message, NoText} :
              Tell([turn |-> r.turn, call |-> "chat"], [status |-> "ok", text |-> content])
    /\ UNCHANGED owner

ListsMessages(r) ==
    /\ Serve(r) /\ r.call = "messages"
    /\ wire' = wire \ {r}
    /\ LET all == history[agent[r.turn]]
           first == IF Len(all) > HistoryLimit THEN Len(all) - HistoryLimit + 1 ELSE 1
       IN Tell(r, [status |-> "ok", messages |-> SubSeq(all, first, Len(all))])
    /\ UNCHANGED <<owner, history>>

Declines(r) ==
    /\ Serve(r) /\ r.call \in Calls
    /\ wire' = wire \ {r}
    /\ \E status \in {"refused", "broken"} : Tell(r, [status |-> status])
    /\ UNCHANGED <<owner, history>>

Provider(r) ==
    \/ CreatesAgent(r) \/ StartsAgent(r) \/ ReceivesPrompt(r) \/ Answers(r)
    \/ ListsMessages(r) \/ Declines(r)

-----------------------------------------------------------------------------
(***************************************************************************)
(* ensureAgent: the player's recorded agent, or a new one that is created, *)
(* started, found empty and recorded before it is ever asked.              *)
(***************************************************************************)
Step(t) == UNCHANGED <<owner, holds, history, used>>

\* From here on the turn works with a, or goes on with the agent it has.
TakesUp(t, a) ==
    /\ agent' = [agent EXCEPT ![t] = a]
    /\ heldOn' = [heldOn EXCEPT ![t] = holds[a]]

SameAgent == UNCHANGED <<agent, heldOn>>

Begin(t) ==
    /\ place[t] = "waiting"
    /\ Move(t, "find")
    /\ Step(t)
    /\ SameAgent
    /\ UNCHANGED <<row, attempt, wire, reply, headers, sent>>

FindsActive(t) ==
    /\ place[t] = "find" /\ Row(t).status = "Active"
    /\ TakesUp(t, Row(t).agent)
    /\ Move(t, "check")
    /\ Step(t)
    /\ UNCHANGED <<row, attempt, wire, reply, headers, sent>>

FindsRetired(t) ==
    /\ place[t] = "find" /\ Row(t).status = "Quarantined"
    /\ Leave(t, "ApiError")
    /\ Step(t)
    /\ SameAgent
    /\ UNCHANGED row

FindsNone(t) ==
    /\ place[t] = "find" /\ Row(t).status = "none"
    /\ Fetch(t, "create")
    /\ Step(t)
    /\ SameAgent
    /\ UNCHANGED row

Created(t) ==
    /\ Returns(t, "create")
    /\ IF reply[t].wallet
       THEN TakesUp(t, reply[t].agent) /\ Fetch(t, "start")
       ELSE Leave(t, "ApiError") /\ SameAgent
    /\ Step(t)
    /\ UNCHANGED row

Started(t) ==
    /\ Returns(t, "start")
    /\ Leave(t, "checkNew")
    /\ Step(t)
    /\ SameAgent
    /\ UNCHANGED row

\* assertEmpty: the lamports first, then the accounts of both token programs.
looked(t) ==
    IF place[t] \in {"check", "checkNew"} THEN {"lamports"} ELSE {"token", "token2022"}

\* Seeded bug: an agent on record was found empty when it was created.
TrustsRecord(t) == place[t] \in {"check", "checkTokens"} \/ holds[agent[t]] \cap looked(t) = {}
empty(t) == holds[agent[t]] \cap looked(t) = {}

\* Only once both reads found nothing is the time of the check, or the new agent, recorded.
FindsEmpty(t) ==
    /\ place[t] \in Checks /\ empty(t)
    /\ Leave(t, CASE place[t] = "check" -> "checkTokens"
                  [] place[t] = "checkTokens" -> "checked"
                  [] place[t] = "checkNew" -> "checkNewTokens"
                  [] place[t] = "checkNewTokens" -> "record")
    /\ Step(t)
    /\ SameAgent
    /\ UNCHANGED row

FindsFunds(t) ==
    /\ place[t] \in Checks /\ ~empty(t)
    /\ Leave(t, "ApiError")
    /\ Step(t)
    /\ SameAgent
    /\ UNCHANGED row

\* lastZeroBalanceCheck, which nothing reads; what comes in meanwhile is not seen.
NotesCheck(t) ==
    /\ place[t] = "checked"
    /\ Fetch(t, "chat")
    /\ Step(t)
    /\ SameAgent
    /\ UNCHANGED row

\* Seeded bug: an upsert, or a violated unique constraint taken for success.
Overwrites(t) == TRUE
unrecorded(t) == Row(t).status = "none"

Records(t) ==
    /\ place[t] = "record" /\ unrecorded(t)
    /\ row' = [row EXCEPT ![PlayerOf[t]] = [agent |-> agent[t], status |-> "Active"]]
    /\ Fetch(t, "chat")
    /\ Step(t)
    /\ SameAgent

RecordTaken(t) ==
    /\ place[t] = "record" /\ ~unrecorded(t)
    /\ Leave(t, "ApiError")
    /\ Step(t)
    /\ SameAgent
    /\ UNCHANGED row

\* A database or RPC call throws, the insert before or after it took effect.
LookupFails(t) ==
    /\ place[t] \in {"find", "checked", "record"} \cup Checks
    /\ \/ UNCHANGED row
       \/ /\ place[t] = "record" /\ unrecorded(t)
          /\ row' = [row EXCEPT ![PlayerOf[t]] = [agent |-> agent[t], status |-> "Active"]]
    /\ Leave(t, "ApiError")
    /\ Step(t)
    /\ SameAgent

-----------------------------------------------------------------------------
(***************************************************************************)
(* requestPrediction: the answer to the chat, or the one its history holds.*)
(***************************************************************************)

\* Seeded bug: what the prompt fixed is not compared with what the answer echoes.
ParsesAny(t, message) == message # NoText /\ message.sound
parses(t, message) == message # NoText /\ message.sound /\ message.of = t

\* parseAgentResponse, once per turn.
Parse(t, message) ==
    /\ used' = [used EXCEPT ![t] = message]
    /\ Leave(t, IF parses(t, message) THEN "Valid" ELSE "Malformed")

\* recoverReply: the message after the last copy of this prompt, if it is the agent's.
recovered(t, messages) ==
    LET replied == {i \in 1..(Len(messages) - 1) :
                      /\ messages[i] = Prompt(t) /\ messages[i + 1].role = "assistant"
                      /\ \A j \in DOMAIN messages : messages[j] = Prompt(t) => j <= i}
    IN IF replied = {} THEN NoText ELSE messages[1 + CHOOSE i \in replied : TRUE]

AnswerArrives(t) ==
    /\ Returns(t, "chat")
    /\ reply[t].text # NoText
    /\ Parse(t, reply[t].text)
    /\ UNCHANGED <<row, owner, holds, heldOn, history, agent>>

EmptyAnswer(t) ==
    /\ Returns(t, "chat")
    /\ reply[t].text = NoText
    /\ Fetch(t, "messages")
    /\ Step(t)
    /\ SameAgent
    /\ UNCHANGED row

HistoryArrives(t) ==
    /\ Returns(t, "messages")
    /\ Parse(t, recovered(t, reply[t].messages))
    /\ UNCHANGED <<row, owner, holds, heldOn, history, agent>>

-----------------------------------------------------------------------------
(***************************************************************************)
(* Around them: a process that dies, an operator who quarantines an agent, *)
(* which nothing in the code does, and anybody who moves funds.            *)
(***************************************************************************)
Dies(t) ==
    /\ Running(t)
    /\ Leave(t, "Interrupted")
    /\ Step(t)
    /\ SameAgent
    /\ UNCHANGED row

Quarantine(p) ==
    /\ row[p].status = "Active"
    /\ row' = [row EXCEPT ![p].status = "Quarantined"]
    /\ UNCHANGED <<owner, holds, heldOn, history, place, agent, attempt, wire, reply, headers, sent, used>>

MoveFunds(a) ==
    /\ owner[a] # NoAgent
    /\ \E h \in (SUBSET Kinds) \ {holds[a]} :
        /\ holds' = [holds EXCEPT ![a] = h]
        /\ heldOn' = [t \in Turns |-> IF agent[t] = a THEN heldOn[t] \cap h ELSE heldOn[t]]
    /\ UNCHANGED <<row, owner, history, place, agent, attempt, wire, reply, headers, sent, used>>

Init ==
    /\ row = [p \in Players |-> [agent |-> NoAgent, status |-> "none"]]
    /\ owner = [a \in Agents |-> NoAgent]
    /\ holds = [a \in Agents |-> {}] /\ heldOn = [t \in Turns |-> {}]
    /\ history = [a \in Agents |-> <<>>]
    /\ place = [t \in Turns |-> "waiting"]
    /\ agent = [t \in Turns |-> NoAgent]
    /\ attempt = [t \in Turns |-> 0]
    /\ wire = {} /\ headers = {}
    /\ reply = [t \in Turns |-> Nothing]
    /\ sent = [t \in Turns |-> [call \in PaidCalls |-> 0]]
    /\ used = [t \in Turns |-> NoText]

\* What the worker does by itself, without an answer from the provider.
Works(t) ==
    \/ FindsActive(t) \/ FindsRetired(t) \/ FindsNone(t)
    \/ FindsEmpty(t) \/ FindsFunds(t) \/ NotesCheck(t) \/ Records(t) \/ RecordTaken(t)

Turn(t) ==
    \/ Begin(t) \/ Works(t) \/ LookupFails(t)
    \/ HeadersArrive(t) \/ TimesOut(t) \/ TransportFails(t) \/ BadAnswer(t)
    \/ Created(t) \/ Started(t)
    \/ AnswerArrives(t) \/ EmptyAnswer(t) \/ HistoryArrives(t)
    \/ Dies(t)

Next ==
    \/ \E t \in Turns : Turn(t)
    \/ \E r \in wire : Provider(r)
    \/ \E p \in Players : Quarantine(p)
    \/ \E a \in Agents : MoveFunds(a)

Spec == Init /\ [][Next]_vars

\* Timers fire; calls to the database and the RPC come back.  The provider owes nothing.
FairSpec == Spec /\ \A t \in Turns : WF_vars(Works(t)) /\ WF_vars(TimesOut(t))

-----------------------------------------------------------------------------
(***************************************************************************)
(* Properties                                                              *)
(***************************************************************************)

\* Types of the rows, of the provider's state and of each turn's local variables.
TypeOK ==
    /\ row \in [Players -> RowType]
    /\ owner \in [Agents -> Players \cup {NoAgent}]
    /\ holds \in [Agents -> SUBSET Kinds]
    /\ heldOn \in [Turns -> SUBSET Kinds]
    /\ history \in [Agents -> Seq(Message)]
    /\ place \in [Turns -> Places]
    /\ agent \in [Turns -> Agents \cup {NoAgent}]
    /\ attempt \in [Turns -> 0..HISTORY_RETRIES]
    /\ wire \subseteq [turn : Turns, call : Calls \cup {"answer"}]
    /\ DOMAIN reply = Turns /\ \A t \in Turns : reply[t] \in Replies(place[t])
    /\ headers \subseteq Turns
    /\ sent \in [Turns -> [PaidCalls -> Nat]]
    /\ used \in [Turns -> {NoText} \cup Message]

(***************************************************************************)
(* The history of an agent may interleave the prompts of two matches, so   *)
(* the message after a prompt need not answer it; a prediction is accepted *)
(* only if it was given to the very prompt the turn sent                   *)
(* (clawpump.ts:192-219, prediction.ts:88-96).                             *)
(***************************************************************************)
ValidAnswersAreOwn ==
    \A t \in Turns : place[t] = "Valid" => used[t] # NoText /\ used[t].of = t

(***************************************************************************)
(* However many rounds create an agent at once, every agent that was ever  *)
(* sent a prompt is the one on record for its player, and belongs to that  *)
(* player: an agent whose insert lost the race is not used                 *)
(* (agents.ts:54-96).                                                      *)
(***************************************************************************)
AskedAgentsAreOnRecord ==
    \A t \in Turns :
        sent[t]["chat"] > 0 => Row(t).agent = agent[t] /\ owner[agent[t]] = PlayerOf[t]

(***************************************************************************)
(* Whatever has been in an agent's wallet since a turn took the agent up,  *)
(* lamports or an account of either token program, keeps that turn from    *)
(* asking it: a new agent, and one on record that anybody funded since it  *)
(* was created or last checked (agents.ts:60-69, 83-113).  What comes or   *)
(* goes while the turn is looking, or between its check and its chat, may  *)
(* escape it.                                                              *)
(***************************************************************************)
FundedAgentsAreNeverAsked ==
    \A t \in Turns : sent[t]["chat"] > 0 => heldOn[t] = {}

\* The turns as RoundJob sees them.
StageOf(t) ==
    IF place[t] \in {"chat", "messages"} THEN "asked"
    ELSE IF place[t] \in {"waiting"} \cup Outcomes THEN place[t] ELSE "ready"

stageBar == [t \in Turns |-> StageOf(t)]
chatsBar == [t \in Turns |-> sent[t]["chat"]]

Promise == INSTANCE ChatPromise WITH stage <- stageBar, sent <- chatsBar

(***************************************************************************)
(* Whatever fails and whatever is retried, a turn sends its prompt at most *)
(* once and has one outcome (clawpump.ts:168-170, http.ts:56-61).          *)
(***************************************************************************)
ImplementsChatPromise == Promise!Spec

(***************************************************************************)
(* A provider that stalls before or inside an answer cannot hold a round:  *)
(* every turn ends (http.ts:98-117).                                       *)
(***************************************************************************)
TurnsEnd == \A t \in Turns : place[t] = "find" ~> place[t] \in Outcomes

(***************************************************************************)
(* clawpump.ts:195-196: the recovered reply is "the assistant message that *)
(* follows this exact prompt, never merely the latest one, because the     *)
(* same player's agent may be answering another match concurrently".  So   *)
(* what a turn takes from the history answers its own prompt.              *)
(***************************************************************************)
RecoveredReplyIsOwn ==
    [][\A t \in Turns : place[t] = "messages" /\ used'[t] # used[t] => used'[t].of = t]_vars

=============================================================================
