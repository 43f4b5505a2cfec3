------------------------- MODULE BattleAgentsProofs -------------------------
(***************************************************************************)
(* Theorems about BattleAgents for any number of turns, players and        *)
(* agents, and a provider that answers late, partly or never.              *)
(***************************************************************************)
EXTENDS BattleAgents, TLAPS

-----------------------------------------------------------------------------
(***************************************************************************)
(* The inductive invariant                                                 *)
(***************************************************************************)

\* The two halves of TypeOK: what a call to the provider changes, and the rest.
CallType ==
    /\ place \in [Turns -> Places]
    /\ attempt \in [Turns -> 0..HISTORY_RETRIES]
    /\ wire \subseteq [turn : Turns, call : Calls \cup {"answer"}]
    /\ DOMAIN reply = Turns /\ \A t \in Turns : reply[t] \in Replies(place[t])
    /\ headers \subseteq Turns
    /\ sent \in [Turns -> [PaidCalls -> Nat]]

StoreType ==
    /\ row \in [Players -> RowType]
    /\ owner \in [Agents -> Players \cup {NoAgent}]
    /\ holds \in [Agents -> SUBSET Kinds]
    /\ heldOn \in [Turns -> SUBSET Kinds]
    /\ history \in [Agents -> Seq(Message)]
    /\ agent \in [Turns -> Agents \cup {NoAgent}]
    /\ used \in [Turns -> {NoText} \cup Message]

Chats(t) == sent[t]["chat"]

\* A turn that has not come to its chat has sent none, one that waits for its answer has sent one.
ChatsCounted ==
    \A t \in Turns :
      /\ Chats(t) <= 1
      /\ StageOf(t) \in {"waiting", "ready"} => Chats(t) = 0
      /\ StageOf(t) = "asked" => Chats(t) = 1

\* A row names an agent of its player; so does a turn from the creation of its agent on.
AgentsOwned ==
    /\ \A p \in Players : row[p].status # "none" => row[p].agent \in Agents /\ owner[row[p].agent] = p
    /\ \A t \in Turns :
        /\ place[t] = "create" /\ reply[t].status = "ok" => owner[reply[t].agent] = PlayerOf[t]
        /\ place[t] \in {"start", "checkNew", "checkNewTokens", "record"} =>
             agent[t] \in Agents /\ owner[agent[t]] = PlayerOf[t]

\* A turn that looks at the agent on record, or has asked one, works with the agent on record.
AskedIsRecorded ==
    \A t \in Turns :
      place[t] \in {"check", "checkTokens", "checked"} \/ Chats(t) > 0 =>
        Row(t).status # "none" /\ Row(t).agent = agent[t]

IInv ==
    /\ TypeOK
    /\ ChatsCounted
    /\ AgentsOwned
    /\ AskedIsRecorded

-----------------------------------------------------------------------------
(***************************************************************************)
(* Types                                                                   *)
(***************************************************************************)

\* What a caller may rely on in a complete answer to each call.
LEMMA ReplyKinds ==
    /\ \A call : Declined \subseteq Replies(call) /\ Nothing \in Replies(call)
    /\ Replies("waiting") = Replies("find") /\ Replies("find") = Replies("check")
    /\ [status |-> "ok"] \in Replies("start")
    /\ \A answer \in Replies("create") :
          answer.status = "ok" => answer.agent \in Agents /\ answer.wallet \in BOOLEAN
    /\ \A answer \in Replies("chat") : answer.status = "ok" => answer.text \in {NoText} \cup Message
    /\ \A answer \in Replies("messages") : answer.status = "ok" => answer.messages \in Seq(Message)
BY DEF Replies, Declined, Nothing

\* What is recovered from a history is a message of it, or nothing.
LEMMA RecoveredType ==
    ASSUME NEW t \in Turns, NEW messages \in Seq(Message)
    PROVE  recovered(t, messages) \in {NoText} \cup Message
<1> DEFINE replied == {i \in 1..Len(messages) - 1 :
                          /\ messages[i] = Prompt(t) /\ messages[i + 1].role = "assistant"
                          /\ \A j \in DOMAIN messages : messages[j] = Prompt(t) => j <= i}
           i == CHOOSE i \in replied : TRUE
<1>1. recovered(t, messages) = IF replied = {} THEN NoText ELSE messages[1 + i]
  BY DEF recovered
<1>2. ASSUME replied # {} PROVE messages[1 + i] \in Message
  <2>1. i \in 1..Len(messages) - 1
    <3>1. i \in replied
      BY <1>2
    <3> QED
      BY <3>1
  <2>2. 1 + i \in 1..Len(messages)
    BY <2>1
  <2> HIDE DEF i
  <2> QED
    BY <2>2
<1> HIDE DEF replied, i
<1> QED
  BY <1>1, <1>2

LEMMA LeaveType ==
    ASSUME TypeOK, NEW t \in Turns, NEW to \in Places, Leave(t, to)
    PROVE  CallType'
BY ReplyKinds DEF TypeOK, CallType, Leave, Move

LEMMA RequestType ==
    ASSUME TypeOK, NEW t \in Turns, NEW call \in Calls, Request(t, call)
    PROVE  /\ wire' \subseteq [turn : Turns, call : Calls \cup {"answer"}]
           /\ headers' \subseteq Turns
           /\ sent' \in [Turns -> [PaidCalls -> Nat]]
           /\ DOMAIN reply' = Turns
BY DEF TypeOK, Request, PaidCalls

LEMMA FetchType ==
    ASSUME TypeOK, NEW t \in Turns, NEW call \in Calls, Fetch(t, call)
    PROVE  CallType'
<1>1. place' \in [Turns -> Places] /\ attempt' \in [Turns -> 0..HISTORY_RETRIES]
  BY AgentsAssumption DEF TypeOK, Fetch, Move, Places
<1>2. \A u \in Turns : reply'[u] \in Replies(place'[u])
  BY ReplyKinds DEF TypeOK, Fetch, Move, Request
<1> QED
  BY <1>1, <1>2, RequestType DEF CallType, Fetch

LEMMA FailsType ==
    ASSUME TypeOK, NEW t \in Turns, place[t] \in Calls, NEW error, Fails(t, error)
    PROVE  TypeOK'
<1>1. CallType'
  <2>1. CASE Retry(t, error)
    <3>1. place' = place /\ attempt' \in [Turns -> 0..HISTORY_RETRIES]
      BY <2>1, AgentsAssumption DEF TypeOK, Retry, Worthwhile, retries
    <3>2. \A u \in Turns : reply'[u] \in Replies(place'[u])
      BY <2>1, <3>1, ReplyKinds DEF TypeOK, Retry, Request
    <3> QED
      BY <2>1, <3>1, <3>2, RequestType DEF TypeOK, CallType, Retry
  <2>2. CASE GiveUp(t, error)
    <3>1. \E to \in Places : Leave(t, to)
      BY <2>2 DEF GiveUp, Places, Outcomes
    <3> QED
      BY <3>1, LeaveType
  <2> QED
    BY <2>1, <2>2 DEF Fails
<1> QED
  BY <1>1 DEF Fails, TypeOK, CallType

\* Every step of a turn preserves the types.
LEMMA TurnType ==
    ASSUME IInv, NEW t \in Turns, Turn(t)
    PROVE  TypeOK'
<1> USE DEF IInv, Step, SameAgent
<1> SUFFICES CallType' /\ StoreType'
  BY DEF TypeOK, CallType, StoreType
<1>1. CASE Begin(t) \/ FindsActive(t)
  <2>1. \A u \in Turns : reply'[u] \in Replies(place'[u])
    BY <1>1, ReplyKinds DEF Begin, FindsActive, Move, TypeOK
  <2>2. agent' \in [Turns -> Agents \cup {NoAgent}]
    BY <1>1, AgentsAssumption DEF Begin, FindsActive, TakesUp, TypeOK, Row, RowType
  <2>3. heldOn' \in [Turns -> SUBSET Kinds]
    <3>1. CASE Begin(t)
      BY <3>1 DEF Begin, TypeOK
    <3>2. CASE FindsActive(t)
      <4>1. Row(t).agent \in Agents
        BY <3>2, AgentsAssumption DEF FindsActive, Row, AgentsOwned
      <4>2. holds[Row(t).agent] \in SUBSET Kinds
        BY <4>1 DEF TypeOK
      <4> QED
        BY <3>2, <4>2 DEF FindsActive, TakesUp, TypeOK
    <3> QED
      BY <1>1, <3>1, <3>2
  <2> QED
    BY <1>1, <2>1, <2>2, <2>3 DEF Begin, FindsActive, Move, TypeOK, CallType, StoreType, Places, Checks
<1>2. CASE HeadersArrive(t)
  BY <1>2 DEF HeadersArrive, TypeOK, CallType, StoreType
<1>3. CASE FindsRetired(t) \/ FindsFunds(t) \/ RecordTaken(t) \/ Started(t) \/ Dies(t)
  <2>1. \E to \in Places : Leave(t, to)
    BY <1>3 DEF FindsRetired, FindsFunds, RecordTaken, Started, Dies, Places, Checks, Outcomes
  <2> QED
    BY <1>3, <2>1, LeaveType
    DEF FindsRetired, FindsFunds, RecordTaken, Started, Dies, TypeOK, StoreType
<1>4. CASE FindsNone(t) \/ NotesCheck(t) \/ EmptyAnswer(t)
  <2>1. \E call \in Calls : Fetch(t, call)
    BY <1>4 DEF FindsNone, NotesCheck, EmptyAnswer, Calls, PaidCalls
  <2> QED
    BY <1>4, <2>1, FetchType DEF FindsNone, NotesCheck, EmptyAnswer, TypeOK, StoreType
<1>5. CASE FindsEmpty(t)
  <2>1. \E to \in Places : Leave(t, to)
    BY <1>5 DEF FindsEmpty, Places, Checks
  <2> QED
    BY <1>5, <2>1, LeaveType DEF FindsEmpty, TypeOK, StoreType
<1>6. CASE Records(t)
  <2>1. "chat" \in Calls /\ PlayerOf[t] \in Players
    BY AgentsAssumption DEF Calls, PaidCalls
  <2>2. row' \in [Players -> RowType]
    BY <1>6, <2>1 DEF Records, TypeOK, RowType
  <2> QED
    BY <1>6, <2>1, <2>2, FetchType DEF Records, TypeOK, StoreType
<1>7. CASE LookupFails(t)
  <2>1. row' \in [Players -> RowType]
    <3>1. PlayerOf[t] \in Players
      BY AgentsAssumption
    <3>2. [agent |-> agent[t], status |-> "Active"] \in RowType
      BY DEF TypeOK, RowType
    <3> QED
      BY <1>7, <3>1, <3>2 DEF LookupFails, TypeOK
  <2>2. "ApiError" \in Places
    BY DEF Places, Outcomes
  <2> QED
    BY <1>7, <2>1, <2>2, LeaveType DEF LookupFails, TypeOK, StoreType
<1>8. CASE TimesOut(t) \/ TransportFails(t) \/ BadAnswer(t)
  BY <1>8, FailsType DEF TimesOut, TransportFails, BadAnswer, TypeOK, CallType, StoreType
<1>9. CASE Created(t)
  <2>1. reply[t].agent \in Agents
    BY <1>9, ReplyKinds DEF Created, Returns, TypeOK
  <2>2. agent' \in [Turns -> Agents \cup {NoAgent}] /\ heldOn' \in [Turns -> SUBSET Kinds]
    BY <1>9, <2>1 DEF Created, TakesUp, TypeOK
  <2>3. Fetch(t, "start") \/ Leave(t, "ApiError")
    BY <1>9 DEF Created
  <2>4. "start" \in Calls /\ "ApiError" \in Places
    BY DEF Calls, Places, Outcomes
  <2> QED
    BY <1>9, <2>2, <2>3, <2>4, FetchType, LeaveType DEF Created, TypeOK, StoreType
<1>10. CASE AnswerArrives(t) \/ HistoryArrives(t)
  <2>1. PICK message \in {NoText} \cup Message : Parse(t, message)
    <3>1. CASE AnswerArrives(t)
      BY <3>1, ReplyKinds DEF AnswerArrives, Returns, TypeOK
    <3>2. CASE HistoryArrives(t)
      <4>1. reply[t].messages \in Seq(Message)
        BY <3>2, ReplyKinds DEF HistoryArrives, Returns, TypeOK
      <4>2. recovered(t, reply[t].messages) \in {NoText} \cup Message
        BY <4>1, RecoveredType
      <4> QED
        BY <3>2, <4>2 DEF HistoryArrives
    <3> QED
      BY <1>10, <3>1, <3>2
  <2>2. \E to \in Places : Leave(t, to)
    BY <2>1 DEF Parse, Places, Outcomes
  <2>3. used' \in [Turns -> {NoText} \cup Message]
    BY <2>1 DEF Parse, TypeOK
  <2> QED
    BY <1>10, <2>2, <2>3, LeaveType DEF AnswerArrives, HistoryArrives, TypeOK, StoreType
<1> QED
  BY <1>1, <1>2, <1>3, <1>4, <1>5, <1>6, <1>7, <1>8, <1>9, <1>10, Turn(t) DEF Turn, Works

\* A message that is appended to a history, and a page of a history, are typed.
LEMMA HistoryGrows ==
    ASSUME TypeOK, NEW a, NEW message \in Message,
           history' = [history EXCEPT ![a] = Append(@, message)]
    PROVE  history' \in [Agents -> Seq(Message)]
<1>1. \A b \in Agents : Append(history[b], message) \in Seq(Message)
  BY DEF TypeOK
<1> QED
  BY <1>1 DEF TypeOK

LEMMA HistoryPage ==
    ASSUME NEW all \in Seq(Message), NEW first \in 1..(Len(all) + 1)
    PROVE  SubSeq(all, first, Len(all)) \in Seq(Message)
OBVIOUS

\* Every step of the provider preserves the types.
LEMMA ProviderType ==
    ASSUME IInv, NEW r \in wire, Provider(r)
    PROVE  TypeOK'
<1> USE DEF IInv
<1> SUFFICES CallType' /\ StoreType'
  BY DEF TypeOK, CallType, StoreType
<1>1. r.turn \in Turns /\ r.call \in Calls \cup {"answer"} /\ [turn |-> r.turn, call |-> "answer"] \in
         [turn : Turns, call : Calls \cup {"answer"}]
  BY DEF TypeOK
<1>2. ASSUME NEW answer \in Replies(r.call), Tell(r, answer), wire' \subseteq wire,
             UNCHANGED <<place, attempt, headers, sent>>
      PROVE  CallType'
  BY <1>1, <1>2 DEF Tell, TypeOK, CallType
<1>3. CASE CreatesAgent(r)
  <2>1. PICK a \in Agents, hasWallet \in BOOLEAN :
           /\ owner' = [owner EXCEPT ![a] = PlayerOf[r.turn]]
           /\ Tell(r, [status |-> "ok", agent |-> a, wallet |-> hasWallet])
    BY <1>3 DEF CreatesAgent
  <2>2. [status |-> "ok", agent |-> a, wallet |-> hasWallet] \in Replies(r.call)
    BY <1>3 DEF CreatesAgent, Replies
  <2> QED
    BY <1>1, <1>2, <1>3, <2>1, <2>2, AgentsAssumption DEF CreatesAgent, Serve, TypeOK, StoreType
<1>4. CASE StartsAgent(r)
  <2>1. [status |-> "ok"] \in Replies(r.call)
    BY <1>4, ReplyKinds DEF StartsAgent
  <2> QED
    BY <1>2, <1>4, <2>1 DEF StartsAgent, Serve, TypeOK, StoreType
<1>5. CASE ReceivesPrompt(r)
  <2>1. Prompt(r.turn) \in Message
    BY <1>1 DEF Prompt, Message
  <2>2. history' \in [Agents -> Seq(Message)]
    BY <1>5, <2>1, HistoryGrows DEF ReceivesPrompt
  <2>3. CallType'
    BY <1>1, <1>5 DEF ReceivesPrompt, Serve, TypeOK, CallType
  <2> QED
    BY <1>5, <2>2, <2>3 DEF ReceivesPrompt, Serve, TypeOK, StoreType
<1>6. CASE Answers(r)
  <2>1. PICK message \in Message, content \in {NoText} \cup Message :
           /\ history' = [history EXCEPT ![agent[r.turn]] = Append(@, message)]
           /\ Tell([turn |-> r.turn, call |-> "chat"], [status |-> "ok", text |-> content])
    BY <1>1, <1>6 DEF Answers, Message
  <2>2. [status |-> "ok", text |-> content] \in Replies("chat")
    BY DEF Replies
  <2>3. CallType'
    BY <1>1, <1>6, <2>1, <2>2 DEF Answers, Serve, Tell, TypeOK, CallType
  <2>4. history' \in [Agents -> Seq(Message)]
    BY <2>1, HistoryGrows
  <2> QED
    BY <1>6, <2>3, <2>4 DEF Answers, Serve, TypeOK, StoreType
<1>7. CASE ListsMessages(r)
  <2>1. CASE place[r.turn] = "messages"
    <3>1. agent[r.turn] \in Agents
      BY <1>1, <2>1, AgentsAssumption DEF ChatsCounted, StageOf, AskedIsRecorded, AgentsOwned, Row
    <3>2. history[agent[r.turn]] \in Seq(Message)
      BY <3>1 DEF TypeOK
    <3>3. PICK messages \in Seq(Message) : Tell(r, [status |-> "ok", messages |-> messages])
      <4> DEFINE all == history[agent[r.turn]]
                 first == IF Len(all) > HistoryLimit THEN Len(all) - HistoryLimit + 1 ELSE 1
      <4>1. first \in 1..(Len(all) + 1)
        BY <3>2, AgentsAssumption
      <4>2. SubSeq(all, first, Len(all)) \in Seq(Message)
        BY <3>2, <4>1, HistoryPage
      <4> QED
        BY <1>7, <4>2 DEF ListsMessages
    <3>4. [status |-> "ok", messages |-> messages] \in Replies(r.call)
      BY <1>7 DEF Replies, ListsMessages
    <3> QED
      BY <1>2, <1>7, <3>3, <3>4 DEF ListsMessages, Serve, TypeOK, StoreType
  <2>2. CASE place[r.turn] # "messages"
    BY <1>7, <2>2 DEF ListsMessages, Serve, Tell, TypeOK, CallType, StoreType
  <2> QED
    BY <2>1, <2>2
<1>8. CASE Declines(r)
  <2>1. \E status \in {"refused", "broken"} : Tell(r, [status |-> status])
    BY <1>8 DEF Declines
  <2>2. \A status \in {"refused", "broken"} : [status |-> status] \in Replies(r.call)
    BY ReplyKinds DEF Declined
  <2> QED
    BY <1>2, <1>8, <2>1, <2>2 DEF Declines, Serve, TypeOK, StoreType
<1> QED
  BY <1>3, <1>4, <1>5, <1>6, <1>7, <1>8, Provider(r) DEF Provider

-----------------------------------------------------------------------------
(***************************************************************************)
(* One prompt per turn                                                     *)
(***************************************************************************)

\* Only reading the history is retried, so no paid call is sent by a retry.
LEMMA FreeRetry ==
    ASSUME TypeOK, NEW t \in Turns, NEW error, Retry(t, error)
    PROVE  place[t] = "messages" /\ UNCHANGED <<sent, place>>
<1>1. attempt[t] \in Nat /\ attempt[t] < retries(place[t])
  BY AgentsAssumption DEF TypeOK, Retry, Worthwhile
<1>2. place[t] = "messages"
  BY <1>1 DEF retries
<1> QED
  BY <1>2 DEF Retry, Request, PaidCalls

\* How a turn's call may fail: it is the history's and asked for again, or the turn ends.
LEMMA FailsEnds ==
    ASSUME TypeOK, NEW t \in Turns, NEW error, Fails(t, error), place[t] \in Calls
    PROVE  \/ UNCHANGED <<sent, place>> /\ reply' = [reply EXCEPT ![t] = Nothing]
              /\ wire' = wire \cup {[turn |-> t, call |-> "messages"]}
           \/ \E to \in {"Timeout", "ApiError", "Malformed"} :
                 Leave(t, to) /\ (to # "ApiError" => place[t] \in {"chat", "messages"})
<1>1. CASE Retry(t, error)
  BY <1>1, FreeRetry DEF Retry, Request
<1>2. CASE GiveUp(t, error)
  BY <1>2 DEF GiveUp
<1> QED
  BY <1>1, <1>2 DEF Fails

LEMMA ChatsStep ==
    ASSUME IInv, NEW t \in Turns, Turn(t)
    PROVE  ChatsCounted'
<1> USE DEF IInv, ChatsCounted, Chats, StageOf, Checks, Outcomes
<1>1. sent \in [Turns -> [PaidCalls -> Nat]] /\ place \in [Turns -> Places]
  BY DEF TypeOK
<1>2. ASSUME UNCHANGED sent, NEW to \in Places, Move(t, to),
             \/ to \in Outcomes \cup Checks \cup {"find", "checked", "record"}
                /\ StageOf(t) \in {"waiting", "ready"}
             \/ to \in Outcomes \cup {"messages"} /\ StageOf(t) = "asked"
      PROVE  ChatsCounted'
  BY <1>1, <1>2 DEF Move
<1>3. ASSUME Fetch(t, "create") \/ Fetch(t, "start"), StageOf(t) = "ready"
      PROVE  ChatsCounted'
  BY <1>1, <1>3 DEF Fetch, Move, Request, PaidCalls
<1>4. ASSUME Fetch(t, "chat"), StageOf(t) = "ready"
      PROVE  ChatsCounted'
  BY <1>1, <1>4 DEF Fetch, Move, Request, PaidCalls
<1>5. CASE Begin(t) \/ FindsActive(t)
  BY <1>2, <1>5 DEF Begin, FindsActive, Places
<1>6. CASE HeadersArrive(t)
  BY <1>6 DEF HeadersArrive
<1>7. ASSUME NEW to \in Outcomes \cup Checks \cup {"checked", "record"}, Leave(t, to),
             to \in Outcomes \/ StageOf(t) \in {"waiting", "ready"}, place[t] \notin Outcomes
      PROVE  ChatsCounted'
  BY <1>1, <1>7 DEF Leave, Move
<1>8. CASE FindsRetired(t) \/ FindsFunds(t) \/ RecordTaken(t) \/ Started(t) \/ LookupFails(t)
  BY <1>7, <1>8 DEF FindsRetired, FindsFunds, RecordTaken, Started, LookupFails, Returns
<1>9. CASE Dies(t)
  BY <1>7, <1>9 DEF Dies, Running
<1>10. CASE FindsNone(t)
  BY <1>3, <1>10 DEF FindsNone
<1>11. CASE Created(t)
  BY <1>3, <1>7, <1>11 DEF Created, Returns
<1>12. CASE FindsEmpty(t)
  BY <1>7, <1>12 DEF FindsEmpty
<1>13. CASE Records(t) \/ NotesCheck(t)
  BY <1>4, <1>13 DEF Records, NotesCheck
<1>14. CASE TimesOut(t) \/ TransportFails(t) \/ BadAnswer(t)
  <2>1. place[t] \in Calls /\ \E error : Fails(t, error)
    BY <1>14 DEF TimesOut, TransportFails, BadAnswer
  <2>2. CASE UNCHANGED <<sent, place>>
    BY <2>2
  <2> QED
    BY <1>7, <2>1, <2>2, FailsEnds DEF Calls, PaidCalls
<1>15. CASE AnswerArrives(t) \/ HistoryArrives(t)
  BY <1>7, <1>15 DEF AnswerArrives, HistoryArrives, Returns, Parse
<1>16. CASE EmptyAnswer(t)
  BY <1>1, <1>16 DEF EmptyAnswer, Returns, Fetch, Move, Request, PaidCalls
<1> QED
  BY <1>5, <1>6, <1>8, <1>9, <1>10, <1>11, <1>12, <1>13, <1>14, <1>15, <1>16, Turn(t) DEF Turn, Works

-----------------------------------------------------------------------------
(***************************************************************************)
(* Whose agents are asked                                                  *)
(***************************************************************************)

LEMMA OwnersStep ==
    ASSUME IInv, NEW t \in Turns, Turn(t)
    PROVE  AgentsOwned'
<1> USE DEF IInv, AgentsOwned, Step, SameAgent
<1> USE AgentsAssumption
<1>0. /\ place \in [Turns -> Places] /\ agent \in [Turns -> Agents \cup {NoAgent}]
      /\ row \in [Players -> RowType] /\ DOMAIN reply = Turns
      /\ owner \in [Agents -> Players \cup {NoAgent}]
  BY DEF TypeOK
<1>1. CASE Begin(t) \/ FindsActive(t)
  BY <1>0, <1>1 DEF Begin, FindsActive, TakesUp, Move
<1>2. CASE HeadersArrive(t)
  BY <1>2 DEF HeadersArrive
<1>3. ASSUME NEW to \in Outcomes, Leave(t, to), UNCHANGED <<row, owner, agent>>
      PROVE  AgentsOwned'
  BY <1>0, <1>3 DEF Leave, Move, Outcomes
<1>4. CASE FindsRetired(t) \/ FindsFunds(t) \/ RecordTaken(t) \/ Dies(t)
  BY <1>3, <1>4 DEF FindsRetired, FindsFunds, RecordTaken, Dies, Outcomes
<1>5. CASE LookupFails(t)
  <2>1. CASE UNCHANGED row
    BY <1>3, <1>5, <2>1 DEF LookupFails, Outcomes
  <2>2. CASE place[t] = "record" /\ row' = [row EXCEPT ![PlayerOf[t]] = [agent |-> agent[t], status |-> "Active"]]
    BY <1>0, <1>5, <2>2 DEF LookupFails, Leave, Move
  <2> QED
    BY <1>5, <2>1, <2>2 DEF LookupFails
<1>6. CASE Started(t) \/ FindsEmpty(t)
  BY <1>0, <1>6 DEF Started, FindsEmpty, Checks, Returns, Leave, Move
<1>7. CASE FindsNone(t) \/ NotesCheck(t) \/ EmptyAnswer(t)
  BY <1>0, <1>7 DEF FindsNone, NotesCheck, EmptyAnswer, Fetch, Move, Request, Nothing
<1>8. CASE Records(t)
  BY <1>0, <1>8 DEF Records, Fetch, Move, Request
<1>9. CASE TimesOut(t) \/ TransportFails(t) \/ BadAnswer(t)
  <2>1. /\ place[t] \in Calls /\ \E error : Fails(t, error)
        /\ UNCHANGED <<row, owner, agent>>
    BY <1>9 DEF TimesOut, TransportFails, BadAnswer, Fails
  <2>2. CASE UNCHANGED place /\ reply' = [reply EXCEPT ![t] = Nothing]
    BY <1>0, <2>1, <2>2 DEF Nothing
  <2> QED
    BY <1>3, <2>1, <2>2, FailsEnds DEF Outcomes
<1>10. CASE Created(t)
  <2>1. reply[t].agent \in Agents /\ owner[reply[t].agent] = PlayerOf[t]
    BY <1>10, ReplyKinds DEF Created, Returns, TypeOK
  <2> QED
    BY <1>0, <1>3, <1>10, <2>1 DEF Created, TakesUp, Returns, Fetch, Move, Request, Outcomes
<1>11. CASE AnswerArrives(t) \/ HistoryArrives(t)
  BY <1>3, <1>11 DEF AnswerArrives, HistoryArrives, Parse, Outcomes
<1> QED
  BY <1>1, <1>2, <1>4, <1>5, <1>6, <1>7, <1>8, <1>9, <1>10, <1>11, Turn(t) DEF Turn, Works

LEMMA RecordedStep ==
    ASSUME IInv, NEW t \in Turns, Turn(t)
    PROVE  AskedIsRecorded'
<1> USE AgentsAssumption DEF IInv, AskedIsRecorded, Step, SameAgent, Row, Chats
<1>0. /\ place \in [Turns -> Places] /\ agent \in [Turns -> Agents \cup {NoAgent}]
      /\ row \in [Players -> RowType] /\ sent \in [Turns -> [PaidCalls -> Nat]]
      /\ PlayerOf[t] \in Players
  BY DEF TypeOK
<1>1. StageOf(t) \in {"waiting", "ready"} => ~(sent[t]["chat"] > 0)
  BY <1>0 DEF ChatsCounted, PaidCalls
<1>2. ASSUME NEW to \in Places \ {"check", "checkTokens", "checked"}, Leave(t, to), UNCHANGED <<row, agent>>
      PROVE  AskedIsRecorded'
  BY <1>0, <1>2 DEF Leave, Move
<1>3. CASE Begin(t) \/ FindsActive(t)
  BY <1>0, <1>1, <1>3 DEF Begin, FindsActive, TakesUp, Move, StageOf, Checks, Outcomes
<1>4. CASE HeadersArrive(t)
  BY <1>4 DEF HeadersArrive
<1>5. CASE FindsRetired(t) \/ FindsFunds(t) \/ RecordTaken(t) \/ Started(t) \/ Dies(t)
  BY <1>2, <1>5 DEF FindsRetired, FindsFunds, RecordTaken, Started, Dies, Places, Checks, Outcomes
<1>6. ASSUME unrecorded(t),
             row' = [row EXCEPT ![PlayerOf[t]] = [agent |-> agent[t], status |-> "Active"]]
      PROVE  \A u \in Turns : Row(u).status # "none" => row'[PlayerOf[u]] = Row(u)
  BY <1>0, <1>6 DEF unrecorded
<1>7. CASE LookupFails(t)
  <2>1. CASE UNCHANGED row
    BY <1>2, <1>7, <2>1 DEF LookupFails, Places, Outcomes
  <2>2. CASE ~UNCHANGED row
    BY <1>0, <1>6, <1>7, <2>2 DEF LookupFails, Leave, Move
  <2> QED
    BY <2>1, <2>2
<1>8. CASE Records(t)
  BY <1>0, <1>6, <1>8 DEF Records, Fetch, Move, Request, PaidCalls
<1>9. CASE FindsEmpty(t)
  BY <1>0, <1>9 DEF FindsEmpty, Checks, Leave, Move
<1>10. CASE FindsNone(t) \/ NotesCheck(t) \/ EmptyAnswer(t)
  BY <1>0, <1>10 DEF FindsNone, NotesCheck, EmptyAnswer, Fetch, Move, Request, PaidCalls
<1>11. CASE TimesOut(t) \/ TransportFails(t) \/ BadAnswer(t)
  <2>1. /\ place[t] \in Calls /\ \E error : Fails(t, error)
        /\ UNCHANGED <<row, owner, agent>>
    BY <1>11 DEF TimesOut, TransportFails, BadAnswer, Fails
  <2>2. CASE UNCHANGED <<sent, place>>
    BY <2>1, <2>2
  <2> QED
    BY <1>2, <2>1, <2>2, FailsEnds DEF Places, Outcomes
<1>12. CASE Created(t)
  <2>1. ~(sent[t]["chat"] > 0)
    BY <1>1, <1>12 DEF Created, Returns, StageOf, Outcomes
  <2> QED
    BY <1>0, <1>2, <1>12, <2>1 DEF Created, TakesUp, Returns, Fetch, Move, Request, PaidCalls, Places, Outcomes
<1>13. CASE AnswerArrives(t) \/ HistoryArrives(t)
  BY <1>2, <1>13 DEF AnswerArrives, HistoryArrives, Parse, Places, Outcomes
<1> QED
  BY <1>3, <1>4, <1>5, <1>7, <1>8, <1>9, <1>10, <1>11, <1>12, <1>13, Turn(t) DEF Turn, Works

-----------------------------------------------------------------------------
(***************************************************************************)
(* The invariant is inductive                                              *)
(***************************************************************************)

LEMMA InitHolds == Init => IInv
<1> SUFFICES ASSUME Init PROVE IInv
  OBVIOUS
<1> USE AgentsAssumption DEF Init
<1>1. CallType
  BY ReplyKinds DEF CallType, Places, PaidCalls
<1>2. StoreType
  BY DEF StoreType, RowType
<1>3. ChatsCounted /\ AgentsOwned /\ AskedIsRecorded
  BY DEF ChatsCounted, Chats, StageOf, PaidCalls, AgentsOwned, AskedIsRecorded
<1> QED
  BY <1>1, <1>2, <1>3 DEF IInv, TypeOK, CallType, StoreType

LEMMA ProviderStep ==
    ASSUME IInv, NEW r \in wire, Provider(r)
    PROVE  IInv'
<1> USE AgentsAssumption DEF IInv
<1>1. UNCHANGED <<row, place, agent, sent>>
  BY DEF Provider, CreatesAgent, StartsAgent, ReceivesPrompt, Answers, ListsMessages, Declines, Serve
<1>2. ChatsCounted' /\ AskedIsRecorded'
  BY <1>1 DEF ChatsCounted, AskedIsRecorded, Chats, StageOf, Row
<1>3. AgentsOwned'
  <2>1. ASSUME UNCHANGED owner, NEW answer, Tell(r, answer),
               r.call = "create" => answer.status # "ok"
        PROVE  AgentsOwned'
    BY <1>1, <2>1 DEF Tell, AgentsOwned, TypeOK
  <2>2. CASE CreatesAgent(r)
    <3>1. PICK a \in Agents, hasWallet \in BOOLEAN :
             /\ owner[a] = NoAgent /\ owner' = [owner EXCEPT ![a] = PlayerOf[r.turn]]
             /\ Tell(r, [status |-> "ok", agent |-> a, wallet |-> hasWallet])
      BY <2>2 DEF CreatesAgent
    <3>2. \A b \in Agents : owner[b] # NoAgent => owner'[b] = owner[b]
      BY <3>1 DEF TypeOK
    <3>3. \A t \in Turns : place[t] = "create" /\ reply[t].status = "ok" => reply[t].agent \in Agents
      BY ReplyKinds DEF TypeOK
    <3>4. \A t \in Turns : PlayerOf[t] \in Players
      OBVIOUS
    <3>5. owner'[a] = PlayerOf[r.turn] /\ NoAgent \notin Players
      BY <3>1 DEF TypeOK
    <3>6. \A t \in Turns : place'[t] = "create" /\ reply'[t].status = "ok"
                             => owner'[reply'[t].agent] = PlayerOf[t]
      <4> SUFFICES ASSUME NEW t \in Turns, place[t] = "create", reply'[t].status = "ok"
                   PROVE  owner'[reply'[t].agent] = PlayerOf[t]
        BY <1>1
      <4>1. CASE reply'[t] = reply[t]
        BY <4>1, <3>2, <3>3, <3>4, <3>5 DEF AgentsOwned
      <4>2. CASE reply'[t] # reply[t]
        BY <4>2, <3>1, <3>5 DEF Tell, TypeOK
      <4> QED
        BY <4>1, <4>2
    <3> QED
      BY <1>1, <3>2, <3>4, <3>5, <3>6 DEF AgentsOwned
  <2>3. CASE ReceivesPrompt(r)
    BY <1>1, <2>3 DEF ReceivesPrompt, AgentsOwned
  <2>4. CASE StartsAgent(r) \/ ListsMessages(r) \/ Declines(r)
    BY <2>1, <2>4 DEF StartsAgent, ListsMessages, Declines
  <2>5. CASE Answers(r)
    BY <1>1, <2>5 DEF Answers, Tell, AgentsOwned, TypeOK
  <2> QED
    BY <2>2, <2>3, <2>4, <2>5, Provider(r) DEF Provider
<1> QED
  BY <1>2, <1>3, ProviderType

LEMMA OutsideStep ==
    ASSUME IInv,
           (\E p \in Players : Quarantine(p)) \/ (\E a \in Agents : MoveFunds(a)) \/ UNCHANGED vars
    PROVE  IInv'
<1> USE DEF IInv
<1>1. CASE \E p \in Players : Quarantine(p)
  BY <1>1, AgentsAssumption DEF Quarantine, TypeOK, RowType, ChatsCounted, Chats, StageOf, AgentsOwned, AskedIsRecorded, Row
<1>2. CASE \E a \in Agents : MoveFunds(a)
  BY <1>2 DEF MoveFunds, TypeOK, ChatsCounted, Chats, StageOf, AgentsOwned, AskedIsRecorded, Row
<1>3. CASE UNCHANGED vars
  BY <1>3 DEF vars, TypeOK, ChatsCounted, Chats, StageOf, AgentsOwned, AskedIsRecorded, Row
<1> QED
  BY <1>1, <1>2, <1>3

LEMMA StepHolds == IInv /\ [Next]_vars => IInv'
<1> SUFFICES ASSUME IInv, [Next]_vars PROVE IInv'
  OBVIOUS
<1>1. ASSUME NEW t \in Turns, Turn(t) PROVE IInv'
  BY <1>1, TurnType, ChatsStep, OwnersStep, RecordedStep DEF IInv
<1> QED
  BY <1>1, ProviderStep, OutsideStep DEF Next

\* The invariant holds in every reachable state.
LEMMA Invariance == Spec => []IInv
BY InitHolds, StepHolds, PTL DEF Spec

(***************************************************************************)
(* Rows, agents, answers and calls stay well typed; in particular a        *)
(* complete answer has the fields of the call that is waited for           *)
(* (clawpump.ts:30-52, 186-190).                                           *)
(***************************************************************************)
THEOREM TypeCorrect == Spec => []TypeOK
BY Invariance, PTL DEF IInv

(***************************************************************************)
(* Every agent that was ever sent a prompt is the one on record for its    *)
(* player and belongs to that player, however many rounds found no agent   *)
(* and created one at once (agents.ts:54-96).                              *)
(***************************************************************************)
THEOREM AskedOnRecord == Spec => []AskedAgentsAreOnRecord
<1>1. IInv => AskedAgentsAreOnRecord
  BY AgentsAssumption DEF IInv, AskedIsRecorded, AgentsOwned, AskedAgentsAreOnRecord, Chats, Row
<1> QED
  BY <1>1, Invariance, PTL

-----------------------------------------------------------------------------
(***************************************************************************)
(* A prediction is the answer to the prompt of its own turn                *)
(***************************************************************************)

LEMMA ValidStep == IInv /\ ValidAnswersAreOwn /\ [Next]_vars => ValidAnswersAreOwn'
<1> SUFFICES ASSUME IInv, ValidAnswersAreOwn, [Next]_vars PROVE ValidAnswersAreOwn'
  OBVIOUS
<1> USE DEF ValidAnswersAreOwn
<1>1. CASE UNCHANGED <<place, used>>
  BY <1>1
<1>2. ASSUME NEW t \in Turns, Turn(t) PROVE ValidAnswersAreOwn'
  <2>0. place \in [Turns -> Places] /\ used \in [Turns -> {NoText} \cup Message]
    BY DEF IInv, TypeOK
  <2>1. ASSUME NEW message, Parse(t, message) PROVE ValidAnswersAreOwn'
    BY <2>0, <2>1 DEF Parse, parses, Leave, Move
  <2>2. ASSUME UNCHANGED used, NEW to \in Places \ {"Valid"}, Move(t, to)
        PROVE  ValidAnswersAreOwn'
    BY <2>0, <2>2 DEF Move
  <2>3. CASE AnswerArrives(t) \/ HistoryArrives(t)
    BY <2>1, <2>3 DEF AnswerArrives, HistoryArrives
  <2>4. CASE HeadersArrive(t)
    BY <1>1, <2>4 DEF HeadersArrive
  <2>5. CASE TimesOut(t) \/ TransportFails(t) \/ BadAnswer(t)
    <3>1. place[t] \in Calls /\ (\E error : Fails(t, error)) /\ UNCHANGED used
      BY <2>5 DEF TimesOut, TransportFails, BadAnswer, Fails
    <3> QED
      BY <1>1, <2>2, <3>1, FailsEnds DEF IInv, Leave, Places, Outcomes
  <2>6. CASE Begin(t) \/ Works(t) \/ LookupFails(t) \/ Created(t) \/ Started(t) \/ EmptyAnswer(t)
             \/ Dies(t)
    BY <2>2, <2>6 DEF Begin, Works, FindsActive, FindsRetired, FindsNone, FindsEmpty, FindsFunds, NotesCheck,
       Records, RecordTaken, LookupFails, Created, Started, EmptyAnswer, Dies, Step, Leave, Fetch,
       Places, Checks, Calls, PaidCalls, Outcomes
  <2> QED
    BY <1>2, <2>3, <2>4, <2>5, <2>6 DEF Turn
<1>3. ASSUME NEW r \in wire, Provider(r) PROVE ValidAnswersAreOwn'
  BY <1>1, <1>3 DEF Provider, CreatesAgent, StartsAgent, ReceivesPrompt, Answers, ListsMessages, Declines, Serve
<1> QED
  BY <1>1, <1>2, <1>3 DEF Next, vars, Quarantine, MoveFunds

(***************************************************************************)
(* A prediction is accepted only from the answer to the very prompt the    *)
(* turn sent, although histories interleave the prompts of several matches *)
(* (prediction.ts:88-96).                                                  *)
(***************************************************************************)
THEOREM AnswersAreOwn == Spec => []ValidAnswersAreOwn
<1>1. Init => ValidAnswersAreOwn
  BY DEF Init, ValidAnswersAreOwn
<1> QED
  BY <1>1, Invariance, ValidStep, PTL DEF Spec

-----------------------------------------------------------------------------
(***************************************************************************)
(* Agents that were funded                                                 *)
(***************************************************************************)

\* What has been in the wallet since the turn took the agent up is still there; what the
\* turn has looked for by now is not part of it.
FundsFound ==
    \A t \in Turns :
      /\ agent[t] \in Agents => heldOn[t] \subseteq holds[agent[t]]
      /\ place[t] \in Checks => agent[t] \in Agents
      /\ place[t] \in {"checkTokens", "checkNewTokens"} => "lamports" \notin heldOn[t]
      /\ place[t] \in {"checked", "record"} \/ Chats(t) > 0 => heldOn[t] = {}

\* A turn takes an agent up with what it holds, and a check that passes rules its kinds out.
LEMMA FundsStep ==
    ASSUME IInv, FundsFound, NEW t \in Turns, Turn(t)
    PROVE  FundsFound'
<1> USE DEF IInv, Step, Chats
<1>0. /\ place \in [Turns -> Places] /\ agent \in [Turns -> Agents \cup {NoAgent}]
      /\ sent \in [Turns -> [PaidCalls -> Nat]]
      /\ heldOn \in [Turns -> SUBSET Kinds] /\ holds \in [Agents -> SUBSET Kinds]
      /\ PlayerOf[t] \in Players
  BY AgentsAssumption DEF TypeOK
<1>1. StageOf(t) \in {"waiting", "ready"} => ~(sent[t]["chat"] > 0)
  BY <1>0 DEF ChatsCounted, PaidCalls
<1>2. ASSUME NEW to \in Places \ (Checks \cup {"checked", "record"}), Move(t, to),
             UNCHANGED <<holds, heldOn, agent, sent>>
      PROVE  FundsFound'
  BY <1>0, <1>2 DEF Move, FundsFound, Checks
<1>3. ASSUME NEW call \in Calls, Fetch(t, call), UNCHANGED <<holds, heldOn, agent>>,
             call = "chat" => heldOn[t] = {}
      PROVE  FundsFound'
  <2>1. place' = [place EXCEPT ![t] = call] /\ call \notin Checks \cup {"checked", "record"}
    BY <1>3 DEF Fetch, Move, Calls, PaidCalls, Checks
  <2>2. \A u \in Turns : sent'[u]["chat"] = sent[u]["chat"] \/ (u = t /\ call = "chat")
    BY <1>0, <1>3 DEF Fetch, Request, PaidCalls
  <2> QED
    BY <1>0, <1>3, <2>1, <2>2 DEF FundsFound, Checks
<1>4. ASSUME NEW a \in Agents, TakesUp(t, a), ~(sent[t]["chat"] > 0), UNCHANGED holds,
             \A u \in Turns : sent'[u]["chat"] = sent[u]["chat"],
             Move(t, "check") \/ Move(t, "start")
      PROVE  FundsFound'
  <2>1. agent'[t] = a /\ heldOn'[t] = holds[a]
    BY <1>0, <1>4 DEF TakesUp
  <2>2. \A u \in Turns \ {t} : agent'[u] = agent[u] /\ heldOn'[u] = heldOn[u] /\ place'[u] = place[u]
    BY <1>0, <1>4 DEF TakesUp, Move
  <2>3. place'[t] \in {"check", "start"}
    BY <1>0, <1>4 DEF Move
  <2> QED
    BY <1>4, <2>1, <2>2, <2>3 DEF FundsFound, Checks
<1>5. CASE Begin(t)
  BY <1>2, <1>5 DEF Begin, SameAgent, Places, Checks
<1>6. CASE FindsActive(t)
  <2>1. ~(sent[t]["chat"] > 0)
    BY <1>1, <1>6 DEF FindsActive, StageOf, Outcomes
  <2>2. Row(t).agent \in Agents
    BY <1>0, <1>6 DEF FindsActive, Row, AgentsOwned
  <2> QED
    BY <1>4, <1>6, <2>1, <2>2 DEF FindsActive
<1>7. CASE HeadersArrive(t)
  BY <1>7 DEF HeadersArrive, FundsFound
<1>8. CASE FindsRetired(t) \/ FindsFunds(t) \/ RecordTaken(t) \/ LookupFails(t) \/ Dies(t)
  BY <1>2, <1>8
  DEF FindsRetired, FindsFunds, RecordTaken, LookupFails, Dies, Leave, SameAgent, Places, Checks, Outcomes
<1>9. CASE FindsNone(t) \/ EmptyAnswer(t)
  BY <1>3, <1>9 DEF FindsNone, EmptyAnswer, SameAgent, Calls, PaidCalls
<1>10. CASE NotesCheck(t) \/ Records(t)
  BY <1>3, <1>10 DEF NotesCheck, Records, SameAgent, FundsFound, Calls, PaidCalls
<1>11. CASE Created(t)
  <2>1. ~(sent[t]["chat"] > 0) /\ reply[t].agent \in Agents
    BY <1>1, <1>11, ReplyKinds DEF Created, Returns, StageOf, Outcomes, TypeOK
  <2>2. CASE reply[t].wallet
    <3>1. \A u \in Turns : sent'[u]["chat"] = sent[u]["chat"]
      BY <1>0, <1>11, <2>2 DEF Created, Fetch, Request, PaidCalls
    <3> QED
      BY <1>4, <1>11, <2>1, <2>2, <3>1 DEF Created, Fetch
  <2>3. CASE ~reply[t].wallet
    BY <1>2, <1>11, <2>3 DEF Created, Leave, SameAgent, Places, Checks, Outcomes
  <2> QED
    BY <2>2, <2>3
<1>12. CASE Started(t)
  <2>1. agent[t] \in Agents
    BY <1>12 DEF Started, Returns, AgentsOwned
  <2> QED
    BY <1>0, <1>12, <2>1 DEF Started, Leave, Move, SameAgent, FundsFound, Checks
<1>13. CASE FindsEmpty(t)
  <2>1. agent[t] \in Agents /\ heldOn[t] \subseteq holds[agent[t]] /\ heldOn[t] \subseteq Kinds
    BY <1>0, <1>13 DEF FindsEmpty, FundsFound
  <2>2. CASE place[t] \in {"check", "checkNew"}
    <3>1. "lamports" \notin heldOn[t]
      BY <1>13, <2>1, <2>2 DEF FindsEmpty, empty, looked
    <3>2. place' = [place EXCEPT ![t] = IF place[t] = "check" THEN "checkTokens" ELSE "checkNewTokens"]
      BY <1>13, <2>2 DEF FindsEmpty, Leave, Move
    <3> QED
      BY <1>0, <1>13, <2>1, <3>1, <3>2 DEF FindsEmpty, Leave, SameAgent, FundsFound, Checks
  <2>3. CASE place[t] \in {"checkTokens", "checkNewTokens"}
    <3>1. heldOn[t] = {}
      <4>1. heldOn[t] \cap {"token", "token2022"} = {}
        BY <1>13, <2>1, <2>3 DEF FindsEmpty, empty, looked
      <4>2. "lamports" \notin heldOn[t]
        BY <2>3 DEF FundsFound
      <4> QED
        BY <2>1, <4>1, <4>2, AgentsAssumption
    <3>2. place' = [place EXCEPT ![t] = IF place[t] = "checkTokens" THEN "checked" ELSE "record"]
      BY <1>13, <2>3 DEF FindsEmpty, Leave, Move
    <3> QED
      BY <1>0, <1>13, <2>1, <3>1, <3>2 DEF FindsEmpty, Leave, SameAgent, FundsFound, Checks
  <2> QED
    BY <1>13, <2>2, <2>3 DEF FindsEmpty, Checks
<1>14. CASE TimesOut(t) \/ TransportFails(t) \/ BadAnswer(t)
  <2>1. /\ place[t] \in Calls /\ \E error : Fails(t, error)
        /\ UNCHANGED <<holds, heldOn, agent>>
    BY <1>14 DEF TimesOut, TransportFails, BadAnswer, Fails
  <2>2. CASE UNCHANGED <<sent, place>>
    BY <2>1, <2>2 DEF FundsFound
  <2> QED
    BY <1>2, <2>1, <2>2, FailsEnds DEF Leave, Places, Checks, Outcomes
<1>15. CASE AnswerArrives(t) \/ HistoryArrives(t)
  BY <1>2, <1>15 DEF AnswerArrives, HistoryArrives, Parse, Leave, Places, Checks, Outcomes
<1> QED
  BY <1>5, <1>6, <1>7, <1>8, <1>9, <1>10, <1>11, <1>12, <1>13, <1>14, <1>15, Turn(t) DEF Turn, Works

LEMMA FundsStay == IInv /\ FundsFound /\ [Next]_vars => FundsFound'
<1> SUFFICES ASSUME IInv, FundsFound, [Next]_vars PROVE FundsFound'
  OBVIOUS
<1>1. CASE UNCHANGED <<holds, heldOn, place, agent, sent>>
  BY <1>1 DEF FundsFound, Chats
<1>2. ASSUME NEW r \in wire, Provider(r) PROVE UNCHANGED <<holds, heldOn, place, agent, sent>>
  BY <1>2 DEF Provider, CreatesAgent, StartsAgent, ReceivesPrompt, Answers, ListsMessages, Declines, Serve
<1>3. ASSUME NEW a \in Agents, MoveFunds(a) PROVE FundsFound'
  <2>1. PICK h \in SUBSET Kinds :
           /\ holds' = [holds EXCEPT ![a] = h]
           /\ heldOn' = [t \in Turns |-> IF agent[t] = a THEN heldOn[t] \cap h ELSE heldOn[t]]
    BY <1>3 DEF MoveFunds
  <2>2. \A t \in Turns : heldOn'[t] = IF agent[t] = a THEN heldOn[t] \cap h ELSE heldOn[t]
    BY <2>1
  <2>3. \A b \in Agents : holds'[b] = IF b = a THEN h ELSE holds[b]
    BY <2>1 DEF IInv, TypeOK
  <2>4. UNCHANGED <<place, agent, sent>>
    BY <1>3 DEF MoveFunds
  <2>5. \A t \in Turns : heldOn'[t] \subseteq heldOn[t]
    BY <2>2
  <2>6. \A t \in Turns : agent[t] \in Agents => heldOn'[t] \subseteq holds'[agent[t]]
    <3> SUFFICES ASSUME NEW t \in Turns, agent[t] \in Agents PROVE heldOn'[t] \subseteq holds'[agent[t]]
      OBVIOUS
    <3>1. heldOn[t] \subseteq holds[agent[t]]
      BY DEF FundsFound
    <3>2. CASE agent[t] = a
      BY <2>2, <2>3, <3>1, <3>2
    <3>3. CASE agent[t] # a
      BY <2>2, <2>3, <3>1, <3>3
    <3> QED
      BY <3>2, <3>3
  <2> QED
    BY <2>4, <2>5, <2>6 DEF FundsFound, Chats
<1> QED
  BY <1>1, <1>2, <1>3, FundsStep DEF Next, vars, Quarantine

(***************************************************************************)
(* Whatever has been in a wallet since a turn took its agent up, under     *)
(* either token program or in lamports, keeps the turn from asking the     *)
(* agent, a new one and one on record alike, although anybody may send it  *)
(* funds or take them at any moment (agents.ts:60-69, 83-113).             *)
(***************************************************************************)
THEOREM FundedNeverAsked == Spec => []FundedAgentsAreNeverAsked
<1>1. Init => FundsFound
  BY AgentsAssumption DEF Init, FundsFound, Chats, Checks, PaidCalls
<1>2. FundsFound => FundedAgentsAreNeverAsked
  BY DEF FundsFound, FundedAgentsAreNeverAsked, Chats
<1> QED
  BY <1>1, <1>2, Invariance, FundsStay, PTL DEF Spec

-----------------------------------------------------------------------------
(***************************************************************************)
(* The refinement: every step is a step of ChatPromise or a stutter        *)
(***************************************************************************)
PromiseStep == [Promise!Next]_<<stageBar, chatsBar>>

LEMMA PromiseInit == Init => Promise!Init
BY DEF Init, Promise!Init, stageBar, chatsBar, StageOf, PaidCalls

\* A turn that moves without asking changes its own stage only.
LEMMA StageMoves ==
    ASSUME TypeOK, NEW t \in Turns, NEW to \in Places, Move(t, to), UNCHANGED sent
    PROVE  stageBar' = [stageBar EXCEPT ![t] = StageOf(t)'] /\ UNCHANGED chatsBar
BY DEF TypeOK, Move, stageBar, chatsBar, StageOf

\* A call that is not the chat leaves the stage of its turn and its count of chats alone.
LEMMA CallMoves ==
    ASSUME TypeOK, NEW t \in Turns, NEW call \in {"create", "start", "messages"}, Fetch(t, call),
           IF call = "messages" THEN StageOf(t) = "asked" ELSE StageOf(t) = "ready"
    PROVE  UNCHANGED <<stageBar, chatsBar>>
<1>1. /\ place \in [Turns -> Places] /\ sent \in [Turns -> [PaidCalls -> Nat]]
      /\ place' = [place EXCEPT ![t] = call]
  BY DEF TypeOK, Fetch, Move
<1>2. \A u \in Turns : sent'[u]["chat"] = sent[u]["chat"]
  BY <1>1 DEF Fetch, Request, PaidCalls
<1>3. \A u \in Turns : StageOf(u)' = StageOf(u)
  BY <1>1 DEF StageOf, Outcomes
<1> QED
  BY <1>2, <1>3 DEF stageBar, chatsBar

\* A turn that ends before its chat ends without an agent.
LEMMA EndsUnasked ==
    ASSUME TypeOK, NEW t \in Turns, StageOf(t) = "ready", Leave(t, "ApiError")
    PROVE  PromiseStep
<1>1. "ApiError" \in Places /\ StageOf(t)' = "ApiError"
  BY DEF TypeOK, Leave, Move, StageOf, Places, Outcomes
<1>2. Promise!Unasked(t)
  BY <1>1, StageMoves DEF Leave, Promise!Unasked, stageBar
<1> QED
  BY <1>2 DEF PromiseStep, Promise!Next

\* Whatever ends a turn after its chat is its one outcome.
LEMMA EndsAsked ==
    ASSUME TypeOK, NEW t \in Turns, StageOf(t) = "asked",
           NEW to \in {"Valid", "Timeout", "ApiError", "Malformed"}, Leave(t, to)
    PROVE  PromiseStep
<1>1. to \in Places /\ StageOf(t)' = to
  BY DEF TypeOK, Leave, Move, StageOf, Places, Outcomes
<1>2. Promise!Answered(t)
  BY <1>1, StageMoves DEF Leave, Promise!Answered, stageBar
<1> QED
  BY <1>2 DEF PromiseStep, Promise!Next

\* The chat leaves once, from a turn that has not sent any.
LEMMA ChatPromised ==
    ASSUME IInv, NEW t \in Turns, StageOf(t) = "ready", Fetch(t, "chat")
    PROVE  PromiseStep
<1>1. /\ place \in [Turns -> Places] /\ sent \in [Turns -> [PaidCalls -> Nat]]
      /\ place' = [place EXCEPT ![t] = "chat"]
      /\ sent' = [sent EXCEPT ![t]["chat"] = @ + 1]
  BY DEF IInv, TypeOK, Fetch, Move, Request, PaidCalls
<1>2. sent[t]["chat"] = 0
  BY DEF IInv, ChatsCounted, Chats
<1>3. stageBar' = [stageBar EXCEPT ![t] = "asked"]
  BY <1>1 DEF stageBar, StageOf
<1>4. chatsBar' = [chatsBar EXCEPT ![t] = 1]
  <2>1. sent'[t] = [sent[t] EXCEPT !["chat"] = @ + 1] /\ \A u \in Turns \ {t} : sent'[u] = sent[u]
    BY <1>1
  <2>2. sent'[t]["chat"] = 1
    BY <1>1, <1>2, <2>1 DEF PaidCalls
  <2> QED
    BY <2>1, <2>2 DEF chatsBar
<1>5. Promise!Send(t)
  BY <1>2, <1>3, <1>4 DEF Promise!Send, stageBar, chatsBar
<1> QED
  BY <1>5 DEF PromiseStep, Promise!Next

LEMMA TurnPromised ==
    ASSUME IInv, NEW t \in Turns, Turn(t)
    PROVE  PromiseStep
<1> USE DEF IInv
<1>0. place \in [Turns -> Places]
  BY DEF TypeOK
<1>1. CASE Begin(t)
  <2>1. Move(t, "find") /\ "find" \in Places /\ StageOf(t) = "waiting" /\ StageOf(t)' = "ready"
    BY <1>0, <1>1 DEF Begin, Move, StageOf, Places, Outcomes
  <2>2. Promise!Begin(t)
    BY <1>1, <2>1, StageMoves DEF Begin, Promise!Begin, stageBar
  <2> QED
    BY <2>2 DEF PromiseStep, Promise!Next
<1>2. ASSUME NEW to \in Checks \cup {"checked", "record"}, Move(t, to), UNCHANGED sent,
             StageOf(t) = "ready"
      PROVE  PromiseStep
  <2>1. StageOf(t)' = StageOf(t) /\ to \in Places
    BY <1>0, <1>2 DEF Move, StageOf, Places, Checks, Outcomes
  <2> QED
    BY <1>2, <2>1, StageMoves DEF PromiseStep, stageBar
<1>3. CASE FindsActive(t) \/ Started(t)
  BY <1>2, <1>3 DEF FindsActive, Started, Returns, Leave, StageOf, Checks, Outcomes
<1>4. CASE FindsRetired(t) \/ FindsFunds(t) \/ RecordTaken(t) \/ LookupFails(t)
  BY <1>4, EndsUnasked DEF FindsRetired, FindsFunds, RecordTaken, LookupFails, StageOf, Checks, Outcomes
<1>5. CASE FindsNone(t)
  BY <1>5, CallMoves DEF FindsNone, PromiseStep, StageOf, Outcomes
<1>6. CASE Created(t)
  BY <1>6, CallMoves, EndsUnasked DEF Created, Returns, PromiseStep, StageOf, Outcomes
<1>7. CASE FindsEmpty(t)
  <2>1. StageOf(t) = "ready"
    BY <1>7 DEF FindsEmpty, StageOf, Checks, Outcomes
  <2> QED
    BY <1>2, <1>7, <2>1 DEF FindsEmpty, Leave, Checks
<1>8. CASE Records(t) \/ NotesCheck(t)
  BY <1>8, ChatPromised DEF Records, NotesCheck, StageOf, Outcomes
<1>9. CASE HeadersArrive(t)
  BY <1>9 DEF HeadersArrive, PromiseStep, stageBar, chatsBar, StageOf
<1>10. CASE TimesOut(t) \/ TransportFails(t) \/ BadAnswer(t)
  <2>1. place[t] \in Calls /\ \E error : Fails(t, error)
    BY <1>10 DEF TimesOut, TransportFails, BadAnswer
  <2>2. CASE UNCHANGED <<sent, place>>
    BY <2>2 DEF PromiseStep, stageBar, chatsBar, StageOf
  <2>3. ASSUME NEW to \in {"Timeout", "ApiError", "Malformed"}, Leave(t, to),
               to # "ApiError" => place[t] \in {"chat", "messages"}
        PROVE  PromiseStep
    <3>1. CASE place[t] \in {"chat", "messages"}
      BY <2>3, <3>1, EndsAsked DEF StageOf
    <3>2. CASE place[t] \in {"create", "start"}
      BY <2>3, <3>2, EndsUnasked DEF StageOf, Outcomes
    <3> QED
      BY <2>1, <3>1, <3>2 DEF Calls, PaidCalls
  <2> QED
    BY <2>1, <2>2, <2>3, FailsEnds
<1>11. CASE AnswerArrives(t) \/ HistoryArrives(t)
  <2>1. StageOf(t) = "asked" /\ \E to \in {"Valid", "Malformed"} : Leave(t, to)
    BY <1>11 DEF AnswerArrives, HistoryArrives, Returns, Parse, StageOf
  <2> QED
    BY <2>1, EndsAsked
<1>12. CASE EmptyAnswer(t)
  BY <1>12, CallMoves DEF EmptyAnswer, Returns, PromiseStep, StageOf
<1>13. CASE Dies(t)
  <2>1. StageOf(t) \in {"ready", "asked"} /\ Leave(t, "Interrupted")
    BY <1>13 DEF Dies, Running, StageOf
  <2>2. "Interrupted" \in Places /\ StageOf(t)' = "Interrupted"
    BY <1>0, <2>1 DEF Leave, Move, StageOf, Places, Outcomes
  <2>3. Promise!Interrupt(t)
    BY <2>1, <2>2, StageMoves DEF Leave, Promise!Interrupt, stageBar
  <2> QED
    BY <2>3 DEF PromiseStep, Promise!Next
<1> QED
  BY <1>1, <1>3, <1>4, <1>5, <1>6, <1>7, <1>8, <1>9, <1>10, <1>11, <1>12, <1>13, Turn(t) DEF Turn, Works

LEMMA PromiseNext == IInv /\ [Next]_vars => PromiseStep
<1> SUFFICES ASSUME IInv, [Next]_vars PROVE PromiseStep
  OBVIOUS
<1>1. CASE UNCHANGED <<place, sent>>
  BY <1>1 DEF PromiseStep, stageBar, chatsBar, StageOf
<1>2. ASSUME NEW r \in wire, Provider(r) PROVE UNCHANGED <<place, sent>>
  BY <1>2 DEF Provider, CreatesAgent, StartsAgent, ReceivesPrompt, Answers, ListsMessages, Declines, Serve
<1> QED
  BY <1>1, <1>2, TurnPromised DEF Next, vars, Quarantine, MoveFunds

(***************************************************************************)
(* Whatever fails, is retried or answered late, a turn sends its prompt at *)
(* most once and has one outcome: BattleAgents implements ChatPromise      *)
(* (clawpump.ts:168-170, http.ts:56-61).                                   *)
(***************************************************************************)
THEOREM OneChatOneOutcome == Spec => ImplementsChatPromise
BY PromiseInit, PromiseNext, Invariance, PTL DEF Spec, ImplementsChatPromise, Promise!Spec, PromiseStep

=============================================================================
