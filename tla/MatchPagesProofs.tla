--------------------------- MODULE MatchPagesProofs ---------------------------
(***************************************************************************)
(* Theorems about PlayerClient and MatchPages for any number of tabs,      *)
(* matches, texts and clicks, and any number of requests and transactions  *)
(* that are lost, repeated or late.                                        *)
(***************************************************************************)
EXTENDS MatchPages, TLAPS

-----------------------------------------------------------------------------
(***************************************************************************)
(* The inductive invariant                                                 *)
(***************************************************************************)

\* A review that is open shows the terms of the form.
ReviewsCurrent ==
    \A t \in Creators : form[t].review # NoTerms => form[t].review = form[t].terms

Reviewed(tx) == tx.kind = "create" => tx.terms = tx.reviewed

\* The commitment was derived from what was typed, and its row is there.
Backed(tx, db) ==
    /\ tx.commitment = Derived(tx)
    /\ tx.commitment \in DOMAIN db
    /\ normalizes(tx.typed)

\* What is under way has the terms that were reviewed; what is built from has its row.
UnderWay ==
    /\ \A tx \in posts : Reviewed(tx)
    /\ \A tx \in pool : Reviewed(tx) /\ Backed(tx, rows)
    /\ \A t \in Tabs :
        /\ run[t].step # "idle" => run[t].tx # NoTx /\ Reviewed(run[t].tx)
        /\ run[t].step \in {"stored", "signing", "confirming", "confirmed"} => Backed(run[t].tx, rows)

\* What an account was signed with.
OnChain ==
    \A m \in Matches :
        /\ account[m].create # NoTx =>
             /\ account[m].create.match = m /\ account[m].create.kind = "create"
             /\ Reviewed(account[m].create) /\ Backed(account[m].create, rows)
        /\ account[m].join # NoTx =>
             account[m].join.match = m /\ Backed(account[m].join, rows)

ClientInv ==
    /\ ClientTypeOK
    /\ ReviewsCurrent
    /\ UnderWay
    /\ OnChain

-----------------------------------------------------------------------------
(***************************************************************************)
(* The steps of tabs, requests and transactions                            *)
(***************************************************************************)

\* The state of a form that is edited, reviewed or closed.
LEMMA FormStep ==
    ASSUME ClientInv, NEW t \in Creators, EditTerms(t) \/ Review(t) \/ CloseReview(t)
    PROVE  ClientInv'
<1> USE DEF ClientInv, FormOnly
<1>1. ClientTypeOK'
  BY DEF EditTerms, Review, CloseReview, ClientTypeOK, FormType, reviewAfterEdit
<1>2. ReviewsCurrent'
  BY DEF EditTerms, Review, CloseReview, ClientTypeOK, FormType, reviewAfterEdit, ReviewsCurrent
<1>3. UnderWay' /\ OnChain'
  BY DEF EditTerms, Review, CloseReview, UnderWay, OnChain, Backed
<1> QED
  BY <1>1, <1>2, <1>3

\* What a click puts under way.
LEMMA StartsStep ==
    ASSUME ClientInv, NEW t \in Tabs, NEW kind \in {"create", "join"}, NEW m \in Matches, NEW x \in Texts,
           NEW terms \in Terms \cup {NoTerms}, NEW reviewed \in Terms \cup {NoTerms},
           kind = "create" => terms = reviewed,
           Starts(t, kind, m, x, terms, reviewed), UNCHANGED <<form, rows, pool, account>>
    PROVE  ClientInv'
<1> USE ClientAssumption DEF ClientInv
<1> DEFINE tx == [kind |-> kind, match |-> m, player |-> Owner[t], salt |-> clicks',
                  terms |-> terms, commitment |-> NoTx, typed |-> x, reviewed |-> reviewed]
<1>1. tx \in Txs /\ Reviewed(tx)
  BY DEF Starts, Txs, Reviewed
<1>2. run' = [run EXCEPT ![t] = [step |-> "storing", tx |-> tx]] /\ posts' = posts \cup {tx}
      /\ clicks' = clicks + 1
  BY DEF Starts
<1> HIDE DEF tx
<1>3. ClientTypeOK'
  BY <1>1, <1>2 DEF ClientTypeOK, RunType, Pending
<1>4. UnderWay'
  BY <1>1, <1>2 DEF ClientTypeOK, UnderWay, Backed
<1> QED
  BY <1>3, <1>4 DEF ReviewsCurrent, OnChain, Backed

LEMMA ClickStep ==
    ASSUME ClientInv,
           (\E t \in Creators : ClickCreate(t)) \/ (\E t \in Joiners : ClickJoin(t))
    PROVE  ClientInv'
<1>1. ASSUME NEW t \in Creators, ClickCreate(t) PROVE ClientInv'
  BY <1>1, StartsStep DEF ClickCreate, ClientInv, ClientTypeOK, FormType, ReviewsCurrent, Tabs
<1>2. ASSUME NEW t \in Joiners, ClickJoin(t) PROVE ClientInv'
  BY <1>2, StartsStep DEF ClickJoin, LooksAcceptable, Tabs
<1> QED
  BY <1>1, <1>2

\* A tab that gives up, or ends its click, forgets it.
LEMMA TabStep ==
    ASSUME ClientInv, NEW t \in Tabs, Tab(t)
    PROVE  ClientInv'
<1> USE ClientAssumption DEF ClientInv, ClickOnly, Idle
<1>1. /\ run \in [Tabs -> RunType] /\ form \in [Creators -> FormType]
      /\ (run[t].step # "idle" => run[t].tx \in Txs)
  BY DEF ClientTypeOK, RunType, UnderWay
<1>2. UNCHANGED <<posts, rows, account, clicks>>
  BY DEF Tab, PostFails, Simulate, SignAndSend, GivesUp, Confirm, ConfirmFails, CloseTab
<1>3. form' = form \/ form' = Reset(t)
  BY DEF Tab, PostFails, Simulate, SignAndSend, GivesUp, Confirm, ConfirmFails, CloseTab
<1>4. form' \in [Creators -> FormType] /\ ReviewsCurrent'
  BY <1>1, <1>3 DEF ReviewsCurrent, Reset, EmptyForm, FormType
<1>5. OnChain'
  BY <1>2 DEF OnChain, Backed
<1>6. pool' = pool \/ (pool' = pool \cup {run[t].tx} /\ AtStep(t, "signing"))
  <2>1. CASE SignAndSend(t)
    BY <2>1 DEF SignAndSend
  <2>2. CASE ~SignAndSend(t)
    BY <2>2 DEF Tab, PostFails, Simulate, GivesUp, Confirm, ConfirmFails, CloseTab
  <2> QED
    BY <2>1, <2>2
<1>7. /\ pool' \subseteq Txs
      /\ \A tx \in pool' : Reviewed(tx) /\ Backed(tx, rows')
  BY <1>1, <1>2, <1>6 DEF ClientTypeOK, UnderWay, AtStep, Backed
<1>8. \/ run' = [run EXCEPT ![t] = Idle]
      \/ \E s \in {"signing", "confirming", "confirmed"} :
            /\ run[t].step \in {"stored", "signing", "confirming"}
            /\ run' = [run EXCEPT ![t].step = s]
  BY DEF Tab, PostFails, Simulate, SignAndSend, GivesUp, Confirm, ConfirmFails, CloseTab, Fail, GoTo,
     stored, AtStep
<1>9. run' \in [Tabs -> RunType]
  BY <1>1, <1>8 DEF RunType, Pending
<1>10. \A u \in Tabs :
         \/ run'[u].step = "idle"
         \/ run'[u].tx = run[u].tx /\ run[u].step # "idle"
            /\ \/ run'[u].step = run[u].step
               \/ run[u].step \in {"stored", "signing", "confirming"}
  <2>1. CASE run' = [run EXCEPT ![t] = Idle]
    BY <1>1, <2>1
  <2>2. ASSUME NEW s \in {"signing", "confirming", "confirmed"},
               run[t].step \in {"stored", "signing", "confirming"},
               run' = [run EXCEPT ![t].step = s]
        PROVE  \A u \in Tabs :
                 \/ run'[u].step = "idle"
                 \/ run'[u].tx = run[u].tx /\ run[u].step # "idle"
                    /\ \/ run'[u].step = run[u].step
                       \/ run[u].step \in {"stored", "signing", "confirming"}
    <3>1. run'[t].tx = run[t].tx /\ run'[t].step = s
      BY <1>1, <2>2 DEF RunType
    <3>2. \A u \in Tabs \ {t} : run'[u] = run[u]
      BY <1>1, <2>2
    <3> QED
      BY <2>2, <3>1, <3>2
  <2> QED
    BY <1>8, <2>1, <2>2
<1>11. UnderWay'
  <2>1. \A tx \in posts' : Reviewed(tx)
    BY <1>2 DEF UnderWay
  <2>2. \A tx : Backed(tx, rows) => Backed(tx, rows')
    BY <1>2 DEF Backed, Derived
  <2>3. \A u \in Tabs :
          /\ run'[u].step # "idle" => run'[u].tx # NoTx /\ Reviewed(run'[u].tx)
          /\ run'[u].step \in {"stored", "signing", "confirming", "confirmed"} => Backed(run'[u].tx, rows')
    BY <1>10, <2>2 DEF UnderWay
  <2> QED
    BY <1>7, <2>1, <2>3 DEF UnderWay, Reviewed
<1> QED
  BY <1>2, <1>4, <1>5, <1>7, <1>9, <1>11 DEF ClientTypeOK

\* The server derives the commitment; whoever still waits goes on with it.
LEMMA ServedStep ==
    ASSUME ClientInv, NEW tx \in posts, RefuseStrategy(tx) \/ StoreStrategy(tx) \/ FindStrategy(tx)
    PROVE  ClientInv'
<1> USE ClientAssumption DEF ClientInv
<1> DEFINE built == [tx EXCEPT !.commitment = Derived(tx)]
<1>1. tx \in Txs /\ Reviewed(tx) /\ run \in [Tabs -> RunType]
  BY DEF ClientTypeOK, UnderWay
<1>2. Derived(tx) \in Commitments /\ (normalizes(tx.typed) => RowFor(Derived(tx)) \in Rows)
  BY <1>1, StrategyAssumption DEF Derived, computeCommitment, Commitments, Txs, RowFor, Rows
<1>3. built \in Txs /\ Reviewed(built) /\ Derived(built) = Derived(tx)
      /\ built.commitment = Derived(tx) /\ built.typed = tx.typed
  BY <1>1, <1>2 DEF Txs, Reviewed, Derived
<1> HIDE DEF built
<1>4. /\ posts' \subseteq posts
      /\ UNCHANGED <<form, pool, account, clicks>>
  BY DEF RefuseStrategy, StoreStrategy, FindStrategy, Served
<1>5. /\ DOMAIN rows \subseteq DOMAIN rows'
      /\ DOMAIN rows' \subseteq Commitments /\ \A c \in DOMAIN rows' : rows'[c] \in Rows
  BY <1>2 DEF RefuseStrategy, StoreStrategy, FindStrategy, ClientTypeOK
<1>6. \/ Respond(tx, Idle)
      \/ /\ Respond(tx, [step |-> "stored", tx |-> built])
         /\ Derived(tx) \in DOMAIN rows' /\ normalizes(tx.typed)
  BY DEF RefuseStrategy, StoreStrategy, FindStrategy, Accept, built
<1>7. \A other : Backed(other, rows) => Backed(other, rows')
  BY <1>5 DEF Backed, Derived
<1>8. \A t \in Tabs :
        \/ run'[t] = run[t] \/ run'[t] = Idle
        \/ run'[t] = [step |-> "stored", tx |-> built] /\ Backed(built, rows')
  BY <1>3, <1>6 DEF Respond, Backed, Derived
<1>9. run' \in [Tabs -> RunType]
  <2>1. Idle \in RunType /\ [step |-> "stored", tx |-> built] \in RunType
    BY <1>3 DEF Idle, RunType, Pending
  <2> QED
    BY <1>1, <1>6, <2>1 DEF Respond
<1>10. UnderWay'
  <2>1. built # NoTx
    BY <1>3
  <2> QED
    BY <1>3, <1>4, <1>7, <1>8, <2>1 DEF UnderWay, Idle, Reviewed
<1>11. OnChain'
  BY <1>4, <1>7 DEF OnChain, Reviewed
<1> QED
  BY <1>4, <1>5, <1>9, <1>10, <1>11 DEF ClientTypeOK, ReviewsCurrent

\* What lands was in the pool: signed by a tab that had its row.
LEMMA ChainStep ==
    ASSUME ClientInv,
           \/ \E tx \in posts : LosePost(tx)
           \/ \E tx \in pool : Land(tx) \/ Expire(tx)
    PROVE  ClientInv'
<1> USE ClientAssumption DEF ClientInv
<1>1. ASSUME NEW tx \in posts, LosePost(tx) PROVE ClientInv'
  BY <1>1 DEF LosePost, ClientTypeOK, ReviewsCurrent, UnderWay, OnChain, Backed
<1>2. ASSUME NEW tx \in pool, Land(tx) PROVE ClientInv'
  <2>1. /\ tx \in Txs /\ Reviewed(tx) /\ Backed(tx, rows)
        /\ account \in [Matches -> AccountType] /\ tx.match \in Matches
        /\ tx.kind \in {"create", "join"}
    BY DEF ClientTypeOK, UnderWay, Txs
  <2>2. UNCHANGED <<form, run, posts, rows, clicks>> /\ pool' \subseteq pool
    BY <1>2 DEF Land
  <2>3. account' \in [Matches -> AccountType] /\ OnChain'
    <3>1. CASE account' = account
      BY <2>1, <2>2, <3>1 DEF OnChain, Backed
    <3>2. CASE tx.kind = "create" /\ account' # account
      <4>1. account' = [account EXCEPT ![tx.match].state = "Open", ![tx.match].create = tx]
        BY <1>2, <3>2 DEF Land
      <4> QED
        BY <2>1, <2>2, <3>2, <4>1 DEF OnChain, Backed, AccountType, States
    <3>3. CASE tx.kind # "create" /\ account' # account
      <4>1. account' = [account EXCEPT ![tx.match].state = "Ready", ![tx.match].join = tx]
        BY <1>2, <3>3 DEF Land
      <4> QED
        BY <2>1, <2>2, <3>3, <4>1 DEF OnChain, Backed, AccountType, States
    <3> QED
      BY <3>1, <3>2, <3>3
  <2> QED
    BY <2>2, <2>3 DEF ClientTypeOK, ReviewsCurrent, UnderWay, Backed
<1>3. ASSUME NEW tx \in pool, Expire(tx) PROVE ClientInv'
  BY <1>3 DEF Expire, ClientTypeOK, ReviewsCurrent, UnderWay, OnChain, Backed
<1> QED
  BY <1>1, <1>2, <1>3

LEMMA OutsideStep ==
    ASSUME ClientInv, (\E m \in Matches : MoveOn(m)) \/ (\E c \in DOMAIN rows : Rewrite(c))
    PROVE  ClientInv'
<1> USE DEF ClientInv
<1>1. ASSUME NEW m \in Matches, MoveOn(m) PROVE ClientInv'
  <2>1. /\ account' \in [Matches -> AccountType]
        /\ \A n \in Matches : account'[n].create = account[n].create /\ account'[n].join = account[n].join
    BY <1>1 DEF MoveOn, ClientTypeOK, AccountType, States
  <2> QED
    BY <1>1, <2>1 DEF MoveOn, ClientTypeOK, ReviewsCurrent, UnderWay, OnChain, Backed
<1>2. ASSUME NEW c \in DOMAIN rows, Rewrite(c) PROVE ClientInv'
  <2>1. DOMAIN rows' = DOMAIN rows /\ \A d \in DOMAIN rows' : rows'[d] \in Rows
    BY <1>2 DEF Rewrite, ClientTypeOK, Rows
  <2> QED
    BY <1>2, <2>1 DEF Rewrite, ClientTypeOK, ReviewsCurrent, UnderWay, OnChain, Backed
<1> QED
  BY <1>1, <1>2

LEMMA ClientHolds == ClientInv /\ [ClientNext]_clientVars => ClientInv'
<1> SUFFICES ASSUME ClientInv, [ClientNext]_clientVars PROVE ClientInv'
  OBVIOUS
<1>1. CASE UNCHANGED clientVars
  BY <1>1 DEF clientVars, ClientInv, ClientTypeOK, ReviewsCurrent, UnderWay, OnChain, Backed
<1>2. CASE ClientNext
  BY <1>2, FormStep, ClickStep, TabStep, ServedStep, ChainStep, OutsideStep DEF ClientNext, Network
<1> QED
  BY <1>1, <1>2

-----------------------------------------------------------------------------
(***************************************************************************)
(* The pages                                                               *)
(***************************************************************************)

\* The predictions of a round are posted together.
RoundsWhole ==
    \A m \in Matches, r \in Rounds :
      posted[m] \cap ({r} \X Sides) # {} => {r} \X Sides \subseteq posted[m]

\* A page is a true copy of a part of the account that does not change any more.
PageOfAccount ==
    page # NoPage =>
      /\ page.predictions \subseteq posted[page.of]
      /\ page.seen.state = "Started" => account[page.of] = page.seen

IInv ==
    /\ TypeOK
    /\ ClientInv
    /\ RoundsWhole
    /\ PageOfAccount

LEMMA InitHolds == Init => IInv
<1> SUFFICES ASSUME Init PROVE IInv
  OBVIOUS
<1> USE ClientAssumption DEF Init, ClientInit
<1>1. ClientInv
  BY DEF ClientInv, ClientTypeOK, FormType, EmptyForm, RunType, Pending, Idle, AccountType, States,
     ReviewsCurrent, UnderWay, OnChain
<1>2. TypeOK /\ RoundsWhole /\ PageOfAccount
  BY <1>1 DEF ClientInv, TypeOK, RoundsWhole, PageOfAccount
<1> QED
  BY <1>1, <1>2 DEF IInv

\* Once a match has started, nothing changes what it was signed with.
LEMMA StartedStays ==
    ASSUME ClientInv, [ClientNext]_clientVars, NEW m \in Matches, account[m].state = "Started"
    PROVE  account'[m] = account[m]
<1>1. CASE UNCHANGED account
  BY <1>1
<1>2. ASSUME NEW tx \in pool, Land(tx) PROVE account'[m] = account[m]
  <2>1. account \in [Matches -> AccountType]
    BY DEF ClientInv, ClientTypeOK
  <2>2. tx.match = m => ~Accepted(tx)
    BY DEF Accepted
  <2> QED
    BY <1>2, <2>1, <2>2 DEF Land
<1>3. ASSUME NEW n \in Matches, MoveOn(n) PROVE account'[m] = account[m]
  BY <1>3 DEF MoveOn, ClientInv, ClientTypeOK
<1>4. ASSUME NEW t \in Tabs, Tab(t) PROVE UNCHANGED account
  BY <1>4 DEF Tab, PostFails, Simulate, SignAndSend, GivesUp, Confirm, ConfirmFails, CloseTab, ClickOnly
<1>5. ASSUME Network, ~UNCHANGED account PROVE \E tx \in pool : Land(tx)
  BY <1>5 DEF Network, RefuseStrategy, StoreStrategy, FindStrategy, Served, LosePost, Expire
<1> QED
  BY <1>1, <1>2, <1>3, <1>4, <1>5
     DEF ClientNext, clientVars, EditTerms, Review, CloseReview, FormOnly, ClickCreate, ClickJoin, Rewrite

LEMMA StepHolds == IInv /\ [Next]_vars => IInv'
<1> SUFFICES ASSUME IInv, [Next]_vars PROVE IInv'
  OBVIOUS
<1> USE DEF IInv
<1>1. ASSUME [ClientNext]_clientVars, UNCHANGED <<posted, turns, page>> PROVE IInv'
  <2>1. ClientInv'
    BY <1>1, ClientHolds
  <2>2. TypeOK' /\ RoundsWhole'
    BY <1>1, <2>1 DEF TypeOK, ClientInv, RoundsWhole
  <2>3. PageOfAccount'
    BY <1>1, StartedStays DEF PageOfAccount, TypeOK, PageType
  <2> QED
    BY <2>1, <2>2, <2>3
<1>2. ASSUME NEW m \in Matches, RecordTurn(m) \/ PostRound(m) \/ LoadMatch(m) PROVE IInv'
  <2>1. UNCHANGED clientVars
    BY <1>2 DEF RecordTurn, PostRound, LoadMatch
  <2>2. ClientInv'
    BY <2>1, ClientHolds
  <2>3. CASE RecordTurn(m)
    BY <2>1, <2>2, <2>3 DEF RecordTurn, TypeOK, ClientInv, RoundsWhole, PageOfAccount, clientVars
  <2>4. CASE PostRound(m)
    <3>1. PICK r \in Rounds : posted' = [posted EXCEPT ![m] = @ \cup ({r} \X Sides)]
      BY <2>4 DEF PostRound, written
    <3>2. posted \in [Matches -> SUBSET (Rounds \X Sides)]
      BY DEF TypeOK
    <3>3. posted' \in [Matches -> SUBSET (Rounds \X Sides)]
      BY <3>1, <3>2
    <3>4. \A n \in Matches : posted[n] \subseteq posted'[n]
      BY <3>1, <3>2
    <3>5. RoundsWhole'
      <4> SUFFICES ASSUME NEW n \in Matches, NEW q \in Rounds, posted'[n] \cap ({q} \X Sides) # {}
                   PROVE  {q} \X Sides \subseteq posted'[n]
        BY DEF RoundsWhole
      <4>1. CASE q = r /\ n = m
        BY <3>1, <3>2, <4>1
      <4>2. CASE ~(q = r /\ n = m)
        <5>1. posted[n] \cap ({q} \X Sides) # {}
          BY <3>1, <3>2, <4>2
        <5> QED
          BY <3>4, <5>1 DEF RoundsWhole
      <4> QED
        BY <4>1, <4>2
    <3>6. PageOfAccount' /\ TypeOK'
      BY <2>1, <2>2, <2>4, <3>3, <3>4 DEF PostRound, PageOfAccount, TypeOK, ClientInv, PageType, clientVars
    <3> QED
      BY <2>2, <3>5, <3>6
  <2>5. CASE LoadMatch(m)
    BY <2>1, <2>2, <2>5
       DEF LoadMatch, TypeOK, ClientInv, ClientTypeOK, RoundsWhole, PageOfAccount, PageType, clientVars
  <2> QED
    BY <1>2, <2>3, <2>4, <2>5
<1> QED
  BY <1>1, <1>2 DEF Next, vars

\* The invariant holds in every reachable state.
LEMMA Invariance == Spec => []IInv
BY InitHolds, StepHolds, PTL DEF Spec

-----------------------------------------------------------------------------
(***************************************************************************)
(* Theorems                                                                *)
(***************************************************************************)

(***************************************************************************)
(* The 32 bytes an account holds were derived from the text its player had *)
(* typed, for that match and that wallet, and their row was stored before  *)
(* they were signed, whatever was lost, repeated or abandoned              *)
(* (strategy-field.tsx:67-71, create-match-form.tsx:110-113).              *)
(***************************************************************************)
THEOREM CommitmentsHaveTheirText == Spec => []EveryCommitmentHasItsText
<1>1. ClientInv => EveryCommitmentHasItsText
  <2> SUFFICES ASSUME ClientInv, NEW m \in Matches, NEW tx \in Signed(m)
               PROVE  tx.match = m /\ Backed(tx, rows)
    BY DEF EveryCommitmentHasItsText, Backed, Derived, computeCommitment
  <2> QED
    BY DEF ClientInv, OnChain, Signed
<1> QED
  BY <1>1, Invariance, PTL DEF IInv

(***************************************************************************)
(* The terms of a match are those its creator saw in the review they       *)
(* clicked from (create-match-form.tsx:71-79).                             *)
(***************************************************************************)
THEOREM CreatorsReviewedTheTerms == Spec => []TermsWereReviewed
<1>1. ClientInv => TermsWereReviewed
  BY DEF ClientInv, OnChain, Reviewed, TermsWereReviewed
<1> QED
  BY <1>1, Invariance, PTL DEF IInv

(***************************************************************************)
(* A strategy is published only if its player signed for it in that match, *)
(* and only once the match has started (transcript.ts:3-12).               *)
(***************************************************************************)
THEOREM DraftsStayHidden == Spec => []OnlySignedStrategiesShown
<1>1. IInv => OnlySignedStrategiesShown
  <2> SUFFICES ASSUME IInv, ShownStrategies # {} PROVE OnlySignedStrategiesShown
    BY DEF OnlySignedStrategiesShown
  <2>1. page # NoPage /\ Transcript.strategies # {}
    BY DEF ShownStrategies
  <2>2. revealed(page.seen)
    BY <2>1 DEF Transcript
  <2>3. account[page.of] = page.seen /\ page.seen.state = "Started"
    BY <2>1, <2>2 DEF revealed, IInv, PageOfAccount
  <2>4. \A s \in ShownStrategies : s.commitment \in participants(page.of, page.seen)
    BY <2>1, <2>2 DEF ShownStrategies, Transcript
  <2> QED
    BY <2>3, <2>4 DEF participants, Signed, OnlySignedStrategiesShown
<1> QED
  BY <1>1, Invariance, PTL

(***************************************************************************)
(* No answer of a round is published before both predictions of the round  *)
(* are on chain (transcript.ts:13-23, page.tsx:37-39).                     *)
(***************************************************************************)
THEOREM AnswersAwaitTheChain == Spec => []NoAnswerShownEarly
<1>1. IInv => NoAnswerShownEarly
  <2> SUFFICES ASSUME IInv, NEW turn \in ProofTurns \cup MatchTurns
               PROVE  {turn[1]} \X Sides \subseteq posted[page.of]
    BY DEF NoAnswerShownEarly
  <2>1. page # NoPage /\ page \in PageType /\ page.predictions \subseteq posted[page.of]
    BY DEF ProofTurns, MatchTurns, IInv, TypeOK, PageOfAccount
  <2>2. CASE turn \in ProofTurns
    <3>1. turn[1] \in completed(page.predictions)
      BY <2>1, <2>2 DEF ProofTurns, Transcript
    <3> QED
      BY <2>1, <3>1 DEF completed
  <2>3. CASE turn \in MatchTurns
    <3>1. turn[1] \in Rounds /\ <<turn[1], "creator">> \in posted[page.of]
      BY <2>1, <2>3 DEF MatchTurns, acceptedRounds
    <3> QED
      BY <2>1, <3>1 DEF IInv, RoundsWhole, Sides, PageType
  <2> QED
    BY <2>2, <2>3
<1> QED
  BY <1>1, Invariance, PTL

(***************************************************************************)
(* The text an agent is prompted with, and the text a page calls verified, *)
(* is up to normalization what the player typed when they signed, whatever *)
(* was done to the row since (agents.ts:115-124, proof/page.tsx:51-70).    *)
(***************************************************************************)
THEOREM ReadersGetWhatWasTyped == Spec => []TextReadWasTyped
<1>1. IInv => TextReadWasTyped
  <2> SUFFICES ASSUME IInv PROVE TextReadWasTyped
    OBVIOUS
  <2>1. ASSUME NEW m \in Matches, NEW tx \in Signed(m), NEW row, NEW player,
               recomputed(row, m, player) = tx.commitment
        PROVE  Normal[row.strategy] = Normal[tx.typed]
    <3>1. tx.commitment = Derived(tx)
      BY DEF IInv, ClientInv, OnChain, Backed, Signed
    <3> QED
      BY <2>1, <3>1 DEF recomputed, Derived, computeCommitment
  <2>2. ASSUME NEW m \in Matches, NEW tx \in Signed(m),
               loadVerifiedStrategy(rows, tx.commitment, m, tx.player) \notin {"missing", "mismatch"}
        PROVE  Normal[loadVerifiedStrategy(rows, tx.commitment, m, tx.player)] = Normal[tx.typed]
    BY <2>1, <2>2 DEF loadVerifiedStrategy
  <2>3. ASSUME NEW s \in ShownStrategies, NEW tx \in Signed(page.of),
               s.matches, s.commitment = tx.commitment
        PROVE  Normal[s.row.strategy] = Normal[tx.typed]
    <3>1. page # NoPage /\ page.of \in Matches
      BY DEF ShownStrategies, IInv, TypeOK, PageType
    <3>2. s.row = rows[s.commitment] /\ verified(s.commitment, page.of)
      BY <2>3, <3>1 DEF ShownStrategies, Transcript
    <3> QED
      BY <2>1, <2>3, <3>1, <3>2 DEF verified
  <2> QED
    BY <2>2, <2>3 DEF TextReadWasTyped
<1> QED
  BY <1>1, Invariance, PTL

=============================================================================
