----------------------------- MODULE PlayerClient -----------------------------
(***************************************************************************)
(* Creating and joining matches from browser tabs: the form, its review,   *)
(* and one click that stores the strategy (commitStrategy, POST            *)
(* /api/strategies), builds the transaction, simulates it, has the wallet  *)
(* sign and send it and waits for its confirmation (useTransaction,        *)
(* simulateAndSend).  Requests and transactions may be lost, repeated or   *)
(* late, tabs may close, and nothing is undone: every retry is a new click *)
(* with a new salt and, for a new match, a new address.                    *)
(***************************************************************************)
EXTENDS StrategyCommitment, FiniteSets

CONSTANTS
    Creators, Joiners,  \* tabs with the create form, tabs on a match page
    Owner,              \* [Tabs -> Wallets], the wallet connected in a tab
    Terms,              \* terms parseTerms accepts
    NoTerms,            \* a form that does not parse; no review open
    NoTx,
    InFlight            \* bound: POSTs, and signed transactions, on their way at once

VARIABLES
    form,       \* [Creators -> FormType], the terms typed and reviewed
    run,        \* [Tabs -> RunType], the click in progress or the last one
    posts,      \* POSTs that have not been served
    rows,       \* strategyCommitment, a partial function on Commitments
    pool,       \* signed transactions that may still land
    account,    \* [Matches -> AccountType]
    clicks      \* clicks so far: each draws a salt, 32 random bytes nobody has drawn before

clientVars == <<form, run, posts, rows, pool, account, clicks>>

Tabs == Creators \cup Joiners

\* A transaction; "typed" and "reviewed" record what was on the screen when it was clicked.
Txs == [kind : {"create", "join"}, match : Matches, player : Wallets, salt : Salts,
        terms : Terms \cup {NoTerms}, commitment : Commitments \cup {NoTx},
        typed : Texts, reviewed : Terms \cup {NoTerms}]

ASSUME ClientAssumption ==
    /\ Creators \cap Joiners = {}
    /\ Owner \in [Tabs -> Wallets]
    /\ NoTerms \notin Terms /\ NoTx \notin Txs
    /\ InFlight \in Nat

FormType == [terms : Terms \cup {NoTerms}, review : Terms \cup {NoTerms}]
Pending == {"storing", "stored", "signing", "confirming"}
RunType == [step : Pending \cup {"idle", "confirmed"}, tx : Txs \cup {NoTx}]
States == {"none", "Open", "Ready", "Cancelled", "Started", "Refunded"}
AccountType == [state : States, create : Txs \cup {NoTx}, join : Txs \cup {NoTx}]

busy(t) == run[t].step \in Pending
AtStep(t, s) == run[t].step = s
GoTo(t, s) == run' = [run EXCEPT ![t].step = s]

EmptyForm == [terms |-> NoTerms, review |-> NoTerms]
Reset(t) == [u \in Creators |-> IF u = t THEN EmptyForm ELSE form[u]]

\* Status "failed": the message is all that is left of the click.
Idle == [step |-> "idle", tx |-> NoTx]
Fail(t) == run' = [run EXCEPT ![t] = Idle]

Signed(m) == {account[m].create, account[m].join} \ {NoTx}

-----------------------------------------------------------------------------
(***************************************************************************)
(* The create form.  Inputs are disabled while a click is in progress; the *)
(* strategy is not part of the review, may be edited at any time before a  *)
(* click and is whatever the field holds then.                             *)
(***************************************************************************)
FormOnly == UNCHANGED <<run, posts, rows, pool, account, clicks>>

\* Seeded bug: an edit leaves the review open.
ReviewStays(t) == form[t].review
reviewAfterEdit(t) == NoTerms

\* set(): terms, opponent Arena, prices or profile; closes the review.
EditTerms(t) ==
    /\ ~busy(t)
    /\ \E d \in (Terms \cup {NoTerms}) \ {form[t].terms} :
          form' = [form EXCEPT ![t] = [terms |-> d, review |-> reviewAfterEdit(t)]]
    /\ FormOnly

\* The button is disabled without terms, and without a strategy that looks acceptable.
Review(t) ==
    /\ form[t].review = NoTerms /\ form[t].terms # NoTerms
    /\ form' = [form EXCEPT ![t].review = form[t].terms]
    /\ FormOnly

CloseReview(t) ==
    /\ form[t].review # NoTerms /\ ~busy(t)
    /\ form' = [form EXCEPT ![t].review = NoTerms]
    /\ FormOnly

-----------------------------------------------------------------------------
(***************************************************************************)
(* A click: a salt and, for a new match, the address its nonce gives; the  *)
(* POST leaves at once.                                                    *)
(***************************************************************************)
Starts(t, kind, m, x, terms, reviewed) ==
    /\ Cardinality(posts) < InFlight
    /\ clicks + 1 \in Salts /\ clicks' = clicks + 1
    /\ LET tx == [kind |-> kind, match |-> m, player |-> Owner[t], salt |-> clicks',
                  terms |-> terms, commitment |-> NoTx, typed |-> x, reviewed |-> reviewed]
       IN /\ run' = [run EXCEPT ![t] = [step |-> "storing", tx |-> tx]]
          /\ posts' = posts \cup {tx}

\* A fresh nonce gives an address nobody has used.
Unused(m) ==
    /\ account[m].state = "none"
    /\ \A tx \in pool \cup posts \cup {run[t].tx : t \in Tabs} : tx # NoTx => tx.match # m

ClickCreate(t) ==
    /\ ~busy(t)
    /\ form[t].review # NoTerms /\ form[t].terms # NoTerms
    /\ \E m \in Matches, x \in Texts :
        /\ Unused(m)
        /\ Starts(t, "create", m, x, form[t].terms, form[t].review)
    /\ UNCHANGED <<form, rows, pool, account>>

\* The strategy field only looks at the text as typed; the server normalizes it first.
LooksAcceptable == Texts \ (Blank \cup LongAsTyped)

\* The page may show an account that has moved on since.
ClickJoin(t) ==
    /\ ~busy(t)
    /\ \E m \in Matches, x \in LooksAcceptable :
        /\ account[m].create # NoTx /\ account[m].create.player # Owner[t]
        /\ Starts(t, "join", m, x, NoTerms, NoTerms)
    /\ UNCHANGED <<form, rows, pool, account>>

-----------------------------------------------------------------------------
(***************************************************************************)
(* POST /api/strategies: the commitment is derived from the body, never    *)
(* taken from it; a row is written once.  A POST may be delivered again.   *)
(***************************************************************************)
Derived(tx) == computeCommitment(tx.match, tx.player, tx.salt, tx.typed)

\* The tab that still waits for this very POST.
Waits(t, tx) == AtStep(t, "storing") /\ run[t].tx = tx

Respond(tx, outcome) == run' = [t \in Tabs |-> IF Waits(t, tx) THEN outcome ELSE run[t]]

Accept(tx) == Respond(tx, [step |-> "stored", tx |-> [tx EXCEPT !.commitment = Derived(tx)]])

Served(tx) ==
    /\ tx \in posts
    /\ posts' \in {posts, posts \ {tx}}
    /\ UNCHANGED <<form, pool, account, clicks>>

RefuseStrategy(tx) ==
    /\ Served(tx)
    /\ ~normalizes(tx.typed)
    /\ Respond(tx, Idle)
    /\ UNCHANGED rows

StoreStrategy(tx) ==
    /\ Served(tx)
    /\ normalizes(tx.typed) /\ Derived(tx) \notin DOMAIN rows
    /\ rows' = [c \in DOMAIN rows \cup {Derived(tx)} |->
                   IF c \in DOMAIN rows THEN rows[c] ELSE RowFor(Derived(tx))]
    /\ Accept(tx)

\* The row is there: a retry of the same submission succeeds, anything else is refused.
FindStrategy(tx) ==
    /\ Served(tx)
    /\ normalizes(tx.typed) /\ Derived(tx) \in DOMAIN rows
    /\ IF rows[Derived(tx)].strategy = Derived(tx).text /\ rows[Derived(tx)].salt = tx.salt
       THEN Accept(tx)
       ELSE Respond(tx, Idle)
    /\ UNCHANGED rows

\* The network, the insert that lost a race, or the tab gives the POST up; it may still be served.
PostFails(t) ==
    /\ AtStep(t, "storing")
    /\ Fail(t)
    /\ UNCHANGED <<form, posts, rows, pool, account, clicks>>

LosePost(tx) ==
    /\ tx \in posts
    /\ posts' = posts \ {tx}
    /\ UNCHANGED <<form, run, rows, pool, account, clicks>>

-----------------------------------------------------------------------------
(***************************************************************************)
(* simulateAndSend, and the chain: create_match and join_match as far as   *)
(* an address can be created once and joined once.                         *)
(***************************************************************************)
Accepted(tx) ==
    IF tx.kind = "create"
    THEN account[tx.match].state = "none"
    ELSE account[tx.match].state = "Open" /\ account[tx.match].create.player # tx.player

ClickOnly == UNCHANGED <<form, posts, rows, account, clicks>>

\* Seeded bug: the transaction is built although the POST has not come back.
BuildsEarly(t) == run[t].step \in {"storing", "stored"}
stored(t) == AtStep(t, "stored")

\* The transaction is built from the commitment that came back, and simulated.
Simulate(t) ==
    /\ stored(t)
    /\ Accepted(run[t].tx)
    /\ GoTo(t, "signing")
    /\ ClickOnly /\ UNCHANGED pool

\* The wallet signs and sends; it may report a failure for what it sent.
SignAndSend(t) ==
    /\ AtStep(t, "signing") /\ Cardinality(pool) < InFlight
    /\ pool' = pool \cup {run[t].tx}
    /\ GoTo(t, "confirming") \/ Fail(t)
    /\ ClickOnly

\* Building throws, the simulation fails or the wallet declines.
GivesUp(t) ==
    /\ run[t].step \in {"stored", "signing"}
    /\ Fail(t)
    /\ ClickOnly /\ UNCHANGED pool

Landed(tx) == tx \in Signed(tx.match)

\* A confirmed creation leaves for the page of the match: the form is gone.
Confirm(t) ==
    /\ AtStep(t, "confirming")
    /\ Landed(run[t].tx)
    /\ GoTo(t, "confirmed")
    /\ form' = Reset(t)
    /\ UNCHANGED <<posts, rows, pool, account, clicks>>

\* confirmTransaction throws or reports an error; the transaction may still land.
ConfirmFails(t) ==
    /\ AtStep(t, "confirming")
    /\ Fail(t)
    /\ ClickOnly /\ UNCHANGED pool

Land(tx) ==
    /\ tx \in pool
    /\ pool' = pool \ {tx}
    /\ account' =
        IF ~Accepted(tx) THEN account
        ELSE IF tx.kind = "create"
        THEN [account EXCEPT ![tx.match].state = "Open", ![tx.match].create = tx]
        ELSE [account EXCEPT ![tx.match].state = "Ready", ![tx.match].join = tx]
    /\ UNCHANGED <<form, run, posts, rows, clicks>>

Expire(tx) ==
    /\ tx \in pool
    /\ pool' = pool \ {tx}
    /\ UNCHANGED <<form, run, posts, rows, account, clicks>>

CloseTab(t) ==
    /\ busy(t)
    /\ Fail(t)
    /\ form' = Reset(t)
    /\ UNCHANGED <<posts, rows, pool, account, clicks>>

-----------------------------------------------------------------------------
\* What else happens to an account: MatchEscrow has the details.
MoveOn(m) ==
    /\ \E s \in (CASE account[m].state = "Open" -> {"Cancelled"}
                   [] account[m].state = "Ready" -> {"Started", "Refunded"}
                   [] OTHER -> {}) :
          account' = [account EXCEPT ![m].state = s]
    /\ UNCHANGED <<form, run, posts, rows, pool, clicks>>

\* Somebody with access to the database rewrites a row: one of those that are read, and one
\* only, to bound the model.
Rewrite(c) ==
    /\ \E m \in Matches : \E tx \in Signed(m) : tx.commitment = c
    /\ \A d \in DOMAIN rows : rows[d] = RowFor(d)
    /\ \E x \in Texts : rows' = [rows EXCEPT ![c].strategy = x]
    /\ UNCHANGED <<form, run, posts, pool, account, clicks>>

ClientInit ==
    /\ form = [t \in Creators |-> EmptyForm]
    /\ run = [t \in Tabs |-> Idle]
    /\ posts = {} /\ pool = {} /\ clicks = 0
    /\ rows = [c \in {} |-> NoTx]
    /\ account = [m \in Matches |-> [state |-> "none", create |-> NoTx, join |-> NoTx]]

Tab(t) ==
    \/ PostFails(t) \/ Simulate(t) \/ SignAndSend(t) \/ GivesUp(t)
    \/ Confirm(t) \/ ConfirmFails(t) \/ CloseTab(t)

Network ==
    \/ \E tx \in posts : RefuseStrategy(tx) \/ StoreStrategy(tx) \/ FindStrategy(tx) \/ LosePost(tx)
    \/ \E tx \in pool : Land(tx) \/ Expire(tx)

ClientNext ==
    \/ \E t \in Creators : EditTerms(t) \/ Review(t) \/ CloseReview(t) \/ ClickCreate(t)
    \/ \E t \in Joiners : ClickJoin(t)
    \/ \E t \in Tabs : Tab(t)
    \/ Network
    \/ \E m \in Matches : MoveOn(m)
    \/ \E c \in DOMAIN rows : Rewrite(c)

-----------------------------------------------------------------------------
(***************************************************************************)
(* Properties                                                              *)
(***************************************************************************)

\* Types of the tabs, the requests, the rows and the accounts.
ClientTypeOK ==
    /\ form \in [Creators -> FormType]
    /\ run \in [Tabs -> RunType]
    /\ posts \subseteq Txs /\ pool \subseteq Txs
    /\ DOMAIN rows \subseteq Commitments /\ \A c \in DOMAIN rows : rows[c] \in Rows
    /\ account \in [Matches -> AccountType]
    /\ clicks \in Nat

(***************************************************************************)
(* Whatever is lost, repeated or abandoned, the 32 bytes an account holds  *)
(* were derived from the text its player had typed, for that match and     *)
(* that wallet, and their row was stored before they were signed           *)
(* (strategy-field.tsx:67-71, create-match-form.tsx:110-113).              *)
(***************************************************************************)
EveryCommitmentHasItsText ==
    \A m \in Matches : \A tx \in Signed(m) :
        /\ tx.commitment = [match |-> m, player |-> tx.player, salt |-> tx.salt, text |-> Normal[tx.typed]]
        /\ tx.commitment \in DOMAIN rows
        /\ normalizes(tx.typed)

(***************************************************************************)
(* The terms of a match are the ones its creator had in the review when    *)
(* the review was opened (create-match-form.tsx:71-79, "Review terms -     *)
(* fixed once you sign").                                                  *)
(***************************************************************************)
TermsWereReviewed ==
    \A m \in Matches :
        account[m].create # NoTx => account[m].create.terms = account[m].create.reviewed

=============================================================================
