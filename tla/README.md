# Stock Arena in TLA+

Stock Arena lets two players stake tokens on whose agent predicts a benchmark
price better. A Solana program holds both stakes in escrow, records the
predictions of three rounds, reads the final price from Pyth, scores, and gives
the winner an option to buy the loser's stake at a price fixed in advance. A
worker process activates matches, asks each player's agent for predictions,
submits them and posts prices. A web application shows matches and builds the
transactions. This directory models the parts that carry the logic, checks them
with TLC and proves their safety properties with TLAPS.

## 1. Inventory

| Component | State it keeps | Operations | Talks to | What is hard | What makes it correct |
|---|---|---|---|---|---|
| Match program (`programs/stock_arena`) | `Match` account, vaults | create, join, cancel, activate, submit round, settle, mark failure, refund (failed, tie), claim, exercise, reclaim | token program, Pyth account, `ProtocolConfig` | anybody sends any instruction at any time; two outcomes meet at each deadline | stakes leave once, to the right key; no deadline gap; no stake trapped |
| Protocol config | admin, orchestrator, pause flag, limits | initialise, update, pause | read by create, join, activate, submit | changes while matches run | agreed terms do not move; exits do not depend on it |
| Arena creation | immutable Arena | create | read by all instructions | none after creation | only sane timing and plain mints |
| Oracle and scoring | none | read an observation, rescale, score, compare | settle, activate | truncation, exponents, width | the closer player does not lose |
| Worker: round job | job row, turn rows | lease, reserve, chat, save, submit, complete | database, agents, chain | two turns at once, slow attempts, crashes, database outages | one chat per turn; what is posted was recorded |
| Worker: tick and other jobs | none of its own | poll, activate, settle, mark | chain, database | sequential loop on one clock reading, which may be the wall clock's; errors are final | each match is driven in its windows |
| Battle agents | agent rows; at the provider: agents, wallets, histories | find, create, start, check empty, ask, recover a reply | ClawPump, Solana RPC | creation and chats are paid and not idempotent; matches of one player share an agent and its history | one agent per player, never one that somebody funded; one chat and one outcome per turn |
| Integrations | none | `fetchJson` with timeout and retries, readings of Hermes, Jupiter, PreStocks | HTTP services | which call may repeat; what a stalled or partial answer does | no repeated paid call; no price shown as live that is too old |
| Strategy and transcript | commitment rows | store, verify, reveal | web, worker | stored before the transaction that commits to it is signed; reveals read account and database at two moments | text read is text committed to; nothing revealed early |
| Match screen logic | none | choose buttons, countdowns and sentences | `Match` view, browser clock | second copy of the program's guards | offers what succeeds, hides nothing |
| Browser transactions | the click in progress | store strategy, build, simulate, sign, confirm | wallet, web server, chain | lost and repeated requests, transactions that land after they were given up | what is signed is what was typed and reviewed, with the accounts the program wants |
| Match and Arena pages | props, polls, forms | create form, scoreboard, log, chart, picker, refresh | the routes of the web application | overlapping requests, caches, decimals | the numbers shown are those of the account and of the connected wallet |
| Lists, layout, IDL, scripts, tests | none | presentation, generated and support code | | | not modelled |

The components interact by calls to the chain (atomic transactions, which fail
as a whole), by database rows shared between worker attempts and the web, and
by polling: nothing pushes. Hence the kinds of models here: an account that
anybody may step at any time; a worker whose steps interleave with themselves,
with a provider's and with time; and browser tabs whose requests overlap and are
lost.

## 2. Modules

| Module | Models |
|---|---|
| `Powers` | powers of ten, for rescaled prices and decimals |
| `Scoring` | `scoring.rs` and the prediction records of `state.rs`, as operators |
| `PriceOracle` | `oracle.rs`: which Pyth update is readable, and the price it gives |
| `MatchEscrow` | the whole life of one match: every instruction, token balances, pause, config, clock |
| `EscrowPromise` | abstract: each stake is held once and leaves once by the route the verdict opens |
| `MatchEscrowProofs` | theorems about `MatchEscrow` and about the screen and the form over it (`PlayerActions`), with proofs |
| `MatchTransactions` | `transactions.ts`: the accounts each transaction names, against the program's account constraints |
| `DecimalText` | `format.ts`: decimals read and shown |
| `DecimalProofs` | theorems about powers of ten and decimals, with proofs |
| `MatchForm` | the create form from typed decimals to terms, and the prices the Arena page fills in |
| `PlayerActions` | `player-actions.ts`, `match-status.ts` and the match page's dates and prices, over the account of `MatchEscrow` |
| `ScoreMatch` | the settlement arithmetic step by step, against exact rational errors |
| `ScoreMatchProofs` | theorems about `ScoreMatch`, with proofs |
| `ScoreViews` | the TypeScript mirror of `scoring.rs`, the match view's errors, and scoreboard, panels, log and chart made of them |
| `JobLease` | an `OrchestrationJob` row and what `withJobLease` reads from it and writes to it |
| `RoundJob` | one round in the worker: lease, two concurrent turns, submission, failures |
| `RoundJobProofs` | theorems about `RoundJob`, with proofs |
| `WorkerTick` | the worker's loop over the matches, the four kinds of jobs, their rows and the chain's guards |
| `WorkerTickProofs` | theorems about `WorkerTick`, with proofs |
| `ChatPromise` | abstract: a turn's prompt is sent at most once and the turn has one outcome |
| `BattleAgents` | agents found or created by concurrent rounds, empty-wallet check, chat and recovery, all through `fetchJson` |
| `BattleAgentsProofs` | theorems about `BattleAgents`, with proofs |
| `StrategyCommitment` | `strategy.ts` and the rows of `StrategyCommitment`: normalize, derive, verify |
| `PlayerClient` | browser tabs that create and join matches: form, review, POST, transaction |
| `MatchPages` | what match page, proof page and transcript route publish of strategies and answers |
| `MatchPagesProofs` | theorems about `MatchPages` and `PlayerClient`, with proofs |
| `LiveScreen` | benchmark cache, chart with its polls, page refresh, Arena picker |
| `LiveScreenProofs` | theorems about `LiveScreen`, with proofs |
| `MCMatchEscrow`, `MCScoreMatch`, `MCRoundJob`, `MCWorkerTick`, `MCBattleAgents`, `MCPlayerClient`, `MCLiveScreen` | instances for TLC |

`MatchEscrow` extends `PriceOracle`, which extends `Scoring`; `MatchTransactions`
extends `MatchEscrow`, and `PlayerActions` joins it with `MatchForm` (over
`DecimalText`): one behaviour of the account under everything the screen says and
builds. `ScoreViews` puts the views on `ScoreMatch` in the same way. `MatchPages`
extends `PlayerClient`, which extends `StrategyCommitment`. `RoundJob` and
`WorkerTick` extend `JobLease`. `MatchEscrow` instantiates `EscrowPromise`, and
`BattleAgents` instantiates `ChatPromise`, each with a refinement mapping;
`ChatPromise` is what `RoundJob` takes for granted of a chat.

### 2.1 MatchEscrow

One match is enough: two matches share no account but the config, and the
config can change at any step. The variables are the fields of `Match` (per
player fields are functions of the side), plus the balances of the vaults and of
the players, the config and the clock. `deposit`, `refunded`,
`winner_stake_claimed`, `winner` and `state` are the account's own accounting;
`vault`, `wallet` and `quote` are what the token program would say. An
instruction is an action: its `require!`s and account constraints are guards
(a rejected transaction changes nothing), its transfers are `PayIn` and
`pay_out`, which fail when the source cannot cover them. The guard of each
instruction is an operator of its own (`CanJoin`, `CanSettle`, `CanExit` ...), with
the transfer's need in it, and the action is that guard and an assignment to every
variable. So "the program accepts it" is the guard, in the properties as well: it
is what `ENABLED` of the action would say, and it can be reasoned about.

Abstracted: an Arena stands for its mint; amounts are small naturals with
checked subtraction; a price update carries its publish time as a parameter of
the action, because anybody may post any signed update; account addresses,
rent and events are left out. `AwaitingSettlement`, which the enum declares,
is never assigned in the program and is not a state here. The admin is whoever
holds the admin key; the two admin actions are unrestricted in time.

`UnsolicitedTransfer` and `Tick` are the environment. Unsolicited transfers are
bounded by `MaxSurplus` per vault, the clock by `MaxTime`.

### 2.2 PlayerActions, MatchTransactions, MatchForm

`availableActions` and `matchStatus` are pure functions of the account and the
clock, so they are operators over the variables of `MatchEscrow`, and the
properties compare them with the guard of the instruction behind each button.
What the screen does not look at (balances) is `Affords`. The account is fresh
and the clock exact: an older page promises what was true when it was read, and
every transaction is simulated before it is signed. `OfferedActionsSucceed`
is stated for an unpaused protocol: the screen never reads the pause flag, so it
offers "join" during a pause although `join_match` then fails.

`MatchTransactions` has the other half of a transaction: the Arena, mint, vault and
token accounts the browser derives from its copy of the match, and the `#[account]`
constraints they must meet. An Arena stands for its asset mint and an associated
token account for the pair of owner and mint. `OfferedActionsSucceed` asks both: the
handler accepts, and the accounts fit.

`MatchForm` reads a form as pairs of decimals per side (`DecimalText`: whole part,
fraction, number of places; every other text is `NotADecimal`) and gives the terms
`parseTerms` gives. The form's amounts are bigints without a bound; `encodes` is where
they are put into the instruction's u64s (`transactions.ts:39`, `82-93`), which throws
for larger ones. `FormsAreAccepted` says of every form whose texts are decimals when the
transaction made of it is accepted: just when the form has no complaint and the rest is
in order (no pause, allowed durations, enough tokens), with two exceptions the form does
not know of. A stake or strike beyond 2^64 - 1 (one token at a price of
20000000000000 in a mint of six decimals) is shown for review although there is no
transaction to sign. And for a mint of less than two decimals the form's minimum is 0
where the program's is an error, although `format.ts:47` says that it "Mirrors
`min_stake_amount`"; `create_arena` does not exclude such mints. Both end in an error
message and lose nothing. The property also compares what the review shows with what was
typed, and a price that was filled in with the services' price of the very token beside
it, after the token was changed as well.

### 2.3 Scoring and ScoreMatch

`Scoring` has the source's integer arithmetic: `\div` on non-negative numbers
is Rust's division, `I64Max` the width of a price. `ScoreMatch` runs it in the
order of `settle_match` for both players and compares the result with the exact
weighted error, multiplied out so that no division is left. `ScoreViews` adds the
places that repeat the arithmetic or show it; they are functions of the account, so
`ShownTableExplainsVerdict` relates them to each other and to the recorded totals in
every state of `ScoreMatch`, before the settlement and after it.

### 2.4 RoundJob

An attempt is one call of `withJobLease` for the round; its `main` says where
`withJobLease`, `submitRound` and the catch block are, its `branch[p]` where the
turn of player `p` is. Database operations and external calls are the steps,
because those are where the code awaits. `Throw` is `Promise.all`: the first
error moves the attempt to its catch block, the other turn continues. Database
calls may fail before or after they took effect (`Lose...`), a transaction may
land although `rpc()` throws (`Submit`), the process may die anywhere (`Crash`).
`claimable` merges the failed insert and the conditional update of
`withJobLease` into one step; both use one clock reading there and rows are
never deleted. A late reply of `fetchJson` is a `Timeout` reply. A transaction
that lands after `rpc()` has thrown is not modelled: its job is failed for good
by then.

Time in `RoundJob` is in minutes, as coarse as the constants of the code (`LEASE_MS` 5,
windows 5 or 3); the 15 second requeue is 0. As in `jobs.ts:73-78` it counts from the
moment the lease was taken, not from the failure: the row's `retry` keeps it.

### 2.5 WorkerTick

Each worker is a process that runs `tick` again and again (`index.ts`). A tick reads
the clock once (kept in `seen`), then the accounts of the ready and active matches
(`FetchMatches`, kept in `fetched`), then drives them one after the other: `JobsDue` is
`driveMatch` on what was read, `Claim` the lease of the job it chooses, `Pass` a match
with nothing to do or a job that somebody owns or finished. The clock is the chain's
(`ReadClock`), or, for a slot without a block time, the machine's (`FallBack`), which is
ahead or behind by up to `SKEW`. So `seen` and `fetched` may be as old as the jobs that
ran before, or `seen` ahead, while the lease and the chain use the clock of the moment:
this gap is what the module is about.

The chain is each match's state, start and submitted rounds, with the guards of the
four instructions the worker sends (`Accepts`) and their effects (`After`). A price is
its publish time; `prices` holds those Hermes has had, one from before any match is
always there, and `Publish` adds one, or never does; its time may be off the chain's
clock by `SKEW` as well. A settlement is fetched and sent in
two steps: `FetchPrice` takes the latest price (`pyth.ts:34`), whatever its time, and
when it is sent the program asks that it was published from the target end on and
before now, and that the deadline has not passed (`settlement.rs:262-268`). An
activation may be refused for reasons that are not followed (a pause, a starting price
too old): it may throw at any time. `SentByOthers` is the permissionless settlement,
with any price there has been, and mark; `RefundedByPlayers` the refund of a match that
did not start. The work of a job ends in one of two ways: the transaction lands
(`Land`), after which the call may throw all the same, or the call throws before it
(`Throw`), because the program refuses or, in a match of `Faulty`, for any reason. A
round's turns and chats are `RoundJob`'s matter and one step here. `Complete` writes the
row and goes on with the next match, as the catch in the loop does.

What the fallback costs: `chain.ts:79-81` calls it "a safe fallback because every
deadline comparison on-chain uses the bank clock anyway". The program is safe by that;
the job is not. With a wall clock ahead, a mark can be sent before the deadline has
passed; it is refused, recorded as Failed, and never sent again by any worker. The
properties say exactly this much: `NothingTriedTooEarly` bounds how early a job may be by
`SKEW`, and `HealthyMatchesEnd` excepts a match whose mark was spent (`MarkSpent`), which
only others can end from then on. Without the exception TLC finds such a match.

`LoseClaim` and `LoseCompletion` are lost database calls, before or after they took
effect; the projection's upsert, which precedes the lease, can be lost in the same
way. `Crash` ends the process and starts it again with nothing but the database.
A lease's owner is the worker: `withJobLease` draws a new name per attempt, but a
worker runs one attempt at a time and its crashed ones never come back.

### 2.6 BattleAgents

The turns of rounds in several matches whose players may be the same. A turn is
at one call of `fetchJson` or at one await of the worker (`place`). A call is a
request on the `wire`, which the provider may serve late or never; its answer comes
as headers and then a body, with one timer over both (`TimesOut`), and `Fetch`,
`Retry` and `Fails` are `fetchJson` with its retries per call site. The provider creates
agents, stores prompts and answers in an agent's `history` in the order they come,
and lists it. `FindsActive`, `FindsRetired` and `FindsNone` are the lookups of
`ensureAgent`, `Records` and `RecordTaken` its insert, `FindsEmpty` and `FindsFunds` the
balance check, which precedes the record of a new agent and every chat with an old
one. The check is two reads, the lamports and then the accounts of both token programs
(`check` and `checkTokens`, `checkNew` and `checkNewTokens`); after it the worker writes
the time of the check or the new row to the database (`NotesCheck`, `Records`) before the
chat goes out. `recovered` is `recoverReply`: the message right after the own prompt, if
it is the assistant's. A text is whose prompt it answers and whether it parses.

Around them a process may die between any two awaits, an operator may quarantine an
agent, and anybody may move any kind of funds (`Kinds`) into and out of the wallet of any
agent there is (`MoveFunds`): before it is recorded, after, between two turns, and
within one. `heldOn` is a history variable: the kinds that a turn's agent has held
without a break since the turn took it up. `FundedAgentsAreNeverAsked` says that a turn
that chats has none. What comes in or goes out while the turn looks, or between
its check and its chat, is in the model and escapes the property, as it escapes the code.

### 2.7 StrategyCommitment, PlayerClient, MatchPages

A commitment is the record of what is hashed (match, player, salt, normalized text),
so different inputs give different commitments, as SHA-256 does for all purposes
here. A tab's click draws a salt, posts the strategy, builds and simulates the
transaction, has it signed and sent, and waits (`run`). A POST may be delivered
twice, late or never, a signed transaction may land after the tab gave it up,
tabs close, and no step is undone: a retry is a new click. `typed` and `reviewed` in a
transaction are ghosts: what was on the screen when it was clicked. `Rewrite` is an
operator who changes a stored row, which the code means to find out. `Unused`
stands for a random nonce, whose address nobody has used; `Salts` bounds the clicks
and `InFlight` the requests and transactions under way.

A page loads in two steps: the account (`LoadMatch`), then the rows in whatever state
they are by then (`Transcript`, `ShownStrategies`, `ProofTurns`, `MatchTurns` as functions
of `page` and the database), so that everything may happen between the two.

### 2.8 LiveScreen

One browser tab on the match page or the home page. A price is its publish time.
Each server behind `/api/benchmark` caches the promise of one read: polls that
reach it while the read is pending share it. The chart polls on each tick with
overlapping fetches, whose answers arrive in any order; the page refreshes with a
new account (`Refresh`), which tears the poller down once the match is settled. The
picker asks for the holdings of the connected wallet and aborts when it is switched.
`POLL_MS` is one tick, the cache and the staleness limit one tick each. The match's
`start_ts` (`StartTs`, from which a latest price is shown) and the publish time of its
start observation (`StartTime`, the first point) are two constants; the screen stops
polling when the match is settled or failed (`Settle`, `Fail`).

## 3. Runs

Passing:

| Run | Checks |
|---|---|
| `escrow_safety` | of the account: the accounting invariant; that the two outcomes a deadline separates are never both or neither available; that exactly one round is open at any instant; that every stake has a way out its owner can take alone; the full exercise window; frozen terms; refinement of `EscrowPromise`. Of the screen: a form without a complaint gives terms the program takes, up to u64 width and mints of less than two decimals; offered actions succeed with the accounts built for them, accepted actions are offered, status sentences hold |
| `escrow_flows` | recorded deposits stay covered, also with both stakes in one vault that strangers feed; tokens change owner only by an exercised option at its strike; liveness: every deposit eventually leaves |
| `score_match` | no price is altered by rescaling and none exactly representable is refused; who is at least as close in every round does not lose; a lead of 4 bps of exact error wins; tables, panels and mirror agree with the verdict |
| `round_job` | one chat per turn; the lease holder is not disturbed; posted answers are recorded; recorded answers are final |
| `worker_tick` | a succeeded job took effect on chain; no job starts earlier than the wall clock may be ahead (a failed job is never re-run); finished jobs stay finished; a running match comes to its end, unless a mark was spent early |
| `battle_agents` | an accepted answer is the own prompt's; who is asked is on record; no agent funded before the turn looked is asked; refinement of `ChatPromise`; every turn ends, however the provider stalls |
| `player_client` | a signed commitment has its text stored; terms signed are terms reviewed; pages publish neither a strategy nor an answer early; the text read is the text typed |
| `live_screen` | the chart runs forward; a price served as fresh is at most staleness limit plus cache life old; the picker marks the connected wallet's holdings |

Runs that find a disagreement between the source and what it says of itself:

| Run | Statement | What happens |
|---|---|---|
| `round_record` | `agents.ts:232-236`: a resumed round gets the recorded result | after one lost database call a penalty is posted for a turn that then records a valid answer |
| `round_crash` | `agents.ts:233-235`: after a crash the next attempt submits the recorded answers | the lease is as long as the longest round window, so nobody can take it over in time |
| `worker_settle` | `tick.ts:84-85`: the mark means that no price arrived; `jobs.ts:26-27`: a passing error is retried | the first settlement carries Hermes' latest price, which is from before the target; it is refused, the only settlement job has failed for good, and the mark follows although the price came in the window (any other error does the same) |
| `recovered_reply` | `clawpump.ts:195-196`: the recovered reply is the one to this exact prompt | two matches of one player prompt one agent before either is answered; the message after the later prompt answers the earlier one |

`recovered_reply` and `ValidAnswersAreOwn` go together: the wrong reply is taken from
the history, but does not parse for this turn, which is then recorded as malformed
and penalised; it is never accepted.

Smaller disagreements met while modelling, which no run states: `refund.rs:87-88`
says anyone may make the transition of an unactivated match to refundable, but it is
part of a refund only a player may take; `state.rs:35` says the pause blocks creation
and activation only, but it blocks `join_match` too; `scoring.rs:40-41` says a failing
agent always loses ground, but a valid answer ten start prices off is charged more
than a failure; the note "The match never activated" (`match-actions.tsx:142-145`) is
shown after an oracle failure as well; a round nobody submitted is labelled "pending"
after the settlement that charged it; the fallback of `chain.ts:79-82` is not safe for the
job (2.5); `format.ts:47` does not mirror `min_stake_amount` below two decimals (2.2);
the battle log's "Waiting for round" counts
accepted rounds and is off by one after a skipped round; and until the holdings of a
newly connected wallet arrive, the picker lists those of the one before.

### Bounds and why they are enough

*Escrow.* Three keys: two players and a stranger, any of which may be any of
them (symmetric). Two mints: cross-token and same-token duels; the third is for forms
only, as the program takes no match in it. A duration of 4
with thirds of 1 leaves a remainder, as a duration not divisible by three
would; all windows are 1, so each deadline is reached, hit exactly and passed,
and `MaxTime` = 10 lies past the last option expiry of a match that took every
step at its latest allowed time but for two instants: it starts at 1 and the
longest schedule is join 2, activate 3, target 7, settlement 8, expiry 9. Four
price updates: two usable prices that make either player win or tie, one not
fully verified, one whose confidence is too wide. Two inputs, a valid price and a
timeout. The challenger's strike is more than a player has in quote, so an
option that cannot be paid occurs too. Three configs: another orchestrator with
half the confidence limit, and bounds that exclude the profile. `escrow_flows` has
two players, no symmetry (it checks liveness), one decisive price and one unsolicited
token in the vault both stakes of a same-token duel share, where surplus matters.
Forms combine, on each side, stakes below, at and above the minimum and prices
whose strike is nothing, a fraction or whole, with too many places for one of the two
mints (two and three decimals) or for both; a third mint has one decimal, and the u64 is
shrunk to 80000, between the amounts that fit and strikes that do not; the registry has an entry per issuer, one
that is not set up and one that is switched off, each service known or silent on each.

*Scoring.* Every pair of three-round records over {four records} with a start
price of 7 (a tick is 1428 bps) and of 15000 (less than one bps), exponents
two finer to one coarser than the Arena's, and matches whose second round was skipped.

*Round job.* Two attempts and one failing database call. In `round_job` a lease of
1 in a window of 3 makes takeovers happen while the first attempt still runs,
which the real constants do not allow inside a window: the safety properties
must hold anyway. The two disagreement runs use the real constants.

*Worker tick.* Two workers, one match of one round, each window one unit, a lease in
force to the end of the unit it was taken in (`LEASE` = 0: the expiry is exclusive) so
that it lapses while attempts still run, and one crash, lost call or missing block time
at any step. Clocks differ by one unit (`SKEW`), as long as every window, so a job can be
chosen a whole window early or late. One price can come, at the target end by its own
time and up to a unit before or after by the chain's, or not at all: so a settlement is
sent with an old price, with a usable one, and with one from the future, and each of
these is accepted or refused as the program does.
Two workers are what interleaves; matches share no row and no account, and meet only
in that one delays the other inside a worker, which the clock may do at any step
anyway. With two matches the run does not end in minutes. Rounds behave alike, so one
round that is submitted, missed, lost or retaken is enough; `NothingTriedTooEarly` for
a second round rests on the same comparison. `Fault` stops when a lease could outlast
`MaxTime`, so that the bounded clock cannot by itself leave a job unclaimed, and
`MaxTime` = 4 leaves time for an activation at 0, target 1, deadline 2, a lapsed lease
and a mark. `worker_settle` uses one worker, two rounds, exact clocks, no fault and a
lease as long as the match, as the real one is in a demo match; its price comes at the
target end.

*Battle agents.* Two turns of one player, in two matches: what is shared is the agent,
its row and its history, and two turns interleave on all three. Two agents to be given
out, which both turns may create at once. Any agent's wallet may be funded and emptied
again at any step. One kind of funds, of the token program whose accounts are read
last: a turn then passes its first read and is stopped by the second, and funds may come
between the two. More kinds multiply the states beyond minutes and
differ only in which read finds them; the theorem has all of them.
One retry where the code allows two, because one is what tells
a call that may repeat from one that may not; a history of three messages, one more
than the shortest that interleaves.

*Browser.* One creating tab, one joining tab, two matches (a second one for the
creation that is clicked again after the first was lost), three salts, texts that are
plain, that normalize to it, and blank, two sets of terms, one request and one
transaction in flight at once per kind, one round. More in flight is more of the same
overlap: each belongs to a click of its own, and two tabs already race.

*Live screen.* Two servers with a cache each, two polls and two holdings requests in
flight, two wallets, a match that starts at 2 and ends at 3 with a clock to 4, so that
a cached price expires, a stale one is refused and a final one appears, or the match
fails, while polls are under way; a start after its observation (`StartTs` > `StartTime`)
takes the run beyond its time and is left to the theorems; two rounds accepted and a window of two live points, which overflows
(three polls can be answered before the clock ends).

### Fairness

`MatchEscrow`'s `FairSpec` (`escrow_flows`): weak fairness of the clock up to its bound, of
`MarkOracleFailureRefundable`, which is permissionless so that anyone who wants
a refund can send it (the screen's refund button does), and of each player's
exits. Nothing is assumed of the orchestrator, the admin, strangers or of the
winner's willingness to exercise. Symmetry is not used there.

`WorkerTick`'s `FairSpec`: the clock runs up to its bound and each worker keeps taking
the steps it can take by itself. `index.ts:39-50` loops until it is told to stop and
catches what a tick throws; the deployment notes (`README.md:118`) ask for an always-on
machine, and `Crash` includes the restart. No fairness is assumed of others, of
players, or of an error going away: `HealthyMatchesEnd` claims only matches outside
`Faulty`.

`BattleAgents`' `FairSpec`: timers fire (`http.ts:97-98`) and the worker's own calls to
the database and the Solana RPC come back. The provider owes nothing: `TurnsEnd` holds
if it never serves a request.

`RoundJob` assumes no fairness; `PromptSpec`, used for `round_crash` only, is the
most favourable schedule: the worker does everything it can before the clock
moves, polls as soon as the row is claimable and meets one crash. A worker that
is slower does no better.

## 4. Proofs

`MatchEscrowProofs` proves, for all values of the constants that satisfy the
named assumptions of the modules:

| Theorem | States |
|---|---|
| `TypeCorrect` | `Spec => []TypeOK` |
| `Invariance` | `Spec => []EscrowInv`, the inductive invariant |
| `DepositsAgree`, `AlwaysSolvent` | the accounting and solvency parts by themselves |
| `FullExerciseWindow` | the winner's window, as an action property |
| `PauseIsSafe` | a pause stops new risk |
| `TermsAreFinal` | joined terms and active deadlines are frozen |
| `NothingChangesHandsBelowStrike` | `Spec => StakesChangeHandsOnlyAtStrike` |
| `Refinement` | `Spec => ImplementsPromise` |
| `NeverTrapped` | `Spec => []EscrowNeverTrapped` |
| `NoGap` | `Spec => []DeadlinesLeaveNoGap` |
| `NoFutileOffer`, `NothingHidden` | `Spec => []OfferedActionsSucceed`, `Spec => []AcceptedActionsAreOffered` |
| `SentencesAreTrue` | `Spec => []StatusPromisesHold` |
| `FormsAreHonest` | `Spec => []FormsAreAccepted` |

The assumptions are `WidthAssumption` (an i64 has a positive largest value below
10^19, as `scoring.rs:17` says) and those of `MatchEscrow`: what `validate_profile`
and `create_arena` pin on an Arena, that amounts are natural numbers, minimum stakes
positive, inputs and updates well typed, and that the default key is nobody's. The
last four rows also use `FormAssumption`: a form names two tokens the page listed, in
any text, and a mint may have any number of decimals; its two Arenas have one benchmark and one quote mint (`OneBenchmark`),
because `config/arenas.json` has one benchmark for all, `loadArenaOptions` derives
every Arena from it (`matches.ts:255-269`) and `setup-devnet.ts:156-169` refuses an
Arena with another quote mint. `FormsAreHonest` is an equivalence: it says also that
nothing but what `Creatable` lists can make the program refuse a form without a
complaint, and that a form with one would be refused.

`DepositsMatchFlags` is not inductive by itself: that a refund pays the right
side needs that creator and challenger are different keys in each state that has
both (`PlayersFitState`), that a running match has decided nothing follows from
the state and winner agreeing, and that `deposit > 0` means "not paid out"
needs positive stakes (`StakesPositive`). Solvency needs the deposits to agree
with what was paid in, mint by mint, which is why both are in `AccountInv`. The
other half of `EscrowInv` is `TimingInv`, inductive given the first: every deadline of
a running match is timed from its start (`TimedFromStart`), from which the exercise
window follows, and whatever was recorded can be scored (`RecordsScorable`). Each step
lemma has one step per instruction; instructions that move no token go through
`QuietInv` and `ProgressInv`. That nothing changes hands
below the strike needs the players' keys and each paid deposit to be the agreed stake:
what a key has in its accounts and in escrow is computed once for a deposit
(`StakedHoldings`) and once for a payout (`PayDepositHoldings`). The refinement proof uses `EscrowInv` to map each
instruction to one action of `EscrowPromise` or to a stutter.

`NeverTrapped` and the buttons turn on when a recorded deposit can be paid: where the
invariant says it is not yet paid out, it is positive and the vault covers it
(`DepositPayable`), so only the clock and the wallet's own tokens are left to decide.
That a settled match is never stuck in a final state needs `FinalStatesRefunded`.
`NoGap` needs `TimingInv`: settlement is possible up to the very instant the failure
becomes possible only because `total_score` cannot abort on what `into_record` let in,
and one round is open at a time because thirds of a duration are in order
(`RoundSchedule`), which is also what the live round on the screen is computed from
(`LiveRoundIsOpen`). `FormsAreHonest` rests on `DecimalProofs`, and on the form's minimum
being the program's from two decimals on (`MinimumStake`).

`DecimalProofs` has powers of ten for every exponent. `pow10` is a recursive function,
and that its recursion defines one is proved here (`PowersOfTen`): finite tables of
powers exist and agree, by induction. The induction is over the members of a set,
from the least-number principle (`LeastNumber`, `Induction`), which the provers can
instantiate where an operator they cannot. From it come `FormatParses` (what
`formatAmount` shows reads back as the amount it shows), `TruncateFloors` (an upstream
price cut to the quote mint is the exact price rounded down) and `SameAmountSameNumber`,
for every amount, text and number of decimals.

`RoundJobProofs` proves the safety properties of the run `round_job` for any
number of attempts, players, outages and any times, from `RoundAssumption`:

| Theorem | States |
|---|---|
| `TypeCorrect` | `Spec => []TypeOK` |
| `ChatAtMostOnce` | `Spec => []AtMostOneChat` |
| `LeaseExclusive` | `Spec => []LeaseHolderUndisturbed` |
| `PostedRecorded` | `Spec => []PostedAnswersAreRecorded` |
| `RecordedForGood` | `Spec => AnswersAreFinal` |

The inductive invariant `IInv` adds what makes these hold together: a reservation
has exactly one owner and its row reads "interrupted" until that owner records an
outcome (`OneAsks`); a chat is about to be sent only where none was (`ChatsReserved`);
a finished turn knows the recorded answer or a penalty (`AnswersKnown`); and the row
of a lease in force carries the expiry its holder computed (`LeaseKnown`), which is
why a takeover is always late. `TurnMoves` lists the seven things any step, failed
ones included, can do to one turn; the step lemmas argue from that list.

`WorkerTickProofs`, for any number of workers, matches, rounds, crashes and lost calls,
from `TickAssumption` and `LeaseAssumption`:

| Theorem | States |
|---|---|
| `TypeCorrect` | `Spec => []TypeOK` |
| `SuccessIsReal` | `Spec => []SucceededMeansLanded` |
| `NeverTooEarly` | `Spec => []NothingTriedTooEarly`: with `SKEW` = 0, as where every slot has a block time, no job is early at all |
| `FinishedIsFinal` | `Spec => FinishedJobsStay` |

A worker acts on old readings, so its invariant says how they are related to what is
true now: the clock it read is ahead by at most `SKEW`, and a match it saw running still
has the start it saw (`Snapshots`); hence a leased job is past its earliest moment but
for `SKEW` (`TasksTimely`), and a job whose transaction landed keeps its effect (`TasksLanded`),
because the chain only moves forward (`Progress`, `EffectStays`).

`BattleAgentsProofs`, for any number of turns, players and agents, from
`AgentsAssumption`:

| Theorem | States |
|---|---|
| `TypeCorrect` | `Spec => []TypeOK` |
| `AskedOnRecord` | `Spec => []AskedAgentsAreOnRecord` |
| `AnswersAreOwn` | `Spec => []ValidAnswersAreOwn` |
| `FundedNeverAsked` | `Spec => []FundedAgentsAreNeverAsked` |
| `OneChatOneOutcome` | `Spec => ImplementsChatPromise` |

`ChatsCounted` ties the number of chats sent to the place of a turn, which makes the
refinement go through; `AgentsOwned` and `AskedIsRecorded` follow an agent from its
creation over its record to its first prompt. That funded agents are never asked has an
invariant of its own (`FundsFound`): past each of the two reads of its check a turn's
agent is free of what that read looks for, as far as it was there when the turn took the
agent up, and what has been there since then can only become less (`FundsStay`).

`MatchPagesProofs`, for any number of tabs, wallets, matches and requests, from
`ClientAssumption` and `StrategyAssumption`:

| Theorem | States |
|---|---|
| `CommitmentsHaveTheirText` | `Spec => []EveryCommitmentHasItsText` |
| `CreatorsReviewedTheTerms` | `Spec => []TermsWereReviewed` |
| `DraftsStayHidden` | `Spec => []OnlySignedStrategiesShown` |
| `AnswersAwaitTheChain` | `Spec => []NoAnswerShownEarly` |
| `ReadersGetWhatWasTyped` | `Spec => []TextReadWasTyped` |

The invariant follows a transaction from the click to the account: whatever is under
way was reviewed, and from the moment the POST came back its commitment is derived
from what was typed and has its row (`UnderWay`, `OnChain`); pages are never ahead of
the account they were loaded from.

`LiveScreenProofs`, for any number of servers, polls and wallets and any limits, from
`LiveAssumption`:

| Theorem | States |
|---|---|
| `PickerIsTruthful` | `Spec => []PickerTellsTheTruth` |
| `ServedIsRecent` | `Spec => ServedPriceIsRecent` |
| `ChartForward` | `WindowCovers`: `Spec => ChartRunsForward` |

Only the connected wallet is ever asked for, and a price was fresh when its read began.
`ChartForward` starts from what sorting gives (`Sorting`: the same points, their times
in order; each point has a place of its own because the points before it are counted),
so that a series whose points are all of this match (`ShownInv`, `PagePoints`) opens
with its start and ends with a latest one. That the latest never goes back is delicate:
the chart keeps the last `MAX_LIVE_POINTS` answers in the order they came, so a late
price pushes out an early one, and if enough old prices follow a new one the new one is
given up. `WindowInv` counts them: the prices that overtook a point, the fetches under
way that have an older one and the ticks at which a cache may still serve one never
exceed the fetches plus the cache's life together, because every poll uses up one tick
and a read that is over brings the latest price. The hypothesis `WindowCovers` says that
the list is longer than that: it holds 600 prices, a poll is sent every 3 s and the
cache lives 2 s, so some 600 fetches of one page would have to be under way. The run's
window of two is smaller, to make it overflow, and passes within its clock; with
`MAX_LIVE_POINTS = 1` TLC finds the latest price going back, so that some such
hypothesis is needed.

`ScoreMatchProofs`, for all posted prices, exponents and predictions `settle_match` may
find, from `ScoreAssumption` and `WidthAssumption`:

| Theorem | States |
|---|---|
| `TypeCorrect` | `Spec => []TypeOK` |
| `CloserNeverLoses` | `Spec => []CloserInEveryRoundNeverLoses` |
| `FourBpsWin` | `Spec => []LeadOfFourBpsWins` |
| `PriceExact` | `Spec => []PriceNeverAltered` |
| `TableExplains` | `Spec => []ShownTableExplainsVerdict` |

The first three follow from what a quotient is (`Quotient`), hence the bounds of a
round's error and its weighted share and the monotonicity of both. `PriceExact` needs
that a price more than eighteen decimals away cannot fit an i64 (`WidthAssumption`);
`TableExplains` that the mirror divides the same numbers and that display keeps their
order. `ScoreAssumption` says what the account can hold: a positive price, since
`read_observation` refuses every other, and rounds recorded for both players or for
none, since `submit_round_predictions` writes both.

Every safety invariant, action property and refinement that a passing run checks has its
theorem. Left to TLC is liveness (`EscrowDrains`, `HealthyMatchesEnd`, `TurnsEnd`), which
is out of the prover's reach.

## 5. Not modelled

Account derivation, rent, events and the mint-extension allowlist of the program;
signatures; u64 overflow inside the program (every sum there is checked and aborts; what
a form can ask for beyond a u64 is modelled, 2.2). The words of prompts and answers and the price history in a prompt. Request
building and schema parsing of the price clients. The lists of matches on the home and
wallet pages, layout, theme, generated code, scripts and tests: they keep no state and
decide nothing a property would be about. `PROJECT.json` lists every part with its
reason.

Two hazards are known and have no property: a player whose confirmation failed may click
again and create a second match while the first one lands (`transactions.ts:265`), which
nothing in the repository excludes; and a round may start by the tick's old clock
reading, or chat for so long, that its paid answers miss the window (`tick.ts:24`), where
`windows.ts:19-22` only has in mind the choice of the round.

## 6. Plan

Order: what moves money first, then what decides who gets it, then what can
silently cost a player a round, then what the player is shown and signs. All modules of
the plan are written, checked and, where the prover can follow, proved. What would add
most now:

1. The late round of a tick, with the time chats take, against `windows.ts:19-22`.
2. `WorkerTick` with two matches in one worker, as a refinement by `RoundJob` of its
   round jobs.
3. The match screen over an account fetched earlier, with the simulation before the
   signature as what makes it safe.
