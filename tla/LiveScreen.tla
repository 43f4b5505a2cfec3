------------------------------ MODULE LiveScreen ------------------------------
(***************************************************************************)
(* What a browser shows while things change elsewhere.  On a match page    *)
(* the chart polls /api/benchmark, whose servers each cache one read of    *)
(* Hermes, and the page itself is refreshed with a new match account; on   *)
(* the home page the Arena picker asks for the holdings of whichever       *)
(* wallet is connected.  Requests overlap and answers come in any order.   *)
(* A price is its publish time; all have the exponent of the match.        *)
(***************************************************************************)
EXTENDS Integers, FiniteSets, SequencesExt

CONSTANTS
    Servers,           \* processes behind /api/benchmark, each with its cache
    Wallets, NoWallet, \* what the wallet adapter may be connected to
    MainnetMints,      \* mainnetMint of the registry's arenas, where there is one
    TokenAccounts,     \* [Wallets -> set of mainnet accounts, under either token program]
    BENCHMARK_MAX_AGE, CACHE_MS, MAX_LIVE_POINTS,
    Polls, Requests,   \* bounds: fetches in flight from one page
    StartTime,         \* the match on the page: publish time of its start observation,
    StartTs, TargetEnd, RoundDue, \* its start_ts and target_end_ts, the times its rounds are due
    Rounds, MaxTime    \* bounds: rounds accepted while it is watched; the clock's end

ASSUME LiveAssumption ==
    /\ NoWallet \notin Wallets
    /\ \A w \in Wallets : TokenAccounts[w] \subseteq
         [owner : {w}, program : {"classic", "token2022"}, mint : STRING, amount : Nat]
    /\ BENCHMARK_MAX_AGE \in Nat /\ CACHE_MS \in Nat /\ MAX_LIVE_POINTS \in Nat \ {0}
    /\ StartTime \in Nat /\ StartTime > 1 /\ StartTs \in Nat /\ TargetEnd \in Nat
    /\ StartTime <= StartTs /\ StartTs < TargetEnd
    /\ RoundDue \subseteq StartTs..TargetEnd
    /\ Rounds \in Nat /\ MaxTime \in Nat

VARIABLES
    now, published,    \* the clock; publish time of Hermes' latest price
    settled_at,        \* the account: publish time of the final price, or None;
    ended,             \* whether it was settled or has become refundable
    observed,          \* the rows: publish times the agents were shown, in order
    cached,            \* [Servers -> [at, view]]: route.ts's cached
    page,              \* "home" or "match", what the tab is on
    props,             \* the match page's server-rendered points and live flag
    polls,             \* [Polls -> a fetch of /api/benchmark, or Idle]
    polled_at,         \* when the timer of the effect last fired
    live,              \* useLivePrices: its points, in order of arrival
    wallet,            \* useWallet().publicKey
    holdings, message, \* ArenaPicker: the balances it knows of; its status line
    requests           \* [Requests -> a fetch of /api/holdings, or Idle]

account == <<settled_at, ended, observed>>
server == <<now, published, account, cached>>
chart == <<props, polls, polled_at, live>>
picker == <<wallet, holdings, message, requests>>
vars == <<server, page, chart, picker>>

None == -1
MaxOf(a, b) == IF a < b THEN b ELSE a
Idle == [state |-> "idle"]
Pending == [state |-> "pending"]
NoProps == [live |-> FALSE, points |-> <<>>]

\* BattlePoint and Observation.
Point(label, time, source) == [label |-> label, time |-> time, source |-> source]

-----------------------------------------------------------------------------
(***************************************************************************)
(* The server: loadBenchmark (lib/benchmark.ts) and its cache.             *)
(***************************************************************************)
isStale(time) == now - time > BENCHMARK_MAX_AGE

\* What loadBenchmark makes of Hermes' answer, or of none.
View(time) == [state |-> "done", time |-> time, stale |-> isStale(time)]
Unavailable == [state |-> "done", time |-> None, stale |-> TRUE]

Usable(view) == view.state = "done" /\ ~view.stale /\ view.time # None

\* Seeded bug: a price once read is kept for good.
KeptWhileGood(s) == cached[s].view = Unavailable
\* A server that has read nothing yet is one whose read is too old.
Expired(s) == now - cached[s].at > CACHE_MS

entryOf(s) == IF Expired(s) THEN [at |-> now, view |-> Pending] ELSE cached[s]

\* One poll at each tick, POLL_MS apart; it reaches server s, and shares its read or starts one.
Poll(p, s) ==
    /\ page = "match" /\ props.live
    /\ polled_at # now /\ polled_at' = now
    /\ polls[p] = Idle
    /\ LET entry == entryOf(s) IN
       /\ cached' = [cached EXCEPT ![s] = entry]
       /\ polls' = [polls EXCEPT ![p] = [state |-> "sent", on |-> s, at |-> entry.at,
                                         view |-> entry.view]]
    /\ UNCHANGED <<now, published, account, page, props, live, picker>>

\* Another viewer's poll.
OthersPoll(s) ==
    /\ cached' = [cached EXCEPT ![s] = entryOf(s)]
    /\ UNCHANGED <<now, published, account, page, chart, picker>>

Awaits(p, s, at) == polls[p].state = "sent" /\ polls[p].on = s /\ polls[p].at = at
Loading(s, at) ==
    \/ cached[s].at = at /\ cached[s].view = Pending
    \/ \E p \in Polls : Awaits(p, s, at) /\ polls[p].view = Pending

\* The read that server s began at a time resolves, for the cache and for all who await it.
BenchmarkLoads(s, at, view) ==
    /\ Loading(s, at)
    /\ cached' = IF cached[s].at = at THEN [cached EXCEPT ![s].view = view] ELSE cached
    /\ polls' = [p \in Polls |-> IF Awaits(p, s, at) THEN [polls[p] EXCEPT !.view = view]
                                                     ELSE polls[p]]
    /\ UNCHANGED <<now, published, account, page, props, polled_at, live, picker>>

\* Hermes answers with its latest price; the way back is part of the read that follows.
Readings == {View(published), Unavailable}

-----------------------------------------------------------------------------
(***************************************************************************)
(* The chart: useLivePrices, and what BattleArena and BenchmarkChart draw. *)
(***************************************************************************)
since == props.points[1].time

Fresh(view) == Usable(view) /\ view.time >= since
Repeated(view) == live # <<>> /\ Last(live).time = view.time

\* setPoints: the last MAX_LIVE_POINTS in order of arrival.
Kept(points) == SubSeq(points, 1 + MaxOf(0, Len(points) - MAX_LIVE_POINTS), Len(points))

\* An answer arrives, whichever of those in flight; or its fetch fails.
PollAnswered(p) ==
    /\ polls[p].state = "sent" /\ polls[p].view # Pending
    /\ polls' = [polls EXCEPT ![p] = Idle]
    /\ LET view == polls[p].view IN
       live' = IF ~Fresh(view) \/ Repeated(view) THEN live
               ELSE Kept(Append(live, Point("Live", view.time, "live")))
    /\ UNCHANGED <<now, published, account, cached, page, props, polled_at, picker>>

PollFails(p) ==
    /\ polls[p].state = "sent"
    /\ polls' = [polls EXCEPT ![p] = Idle]
    /\ UNCHANGED <<now, published, account, cached, page, props, polled_at, live, picker>>

\* The points of the page: the start, what the agents were shown, and the final price or,
\* until there is one, whatever Hermes last said.
pagePoints(view) ==
    <<Point("Start", StartTime, "chain")>>
    \o [r \in DOMAIN observed |-> Point("Round", observed[r], "prompt")]
    \o (IF settled_at # None THEN <<Point("Final", settled_at, "chain")>>
        ELSE IF view.time >= StartTs
             THEN <<Point("Latest Hermes", view.time, "live")>> ELSE <<>>)

\* The cleanup of the effect: an answer that comes after it is dropped.
cancelled == [p \in Polls |-> Idle]

\* router.refresh: new props from the server; the effect is torn down when active changes.
\* The page's own read of the benchmark is not cached; its length is left out.
LoadPage(view) ==
    /\ props' = [live |-> ~ended, points |-> pagePoints(view)]
    /\ polls' = IF props.live /\ ended THEN cancelled
                ELSE polls

Refresh(view) ==
    /\ page = "match" /\ LoadPage(view)
    /\ UNCHANGED <<now, published, account, cached, page, polled_at, live, picker>>

\* Seeded bug: the points are drawn in the order they came.
AsTheyCame(points) == points
\* series.sort: by publish time, those of one time as they came.
before(points, k) ==
    {j \in DOMAIN points : \/ points[j].time < points[k].time
                           \/ points[j].time = points[k].time /\ j < k}
ByTime(points) ==
    LET place == [k \in DOMAIN points |-> Cardinality(before(points, k)) + 1]
    IN  [i \in DOMAIN points |-> points[CHOOSE k \in DOMAIN points : place[k] = i]]

series == ByTime(props.points \o live)

\* What is made of the points shown: the price called the latest, the axis with what is
\* drawn at a time and the times at its ends, and the points the line goes through.
latest(shown) == Last(shown)
marks(shown) == RoundDue \cup {TargetEnd} \cup {shown[i].time : i \in DOMAIN shown}
first(shown) == Head(shown).time
last(shown) == MaxOf(TargetEnd, MaxOf(latest(shown).time, first(shown) + 1))
liveLine(shown) == {i \in DOMAIN shown : shown[i].source # "prompt"}

-----------------------------------------------------------------------------
(***************************************************************************)
(* The Arena picker on the home page.                                      *)
(***************************************************************************)
\* GET /api/holdings/[wallet]: the balances of registered mints under both token programs.
holdingsOf(w) ==
    {held \in TokenAccounts[w] : held.amount # 0 /\ held.mint \in MainnetMints}

\* The arenas listed with "Mainnet reference holding".
badges == {mint \in MainnetMints : \E holding \in holdings : holding.mint = mint}

\* The cleanup of the effect: controller.abort(), after which an answer finds nobody.
\* Seeded bug: the effect has no cleanup.
LeavesRunning(fetches) == fetches
aborts(fetches) == [r \in Requests |-> Idle]

\* The effect runs for a wallet: on the first render and at each change of wallet.
CheckHoldings(w) ==
    /\ wallet' = w
    /\ IF w = NoWallet
       THEN /\ holdings' = {} /\ message' = "connect"
            /\ requests' = aborts(requests)
       ELSE /\ UNCHANGED holdings /\ message' = "checking"
            /\ \E r \in Requests :
                  /\ aborts(requests)[r] = Idle
                  /\ requests' = [aborts(requests) EXCEPT ![r] = [state |-> "sent", for |-> w]]

SwitchWallet(w) ==
    /\ page = "home" /\ w # wallet
    /\ CheckHoldings(w)
    /\ UNCHANGED <<server, page, chart>>

HoldingsArrive(r) ==
    /\ requests[r].state = "sent"
    /\ holdings' = holdingsOf(requests[r].for) /\ message' = "shown"
    /\ requests' = [requests EXCEPT ![r] = Idle]
    /\ UNCHANGED <<server, page, chart, wallet>>

HoldingsFail(r) ==
    /\ requests[r].state = "sent"
    /\ holdings' = {} /\ message' = "unavailable"
    /\ requests' = [requests EXCEPT ![r] = Idle]
    /\ UNCHANGED <<server, page, chart, wallet>>

-----------------------------------------------------------------------------
\* The tab goes from one page to the other; what it leaves is unmounted.
OpenMatch(view) ==
    /\ page = "home" /\ page' = "match"
    /\ LoadPage(view) /\ live' = <<>> /\ polled_at' = None
    /\ requests' = aborts(requests) /\ holdings' = {} /\ message' = "connect"
    /\ UNCHANGED <<now, published, account, cached, wallet>>

OpenHome ==
    /\ page = "match" /\ page' = "home"
    /\ props' = NoProps /\ live' = <<>> /\ polled_at' = None
    /\ polls' = cancelled
    /\ CheckHoldings(wallet)
    /\ UNCHANGED server

Tick ==
    /\ now < MaxTime /\ now' = now + 1
    /\ UNCHANGED <<published, account, cached, page, chart, picker>>

Publish ==
    /\ \E time \in (published + 1)..now : published' = time
    /\ UNCHANGED <<now, account, cached, page, chart, picker>>

\* The worker's side of the account: both predictions of a round, and the settlement.
AcceptRound ==
    /\ ~ended /\ Len(observed) < Rounds
    /\ \E time \in StartTime..published :
          time <= TargetEnd /\ observed' = Append(observed, time)
    /\ UNCHANGED <<now, published, settled_at, ended, cached, page, chart, picker>>

Settle ==
    /\ ~ended /\ ended' = TRUE
    /\ \E time \in TargetEnd..published : settled_at' = time
    /\ UNCHANGED <<now, published, observed, cached, page, chart, picker>>

\* mark_oracle_failure: nobody settled it in time.
Fail ==
    /\ ~ended /\ now > TargetEnd /\ ended' = TRUE
    /\ UNCHANGED <<now, published, settled_at, observed, cached, page, chart, picker>>

\* The match has just been activated; the servers still remember a read from before.
Init ==
    /\ now = StartTs /\ published = StartTime
    /\ cached = [s \in Servers |-> [at |-> StartTime - 1, view |-> View(StartTime - 1)]]
    /\ settled_at = None /\ ended = FALSE /\ observed = <<>>
    /\ page = "home" /\ props = NoProps
    /\ polls = [p \in Polls |-> Idle] /\ live = <<>> /\ polled_at = None
    /\ wallet = NoWallet /\ holdings = {} /\ message = "connect"
    /\ requests = [r \in Requests |-> Idle]

Next ==
    \/ Tick \/ Publish \/ AcceptRound \/ Settle \/ Fail \/ OpenHome
    \/ \E s \in Servers : OthersPoll(s) \/ \E p \in Polls : Poll(p, s)
    \/ \E s \in Servers, at \in StartTs..now, view \in Readings : BenchmarkLoads(s, at, view)
    \/ \E p \in Polls : PollAnswered(p) \/ PollFails(p)
    \/ \E view \in Readings : Refresh(view) \/ OpenMatch(view)
    \/ \E w \in Wallets \cup {NoWallet} : SwitchWallet(w)
    \/ \E r \in Requests : HoldingsArrive(r) \/ HoldingsFail(r)

Spec == Init /\ [][Next]_vars

-----------------------------------------------------------------------------
(***************************************************************************)
(* Properties                                                              *)
(***************************************************************************)

(***************************************************************************)
(* The chart runs forward.  It begins with the start of its own match,     *)
(* whatever older price a server still has, everything is drawn within its *)
(* axis, and its line never doubles back; and while the page shows the     *)
(* same account, the price it calls the latest never goes back in time,    *)
(* although its polls are answered by several servers with caches of their *)
(* own and overtake one another (benchmark-chart.tsx:41-76, 134-146,       *)
(* 218-277).                                                               *)
(***************************************************************************)
ForwardOnAxis(shown) ==
    /\ Head(shown).label = "Start"
    /\ \A t \in marks(shown) : first(shown) =< t /\ t =< last(shown)
    /\ \A i, j \in liveLine(shown) : i < j => shown[i].time =< shown[j].time

ChartRunsForward ==
    [][page' = "match" /\ <<props, live>>' # <<props, live>> =>
         \E shown \in {series'} :
         /\ ForwardOnAxis(shown)
         /\ page = "match" /\ props' = props => latest(series).time =< latest(shown).time]_vars

(***************************************************************************)
(* When the picker says that it shows mainnet holdings, it marks just the  *)
(* arenas whose mint the wallet that is connected now has a balance of,    *)
(* under either token program, and from that wallet's accounts, however    *)
(* often it was switched while answers were under way; it marks none when  *)
(* it says that it knows of none (arena-picker.tsx:25-71,                  *)
(* holdings/[wallet]/route.ts:26-50).                                      *)
(***************************************************************************)
PickerTellsTheTruth ==
    /\ message = "shown" =>
         /\ holdings \subseteq TokenAccounts[wallet]
         /\ badges = {mint \in MainnetMints :
                       \E held \in TokenAccounts[wallet] : held.mint = mint /\ held.amount > 0}
    /\ message \in {"connect", "unavailable"} => badges = {}

(***************************************************************************)
(* A price a server hands out as fresh was fresh at most the life of the   *)
(* cache ago: staleness is decided once, when the price is read, and the   *)
(* answer is then shared by every chart that asks                          *)
(* (api/benchmark/route.ts:5-15, lib/benchmark.ts:18).                     *)
(***************************************************************************)
ServedPriceIsRecent ==
    [][\A p \in Polls :
          LET was == polls[p]  is == polls'[p] IN
          (/\ is.state = "sent" /\ Usable(is.view)
           /\ was.state = "sent" => was.view = Pending)
             => now - is.view.time =< BENCHMARK_MAX_AGE + CACHE_MS]_vars

=============================================================================
