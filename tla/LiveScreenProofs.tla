--------------------------- MODULE LiveScreenProofs ---------------------------
(***************************************************************************)
(* Theorems about LiveScreen for any number of servers, wallets, mints and *)
(* overlapping requests, and any lengths of the cache and of freshness.    *)
(***************************************************************************)
EXTENDS LiveScreen, FiniteSetTheorems, TLAPS

-----------------------------------------------------------------------------
(***************************************************************************)
(* The picker                                                              *)
(***************************************************************************)

\* Only the connected wallet is asked for, and what is shown is its answer.
PickerInv ==
    /\ wallet \in Wallets \cup {NoWallet}
    /\ DOMAIN requests = Requests
    /\ \A r \in Requests :
        \/ requests[r] = Idle
        \/ wallet \in Wallets /\ requests[r] = [state |-> "sent", for |-> wallet]
    /\ message = "shown" => wallet \in Wallets /\ holdings = holdingsOf(wallet)
    /\ message \in {"connect", "unavailable"} => holdings = {}

LEMMA CheckStep ==
    ASSUME PickerInv, NEW w \in Wallets \cup {NoWallet}, CheckHoldings(w)
    PROVE  PickerInv'
<1>1. CASE w = NoWallet
  BY <1>1 DEF PickerInv, CheckHoldings, aborts
<1>2. CASE w # NoWallet
  <2>1. PICK r \in Requests : requests' = [aborts(requests) EXCEPT ![r] = [state |-> "sent", for |-> w]]
    BY <1>2 DEF CheckHoldings
  <2>2. wallet' = w /\ w \in Wallets /\ message' = "checking"
    BY <1>2 DEF CheckHoldings
  <2> QED
    BY <2>1, <2>2 DEF PickerInv, aborts
<1> QED
  BY <1>1, <1>2

LEMMA PickerStep == PickerInv /\ [Next]_vars => PickerInv'
<1> SUFFICES ASSUME PickerInv, [Next]_vars PROVE PickerInv'
  OBVIOUS
<1>1. CASE UNCHANGED picker
  BY <1>1 DEF picker, PickerInv, holdingsOf
<1>2. ASSUME NEW w \in Wallets \cup {NoWallet}, SwitchWallet(w) PROVE PickerInv'
  BY <1>2, CheckStep DEF SwitchWallet
<1>3. CASE OpenHome
  BY <1>3, CheckStep DEF OpenHome, PickerInv
<1>4. ASSUME NEW r \in Requests, HoldingsArrive(r) \/ HoldingsFail(r) PROVE PickerInv'
  <2>1. wallet \in Wallets /\ requests[r].for = wallet
    BY <1>4 DEF HoldingsArrive, HoldingsFail, PickerInv, Idle
  <2> QED
    BY <1>4, <2>1 DEF HoldingsArrive, HoldingsFail, PickerInv
<1>5. ASSUME NEW view, OpenMatch(view) PROVE PickerInv'
  BY <1>5 DEF OpenMatch, PickerInv, aborts
<1>6. ASSUME NEW s \in Servers, NEW p \in Polls, OthersPoll(s) \/ Poll(p, s) PROVE UNCHANGED picker
  BY <1>6 DEF OthersPoll, Poll
<1>7. ASSUME NEW s, NEW at, NEW view, BenchmarkLoads(s, at, view) \/ Refresh(view) PROVE UNCHANGED picker
  BY <1>7 DEF BenchmarkLoads, Refresh
<1> QED
  BY <1>1, <1>2, <1>3, <1>4, <1>5, <1>6, <1>7
     DEF Next, vars, Tick, Publish, AcceptRound, Settle, Fail, OthersPoll, PollAnswered, PollFails

(***************************************************************************)
(* When the picker says that it shows mainnet holdings, they are those of  *)
(* the wallet connected now, under either token program, however often it  *)
(* was switched while answers were under way (arena-picker.tsx:25-71).     *)
(***************************************************************************)
THEOREM PickerIsTruthful == Spec => []PickerTellsTheTruth
<1>1. Init => PickerInv
  BY DEF Init, PickerInv
<1>2. PickerInv => PickerTellsTheTruth
  <2>1. ASSUME NEW w \in Wallets, NEW mint \in MainnetMints
        PROVE  (\E held \in holdingsOf(w) : held.mint = mint)
                 <=> (\E held \in TokenAccounts[w] : held.mint = mint /\ held.amount > 0)
    <3>1. \A held \in TokenAccounts[w] : held.amount \in Nat
      BY LiveAssumption
    <3> QED
      BY <3>1 DEF holdingsOf
  <2> QED
    BY <2>1 DEF PickerInv, PickerTellsTheTruth, badges, holdingsOf
<1> QED
  BY <1>1, <1>2, PickerStep, PTL DEF Spec

-----------------------------------------------------------------------------
(***************************************************************************)
(* The cache                                                               *)
(***************************************************************************)

Views == {Unavailable} \cup [state : {"done"}, time : Int, stale : BOOLEAN]
Entries == [at : Int, view : {Pending} \cup Views]

\* A price that was fresh when it was read was so when the read began.
FreshWhenRead(entry) ==
    Usable(entry.view) => entry.view.time \in Int /\ entry.at - entry.view.time <= BENCHMARK_MAX_AGE

CacheInv ==
    /\ now \in Int /\ published \in Int
    /\ DOMAIN polls = Polls
    /\ cached \in [Servers -> Entries]
    /\ \A s \in Servers : FreshWhenRead(cached[s])

\* What a read that resolves now has to say.
LEMMA ReadingsFresh ==
    ASSUME CacheInv, NEW view \in Readings
    PROVE  /\ view \in Views
           /\ Usable(view) => view.time \in Int /\ now - view.time <= BENCHMARK_MAX_AGE
<1>1. CASE view = Unavailable
  BY <1>1 DEF Unavailable, Usable, Views
<1>2. CASE view = View(published)
  <2>1. view.time = published /\ published \in Int /\ (~view.stale => ~isStale(published))
    BY <1>2 DEF View, CacheInv
  <2>2. view \in Views
    BY <1>2, <2>1 DEF View, isStale, Views
  <2>3. now \in Int /\ BENCHMARK_MAX_AGE \in Int
    BY LiveAssumption DEF CacheInv
  <2>4. Usable(view) => now - view.time <= BENCHMARK_MAX_AGE
    BY <2>1, <2>3 DEF Usable, isStale
  <2> QED
    BY <2>1, <2>2, <2>4
<1> QED
  BY <1>1, <1>2 DEF Readings

LEMMA EntryFresh ==
    ASSUME CacheInv, NEW s \in Servers
    PROVE  /\ entryOf(s) \in Entries
           /\ FreshWhenRead(entryOf(s))
           /\ Usable(entryOf(s).view) => now - entryOf(s).at <= CACHE_MS
BY LiveAssumption DEF Entries, CacheInv, entryOf, Expired, FreshWhenRead, Usable, Pending

LEMMA LoadsFresh ==
    ASSUME CacheInv, NEW s \in Servers, NEW at \in StartTs..now, NEW view \in Readings,
           BenchmarkLoads(s, at, view)
    PROVE  CacheInv'
<1>1. at \in Int /\ at <= now
  BY LiveAssumption DEF CacheInv
<1>2. FreshWhenRead([at |-> at, view |-> view])
  BY <1>1, ReadingsFresh, LiveAssumption DEF FreshWhenRead, CacheInv
<1>3. UNCHANGED <<now, published>> /\ DOMAIN polls' = Polls
  BY DEF BenchmarkLoads
<1>4. CASE UNCHANGED cached
  BY <1>3, <1>4 DEF CacheInv
<1>5. CASE cached[s].at = at /\ cached' = [cached EXCEPT ![s].view = view]
  <2>1. cached' = [cached EXCEPT ![s] = [at |-> at, view |-> view]]
    <3>1. cached[s] = [at |-> cached[s].at, view |-> cached[s].view]
      BY DEF CacheInv, Entries
    <3>2. [cached[s] EXCEPT !.view = view] = [at |-> at, view |-> view]
      BY <1>5, <3>1
    <3> QED
      BY <1>5, <3>2
  <2> QED
    BY <1>1, <1>2, <1>3, <2>1, ReadingsFresh DEF CacheInv, Entries
<1> QED
  BY <1>4, <1>5 DEF BenchmarkLoads

LEMMA CacheStep == CacheInv /\ [Next]_vars => CacheInv'
<1> SUFFICES ASSUME CacheInv, [Next]_vars PROVE CacheInv'
  OBVIOUS
<1>1. CASE UNCHANGED <<now, published, cached, polls>>
  BY <1>1 DEF CacheInv
<1>2. CASE Tick \/ Publish
  BY <1>2, LiveAssumption DEF Tick, Publish, CacheInv, chart
<1>3. ASSUME NEW s \in Servers, NEW p \in Polls, Poll(p, s) PROVE CacheInv'
  BY <1>3, EntryFresh DEF Poll, CacheInv
<1>4. ASSUME NEW s \in Servers, OthersPoll(s) PROVE CacheInv'
  BY <1>4, EntryFresh DEF OthersPoll, CacheInv, chart
<1>5. ASSUME UNCHANGED <<now, published, cached>>, DOMAIN polls' = Polls PROVE CacheInv'
  BY <1>5 DEF CacheInv
<1>6. ASSUME NEW p \in Polls, PollAnswered(p) \/ PollFails(p) PROVE CacheInv'
  BY <1>5, <1>6 DEF PollAnswered, PollFails, CacheInv
<1>7. ASSUME NEW view, Refresh(view) \/ OpenMatch(view) PROVE CacheInv'
  BY <1>5, <1>7 DEF Refresh, OpenMatch, LoadPage, cancelled, CacheInv
<1>8. CASE OpenHome
  BY <1>5, <1>8 DEF OpenHome, cancelled, server
<1> QED
  BY <1>1, <1>2, <1>3, <1>4, <1>6, <1>7, <1>8, LoadsFresh
     DEF Next, vars, server, chart, AcceptRound, Settle, Fail, SwitchWallet, HoldingsArrive, HoldingsFail

\* The step by which a poll gets its answer.
ServedNow ==
    \A p \in Polls :
       LET was == polls[p]  is == polls'[p] IN
       (/\ is.state = "sent" /\ Usable(is.view)
        /\ was.state = "sent" => was.view = Pending)
          => now - is.view.time <= BENCHMARK_MAX_AGE + CACHE_MS

LEMMA ServedStep == CacheInv /\ [Next]_vars => ServedNow
<1> SUFFICES ASSUME CacheInv, [Next]_vars, NEW p \in Polls,
                    polls'[p].state = "sent", Usable(polls'[p].view),
                    polls[p].state = "sent" => polls[p].view = Pending
             PROVE  now - polls'[p].view.time <= BENCHMARK_MAX_AGE + CACHE_MS
  BY DEF ServedNow
<1> USE LiveAssumption
<1>1. polls'[p] # polls[p] /\ polls'[p] # Idle
  BY DEF Usable, Pending, Idle
<1>2. ASSUME NEW s \in Servers, NEW q \in Polls, Poll(q, s)
      PROVE  now - polls'[p].view.time <= BENCHMARK_MAX_AGE + CACHE_MS
  <2>1. polls'[p].view = entryOf(s).view
    BY <1>1, <1>2 DEF Poll, CacheInv
  <2> QED
    BY <2>1, EntryFresh DEF FreshWhenRead, CacheInv, Entries
<1>3. ASSUME NEW s \in Servers, NEW at \in StartTs..now, NEW view \in Readings, BenchmarkLoads(s, at, view)
      PROVE  now - polls'[p].view.time <= BENCHMARK_MAX_AGE + CACHE_MS
  <2>1. polls'[p] = [polls[p] EXCEPT !.view = view] /\ polls[p].state = "sent"
    BY <1>1, <1>3 DEF BenchmarkLoads, Awaits
  <2>2. Usable(view) /\ polls'[p].view = view
    BY <2>1
  <2> QED
    BY <2>2, ReadingsFresh DEF CacheInv
<1>4. ASSUME NEW q \in Polls, PollAnswered(q) \/ PollFails(q) PROVE FALSE
  BY <1>1, <1>4 DEF PollAnswered, PollFails, CacheInv
<1>5. ASSUME NEW view, Refresh(view) \/ OpenMatch(view) PROVE FALSE
  BY <1>1, <1>5 DEF Refresh, OpenMatch, LoadPage, cancelled
<1>6. CASE OpenHome
  BY <1>1, <1>6 DEF OpenHome, cancelled
<1> QED
  BY <1>1, <1>2, <1>3, <1>4, <1>5, <1>6
     DEF Next, vars, chart, Tick, Publish, AcceptRound, Settle, Fail, OthersPoll, SwitchWallet,
         HoldingsArrive, HoldingsFail

(***************************************************************************)
(* A price a server hands out as fresh was fresh at most the life of the   *)
(* cache ago, whichever read it comes from and however many charts share   *)
(* it (api/benchmark/route.ts:5-15, lib/benchmark.ts:18).                  *)
(***************************************************************************)
THEOREM ServedIsRecent == Spec => ServedPriceIsRecent
<1>1. Init => CacheInv
  BY LiveAssumption DEF Init, CacheInv, Entries, Views, View, isStale, FreshWhenRead, Usable
<1> QED
  BY <1>1, CacheStep, ServedStep, PTL DEF Spec, ServedPriceIsRecent, ServedNow

-----------------------------------------------------------------------------
(***************************************************************************)
(* The series: what sorting the points by time gives.                      *)
(***************************************************************************)
Labels == {"Start", "Round", "Final", "Latest Hermes", "Live"}
Sources == {"chain", "prompt", "live"}
Points == [label : Labels, time : Int, source : Sources]

\* The points of a list have times.
LEMMA PointTimes ==
    ASSUME NEW points \in Seq(Points)
    PROVE  /\ Len(points) \in Nat /\ DOMAIN points = 1..Len(points)
           /\ \A k \in 1..Len(points) : points[k] \in Points /\ points[k].time \in Int
<1>1. \A k \in 1..Len(points) : points[k] \in Points
  OBVIOUS
<1> QED
  BY <1>1 DEF Points

\* What comes before a point is some of the other points.
LEMMA BeforeType ==
    ASSUME NEW points \in Seq(Points), NEW k \in 1..Len(points)
    PROVE  /\ IsFiniteSet(before(points, k))
           /\ Cardinality(before(points, k)) \in 0..(Len(points) - 1)
<1> DEFINE n == Len(points)
           B == before(points, k)
<1>1. n \in Nat /\ DOMAIN points = 1..n
  OBVIOUS
<1>2. B \subseteq (1..n) \ {k}
  BY <1>1, PointTimes DEF before
<1>3. /\ IsFiniteSet((1..n) \ {k})
      /\ Cardinality((1..n) \ {k}) = n - 1
  <2>1. IsFiniteSet(1..n) /\ Cardinality(1..n) = n
    BY <1>1, FS_Interval
  <2> QED
    BY <2>1, FS_RemoveElement
<1>4. IsFiniteSet(B) /\ Cardinality(B) <= n - 1
  BY <1>2, <1>3, FS_Subset
<1>5. Cardinality(B) \in Nat
  BY <1>4, FS_CardinalityType
<1> QED
  BY <1>1, <1>4, <1>5

\* Of two points one comes before the other, and has fewer points before it.
LEMMA BeforeOrders ==
    ASSUME NEW points \in Seq(Points), NEW k \in 1..Len(points), NEW l \in 1..Len(points)
    PROVE  /\ k # l => k \in before(points, l) \/ l \in before(points, k)
           /\ k \in before(points, l) =>
                Cardinality(before(points, k)) < Cardinality(before(points, l))
<1>1. points[k].time \in Int /\ points[l].time \in Int
  BY PointTimes
<1>2. k # l => k \in before(points, l) \/ l \in before(points, k)
  BY <1>1 DEF before
<1>3. ASSUME k \in before(points, l)
      PROVE  Cardinality(before(points, k)) < Cardinality(before(points, l))
  <2>1. \A j \in 1..Len(points) : points[j].time \in Int
    BY PointTimes
  <2>2. k \notin before(points, k)
    BY <1>1 DEF before
  <2>3. before(points, k) \cup {k} \subseteq before(points, l)
    BY <1>3, <1>1, <2>1 DEF before
  <2>4. Cardinality(before(points, k) \cup {k}) = Cardinality(before(points, k)) + 1
    BY <2>2, BeforeType, FS_AddElement
  <2>5. Cardinality(before(points, k) \cup {k}) <= Cardinality(before(points, l))
    BY <2>3, BeforeType, FS_Subset
  <2> QED
    BY <2>4, <2>5, BeforeType
<1> QED
  BY <1>2, <1>3

\* Every place is taken, by one point.
LEMMA PlacesTaken ==
    ASSUME NEW points \in Seq(Points), NEW i \in 1..Len(points)
    PROVE  \E k \in 1..Len(points) : Cardinality(before(points, k)) + 1 = i
<1> DEFINE n == Len(points)
           f == [k \in 1..n |-> Cardinality(before(points, k)) + 1]
<1>1. f \in [1..n -> 1..n]
  BY BeforeType
<1>2. ASSUME NEW k \in 1..n, NEW l \in 1..n, f[k] = f[l]
      PROVE  k = l
  <2>1. Cardinality(before(points, k)) \in Int /\ Cardinality(before(points, l)) \in Int
    BY BeforeType
  <2>2. Cardinality(before(points, k)) = Cardinality(before(points, l))
    BY <1>2, <2>1
  <2> QED
    BY <2>1, <2>2, BeforeOrders
<1>3. f \in Injection(1..n, 1..n)
  BY <1>1, <1>2 DEF Injection, IsInjective
<1>4. IsFiniteSet(1..n)
  BY FS_Interval
<1>5. f \in Surjection(1..n, 1..n)
  BY <1>3, <1>4, FS_Injection
<1> QED
  BY <1>5 DEF Surjection

\* The sorted series has the same points, and their times in order.
LEMMA Sorting ==
    ASSUME NEW points \in Seq(Points)
    PROVE  /\ ByTime(points) \in Seq(Points) /\ Len(ByTime(points)) = Len(points)
           /\ \A k \in 1..Len(points) : \E i \in 1..Len(points) : ByTime(points)[i] = points[k]
           /\ \A i \in 1..Len(points) : \E k \in 1..Len(points) :
                /\ ByTime(points)[i] = points[k]
                /\ Cardinality(before(points, k)) + 1 = i
           /\ \A i, j \in 1..Len(points) : i <= j =>
                ByTime(points)[i].time <= ByTime(points)[j].time
<1> DEFINE n == Len(points)
           place == [k \in DOMAIN points |-> Cardinality(before(points, k)) + 1]
           at(i) == CHOOSE k \in DOMAIN points : place[k] = i
<1>1. n \in Nat /\ DOMAIN points = 1..n
  OBVIOUS
<1>2. ASSUME NEW i \in 1..n
      PROVE  /\ at(i) \in 1..n
             /\ Cardinality(before(points, at(i))) + 1 = i
  <2>1. \E k \in DOMAIN points : place[k] = i
    BY <1>1, PlacesTaken
  <2>2. at(i) \in DOMAIN points /\ place[at(i)] = i
    BY <2>1
  <2> QED
    BY <1>1, <2>2
<1>3. ByTime(points) = [i \in 1..n |-> points[at(i)]]
  BY <1>1 DEF ByTime
<1> HIDE DEF at
<1>4. ByTime(points) \in Seq(Points) /\ Len(ByTime(points)) = n
  BY <1>1, <1>2, <1>3
<1>5. ASSUME NEW k \in 1..n PROVE \E i \in 1..n : ByTime(points)[i] = points[k]
  <2> DEFINE i == Cardinality(before(points, k)) + 1
  <2>1. i \in 1..n
    BY <1>1, BeforeType
  <2>2. at(i) = k
    <3>1. at(i) \in 1..n /\ Cardinality(before(points, at(i))) + 1 = i
      BY <1>2, <2>1
    <3>2. Cardinality(before(points, at(i))) \in Int /\ Cardinality(before(points, k)) \in Int
      BY <3>1, BeforeType
    <3> QED
      BY <3>1, <3>2, BeforeOrders
  <2> QED
    BY <1>3, <2>1, <2>2
<1>6. ASSUME NEW i \in 1..n
      PROVE  \E k \in 1..n : /\ ByTime(points)[i] = points[k]
                             /\ Cardinality(before(points, k)) + 1 = i
  BY <1>2, <1>3
<1>7. ASSUME NEW i \in 1..n, NEW j \in 1..n, i <= j
      PROVE  ByTime(points)[i].time <= ByTime(points)[j].time
  <2> DEFINE k == at(i)
             l == at(j)
  <2>1. k \in 1..n /\ l \in 1..n /\ points[k].time \in Int /\ points[l].time \in Int
    BY <1>2, PointTimes
  <2>2. ByTime(points)[i] = points[k] /\ ByTime(points)[j] = points[l]
    BY <1>3
  <2>3. CASE k = l
    BY <2>1, <2>2, <2>3
  <2>4. CASE k # l
    <3>1. Cardinality(before(points, k)) + 1 = i /\ Cardinality(before(points, l)) + 1 = j
      BY <1>2
    <3>2. Cardinality(before(points, k)) \in Int /\ Cardinality(before(points, l)) \in Int
      BY <2>1, BeforeType
    <3>3. l \notin before(points, k)
      BY <1>7, <2>1, <3>1, <3>2, BeforeOrders
    <3>4. k \in before(points, l)
      BY <2>1, <2>4, <3>3, BeforeOrders
    <3> QED
      BY <2>1, <2>2, <3>4 DEF before
  <2> QED
    BY <2>3, <2>4
<1> QED
  BY <1>4, <1>5, <1>6, <1>7

\* A point that opens the list and is no later than the others opens the series.
LEMMA FirstStays ==
    ASSUME NEW points \in Seq(Points), points # <<>>,
           \A k \in 1..Len(points) : points[1].time <= points[k].time
    PROVE  ByTime(points)[1] = points[1]
<1>1. Len(points) \in Nat /\ 1 \in 1..Len(points)
  OBVIOUS
<1>2. PICK k \in 1..Len(points) : /\ ByTime(points)[1] = points[k]
                                  /\ Cardinality(before(points, k)) + 1 = 1
  BY <1>1, Sorting
<1>3. Cardinality(before(points, k)) = 0
  BY <1>2, BeforeType
<1>4. before(points, k) = {}
  BY <1>3, BeforeType, FS_EmptySet
<1>5. k = 1
  BY <1>1, <1>4, PointTimes DEF before
<1> QED
  BY <1>2, <1>5

\* Points of this match; those of a page begin with its start.
OfMatch(points) ==
    /\ points \in Seq(Points)
    /\ \A k \in 1..Len(points) : StartTime <= points[k].time

OpensWithStart(points) ==
    /\ OfMatch(points) /\ points # <<>>
    /\ points[1] = Point("Start", StartTime, "chain")

\* A point whose time is not before the start is one of this match.
LEMMA OfMatchPoint ==
    ASSUME NEW label \in Labels, NEW time \in Int, NEW source \in Sources, StartTime <= time
    PROVE  OfMatch(<<Point(label, time, source)>>)
<1>1. Point(label, time, source) \in Points /\ Point(label, time, source).time = time
  BY DEF Point, Points
<1> DEFINE x == Point(label, time, source)
<1> HIDE DEF x
<1>2. <<x>> \in Seq(Points) /\ Len(<<x>>) = 1 /\ <<x>>[1] = x
  BY <1>1 DEF x
<1> QED
  BY <1>1, <1>2 DEF OfMatch, x

\* So are the points of two lists of them.
LEMMA OfMatchConcat ==
    ASSUME NEW s, NEW t, OfMatch(s), OfMatch(t)
    PROVE  OfMatch(s \o t)
<1>1. s \in Seq(Points) /\ t \in Seq(Points) /\ Len(s) \in Nat /\ Len(t) \in Nat
  BY DEF OfMatch
<1>2. s \o t \in Seq(Points) /\ Len(s \o t) = Len(s) + Len(t)
  BY <1>1
<1>3. ASSUME NEW k \in 1..Len(s \o t) PROVE StartTime <= (s \o t)[k].time
  <2>1. CASE k <= Len(s)
    <3>1. k \in 1..Len(s) /\ (s \o t)[k] = s[k]
      BY <1>1, <1>2, <2>1
    <3> QED
      BY <3>1 DEF OfMatch
  <2>2. CASE k > Len(s)
    <3>1. k - Len(s) \in 1..Len(t) /\ (s \o t)[k] = t[k - Len(s)]
      BY <1>1, <1>2, <2>2
    <3> QED
      BY <3>1 DEF OfMatch
  <2> QED
    BY <1>1, <1>2, <2>1, <2>2
<1> QED
  BY <1>2, <1>3 DEF OfMatch

\* What opens with the start still does when more points follow.
LEMMA OpensConcat ==
    ASSUME NEW s, NEW t, OpensWithStart(s), OfMatch(t)
    PROVE  OpensWithStart(s \o t)
<1>1. s \in Seq(Points) /\ t \in Seq(Points) /\ Len(s) \in Nat \ {0} /\ Len(t) \in Nat
  BY DEF OpensWithStart, OfMatch
<1>2. Len(s \o t) = Len(s) + Len(t) /\ (s \o t)[1] = s[1]
  BY <1>1
<1>3. s \o t # <<>>
  BY <1>1, <1>2
<1> QED
  BY <1>2, <1>3, OfMatchConcat DEF OpensWithStart

\* The series of such points, sorted: first the start, last a latest one.
LEMMA SeriesEnds ==
    ASSUME NEW points, OpensWithStart(points)
    PROVE  /\ ByTime(points) \in Seq(Points) /\ ByTime(points) # <<>>
           /\ Head(ByTime(points)) = points[1]
           /\ \A k \in 1..Len(points) : points[k].time <= Last(ByTime(points)).time
           /\ \E k \in 1..Len(points) : Last(ByTime(points)) = points[k]
<1> DEFINE s == ByTime(points)
           n == Len(points)
<1>1. n \in Nat /\ n > 0 /\ points \in Seq(Points)
  BY DEF OpensWithStart, OfMatch
<1>2. s \in Seq(Points) /\ Len(s) = n
  BY <1>1, Sorting
<1>3. s # <<>> /\ Head(s) = s[1] /\ Last(s) = s[n]
  BY <1>1, <1>2 DEF Last
<1>4. s[1] = points[1]
  <2>1. \A k \in 1..n : points[1].time <= points[k].time
    BY DEF OpensWithStart, OfMatch, Point
  <2> QED
    BY <1>1, <2>1, FirstStays DEF OpensWithStart, OfMatch
<1>5. \A k \in 1..n : points[k].time <= s[n].time
  <2>1. \A k \in 1..n : \E i \in 1..n : s[i] = points[k]
    BY <1>1, Sorting
  <2>2. \A i, j \in 1..n : i <= j => s[i].time <= s[j].time
    BY <1>1, Sorting
  <2> HIDE DEF s
  <2>3. n \in 1..n /\ \A i \in 1..n : i <= n
    BY <1>1
  <2>4. \A i \in 1..n : s[i].time <= s[n].time
    BY <2>2, <2>3
  <2> QED
    BY <2>1, <2>4
<1>6. \E k \in 1..n : s[n] = points[k]
  <2>1. \A i \in 1..n : \E k \in 1..n : s[i] = points[k]
    BY <1>1, Sorting
  <2>2. n \in 1..n
    BY <1>1
  <2> HIDE DEF n, s
  <2> QED
    BY <2>1, <2>2
<1> QED
  BY <1>2, <1>3, <1>4, <1>5, <1>6

\* Drawn from such points, the chart keeps to its axis and its line runs forward.
LEMMA DrawnForward ==
    ASSUME NEW points, OpensWithStart(points)
    PROVE  ForwardOnAxis(ByTime(points))
<1> DEFINE s == ByTime(points)
           n == Len(points)
<1>1. n \in Nat /\ n > 0 /\ points \in Seq(Points) /\ s \in Seq(Points) /\ Len(s) = n
  BY Sorting DEF OpensWithStart, OfMatch
<1>2. Head(s) = Point("Start", StartTime, "chain")
  BY SeriesEnds DEF OpensWithStart, OfMatch
<1>3. first(s) = StartTime /\ Head(s).label = "Start"
  BY <1>2 DEF first, Point
<1>4. Last(s).time \in Int
  <2>1. PICK k \in 1..n : Last(s) = points[k]
    BY SeriesEnds
  <2> QED
    BY <1>1, <2>1, PointTimes
<1>5. TargetEnd <= last(s) /\ Last(s).time <= last(s)
  BY <1>3, <1>4, LiveAssumption DEF last, latest, MaxOf
<1>6. last(s) \in Int
  BY <1>3, <1>4, LiveAssumption DEF last, latest, MaxOf
<1>7. ASSUME NEW t \in marks(s) PROVE first(s) <= t /\ t <= last(s)
  <2>1. CASE t \in RoundDue \cup {TargetEnd}
    <3>1. StartTime \in Int /\ TargetEnd \in Int /\ StartTime <= TargetEnd
      BY LiveAssumption
    <3>2. t \in Int /\ StartTime <= t /\ t <= TargetEnd
      BY <2>1, LiveAssumption
    <3> HIDE DEF s
    <3> QED
      BY <1>3, <1>5, <1>6, <3>1, <3>2
  <2>2. CASE \E i \in DOMAIN s : t = s[i].time
    <3>1. PICK i \in 1..n : t = s[i].time
      BY <1>1, <2>2
    <3>2. PICK k \in 1..n : s[i] = points[k]
      BY <1>1, Sorting
    <3>3. t \in Int /\ StartTime <= t /\ t <= Last(s).time
      BY <1>1, <3>1, <3>2, PointTimes, SeriesEnds DEF OpensWithStart, OfMatch
    <3> QED
      BY <1>3, <1>4, <1>5, <1>6, <3>3
  <2> QED
    BY <2>1, <2>2 DEF marks
<1>8. ASSUME NEW i \in liveLine(s), NEW j \in liveLine(s), i < j
      PROVE  s[i].time <= s[j].time
  <2>1. i \in 1..n /\ j \in 1..n /\ i <= j
    BY <1>1, <1>8 DEF liveLine
  <2> QED
    BY <1>1, <2>1, Sorting
<1> QED
  BY <1>3, <1>7, <1>8 DEF ForwardOnAxis

-----------------------------------------------------------------------------
(***************************************************************************)
(* What a page has to draw.                                                *)
(***************************************************************************)
\* A price that a server or a fetch has is one that Hermes published.
Known(view) ==
    view \in {Pending} \cup Views /\ (Usable(view) => view.time <= published)

\* What the match has is no older than its start, and what settles it than its end.
AccountInv ==
    /\ settled_at \in Int /\ (settled_at = None \/ settled_at >= TargetEnd)
    /\ observed \in Seq(Int) /\ \A i \in 1..Len(observed) : observed[i] >= StartTime

\* The chart has points of its own match, and fetches only where it is shown.
ShownInv ==
    /\ page = "home" \/ page = "match"
    /\ page = "home" => live = <<>> /\ \A p \in Polls : polls[p] = Idle
    /\ page = "match" => OpensWithStart(props.points)
    /\ live \in Seq(Points) /\ Len(live) <= MAX_LIVE_POINTS
    /\ \A i \in 1..Len(live) : StartTime <= live[i].time /\ live[i].time <= published

ViewsInv ==
    /\ \A s \in Servers : cached[s].at <= now /\ Known(cached[s].view)
    /\ \A p \in Polls : polls[p].state = "sent" => Known(polls[p].view)

\* The points a page is rendered with begin with the start of the match.
LEMMA PagePoints ==
    ASSUME CacheInv, AccountInv, NEW view \in Readings
    PROVE  OpensWithStart(pagePoints(view))
<1> DEFINE a == <<Point("Start", StartTime, "chain")>>
           b == [r \in DOMAIN observed |-> Point("Round", observed[r], "prompt")]
           final == <<Point("Final", settled_at, "chain")>>
           hermes == <<Point("Latest Hermes", view.time, "live")>>
           c == IF settled_at # None THEN final
                ELSE IF view.time >= StartTs THEN hermes ELSE <<>>
<1>1. /\ StartTime \in Int /\ StartTs \in Int /\ TargetEnd \in Int
      /\ StartTime <= StartTs /\ StartTs <= TargetEnd /\ StartTime <= TargetEnd
  BY LiveAssumption
<1>2. OpensWithStart(a)
  <2>1. OfMatch(a)
    <3>1. StartTime <= StartTime
      BY <1>1
    <3> QED
      BY <1>1, <3>1, OfMatchPoint DEF Labels, Sources
  <2> HIDE DEF OfMatch
  <2>2. a # <<>> /\ a[1] = Point("Start", StartTime, "chain")
    OBVIOUS
  <2> QED
    BY <2>1, <2>2 DEF OpensWithStart
<1>3. OfMatch(b)
  <2>1. /\ Len(observed) \in Nat /\ DOMAIN observed = 1..Len(observed)
        /\ \A r \in 1..Len(observed) : observed[r] \in Int /\ observed[r] >= StartTime
    BY DEF AccountInv
  <2>2. \A r \in 1..Len(observed) : Point("Round", observed[r], "prompt") \in Points
    BY <2>1 DEF Point, Points, Labels, Sources
  <2>3. \A r \in 1..Len(observed) : Point("Round", observed[r], "prompt").time = observed[r]
    BY DEF Point
  <2>4. b \in Seq(Points) /\ Len(b) = Len(observed)
    BY <2>1, <2>2
  <2>5. \A r \in 1..Len(b) : b[r].time = observed[r]
    BY <2>1, <2>3, <2>4
  <2> HIDE DEF b
  <2> QED
    BY <1>1, <2>1, <2>4, <2>5 DEF OfMatch
<1>4. OfMatch(c)
  <2>1. settled_at # None => OfMatch(final)
    <3>1. SUFFICES ASSUME settled_at # None PROVE OfMatch(final)
      OBVIOUS
    <3>2. settled_at \in Int /\ StartTime <= settled_at
      BY <1>1, <3>1 DEF AccountInv
    <3> QED
      BY <3>2, OfMatchPoint DEF Labels, Sources
  <2>2. view.time >= StartTs => OfMatch(hermes)
    <3>1. SUFFICES ASSUME view.time >= StartTs PROVE OfMatch(hermes)
      OBVIOUS
    <3>2. view.time \in Int
      BY ReadingsFresh DEF Views, Unavailable, None
    <3>3. StartTime <= view.time
      BY <1>1, <3>1, <3>2
    <3> QED
      BY <3>2, <3>3, OfMatchPoint DEF Labels, Sources
  <2>3. OfMatch(<<>>)
    BY DEF OfMatch
  <2> HIDE DEF final, hermes
  <2> QED
    BY <2>1, <2>2, <2>3
<1>5. pagePoints(view) = a \o b \o c
  BY DEF pagePoints
<1> HIDE DEF a, b, c
<1>6. OpensWithStart(a \o b)
  BY <1>2, <1>3, OpensConcat
<1> QED
  BY <1>4, <1>5, <1>6, OpensConcat

\* What Hermes says now, if it says anything usable, is the latest price.
LEMMA ReadingIsLatest ==
    ASSUME CacheInv, NEW view \in Readings
    PROVE  view \in Views /\ (Usable(view) => view.time = published)
<1>1. Usable(view) => view.time = published
  BY DEF Readings, View, Unavailable, Usable
<1> QED
  BY <1>1, ReadingsFresh

\* The worker only adds what is of this match.
LEMMA AccountStep == CacheInv /\ AccountInv /\ [Next]_vars => AccountInv'
<1> SUFFICES ASSUME CacheInv, AccountInv, [Next]_vars PROVE AccountInv'
  OBVIOUS
<1>1. CASE UNCHANGED <<settled_at, observed>>
  BY <1>1 DEF AccountInv
<1>2. CASE AcceptRound
  <2>1. PICK time \in StartTime..published : observed' = Append(observed, time)
    BY <1>2 DEF AcceptRound
  <2>2. time \in Int /\ time >= StartTime
    BY LiveAssumption DEF CacheInv
  <2>3. settled_at' = settled_at
    BY <1>2 DEF AcceptRound
  <2> QED
    BY <2>1, <2>2, <2>3 DEF AccountInv
<1>3. CASE Settle
  <2>1. PICK time \in TargetEnd..published : settled_at' = time
    BY <1>3 DEF Settle
  <2>2. time \in Int /\ time >= TargetEnd
    BY LiveAssumption DEF CacheInv
  <2> QED
    BY <1>3, <2>1, <2>2 DEF Settle, AccountInv
<1> QED
  BY <1>1, <1>2, <1>3
     DEF Next, vars, server, account, Tick, Publish, Fail, OthersPoll, Poll, BenchmarkLoads, PollAnswered,
         PollFails, Refresh, OpenMatch, OpenHome, SwitchWallet, HoldingsArrive, HoldingsFail

\* Times only grow, and what is known stays known.
LEMMA ViewsStep == CacheInv /\ ViewsInv /\ [Next]_vars => ViewsInv'
<1> SUFFICES ASSUME CacheInv, ViewsInv, [Next]_vars PROVE ViewsInv'
  OBVIOUS
<1>0. now \in Int /\ published \in Int /\ DOMAIN polls = Polls
      /\ \A s \in Servers : cached[s].at \in Int
  BY DEF CacheInv, Entries
<1>a. Known(Pending)
  BY DEF Known, Pending, Usable
<1>1. CASE UNCHANGED <<now, published, cached, polls>>
  BY <1>1 DEF ViewsInv, Known
<1>2. CASE Tick \/ Publish
  <2>1. UNCHANGED <<cached, polls>> /\ now <= now' /\ published <= published'
        /\ now' \in Int /\ published' \in Int
    BY <1>0, <1>2, LiveAssumption DEF Tick, Publish, chart
  <2>2. ASSUME NEW view, Known(view) PROVE Known(view)'
    BY <1>0, <2>1, <2>2 DEF Known, Views, Unavailable, Usable, Pending
  <2> QED
    BY <1>0, <2>1, <2>2 DEF ViewsInv
<1>3. ASSUME NEW s \in Servers PROVE entryOf(s).at <= now /\ Known(entryOf(s).view)
  BY <1>0, <1>a DEF entryOf, ViewsInv
<1>4. ASSUME NEW s \in Servers, NEW p \in Polls, Poll(p, s) PROVE ViewsInv'
  <2>1. UNCHANGED <<now, published>> /\ cached' = [cached EXCEPT ![s] = entryOf(s)]
    BY <1>4 DEF Poll
  <2>2. polls' = [polls EXCEPT ![p] = [state |-> "sent", on |-> s, at |-> entryOf(s).at,
                                       view |-> entryOf(s).view]]
    BY <1>4 DEF Poll
  <2> QED
    BY <1>0, <1>3, <2>1, <2>2 DEF ViewsInv, Known, CacheInv
<1>5. ASSUME NEW s \in Servers, OthersPoll(s) PROVE ViewsInv'
  <2>1. UNCHANGED <<now, published, polls>> /\ cached' = [cached EXCEPT ![s] = entryOf(s)]
    BY <1>5 DEF OthersPoll, chart
  <2> QED
    BY <1>0, <1>3, <2>1 DEF ViewsInv, Known, CacheInv
<1>6. ASSUME NEW s \in Servers, NEW at \in StartTs..now, NEW view \in Readings, BenchmarkLoads(s, at, view)
      PROVE  ViewsInv'
  <2>1. Known(view)
    BY <1>0, ReadingIsLatest DEF Known
  <2>2. UNCHANGED <<now, published>> /\ (cached' = cached \/ cached' = [cached EXCEPT ![s].view = view])
    BY <1>6 DEF BenchmarkLoads
  <2>3. \A q \in Servers : cached'[q].at = cached[q].at
                           /\ (cached'[q].view = cached[q].view \/ cached'[q].view = view)
    BY <2>2 DEF CacheInv, Entries
  <2>4. \A q \in Polls : polls'[q] = polls[q] \/ polls'[q] = [polls[q] EXCEPT !.view = view]
    BY <1>6 DEF BenchmarkLoads
  <2>5. \A q \in Polls : polls'[q].state = "sent" /\ polls[q].state = "sent" =>
                           polls'[q].view = polls[q].view \/ polls'[q].view = view
    <3>1. \A q \in Polls : polls'[q] = [polls[q] EXCEPT !.view = view] => polls'[q].view = view \/ polls'[q] = polls[q]
      BY <1>6 DEF BenchmarkLoads, Awaits
    <3> QED
      BY <2>4, <3>1
  <2>6. \A q \in Polls : polls'[q].state = "sent" => polls[q].state = "sent"
    BY <1>6 DEF BenchmarkLoads, Awaits
  <2> QED
    BY <2>1, <2>2, <2>3, <2>5, <2>6 DEF ViewsInv, Known
<1>7. ASSUME UNCHANGED <<now, published, cached>>, \A q \in Polls : polls'[q] = polls[q] \/ polls'[q] = Idle
      PROVE  ViewsInv'
  BY <1>7 DEF ViewsInv, Known, Idle
<1>8. ASSUME NEW p \in Polls, PollAnswered(p) \/ PollFails(p) PROVE ViewsInv'
  BY <1>0, <1>7, <1>8 DEF PollAnswered, PollFails
<1>9. ASSUME NEW view, Refresh(view) \/ OpenMatch(view) PROVE ViewsInv'
  BY <1>7, <1>9 DEF Refresh, OpenMatch, LoadPage, cancelled
<1>10. CASE OpenHome
  BY <1>7, <1>10 DEF OpenHome, cancelled, server
<1> QED
  BY <1>1, <1>2, <1>4, <1>5, <1>6, <1>8, <1>9, <1>10
     DEF Next, vars, server, chart, AcceptRound, Settle, Fail, SwitchWallet, HoldingsArrive, HoldingsFail

\* What is kept of a list of points are its last ones.
LEMMA KeptLast ==
    ASSUME NEW points \in Seq(Points)
    PROVE  /\ Kept(points) \in Seq(Points) /\ Len(Kept(points)) <= MAX_LIVE_POINTS
           /\ Len(Kept(points)) = Len(points) - MaxOf(0, Len(points) - MAX_LIVE_POINTS)
           /\ \A i \in 1..Len(Kept(points)) :
                /\ i + MaxOf(0, Len(points) - MAX_LIVE_POINTS) \in 1..Len(points)
                /\ Kept(points)[i] = points[i + MaxOf(0, Len(points) - MAX_LIVE_POINTS)]
<1> DEFINE n == Len(points)
           d == MaxOf(0, n - MAX_LIVE_POINTS)
<1>1. n \in Nat /\ d \in 0..n /\ n - d <= MAX_LIVE_POINTS
  BY LiveAssumption DEF MaxOf
<1>2. Kept(points) = [i \in 1..(n - d) |-> points[i + d]]
  <2>1. Kept(points) = SubSeq(points, 1 + d, n)
    BY DEF Kept
  <2> HIDE DEF d
  <2>2. n - (1 + d) + 1 = n - d
    BY <1>1
  <2>3. \A i \in 1..(n - d) : i + (1 + d) - 1 = i + d
    BY <1>1
  <2> QED
    BY <1>1, <2>1, <2>2, <2>3
<1> HIDE DEF d
<1>3. \A i \in 1..(n - d) : i + d \in 1..n /\ points[i + d] \in Points
  <2>1. \A k \in 1..n : points[k] \in Points
    OBVIOUS
  <2>2. \A i \in 1..(n - d) : i + d \in 1..n
    BY <1>1
  <2> QED
    BY <2>1, <2>2
<1>4. n - d \in Nat
  BY <1>1
<1>5. Kept(points) \in Seq(Points) /\ Len(Kept(points)) = n - d
  BY <1>2, <1>3, <1>4
<1> QED
  BY <1>1, <1>2, <1>3, <1>5 DEF d

\* An answer is dropped or is a price of this match, put behind the others.
LEMMA AnswerIs ==
    ASSUME CacheInv, ViewsInv, ShownInv, NEW p \in Polls, PollAnswered(p)
    PROVE  \/ live' = live
           \/ /\ Usable(polls[p].view) /\ polls[p].view.time \in StartTime..published
              /\ Point("Live", polls[p].view.time, "live") \in Points
              /\ live' = Kept(Append(live, Point("Live", polls[p].view.time, "live")))
<1>1. SUFFICES ASSUME live' # live
               PROVE  /\ Usable(polls[p].view) /\ polls[p].view.time \in StartTime..published
                      /\ Point("Live", polls[p].view.time, "live") \in Points
                      /\ live' = Kept(Append(live, Point("Live", polls[p].view.time, "live")))
  OBVIOUS
<1>2. Fresh(polls[p].view) /\ live' = Kept(Append(live, Point("Live", polls[p].view.time, "live")))
  BY <1>1 DEF PollAnswered
<1>3. page = "match" /\ since = StartTime
  <2>1. page = "match"
    BY DEF ShownInv, PollAnswered, Idle
  <2> QED
    BY <2>1 DEF ShownInv, OpensWithStart, Point, since
<1>4. Usable(polls[p].view) /\ polls[p].view.time >= StartTime
  BY <1>2, <1>3 DEF Fresh
<1>5. Known(polls[p].view)
  BY DEF PollAnswered, ViewsInv
<1>6. polls[p].view.time \in Int /\ polls[p].view.time <= published
  BY <1>4, <1>5 DEF Known, Views, Unavailable, Usable, Pending
<1>7. polls[p].view.time \in StartTime..published
  BY <1>4, <1>6, LiveAssumption DEF CacheInv
<1>8. Point("Live", polls[p].view.time, "live") \in Points
  BY <1>6 DEF Point, Points, Labels, Sources
<1> QED
  BY <1>2, <1>4, <1>7, <1>8

\* Every step keeps to the points of this match.
LEMMA ShownStep == CacheInv /\ AccountInv /\ ViewsInv /\ ShownInv /\ [Next]_vars => ShownInv'
<1> SUFFICES ASSUME CacheInv, AccountInv, ViewsInv, ShownInv, [Next]_vars PROVE ShownInv'
  OBVIOUS
<1>0. now \in Int /\ published \in Int /\ DOMAIN polls = Polls
      /\ live \in Seq(Points) /\ \A i \in 1..Len(live) : live[i].time \in Int
  BY PointTimes DEF CacheInv, ShownInv
<1>1. ASSUME UNCHANGED <<page, props, live>>, published' \in Int, published <= published',
             page = "home" => \A q \in Polls : polls'[q] = Idle
      PROVE  ShownInv'
  BY <1>0, <1>1 DEF ShownInv
<1>2. CASE UNCHANGED <<published, page, props, polls, live>>
  BY <1>2 DEF ShownInv
<1>3. CASE Publish
  BY <1>0, <1>1, <1>3 DEF Publish, chart, ShownInv
<1>4. ASSUME NEW s \in Servers, NEW p \in Polls, Poll(p, s) PROVE ShownInv'
  BY <1>0, <1>1, <1>4 DEF Poll
<1>5. ASSUME NEW s \in Servers, NEW at, NEW view, BenchmarkLoads(s, at, view) PROVE ShownInv'
  <2>1. page = "home" => \A q \in Polls : polls'[q] = Idle
    BY <1>5 DEF BenchmarkLoads, Awaits, ShownInv, Idle
  <2> QED
    BY <1>0, <1>1, <1>5, <2>1 DEF BenchmarkLoads
<1>6. ASSUME NEW p \in Polls, PollFails(p) PROVE ShownInv'
  BY <1>0, <1>1, <1>6 DEF PollFails, ShownInv
<1>7. ASSUME NEW p \in Polls, PollAnswered(p) PROVE ShownInv'
  <2>1. page = "match" /\ UNCHANGED <<published, page, props>>
    BY <1>7 DEF PollAnswered, ShownInv, Idle
  <2>2. CASE live' = live
    BY <1>0, <1>1, <2>1, <2>2
  <2>3. CASE /\ polls[p].view.time \in StartTime..published
             /\ Point("Live", polls[p].view.time, "live") \in Points
             /\ live' = Kept(Append(live, Point("Live", polls[p].view.time, "live")))
    <3> DEFINE x == Point("Live", polls[p].view.time, "live")
               points == Append(live, x)
    <3>1. points \in Seq(Points) /\ Len(points) = Len(live) + 1
      BY <1>0, <2>3
    <3>2. \A i \in 1..Len(points) : StartTime <= points[i].time /\ points[i].time <= published
      <4>1. x.time = polls[p].view.time
        BY DEF Point
      <4>2. StartTime <= x.time /\ x.time <= published
        BY <2>3, <4>1
      <4>3. \A i \in 1..Len(points) : (i \in 1..Len(live) /\ points[i] = live[i]) \/ points[i] = x
        BY <1>0, <2>3
      <4> QED
        BY <4>2, <4>3 DEF ShownInv
    <3> HIDE DEF points
    <3>3. live' = Kept(points)
      BY <2>3 DEF points
    <3>4. live' \in Seq(Points) /\ Len(live') <= MAX_LIVE_POINTS
      BY <3>1, <3>3, KeptLast
    <3>5. \A i \in 1..Len(live') : \E k \in 1..Len(points) : live'[i] = points[k]
      BY <3>1, <3>3, KeptLast
    <3>6. \A i \in 1..Len(live') : StartTime <= live'[i].time /\ live'[i].time <= published
      BY <3>2, <3>5
    <3> QED
      BY <2>1, <3>4, <3>6 DEF ShownInv
  <2> QED
    BY <1>7, <2>2, <2>3, AnswerIs
<1>8. ASSUME NEW view \in Readings, Refresh(view) PROVE ShownInv'
  <2>1. props'.points = pagePoints(view) /\ page' = "match" /\ UNCHANGED <<live, published>>
    BY <1>8 DEF Refresh, LoadPage
  <2> QED
    BY <2>1, PagePoints DEF ShownInv
<1>9. ASSUME NEW view \in Readings, OpenMatch(view) PROVE ShownInv'
  <2>1. props'.points = pagePoints(view) /\ page' = "match" /\ live' = <<>> /\ published' = published
    BY <1>9 DEF OpenMatch, LoadPage
  <2> QED
    BY <2>1, PagePoints, LiveAssumption DEF ShownInv
<1>10. CASE OpenHome
  BY <1>10, LiveAssumption DEF OpenHome, cancelled, ShownInv
<1> QED
  BY <1>2, <1>3, <1>4, <1>5, <1>6, <1>7, <1>8, <1>9, <1>10
     DEF Next, vars, server, chart, Tick, AcceptRound, Settle, Fail, OthersPoll, SwitchWallet,
         HoldingsArrive, HoldingsFail

-----------------------------------------------------------------------------
(***************************************************************************)
(* The window of live prices.                                              *)
(***************************************************************************)
\* There is room for more prices than can be overtaken at once: useLivePrices keeps 600, a
\* poll is sent every 3 s and the cache lives 2 s, so that 600 fetches would have to hang.
Overtaken == Cardinality(Polls) + CACHE_MS
WindowCovers == IsFiniteSet(Polls) /\ Overtaken < MAX_LIVE_POINTS

Older(view, time) == Usable(view) /\ view.time < time

\* What may still bring a price older than one seen: a fetch under way, or a tick at which
\* some server's cache answers a poll with it.
InFlight(fetches, time) ==
    {p \in Polls : fetches[p].state = "sent" /\ Older(fetches[p].view, time)}
Instants(clock, fired, caches, time) ==
    {t \in clock..(clock + CACHE_MS) :
        /\ t = clock => fired # clock
        /\ \E s \in Servers : Older(caches[s].view, time) /\ t - caches[s].at <= CACHE_MS}

\* The prices that came after one and are older than it.
Later(points, i) == {j \in (i + 1)..Len(points) : points[j].time < points[i].time}

\* The prices that overtook one in the list and those that still may fit in it beside it.
WindowInv ==
    \A i \in 1..Len(live) :
        Cardinality(Later(live, i)) + Cardinality(InFlight(polls, live[i].time))
          + Cardinality(Instants(now, polled_at, cached, live[i].time)) <= Overtaken

\* There are only so many fetches under way.
LEMMA FetchesCounted ==
    ASSUME WindowCovers, NEW fetches, NEW time
    PROVE  IsFiniteSet(InFlight(fetches, time)) /\ Cardinality(InFlight(fetches, time)) \in Nat
<1>1. IsFiniteSet(Polls) /\ InFlight(fetches, time) \subseteq Polls
  BY DEF WindowCovers, InFlight
<1>2. IsFiniteSet(InFlight(fetches, time))
  BY <1>1, FS_Subset
<1> QED
  BY <1>2, FS_CardinalityType

\* There are only so many ticks before a cache is too old.
LEMMA InstantsCounted ==
    ASSUME NEW clock \in Int, NEW fired, NEW caches, NEW time
    PROVE  /\ IsFiniteSet(Instants(clock, fired, caches, time))
           /\ Cardinality(Instants(clock, fired, caches, time)) \in 0..(CACHE_MS + 1)
<1>1. CACHE_MS \in Nat
  BY LiveAssumption
<1>2. IsFiniteSet(clock..(clock + CACHE_MS)) /\ Cardinality(clock..(clock + CACHE_MS)) = CACHE_MS + 1
  <2>1. clock + CACHE_MS \in Int /\ (clock + CACHE_MS) - clock + 1 = CACHE_MS + 1 /\ clock <= clock + CACHE_MS
    BY <1>1
  <2> QED
    BY <2>1, FS_Interval
<1>3. Instants(clock, fired, caches, time) \subseteq clock..(clock + CACHE_MS)
  BY DEF Instants
<1>4. /\ IsFiniteSet(Instants(clock, fired, caches, time))
      /\ Cardinality(Instants(clock, fired, caches, time)) <= CACHE_MS + 1
  BY <1>2, <1>3, FS_Subset
<1>5. Cardinality(Instants(clock, fired, caches, time)) \in Nat
  BY <1>4, FS_CardinalityType
<1> QED
  BY <1>1, <1>4, <1>5

\* Both counts are numbers.
LEMMA CountsFinite ==
    ASSUME WindowCovers, NEW fetches, NEW clock \in Int, NEW fired, NEW caches, NEW time
    PROVE  /\ IsFiniteSet(InFlight(fetches, time)) /\ IsFiniteSet(Instants(clock, fired, caches, time))
           /\ Cardinality(InFlight(fetches, time)) \in Nat
           /\ Cardinality(Instants(clock, fired, caches, time)) \in 0..(CACHE_MS + 1)
BY FetchesCounted, InstantsCounted

\* Only so many prices follow one in the list.
LEMMA LaterFinite ==
    ASSUME NEW points \in Seq(Points), NEW i \in 1..Len(points)
    PROVE  IsFiniteSet(Later(points, i)) /\ Cardinality(Later(points, i)) \in Nat
<1>1. IsFiniteSet((i + 1)..Len(points))
  BY FS_Interval
<1>2. Later(points, i) \subseteq (i + 1)..Len(points)
  BY DEF Later
<1>3. IsFiniteSet(Later(points, i))
  BY <1>1, <1>2, FS_Subset
<1> QED
  BY <1>3, FS_CardinalityType

\* A step that adds no price adds to none of what may come.
Quiet(time) ==
    Cardinality(InFlight(polls', time)) + Cardinality(Instants(now', polled_at', cached', time))
      <= Cardinality(InFlight(polls, time)) + Cardinality(Instants(now, polled_at, cached, time))

\* A step that takes away from both, or from neither, is such a step.
LEMMA QuietSubset ==
    ASSUME WindowCovers, now \in Int, now' \in Int, NEW time,
           InFlight(polls', time) \subseteq InFlight(polls, time),
           Instants(now', polled_at', cached', time) \subseteq Instants(now, polled_at, cached, time)
    PROVE  Quiet(time)
<1> DEFINE a == InFlight(polls, time)    b == Instants(now, polled_at, cached, time)
           c == InFlight(polls', time)   d == Instants(now', polled_at', cached', time)
<1>1. IsFiniteSet(a) /\ IsFiniteSet(b) /\ Cardinality(a) \in Int /\ Cardinality(b) \in Int
  BY CountsFinite
<1>2. Cardinality(c) \in Int /\ Cardinality(d) \in Int
  BY CountsFinite
<1> HIDE DEF a, b, c, d
<1>3. c \subseteq a /\ d \subseteq b
  BY DEF a, b, c, d
<1>4. Cardinality(c) <= Cardinality(a) /\ Cardinality(d) <= Cardinality(b)
  BY <1>1, <1>3, FS_Subset
<1> QED
  BY <1>1, <1>2, <1>4 DEF Quiet, a, b, c, d

\* The chart's own poll: what it may bring is no longer to come from a cache.
LEMMA QuietPoll ==
    ASSUME WindowCovers, CacheInv, ViewsInv, NEW time \in Int, NEW p \in Polls, NEW s \in Servers, Poll(p, s)
    PROVE  Quiet(time)
<1>1. now \in Int /\ now' = now /\ DOMAIN polls = Polls /\ polled_at # now /\ polled_at' = now
      /\ polls[p] = Idle /\ CACHE_MS \in Nat
  BY LiveAssumption DEF Poll, CacheInv
<1>2. /\ cached' = [cached EXCEPT ![s] = entryOf(s)]
      /\ polls' = [polls EXCEPT ![p] = [state |-> "sent", on |-> s, at |-> entryOf(s).at,
                                        view |-> entryOf(s).view]]
  BY DEF Poll
<1> DEFINE a == InFlight(polls, time)    b == Instants(now, polled_at, cached, time)
           c == InFlight(polls', time)   d == Instants(now', polled_at', cached', time)
<1>3. IsFiniteSet(a) /\ IsFiniteSet(b) /\ Cardinality(a) \in Int /\ Cardinality(b) \in Int
      /\ Cardinality(c) \in Int /\ Cardinality(d) \in Int
  BY <1>1, CountsFinite
<1>4. entryOf(s) = cached[s] \/ ~Older(entryOf(s).view, time)
  BY DEF entryOf, Older, Usable, Pending
<1>5. d \subseteq b \ {now}
  <2>1. ASSUME NEW t \in d PROVE t \in b /\ t # now
    <3>1. t \in now..(now + CACHE_MS) /\ t # now
      BY <1>1 DEF Instants
    <3>2. PICK q \in Servers : Older(cached'[q].view, time) /\ t - cached'[q].at <= CACHE_MS
      BY DEF Instants
    <3>3. cached'[q] = cached[q]
      BY <1>2, <1>4, <3>2 DEF CacheInv
    <3> QED
      BY <3>1, <3>2, <3>3 DEF Instants
  <2> QED
    BY <2>1
<1>6. p \notin a /\ c \subseteq a \cup {p}
  BY <1>1, <1>2 DEF InFlight, Idle
<1>7. CASE p \notin c
  BY <1>1, <1>5, <1>6, <1>7, QuietSubset
<1>8. CASE p \in c
  <2>1. Older(entryOf(s).view, time)
    BY <1>1, <1>2, <1>8 DEF InFlight
  <2>2. now \in b
    <3>1. Older(cached[s].view, time) /\ now - cached[s].at <= CACHE_MS
      BY <1>4, <2>1, EntryFresh DEF Older
    <3> QED
      BY <1>1, <3>1 DEF Instants
  <2> HIDE DEF a, b, c, d
  <2>3. IsFiniteSet(b \ {now}) /\ Cardinality(b \ {now}) = Cardinality(b) - 1
    BY <1>3, <2>2, FS_RemoveElement
  <2>4. IsFiniteSet(a \cup {p}) /\ Cardinality(a \cup {p}) = Cardinality(a) + 1
    BY <1>3, <1>6, FS_AddElement
  <2>5. Cardinality(d) <= Cardinality(b) - 1 /\ Cardinality(c) <= Cardinality(a) + 1
    BY <1>5, <1>6, <2>3, <2>4, FS_Subset
  <2> QED
    BY <1>3, <2>5 DEF Quiet, a, b, c, d
<1> QED
  BY <1>7, <1>8

\* A read that is over brings the latest price, which is older than none seen.
LEMMA QuietLoads ==
    ASSUME WindowCovers, CacheInv, NEW time \in Int, time <= published, NEW s \in Servers,
           NEW at \in StartTs..now, NEW view \in Readings, BenchmarkLoads(s, at, view)
    PROVE  Quiet(time)
<1>1. ~Older(view, time)
  BY ReadingIsLatest DEF Older, CacheInv
<1>2. now \in Int /\ now' = now /\ polled_at' = polled_at
  BY DEF BenchmarkLoads, CacheInv
<1>3. \A p \in Polls : polls'[p] # polls[p] =>
                         polls'[p] = [polls[p] EXCEPT !.view = view] /\ polls[p].state = "sent"
  BY DEF BenchmarkLoads, Awaits
<1>4. \A p \in Polls : polls'[p].state = "sent" /\ Older(polls'[p].view, time) =>
                         polls[p].state = "sent" /\ Older(polls[p].view, time)
  <2>1. SUFFICES ASSUME NEW p \in Polls, polls'[p] = [polls[p] EXCEPT !.view = view],
                        Older(polls'[p].view, time), polls'[p] # polls[p]
                 PROVE  FALSE
    BY <1>3
  <2>2. polls'[p].view = view
    BY <2>1 DEF BenchmarkLoads, Awaits
  <2> QED
    BY <1>1, <2>1, <2>2
<1>5. \A q \in Servers : cached'[q].at = cached[q].at
                         /\ (cached'[q].view = cached[q].view \/ cached'[q].view = view)
  BY DEF BenchmarkLoads, CacheInv, Entries
<1>6. InFlight(polls', time) \subseteq InFlight(polls, time)
  BY <1>4 DEF InFlight
<1>7. Instants(now', polled_at', cached', time) \subseteq Instants(now, polled_at, cached, time)
  BY <1>1, <1>2, <1>5 DEF Instants
<1> QED
  BY <1>2, <1>6, <1>7, QuietSubset

\* Nor does any other step that leaves the prices as they are.
LEMMA QuietStep ==
    ASSUME WindowCovers, CacheInv, ViewsInv, [Next]_vars,
           \A p \in Polls : ~PollAnswered(p), \A view \in Readings : ~OpenMatch(view), ~OpenHome
    PROVE  live' = live /\ \A time \in Int : time <= published => Quiet(time)
<1>0. now \in Int /\ DOMAIN polls = Polls /\ CACHE_MS \in Nat
      /\ \A q \in Servers : cached[q].at \in Int /\ cached[q].at <= now
  BY LiveAssumption DEF CacheInv, Entries, ViewsInv
<1>1. ASSUME UNCHANGED <<now, polled_at, cached, live>>, \A p \in Polls : polls'[p] = polls[p] \/ polls'[p] = Idle
      PROVE  live' = live /\ \A time \in Int : time <= published => Quiet(time)
  <2>1. ASSUME NEW time PROVE InFlight(polls', time) \subseteq InFlight(polls, time)
    BY <1>1 DEF InFlight, Idle
  <2>2. ASSUME NEW time
        PROVE  Instants(now', polled_at', cached', time) \subseteq Instants(now, polled_at, cached, time)
    BY <1>1
  <2> QED
    BY <1>0, <1>1, <2>1, <2>2, QuietSubset
<1>2. CASE UNCHANGED <<now, chart, cached>>
  BY <1>1, <1>2 DEF chart
<1>3. CASE Tick
  <2>1. now' = now + 1 /\ UNCHANGED <<cached, props, polls, polled_at, live>>
    BY <1>3 DEF Tick, chart
  <2>2. ASSUME NEW time
        PROVE  Instants(now', polled_at', cached', time) \subseteq Instants(now, polled_at, cached, time)
    <3>1. SUFFICES ASSUME NEW t \in Instants(now', polled_at', cached', time)
                   PROVE  t \in Instants(now, polled_at, cached, time)
      OBVIOUS
    <3>2. PICK s \in Servers : Older(cached[s].view, time) /\ t - cached[s].at <= CACHE_MS
      BY <2>1 DEF Instants
    <3>3. t \in Int /\ now + 1 <= t
      BY <1>0, <2>1 DEF Instants
    <3>4. t \in now..(now + CACHE_MS) /\ t # now
      BY <1>0, <3>2, <3>3
    <3> QED
      BY <3>2, <3>4 DEF Instants
  <2>3. now' \in Int /\ polls' = polls
    BY <1>0, <2>1
  <2> QED
    BY <1>0, <2>1, <2>2, <2>3, QuietSubset
<1>4. ASSUME NEW s \in Servers, OthersPoll(s)
      PROVE  live' = live /\ \A time \in Int : time <= published => Quiet(time)
  <2>1. UNCHANGED <<now, polls, polled_at, live>> /\ cached' = [cached EXCEPT ![s] = entryOf(s)]
    BY <1>4 DEF OthersPoll, chart
  <2>2. ASSUME NEW time
        PROVE  Instants(now', polled_at', cached', time) \subseteq Instants(now, polled_at, cached, time)
    <3>1. entryOf(s) = cached[s] \/ ~Older(entryOf(s).view, time)
      BY DEF entryOf, Older, Usable, Pending
    <3>2. \A q \in Servers : Older(cached'[q].view, time) => cached'[q] = cached[q]
      BY <2>1, <3>1 DEF CacheInv
    <3> QED
      BY <2>1, <3>2 DEF Instants
  <2> QED
    BY <1>0, <2>1, <2>2, QuietSubset
<1>5. ASSUME NEW s \in Servers, NEW p \in Polls, Poll(p, s)
      PROVE  live' = live /\ \A time \in Int : time <= published => Quiet(time)
  BY <1>5, QuietPoll DEF Poll
<1>6. ASSUME NEW s \in Servers, NEW at \in StartTs..now, NEW view \in Readings, BenchmarkLoads(s, at, view)
      PROVE  live' = live /\ \A time \in Int : time <= published => Quiet(time)
  BY <1>6, QuietLoads DEF BenchmarkLoads
<1>7. ASSUME NEW p \in Polls, PollFails(p)
      PROVE  live' = live /\ \A time \in Int : time <= published => Quiet(time)
  BY <1>0, <1>1, <1>7 DEF PollFails
<1>8. ASSUME NEW view, Refresh(view)
      PROVE  live' = live /\ \A time \in Int : time <= published => Quiet(time)
  BY <1>1, <1>8 DEF Refresh, LoadPage, cancelled
<1> QED
  BY <1>2, <1>3, <1>4, <1>5, <1>6, <1>7, <1>8
     DEF Next, vars, server, Publish, AcceptRound, Settle, Fail, SwitchWallet, HoldingsArrive, HoldingsFail

\* With the price of an answer behind the others, whatever could be overtaken still can.
LEMMA WindowAppends ==
    ASSUME WindowCovers, CacheInv, ShownInv, WindowInv, NEW p \in Polls, PollAnswered(p),
           Usable(polls[p].view), NEW points \in Seq(Points), Len(points) = Len(live) + 1,
           \A k \in 1..Len(live) : points[k] = live[k],
           points[Len(points)].time = polls[p].view.time, NEW i \in 1..Len(points)
    PROVE  Cardinality(Later(points, i)) + Cardinality(InFlight(polls', points[i].time))
             + Cardinality(Instants(now', polled_at', cached', points[i].time)) <= Overtaken
<1>1. /\ now \in Int /\ UNCHANGED <<now, polled_at, cached>> /\ DOMAIN polls = Polls
      /\ polls' = [polls EXCEPT ![p] = Idle] /\ polls[p].state = "sent"
  BY DEF PollAnswered, CacheInv
<1>2. live \in Seq(Points) /\ Len(live) \in Nat
  BY DEF ShownInv
<1> DEFINE m == points[i].time
           a == InFlight(polls, m)    c == InFlight(polls', m)
           b == Instants(now, polled_at, cached, m)
           e == Later(points, i)
<1>3. /\ IsFiniteSet(a) /\ Cardinality(a) \in Int /\ Cardinality(c) \in Int
      /\ Cardinality(b) \in 0..(CACHE_MS + 1) /\ CACHE_MS \in Int
      /\ IsFiniteSet(e) /\ Cardinality(e) \in Int
      /\ Instants(now', polled_at', cached', m) = b
      /\ IsFiniteSet(Polls) /\ Cardinality(Polls) \in Int
  <2>1. IsFiniteSet(Polls) /\ Cardinality(Polls) \in Int
    BY FS_CardinalityType DEF WindowCovers
  <2>2. IsFiniteSet(e) /\ Cardinality(e) \in Int
    BY <1>2, LaterFinite
  <2>3. /\ IsFiniteSet(a) /\ Cardinality(a) \in Int /\ Cardinality(c) \in Int
        /\ Cardinality(b) \in 0..(CACHE_MS + 1)
    <3>1. IsFiniteSet(a) /\ Cardinality(a) \in Nat
      BY FetchesCounted
    <3>2. Cardinality(c) \in Nat
      BY FetchesCounted
    <3>3. Cardinality(b) \in 0..(CACHE_MS + 1)
      BY <1>1, InstantsCounted
    <3> QED
      BY <3>1, <3>2, <3>3
  <2>4. Instants(now', polled_at', cached', m) = b
    BY <1>1
  <2> QED
    BY <2>1, <2>2, <2>3, <2>4, LiveAssumption
<1>4. c \subseteq a \ {p}
  BY <1>1 DEF InFlight, Idle
<1>5. CASE i = Len(points)
  <2>1. e = {}
    BY <1>2, <1>5 DEF Later
  <2>2. Cardinality(e) = 0
    BY <2>1, FS_EmptySet
  <2>3. c \subseteq Polls \ {p}
    BY <1>1 DEF InFlight, Idle
  <2>4. IsFiniteSet(Polls \ {p}) /\ Cardinality(Polls \ {p}) = Cardinality(Polls) - 1
    BY <1>3, FS_RemoveElement
  <2>5. Cardinality(c) <= Cardinality(Polls) - 1
    BY <2>3, <2>4, FS_Subset
  <2> HIDE DEF b, c, e
  <2>6. Cardinality(e) + Cardinality(c) + Cardinality(b) <= Overtaken
    BY <1>3, <2>2, <2>5 DEF Overtaken
  <2> QED
    BY <1>3, <2>6 DEF b, c, e
<1>6. CASE i \in 1..Len(live)
  <2> DEFINE f == Later(live, i)
  <2>1. m = live[i].time /\ Cardinality(f) + Cardinality(a) + Cardinality(b) <= Overtaken
    BY <1>2, <1>6 DEF WindowInv
  <2>2. IsFiniteSet(f) /\ Cardinality(f) \in Int
    BY <1>2, <1>6, LaterFinite
  <2>3. Overtaken \in Int
    BY <1>3 DEF Overtaken
  <2>4. Cardinality(c) <= Cardinality(a \ {p}) /\ IsFiniteSet(a \ {p})
    BY <1>3, <1>4, FS_Subset
  <2>5. CASE p \in a
    <3>1. Cardinality(a \ {p}) = Cardinality(a) - 1
      BY <1>3, <2>5, FS_RemoveElement
    <3>2. e \subseteq f \cup {Len(points)}
      BY <1>2, <1>6 DEF Later
    <3>3. Len(points) \notin f /\ Cardinality(f \cup {Len(points)}) = Cardinality(f) + 1
          /\ IsFiniteSet(f \cup {Len(points)})
      <4>1. Len(points) \notin f
        BY <1>2 DEF Later
      <4> QED
        BY <2>2, <4>1, FS_AddElement
    <3>4. Cardinality(e) <= Cardinality(f) + 1
      BY <3>2, <3>3, FS_Subset
    <3> HIDE DEF a, b, c, e, f
    <3>5. Cardinality(e) + Cardinality(c) + Cardinality(b) <= Overtaken
      BY <1>3, <2>1, <2>2, <2>3, <2>4, <3>1, <3>4
    <3> QED
      BY <1>3, <3>5 DEF a, b, c, e
  <2>6. CASE p \notin a
    <3>1. Cardinality(a \ {p}) = Cardinality(a)
      <4>1. a \ {p} = a
        BY <2>6
      <4> HIDE DEF a
      <4> QED
        BY <4>1
    <3>2. ~(points[Len(points)].time < m)
      BY <1>1, <2>6 DEF InFlight, Older
    <3>3. e \subseteq f
      BY <1>2, <1>6, <3>2 DEF Later
    <3>4. Cardinality(e) <= Cardinality(f)
      BY <2>2, <3>3, FS_Subset
    <3> HIDE DEF a, b, c, e, f
    <3>5. Cardinality(e) + Cardinality(c) + Cardinality(b) <= Overtaken
      BY <1>3, <2>1, <2>2, <2>3, <2>4, <3>1, <3>4
    <3> QED
      BY <1>3, <3>5 DEF a, b, c, e
  <2> QED
    BY <2>5, <2>6
<1> QED
  BY <1>2, <1>5, <1>6

\* What an answer leaves of the list of prices.
Shifted(points, d) ==
    /\ points \in Seq(Points) /\ Len(points) = Len(live) + 1
    /\ \A k \in 1..Len(live) : points[k] = live[k]
    /\ live' \in Seq(Points) /\ d \in {0, 1} /\ Len(live') = Len(points) - d
    /\ d = 1 => Len(points) = MAX_LIVE_POINTS + 1
    /\ \A i \in 1..Len(live') : i + d \in 1..Len(points) /\ live'[i] = points[i + d]

LEMMA AnswerShifts ==
    ASSUME CacheInv, ViewsInv, ShownInv, NEW p \in Polls, PollAnswered(p), live' # live
    PROVE  /\ Usable(polls[p].view)
           /\ \E points, d : /\ Shifted(points, d)
                             /\ points[Len(points)].time = polls[p].view.time
<1> DEFINE x == Point("Live", polls[p].view.time, "live")
           points == Append(live, x)
           d == MaxOf(0, Len(points) - MAX_LIVE_POINTS)
<1>1. Usable(polls[p].view) /\ x \in Points /\ live' = Kept(points)
  BY AnswerIs
<1>2. live \in Seq(Points) /\ Len(live) \in Nat /\ Len(live) <= MAX_LIVE_POINTS
  BY DEF ShownInv
<1> HIDE DEF x
<1>3. /\ points \in Seq(Points) /\ Len(points) = Len(live) + 1 /\ points[Len(points)] = x
      /\ \A k \in 1..Len(live) : points[k] = live[k]
  BY <1>1, <1>2
<1>4. x.time = polls[p].view.time
  BY DEF Point, x
<1> HIDE DEF points
<1>5. d \in {0, 1} /\ (d = 1 => Len(points) = MAX_LIVE_POINTS + 1)
  BY <1>2, <1>3, LiveAssumption DEF MaxOf
<1>6. /\ live' \in Seq(Points) /\ Len(live') = Len(points) - d
      /\ \A i \in 1..Len(live') : i + d \in 1..Len(points) /\ live'[i] = points[i + d]
  BY <1>1, <1>3, KeptLast
<1> HIDE DEF d
<1>7. Shifted(points, d)
  BY <1>3, <1>5, <1>6 DEF Shifted
<1> QED
  BY <1>1, <1>3, <1>4, <1>7

\* The latest price of all is not among those given up.
LEMMA NothingLost ==
    ASSUME WindowCovers, CacheInv, ViewsInv, ShownInv, WindowInv, NEW p \in Polls, PollAnswered(p),
           NEW k \in 1..Len(live)
    PROVE  \E i \in 1..Len(live') : live[k].time <= live'[i].time
<1>0. live \in Seq(Points) /\ Len(live) \in Nat /\ \A i \in 1..Len(live) : live[i].time \in Int
  BY PointTimes DEF ShownInv
<1>1. CASE live' = live
  <2>1. live[k].time <= live[k].time
    BY <1>0
  <2> QED
    BY <1>1, <2>1
<1>2. CASE live' # live
  <2>1. Usable(polls[p].view)
    BY <1>2, AnswerShifts
  <2>2. PICK points, d : Shifted(points, d) /\ points[Len(points)].time = polls[p].view.time
    BY <1>2, AnswerShifts
  <2>3. /\ points \in Seq(Points) /\ Len(points) = Len(live) + 1 /\ Len(points) \in Nat
        /\ points[k] = live[k] /\ d \in {0, 1}
        /\ \A j \in 1..Len(points) : points[j].time \in Int
    BY <1>0, <2>2, PointTimes DEF Shifted
  <2>4. CASE k > d
    <3>1. k - d \in 1..Len(live') /\ (k - d) + d = k
      BY <1>0, <2>2, <2>3, <2>4 DEF Shifted
    <3>2. live'[k - d] = points[k]
      BY <2>2, <3>1 DEF Shifted
    <3>3. live[k].time <= live'[k - d].time
      BY <1>0, <2>3, <3>2
    <3> QED
      BY <3>1, <3>3
  <2>5. CASE ~(k > d)
    <3>1. k = 1 /\ d = 1 /\ Len(points) = MAX_LIVE_POINTS + 1
      BY <2>2, <2>3, <2>5 DEF Shifted
    <3>2. SUFFICES ASSUME \A i \in 1..Len(live') : ~(live[k].time <= live'[i].time)
                   PROVE  FALSE
      OBVIOUS
    <3>3. ASSUME NEW j \in 2..(MAX_LIVE_POINTS + 1)
          PROVE  points[j].time < points[1].time
      <4>1. j - 1 \in 1..Len(live') /\ (j - 1) + d = j /\ j \in 1..Len(points)
        BY <2>2, <3>1, LiveAssumption DEF Shifted
      <4>2. live'[j - 1] = points[j]
        BY <2>2, <4>1 DEF Shifted
      <4> QED
        BY <1>0, <2>3, <3>1, <3>2, <4>1, <4>2
    <3>4. Later(points, 1) = 2..(MAX_LIVE_POINTS + 1)
      BY <3>1, <3>3, LiveAssumption DEF Later
    <3>5. Cardinality(Later(points, 1)) = MAX_LIVE_POINTS
      BY <3>4, FS_Interval, LiveAssumption
    <3>6. 1 \in 1..Len(points) /\ \A i \in 1..Len(live) : points[i] = live[i]
      BY <2>2, <2>3 DEF Shifted
    <3> DEFINE c == Cardinality(InFlight(polls', points[1].time))
               b == Cardinality(Instants(now', polled_at', cached', points[1].time))
    <3>7. Cardinality(Later(points, 1)) + c + b <= Overtaken
      BY <2>1, <2>2, <2>3, <3>6, WindowAppends
    <3>8. c \in Nat /\ b \in Nat
      <4>1. now' \in Int
        BY DEF PollAnswered, CacheInv
      <4> QED
        BY <4>1, CountsFinite, LiveAssumption
    <3>9. Overtaken \in Int /\ Overtaken < MAX_LIVE_POINTS
      BY FS_CardinalityType, LiveAssumption DEF WindowCovers, Overtaken
    <3> HIDE DEF b, c
    <3> QED
      BY <3>5, <3>7, <3>8, <3>9, LiveAssumption
  <2> QED
    BY <2>3, <2>4, <2>5
<1> QED
  BY <1>1, <1>2

\* Every step keeps the bound: an answer only turns what may come into what came.
LEMMA WindowStep ==
    ASSUME WindowCovers, CacheInv, ViewsInv, ShownInv, WindowInv, [Next]_vars
    PROVE  WindowInv'
<1>0. live \in Seq(Points) /\ Len(live) \in Nat
      /\ \A i \in 1..Len(live) : live[i].time \in Int /\ live[i].time <= published
  BY PointTimes DEF ShownInv
<1>1. CASE live' = <<>>
  BY <1>1 DEF WindowInv
<1>2. ASSUME NEW i \in 1..Len(live), Quiet(live[i].time)
      PROVE  Cardinality(Later(live, i)) + Cardinality(InFlight(polls', live[i].time))
               + Cardinality(Instants(now', polled_at', cached', live[i].time)) <= Overtaken
  <2>1. now \in Int /\ now' \in Int
    BY CacheStep DEF CacheInv
  <2> DEFINE m == live[i].time
             a == Cardinality(InFlight(polls, m))    b == Cardinality(Instants(now, polled_at, cached, m))
             c == Cardinality(InFlight(polls', m))   d == Cardinality(Instants(now', polled_at', cached', m))
             e == Cardinality(Later(live, i))
  <2>2. a \in Int /\ b \in Int /\ c \in Int /\ d \in Int /\ e \in Int
    <3>1. a \in Int /\ b \in Int /\ c \in Int /\ d \in Int
      BY <2>1, CountsFinite, LiveAssumption
    <3>2. e \in Int
      BY <1>0, LaterFinite
    <3> QED
      BY <3>1, <3>2
  <2>3. e + a + b <= Overtaken
    BY DEF WindowInv
  <2>4. c + d <= a + b
    BY <1>2 DEF Quiet
  <2>5. Overtaken \in Int
    BY FS_CardinalityType, LiveAssumption DEF WindowCovers, Overtaken
  <2> HIDE DEF a, b, c, d, e
  <2>6. e + c + d <= Overtaken
    BY <2>2, <2>3, <2>4, <2>5
  <2> QED
    BY <2>6 DEF c, d, e
<1>3. CASE live' = live /\ \A time \in Int : time <= published => Quiet(time)
  BY <1>0, <1>2, <1>3 DEF WindowInv
<1>4. ASSUME NEW p \in Polls, PollAnswered(p) PROVE WindowInv'
  <2>1. UNCHANGED <<now, polled_at, cached>> /\ DOMAIN polls = Polls /\ polls' = [polls EXCEPT ![p] = Idle]
    BY <1>4 DEF PollAnswered, CacheInv
  <2>2. CASE live' = live
    <3>1. ASSUME NEW time PROVE Quiet(time)
      <4>1. InFlight(polls', time) \subseteq InFlight(polls, time)
        BY <2>1 DEF InFlight, Idle
      <4>2. now \in Int /\ now' \in Int
        BY <2>1 DEF CacheInv
      <4> QED
        BY <2>1, <4>1, <4>2, QuietSubset
    <3> QED
      BY <1>3, <2>2, <3>1
  <2>3. CASE live' # live
    <3>1. Usable(polls[p].view)
      BY <1>4, <2>3, AnswerShifts
    <3>2. PICK points, d : Shifted(points, d) /\ points[Len(points)].time = polls[p].view.time
      BY <1>4, <2>3, AnswerShifts
    <3>3. SUFFICES ASSUME NEW i \in 1..Len(live')
                   PROVE  Cardinality(Later(live', i)) + Cardinality(InFlight(polls', live'[i].time))
                            + Cardinality(Instants(now', polled_at', cached', live'[i].time)) <= Overtaken
      BY DEF WindowInv
    <3>4. i + d \in 1..Len(points) /\ live'[i] = points[i + d] /\ points \in Seq(Points) /\ live' \in Seq(Points)
      BY <3>2 DEF Shifted
    <3> DEFINE c == Cardinality(InFlight(polls', points[i + d].time))
               b == Cardinality(Instants(now', polled_at', cached', points[i + d].time))
               L == Later(live', i)
               M == Later(points, i + d)
    <3>5. Cardinality(M) + c + b <= Overtaken
      BY <1>4, <3>1, <3>2, <3>4, WindowAppends DEF Shifted
    <3>6. IsFiniteSet(M) /\ Cardinality(M) \in Int /\ Cardinality(L) \in Int
      BY <3>4, LaterFinite
    <3>7. Cardinality(L) <= Cardinality(M)
      <4> DEFINE f == [j \in L |-> j + d]
      <4>1. d \in Int /\ i \in Int /\ Len(points) \in Int /\ Len(live') = Len(points) - d
        BY <3>2, <3>4 DEF Shifted
      <4>2. ASSUME NEW j \in L PROVE j \in Int /\ j + d \in M
        <5>1. j \in (i + 1)..Len(live') /\ live'[j].time < live'[i].time
          BY DEF Later
        <5>2. j \in 1..Len(live')
          BY <4>1, <5>1, <3>3
        <5>3. live'[j] = points[j + d] /\ j + d \in (i + d + 1)..Len(points)
          BY <3>2, <4>1, <5>1, <5>2 DEF Shifted
        <5> QED
          BY <3>4, <5>1, <5>3 DEF Later
      <4> HIDE DEF L, M
      <4>3. f \in Injection(L, M)
        BY <4>1, <4>2 DEF Injection, IsInjective
      <4> QED
        BY <3>6, <4>3, FS_Injection
    <3>8. c \in Int /\ b \in Int /\ Overtaken \in Int
      <4>1. now' \in Int
        BY <2>1 DEF CacheInv
      <4>2. Overtaken \in Int
        BY FS_CardinalityType, LiveAssumption DEF WindowCovers, Overtaken
      <4> QED
        BY <4>1, <4>2, CountsFinite, LiveAssumption
    <3> HIDE DEF c, b, L, M
    <3>9. Cardinality(L) + c + b <= Overtaken
      BY <3>5, <3>6, <3>7, <3>8
    <3> QED
      BY <3>4, <3>9 DEF c, b, L
  <2> QED
    BY <2>2, <2>3
<1>5. CASE OpenHome \/ \E view \in Readings : OpenMatch(view)
  BY <1>1, <1>5 DEF OpenHome, OpenMatch
<1> QED
  BY <1>3, <1>4, <1>5, QuietStep

\* The step by which the chart changes.
ForwardNow ==
    page' = "match" /\ <<props, live>>' # <<props, live>> =>
        \E shown \in {series'} :
        /\ ForwardOnAxis(shown)
        /\ page = "match" /\ props' = props => latest(series).time <= latest(shown).time

\* A step that changes the chart draws it forward, and leaves its latest price or a later one.
LEMMA ForwardStep ==
    ASSUME WindowCovers, CacheInv, ViewsInv, ShownInv, WindowInv, ShownInv', [Next]_vars
    PROVE  ForwardNow
<1> SUFFICES ASSUME page' = "match"
             PROVE  /\ ForwardOnAxis(series')
                    /\ page = "match" /\ props' = props => latest(series).time <= latest(series').time
  BY DEF ForwardNow
<1> DEFINE is == props'.points \o live'
<1>1. OpensWithStart(is) /\ series' = ByTime(is)
  <2>1. OpensWithStart(props'.points) /\ OfMatch(live')
    BY DEF ShownInv, OfMatch
  <2> QED
    BY <2>1, OpensConcat DEF series
<1> HIDE DEF is
<1>2. ForwardOnAxis(series')
  BY <1>1, DrawnForward
<1>3. ASSUME page = "match", props' = props PROVE latest(series).time <= latest(series').time
  <2> DEFINE was == props.points \o live
  <2>1. OpensWithStart(was) /\ series = ByTime(was)
    <3>1. OpensWithStart(props.points) /\ OfMatch(live)
      BY <1>3 DEF ShownInv, OfMatch
    <3> QED
      BY <3>1, OpensConcat DEF series
  <2>2. /\ props.points \in Seq(Points) /\ Len(props.points) \in Nat
        /\ live \in Seq(Points) /\ live' \in Seq(Points) /\ Len(live') \in Nat
        /\ was \in Seq(Points) /\ is \in Seq(Points)
    BY <1>1, <1>3, <2>1 DEF ShownInv, OpensWithStart, OfMatch
  <2>3. ASSUME NEW k \in 1..Len(live)
        PROVE  \E i \in 1..Len(live') : live[k].time <= live'[i].time
    <3>1. CASE live' = live
      <4>1. live[k].time \in Int
        BY <2>2, PointTimes
      <4>2. live[k].time <= live[k].time
        BY <4>1
      <4> QED
        BY <3>1, <4>2
    <3>2. CASE \E p \in Polls : PollAnswered(p)
      BY <3>2, NothingLost
    <3> QED
      BY <1>3, <3>1, <3>2, QuietStep DEF OpenMatch, OpenHome
  <2>4. ASSUME NEW k \in 1..Len(was)
        PROVE  \E i \in 1..Len(is) : was[k].time <= is[i].time
    <3>1. CASE k <= Len(props.points)
      <4>1. k \in 1..Len(is) /\ is[k] = was[k]
        BY <1>3, <2>2, <3>1 DEF is
      <4>2. was[k].time <= was[k].time
        <5>1. was[k].time \in Int
          BY <2>2, PointTimes
        <5> QED
          BY <5>1
      <4> QED
        BY <4>1, <4>2
    <3>2. CASE ~(k <= Len(props.points))
      <4> DEFINE n == Len(props.points)
      <4>1. k - n \in 1..Len(live) /\ was[k] = live[k - n]
        BY <2>2, <3>2
      <4>2. PICK i \in 1..Len(live') : live[k - n].time <= live'[i].time
        BY <2>3, <4>1
      <4>3. i + n \in 1..Len(is) /\ is[i + n] = live'[i]
        BY <1>3, <2>2 DEF is
      <4> QED
        BY <4>1, <4>2, <4>3
    <3> QED
      BY <3>1, <3>2
  <2> HIDE DEF was
  <2>5. PICK k \in 1..Len(was) : latest(series) = was[k]
    BY <2>1, SeriesEnds DEF latest
  <2>6. PICK i \in 1..Len(is) : was[k].time <= is[i].time
    BY <2>4
  <2>7. is[i].time <= latest(series').time
    BY <1>1, SeriesEnds DEF latest
  <2>8. was[k].time \in Int /\ is[i].time \in Int
    BY <2>2, PointTimes
  <2>9. latest(series').time \in Int
    <3>1. PICK j \in 1..Len(is) : latest(series') = is[j]
      BY <1>1, SeriesEnds DEF latest
    <3> QED
      BY <2>2, <3>1, PointTimes
  <2> QED
    BY <2>5, <2>6, <2>7, <2>8, <2>9
<1> QED
  BY <1>2, <1>3

(***************************************************************************)
(* The chart runs forward: it begins with the start of its match, keeps    *)
(* to its axis, its line never doubles back, and the price it calls the    *)
(* latest never goes back while the page shows the same account, for any   *)
(* number of servers and fetches that overtake one another, as long as     *)
(* the list has room for more prices than can be overtaken at once         *)
(* (benchmark-chart.tsx:41-76, 134-146, 218-277).                          *)
(***************************************************************************)
THEOREM ChartForward == ASSUME WindowCovers PROVE Spec => ChartRunsForward
<1> DEFINE Inv == CacheInv /\ AccountInv /\ ViewsInv /\ ShownInv /\ WindowInv
<1>1. Init => Inv
  <2> SUFFICES ASSUME Init PROVE Inv
    OBVIOUS
  <2>1. CacheInv
    BY LiveAssumption DEF Init, CacheInv, Entries, Views, View, isStale, FreshWhenRead, Usable
  <2>2. AccountInv
    BY DEF Init, AccountInv, None
  <2>3. ShownInv /\ WindowInv
    BY LiveAssumption DEF Init, ShownInv, WindowInv
  <2>4. ViewsInv
    <3>1. \A s \in Servers : cached[s].at <= now /\ cached[s].view = View(StartTime - 1)
      BY LiveAssumption DEF Init
    <3>2. Known(View(StartTime - 1))
      BY LiveAssumption DEF Init, Known, View, isStale, Views
    <3>3. \A p \in Polls : polls[p] = Idle
      BY DEF Init
    <3> QED
      BY <3>1, <3>2, <3>3 DEF ViewsInv, Idle
  <2> QED
    BY <2>1, <2>2, <2>3, <2>4
<1>2. Inv /\ [Next]_vars => Inv' /\ ForwardNow
  BY CacheStep, AccountStep, ViewsStep, ShownStep, WindowStep, ForwardStep
<1> QED
  BY <1>1, <1>2, PTL DEF Spec, ChartRunsForward, ForwardNow

=============================================================================
