----------------------------- MODULE PlayerActions -----------------------------
(***************************************************************************)
(* What the match screen shows for the account modelled in MatchEscrow:    *)
(* the buttons of apps/web/src/lib/player-actions.ts and the sentences of  *)
(* apps/web/src/lib/match-status.ts, both pure functions of the account    *)
(* and the clock, and the form that creates it (MatchForm).  The           *)
(* properties compare them, and the transactions built behind them         *)
(* (MatchTransactions), with what the program accepts in the same state.   *)
(***************************************************************************)
EXTENDS MatchTransactions, MatchForm, FiniteSets

CONSTANTS
    Forms,           \* what the challenge form may hold: see MatchForm
    UpstreamPrices   \* what the price services may name

\* Every Arena is made for the one benchmark and quote mint of config/arenas.json.
OneBenchmark(a, b) ==
    /\ Benchmark[a].feed = Benchmark[b].feed
    /\ Benchmark[a].exponent = Benchmark[b].exponent
    /\ Benchmark[a].quote = Benchmark[b].quote

(***************************************************************************)
(* A form names both sides, in whatever text.  The minimum the program     *)
(* applies is that of the mints' decimals, of which an Arena may have any  *)
(* number.                                                                 *)
(***************************************************************************)
ASSUME FormAssumption ==
    /\ QUOTE_DECIMALS \in Nat /\ U64_MAX \in Nat
    /\ \A a \in Assets :
         /\ Decimals[a] \in Nat
         /\ MinStake[a] = min_stake_amount(Decimals[a])
    /\ \A f \in Forms :
         /\ f.arena \in [Sides -> Assets] /\ f.profile \in Kinds
         /\ DOMAIN f.stake = Sides
         /\ \A s \in Sides : IsText(f.stake[s]) /\ IsText(f.price[s])
         /\ OneBenchmark(f.arena["creator"], f.arena["challenger"])
    /\ \A t \in UpstreamPrices : IsText(t)
    /\ loadArenaOptions \subseteq Assets
    /\ \A d, e \in playableArenas : d.devnetTestMint = e.devnetTestMint => d = e

Buttons == {"join", "cancel", "refundFailed", "markOracleFailure", "refundTie",
            "claim", "exercise", "reclaim"}

Plays(w, s) == w = player[s]

\* ownDeposit && !refunded
canWithdraw(w) == \E s \in Sides : Plays(w, s) /\ deposit[s] > 0 /\ ~refunded[s]

\* Seeded bug: reclaim waits until somebody else has moved the state.
ReclaimOnceExpired(w) ==
    state = "OptionExpired" /\ canWithdraw(w) /\ \E s \in Sides : Plays(w, s) /\ s # winner

offersExercise(w) ==
    /\ state = "WinnerOptionOpen"
    /\ now <= option_expiry_ts
    /\ \E s \in Sides : Plays(w, s) /\ s = winner

offersReclaim(w) ==
    /\ state = "WinnerOptionOpen"
    /\ now > option_expiry_ts
    /\ canWithdraw(w)
    /\ \E s \in Sides : Plays(w, s) /\ s # winner

offersRefundFailed(w) ==
    /\ canWithdraw(w)
    /\ \/ state = "Ready" /\ now > activation_deadline_ts
       \/ state = "FailureRefundable"

offersClaim(w) ==
    /\ state \in {"WinnerOptionOpen", "OptionExercised", "OptionExpired"}
    /\ \E s \in Sides : Plays(w, s) /\ s = winner
    /\ ~winner_stake_claimed

availableActions(w) ==
    {b \in Buttons :
        \/ b = "cancel" /\ state = "Open" /\ Plays(w, "creator")
        \/ b = "join" /\ state = "Open" /\ ~Plays(w, "creator") /\ now <= join_deadline_ts
        \/ b = "refundFailed" /\ offersRefundFailed(w)
        \/ b = "markOracleFailure" /\ state = "Active" /\ canWithdraw(w)
                                   /\ now > settlement_deadline_ts
        \/ b = "refundTie" /\ state = "TieRefundable" /\ canWithdraw(w)
        \/ b = "claim" /\ offersClaim(w)
        \/ b = "exercise" /\ offersExercise(w)
        \/ b = "reclaim" /\ offersReclaim(w)}

-----------------------------------------------------------------------------
(***************************************************************************)
(* Whether the transaction behind a button would succeed now.  The         *)
(* markOracleFailure button sends the mark and the refund as one atomic    *)
(* transaction (refundTx).                                                 *)
(***************************************************************************)
Accepts(w, b) ==
    CASE b = "join" -> CanJoin(w)
      [] b = "cancel" -> CanCancel(w)
      [] b = "refundFailed" -> \E s \in Sides : CanRefundFailed(w, s)
      [] b = "markOracleFailure" ->
           CanMarkOracleFailure /\ \E s \in Sides : CanSettleRefund(w, s)
      [] b = "refundTie" -> \E s \in Sides : CanRefundTie(w, s)
      [] b = "claim" -> \E s \in Sides : CanClaim(w, s)
      [] b = "exercise" -> \E s \in Sides : CanExercise(w, s)
      [] b = "reclaim" -> \E s \in Sides : CanReclaim(w, s)

\* What availableActions does not look at: the wallet's balances.
Affords(w, b) ==
    CASE b = "join" -> wallet[w][terms.arena["challenger"]] >= terms.stake["challenger"]
      [] b = "exercise" -> quote[w] >= terms.strike[Other(winner)]
      [] OTHER -> TRUE

-----------------------------------------------------------------------------
(***************************************************************************)
(* matchStatus: which sentence is shown, named by its label.               *)
(***************************************************************************)
\* Seeded bug: a round is counted from the second after it is due.
RoundAfterDue == Cardinality({r \in Rounds : round_due_ts[r] > 0 /\ now > round_due_ts[r]})

currentRound == Cardinality({r \in Rounds : round_due_ts[r] > 0 /\ now >= round_due_ts[r]})

matchStatus ==
    CASE state = "Open" ->
           IF now <= join_deadline_ts THEN "Waiting for opponent" ELSE "Join window closed"
      [] state = "Ready" ->
           IF now <= activation_deadline_ts THEN "Starting" ELSE "Did not start"
      [] state = "Active" ->
           IF now > settlement_deadline_ts THEN "Settlement missed"
           ELSE IF now >= target_end_ts THEN "Settling" ELSE "Live"
      [] state = "WinnerOptionOpen" ->
           IF now > option_expiry_ts THEN "option expired" ELSE "won"
      [] state = "TieRefundable" -> "Tie"
      [] state = "FailureRefundable" -> "Match failed"
      [] OTHER -> state

\* The round named by the "Live" label.
liveRound == IF currentRound = 0 THEN 1 ELSE currentRound

\* What the status counts down to, if anything; MatchClock shows it.
countdown ==
    CASE matchStatus = "Waiting for opponent" -> <<"Join", join_deadline_ts>>
      [] matchStatus = "Starting" -> <<"Start", activation_deadline_ts>>
      [] matchStatus = "Live" -> <<"Final", target_end_ts>>
      [] matchStatus = "Settling" -> <<"Settle", settlement_deadline_ts>>
      [] matchStatus = "won" -> <<"Option", option_expiry_ts>>
      [] OTHER -> <<"none", 0>>

\* The dates in the technical details of the match page.
TechnicalDetails ==
    IF start_ts > 0
    THEN {<<"Final", target_end_ts>>, <<"Settle", settlement_deadline_ts>>,
          <<"Option", option_expiry_ts>>} \cup {<<"Round", round_due_ts[r]>> : r \in Rounds}
    ELSE {<<"Join", join_deadline_ts>>, <<"Start", activation_deadline_ts>>}

\* The stake of a side as the page prices it for the winner.
strikeShown(s) == formatAmount(terms.strike[s], QUOTE_DECIMALS)

-----------------------------------------------------------------------------
(***************************************************************************)
(* No player is invited to sign a transaction that must fail               *)
(* (player-actions.ts:1-4): the state accepts it, apart from a wallet that *)
(* cannot pay and from a paused protocol, which availableActions does not  *)
(* look at, and the accounts built into it are those the instruction wants *)
(* also when the two stakes are different tokens (transactions.ts).        *)
(***************************************************************************)
OfferedActionsSucceed ==
    state # "Absent" =>
      \A w \in Players : \A b \in availableActions(w) :
        /\ BuiltTxFits(w, b)
        /\ Affords(w, b) /\ (b = "join" => ~paused) => Accepts(w, b)

(***************************************************************************)
(* Every transaction by which a player could move tokens right now has its *)
(* button, so nobody's money depends on leaving the web application.       *)
(***************************************************************************)
AcceptedActionsAreOffered ==
    state # "Absent" =>
      \A w \in Players : \A b \in Buttons : Accepts(w, b) => b \in availableActions(w)

(***************************************************************************)
(* What the status sentences promise holds of the program: a promised      *)
(* refund is accepted from every player who has not had it, a "Live" round *)
(* is the one whose predictions are accepted, the option is open or the    *)
(* stake reclaimable as stated, and for exactly the price shown, a closed  *)
(* join window leaves the creator's cancellation, and what is counted down *)
(* to lies ahead and is among the dates of the technical details           *)
(* (match-status.ts, match/[pda]/page.tsx:206-357).                        *)
(***************************************************************************)
RefundPromised == matchStatus \in {"Did not start", "Settlement missed", "Tie", "Match failed"}

StatusPromisesHold ==
    /\ RefundPromised =>
         \A s \in Sides : deposit[s] > 0 =>
           \E b \in {"refundFailed", "markOracleFailure", "refundTie"} : Accepts(player[s], b)
    /\ matchStatus = "Live" => \A r \in Rounds : InWindow(r) <=> r + 1 = liveRound
    /\ matchStatus = "Join window closed" =>
         /\ Accepts(player["creator"], "cancel")
         /\ \A w \in Players : ~Accepts(w, "join")
    /\ matchStatus = "won" =>
         Accepts(player[winner], "exercise") <=>
           quote[player[winner]] >= parseAmount(strikeShown(Other(winner)), QUOTE_DECIMALS)
    /\ matchStatus = "option expired" => Accepts(player[Other(winner)], "reclaim")
    /\ countdown[1] # "none" => countdown[2] >= now /\ countdown \in TechnicalDetails

(***************************************************************************)
(* Of the forms whose numbers can be read, create_match accepts exactly    *)
(* those without a complaint, but for what the form does not look at: a    *)
(* wallet that cannot pay, a pause, the configured durations, amounts over *)
(* a u64, which no transaction carries, and mints of less than two         *)
(* decimals, for which minStake is 0 and min_stake_amount an error         *)
(* (format.ts:47-49, state.rs:20-28).  What the review shows is what was   *)
(* typed and what is signed: the stakes as entered and strikes at most one *)
(* unit below price times stake.  A price the page fills in is that of the *)
(* very token beside it, also after the token was changed, whichever       *)
(* service had it, and never above it; without one the field is left blank *)
(* (create-match-form.tsx, arena page, match_setup).                       *)
(***************************************************************************)
CreateAccepts(w, t) ==
    /\ encodes(t)
    /\ CanCreate(w, t)
    /\ CreateFits(createMatchTx(w, t.arena))

Readable(f) == \A s \in Sides : stakeOf(f, s) # Null /\ priceOf(f, s) # Null

Creatable(w, t) ==
    /\ ~paused
    /\ config.min_duration_seconds <= Profile[t.profile_kind].duration_seconds
    /\ Profile[t.profile_kind].duration_seconds <= config.max_duration_seconds
    /\ wallet[w][t.arena["creator"]] >= t.stake["creator"]
    /\ encodes(t)
    /\ \A s \in Sides : Decimals[t.arena[s]] >= 2

ReviewIsHonest(f, s) ==
    LET whole == pow10[Decimals[f.arena[s]]]
        exact == stakeOf(f, s) * priceOf(f, s)   \* the strike times a whole token
        shown == reviewed(f).strike[s]
    IN  /\ SameNumber(reviewed(f).stake[s], f.stake[s])
        /\ parseAmount(shown, QUOTE_DECIMALS) = strikeOf(f, s)
        /\ strikeOf(f, s) * whole \in (exact - whole + 1)..exact

\* A side filled in names no more than what its own token costs, and less by no unit.
PrefillIsOwn(f, s, up) ==
    LET raw == upstreamPrice(f.arena[s], up)
        exact == (raw.whole * pow10[raw.places] + raw.fraction) * pow10[QUOTE_DECIMALS]
    IN  IF raw.plain
        THEN /\ priceOf(f, s) # Null
             /\ priceOf(f, s) * pow10[raw.places] \in (exact - pow10[raw.places] + 1)..exact
        ELSE priceOf(f, s) = Null

\* The form as the page opens it, and after the opponent's token was chosen.
Prefilled(own, k, up) ==
    {initialForm(own, k, up)}
      \cup {setOpponent(initialForm(own, k, up), a, up) : a \in loadArenaOptions}

FormsAreAccepted ==
    state = "Absent" =>
      /\ \A f \in Forms : Readable(f) =>
           /\ parses(f) => \A s \in Sides : ReviewIsHonest(f, s)
           /\ \A w \in Players :
                CreateAccepts(w, parseTerms(f)) <=> parses(f) /\ Creatable(w, parseTerms(f))
      /\ \A up \in Upstreams(UpstreamPrices), own \in loadArenaOptions, k \in Kinds :
           \A f \in Prefilled(own, k, up) : \A s \in Sides :
             PrefillIsOwn(f, s, up) /\ (parses(f) => ReviewIsHonest(f, s))

=============================================================================
