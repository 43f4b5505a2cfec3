------------------------------- MODULE MatchForm -------------------------------
(***************************************************************************)
(* The numbers of the challenge form: what create-match-form.tsx makes of  *)
(* the decimals typed into it and what its review shows of them before the *)
(* player signs; and what the Arena page fills in beforehand, from the     *)
(* registry and the price services.                                        *)
(***************************************************************************)
EXTENDS DecimalText

CONSTANTS
    Decimals,        \* [stake Arenas -> Nat]: of the asset mints
    QUOTE_DECIMALS,  \* of the quote mint
    U64_MAX,         \* the largest amount an instruction can carry
    Registry         \* the entries of config/arenas.json

\* min_stake_amount of the program.  It is an error below two decimals and where the minimum
\* is no u64, which is a minimum that no amount reaches.
min_stake_amount(decimals) ==
    IF decimals >= 2 /\ 5 * pow10[decimals - 2] <= U64_MAX THEN 5 * pow10[decimals - 2]
    ELSE U64_MAX + 1

-----------------------------------------------------------------------------
(***************************************************************************)
(* parseTerms.  A form holds, for each side, the Arena, the stake and the  *)
(* price per whole token; its terms are the amounts and their strikes.     *)
(***************************************************************************)
stakeOf(form, side) == parseAmount(form.stake[side], Decimals[form.arena[side]])
priceOf(form, side) == parseAmount(form.price[side], QUOTE_DECIMALS)
strikeOf(form, side) ==
    strikeFor(stakeOf(form, side), Decimals[form.arena[side]], priceOf(form, side))

parses(form) ==
    \A side \in DOMAIN form.stake :
        /\ stakeOf(form, side) # Null
        /\ stakeOf(form, side) >= minStake(Decimals[form.arena[side]])
        /\ priceOf(form, side) # Null
        /\ strikeOf(form, side) # 0

parseTerms(form) ==
    [arena |-> form.arena,
     stake |-> [side \in DOMAIN form.stake |-> stakeOf(form, side)],
     strike |-> [side \in DOMAIN form.stake |-> strikeOf(form, side)],
     profile_kind |-> form.profile]

\* bn() and the encoder of the instruction: the form's bigints go into eight bytes each, and a
\* larger one throws, so that there is no transaction to sign.
encodes(terms) ==
    \A side \in DOMAIN terms.stake : terms.stake[side] <= U64_MAX /\ terms.strike[side] <= U64_MAX

\* What the review names: the deposits and strikes as decimals.
reviewed(form) ==
    [stake |-> [side \in DOMAIN form.stake |->
                    formatAmount(parseTerms(form).stake[side], Decimals[form.arena[side]])],
     strike |-> [side \in DOMAIN form.stake |->
                    formatAmount(parseTerms(form).strike[side], QUOTE_DECIMALS)]]

-----------------------------------------------------------------------------
(***************************************************************************)
(* The Arena page.  An entry of the registry has a symbol, an issuer, and  *)
(* two mints, "" until a setup script resolves them; an Arena is known by  *)
(* its devnet mint and, once created, is active.  A price service that     *)
(* cannot be reached has no prices at all.                                 *)
(***************************************************************************)
playableArenas ==
    {e \in Registry : e.enabled /\ e.mainnetMint # "" /\ e.devnetTestMint # ""}
loadArenaOptions == {e.devnetTestMint : e \in playableArenas}

entryOf(arena) == CHOOSE e \in playableArenas : e.devnetTestMint = arena

\* PreStocks by symbol; Jupiter by mainnet mint, asked for the xStocks only.
Upstreams(prices) ==
    LET mints == {e.mainnetMint : e \in {x \in Registry : x.issuer = "xstocks"}} \ {""}
        partial(keys) == UNION {[some -> prices] : some \in SUBSET keys}
    IN  [prestocks : partial({e.symbol : e \in Registry}), jupiter : partial(mints)]

upstreamPrice(arena, up) ==
    LET e == entryOf(arena) IN
    IF e.symbol \in DOMAIN up.prestocks THEN up.prestocks[e.symbol]
    ELSE IF e.mainnetMint \in DOMAIN up.jupiter THEN up.jupiter[e.mainnetMint]
    ELSE NotADecimal

Blank == NotADecimal
referencePrice(arena, up) ==
    LET raw == upstreamPrice(arena, up)
    IN  IF raw.plain THEN truncateDecimal(raw, QUOTE_DECIMALS) ELSE Blank

\* useState: one whole token of the page's own Arena against the same.
initialForm(own, profile, up) ==
    [arena |-> [side \in {"creator", "challenger"} |-> own],
     stake |-> [side \in {"creator", "challenger"} |-> Decimal(1, 0, 0)],
     price |-> [side \in {"creator", "challenger"} |-> referencePrice(own, up)],
     profile |-> profile]

\* Seeded bug: the price stays when the token goes.
KeepsPrice(form, arena, up) == [form EXCEPT !.arena["challenger"] = arena]
setOpponent(form, arena, up) ==
    [form EXCEPT !.arena["challenger"] = arena, !.price["challenger"] = referencePrice(arena, up)]

=============================================================================
