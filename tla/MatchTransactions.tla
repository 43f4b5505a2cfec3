--------------------------- MODULE MatchTransactions ---------------------------
(***************************************************************************)
(* The transactions a browser builds for a match (lib/transactions.ts) and *)
(* the account constraints the program puts on them.  MatchEscrow states   *)
(* what a handler does to the match; here are the Arena, mint, vault and   *)
(* token accounts each instruction names, which the browser derives from   *)
(* its copy of the match and the signer.  An Arena stands for its asset    *)
(* mint, so a mint that is not its Arena's cannot be named.                *)
(***************************************************************************)
EXTENDS MatchEscrow

\* The associated token account of an owner for a mint; a vault is the match PDA's.
ata(owner, mint) == [owner |-> owner, mint |-> mint]
vaultFor(mint) == ata("match", mint)

stakeSide(a, owner) ==
    [arena |-> a, mint |-> a, quoteMint |-> Benchmark[a].quote, ownerAccount |-> ata(owner, a)]

\* Seeded bug: every payout goes through the Arena the match was created on.
CreatorsArena(w) == terms.arena["creator"]

arenaOf(w) == terms.arena[IF w = player["creator"] THEN "creator" ELSE "challenger"]

ownStake(w) == stakeSide(arenaOf(w), w)

\* Every instruction that returns w's own deposit, whatever its name.
OwnDepositTx(w) ==
    [signer |-> w, arena |-> ownStake(w).arena, mint |-> ownStake(w).mint,
     vault |-> vaultFor(ownStake(w).mint), account |-> ownStake(w).ownerAccount]

createMatchTx(w, arenas) ==
    LET own == stakeSide(arenas["creator"], w)
        other == stakeSide(arenas["challenger"], w)
    IN  [signer |-> w, arena |-> own.arena, challenger_arena |-> other.arena,
         mint |-> own.mint, challenger_mint |-> other.mint,
         vault |-> vaultFor(own.mint), account |-> own.ownerAccount]

joinMatchTx(w) ==
    LET side == stakeSide(terms.arena["challenger"], w)
    IN  [signer |-> w, arena |-> terms.arena["creator"], challenger_arena |-> side.arena,
         mint |-> side.mint, vault |-> vaultFor(side.mint), account |-> side.ownerAccount]

\* The loser is whoever of the two the signer is not.
exerciseTx(w) ==
    LET loser == player[IF w = player["creator"] THEN "challenger" ELSE "creator"]
        side == ownStake(loser)
    IN  [signer |-> w, loser |-> loser, arena |-> side.arena, mint |-> side.mint,
         vault |-> vaultFor(side.mint), account |-> ata(w, side.mint),
         quote_mint |-> side.quoteMint,
         payer |-> ata(w, side.quoteMint), payee |-> ata(loser, side.quoteMint)]

-----------------------------------------------------------------------------
(***************************************************************************)
(* The #[account] constraints and the handlers' checks of what was named.  *)
(***************************************************************************)
\* Match::stake_arena; it is an error for anybody but the two players.
stake_arena(p) == terms.arena[IF p = player["creator"] THEN "creator" ELSE "challenger"]

\* The token accounts: the asset of the named Arena, paid from or into the vault.
AssetAccounts(tx, mint) ==
    /\ tx.mint = mint
    /\ tx.account = ata(tx.signer, mint)
    /\ tx.vault = ata("match", mint)

\* RefundDeposit, ClaimWinnerStake, ReclaimAfterOptionExpiry.
OwnDepositFits(tx) ==
    /\ \E s \in Sides : tx.signer = player[s]
    /\ tx.arena = stake_arena(tx.signer)
    /\ AssetAccounts(tx, tx.arena)

CreateFits(tx) ==
    /\ Benchmark[tx.challenger_arena].feed = Benchmark[tx.arena].feed
    /\ tx.challenger_mint = tx.challenger_arena
    /\ AssetAccounts(tx, tx.arena)

JoinFits(tx) ==
    /\ tx.arena = terms.arena["creator"]
    /\ tx.challenger_arena = terms.arena["challenger"]
    /\ AssetAccounts(tx, tx.challenger_arena)

CancelFits(tx) ==
    /\ tx.signer = player["creator"]
    /\ tx.arena = terms.arena["creator"]
    /\ AssetAccounts(tx, tx.arena)

ExerciseFits(tx) ==
    /\ winner \in Sides
    /\ tx.loser = player[Other(winner)]
    /\ tx.arena = stake_arena(tx.loser)
    /\ AssetAccounts(tx, tx.arena)
    /\ tx.quote_mint = Benchmark[tx.arena].quote
    /\ tx.payer = ata(tx.signer, tx.quote_mint)
    /\ tx.payee = ata(tx.loser, tx.quote_mint)

(***************************************************************************)
(* The transaction behind a button names the accounts its program          *)
(* instruction wants.  MatchActions (act) chooses the builder; the         *)
(* oracle-failure mark names no account but the match.                     *)
(***************************************************************************)
BuiltTxFits(w, button) ==
    CASE button = "join" -> JoinFits(joinMatchTx(w))
      [] button = "cancel" -> CancelFits(OwnDepositTx(w))
      [] button = "exercise" -> ExerciseFits(exerciseTx(w))
      [] OTHER -> OwnDepositFits(OwnDepositTx(w))

=============================================================================
