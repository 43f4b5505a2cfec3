-------------------------- MODULE StrategyCommitment --------------------------
(***************************************************************************)
(* A strategy from the text a player types to the 32 bytes the chain       *)
(* keeps, the row that is stored under those bytes, and what a reader of   *)
(* the row makes of it.  sha256 is the record of what it hashes: equal     *)
(* commitments mean equal match, player, salt and text.                    *)
(***************************************************************************)
EXTENDS Naturals

CONSTANTS
    Matches, Wallets,
    Salts,              \* 1..n: the salts in the order they are drawn, n clicks in all
    Texts,              \* what a player may type
    Normal,             \* [Texts -> Texts]: NFKC, CRLF folded, trimmed
    Blank,              \* texts that trim to nothing
    LongAsTyped,        \* texts of too many bytes as typed
    LongOnceNormal      \* texts of too many bytes after normalization

ASSUME StrategyAssumption ==
    /\ Normal \in [Texts -> Texts]
    /\ \A x \in Texts : Normal[Normal[x]] = Normal[x]
    /\ Blank \subseteq Texts /\ LongAsTyped \subseteq Texts /\ LongOnceNormal \subseteq Texts

Commitments == [match : Matches, player : Wallets, salt : Salts, text : Texts]

\* normalizeStrategy throws for an empty text and for one over MAX_STRATEGY_BYTES.
normalizes(x) == x \notin Blank \cup LongOnceNormal

computeCommitment(match, player, salt, text) ==
    [match |-> match, player |-> player, salt |-> salt, text |-> Normal[text]]

\* Rows: what is stored under a commitment, with the wallet the row names.
Rows == [strategy : Texts, salt : Salts, playerWallet : Wallets, matchPda : Matches]

RowFor(c) ==
    [strategy |-> c.text, salt |-> c.salt, playerWallet |-> c.player, matchPda |-> c.match]

\* What a row hashes to for the match and player it is read for.
recomputed(row, match, player) == computeCommitment(match, player, row.salt, row.strategy)

\* Seeded bug: the stored text is taken as it is.
loadStoredStrategy(rows, commitment, match, player) ==
    IF commitment \in DOMAIN rows THEN rows[commitment].strategy ELSE "missing"
\* loadVerifiedStrategy: no row is "missing", a row that hashes to something else throws.
loadVerifiedStrategy(rows, commitment, match, player) ==
    CASE commitment \notin DOMAIN rows -> "missing"
      [] recomputed(rows[commitment], match, player) # commitment -> "mismatch"
      [] OTHER -> rows[commitment].strategy

=============================================================================
