---------------------- MODULE MCTransactionLifecycle ----------------------
(* Instances of TransactionLifecycle for TLC: what the adapters may answer. *)
EXTENDS TransactionLifecycle, TLC

CONSTANTS b1, b2

Obs(st, b, c) == [st |-> st, block |-> b, conf |-> c]

\* The answers the polls of one transaction race about: a block at depth one
\* and two, and a second one the transaction may move to; finality is at two.
\* ("replaced" and "expired" end a transaction as "failed" does, and "duplicate"
\* changes no status.)
PollEvidence ==
    {Obs(st, NoBlock, 0) : st \in {"not_found", "pending", "failed", "provider_disagreement"}} \cup
    {Obs("included", b1, 1), Obs("included", b1, 2), Obs("included", b2, 2)}

\* Hashes, submitters and pollers are interchangeable.
Symmetric == Permutations(Hashes) \cup Permutations(Submitters) \cup Permutations(Pollers)

=============================================================================
