----------------------------- MODULE MCBatchQueue -----------------------------
(* Instance of BatchQueue for TLC. *)
EXTENDS BatchQueue

\* L1 blocks 2 apart, then 3.
MCL1Timestamp == [n \in 0 .. MaxL1 |-> IF n < 3 THEN 2 * n ELSE 3 * n - 3]

Batch(p, e, h, t, txs) ==
    [parent_hash |-> p, epoch_num |-> e, epoch_hash |-> h, timestamp |-> t, txs |-> txs]

\* Valid batches for the first safe heads, and batches that each fail one of the checks:
\* epoch too old, epoch + window overflows, epoch hash of another or of no block, old
\* timestamp, past the drift with and without transactions, an empty transaction.
MCBatches ==
    {Batch(p, e, e, 3, "some") : p \in 0 .. 2, e \in 1 .. 3}
    \cup {Batch(1, 0, 0, 3, "some"), Batch(1, U64Max, 2, 3, "some")}
    \cup {Batch(p, 2, h, 3, "some") : p \in 0 .. 1, h \in {3, -1}}
    \cup {Batch(1, 1, 1, 1, "some"), Batch(1, 1, 1, 3, "invalid")}
    \cup {Batch(1, 1, 1, t, txs) : t \in {5, 8}, txs \in {"none", "some"}}
=============================================================================
