----------------------------- MODULE SingleBatch -----------------------------
(***************************************************************************)
(* SingleBatch::check_batch (derive/src/batch/single_batch.rs): whether a  *)
(* batch may be the next L2 block after the safe head, given the window of *)
(* L1 blocks the BatchQueue holds.                                         *)
(*                                                                         *)
(* L1 blocks are their numbers: the hash of block n is n, its timestamp    *)
(* L1Timestamp[n].  Likewise the hash of an L2 block is its number.        *)
(***************************************************************************)
EXTENDS Integers, Sequences

CONSTANTS MaxL1,         \* bound: the highest L1 block of a behaviour
          L1Timestamp,   \* timestamps of the L1 blocks
          BlockTime,     \* cfg.block_time
          SeqWindow,     \* cfg.seq_window_size
          MaxDrift,      \* cfg.max_sequencer_drift
          U64Max         \* largest u64, the width of numbers and timestamps

ASSUME L1TimestampAssumption ==
    /\ MaxL1 \in Nat
    /\ L1Timestamp \in [0 .. MaxL1 -> 0 .. U64Max]
    /\ \A n \in 1 .. MaxL1 : L1Timestamp[n - 1] < L1Timestamp[n]
ASSUME ConfigAssumption ==
    /\ BlockTime \in Nat \ {0} /\ SeqWindow \in Nat \ {0}
    /\ U64Max \in Nat /\ MaxDrift \in 0 .. U64Max

\* A u64 addition, in a build without overflow checks.
Add(x, y) == (x + y) % (U64Max + 1)

\* The L1 block a batch takes as its origin: the first or the second of the window.
BatchOrigin(b, l1_blocks) == IF b.epoch_num = l1_blocks[1] THEN l1_blocks[1] ELSE l1_blocks[2]

\* The batch is past the time the sequencer may run ahead of its L1 origin. An empty batch
\* is still accepted there when the next L1 origin could not have been adopted.
CheckDrift(b, l1_blocks) ==
    LET batch_origin == BatchOrigin(b, l1_blocks)
        max          == L1Timestamp[batch_origin] + MaxDrift
    IN  IF max > U64Max THEN "Drop"
        ELSE IF b.timestamp <= max THEN "Accept"
        ELSE IF b.txs # "none" THEN "Drop"
        ELSE IF batch_origin # l1_blocks[1] THEN "Accept"
        ELSE IF Len(l1_blocks) < 2 THEN "Undecided"
        ELSE IF b.timestamp >= L1Timestamp[l1_blocks[2]] THEN "Drop"
        ELSE "Accept"

\* Mutant: a batch is accepted whatever its epoch hash.
CheckBatchAnyHash(b, l1_blocks, head, inclusion) ==
    IF l1_blocks = <<>> THEN "Undecided"
    ELSE IF b.timestamp < head.timestamp \/ b.parent_hash # head.number THEN "Past"
    ELSE IF \/ Add(b.epoch_num, SeqWindow) < inclusion
            \/ b.epoch_num < l1_blocks[1]
            \/ b.epoch_num > Add(l1_blocks[1], 1) THEN "Drop"
    ELSE IF b.epoch_num # l1_blocks[1] /\ Len(l1_blocks) < 2 THEN "Undecided"
    ELSE IF CheckDrift(b, l1_blocks) # "Accept" THEN CheckDrift(b, l1_blocks)
    ELSE IF b.txs = "invalid" THEN "Drop"
    ELSE "Accept"

\* The checks in the order of the code. b.txs is "none", "some", or "invalid" when one of
\* the transactions is empty.
CheckBatch(b, l1_blocks, head, inclusion) ==
    IF l1_blocks = <<>> THEN "Undecided"
    ELSE IF b.timestamp < head.timestamp \/ b.parent_hash # head.number THEN "Past"
    ELSE IF \/ Add(b.epoch_num, SeqWindow) < inclusion
            \/ b.epoch_num < l1_blocks[1]
            \/ b.epoch_num > Add(l1_blocks[1], 1) THEN "Drop"
    ELSE IF b.epoch_num # l1_blocks[1] /\ Len(l1_blocks) < 2 THEN "Undecided"
    ELSE IF b.epoch_hash # BatchOrigin(b, l1_blocks) /\ head.number # 0 THEN "Drop"
    ELSE IF CheckDrift(b, l1_blocks) # "Accept" THEN CheckDrift(b, l1_blocks)
    ELSE IF b.txs = "invalid" THEN "Drop"
    ELSE "Accept"
=============================================================================
