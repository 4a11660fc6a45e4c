------------------------------ MODULE SpanBatch -----------------------------
(***************************************************************************)
(* The checks on a span batch and its conversion to single batches (crates/*)
(* derive, batch/span_batch/batch.rs). A span is [parent_check,            *)
(* l1_origin_check, batches], its batches [epoch_num, timestamp, txs]; L1  *)
(* and L2 blocks are their numbers, as in SingleBatch, and so are the      *)
(* checks, which keep a part of a hash.                                    *)
(***************************************************************************)
EXTENDS SingleBatch, FiniteSetsExt

ZeroHash == -1

starting_timestamp(s) == s.batches[1].timestamp
final_timestamp(s)    == s.batches[Len(s.batches)].timestamp
starting_epoch_num(s) == s.batches[1].epoch_num
end_epoch_num(s)      == s.batches[Len(s.batches)].epoch_num

NextTimestamp(head) == Add(head.timestamp, BlockTime)

\* the number of the block a span builds on: the safe head, or below it when the span
\* overlaps the safe chain
ParentNum(s, head) ==
  IF starting_timestamp(s) < NextTimestamp(head)
  THEN head.number - (head.timestamp - starting_timestamp(s)) \div BlockTime - 1
  ELSE head.number

-----------------------------------------------------------------------------
\* check_batch_prefix, up to the lookup of the parent block

PrefixTimes(s, l1_origins, head) ==
  IF l1_origins = <<>> \/ s.batches = <<>> THEN "Undecided"
  ELSE IF starting_epoch_num(s) = Add(l1_origins[1], 1) /\ Len(l1_origins) < 2 THEN "Undecided"
  ELSE IF starting_timestamp(s) > NextTimestamp(head) THEN "Drop"
  ELSE IF final_timestamp(s) < NextTimestamp(head) THEN "Past"
  ELSE IF /\ starting_timestamp(s) < NextTimestamp(head)
          /\ \/ starting_timestamp(s) > head.timestamp
             \/ (head.timestamp - starting_timestamp(s)) % BlockTime # 0 THEN "Drop"
  ELSE "Accept"

\* and from there on
PrefixEpochs(s, l1_origins, parent, inclusion) ==
  IF \/ s.parent_check # parent.number
     \/ Add(starting_epoch_num(s), SeqWindow) < inclusion
     \/ starting_epoch_num(s) > Add(parent.epoch, 1) THEN "Drop"
  ELSE IF \A i \in DOMAIN l1_origins : l1_origins[i] # end_epoch_num(s) THEN "Undecided"
  ELSE IF s.l1_origin_check # end_epoch_num(s) THEN "Drop"
  ELSE IF starting_epoch_num(s) < parent.epoch THEN "Drop"
  ELSE "Accept"

\* parents is the block l2_block_info_by_number finds at ParentNum, or {} when it fails
check_batch_prefix(s, l1_origins, head, inclusion, parents) ==
  IF PrefixTimes(s, l1_origins, head) # "Accept" THEN PrefixTimes(s, l1_origins, head)
  ELSE IF parents = {} THEN "Undecided"
  ELSE PrefixEpochs(s, l1_origins, CHOOSE p \in parents : TRUE, inclusion)

-----------------------------------------------------------------------------
\* the blocks of a span after the safe head
New(s, head) == {i \in DOMAIN s.batches : s.batches[i].timestamp > head.timestamp}

\* get_singular_batches: the blocks after the safe head, without a parent hash. Where the
\* search for an origin starts is the index of the last one found in the slice searched then.

SliceStart(s, l1_origins, head) ==
  LET start[i \in 0..Len(s.batches)] ==
        IF i = 0 THEN 0
        ELSE IF \/ i \notin New(s, head)
                \/ \A j \in (start[i - 1] + 1)..Len(l1_origins) : l1_origins[j] # s.batches[i].epoch_num
        THEN start[i - 1]
        ELSE (CHOOSE j \in (start[i - 1] + 1)..Len(l1_origins) : l1_origins[j] = s.batches[i].epoch_num)
               - 1 - start[i - 1]
  IN  start

\* {} for MissingL1Origin
get_singular_batches(s, l1_origins, head) ==
  LET start == SliceStart(s, l1_origins, head)
      first == Min(New(s, head) \cup {Len(s.batches) + 1})
  IN  IF \E i \in New(s, head) :
           \A j \in (start[i - 1] + 1)..Len(l1_origins) : l1_origins[j] # s.batches[i].epoch_num
      THEN {}
      ELSE {[k \in 1..(Len(s.batches) - first + 1) |->
               [parent_hash |-> ZeroHash,
                epoch_num   |-> s.batches[first + k - 1].epoch_num,
                epoch_hash  |-> s.batches[first + k - 1].epoch_num,
                timestamp   |-> s.batches[first + k - 1].timestamp,
                txs         |-> s.batches[first + k - 1].txs]]}
=============================================================================
