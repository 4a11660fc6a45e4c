------------------------------ MODULE BatchQueue ------------------------------
(***************************************************************************)
(* The BatchQueue stage (derive/src/stages/batch/batch_queue.rs) between   *)
(* the ChannelReader and BatchStream stages below it, which hand over      *)
(* single batches of one channel at a time, and the driver above it, which *)
(* turns a batch into the next L2 block.                                   *)
(*                                                                         *)
(* One call of next_batch is one action.  Which batches a channel holds is *)
(* up to the environment.  Span batches do not occur: the BatchReader does *)
(* not support them, so BatchStream forwards every batch and next_spans is *)
(* always empty.                                                           *)
(***************************************************************************)
EXTENDS SingleBatch

CONSTANTS StartEpochs, \* L1 origins of the L2 safe head the driver may start from
          Batches,     \* the batches that may occur in a channel
          MaxBatches,  \* bound: batches read in a behaviour
          MaxResets    \* bound: reset signals in a behaviour

ASSUME StartEpochsAssumption == StartEpochs \subseteq 0 .. MaxL1
ASSUME BatchesAssumption ==
    \A b \in Batches : /\ b.parent_hash \in Int
                       /\ b.epoch_num \in 0 .. U64Max /\ b.epoch_hash \in Int
                       /\ b.timestamp \in 0 .. U64Max
                       /\ b.txs \in {"none", "some", "invalid"}

VARIABLES l1,          \* prev.origin()
          reader,      \* ChannelReader.next_batch is Some: a channel is being read
          origin,      \* BatchQueue.origin
          l1_blocks,   \* BatchQueue.l1_blocks
          batches,     \* BatchQueue.batches: [batch, inclusion]
          parent,      \* the driver's L2 safe head: [number, timestamp, epoch]
          res,         \* result of the last call
          out,         \* the batch it returned, or NoBatch
          forced,      \* out was created here because the sequencing window had passed
          drained,     \* the highest L1 block whose data have been read to the end
          start,       \* the last reset: L1 origin, and epoch of the safe head
          count, resets

queue == <<origin, l1_blocks, batches>>
counts == <<count, resets>>
vars == <<l1, reader, queue, parent, res, out, forced, drained, start, counts>>

NoBatch == [txs |-> "no batch"]

\* The stage after the reset the pipeline is built with: the L1 origin of the safe head,
\* or a block before it.
Init ==
    /\ \E n \in {0, 1}, e \in StartEpochs :
           parent = [number |-> n, timestamp |-> L1Timestamp[e], epoch |-> e]
    /\ l1 \in 0 .. parent.epoch
    /\ start = [origin |-> l1, epoch |-> parent.epoch]
    /\ origin = l1 /\ l1_blocks = <<l1>> /\ batches = <<>>
    /\ reader = FALSE
    /\ res = "None" /\ out = NoBatch /\ forced = FALSE
    /\ drained = l1 - 1
    /\ count = 0 /\ resets = 0

\* The pipeline has not reached the L1 origin of the safe head.
OriginBehind == l1 < parent.epoch

\* The L1 blocks before the L1 origin of the safe head leave the window.
DrainedBlocks ==
    IF \E i \in DOMAIN l1_blocks : i > 1 /\ l1_blocks[1] < parent.epoch /\ l1_blocks[i] = parent.epoch
    THEN SubSeq(l1_blocks, CHOOSE i \in DOMAIN l1_blocks : l1_blocks[i] = parent.epoch, Len(l1_blocks))
    ELSE l1_blocks

\* Mutant: the window is not cleared while the origin is behind the safe head.
UpdatedBlocksKept == IF origin = l1 THEN DrainedBlocks ELSE Append(DrainedBlocks, l1)

\* The window once next_batch has noticed a new origin.
UpdatedBlocks ==
    IF origin = l1 THEN DrainedBlocks
    ELSE IF OriginBehind THEN <<>>
    ELSE Append(DrainedBlocks, l1)

\* BatchWithInclusionBlock::check_batch on the driver's safe head.
Validity(b, blocks, inclusion) == CheckBatch(b, blocks, parent, inclusion)

\* BatchQueue::add_batch: a batch that is dropped or outdated is not queued, a dropped one
\* also flushes the channel it came from.
Queued(b) ==
    IF Validity(b, UpdatedBlocks, l1) \in {"Drop", "Past"} THEN batches
    ELSE Append(batches, [batch |-> b, inclusion |-> l1])

\* The first batch of q that is not dropped by derive_next_batch, or Len(q) + 1.
FirstKept(q, blocks) ==
    CHOOSE i \in 1 .. Len(q) + 1 :
        /\ i <= Len(q) => Validity(q[i].batch, blocks, q[i].inclusion) \in {"Accept", "Undecided"}
        /\ \A j \in 1 .. i - 1 : Validity(q[j].batch, blocks, q[j].inclusion) \in {"Drop", "Past"}

\* A dropped batch of the queue flushes the channel too.
Flushes(q, blocks) ==
    \E j \in 1 .. FirstKept(q, blocks) - 1 : Validity(q[j].batch, blocks, q[j].inclusion) = "Drop"

EmptyBatch(epoch) ==
    [parent_hash |-> parent.number, epoch_num |-> epoch, epoch_hash |-> epoch,
     timestamp |-> Add(parent.timestamp, BlockTime), txs |-> "none"]

\* Result of a call that returns no batch.
Return(r) == res' = r /\ out' = NoBatch /\ forced' = FALSE

\* A temporary Eof of derive_next_batch is only passed on when the previous stages are out
\* of data, else it becomes NotEnoughData.
Eof(empty) == Return(IF empty THEN "Eof" ELSE "Err")

\* Mutant: does not wait for the end of the last L1 block of the sequencing window.
ForceEmptyEarly(blocks, empty) ==
    IF Add(blocks[1], SeqWindow) > l1 \/ Len(blocks) < 2
    THEN Eof(empty) /\ l1_blocks' = blocks
    ELSE IF Add(parent.timestamp, BlockTime) < L1Timestamp[blocks[2]] \/ blocks[1] = parent.epoch + 1
    THEN res' = "Batch" /\ out' = EmptyBatch(blocks[1]) /\ forced' = TRUE /\ l1_blocks' = blocks
    ELSE Eof(empty) /\ l1_blocks' = Tail(blocks)

\* Mutant: only forces empty batches one L1 block after the sequencing window.
ForceEmptyLate(blocks, empty) ==
    IF Add(blocks[1], SeqWindow) >= l1 \/ Len(blocks) < 2
    THEN Eof(empty) /\ l1_blocks' = blocks
    ELSE IF Add(parent.timestamp, BlockTime) < L1Timestamp[blocks[2]] \/ blocks[1] = parent.epoch + 1
    THEN res' = "Batch" /\ out' = EmptyBatch(blocks[1]) /\ forced' = TRUE /\ l1_blocks' = blocks
    ELSE Eof(empty) /\ l1_blocks' = Tail(blocks)

\* No queued batch is left: an empty batch is created once the sequencing window of the
\* epoch has passed, until the time of the next L1 block is reached.
ForceEmpty(blocks, empty) ==
    LET epoch          == blocks[1]
        expiry         == Add(epoch, SeqWindow)
        force          == (expiry = l1 /\ empty) \/ expiry < l1
        first_of_epoch == epoch = parent.epoch + 1
    IN  IF ~force \/ Len(blocks) < 2
        THEN Eof(empty) /\ l1_blocks' = blocks
        ELSE IF Add(parent.timestamp, BlockTime) < L1Timestamp[blocks[2]] \/ first_of_epoch
        THEN res' = "Batch" /\ out' = EmptyBatch(epoch) /\ forced' = TRUE /\ l1_blocks' = blocks
        ELSE Eof(empty) /\ l1_blocks' = Tail(blocks)

\* BatchQueue::derive_next_batch, on the window `blocks' and the batches q.
DeriveNextBatch(blocks, q, empty) ==
    IF blocks = <<>>
    THEN Return("Critical") /\ l1_blocks' = blocks /\ batches' = q
    ELSE IF parent.number # 0 /\ parent.epoch \notin {blocks[1], blocks[1] - 1}
    THEN Return("Reset") /\ l1_blocks' = blocks /\ batches' = q
    ELSE LET i == FirstKept(q, blocks)
         IN  IF i > Len(q) THEN batches' = <<>> /\ ForceEmpty(blocks, empty)
             ELSE /\ l1_blocks' = blocks
                  /\ IF Validity(q[i].batch, blocks, q[i].inclusion) = "Accept"
                     THEN /\ batches' = SubSeq(q, i + 1, Len(q))
                          /\ res' = "Batch" /\ out' = q[i].batch /\ forced' = FALSE
                     ELSE batches' = SubSeq(q, i, Len(q)) /\ Eof(empty)

\* The rest of next_batch when the previous stage had a batch, or its Eof.
Derive(q, empty) ==
    IF OriginBehind
    THEN Eof(empty) /\ l1_blocks' = UpdatedBlocks /\ UNCHANGED batches
    ELSE DeriveNextBatch(UpdatedBlocks, q, empty)

\* The previous stages return a temporary error, NotEnoughData at the end of a channel.
PullError ==
    /\ res # "Batch" /\ drained < l1
    /\ reader' = FALSE
    /\ origin' = l1 /\ l1_blocks' = UpdatedBlocks
    /\ Return("Err")
    /\ UNCHANGED <<l1, batches, parent, drained, start, counts>>

\* The previous stages are out of data: no channel is left, and all of the L1 block is read.
\* They stay so until the origin advances.
PullEof ==
    /\ res # "Batch"
    /\ ~reader
    /\ origin' = l1
    /\ Derive(batches, TRUE)
    /\ drained' = l1
    /\ UNCHANGED <<l1, reader, parent, start, counts>>

\* The previous stages return a batch of the channel being read, or of a new one.
PullBatch(b) ==
    /\ res # "Batch" /\ drained < l1
    /\ count < MaxBatches
    /\ count' = count + 1
    /\ origin' = l1
    /\ IF ~OriginBehind /\ UpdatedBlocks = <<>>
       THEN Return("Panic") /\ l1_blocks' = UpdatedBlocks /\ reader' = TRUE /\ UNCHANGED batches
       ELSE /\ Derive(Queued(b), FALSE)
            /\ reader' = (\/ OriginBehind
                          \/ /\ Validity(b, UpdatedBlocks, l1) # "Drop"
                             /\ ~Flushes(Queued(b), UpdatedBlocks))
    /\ UNCHANGED <<l1, parent, drained, start, resets>>

NextBatch == PullError \/ PullEof \/ \E b \in Batches : PullBatch(b)

\* step advances the origin when next_attributes has returned Eof.
AdvanceOrigin ==
    /\ res = "Eof"
    /\ l1 < MaxL1
    /\ l1' = l1 + 1
    /\ res' = "None"
    /\ UNCHANGED <<reader, queue, parent, out, forced, drained, start, counts>>

\* The checks of create_next_attributes and of prepare_payload_attributes on a batch: the
\* attributes can be built, "Ok", the pipeline is reset, or the L1 block is not found, which
\* is retried as a temporary error.
Attributes(b) ==
    IF b.parent_hash # parent.number THEN "Reset"
    ELSE IF b.epoch_num = parent.epoch
    THEN IF b.epoch_hash = parent.epoch THEN "Ok" ELSE "Reset"
    ELSE IF b.epoch_hash \notin 0 .. MaxL1 THEN "Retry"
    ELSE IF b.epoch_hash - 1 = parent.epoch THEN "Ok" ELSE "Reset"

\* A provider of the attributes builder fails: AttributesQueue keeps the batch for a retry.
AttributesFail ==
    /\ res = "Batch" /\ Attributes(out) # "Reset"
    /\ UNCHANGED vars

\* The driver executes the batch: the new safe head has the time the attributes builder
\* gives it, not the time of the batch, and the L1 origin it looked up by the epoch's hash.
BuildBlock ==
    /\ res = "Batch" /\ Attributes(out) = "Ok"
    /\ parent' = [number |-> parent.number + 1, timestamp |-> Add(parent.timestamp, BlockTime),
                  epoch |-> out.epoch_hash]
    /\ res' = "None" /\ out' = NoBatch /\ forced' = FALSE
    /\ UNCHANGED <<l1, reader, queue, drained, start, counts>>

\* The execution of the payload fails: the driver drops it and goes on from the same head.
ExecutionFails ==
    /\ res = "Batch" /\ Attributes(out) = "Ok"
    /\ res' = "None" /\ out' = NoBatch /\ forced' = FALSE
    /\ UNCHANGED <<l1, reader, queue, parent, drained, start, counts>>

\* This stage or the attributes builder has returned a reset error.
ResetNeeded == res = "Reset" \/ (res = "Batch" /\ Attributes(out) = "Reset")

\* After a reset error, of another stage perhaps, the driver resets the pipeline to its
\* current origin.
Reset ==
    /\ IF ResetNeeded THEN UNCHANGED resets
       ELSE resets < MaxResets /\ resets' = resets + 1
    /\ reader' = FALSE
    /\ origin' = l1 /\ l1_blocks' = <<l1>> /\ batches' = <<>>
    /\ drained' = l1 - 1
    /\ start' = [origin |-> l1, epoch |-> parent.epoch]
    /\ res' = "None" /\ out' = NoBatch /\ forced' = FALSE
    /\ UNCHANGED <<l1, parent, count>>

Next == NextBatch \/ AdvanceOrigin \/ AttributesFail \/ BuildBlock \/ ExecutionFails \/ Reset

\* The driver keeps stepping the pipeline. Every channel and every L1 block has an end, and
\* the providers and the executor do not fail for ever.
Spec ==
    /\ Init /\ [][Next]_vars
    /\ WF_vars(reader /\ PullError) /\ WF_vars(PullEof)
    /\ SF_vars(AdvanceOrigin) /\ SF_vars(BuildBlock) /\ WF_vars(ResetNeeded /\ Reset)
-----------------------------------------------------------------------------
\* Types of the stage's fields; a batch that is returned names an L1 block.
TypeOK ==
    /\ l1 \in 0 .. MaxL1 /\ reader \in BOOLEAN /\ origin \in 0 .. MaxL1
    /\ l1_blocks \in Seq(0 .. MaxL1)
    /\ \A i \in DOMAIN batches : batches[i].batch \in Batches /\ batches[i].inclusion \in 0 .. MaxL1
    /\ parent.number \in Nat /\ parent.timestamp \in Nat /\ parent.epoch \in 0 .. MaxL1
    /\ res \in {"None", "Batch", "Eof", "Err", "Reset", "Critical", "Panic"}
    /\ IF res = "Batch" THEN out.epoch_num \in 0 .. MaxL1 ELSE out = NoBatch

\* The last reset was to an L1 block from which the safe head can be continued: not past
\* the block after its L1 origin, and not the one block before it (see StartThrownOut).
GoodStart == start.origin <= start.epoch + 1 /\ start.origin # start.epoch - 1

\* The window is a run of consecutive L1 blocks that ends at the stage's origin, and it
\* stays aligned with the safe head: from a good start the stage never runs into
\* L1OriginMismatch, MissingOrigin or the panic of add_batch, through all the ways the
\* window is drained, extended, cleared and advanced.
WindowAligned ==
    /\ \A i \in DOMAIN l1_blocks : l1_blocks[i] = origin - Len(l1_blocks) + i
    /\ res \notin {"Critical", "Panic"}
    /\ GoodStart => res # "Reset"

\* A batch that passes the checks of this stage also passes those of the AttributesQueue
\* and the attributes builder and does not reset the pipeline, if the window starts at the
\* epoch of the safe head and the safe head is not the genesis block.
BatchFitsAttributes ==
    (res = "Batch" /\ l1_blocks[1] = parent.epoch /\ parent.number # 0) => Attributes(out) = "Ok"

\* The doc of next_batch: "Returns the next valid batch upon the given safe head."
ReturnsValidBatch ==
    (res = "Batch" /\ GoodStart /\ parent.number # 0) => Attributes(out) # "Reset"

\* An empty batch is only created for an epoch when all the L1 data in which a batch of
\* this epoch may still have been included are read.
ForcedAfterWindow ==
    forced => drained >= out.epoch_num + SeqWindow

\* Comments of the queue, of check_batch and of the attributes builder: L2 time >= L1 time,
\* here for the blocks built on a block that is not the genesis block.
L2TimeInvariant == parent.number > 1 => parent.timestamp >= L1Timestamp[parent.epoch]

\* The comment in produce_payload on a reset error: "Reset the pipeline to the initial L2 safe
\* head and L1 origin, and try again." After a reset the stage comes to return a batch the
\* attributes builder takes, or to ask for the next L1 block.
RetryMakesProgress == ResetNeeded ~> (res \in {"Batch", "Eof"} /\ ~ResetNeeded)

\* The comment in signal on the L1 origin a reset puts into the window: "During normal resets
\* we will later throw out this block." A pipeline that is reset to a block before the L1
\* origin of the safe head reaches this origin without L1OriginMismatch.
StartThrownOut == start.origin < start.epoch => res # "Reset"

\* The safe chain follows L1 whatever the batcher does: with L1 at MaxL1 the epochs whose
\* sequencing window has passed have L2 blocks.
EpochsAdvance ==
    (parent.number # 0) ~> (parent.epoch >= MaxL1 - SeqWindow \/ ~GoodStart)
=============================================================================
