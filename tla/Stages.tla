------------------------------- MODULE Stages -------------------------------
(***************************************************************************)
(* The stages of the Holocene rules (crates/derive, stages/channel/        *)
(* channel_assembler.rs and channel_reader.rs, stages/batch/batch_stream.rs*)
(* and batch_validator.rs), stacked in this order on a queue of frames. One*)
(* call of BatchValidator::next_batch, which calls down the stack, is one  *)
(* action.                                                                 *)
(*                                                                         *)
(* The BatchReader of this repository refuses span batches, so the reader  *)
(* below the BatchStream is a BatchStreamProvider that also delivers spans.*)
(* Which batches a channel holds is up to the environment. A batch carries *)
(* the number of the channel it was read from.                             *)
(***************************************************************************)
EXTENDS SpanBatch, Channel, Sequences

CONSTANTS
  ChannelTimeout,   \* cfg.channel_timeout
  ChannelSize,      \* cfg.channel_size
  Safe,             \* safe chains the driver may start with
  FrameLists,       \* frames an L1 block may carry, in order
  Singles, Spans,   \* batches a channel may hold
  MaxBatches,       \* bound: batches read in a behaviour
  MaxChain,         \* bound: blocks of the safe chain
  MaxSignals        \* bound: signals in a behaviour

ASSUME SafeAssumption ==
  \A c \in Safe : /\ c # <<>> /\ c \in Seq([number : Nat, timestamp : 0..U64Max, epoch : 0..MaxL1])
                  /\ \A i \in 1..Len(c) : c[i].number = c[1].number + i - 1
ASSUME FramesAssumption ==
  ChannelTimeout \in Nat /\ FrameLists \subseteq Seq(Frame)
\* RawSpanBatch::derive spaces the blocks of a span by the block time and counts their epochs up,
\* by one at most from a block to the next.
ASSUME SpansAssumption ==
  \A s \in Spans :
    /\ s.batches \in Seq([epoch_num : 0..U64Max, timestamp : 0..U64Max, txs : {"none", "some", "invalid"}])
    /\ \A i \in 1..Len(s.batches) :
         /\ s.batches[i].timestamp = s.batches[1].timestamp + (i - 1) * BlockTime
         /\ \A j \in 1..i : s.batches[j].epoch_num <= s.batches[i].epoch_num
         /\ i > 1 => s.batches[i].epoch_num <= s.batches[i - 1].epoch_num + 1

VARIABLES
  l1,         \* prev.origin(), the origin of the pipeline
  frames,     \* frames of this L1 block the frame queue still holds
  channel,    \* ChannelAssembler.channel, or NoChannel
  reader,     \* ChannelReader.next_batch: the number of the channel being read, or 0 for None
  read,       \* the Channel that was read last, or NoChannel
  buffer,     \* BatchStream.buffer: [batch, channel]
  origin,     \* BatchValidator.origin
  l1_blocks,  \* BatchValidator.l1_blocks
  chain,      \* the safe chain: element n + 1 is the L2 block n
  res, out,   \* result of the last call, and its batch
  flushed,    \* channels that a batch was dropped from, or that were flushed
  start,      \* last reset: [origin, epoch]
  channels, count, signals

below  == <<frames, channel, reader, read, buffer, flushed, channels, count>>
window == <<origin, l1_blocks>>
vars   == <<l1, below, window, chain, res, out, start, signals>>

NoChannel == [id |-> "none"]
NoBatch   == [batch |-> [txs |-> "no batch"], channel |-> 0, from |-> "none"]

parent == chain[Len(chain)]

Init ==
  /\ chain \in Safe
  /\ l1 \in 0..parent.epoch
  /\ frames \in FrameLists
  /\ channel = NoChannel /\ reader = 0 /\ read = NoChannel /\ buffer = <<>>
  /\ origin = l1 /\ l1_blocks = <<l1>>
  /\ start = [origin |-> l1, epoch |-> parent.epoch]
  /\ res = "None" /\ out = NoBatch
  /\ flushed = {} /\ channels = 0 /\ count = 0 /\ signals = 0

-----------------------------------------------------------------------------
\* Every stage below the validator maps its state, a record, to the set of outcomes of a call:
\* the state it leaves with the result in `res' and, when this is "Ok", the batch.

Below == [frames |-> frames, channel |-> channel, reader |-> reader, read |-> read, buffer |-> buffer,
          flushed |-> flushed, channels |-> channels, count |-> count, res |-> "Ok", batch |-> NoBatch]

\* Mutant: a channel is also read at one block more than the timeout
is_timed_out_late(c) == c # NoChannel /\ c.open_block + ChannelTimeout + 1 < l1

is_timed_out(c) == c # NoChannel /\ c.open_block + ChannelTimeout < l1

\* the channel a frame goes to: frame 0 starts a new one, whatever was being assembled
Opened(c, f) == IF f.number = 0 THEN NewChannel(f.id, l1) ELSE c

\* ChannelAssembler::next_data once it has a frame
Assemble(s, f) ==
  LET c == Opened(s.channel, f)
      a == AddFrame(c, f, l1)
      t == [s EXCEPT !.frames = Tail(@)]
  IN  IF c = NoChannel THEN [t EXCEPT !.res = "NotEnoughData"]
      ELSE IF RejectsFrame(c, f) THEN [t EXCEPT !.channel = c, !.res = "NotEnoughData"]
      ELSE IF a.estimated_size > ChannelSize THEN [t EXCEPT !.channel = NoChannel, !.res = "NotEnoughData"]
      ELSE IF ~IsReady(a) THEN [t EXCEPT !.channel = a, !.res = "NotEnoughData"]
      ELSE [t EXCEPT !.channel = NoChannel, !.read = a]

\* next_data; the frame queue returns a frame, a temporary error of its provider, or Eof
next_data(s) ==
  LET t == [s EXCEPT !.channel = IF is_timed_out(@) THEN NoChannel ELSE @]
  IN  IF s.frames = <<>> THEN {[t EXCEPT !.res = "Eof"]}
      ELSE {[t EXCEPT !.res = "Temporary"], Assemble(t, Head(t.frames))}

\* ChannelReader::set_batch_reader
set_batch_reader(s) ==
  IF s.reader # 0 THEN {s}
  ELSE {IF t.res # "Ok" THEN t ELSE [t EXCEPT !.reader = t.channels + 1, !.channels = @ + 1] :
          t \in next_data(s)}

\* ChannelReader::next_batch: the reader has another batch, or is at its end
reader_next_batch(s) ==
  UNION {IF t.res # "Ok" THEN {t}
         ELSE {[t EXCEPT !.reader = 0, !.res = "NotEnoughData"]} \cup
              {[t EXCEPT !.count = @ + 1, !.batch = [batch |-> b, channel |-> t.reader, from |-> "channel"]] :
                 b \in {x \in Singles \cup Spans : t.count < MaxBatches}} :
           t \in set_batch_reader(s)}

\* Mutant: the channel is not dropped with the buffer
flush_buffer(s) == [s EXCEPT !.buffer = <<>>, !.flushed = @ \cup ({s.reader} \ {0})]

\* BatchStream::flush and ChannelReader::flush
flush(s) == [s EXCEPT !.reader = 0, !.buffer = <<>>, !.flushed = @ \cup ({s.reader} \ {0})]

\* BatchStream::next_batch on a span: the L2 provider finds the parent block, or fails
SafeBlock(n) == {chain[i] : i \in {j \in DOMAIN chain : chain[j].number = n}}

StreamSpan(s, span, blocks, parents) ==
  LET v == check_batch_prefix(span, blocks, parent, l1, parents)
  IN  IF v = "Drop" THEN [flush(s) EXCEPT !.res = "Eof"]
      ELSE IF v = "Past" THEN [s EXCEPT !.res = "Eof"]
      ELSE IF v # "Accept" THEN [s EXCEPT !.res = "NotEnoughData"]
      ELSE IF get_singular_batches(span, blocks, parent) = {} THEN [s EXCEPT !.res = "Critical"]
      ELSE [s EXCEPT !.buffer =
              [i \in DOMAIN (CHOOSE b \in get_singular_batches(span, blocks, parent) : TRUE) |->
                 [batch   |-> (CHOOSE b \in get_singular_batches(span, blocks, parent) : TRUE)[i],
                  channel |-> s.batch.channel, from |-> "span"]]]

\* get_single_batch
PopFront(s) ==
  IF s.res # "Ok" THEN s
  ELSE IF s.buffer = <<>> THEN [s EXCEPT !.res = "NotEnoughData"]
  ELSE [s EXCEPT !.buffer = Tail(@), !.batch = Head(s.buffer)]

stream_next_batch(s, blocks) ==
  IF s.buffer # <<>> THEN {PopFront(s)}
  ELSE UNION {IF t.res # "Ok" \/ t.batch.batch \in Singles THEN {t}
              ELSE {PopFront(StreamSpan(t, t.batch.batch, blocks, p)) :
                      p \in {{}, SafeBlock(ParentNum(t.batch.batch, parent))}} :
                t \in reader_next_batch(s)}

-----------------------------------------------------------------------------
\* BatchValidator

OriginBehind == l1 < parent.epoch

\* Mutant: the origins the safe head has passed stay in the window
update_origins_kept ==
  IF origin = l1 THEN l1_blocks ELSE IF OriginBehind THEN <<>> ELSE Append(l1_blocks, l1)

\* update_origins: the window follows the origin, and starts at the epoch of the safe head
Followed == IF origin = l1 THEN l1_blocks ELSE IF OriginBehind THEN <<>> ELSE Append(l1_blocks, l1)

update_origins ==
  LET at == {i \in DOMAIN Followed : Followed[1] < parent.epoch /\ Followed[i] = parent.epoch}
  IN  IF at = {} THEN Followed ELSE SubSeq(Followed, Min(at), Len(Followed))

Return(r, b) == res' = r /\ out' = b

EmptyBatch(epoch) ==
  [parent_hash |-> parent.number, epoch_num |-> epoch, epoch_hash |-> epoch,
   timestamp |-> Add(L1Timestamp[epoch], BlockTime), txs |-> "none"]

\* the timestamp of an empty batch is that of the epoch plus one block time
try_derive_empty_batch(blocks) ==
  IF Add(blocks[1], SeqWindow) > l1 \/ Len(blocks) < 2
  THEN Return("Eof", NoBatch) /\ l1_blocks' = blocks
  ELSE IF Add(L1Timestamp[blocks[1]], BlockTime) < L1Timestamp[blocks[2]] \/ blocks[1] = parent.epoch + 1
  THEN /\ Return("Batch", [batch |-> EmptyBatch(blocks[1]), channel |-> 0, from |-> "forced"])
       /\ l1_blocks' = blocks
  ELSE Return("Eof", NoBatch) /\ l1_blocks' = Tail(blocks)

SetBelow(s) ==
  /\ frames' = s.frames /\ channel' = s.channel /\ reader' = s.reader /\ read' = s.read
  /\ buffer' = s.buffer /\ flushed' = s.flushed /\ channels' = s.channels /\ count' = s.count

\* the origin is still that of the safe head, or behind: the stages below are drained
Drain(blocks, s) ==
  /\ SetBelow(s)
  /\ l1_blocks' = blocks
  /\ Return(IF s.res = "Ok" THEN "NotEnoughData" ELSE s.res, s.batch)

\* never Future: SingleBatch::check_batch does not return it, so the critical error next_batch
\* has for it is not reached
Verdict(b, blocks) == CheckBatch(b, blocks, parent, l1)

Validate(blocks, s) ==
  CASE s.res = "Eof" -> SetBelow(s) /\ try_derive_empty_batch(blocks)
    [] s.res \notin {"Ok", "Eof"} -> SetBelow(s) /\ l1_blocks' = blocks /\ Return(s.res, s.batch)
    [] s.res = "Ok" ->
         /\ SetBelow(IF Verdict(s.batch.batch, blocks) = "Drop" THEN flush(s) ELSE s)
         /\ l1_blocks' = blocks
         /\ IF Verdict(s.batch.batch, blocks) = "Accept" THEN Return("Batch", s.batch)
            ELSE Return("NotEnoughData", NoBatch)

\* BatchValidator::next_batch
NextBatch ==
  /\ res \notin {"Batch", "Critical", "Reset"}
  /\ origin' = l1
  /\ \E blocks \in {update_origins} :
       IF OriginBehind \/ parent.epoch = l1
       THEN \E s \in stream_next_batch(Below, blocks) : Drain(blocks, s)
       ELSE IF Len(blocks) < 2 \/ parent.epoch \notin {blocks[1], blocks[1] - 1}
       THEN /\ l1_blocks' = blocks /\ UNCHANGED below
            /\ Return(IF Len(blocks) < 2 THEN "Critical" ELSE "Reset", NoBatch)
       ELSE \E s \in stream_next_batch(Below, blocks) : Validate(blocks, s)
  /\ UNCHANGED <<l1, chain, start, signals>>

-----------------------------------------------------------------------------
\* The pipeline and the driver around the stages

\* step: the origin advances when the stages have returned Eof; the frames not yet read stay
\* in the queue
AdvanceOrigin ==
  /\ res = "Eof" /\ l1 < MaxL1
  /\ l1' = l1 + 1
  /\ \E f \in FrameLists : frames' = frames \o f
  /\ res' = "None" /\ out' = NoBatch
  /\ UNCHANGED <<channel, reader, read, buffer, flushed, channels, count, window, chain, start, signals>>

\* AttributesQueue and the attributes builder take the batch
Fits(b) ==
  /\ b.parent_hash = parent.number
  /\ IF b.epoch_num = parent.epoch THEN b.epoch_hash = parent.epoch
     ELSE b.epoch_hash \in 1..MaxL1 /\ b.epoch_hash - 1 = parent.epoch

\* the driver executes it: the block after the safe head
BuildBlock ==
  /\ res = "Batch" /\ Fits(out.batch)
  /\ Len(chain) < MaxChain
  /\ chain' = Append(chain, [number |-> parent.number + 1, timestamp |-> Add(parent.timestamp, BlockTime),
                             epoch |-> out.batch.epoch_hash])
  /\ res' = "None" /\ out' = NoBatch
  /\ UNCHANGED <<l1, below, window, start, signals>>

\* the stages below the validator on a signal: the assembler's channel is kept by FlushChannel,
\* which the ChannelReader does not pass on
SignalBelow(keep) ==
  /\ signals < MaxSignals \/ res = "Reset" \/ (res = "Batch" /\ ~Fits(out.batch))
  /\ signals' = IF signals < MaxSignals THEN signals + 1 ELSE signals
  /\ channel' = IF keep THEN channel ELSE NoChannel
  /\ reader' = 0 /\ buffer' = <<>>
  /\ flushed' = flushed \cup ({reader} \ {0})
  /\ res' = "None" /\ out' = NoBatch
  /\ UNCHANGED <<l1, read, channels, count, chain>>

FlushChannel == SignalBelow(TRUE) /\ UNCHANGED <<frames, window, start>>
Activation   == SignalBelow(FALSE) /\ (\E f \in FrameLists : frames' = f) /\ UNCHANGED <<window, start>>

\* the driver resets the pipeline to its current origin
Reset ==
  /\ SignalBelow(FALSE)
  /\ \E f \in FrameLists : frames' = f
  /\ origin' = l1 /\ l1_blocks' = <<l1>>
  /\ start' = [origin |-> l1, epoch |-> parent.epoch]

Next == NextBatch \/ AdvanceOrigin \/ BuildBlock \/ FlushChannel \/ Activation \/ Reset

Spec == Init /\ [][Next]_vars

-----------------------------------------------------------------------------
\* After a batch of a channel is dropped, or the channel is flushed, nothing of that channel is
\* delivered any more: neither the reader nor the batches a span of it was turned into
\* (BatchValidator::next_batch, BatchStream::flush, ChannelReader::flush).
NothingAfterDrop ==
  /\ reader \notin flushed
  /\ \A i \in DOMAIN buffer : buffer[i].channel \notin flushed
  /\ res = "Batch" => out.channel \notin flushed

\* What the assembler hands to the reader is one channel, whole, and all of its frames were
\* included before the channel timed out (ChannelAssembler::next_data), although frames of other
\* channels, duplicates and late frames come in between.
AssembledInTime ==
  read # NoChannel =>
    /\ \A n \in 0..read.last_frame_number : n \in DOMAIN read.inputs /\ read.inputs[n].id = read.id
    /\ read.highest_l1_inclusion_block <= read.open_block + ChannelTimeout

\* The blocks of a span below the safe head say of a safe block that it has another epoch.
Disagrees(span) ==
  \E i \in DOMAIN span.batches, j \in DOMAIN chain :
    chain[j].timestamp = span.batches[i].timestamp /\ chain[j].epoch # span.batches[i].epoch_num

GoodStart == start.origin <= start.epoch

\* At the L1 block where the sequencing window of the safe head's epoch ends, that epoch has
\* been given up because the next L1 block leaves no time for another empty batch.
EpochGivenUp ==
  l1_blocks # <<>> /\ l1_blocks[1] = parent.epoch + 1 /\ l1 = parent.epoch + SeqWindow

\* The validator's window is a run of consecutive L1 blocks that ends at its origin. From a reset
\* at or below the epoch of the safe head it neither loses track of that epoch nor stops with a
\* critical error, with two exceptions: a span that overlaps the safe chain and disagrees with it
\* about an epoch, and a span of the epoch that was given up, when the stages are called again
\* at that L1 block. The checks on the prefix let both through to the conversion.
ValidatorOnTrack ==
  /\ \A i \in DOMAIN l1_blocks : l1_blocks[i] = origin - Len(l1_blocks) + i
  /\ (GoodStart /\ res \in {"Critical", "Reset"}) =>
       res = "Critical" /\ out.batch \in Spans /\ (Disagrees(out.batch) \/ EpochGivenUp)

\* The comment of get_singular_batches: its batches "do not contain a parent hash, as it is
\* populated by the Batch Queue stage". Then a block of a span whose turn has come, and that
\* extends the safe head, is delivered. It is not: BatchValidator::next_batch checks the batch with
\* the hash the conversion left, zero, and passes over it. A deviation (see the README).
SpanBlocksDelivered ==
  [][(buffer # <<>> /\ buffer' = Tail(buffer) /\ l1 > parent.epoch) =>
       LET b == [Head(buffer).batch EXCEPT !.parent_hash = parent.number]
       IN  CheckBatch(b, update_origins, parent, l1) = "Accept" => res' = "Batch"]_vars
=============================================================================
