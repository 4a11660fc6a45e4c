----------------------------- MODULE BatchReader -----------------------------
(***************************************************************************)
(* The batch reader of the channel reader stage                            *)
(* (derive/src/stages/channel/channel_reader.rs): a channel holds zlib     *)
(* streams one after the other, each with one batch, and the reader keeps  *)
(* a cursor to the next one. A batch is its encoded bytes; the first byte  *)
(* is its type.                                                            *)
(***************************************************************************)
EXTENDS DeflateFormat

CONSTANTS
  Channels,                   \* sequences of streams
  MaxRlpBytesPerChannel,
  ReservedMethod              \* ZLIB_RESERVED_COMPRESSION_METHOD

SINGLE_BATCH == 0
SPAN_BATCH == 1

VARIABLES channel, cursor, batches, reader
readerVars == <<channel, cursor, batches, reader>>

ReaderInit(c) == channel = c /\ cursor = 0 /\ batches = <<>> /\ reader = "Reading"

ChannelData == FlattenSeq([i \in DOMAIN channel |-> channel[i].bytes])

Supported(compression_type) == compression_type % MethodMod \in {Method, ReservedMethod}

\* Batch::decode: it takes a type and more, and a type that is neither of the two panics
Decodes(data) == Len(data) > 1
Panics(data) == data # <<>> /\ data[1] \notin {SINGLE_BATCH, SPAN_BATCH}

None == reader' = "None" /\ UNCHANGED <<channel, cursor, batches>>

Panic == reader' = "Panicked" /\ UNCHANGED <<channel, cursor, batches>>

Advance(v) == cursor' = cursor + v.consumed /\ batches' = Append(batches, v.data) /\ UNCHANGED <<channel, reader>>

\* Mutant: the cursor is set to what the last stream took
DecompressedSet(v) ==
  IF ~v.ok \/ Len(v.data) > MaxRlpBytesPerChannel THEN None
  ELSE IF Panics(v.data) THEN Panic
  ELSE IF ~Decodes(v.data) THEN None
  ELSE IF v.data[1] = SPAN_BATCH THEN Panic
  ELSE cursor' = v.consumed /\ batches' = Append(batches, v.data) /\ UNCHANGED <<channel, reader>>

\* span batches are not implemented
Decompressed(v) ==
  IF ~v.ok \/ Len(v.data) > MaxRlpBytesPerChannel THEN None
  ELSE IF Panics(v.data) THEN Panic
  ELSE IF ~Decodes(v.data) THEN None
  ELSE IF v.data[1] = SPAN_BATCH THEN Panic
  ELSE Advance(v)

next_batch ==
  /\ reader = "Reading"
  /\ \E data \in {From(ChannelData, cursor)} :
       IF data = <<>> \/ ~Supported(data[1]) THEN None
       ELSE \E v \in {decompress_to_vec_zlib(data)} : Decompressed(v)

-----------------------------------------------------------------------------
Sent == [i \in DOMAIN channel |-> channel[i].data]

IsSpan(data) == data[1] = SPAN_BATCH

\* The comment of BatchReader says it "iteratively consumes batches": of a channel of single
\* batches it returns all of them, one after the other, and none that is made up from the inside
\* of another, and it does not panic. It does not (see the run batch_reader).
BatchesRead ==
  (\A i \in DOMAIN Sent : ~IsSpan(Sent[i])) =>
    IsPrefix(batches, Sent) /\ (reader \in {"None", "Panicked"} => batches = Sent)

\* The comment of BatchReader says it "can read every batch-type". It panics at the first span
\* batch: a deviation (see the README).
EveryTypeRead == reader # "Panicked"

\* what is left of the channel from its stream i on
LeftFrom(i) == Len(FlattenSeq([j \in 1 .. Len(channel) - i + 1 |-> channel[i + j - 1].bytes]))

\* When each batch fits in twice the rest of its channel, the first buffer of
\* decompress_to_vec_inner, which reports the input that its last call has read, the batch reader
\* returns the batches one after the other up to the first span, where it panics; if there is no
\* span it returns all of them and ends.
FittingBatchesRead ==
  (\A i \in DOMAIN channel : Len(channel[i].data) < 2 * LeftFrom(i)) =>
    /\ IsPrefix(batches, Sent) /\ \A i \in DOMAIN batches : ~IsSpan(batches[i])
    /\ reader = "None" => batches = Sent
    /\ reader = "Panicked" => batches # Sent /\ IsSpan(Sent[Len(batches) + 1])
=============================================================================
