----------------------------- MODULE SpanCodec ------------------------------
(***************************************************************************)
(* Building, encoding and decoding a span batch (crates/derive, batch/     *)
(* span_batch/batch.rs append_singular_batch, raw.rs, prefix.rs,           *)
(* payload.rs). A batcher appends the batches of consecutive L2 blocks; at *)
(* every moment what it has built can be encoded, and decoded by a reader  *)
(* that knows the chain's configuration.                                   *)
(*                                                                         *)
(* A hash is abstracted to the number of its block; the first 20 bytes of  *)
(* it, which the checks of a span keep, to the same number.                *)
(***************************************************************************)
EXTENDS SpanTxs

CONSTANTS
  BlockTime, GenesisTime, ChainId,
  StartTimes,    \* timestamps a span may start at
  FirstEpochs,   \* epochs it may start in
  TxLists,       \* transaction lists a block may have
  MaxBlocks      \* bound: blocks of a span

VARIABLES
  span,      \* the SpanBatch under construction
  appended,  \* history: the batches appended so far
  ok         \* FALSE once an append has failed: the batcher gives the span up

spanVars == <<span, appended, ok>>

Element(b) == [epoch_num |-> b.epoch_num, timestamp |-> b.timestamp, transactions |-> b.transactions]

NewSpan == [parent_check |-> 0, l1_origin_check |-> 0, genesis_timestamp |-> GenesisTime,
            chain_id |-> ChainId, batches |-> <<>>, origin_bits |-> <<>>,
            block_tx_counts |-> <<>>, txs |-> NoTxs]

-----------------------------------------------------------------------------
\* the bit of a block: its epoch differs from the one before it; for the first block of the
\* span the sequence number tells

epoch_bit(batches, seq_num) ==
  IF Len(batches) = 1 THEN seq_num = 0
  ELSE batches[Len(batches) - 1].epoch_num < batches[Len(batches)].epoch_num

append_singular_batch(s, b, seq_num) ==
  LET batches == Append(s.batches, Element(b))
      added   == add_txs(s.txs, b.transactions, s.chain_id)
  IN  [ok |-> added.ok,
       span |-> [s EXCEPT !.batches = batches,
                          !.l1_origin_check = b.epoch_hash,
                          !.parent_check = IF Len(batches) = 1 THEN b.parent_hash ELSE @,
                          !.origin_bits = set_bit(@, Len(batches) - 1, epoch_bit(batches, seq_num)),
                          !.block_tx_counts = Append(@, Len(b.transactions)),
                          !.txs = added.txs]]

-----------------------------------------------------------------------------
\* RawSpanBatch: TryFrom<SpanBatch>, encode, decode

raw_span_batch(s) ==
  OkIf(s.batches # <<>>,
    [prefix  |-> [rel_timestamp |-> s.batches[1].timestamp - s.genesis_timestamp,
                  l1_origin_num |-> Last(s.batches).epoch_num,
                  parent_check |-> s.parent_check, l1_origin_check |-> s.l1_origin_check],
     payload |-> [block_count |-> Len(s.batches), origin_bits |-> s.origin_bits,
                  block_tx_counts |-> s.block_tx_counts, txs |-> s.txs]])

encode_prefix(p) ==
  Tag("varint", <<p.rel_timestamp, p.l1_origin_num>>) \o Tag("check", <<p.parent_check, p.l1_origin_check>>)

decode_prefix(r) ==
  {[r |-> x.r, v |-> [rel_timestamp |-> x.v[1], l1_origin_num |-> x.v[2],
                      parent_check |-> x.v[3], l1_origin_check |-> x.v[4]]] : x \in TakeItems(r, 4)}

encode_payload(p) ==
  Bind(encode_bits(p.block_count, p.origin_bits), LAMBDA bits :
    {Tag("varint", <<p.block_count>>) \o bits \o Tag("varint", p.block_tx_counts) \o txs :
       txs \in encode_txs(p.txs)})

decode_block_count(r) ==
  {x \in TakeItems(r, 1) : x.v[1] \in 1..MAX_SPAN_BATCH_ELEMENTS}

decode_block_tx_counts(r, n) ==
  {x \in TakeItems(r, n) : \A i \in 1..n : x.v[i] <= MAX_SPAN_BATCH_ELEMENTS}

TotalTxs(counts) == FoldLeft(LAMBDA n, c : n + c, 0, counts)

decode_payload(r) ==
  Bind(decode_block_count(r), LAMBDA count :
  Bind(decode_bits(count.r, count.v[1]), LAMBDA bits :
  Bind(decode_block_tx_counts(bits.r, count.v[1]), LAMBDA counts :
    IF TotalTxs(counts.v) > MAX_SPAN_BATCH_ELEMENTS THEN {}
    ELSE {[r |-> txs.r, v |-> [block_count |-> count.v[1], origin_bits |-> bits.v,
                               block_tx_counts |-> counts.v, txs |-> txs.v]] :
            txs \in decode_txs(counts.r, TotalTxs(counts.v))})))

encode(s) ==
  Bind(raw_span_batch(s), LAMBDA raw :
    {encode_prefix(raw.prefix) \o payload : payload \in encode_payload(raw.payload)})

decode(r) ==
  Bind(decode_prefix(r), LAMBDA prefix :
    {[r |-> payload.r, v |-> [prefix |-> prefix.v, payload |-> payload.v]] :
       payload \in decode_payload(prefix.r)})

-----------------------------------------------------------------------------
\* RawSpanBatch::derive. The epoch of the last block is in the prefix; going back, the epoch
\* of the block before a block whose bit is set is one less.

block_origin_num(raw, i) ==
  raw.prefix.l1_origin_num
    - Cardinality({j \in (i + 1)..(raw.payload.block_count - 1) : get_bit(raw.payload.origin_bits, j) = {1}})

\* index in the list of all transactions of the first one of block i
TxIdx(raw, i) == TotalTxs(SubSeq(raw.payload.block_tx_counts, 1, i)) + 1

derive(raw, block_time, genesis_time, chain_id) ==
  IF raw.payload.block_count = 0
       \/ \E i \in 0..(raw.payload.block_count - 1) : get_bit(raw.payload.origin_bits, i) = {}
  THEN {}
  ELSE {[parent_check |-> raw.prefix.parent_check, l1_origin_check |-> raw.prefix.l1_origin_check,
         batches |-> [k \in 1..raw.payload.block_count |->
           [epoch_num    |-> block_origin_num(raw, k - 1),
            timestamp    |-> genesis_time + raw.prefix.rel_timestamp + block_time * (k - 1),
            transactions |-> SubSeq(txs, TxIdx(raw, k - 1), TxIdx(raw, k) - 1)]]] :
          txs \in full_txs(raw.payload.txs, chain_id)}

-----------------------------------------------------------------------------
SpanInit == span = NewSpan /\ appended = <<>> /\ ok = TRUE

\* The next L2 block: BlockTime later, in the same epoch or the next.
NextBatch(first_time, first_epoch, seq_num, advance, txs) ==
  LET prev == Last(appended)
      new  == appended = <<>>
  IN  [epoch_num    |-> IF new THEN first_epoch ELSE prev.epoch_num + advance,
       epoch_hash   |-> IF new THEN first_epoch ELSE prev.epoch_num + advance,
       timestamp    |-> IF new THEN first_time ELSE prev.timestamp + BlockTime,
       parent_hash  |-> IF new THEN first_time ELSE prev.timestamp,
       transactions |-> txs]

AppendSingularBatch ==
  /\ ok
  /\ Len(appended) < MaxBlocks
  /\ \E time \in StartTimes, epoch \in FirstEpochs, seq_num \in {0, 1}, advance \in {0, 1}, txs \in TxLists :
       \E b \in {NextBatch(time, epoch, seq_num, advance, txs)} :
         \E res \in {append_singular_batch(span, b, seq_num)} :
           /\ span' = res.span
           /\ ok' = res.ok
           /\ appended' = Append(appended, b)

-----------------------------------------------------------------------------
\* A span the decoder's limits allow: at most MAX_SPAN_BATCH_ELEMENTS blocks, and as many
\* transactions.
WithinLimits ==
  Len(appended) <= MAX_SPAN_BATCH_ELEMENTS /\ span.txs.total_block_tx_count <= MAX_SPAN_BATCH_ELEMENTS

\* an EIP-7702 transaction has no way to create a contract
Signable == \A i \in DOMAIN appended : \A j \in DOMAIN appended[i].transactions :
              LET tx == appended[i].transactions[j] IN tx.type = "eip7702" => tx.to # <<>>

\* What a batcher has appended with append_singular_batch is what RawSpanBatch::decode and
\* derive give back after encode: every block with its epoch, timestamp and transactions in
\* full, whatever mix of transaction types shares the columns, and both checks; and the reader
\* stands exactly behind the span, at whatever follows it in the channel. Encoding has no
\* limits of its own, so a span beyond those of the decoder is refused there.
RoundTrip ==
  (ok /\ appended # <<>> /\ Signable) =>
    \E bytes \in encode(span) :
      IF ~WithinLimits THEN decode(Append(bytes, <<"next", 0>>)) = {}
      ELSE \E d \in decode(Append(bytes, <<"next", 0>>)) :
             /\ d.r = <<<<"next", 0>>>>
             /\ derive(d.v, BlockTime, GenesisTime, ChainId) =
                  {[parent_check |-> appended[1].parent_hash,
                    l1_origin_check |-> Last(appended).epoch_hash,
                    batches |-> [i \in DOMAIN appended |-> Element(appended[i])]]}
=============================================================================
