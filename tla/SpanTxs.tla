------------------------------ MODULE SpanTxs -------------------------------
(***************************************************************************)
(* The transactions of a span batch, kept and encoded by column (crates/   *)
(* derive, batch/span_batch/transactions.rs, tx_data/, utils.rs).          *)
(*                                                                         *)
(* An encoding is a sequence of tagged items: bytes of a bitlist, varints, *)
(* addresses, signatures, and the type byte and RLP list of a transaction. *)
(* A transaction has the fields of its envelope; `to` and `chain_id` are   *)
(* sequences of at most one element (an Option), `data` stands for value,  *)
(* prices, calldata and lists.                                             *)
(***************************************************************************)
EXTENDS SpanBits

CONSTANTS
  MAX_SPAN_BATCH_ELEMENTS

Legacy == "legacy"
Typed == {"eip2930", "eip1559", "eip7702"}

\* SpanBatchTransactions::default()
NoTxs == [total_block_tx_count |-> 0, contract_creation_bits |-> <<>>, tx_sigs |-> <<>>,
          tx_nonces |-> <<>>, tx_gases |-> <<>>, tx_tos |-> <<>>, tx_datas |-> <<>>,
          protected_bits |-> <<>>, tx_types |-> <<>>, legacy_tx_count |-> 0]

\* a set of at most one value, handed on to F
Bind(S, F(_)) == UNION {F(x) : x \in S}

Tag(tag, s) == [i \in DOMAIN s |-> <<tag, s[i]>>]

\* n items of the reader; {} when it ends before (an error, or a slice that panics)
TakeItems(r, n) == OkIf(Len(r) >= n, [v |-> [i \in 1..n |-> r[i][2]], r |-> SubSeq(r, n + 1, Len(r))])

-----------------------------------------------------------------------------
\* SpanBatchTransactionData: legacy data is an RLP list, typed data has its type byte first

encode_tx_data(type, data) ==
  IF type = Legacy THEN <<<<"list", data>>>> ELSE <<<<"type", type>>, <<"list", data>>>>

IsReplayProtected(tx) == tx.type # Legacy \/ tx.chain_id # <<>>

\* SpanBatchTransactionData::to_signed_tx of each type of data
to_signed_tx(type, data, nonce, gas, to, chain_id, sig, is_protected) ==
  OkIf(type # "eip7702" \/ to # <<>>,
       [type |-> type, data |-> data, nonce |-> nonce, gas |-> gas, to |-> to, sig |-> sig,
        chain_id |-> IF is_protected THEN <<chain_id>> ELSE <<>>])

\* reads one transaction's data: [v |-> <<type, data>>, r |-> the rest]
read_tx_data(r) ==
  CASE Len(r) >= 1 /\ r[1][1] = "list" -> {[v |-> <<Legacy, r[1][2]>>, r |-> Tail(r)]}
    [] Len(r) >= 2 /\ r[1][1] = "type" /\ r[2][1] = "list" ->
         {[v |-> <<r[1][2], r[2][2]>>, r |-> Tail(Tail(r))]}
    [] OTHER -> {}

-----------------------------------------------------------------------------
\* add_txs: one iteration, in the order of the code. A transaction that is refused stops the
\* loop and leaves what the iterations before it, and its own protected bit, have written.

LegacyBit(t, tx) ==
  IF tx.type # Legacy THEN t
  ELSE [t EXCEPT !.protected_bits = set_bit(@, t.legacy_tx_count, IsReplayProtected(tx)),
                 !.legacy_tx_count = @ + 1]

Columns(t, tx, i) ==
  [t EXCEPT !.tx_tos = @ \o tx.to,
            !.tx_sigs = Append(@, tx.sig),
            !.contract_creation_bits = set_bit(@, i, tx.to = <<>>),
            !.tx_nonces = Append(@, tx.nonce),
            !.tx_datas = Append(@, <<tx.type, tx.data>>),
            !.tx_gases = Append(@, tx.gas),
            !.tx_types = Append(@, tx.type)]

add_tx(s, tx, chain_id) ==
  CASE ~s.ok -> s
    [] tx.type \notin Typed \cup {Legacy} -> [s EXCEPT !.ok = FALSE]
    [] IsReplayProtected(tx) /\ tx.chain_id # <<chain_id>> ->
         [s EXCEPT !.ok = FALSE, !.txs = LegacyBit(@, tx)]
    [] OTHER -> [s EXCEPT !.txs = Columns(LegacyBit(@, tx), tx, s.i), !.i = @ + 1]

add_txs(t, txs, chain_id) ==
  LET s == FoldLeft(LAMBDA acc, tx : add_tx(acc, tx, chain_id),
                    [ok |-> TRUE, txs |-> t, i |-> t.total_block_tx_count], txs)
  IN  [s EXCEPT !.txs.total_block_tx_count = IF s.ok THEN @ + Len(txs) ELSE @]

-----------------------------------------------------------------------------
\* A signature is <<y parity, r and s>>; the parities of all of them come first, as a bitlist.

YParityBits(t) ==
  FoldLeft(LAMBDA bits, i : set_bit(bits, i - 1, t.tx_sigs[i][1]), <<>>,
           [i \in DOMAIN t.tx_sigs |-> i])

encode_txs(t) ==
  Bind(encode_bits(t.total_block_tx_count, t.contract_creation_bits), LAMBDA creations :
  Bind(encode_bits(t.total_block_tx_count, YParityBits(t)), LAMBDA parities :
  Bind(encode_bits(t.legacy_tx_count, t.protected_bits), LAMBDA protected :
    {creations \o parities \o [i \in DOMAIN t.tx_sigs |-> <<"sig", t.tx_sigs[i][2]>>]
       \o Tag("address", t.tx_tos)
       \o FlattenSeq([i \in DOMAIN t.tx_datas |-> encode_tx_data(t.tx_datas[i][1], t.tx_datas[i][2])])
       \o Tag("varint", t.tx_nonces) \o Tag("varint", t.tx_gases) \o protected})))

\* decode_tx_datas: x.v holds the pairs read so far
decode_tx_datas(r, n) ==
  FoldLeft(LAMBDA S, i : Bind(S, LAMBDA x : {[v |-> Append(x.v, y.v), r |-> y.r] : y \in read_tx_data(x.r)}),
           {[v |-> <<>>, r |-> r]}, [i \in 1..n |-> i])

LegacyCount(types) == Cardinality({i \in DOMAIN types : types[i] = Legacy})

decode_txs(r, n) ==
  Bind(decode_bits(r, n), LAMBDA creations :
  Bind(decode_bits(creations.r, n), LAMBDA parities :
  Bind(TakeItems(parities.r, n), LAMBDA sigs :
  Bind(TakeItems(sigs.r, n - count_ones(creations.v)), LAMBDA tos :
  Bind(decode_tx_datas(tos.r, n), LAMBDA datas :
  Bind(TakeItems(datas.r, n), LAMBDA nonces :
  Bind(TakeItems(nonces.r, n), LAMBDA gases :
  Bind(decode_bits(gases.r, LegacyCount([i \in 1..n |-> datas.v[i][1]])), LAMBDA protected :
    {[r |-> protected.r,
      v |-> [total_block_tx_count |-> n, contract_creation_bits |-> creations.v,
             tx_sigs |-> [i \in 1..n |-> <<get_bit(parities.v, i - 1) = {1}, sigs.v[i]>>],
             tx_nonces |-> nonces.v, tx_gases |-> gases.v, tx_tos |-> tos.v, tx_datas |-> datas.v,
             protected_bits |-> protected.v, tx_types |-> [i \in 1..n |-> datas.v[i][1]],
             legacy_tx_count |-> LegacyCount([i \in 1..n |-> datas.v[i][1]])]]}))))))))

\* full_txs: the to_idx-th address goes to the to_idx-th transaction that creates no contract,
\* the protected bits to the legacy transactions in turn
ToIdx(t, idx) == Cardinality({j \in 1..idx : get_bit(t.contract_creation_bits, j - 1) = {0}})
ProtectedIdx(t, idx) == Cardinality({j \in 1..idx : t.tx_datas[j][1] = Legacy})

full_tx(t, idx, chain_id) ==
  Bind(get_bit(t.contract_creation_bits, idx - 1), LAMBDA bit :
    IF bit = 0 /\ Len(t.tx_tos) < ToIdx(t, idx) THEN {}
    ELSE to_signed_tx(t.tx_datas[idx][1], t.tx_datas[idx][2], t.tx_nonces[idx], t.tx_gases[idx],
                      IF bit = 0 THEN <<t.tx_tos[ToIdx(t, idx)]>> ELSE <<>>, chain_id, t.tx_sigs[idx],
                      t.tx_datas[idx][1] # Legacy
                        \/ get_bit(t.protected_bits, ProtectedIdx(t, idx) - 1) = {1}))

full_txs(t, chain_id) ==
  FoldLeft(LAMBDA S, idx : Bind(S, LAMBDA txs : {Append(txs, tx) : tx \in full_tx(t, idx, chain_id)}),
           {<<>>}, [i \in 1..t.total_block_tx_count |-> i])
=============================================================================
