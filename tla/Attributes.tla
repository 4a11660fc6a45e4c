----------------------------- MODULE Attributes -----------------------------
(***************************************************************************)
(* AttributesQueue (derive/src/stages/attributes_queue.rs), the attributes *)
(* builder (derive/src/attributes/stateful.rs) and the chain it builds on: *)
(* the builder reads the receipts of the epoch from the L1 provider and    *)
(* the system config back from the first transaction of its L2 parent,     *)
(* which an earlier call has written.                                      *)
(*                                                                         *)
(* One call of next_attributes is one action. Hashes of L1 and L2 blocks   *)
(* are their numbers. A batcher address is a sequence of bytes.            *)
(***************************************************************************)
EXTENDS Deposits, Trie, BatcherHash

CONSTANTS
  Provider,      \* the L2ChainProvider
  MaxL1,         \* the last L1 block
  L1Receipts,    \* the receipts an L1 block may have
  Batchers,      \* batcher addresses, sequences of AddressLength bytes
  BlockTime,     \* cfg.block_time
  MaxBlocks,     \* bound: L2 blocks
  MaxFailures    \* bound: provider or execution failures, and batches that do not fit

ASSUME ProviderAssumption == Provider \in Providers
ASSUME BatchersAssumption == \A a \in Batchers : a \in Seq(Nat) /\ Len(a) = AddressLength

VARIABLES
  l1,        \* receipts of the L1 blocks
  chain,     \* the safe L2 chain: [number, timestamp, transactions]
  batch,     \* AttributesQueue.batch, or NoBatch
  payload,   \* the transactions of the attributes next_attributes has returned
  res,       \* result of the last call
  failures

vars == <<l1, chain, batch, payload, res, failures>>

NoBatch == [txs |-> "no batch"]

-----------------------------------------------------------------------------
\* AttributesDeposited::to_sanitized_transaction
L1InfoTx(number, seq, batcher) ==
  [kind |-> "info", source |-> <<1, number, seq>>, number |-> number, hash |-> number,
   sequence_number |-> seq, batcher_hash |-> batcher_hash(batcher)]

DepositTx(d) == [kind |-> "deposit", source |-> d.source, deposit |-> d]
BatchTx(n) == [kind |-> "batch", source |-> <<2, n>>]

\* system_config_by_number and l2_block_info_by_number, which read the first transaction
system_config_by_number(n) == from_slice(Provider, chain[n].transactions[1].batcher_hash)

l2_block_info_by_number(n) ==
  LET info == chain[n].transactions[1]
  IN  [number |-> chain[n].number, timestamp |-> chain[n].timestamp,
       epoch |-> info.number, seq_num |-> info.sequence_number]

parent == l2_block_info_by_number(Len(chain))

\* OracleL1ChainProvider::receipts_by_hash: the list under the receipts root of the block
ReceiptsWalked == [r \in L1Receipts |-> hydrate(Blinded(blind(ordered_trie_with_encoder(r))))]
receipts_by_hash(b) == ReceiptsWalked[l1[b]]

-----------------------------------------------------------------------------
\* The batcher address in force after block b
InForce(b) == FoldLeft(update_with_receipts, CHOOSE a \in Batchers : TRUE, [i \in 1 .. b |-> l1[i]])

\* The safe head the driver starts from: a block of the epoch 0.
Init ==
  /\ l1 \in [0 .. MaxL1 -> L1Receipts] /\ l1[0] = <<>>
  /\ chain = <<[number |-> 1, timestamp |-> 0, transactions |-> <<L1InfoTx(0, 0, InForce(0))>>]>>
  /\ batch = NoBatch /\ payload = <<>> /\ res = "None" /\ failures = 0

\* A batch of the BatchQueue for the parent; the ones that skip an epoch or name another L1
\* block count as failures.
BatchesFor(p) == [parent_hash : {p.number}, epoch_num : {p.epoch, p.epoch + 1, p.epoch + 2} \cap 0 .. MaxL1,
                  epoch_hash : {p.epoch, p.epoch + 1, p.epoch + 2} \cap 0 .. MaxL1, txs : {"none", "some"}]

Fits(b) == b.epoch_hash = b.epoch_num /\ b.epoch_num <= parent.epoch + 1

\* AttributesQueue::load_batch
LoadBatch(b) ==
  IF batch # NoBatch THEN b = batch /\ UNCHANGED failures
  ELSE /\ failures' = IF Fits(b) THEN failures ELSE failures + 1
       /\ failures' <= MaxFailures

Stop(b, r) == batch' = b /\ res' = r /\ payload' = <<>>

\* The attributes: L1 info, deposits, and the transactions of the batch
Payload(b, seq, config, deposits) ==
  <<L1InfoTx(b.epoch_hash, seq, config)>>
    \o [i \in DOMAIN deposits |-> DepositTx(deposits[i])]
    \o IF b.txs = "some" THEN <<BatchTx(parent.number + 1)>> ELSE <<>>

Return(txs) == batch' = NoBatch /\ res' = "Ok" /\ payload' = txs

SequenceNumber(b, seq) == IF b.epoch_num # parent.epoch THEN 0 ELSE seq + 1

\* Mutant: the updates of the epoch's block are not applied.
BuilderConfigStale(receipts) == system_config_by_number(Len(chain))

BuilderConfig(receipts) == update_with_receipts(system_config_by_number(Len(chain)), receipts)

\* prepare_payload_attributes in the first block of an epoch
FirstOfEpoch(b, receipts, deposits) ==
  IF b.epoch_hash # parent.epoch + 1 THEN Stop(b, "Reset")
  ELSE IF \E i \in DOMAIN deposits : deposits[i].deposit_type = "Panic" THEN Stop(b, "Panic")
  ELSE IF (\E i \in DOMAIN deposits : Inconvertible(deposits[i])) \/ UpdateFails(receipts) THEN Stop(b, "Critical")
  ELSE Return(Payload(b, SequenceNumber(b, parent.seq_num), BuilderConfig(receipts), deposits))

\* prepare_payload_attributes in a later block
SameEpoch(b) ==
  IF b.epoch_hash # parent.epoch THEN Stop(b, "Reset")
  ELSE Return(Payload(b, SequenceNumber(b, parent.seq_num), system_config_by_number(Len(chain)), <<>>))

PreparePayloadAttributes(b) ==
  IF b.epoch_num # parent.epoch
  THEN \E receipts \in {receipts_by_hash(b.epoch_hash)} :
       \E deposits \in {derive_deposits(b.epoch_hash, receipts)} : FirstOfEpoch(b, receipts, deposits)
  ELSE SameEpoch(b)

Running == res \notin {"Ok", "Reset", "Critical", "Panic"} /\ Len(chain) < MaxBlocks

\* next_attributes, with create_next_attributes; its check of the parent's hash is a reset
NextAttributes(b) ==
  /\ Running
  /\ LoadBatch(b)
  /\ IF b.parent_hash # parent.number THEN Stop(b, "Reset") ELSE PreparePayloadAttributes(b)
  /\ UNCHANGED <<l1, chain>>

\* A provider fails before or after the batch is loaded: the batch is kept for the retry.
ProviderFails(b) ==
  /\ Running /\ failures < MaxFailures
  /\ failures' = failures + 1
  /\ batch' \in {batch, IF batch = NoBatch THEN b ELSE batch}
  /\ res' = "Temporary" /\ payload' = <<>>
  /\ UNCHANGED <<l1, chain>>

\* The driver executes the payload.
Execute ==
  /\ res = "Ok"
  /\ chain' = Append(chain, [number |-> parent.number + 1, timestamp |-> parent.timestamp + BlockTime,
                             transactions |-> payload])
  /\ res' = "None" /\ payload' = <<>>
  /\ UNCHANGED <<l1, batch, failures>>

\* The execution fails: the payload is dropped.
ExecuteFails ==
  /\ res = "Ok" /\ failures < MaxFailures
  /\ failures' = failures + 1
  /\ res' = "None" /\ payload' = <<>>
  /\ UNCHANGED <<l1, chain, batch>>

\* Mutant: the batch stays.
SignalKeeps ==
  /\ res = "Reset"
  /\ res' = "None"
  /\ UNCHANGED <<l1, chain, batch, payload, failures>>

\* AttributesQueue::signal with a reset
Signal ==
  /\ res = "Reset"
  /\ batch' = NoBatch /\ res' = "None"
  /\ UNCHANGED <<l1, chain, payload, failures>>

Done == (Len(chain) = MaxBlocks \/ res \in {"Critical", "Panic"}) /\ UNCHANGED vars

Next ==
  \/ \E b \in BatchesFor(parent) \cup ({batch} \ {NoBatch}) : NextAttributes(b) \/ ProviderFails(b)
  \/ Execute \/ ExecuteFails \/ Signal \/ Done

\* The driver keeps stepping, and the providers and the executor do not fail for ever.
Spec ==
  /\ Init /\ [][Next]_vars
  /\ WF_vars(\E b \in BatchesFor(parent) \cup ({batch} \ {NoBatch}) : NextAttributes(b))
  /\ WF_vars(Execute) /\ WF_vars(Signal)
-----------------------------------------------------------------------------
Epoch(n) == l2_block_info_by_number(n).epoch

\* A log of the portal with a message of the standard bridge to the bridge program.
IsUserDeposit(l) ==
  /\ l.address = Portal /\ Len(l.topics) = 3 /\ l.topics[1] = DEPOSIT_EVENT
  /\ l.topics[2] = apply_l1_to_l2_alias(Messenger) /\ l.topics[3] = BRIDGE
  /\ l.data.relay /\ l.data.selector \in {"eth", "erc20"} /\ l.data.from = StandardBridge /\ l.data.to = BRIDGE

\* The receivers and amounts of the deposits of L1 block e, in the order of their logs.
L1Deposits(e) ==
  LET logs == SelectSeq(Logs(l1[e]), IsUserDeposit)
  IN  [i \in DOMAIN logs |-> <<logs[i].data.who, logs[i].data.amount>>]

\* The deposits in L2 block n.
L2Deposits(n) ==
  LET txs == SelectSeq(chain[n].transactions, LAMBDA t : t.kind = "deposit")
  IN  [i \in DOMAIN txs |-> <<txs[i].deposit.to, txs[i].deposit.amount>>]

\* Every deposit of an L1 block is executed once, in the order of L1, in the first L2 block
\* of its epoch, through retries, resets, failed executions and the order in which the
\* receipts trie lists its leaves.
DepositsOnce ==
  \A n \in 2 .. Len(chain) :
    L2Deposits(n) = IF Epoch(n) # Epoch(n - 1) THEN L1Deposits(Epoch(n)) ELSE <<>>

\* The transactions derived from L1 have distinct source hashes, which stand in for a recent
\* block hash: none of them is refused as a duplicate by the SVM.
SourcesDistinct ==
  LET sources == FlattenSeq([n \in DOMAIN chain |->
                   [i \in DOMAIN chain[n].transactions |-> chain[n].transactions[i].source]])
  IN  Cardinality(Range(sources)) = Len(sources)

\* "Returns the [SystemConfig] by L2 number." The config that is read back from an L2 block
\* is the one in force on L1 at its epoch: the chain carries the batcher address from block to
\* block, through its encoding as batcher hash.
ConfigReadBack == \A n \in 2 .. Len(chain) : system_config_by_number(n) = InForce(Epoch(n))

\* The chain grows to any length unless an L1 block has a log the derivation stops at: a
\* batch that cannot be used does not stay in the queue.
ChainGrows == <>(Len(chain) = MaxBlocks \/ res \in {"Critical", "Panic"})
=============================================================================
