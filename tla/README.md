# A TLA+ model of kona-soon

kona-soon derives the L2 chain of an SVM rollup from L1 and executes it, in a fault
proof program that can be replayed against a preimage oracle. This directory models the
derivation pipeline and its driver, the formats they read, the executor with its
programs and tries, the oracle protocol with its host, and the L1 provider of a node;
checks the models with TLC on small instances; and proves the safety properties of the
stages, the driver, the oracle protocol and the L1 provider with TLAPS. Paths below are relative to `src/crates/` unless they start with `bin/`.

## The system

| part | state | operations | hard behaviour |
|---|---|---|---|
| `L1Traversal` | `block`, `done`, `system_config` | `next_l1_block`, `advance_origin`, `signal` | providers fail between the block and its receipts; a reset takes the config of another block than its origin |
| `L1Retrieval`, `DAServerSource`, `CalldataSource` | `next`; `open`, `calldata` | `next_data`, `clear`, `signal` | a lookup fails after its commitment was popped; a reset in mid-block |
| `FrameQueue` | `queue` | `next_frame`, `signal` | data that do not parse |
| `ChannelBank`, `Channel` | `channels`, `channel_queue`; `inputs`, `closed`, ... | `next_data`, `add_frame`, `prune`, `signal` | frames in any order, timeouts, a full bank, two structures to keep in step |
| `ChannelReader`, `BatchReader`, `miniz_oxide` | `next_batch`, `cursor`; bit buffer, tables, window | `next_batch`, `flush`; `decompress`, `inflate` | input and output in pieces; several streams in one channel |
| `BatchQueue`, `SingleBatch` | `origin`, `l1_blocks`, `batches` | `next_batch`, `add_batch`, `derive_next_batch`, `signal` | a window that moves with the origin, the safe head and forced batches; undecided batches |
| `ChannelAssembler`, `BatchStream`, `BatchValidator`, `SpanBatch` | `channel`; `span`, `buffer`; `l1_blocks` | `next_data`, `next_batch`, `flush`, `signal` | a drop that reaches down two stages; spans that overlap the safe chain |
| span batch codec | columns and bitlists | `append_singular_batch`, `encode`, `decode`, `derive` | columns of unequal length, big-endian bitlists |
| `AttributesQueue`, `StatefulAttributesBuilder` | `batch` | `next_attributes`, `signal` | a batch kept over failures; a config read back from the chain itself |
| `DerivationPipeline`, `Driver`, `PipelineCursor` | `prepared`; `cursor`, target; `origins`, `tips` | `step`, `advance_to_target`, `advance`, `reset` | failed executions, resets, eviction, end of L1 |
| block builder, SVM, MPT | accounts, blockhash queue, tries | build and execute a block | failed transactions that are charged; accounts that cannot be fetched and are taken for missing; tries opened in part |
| bridge and L1 block info programs | accounts | instructions | counters, packed layouts, decimals |
| preimage oracle, hints, host | channels, caches, `last_hint`, store | `get`, `get_exact`, `route_hint`, `get_preimage` | two tasks, a cache, retries, no request ids, a builder that goes on after a failed read |
| `L1ChainProvider` | caches, published blocks, next height | calls, background thread | concurrent calls across reorganisations |

The pipeline is a stack: a call on the top stage pulls through the stages below it.
Errors are temporary (retried), critical (they end the derivation) or resets (the driver
signals a reset to every stage). `step` advances the L1 origin when the pipeline returns
a temporary `Eof`. All of this runs in one task, so its hazards are sequences: calls
interleaved with errors, retries, origin advances and resets, each of which finds the
stages half way through something. The oracle and the L1 provider are concurrent.

`PROJECT.json` lists every component with its status, every hazard at its line, and the
lines each definition models.

## Modules

| module | models | one action is |
|---|---|---|
| `Channel` | `primitives/src/da/channel.rs` (operators) | |
| `ChannelBank` | `derive/src/stages/channel/channel_bank.rs` and its provider | a call of `next_data` (`DropTimedOut`, `EmitChannel`, `IngestFrame`, `ReturnError`), `AdvanceOrigin`, `Signal` |
| `L1Source` | `l1_traversal.rs`, `l1_retrieval.rs`, the calldata and DA server sources, `frame_queue.rs` | a call of `FrameQueue::next_frame`, by outcome; `AdvanceOrigin`, `AdvanceFails`, `Reset` |
| `SingleBatch` | `derive/src/batch/single_batch.rs` (operators) | |
| `BatchQueue` | `batch_queue.rs`, the reader below and the attributes builder above | a call of `next_batch`, by what the stages below return; `AdvanceOrigin`, `BuildBlock`, `ExecutionFails`, `AttributesFail`, `Reset` |
| `PipelineCursor`, `Driver` | `protocol/driver/src`, `step`, the `AttributesQueue` | an iteration of the loop up to its next call: `CheckTarget`, `Step...`, `Execute...` |
| `SpanBatch` | `check_batch_prefix` and `get_singular_batches` of `span_batch/batch.rs` (operators) | |
| `Stages` | the Holocene stages, stacked on a frame queue | a call of `BatchValidator::next_batch`, an origin advance, a flush or reset |
| `SpanBits`, `SpanTxs`, `SpanCodec` | `span_batch/bits.rs`, `transactions.rs`, `tx_data/`, `raw.rs`, `prefix.rs`, `payload.rs` | a batch appended to the span |
| `Inflate` | `miniz_oxide/src/inflate/core.rs` (operators on its state) | |
| `Decompress` | `inflate/stream.rs`, `inflate/mod.rs` | a call of `inflate` with a piece of input and room for output; `decompress_slice_iter_to_slice`; a reset |
| `DeflateFormat` | the format itself, which no code is translated for: the reference `Inflate` is compared with | |
| `BatchReader` | `BatchReader::next_batch` on top of it | a call of `next_batch` |
| `Deposits` | `primitives/src/deposit.rs`, `system/`, `system_update/` (operators) | |
| `BatcherHash` | how the batcher address is written into the L1 info transaction and read back, by either L2 provider (operators of `L1Source` and `Attributes`) | |
| `Attributes` | `attributes_queue.rs`, `attributes/stateful.rs`, the providers it reads | a call of `next_attributes`, an execution, a signal |
| `SolanaRuntime` | system, token and metadata programs (external) | |
| `Instructions`, `Bridge` | `programs/`: layouts, instructions, processors (operators) | |
| `LiteSVM` | `executor/svm/src`: block set-up, checks, fees, rollback, sealing (operators) | |
| `Trie` | `proof/mpt/src` (operators) | |
| `Executor` | `proof/executor`, `executor/fraud`, `proof/proof/src/executor.rs` | a payload executed, or failing before the machine runs, at its set-up or at a trie update |
| `Oracle` | what the client may rely on | |
| `HostData`, `OracleClient` | keys, hints and what a hint stores; the requests of each provider operation, in order (operators) | |
| `Preimage` | `CachingOracle`, `OracleReader`, `HintWriter`, channels, both tasks of the host | one send, receive or fetch of one of the tasks |
| `L1Provider` | `l1provider/src/chain_provider.rs` | a call asks, is answered or stores; a step of the background thread; L1 mines, reorganises, finalizes |
| `MC...` | instances for TLC; `ChannelBank` and `L1Provider` need none, and `MCInflate` instantiates `SpanCodec` too | |
| `ChannelBankProofs`, `L1SourceProofs`, `BatchQueueProofs`, `StagesProofs`, `DriverProofs`, `PreimageProofs`, `L1ProviderProofs` | theorems about the module of that name | |
| `OracleClientProofs` | lemmas on the requests of each provider call, for `PreimageProofs` | |

Variables have the names of the fields. Others are the environment's, or history: `res`,
`out` and `emitted` hold what the last call returned, `got`, `lost` and `skipped` what has
been read of an L1 block, `drained` the last L1 block read to its end, `start` the last
reset, `built` the last executed block, `world` the accounts after the tip, `last` the
last block executed, `tainted` whether an update of the tries has failed before, `lost` (in
`Executor`) the accounts that cannot be read since a provider has failed, `stray` whether a
read of the block builder has failed, `early` the blocks the node gave while they were not
safe, `flushed` the channels that were given up. A definition introduced by `Mutant:` is the
faulty variant of the one that follows; no specification uses it.

Data are abstracted: L1 and L2 blocks are their numbers (with their fork in `L1Provider`)
and a hash is what it is the hash of, free of collisions. Frame numbers (u16) and batch
fields (u64) wrap at a small width, as the workspace is built without overflow checks. A
packed instruction is its bytes in a small base, a bitlist the bits of its bytes, a
compressed stream its bits with the alphabets as constants; where a conversion is not
what a property is about, it is left out.

## Runs

| run | bounds | shows |
|---|---|---|
| `channel_bank` | 2 channels, frame numbers 0..3, timeout 1, limit 4 frames, L1 blocks 0..3 | map and queue agree and `next_data` is never critical (`QueueMatchesMap`); the queue is in opening order (`TimedOutOnlyInFront`); emitted channels are whole and timely (`EmitsWholeChannel`); a ready channel leaves (`ReadyChannelLeaves`) |
| `l1_source` | all chains of 3 blocks of 4 kinds, either L2 provider, 1 failure, 1 reset | a block is left only when read (`BlockReadWhole`); once the origin has caught up the batcher is the one in force, or what the client's provider makes of it (`BatcherCaughtUp`); L1 is read to its end (`ReadsToTheEnd`) |
| `batch_queue` | 5 L1 blocks, window 2, 3 batches out of 21, 1 reset the stage did not ask for | the window is a run of L1 blocks aligned with the safe head (`WindowAligned`); accepted batches suit the attributes builder (`BatchFitsAttributes`); batches are forced only after the sequencing window (`ForcedAfterWindow`); the safe chain follows L1 (`EpochsAdvance`) |
| `driver` | timeout 1 (capacity 6), 8 L1 blocks with up to 2 batches, 1 reset, with and without a target | the tip is the last block built (`TipIsLastBuilt`), payloads are for it (`PayloadOnTip`), a reorg finds an anchor (`ReorgAnchored`), a driver with a target returns (`Returns`) |
| `stages` | 5 L1 blocks, 2 channels, 5 single batches, 6 spans, 3 batches, 1 signal | nothing of a dropped channel is delivered (`NothingAfterDrop`); assembled channels are whole and timely (`AssembledInTime`); the validator keeps track of the safe head's epoch (`ValidatorOnTrack`) |
| `inflate` | 9 streams, 3 sizes of input, 2 of output, a reset; channels of 1 to 3 batches; spans of up to 4 blocks, 7 lists of transactions, 2-bit bytes | the decompressor writes the data of the format and reads exactly its bytes (`InflateFaithful`); batches that fit twice the rest of their channel are all read, up to the first span, where the reader panics (`FittingBatchesRead`); a span decodes to what was encoded and decoding stops at its end (`RoundTrip`) |
| `batch_reader` | as `inflate` | violated: all batches of a channel are read (`BatchesRead`), see the finding |
| `attributes` | 2 L1 blocks after genesis of 7 kinds, 4 L2 blocks, 2 failures | deposits are executed once, in order, in the first block of their epoch (`DepositsOnce`); source hashes are distinct (`SourcesDistinct`); the config read back is the one in force (`ConfigReadBack`); the chain grows (`ChainGrows`) |
| `execution` | 3 blocks, 3 attempts, 3 users, one token, 23 payloads, 4 sets of unreadable accounts | roots and tries are those of all accounts (`TriesMatchState`); the newest block hashes are accepted (`RecentHashesAreLast`); withdrawals are stored as requested (`StoredAsRequested`), paid for (`WithdrawalsBacked`) and covered (`SharesCovered`); lamports are conserved (`LamportsConserved`); a nonce is used once (`NonceUsedOnce`) |
| `preimage` | 9 provider calls and 4 L2 blocks, 5 calls in a row, cache of 2, 1 failing fetch, online, or offline with a complete or incomplete store | `Preimage` implements `Oracle` (`OracleServed`); the channels are in step between requests (`PipesInSync`); every key is served under the hint that was sent (`HintsSuffice`); account data are those of the parent until a read fails (`AccountsCurrent`) |
| `l1_provider` | 3 blocks, 1 reorganisation, 1 failure, 2 heights at once, 1 client call | what is cached by number is at or below the finalized block, and on the chain unless its answer was overtaken (`CachedUnderFinalized`); no height is skipped (`ReceiptsFetched`); the thread catches up (`CatchesUp`) |
| `finalized_cache` | as `l1_provider` | violated: only finalized blocks are cached by number (`OnlyFinalizedCached`), see the finding |

The three parts of `inflate` do not interact and share one state space; the part that a
behaviour is about is chosen at the start.

`Preimage` is mapped to `Oracle` by its pending operation: the request is the key of a
`get` that is under way, and `Failed` once the client program has ended. A failed
operation ends the program only where the code hands the error up to its end: in boot, in
the cursor and in the pipeline, where it is critical. In the block builder it does not
(`Fail`): an account is taken for missing (`executor/svm/src/accounts_db.rs:124`), and after
any other error the driver goes on with the next payload (`protocol/driver/src/core.rs:116`).
The client then asks for anything a builder may ask for (`BuilderCalls`), since what the
transactions do with the accounts they find is not known here, and the oracle has to answer
as before. `Executor` is where the consequences are followed: there `Losses` are the accounts
that cannot be read after a failure, and the machine runs without them.

Some properties name exceptions, which are what the code does: `BlockReadWhole` leaves
out lost and skipped commitments (deviations below); `BatcherCaughtUp` allows the client
program the address its provider reads back, as long as L1 has brought no update since the
reset (deviations below); `WindowAligned`, `EpochsAdvance`
and `ValidatorOnTrack` are stated for resets to a block from which the safe head can be
continued (`GoodStart`); `BatchFitsAttributes` leaves out the genesis safe head, on which
the epoch hash is not checked; `ValidatorOnTrack` excepts a span that overlaps the safe
chain and disagrees with it, since the overlap checks are commented out, and a span of an
epoch that was given up: when the next L1 block leaves no time for another empty batch
`try_derive_empty_batch` drops the safe head's epoch from the window, and a call at the
same origin, where the sequencing window has just not passed, still lets a span of that
epoch through to the conversion (`EpochGivenUp`);
`LamportsConserved` excepts the fees of transactions refused before they had a context,
which nobody pays and the leader receives; all properties of `Executor` that relate two
blocks except what follows a failed update of the tries (`tainted`). An account that could
not be fetched makes a difference to three of them: `LamportsConserved` and
`WithdrawalsBacked` do not hold if such an account is written (`LostUntouched`), since it is
written as if it had been empty, and `StoredAsRequested` is stated for blocks that could read
all accounts, since without its program the L1 info transaction is refused and the block is
built without it. The others hold whatever is lost. `HintsSuffice` excepts blobs, which the host
does not serve, and proactive hints whose fetch failed; no hint is proactive as the host is
built, and the instance makes one so. `AccountsCurrent` says nothing after a failed read.
`ConfigReadBack` is checked with the online L2 provider. `CachedUnderFinalized` leaves out
blocks the node gave before they were safe: these are the blocks of the finding.

### Bounds

Two channels are enough for one to overtake, prune or hide another; four frame numbers
let the closing frame come first, last and in between and reach the width at which
`last_frame_number + 1` wraps; with three L1 blocks past the first and a timeout of 1 a
channel is opened, times out and is opened again. Three L1 blocks give a first, a middle
and a last one; the four kinds have several frames, data that do not parse, foreign
transactions and batcher updates. With a window of 2, five L1 blocks let the window pass
for the first epochs; the 21 batches are valid ones for the first safe heads and one for
each check that may fail. Eight L1 blocks exceed the cursor's capacity of 6. The spans of
`stages` continue, overlap, contradict and skip ahead of the safe chain; two of its L1
blocks are a single L2 block time apart, so that an epoch can be given up, and with a drift
of 2 both sides of the drift check are met. With bytes of two bits
four blocks of a span need two bytes of every bitlist. The streams of `inflate` use stored, static
and dynamic blocks, codes longer than the lookup table, both repeats, matches that
overlap themselves and wrap around the window, and each error; the input is fed byte by
byte, in pieces and at once. The payloads of `execution` include each instruction, failing
and succeeding, and an account whose destruction collapses a branch onto a child nobody
has opened; three blocks go past the two block hashes that are kept. The sets of accounts
that cannot be read are none, the vault, a nonce and a program, the leader, a counter and
sysvars that have a default, and all but the system program, without which the set-up fails.
The L2 blocks of `preimage` read an account that changed, destroy one and meet a block without
a bank hash; its incomplete stores lack an account or a bank hash; five calls in a row
evict from a cache of two, and go on after a failure. Three L1 blocks and two heights at once let one of two fetches
fail and a reorganisation hit a block that is being fetched. These are instances: outside
the theorems below nothing is claimed for larger ones.

### Fairness

The driver calls the pipeline in a loop until it returns, so the calls are weakly fair.
Beyond that, `BatchQueue` assumes that a channel and an L1 block come to an end, that
the origin can be advanced and a block built if they are tried again and again (strong
fairness of `AdvanceOrigin` and `BuildBlock`: providers and executor do not fail for
ever), and that a reset error is answered by a reset, as `produce_payload` does.
`L1Source`, `Attributes`, `Preimage` and `L1Provider` bound failures by `MaxFailures`.
`Driver` assumes weak fairness of each kind of step, that is, that temporary errors end;
executions may fail for ever, and the driver still returns as L1 ends. `Attributes` is
fair to its three kinds of call, as the loop of the driver is. In `Preimage` client and
host tasks are scheduled by an executor that polls every task that is ready: weak
fairness of each. In `L1Provider` the thread and its requests run (weak fairness); the
interval after which it asks for the head passes (strong fairness, as the condition is
read once a pass and every pass sleeps at least 300 ms); callers of the provider and L1
itself are not assumed to do anything.

Deadlock is checked but in `stages`, `inflate` and `batch_reader`, which end
with their inputs, and `l1_provider` and `finalized_cache`, whose thread may be told to exit. A driver that has
returned stutters (`Done`).

## Theorems

TLC checks the instances above; the theorems hold for every value of the constants that
meets the ASSUMEs of the modules, which TLC evaluates on every run. These say that
numbers are naturals, that the sets an action chooses from hold values of their type, and
what a well-formed world is: L1 timestamps grow, frames have a positive size, a block time
and a sequencing window are not 0, safe blocks are numbered in a row (`SafeAssumption`), the
blocks of a span are a block time apart and their epochs never go back and never skip one,
as `RawSpanBatch::derive` makes them (`SpansAssumption`), the client makes calls of its
providers (`ProvidersAssumption`), no operation of the pipeline's providers is one of the
builder's (`CallsAssumption`) and an address invented for a proof is no account
(`MockAssumption`). Further hypotheses are named with the theorem.

| theorem | property | beyond the ASSUMEs |
|---|---|---|
| `ChannelBankProofs!TypeCorrect` | `TypeOK` | |
| `ChannelBankProofs!QueueAndMapAgree` | `QueueMatchesMap` | |
| `ChannelBankProofs!BufferedChannelsWellFormed` | `ChannelsWellFormed` | |
| `ChannelBankProofs!OldestFirst` | `TimedOutOnlyInFront` | |
| `ChannelBankProofs!EmitsOnlyWholeChannels` | `EmitsWholeChannel` | |
| `L1SourceProofs!BatcherFollowsL1` | `BatcherCaughtUp`, for either L2 provider | |
| `L1SourceProofs!NothingCarriedOver` | the origin leaves a block only when queue, source and retrieval are empty | |
| `L1SourceProofs!BlocksReadWhole` | `BlockReadWhole` | |
| `BatchQueueProofs!TypeCorrect` | `TypeOK` | |
| `BatchQueueProofs!StaysAligned` | `WindowAligned` | |
| `BatchQueueProofs!AcceptedFitsAttributes` | `BatchFitsAttributes` | |
| `BatchQueueProofs!ForcesAfterWindow` | `ForcedAfterWindow` | `MaxL1 + SeqWindow` is a u64 |
| `StagesProofs!DroppedStaysDropped` | `NothingAfterDrop` | |
| `StagesProofs!AssemblesInTime` | `AssembledInTime` | |
| `StagesProofs!StaysOnTrack` | `ValidatorOnTrack` | `SeqWindow >= 2`, `MaxL1 + SeqWindow` is a u64 |
| `DriverProofs!TypeCorrect` | `TypeOK` | |
| `DriverProofs!BuildsOnLastBuilt` | `TipIsLastBuilt` | |
| `DriverProofs!ExecutesOnTip` | `PayloadOnTip` | |
| `DriverProofs!ResetHasAnchor` | `ReorgAnchored` | |
| `PreimageProofs!ChannelsInSync` | `PipesInSync` | |
| `PreimageProofs!ImplementsOracle` | `O!Safety`, the safety part of `OracleServed` | |
| `PreimageProofs!HintsEnough` | `HintsSuffice` | |
| `PreimageProofs!AccountsStayCurrent` | `AccountsCurrent` | |
| `L1ProviderProofs!CachesUnderFinalized` | `CachedUnderFinalized` | |
| `L1ProviderProofs!HeightsAreFetched` | `ReceiptsFetched` | |

No property is inductive as it stands. Each module has an inductive invariant `IInv`, which
TLC was made to check on the instance of the run before it was proved; a lemma per action
says that the action keeps it, and `NextIInv` combines them.

- `ChannelBank`: that a look at the first channel finds every timeout needs the queue in
  opening order; that the order survives needs each id once in the queue and in the map;
  that a ready channel is whole needs what `add_frame` keeps of each channel: its closing
  frame is its highest. The bank changes in four ways, each with a lemma (`ReplaceOk`,
  `AppendOk`, `PopsOk`, `RemoveOk`); `PruneOk` shows that prune stops in a good bank, since
  an empty one has size 0.
- `L1Source`: the batcher address is still the one of the epoch of the last reset, and no
  block walked since has changed it, or it is that of the last block that did (`ConfigOk`);
  what a reset reads is what was written, with the provider over RPC (`OnlineReadsBack`).
  `ReadInv` follows the frames of the origin on their way: from some pull on each has been
  returned, is in the queue or in the calldata, or will be loaded, in L1 order, unless its
  commitment was dropped. That `LoadCalldata` lists the batcher's transactions in order is a
  lemma on its recursive function, by way of a least counterexample.
- `BatchQueue` and `Stages`: the window is a run of L1 blocks that ends at the origin;
  where it starts follows from the last reset (`AlignOk`). The records that go down the stack
  of `Stages` in one call keep `StackOk`: what is buffered comes from the channel that is
  being read, and that one has not been given up. A critical error of the validator is a
  span that `check_batch_prefix` accepted and `get_singular_batches` could not convert
  (`Refused`). `Conversion` says which these are: the prefix checks put the epochs of the new
  blocks between that of the safe head and the origin (`NewEpochs`), the window holds these
  unless it starts late, and the search for origins never passes one that is there
  (`OriginsFound`, by a least counterexample of the recursion). `StaysOnTrack` excludes a sequencing
  window of one L1 block: `try_derive_empty_batch` may then leave a window of one block, on
  which a second call at the same origin is a critical error (TLC finds it with
  `SeqWindow = 1` and `BlockTime = 3` in `MCStages.cfg`).
- `Driver`: the origin the cursor was last advanced to is the largest of its keys, the queue
  of origins holds every key, and the cache has its first entry or is nearly full
  (`CursorOk`); that the fork of a deep reorg has an anchor is then a count of entries.
- `Preimage`: for each thing the client may wait for, its one message is in a channel, with
  a task, or answered (`HintUnderWay`, `RequestUnderWay`, `DataUnderWay`), and an entry of
  store, cache or channel is a preimage of its key. In particular only the empty preimage
  has length 0, so a length of 0 means that nothing follows. `StepRefines` maps each action
  to `Ask`, `Serve`, `Fail`, `End` or no step of `Oracle`. That calls are sequences of operations
  whose hints have a type of `HintType` is an ASSUME (`CallsAssumption`). For the hints a second
  part, `HInv`, says that what the rest of the call asks for is in the store, or will be fetched
  by the hint that stands last before it (`Covered`); it rests on lemmas of `OracleClientProofs`
  that go through the requests of each provider call. A third, `TodoFits`, says of the same
  requests that an account proof is asked for the block before the one being built and never for
  an account in its diff; with it `AccountsCurrent` follows, since the data of an account that no
  block has written are those of the agreed block. The three are one invariant, `ProgramInv`,
  proved in one theorem (`Invariance`), as each needs the others: `TodoFits` holds as long as no
  operation of the builder has failed, `HInv` says that with an online host none does
  (`OnlineServes`), and that in turn takes the requests `TodoFits` speaks of.
- `L1Provider`: what the node guarantees, the caches, the published block, each call under
  way by itself (`CallOk`), and which calls the thread has under way at each point of its
  loop (`TaskOk`).

Only model-checked:

- liveness (`ReadyChannelLeaves`, `ReadsToTheEnd`, `EpochsAdvance`, `Returns`, `ChainGrows`,
  `CatchesUp` and the fairness part of `OracleServed`), which the prover does not reason about;
- `RoundTrip`: it compares an encoder with a decoder over columns and bitlists of any length,
  which takes induction over data;
- all of `Attributes`: the config is what a fold over logs leaves and deposits are filtered from
  receipts, so the properties rest on what recursions over sequences compute;
- all of `Executor`, `Decompress` and `BatchReader`: `Trie` and `Inflate` are recursive
  operators, which the prover's SMT translation does not take.

## Deviations

Where a doc, a comment or a test of the repository says something else than the code
does. The first two have runs of their own, `batch_reader` and `finalized_cache`; the others
are found by TLC when the property is added to the configuration named.

| configuration, property | what the code does |
|---|---|
| `MCBatchReader.cfg`, `BatchesRead` | `decompress_to_vec_inner` reports the input of its last call only, so the `BatchReader` loses the batches behind one that has outgrown the first buffer |
| `FinalizedCache.cfg`, `OnlyFinalizedCached` | `block_info_by_number` compares the number of the header it was given with a finalized block read afterwards (`l1provider/src/chain_provider.rs:275`), so a header that is reorganised away while its answer is under way is cached for ever; "only cache the block info if it is finalized" (`:272`) |
| `MCBatchReader.cfg`, `EveryTypeRead` | a span batch ends the program (`channel_reader.rs:234`); "the batch reader can read every batch-type" (`channel_reader.rs:172`) |
| `MCStages.cfg`, `SpanBlocksDelivered` | the blocks of a span leave the conversion without a parent hash, and the `BatchValidator` passes over them; the parent hash "is populated by the Batch Queue stage" (`span_batch/batch.rs:378`), which is not above the `BatchStream` |
| `ChannelBank.cfg`, `BufferedWithinLimit` | `add_frame` subtracts the size of frames it keeps (`primitives/src/da/channel.rs:131`), so the bank holds more than its limit; "the channel bank is not allowed to become too large between successive calls" (`channel_bank.rs:39`) |
| `MCL1Source.cfg`, `TemporaryErrorsLoseNothing` | a commitment is popped before its lookup (`sources/da_server.rs:56`) and a temporary failure loses it; "we retry the step" (`protocol/driver/src/pipeline.rs:47`). It takes a DA provider whose errors are temporary, as those of `da-provider` are |
| same, `BatcherInForce` | the client's L2 provider reads the batcher address back wrong, so the first reset leaves a batcher in `L1Traversal` that is not the one in force until L1 brings an update; "Reset the pipeline to populate the initial system configuration in L1 Traversal" (`proof/proof/src/l1/pipeline.rs:81`) |
| same, `ResetStartsOver` | `L1Retrieval::signal` (`l1_retrieval.rs:131`) does not clear the source, a reset continues in mid-block; a reset "effectively clears the internal state of each stage" (`pipeline/core.rs:86`) |
| `MCBatchQueue.cfg`, `ReturnsValidBatch` | once the queue has advanced the epoch ahead of the safe head (`batch_queue.rs:237`), it accepts a batch that skips this epoch, and the attributes builder resets; "Returns the next valid batch upon the given safe head" (`batch_queue.rs:283`) |
| same, `StartThrownOut` | a reset to the block just before the safe head's L1 origin ends in a second reset; "During normal resets we will later throw out this block" (`batch_queue.rs:448`) |
| same, `RetryMakesProgress` | the driver resets to the current origin; past the block after the safe head's L1 origin it resets for ever; "Reset the pipeline to the initial L2 safe head and L1 origin, and try again" (`protocol/driver/src/pipeline.rs:78`) |
| same, `L2TimeInvariant` | the checks of L2 time >= L1 time are commented out (`single_batch.rs:110`, `stateful.rs:139`), which other comments rely on (`batch_queue.rs:206`) |
| `MCAttributes.cfg` with `Provider = "oracle"`, `ConfigReadBack` | the oracle's L2 provider reads the batcher from bytes 12..32 of the hash, big-endian (`proof/proof/src/l2/chain_provider.rs:171`), where the builder wrote it little-endian into the first 20 (`primitives/src/deposit.rs:362`), as the online provider expects (`l2provider/src/chain_provider.rs:307`) |
| `MCExecutor.cfg`, `FailedTxReported` | a failed transaction whose payer is known is reported as successful once its fee is burnt (`executor/svm/src/lib.rs:784`); `executor/svm/tests/fees.rs:60` expects an error |
| same, `ExecutorStateless` | after an update of the tries that failed half way the retry builds on the half-updated tries; "Since the L2 block executor is stateless, ... a new executor is created" (`proof/proof/src/executor.rs:71`) |

An account or a sysvar whose fetch fails is taken for one that does not exist
(`executor/svm/src/accounts_db.rs:124`, `:98`): no comment says otherwise, and `Executor`
models it. Two more were met without a model of their own: `eth_provider.rs:91` of `l1provider` fills
the hash of a transaction with that of its block, where `base_provider.rs:93` takes the
transaction's; and `is_background_task_running` is never set, so a second
`start_background_task` starts a second thread.

## Not modelled

The blob source, which `EthereumDataSource` does not use. Compression and channel out,
behind a feature that is off. The FPVM kernel, command line, start-up and RPC calls: I/O
without a protocol of their own. Bytecode execution, compute budgets and program loading
of the SVM. `frame_queue`'s `prune`, which is never active in this build. `L1Traversal`'s
`ReorgDetected` is represented by its effect, a reset. In `BatchQueue`, `next_spans`,
which is empty as long as the `BatchReader` refuses spans, and the `Activation` and
`FlushChannel` signals, which this driver does not send. The cursor's
`safe_head_artifacts`, which nothing reads, and eviction from the caches of `L1Provider`.
`SpanBatch::check_batch`, which only the `BatchQueue` calls, for spans the reader below it
refuses. In `Executor`, a failed fetch of the rent sysvar or of the system program; that an
account read before the failure is asked for again once 1024 others have been cached; and a
loader that cannot be read apart from its programs.
The groups of stages (`L1Source`, `ChannelBank`, `BatchQueue` or `Stages`, `Attributes`,
`Driver`) are each checked against an environment that covers the others and are not
composed into one module.

## Plan

1. `L1Source`, `ChannelBank` and `BatchQueue` composed: that `Eof` from below means that the
   L1 block is read, now an assumption of `BatchQueue`, becomes a refinement.
2. The columns of `SpanCodec` as functions of the block index, towards a proof of `RoundTrip`
   column by column.
