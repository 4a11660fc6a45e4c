------------------------------- MODULE L1Source -------------------------------
(***************************************************************************)
(* The front end of the derivation pipeline: L1Traversal walks the L1      *)
(* chain, L1Retrieval reads the batcher's transactions of a block through  *)
(* DAServerSource (a CalldataSource whose calldata are commitments, looked *)
(* up at the DA server), FrameQueue parses the data into frames.           *)
(*                                                                         *)
(* A call of FrameQueue::next_frame pulls through all of these stages and  *)
(* is one action.  The pipeline advances the origin when a call has        *)
(* returned Eof (pipeline/core.rs), and the driver resets the stages to    *)
(* the current origin on a reset error of a later stage                    *)
(* (driver/src/pipeline.rs).  Every call to a provider may fail with a     *)
(* temporary error, after which the driver steps again.                    *)
(*                                                                         *)
(* L1 blocks are their numbers.  A transaction is what the stages look at: *)
(* whether it is sent to the inbox, by whom, and how many frames its data  *)
(* at the DA server parse to (0: they do not parse).                       *)
(***************************************************************************)
EXTENDS BatcherHash, Functions

CONSTANTS L1Head,        \* number of the last L1 block the providers know
          Batchers,      \* batcher addresses
          L1Blocks,      \* the blocks that may occur: records [txs, update]
          NoUpdate,      \* block.update when its receipts change no batcher address
          MaxFailures,   \* bound: provider calls that fail in a behaviour
          MaxResets      \* bound: reset signals in a behaviour

ASSUME L1HeadAssumption == L1Head \in Nat
ASSUME BatchersAssumption ==
    Batchers # {} /\ \A a \in Batchers : a \in Seq(Nat) /\ Len(a) = AddressLength
ASSUME L1BlocksAssumption ==
    \A b \in L1Blocks : /\ b.update \in Batchers \cup {NoUpdate}
                        /\ b.txs \in Seq(Range(b.txs))
                        /\ \A i \in DOMAIN b.txs : /\ b.txs[i].inbox \in BOOLEAN
                                                   /\ b.txs[i].from \in Batchers
                                                   /\ b.txs[i].frames \in Nat

VARIABLES provider,         \* the L2ChainProvider the pipeline is built with
          l1,               \* the L1 chain, fixed by the L1 head
          block,            \* L1Traversal.block
          done,             \* L1Traversal.done
          system_config,    \* L1Traversal.system_config.batcher_address
          next,             \* L1Retrieval.next, or NoBlock
          open,             \* CalldataSource.open
          calldata,         \* CalldataSource.calldata: <<block, index>> of a transaction
          queue,            \* FrameQueue.queue: <<block, index, k>> of a frame
          res,              \* result of the last call
          got,              \* frames returned since the last advance or reset
          lost,             \* commitments of this block taken by a failed DA lookup
          skipped,          \* commitments of this block taken before the last reset
          start,            \* the last reset: L1 origin and epoch of the L2 safe head
          failures, resets

retrieval == <<next, open, calldata>>
history == <<got, lost, skipped, start>>
env == <<provider, l1>>
vars == <<env, block, done, system_config, retrieval, queue, res, history, failures, resets>>

NoBlock == -1
Blocks == 0 .. L1Head

\* The batcher address in force after block b (an update stays in force).
InForce(b) ==
    LET S == {u \in 0 .. b : l1[u].update # NoUpdate}
    IN  IF S = {} THEN CHOOSE a \in Batchers : TRUE
        ELSE l1[CHOOSE u \in S : \A v \in S : v <= u].update

\* Mutant: the update of a block is lost.
UpdateNever(config, b) == config

\* SystemConfig::update_with_receipts, on the receipts of block b.
UpdateWithReceipts(config, b) == IF l1[b].update = NoUpdate THEN config ELSE l1[b].update

\* system_config_by_number of an L2 safe head of the epoch e, which was built with the address
\* in force there.
system_config_by_number(e) == ReadBack(provider, InForce(e))

\* The pipeline is built with a reset to the L1 origin of the L2 safe head minus the
\* channel timeout, and takes the system config of the safe head.
Init ==
    /\ provider \in Providers
    /\ l1 \in [Blocks -> L1Blocks]
    /\ block \in Blocks
    /\ \E e \in block .. L1Head : /\ system_config = system_config_by_number(e)
                                 /\ start = [origin |-> block, epoch |-> e]
    /\ done = FALSE
    /\ next = block
    /\ open = FALSE /\ calldata = <<>> /\ queue = <<>>
    /\ res = "None" /\ got = <<>> /\ lost = {} /\ skipped = {}
    /\ failures = 0 /\ resets = 0

\* CalldataSource::load_calldata: the batcher's transactions to the inbox.
LoadCalldata(b, batcher_address) ==
    LET txs == l1[b].txs
        load[i \in 0 .. Len(txs)] ==
          IF i = 0 THEN <<>>
          ELSE IF txs[i].inbox /\ txs[i].from = batcher_address THEN Append(load[i - 1], <<b, i>>)
          ELSE load[i - 1]
    IN  load[Len(txs)]

\* Frame::parse_frames of the data a commitment stands for.
ParseFrames(t) == [k \in 1 .. l1[t[1]].txs[t[2]].frames |-> <<t[1], t[2], k>>]

\* The block L1Retrieval reads: its own, or the one next_l1_block returns.
CurrentBlock == IF next # NoBlock THEN next ELSE IF done THEN NoBlock ELSE block

\* The source's data once it has been opened.
OpenedCalldata == IF open THEN calldata ELSE LoadCalldata(CurrentBlock, system_config)

\* What every pull that reaches the source does first.
Pull ==
    /\ queue = <<>>
    /\ CurrentBlock # NoBlock
    /\ done' = (done \/ next = NoBlock)

Fail ==
    /\ failures < MaxFailures
    /\ failures' = failures + 1
    /\ res' = "Err"

\* next_frame with frames left in the queue: load_frames returns early.
PopFrame ==
    /\ queue # <<>>
    /\ queue' = Tail(queue)
    /\ got' = Append(got, Head(queue))
    /\ res' = "Frame"
    /\ UNCHANGED <<env, block, done, system_config, retrieval, lost, skipped, start, failures, resets>>

\* Mutant: the Eof becomes another temporary error, on which step does not advance.
NoMoreBlocksRetry ==
    /\ queue = <<>>
    /\ CurrentBlock = NoBlock
    /\ res' = "Err"
    /\ UNCHANGED <<env, block, done, system_config, retrieval, queue, history, failures, resets>>

\* next_l1_block has already handed over the block: its Eof is passed on.
NoMoreBlocks ==
    /\ queue = <<>>
    /\ CurrentBlock = NoBlock
    /\ res' = "Eof"
    /\ UNCHANGED <<env, block, done, system_config, retrieval, queue, history, failures, resets>>

\* load_calldata fails: L1Retrieval keeps the block it is reading.
LoadFails ==
    /\ Pull /\ Fail
    /\ ~open
    /\ next' = CurrentBlock
    /\ UNCHANGED <<env, block, system_config, open, calldata, queue, history, resets>>

\* Mutant: L1Retrieval does not clear the source.
BlockExhaustedOpen ==
    /\ Pull
    /\ OpenedCalldata = <<>>
    /\ next' = NoBlock /\ open' = TRUE /\ calldata' = <<>>
    /\ res' = "Eof"
    /\ UNCHANGED <<env, block, system_config, queue, history, failures, resets>>

\* No calldata left: Eof, L1Retrieval forgets the block and clears the source.
BlockExhausted ==
    /\ Pull
    /\ OpenedCalldata = <<>>
    /\ next' = NoBlock /\ open' = FALSE /\ calldata' = <<>>
    /\ res' = "Eof"
    /\ UNCHANGED <<env, block, system_config, queue, history, failures, resets>>

\* The source has popped a commitment.
TakeCommitment ==
    /\ Pull
    /\ OpenedCalldata # <<>>
    /\ next' = CurrentBlock /\ open' = TRUE /\ calldata' = Tail(OpenedCalldata)

\* DAServerSource::next: the lookup of the commitment fails.
LookupFails ==
    /\ TakeCommitment /\ Fail
    /\ lost' = lost \cup {Head(OpenedCalldata)}
    /\ UNCHANGED <<env, block, system_config, queue, got, skipped, start, resets>>

\* The data are parsed: the frames go to the queue and the first is returned, or the data
\* do not parse and next_frame returns NotEnoughData.
LoadFrames ==
    /\ TakeCommitment
    /\ LET frames == ParseFrames(Head(OpenedCalldata))
       IN  IF frames = <<>>
           THEN UNCHANGED <<queue, got>> /\ res' = "Err"
           ELSE queue' = Tail(frames) /\ got' = Append(got, Head(frames)) /\ res' = "Frame"
    /\ UNCHANGED <<env, block, system_config, lost, skipped, start, failures, resets>>

NextFrame ==
    PopFrame \/ NoMoreBlocks \/ LoadFails \/ BlockExhausted \/ LookupFails \/ LoadFrames

\* L1Traversal::advance_origin, called by step when next_attributes has returned Eof.
AdvanceOrigin ==
    /\ res = "Eof"
    /\ IF block = L1Head
       THEN res' = "EndOfSource" /\ UNCHANGED <<block, done, system_config, got, lost, skipped>>
       ELSE /\ block' = block + 1
            /\ done' = FALSE
            /\ system_config' = UpdateWithReceipts(system_config, block + 1)
            /\ got' = <<>> /\ lost' = {} /\ skipped' = {}
            /\ res' = "None"
    /\ UNCHANGED <<env, retrieval, queue, start, failures, resets>>

\* advance_origin cannot fetch the next block or its receipts.
AdvanceFails ==
    /\ res = "Eof" /\ block # L1Head
    /\ Fail
    /\ UNCHANGED <<env, block, done, system_config, retrieval, queue, history, resets>>

\* Reset signal, from the bottom stage up: L1Traversal, L1Retrieval (which does not clear
\* its source) and FrameQueue. The driver passes the current origin and the system config
\* of its L2 safe head.
Reset ==
    /\ resets < MaxResets
    /\ resets' = resets + 1
    /\ \E e \in Blocks : system_config' = system_config_by_number(e) /\ start' = [origin |-> block, epoch |-> e]
    /\ done' = FALSE
    /\ next' = block
    /\ queue' = <<>>
    /\ got' = <<>> /\ lost' = {}
    /\ skipped' = IF open THEN ({block} \X DOMAIN l1[block].txs) \ Range(calldata) ELSE {}
    /\ res' = "None"
    /\ UNCHANGED <<env, block, open, calldata, failures>>

Next == NextFrame \/ AdvanceOrigin \/ AdvanceFails \/ Reset

\* The driver keeps stepping the pipeline.
Spec == Init /\ [][Next]_vars /\ WF_vars(NextFrame) /\ WF_vars(AdvanceOrigin)
-----------------------------------------------------------------------------
\* Types of the stages' fields.
TypeOK ==
    /\ block \in Blocks /\ done \in BOOLEAN /\ system_config \in Seq(Nat)
    /\ next \in Blocks \cup {NoBlock} /\ open \in BOOLEAN
    /\ calldata \in Seq(Blocks \X (Nat \ {0}))
    /\ queue \in Seq(Blocks \X (Nat \ {0}) \X (Nat \ {0}))
    /\ res \in {"None", "Frame", "Eof", "Err", "EndOfSource"}
    /\ failures \in 0 .. MaxFailures /\ resets \in 0 .. MaxResets

\* The frames a batcher has sent in block b, but those of the transactions D.
FramesOfBlock(b, batcher, D) == UNION {Range(ParseFrames(t)) : t \in Range(LoadCalldata(b, batcher)) \ D}

\* Of two frames of a block, the order of their transactions and in the data of these.
Earlier(f, g) == f[2] < g[2] \/ (f[2] = g[2] /\ f[3] < g[3])

\* From some point on all the frames of the block but those of D have been returned, each once
\* and in L1 order. They may have been returned before that too: after a reset next_l1_block
\* hands over the block L1Retrieval has already read, unless the first Eof has made the
\* pipeline advance.
ReadWhole(D) ==
    LET frames == FramesOfBlock(block, system_config, D)
    IN  \E n \in 0 .. Len(got) :
          /\ \A f \in frames : \E j \in n + 1 .. Len(got) : got[j] = f
          /\ \A i, j \in n + 1 .. Len(got) :
               i < j /\ {got[i], got[j]} \subseteq frames => Earlier(got[i], got[j])

\* The origin only leaves a block when all the frames of its batcher transactions have been
\* returned since the origin reached it or was reset to it, except those of a commitment
\* whose lookup failed, or that a source still open at a reset had already taken.
BlockReadWhole == [][block' # block => ReadWhole(lost \cup skipped)]_vars

\* A temporary error, "an error that's expected, and is temporary", costs no data: the
\* driver retries the step after a failed lookup at the DA server.
TemporaryErrorsLoseNothing == [][block' # block => ReadWhole(skipped)]_vars

\* A reset, which "clears the internal state of each stage", has the stages read its origin
\* from the first transaction on.
ResetStartsOver == [][block' # block => ReadWhole(lost)]_vars

\* The comment in OraclePipeline::new on its first reset: "Reset the pipeline to populate the
\* initial system configuration in L1 Traversal." When the origin has caught up with the epoch of
\* the safe head, the address the data are filtered by is the one in force on L1. With the
\* provider of the client program it is not: a deviation (see the README).
BatcherInForce ==
    (start.origin <= start.epoch /\ start.epoch <= block) => system_config = InForce(block)

\* A reset takes the batcher address of the L2 safe head's epoch, but walks L1 from an earlier
\* block. When the origin has caught up with that epoch, L1Traversal filters by the address in
\* force on L1, although updates in between were applied to a config that already had them. The
\* exception is a client program that has met no update since: it filters by the address its
\* provider has read back, whose bytes are not those of the one in force.
BatcherCaughtUp ==
    (start.origin <= start.epoch /\ start.epoch <= block) =>
      \/ system_config = InForce(block)
      \/ /\ provider = "oracle" /\ \A u \in start.origin + 1 .. block : l1[u].update = NoUpdate
         /\ system_config = ReadBack("oracle", InForce(block))

\* The stages never wedge: the L1 chain is read to its end.
ReadsToTheEnd == <>(res = "EndOfSource")
=============================================================================
