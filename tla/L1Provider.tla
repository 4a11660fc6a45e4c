----------------------------- MODULE L1Provider -----------------------------
(***************************************************************************)
(* L1ChainProvider (l1provider/src/chain_provider.rs): the L1 data of a    *)
(* node, cached in memory and shared by the callers of its methods and a   *)
(* background thread that publishes the head, the safe and the finalized   *)
(* block and fetches receipts ahead of the derivation.                     *)
(*                                                                         *)
(* A block is <<number, fork>>, which stands for its hash and its header.  *)
(* Calls are concurrent: a call looks a cache up, asks the node, and later *)
(* has the answer and stores it. The L1 node (external) may reorganise the *)
(* blocks that are not finalized, and a new safe block finalizes the one   *)
(* before it. The clock is modelled by the two intervals having elapsed.   *)
(* The caches hold more blocks than the bounds allow: none is evicted.     *)
(* header_by_hash_cache, by hash as well, is like that of the receipts and *)
(* left out.                                                               *)
(***************************************************************************)
EXTENDS Integers, Sequences, FiniteSets

CONSTANTS
  None,          \* no block
  Concurrency,   \* get_concurrency_level: heights that are fetched at once
  Delay,         \* derive_delay_l1_block_num
  StartHeight,   \* next_fetch_block_receipt_height given to start_background_task
  StartBlocks,   \* length of the L1 chain at the start
  MaxBlocks,     \* bound: length of the L1 chain
  MaxForks,      \* bound: reorganisations
  MaxFailures,   \* bound: requests that fail
  MaxCalls       \* bound: calls of the client

ASSUME L1ProviderAssumption ==
  /\ Concurrency \in Nat \ {0} /\ Delay \in Nat /\ StartHeight \in Nat
  /\ StartBlocks \in Nat \ {0}

VARIABLES
  chain, safe, finalized, forks,              \* the L1 node: its blocks, two block numbers, reorganisations
  receipts_by_hash_cache, block_info_by_number_cache,   \* sets of blocks
  latest_head, latest_safe, latest_finalized, \* latest_head_block_info ...
  next_fetch_block_receipt_height,
  task,       \* the background thread: where it is, latest_number, next_fetch_height
  head_due, finalize_due,                     \* the intervals have elapsed
  calls,      \* calls under way, by name
  failures, served,
  early       \* history: the blocks the node has given while they were above its safe block

l1 == <<chain, safe, finalized, forks>>
caches == <<receipts_by_hash_cache, block_info_by_number_cache>>
published == <<latest_head, latest_safe, latest_finalized>>
background == <<task, head_due, finalize_due, next_fetch_block_receipt_height>>
bounds == <<failures, served, early>>
vars == <<l1, caches, published, background, calls, bounds>>

Latest == Len(chain) - 1
BlockAt(n) == chain[n + 1]
OnChain(b) == b[1] <= Latest /\ BlockAt(b[1]) = b

\* names of calls; the background thread fetches several heights at once
CLIENT == <<"client">>
HEAD == <<"head">>
SAFE == <<"safe">>
FINALIZED == <<"finalized">>
FETCH(h) == <<"fetch", h>>

\* LruCache::put; a cache by number has one block of a number
Put(cache, b) == cache \cup {b}
PutNumber(cache, b) == {c \in cache : c[1] # b[1]} \cup {b}

-----------------------------------------------------------------------------
\* The L1 node

Mine ==
  /\ Len(chain) < MaxBlocks
  /\ chain' = Append(chain, <<Len(chain), forks>>)
  /\ UNCHANGED <<safe, finalized, forks, caches, published, background, calls, bounds>>

\* the blocks above n are replaced, by one block for now
Reorganise(n) ==
  /\ forks < MaxForks /\ n < Latest
  /\ forks' = forks + 1
  /\ chain' = Append(SubSeq(chain, 1, n + 1), <<n + 1, forks + 1>>)
  /\ UNCHANGED <<safe, finalized, caches, published, background, calls, bounds>>

Justify(s) ==
  /\ safe < s /\ s <= Latest
  /\ safe' = s /\ finalized' = safe
  /\ UNCHANGED <<chain, forks, caches, published, background, calls, bounds>>

L1Node == Mine \/ (\E n \in safe .. Latest : Reorganise(n)) \/ (\E s \in 1 .. Latest : Justify(s))

-----------------------------------------------------------------------------
\* Calls. The client's call ends when it returns; pre_fetch_receipts has the block and asks for
\* its receipts. The operation is that of block_info_by_number of a number, of the safe or of the
\* finalized block, or receipts_by_hash of a block.

Call(op, arg) == [op |-> op, arg |-> arg, pc |-> "lookup", block |-> None]
With(c, call) == [d \in DOMAIN calls \cup {c} |-> IF d = c THEN call ELSE calls[d]]
Ended(S) == [c \in DOMAIN calls \ S |-> calls[c]]
Returned(c, b) ==
  IF c = CLIENT THEN Ended({CLIENT})
  ELSE IF c[1] = "fetch" /\ calls[c].op = "number" THEN With(c, Call("receipts", b))
  ELSE With(c, [calls[c] EXCEPT !.pc = "returned", !.block = b])

\* the block in the cache of the call, if any
Cached(call) ==
  CASE call.op = "number" -> {b \in block_info_by_number_cache : b[1] = call.arg}
    [] call.op = "receipts" -> receipts_by_hash_cache \cap {call.arg}
    [] OTHER -> {}

CacheHit(c) ==
  /\ c \in DOMAIN calls /\ calls[c].pc = "lookup"
  /\ \E b \in Cached(calls[c]) : calls' = Returned(c, b)
  /\ UNCHANGED <<l1, caches, published, background, bounds>>

\* What the node answers. It finds a block by its hash only on its chain.
Found(call) ==
  CASE call.op = "number" -> IF call.arg <= Latest THEN {BlockAt(call.arg)} ELSE {}
    [] call.op = "safe" -> {BlockAt(safe)}
    [] call.op = "finalized" -> {BlockAt(finalized)}
    [] OTHER -> IF OnChain(call.arg) THEN {call.arg} ELSE {}

Early(b) == early' = IF b[1] > safe THEN early \cup {b} ELSE early

Ask(c) ==
  /\ c \in DOMAIN calls /\ calls[c].pc = "lookup" /\ Cached(calls[c]) = {}
  /\ \E b \in Found(calls[c]) :
       calls' = With(c, [calls[c] EXCEPT !.pc = "answered", !.block = b]) /\ Early(b)
  /\ UNCHANGED <<l1, caches, published, background, failures, served>>

\* BlockNotFound, or the request fails
AskFails(c) ==
  /\ c \in DOMAIN calls /\ calls[c].pc = "lookup" /\ Cached(calls[c]) = {}
  /\ \/ Found(calls[c]) = {} /\ UNCHANGED failures
     \/ failures < MaxFailures /\ failures' = failures + 1
  /\ calls' = With(c, [calls[c] EXCEPT !.pc = "failed"])
  /\ UNCHANGED <<l1, caches, published, background, served, early>>

\* latest_finalized_block_info.unwrap_or_default
FinalizedNumber == IF latest_finalized = None THEN 0 ELSE latest_finalized[1]

\* Mutant: the block info is cached whatever has been finalized.
CacheBlockInfoAlways(b) == PutNumber(block_info_by_number_cache, b)

CacheBlockInfo(b) ==
  IF FinalizedNumber >= b[1] THEN PutNumber(block_info_by_number_cache, b) ELSE block_info_by_number_cache

\* The answer arrives and is stored.
Answered(c) ==
  /\ c \in DOMAIN calls /\ calls[c].pc = "answered"
  /\ calls' = Returned(c, calls[c].block)
  /\ block_info_by_number_cache' =
       IF calls[c].op \in {"number", "safe", "finalized"} THEN CacheBlockInfo(calls[c].block) ELSE block_info_by_number_cache
  /\ receipts_by_hash_cache' =
       IF calls[c].op = "receipts" THEN Put(receipts_by_hash_cache, calls[c].block) ELSE receipts_by_hash_cache
  /\ UNCHANGED <<l1, published, background, bounds>>

CallStep(c) == CacheHit(c) \/ Ask(c) \/ AskFails(c) \/ Answered(c)
Done(c) == c \in DOMAIN calls /\ calls[c].pc = "returned"
Failed(c) == c \in DOMAIN calls /\ calls[c].pc = "failed"

-----------------------------------------------------------------------------
\* A client, such as the derivation, asks for a block by number. A call that is answered from
\* the cache, or fails, leaves no trace.

ClientCalls ==
  /\ CLIENT \notin DOMAIN calls /\ served < MaxCalls /\ served' = served + 1
  /\ \E n \in 0 .. Latest :
       /\ Cached(Call("number", n)) = {}
       /\ calls' = With(CLIENT, [Call("number", n) EXCEPT !.pc = "answered", !.block = BlockAt(n)])
       /\ Early(BlockAt(n))
  /\ UNCHANGED <<l1, caches, published, background, failures>>

-----------------------------------------------------------------------------
\* The background thread

Own == DOMAIN calls \ {CLIENT}
At(pc) == task.pc = pc
Go(pc) == task' = [task EXCEPT !.pc = pc]

\* A step of the loop has failed or has ended: the thread reads whether it is asked to exit.
Looped == \E exit \in BOOLEAN : Go(IF exit THEN "exited" ELSE "step")

BlockNumber ==
  /\ At("step")
  /\ task' = [task EXCEPT !.pc = "head", !.latest = Latest]
  /\ UNCHANGED <<l1, caches, published, head_due, finalize_due, next_fetch_block_receipt_height, calls, bounds>>

BlockNumberFails ==
  /\ At("step") /\ failures < MaxFailures /\ failures' = failures + 1
  /\ Looped
  /\ UNCHANGED <<l1, caches, published, head_due, finalize_due, next_fetch_block_receipt_height, calls, served, early>>

AskHead ==
  /\ At("head") /\ head_due /\ Own = {}
  /\ calls' = With(HEAD, Call("number", IF task.latest > Delay THEN task.latest - Delay ELSE 0))
  /\ UNCHANGED <<l1, caches, published, background, bounds>>

PublishHead ==
  /\ At("head")
  /\ \/ /\ Done(HEAD)
        /\ latest_head' = calls[HEAD].block /\ head_due' = FALSE
     \/ /\ ~head_due
        /\ UNCHANGED <<latest_head, head_due>>
  /\ calls' = Ended({HEAD})
  /\ Go("finalize")
  /\ UNCHANGED <<l1, caches, latest_safe, latest_finalized, finalize_due, next_fetch_block_receipt_height, bounds>>

\* try_join! of both calls
AskFinalized ==
  /\ At("finalize") /\ finalize_due /\ Own = {}
  /\ calls' = [c \in DOMAIN calls \cup {SAFE, FINALIZED} |->
              IF c = SAFE THEN Call("safe", None) ELSE IF c = FINALIZED THEN Call("finalized", None) ELSE calls[c]]
  /\ UNCHANGED <<l1, caches, published, background, bounds>>

\* the blocks are behind two locks
PublishSafe ==
  /\ At("finalize") /\ Done(SAFE) /\ Done(FINALIZED)
  /\ latest_safe' = calls[SAFE].block
  /\ Go("publish")
  /\ UNCHANGED <<l1, caches, latest_head, latest_finalized, head_due, finalize_due, next_fetch_block_receipt_height, calls, bounds>>

PublishFinalized ==
  /\ At("publish")
  /\ latest_finalized' = calls[FINALIZED].block /\ finalize_due' = FALSE
  /\ calls' = Ended({SAFE, FINALIZED})
  /\ Go("prefetch")
  /\ UNCHANGED <<l1, caches, latest_head, latest_safe, head_due, next_fetch_block_receipt_height, bounds>>

NoFinalizeDue ==
  /\ At("finalize") /\ ~finalize_due
  /\ Go("prefetch")
  /\ UNCHANGED <<l1, caches, published, head_due, finalize_due, next_fetch_block_receipt_height, calls, bounds>>

\* the heights of a step: pre_fetch_receipts of each, concurrently
Heights == task.height .. (IF task.latest - task.height > Concurrency THEN task.height + Concurrency ELSE task.latest) - 1

NothingToFetch ==
  /\ At("prefetch") /\ Own = {} /\ Heights = {}
  /\ Looped
  /\ UNCHANGED <<l1, caches, published, head_due, finalize_due, next_fetch_block_receipt_height, calls, bounds>>

Prefetch ==
  /\ At("prefetch") /\ Own = {} /\ Heights # {}
  /\ calls' = [c \in DOMAIN calls \cup {FETCH(h) : h \in Heights} |-> IF c \in DOMAIN calls THEN calls[c] ELSE Call("number", c[2])]
  /\ UNCHANGED <<l1, caches, published, background, bounds>>

\* Mutant: the heights are passed when all calls have ended, failed ones too.
PrefetchedAll == \A h \in Own : Done(h) \/ Failed(h)

\* try_join_all
Prefetched == \A h \in Own : Done(h)

StoreHeight ==
  /\ At("prefetch") /\ Own # {} /\ Prefetched
  /\ \E exit \in BOOLEAN :
       task' = [task EXCEPT !.pc = IF exit THEN "exited" ELSE "step", !.height = @ + Cardinality(Own)]
  /\ next_fetch_block_receipt_height' = task.height + Cardinality(Own)
  /\ calls' = Ended(Own)
  /\ UNCHANGED <<l1, caches, published, head_due, finalize_due, bounds>>

\* Mutant: an error ends the thread.
StepFailsEnds ==
  /\ \E c \in Own : Failed(c)
  /\ calls' = Ended(Own)
  /\ Go("stopped")
  /\ UNCHANGED <<l1, caches, published, head_due, finalize_due, next_fetch_block_receipt_height, bounds>>

\* The first error ends the step; the other calls of the step are dropped.
StepFails ==
  /\ \E c \in Own : Failed(c)
  /\ calls' = Ended(Own)
  /\ Looped
  /\ UNCHANGED <<l1, caches, published, head_due, finalize_due, next_fetch_block_receipt_height, bounds>>

\* The intervals elapse while the thread sleeps between two steps.
HeadInterval ==
  /\ At("step") /\ ~head_due /\ head_due' = TRUE
  /\ UNCHANGED <<l1, caches, published, task, finalize_due, next_fetch_block_receipt_height, calls, bounds>>
FinalizeInterval ==
  /\ At("step") /\ ~finalize_due /\ finalize_due' = TRUE
  /\ UNCHANGED <<l1, caches, published, task, head_due, next_fetch_block_receipt_height, calls, bounds>>

Background ==
  \/ BlockNumber \/ BlockNumberFails \/ AskHead \/ PublishHead \/ AskFinalized \/ PublishSafe \/ PublishFinalized \/ NoFinalizeDue
  \/ NothingToFetch \/ Prefetch \/ StoreHeight \/ StepFails

Init ==
  /\ chain = [i \in 1 .. StartBlocks |-> <<i - 1, 0>>] /\ safe = 0 /\ finalized = 0 /\ forks = 0
  /\ receipts_by_hash_cache = {} /\ block_info_by_number_cache = {}
  /\ latest_head = None /\ latest_safe = None /\ latest_finalized = None
  /\ next_fetch_block_receipt_height = 0
  /\ task = [pc |-> "step", latest |-> 0, height |-> StartHeight]
  /\ head_due = TRUE /\ finalize_due = TRUE
  /\ calls = <<>> /\ failures = 0 /\ served = 0 /\ early = {}

Calls == \E c \in DOMAIN calls : CallStep(c)
Next == L1Node \/ Calls \/ ClientCalls \/ Background \/ HeadInterval \/ FinalizeInterval

\* The thread and the calls run, the clock runs, and the L1 node settles within the bounds.
Spec ==
  /\ Init /\ [][Next]_vars
  /\ WF_vars(Background) /\ SF_vars(HeadInterval)
  /\ WF_vars(\E c \in Own : CallStep(c))
-----------------------------------------------------------------------------
\* "only cache the block info if it is finalized" (chain_provider.rs:273): a block in the cache by
\* number, from which every later call with its number is answered, is the one L1 has finalized.
\* Violated: the number is compared with the finalized one when the answer has arrived, not when it
\* was given (run finalized_cache).
OnlyFinalizedCached ==
  \A b \in block_info_by_number_cache : OnChain(b) /\ b[1] <= finalized

\* How much of that holds however long an answer takes: the cache by number only has numbers that
\* L1 has finalized, and a block it has for one of them is the finalized block, unless the node
\* gave it while it was not even safe (the comparison of numbers in block_info_by_number).
CachedUnderFinalized ==
  \A b \in block_info_by_number_cache : b[1] <= finalized /\ (b \notin early => OnChain(b))

\* The height up to which receipts have been fetched only passes a height when receipts of a
\* block of that height are in the cache, whatever fails or is reorganised meanwhile.
ReceiptsFetched ==
  [][task'.height # task.height =>
       \A h \in task.height .. task'.height - 1 : \E b \in receipts_by_hash_cache : b[1] = h]_vars

\* When L1 has settled, the thread publishes its head, delayed, and fetches all receipts below
\* the latest block, whatever failed or was reorganised before, until it is asked to exit; unless
\* the cache by number has kept a replaced block (OnlyFinalizedCached): the thread goes on
\* publishing it and asking for its receipts, which the node does not have.
CatchesUp ==
  <>[](\/ At("exited") \/ ~OnlyFinalizedCached
       \/ latest_head = BlockAt(IF Latest > Delay THEN Latest - Delay ELSE 0) /\ task.height >= Latest)
=============================================================================
