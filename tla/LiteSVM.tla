------------------------------ MODULE LiteSVM ------------------------------
(***************************************************************************)
(* The SVM that executes a block (executor/svm/src): block set-up,         *)
(* blockhash queue, checks of a transaction, fees, rent, execution,        *)
(* sealing. A machine is a record of the fields that change while a block  *)
(* is executed:                                                            *)
(*   base, diff       the accounts the callback has an answer for, and     *)
(*                    the changes to them                                  *)
(*   slot             the slot of the block                                *)
(*   queue            the BlockhashQueue                                   *)
(*   signature_count  of the transactions executed so far                  *)
(***************************************************************************)
EXTENDS Bridge, SequencesExt

CONSTANTS
  MaxProcessingAge,    \* MAX_PROCESSING_AGE, also the entries kept in the sysvar
  LamportsPerSignature,
  SlotsPerEpoch,
  Leaders,             \* the leader schedule: pairs of slot and address, by slot
  GenesisHash,
  None                 \* model value

ASSUME SVMAssumption ==
  /\ MaxProcessingAge \in Nat \ {0} /\ LamportsPerSignature \in Nat /\ SlotsPerEpoch \in Nat \ {0}

CLOCK == <<"Clock">>
SLOT_HISTORY == <<"SlotHistory">>
SLOT_HASHES == <<"SlotHashes">>
RECENT_BLOCKHASHES == <<"RecentBlockhashes">>
FEE_RATE_GOVERNOR == <<"FeeRateGovernor">>
Sysvars == {CLOCK, SLOT_HISTORY, SLOT_HASHES, RECENT_BLOCKHASHES, FEE_RATE_GOVERNOR}
SYSVAR == "sysvar"
LOADER == "loader"
program_account(prog) == <<"program", prog>>

\* AccountsDb::get_account: the changed accounts first. An account that the callback fails to
\* fetch is a missing one, like one that does not exist.
get_account(svm, k) == At(svm.diff @@ svm.base, k)
add_diff_account(svm, k, a) == [svm EXCEPT !.diff = Set(@, k, a)]

\* get_sysvar, and unwrap_or_default for those that may be missing
SysvarFound(svm, k) == get_account(svm, k).data # <<>>
SysvarDefault(k) == CASE k = SLOT_HASHES -> {} [] k = SLOT_HISTORY -> {0} [] k = RECENT_BLOCKHASHES -> <<>>
get_sysvar(svm, k) == IF SysvarFound(svm, k) THEN get_account(svm, k).data[2] ELSE SysvarDefault(k)
update_sysvar(svm, k, v) ==
  add_diff_account(svm, k, [lamports |-> 2, owner |-> SYSVAR, data |-> <<k[1], v>>])

\* A sysvar that is a set gets one more element.
ExtendSysvar(svm, k, x) == update_sysvar(svm, k, get_sysvar(svm, k) \cup {x})

mint(svm, k, n) == [svm EXCEPT !.diff = Set(@, k, [get_account(svm, k) EXCEPT !.lamports = @ + n])]
burn(svm, k, n) == [svm EXCEPT !.diff = Set(@, k, [get_account(svm, k) EXCEPT !.lamports = @ - n])]

-----------------------------------------------------------------------------
\* blockhash_queue.rs. The sysvar lists pairs of hash and lamports per signature, the newest first.

\* Mutant: the index of an entry is its place in the list.
BlockhashQueueReversed(list) ==
  [hashes |-> [h \in {e[1] : e \in Range(list)} |->
                 LET i == CHOOSE j \in DOMAIN list : list[j][1] = h IN [index |-> i, fee |-> list[i][2]]],
   last_index |-> Len(list), last_hash |-> list[1][1]]

\* From<SoonRecentBlockhashes>
BlockhashQueue(list) ==
  [hashes |-> [h \in {e[1] : e \in Range(list)} |->
                 LET i == CHOOSE j \in DOMAIN list : list[j][1] = h
                 IN  [index |-> Len(list) - (i - 1), fee |-> list[i][2]]],
   last_index |-> Len(list), last_hash |-> list[1][1]]

is_hash_valid(queue, h, max_age) ==
  h \in DOMAIN queue.hashes /\ queue.last_index - queue.hashes[h].index <= max_age

\* The queue holds twice as many hashes as the sysvar before it drops any: it never does here.
register_hash(queue, h, fee) ==
  [hashes |-> (h :> [index |-> queue.last_index + 1, fee |-> fee]) @@ queue.hashes,
   last_index |-> queue.last_index + 1, last_hash |-> h]

\* update_recent_blockhashes_locked: the newest MAX_ENTRIES of the queue
RecentBlockhashes(queue) ==
  LET newest == SetToSortSeq(DOMAIN queue.hashes, LAMBDA x, y : queue.hashes[x].index > queue.hashes[y].index)
      n == IF Len(newest) < MaxProcessingAge THEN Len(newest) ELSE MaxProcessingAge
  IN  [i \in 1 .. n |-> <<newest[i], queue.hashes[newest[i]].fee>>]

\* LeaderSchedule::leader_at_slot: the last leader whose slot is not after this one
leader_at_slot(slot) ==
  LET past == {i \in DOMAIN Leaders : Leaders[i][1] <= slot}
  IN  IF past = {} THEN None ELSE Leaders[CHOOSE i \in past : \A j \in past : j <= i][2]

-----------------------------------------------------------------------------
get_epoch(slot) == slot \div SlotsPerEpoch

\* update_clock panics in the first block of an epoch.
EpochChanges(parent_slot) == get_epoch(parent_slot) # get_epoch(parent_slot + 1)

\* LiteSVM::new_soon ... finish_init: the sysvars of the new block, and the queue of its parent.
\* Without the fee rate governor or the clock it fails. Only the first block finds no recent
\* block hashes, since each block leaves them in the diff.
InitFails(base, init_accounts) ==
  \E k \in {FEE_RATE_GOVERNOR, CLOCK} : ~SysvarFound([base |-> base, diff |-> init_accounts], k)

QueueOf(recent) == BlockhashQueue(IF recent = <<>> THEN <<<<GenesisHash, 0>>>> ELSE recent)
LoadQueue(svm) == [svm EXCEPT !.queue = QueueOf(get_sysvar(svm, RECENT_BLOCKHASHES))]

finish_init(base, init_accounts, parent_slot, timestamp) ==
  LoadQueue(ExtendSysvar(update_sysvar(ExtendSysvar(
      [base |-> base, diff |-> init_accounts, slot |-> parent_slot + 1, signature_count |-> 0, queue |-> None],
      SLOT_HASHES, parent_slot), CLOCK, <<parent_slot + 1, timestamp>>), SLOT_HISTORY, parent_slot + 1))

-----------------------------------------------------------------------------
\* RentState and its transitions; rent itself is not collected (disable_rent_fees_collection).

RentState(a) == IF a.lamports = 0 THEN "Uninitialized"
                ELSE IF a.lamports >= minimum_balance(a.data) THEN "RentExempt" ELSE "RentPaying"

transition_allowed(pre, post) ==
  RentState(post) = "RentPaying" =>
    RentState(pre) = "RentPaying" /\ (post.data = <<>>) = (pre.data = <<>>) /\ post.lamports <= pre.lamports

\* A transaction: payer, instructions, signers, recent_blockhash, and the durable nonce account
\* of its first instruction, or None. The writable accounts are the payer and those of the
\* instructions.
Writable(tx) == {tx.payer} \cup UNION {ix.writable : ix \in Range(tx.instructions)}

DurableNonce(h) == <<"nonce", h>>

\* check_and_load_message_nonce_account
NonceValid(svm, tx) ==
  /\ tx.nonce # None
  /\ tx.recent_blockhash # DurableNonce(svm.queue.last_hash)
  /\ LET d == get_account(svm, tx.nonce).data
     IN  d # <<>> /\ d[3] = tx.recent_blockhash /\ d[2] \in tx.signers

\* check_transaction_age: the fee per signature, or None
TransactionAge(svm, tx) ==
  IF is_hash_valid(svm.queue, tx.recent_blockhash, MaxProcessingAge)
  THEN svm.queue.hashes[tx.recent_blockhash].fee
  ELSE IF NonceValid(svm, tx) THEN LamportsPerSignature
  ELSE IF tx.payer = NO_SIG_TX_PAYER THEN 0 ELSE None

\* validate_fee_payer: a system account that can pay and does not become rent paying
FeePayerValid(payer, fee) ==
  LET min_balance == IF payer.data = <<>> THEN 0 ELSE minimum_balance(payer.data)
  IN  /\ payer.lamports # 0 /\ payer.owner = SYSTEM
      /\ payer.lamports >= min_balance + fee
      /\ transition_allowed(payer, [payer EXCEPT !.lamports = @ - fee])

\* MessageProcessor::process_message: the instructions in order, up to the first that fails. The
\* runtime is given the block hash of the transaction.
RunInstruction(acc, tx, ix) ==
  CASE ix.prog \in {BRIDGE, L1INFO} -> process(acc, tx.signers, ix)
    [] ix.tag = "Transfer" -> transfer(acc, tx.signers, ix.from, ix.to, ix.value)
    [] ix.tag = "AdvanceNonce" -> advance_nonce(acc, tx.signers, ix.nonce, DurableNonce(tx.recent_blockhash))

process_message(acc, tx) ==
  FoldLeft(LAMBDA r, ix : IF r.ok THEN RunInstruction(r.acc, tx, ix) ELSE r, Ok(acc), tx.instructions)

check_accounts_rent(svm, tx, acc) ==
  \A k \in Writable(tx) : acc[k].data # <<>> => transition_allowed(get_account(svm, k), acc[k])

\* The writable accounts of a transaction after it ran, and whether it succeeded.
Outcome(svm, tx, run) ==
  [ok |-> run.ok /\ check_accounts_rent(svm, tx, run.acc), context |-> [k \in Writable(tx) |-> run.acc[k]]]

\* Mutant: the fee is not taken.
LoadedFree(svm, tx, fee) == [k \in Writable(tx) |-> get_account(svm, k)] @@ svm.diff @@ svm.base

\* The accounts a transaction runs on: the fee is taken from the payer's.
Loaded(svm, tx, fee) ==
  [k \in Writable(tx) |-> LET a == get_account(svm, k)
                          IN  IF k = tx.payer THEN [a EXCEPT !.lamports = @ - fee] ELSE a] @@ svm.diff @@ svm.base

\* process_transaction: the result of a transaction whose age was found valid. There is no context
\* if the payer or a program is not valid; the fee is reported all the same.
Executable(svm, prog) == get_account(svm, program_account(prog)).owner = LOADER
process_transaction(svm, tx, fee) ==
  IF \/ ~FeePayerValid(get_account(svm, tx.payer), fee)
     \/ \E ix \in Range(tx.instructions) : ~Executable(svm, ix.prog)
  THEN [ok |-> FALSE, context |-> None]
  ELSE Outcome(svm, tx, process_message(Loaded(svm, tx, fee), tx))

\* Mutant: a failed transaction keeps its error, so that its accounts are not committed.
check_tx_result_kept(svm, tx, fee, ok) ==
  IF ok THEN [svm |-> svm, ok |-> TRUE] ELSE [svm |-> burn(svm, tx.payer, fee), ok |-> FALSE]

\* check_tx_result: the fee of a failed transaction is burned, and the result is that of burning.
check_tx_result(svm, tx, fee, ok) ==
  IF ok THEN [svm |-> svm, ok |-> TRUE] ELSE [svm |-> burn(svm, tx.payer, fee), ok |-> TRUE]

\* The rest of send_transaction: the accounts are committed if the result is good.
Committed(checked, tx, context) ==
  [checked.svm EXCEPT !.diff = IF checked.ok THEN context @@ @ ELSE @,
                      !.signature_count = @ + Cardinality(tx.signers)]
Reported(svm, tx, fee, r, checked) ==
  IF r.context = None THEN [svm |-> svm, ok |-> FALSE, ran |-> FALSE, fee |-> fee, charged |-> FALSE]
  ELSE [svm |-> Committed(checked, tx, r.context), ok |-> checked.ok, ran |-> r.ok, fee |-> fee, charged |-> TRUE]
Processed(svm, tx, fee, r) == Reported(svm, tx, fee, r, check_tx_result(svm, tx, fee, r.ok))

\* send_transaction without signature verification: the machine after it, and what it reports.
SendAged(svm, tx, age) ==
  IF age = None THEN [svm |-> svm, ok |-> FALSE, ran |-> FALSE, fee |-> 0, charged |-> FALSE]
  ELSE LET fee == age * Cardinality(tx.signers) IN Processed(svm, tx, fee, process_transaction(svm, tx, fee))
send_transaction(svm, tx) == SendAged(svm, tx, TransactionAge(svm, tx))

-----------------------------------------------------------------------------
\* block.rs: the transactions of a block carry the length of their batch, or 0 in its rest.

L2Block(batches) ==
  FlattenSeq([i \in DOMAIN batches |->
    [j \in DOMAIN batches[i] |-> [head |-> IF j = 1 THEN Len(batches[i]) ELSE 0, tx |-> batches[i][j]]]])

\* From<L2Block> for RawBlock: a head starts a batch, empty batches are not kept.
RawBlock(txs) ==
  LET step(s, t) == IF t.head > 0
                    THEN [done |-> IF s.batch = <<>> THEN s.done ELSE Append(s.done, s.batch), batch |-> <<t.tx>>]
                    ELSE [s EXCEPT !.batch = Append(@, t.tx)]
      last == FoldLeft(step, [done |-> <<>>, batch |-> <<>>], txs)
  IN  IF last.batch = <<>> THEN last.done ELSE Append(last.done, last.batch)

\* The transactions of the block in order, with the list of what each reported.
execute_transactions(svm, batches) ==
  FoldLeft(LAMBDA s, tx : LET r == send_transaction(s.svm, tx)
                          IN  [svm |-> r.svm, results |-> Append(s.results, [r EXCEPT !.svm = None])],
           [svm |-> svm, results |-> <<>>], FlattenSeq(batches))

\* seal_block: the fees of all transactions go to the leader.
PayLeader(svm, fees, leader) == IF fees > 0 /\ leader # None THEN mint(svm, leader, fees) ELSE svm
seal_block(svm, results) ==
  update_sysvar(
    ExtendSysvar(PayLeader(svm, FoldLeft(LAMBDA n, r : n + r.fee, 0, results), leader_at_slot(svm.slot)), SLOT_HISTORY, svm.slot),
    FEE_RATE_GOVERNOR, svm.signature_count)

\* process_entries_and_register_blockhash: hash stands for the hash of the last tick.
WithQueue(svm, queue) == update_sysvar([svm EXCEPT !.queue = queue], RECENT_BLOCKHASHES, RecentBlockhashes(queue))
register_recent_blockhash(svm, hash) == WithQueue(svm, register_hash(svm.queue, hash, LamportsPerSignature))

\* execute_block; a block without transactions has no entries, which is an error.
Sealed(run, hash) ==
  [ok |-> run.results # <<>>, results |-> run.results,
   svm |-> register_recent_blockhash(seal_block(run.svm, run.results), hash)]
execute_block(svm, txs, hash) == Sealed(execute_transactions(svm, RawBlock(txs)), hash)
=============================================================================
