------------------------------ MODULE Executor ------------------------------
(***************************************************************************)
(* Execution of derived blocks: KonaExecutor (proof/proof/src/executor.rs), *)
(* StatelessL2Builder (proof/executor/src/builder/core.rs), TrieDB         *)
(* (proof/executor/src/db) and the executor around the SVM                 *)
(* (executor/fraud), as the driver uses them: update_safe_head with the    *)
(* tip, execute_payload, and on success the new tip.                       *)
(*                                                                         *)
(* The hash of a block is the number of the attempt that built it.         *)
(*                                                                         *)
(* When a preimage cannot be had, the preimage task of the host has ended  *)
(* (module Preimage), and nothing that the client has not in its cache can *)
(* be had from then on. The machine does not see this: an account that     *)
(* cannot be fetched is a missing one to it. An account that was read      *)
(* before stays readable, and one that could not be read stays unreadable. *)
(***************************************************************************)
EXTENDS LiteSVM, Trie

CONSTANTS
  Addresses,    \* all addresses, in the order of their hashes
  Path(_),      \* the hash of an address, as nibbles
  Genesis,      \* accounts of the agreed block, a partial function
  Info(_),      \* by block: the L1 info it is given
  Payloads,     \* by block: the payloads it may have, without the transaction with the L1 info
  MaxAttempts,  \* bound: executions tried
  Losses        \* the sets of accounts that may be unreadable once a provider has failed

\* The system program, which the bridge calls, is always read.
ASSUME LossesAssumption == \A accounts \in Losses : accounts \subseteq DOMAIN Genesis \ {program_account(SYSTEM)}

VARIABLES
  inner,     \* KonaExecutor::inner, None or the builder
  tip,       \* number of the driver's safe head
  hashes,    \* history: hashes of the blocks up to the tip
  world,     \* history: all accounts as they are after the tip
  attempts,  \* history: executions tried
  lost,      \* None, or the accounts that cannot be read since a provider has failed
  known,     \* the tip whose bank hash and next block time have been read last, or None
  tainted,   \* history: the update of the trie has failed
  panicked,  \* the program has ended in update_clock
  last       \* history: the last block built

vars == <<inner, tip, hashes, world, attempts, lost, known, tainted, panicked, last>>

\* Accounts that exist, and those of the withdrawal program: what the two tries hold.
Live(acc) == {k \in DOMAIN acc : acc[k].lamports > 0}
ByPath(ks, value(_)) == [p \in {Path(k) : k \in ks} |-> value(CHOOSE k \in ks : Path(k) = p)]
StateTrie(acc) == TrieOf(ByPath(Live(acc), LAMBDA k : acc[k]))
WithdrawalTrie(acc) == TrieOf(ByPath({k \in Live(acc) : acc[k].owner = BRIDGE}, LAMBDA k : acc[k].data))

\* TrieDB::new on the agreed block
new_trie_db == [root_node |-> Blinded(blind(StateTrie(Genesis))),
                withdrawal_node |-> Blinded(blind(WithdrawalTrie(Genesis))), number |-> 0]

\* KonaExecutor::update_safe_head: the new builder takes over the accounts and the tries of the
\* one before it.
update_safe_head ==
  LET accounts == IF inner = None THEN <<>> ELSE inner.accounts_diff
  IN  [accounts_diff |-> accounts, last_accounts_diff |-> accounts, parent_slot |-> tip,
       trie_db |-> IF inner = None THEN new_trie_db ELSE inner.trie_db]

modified_accounts(builder, diff) ==
  {k \in DOMAIN diff : k \notin DOMAIN builder.accounts_diff \/ builder.accounts_diff[k] # diff[k]}

\* update_accounts for one account: whether it succeeds, and the tries. An account that is
\* destroyed must be in the trie.
Deleted(db, ok, root, withdrawal) ==
  [ok |-> ok /\ root # KeyNotFound /\ withdrawal # KeyNotFound,
   db |-> IF ~ok \/ root = KeyNotFound THEN db
          ELSE IF withdrawal = KeyNotFound THEN [db EXCEPT !.root_node = root]
          ELSE [db EXCEPT !.root_node = root, !.withdrawal_node = withdrawal]]

update_account(db, k, account) ==
  IF account.lamports = 0
  THEN Deleted(db, TRUE, delete(db.root_node, Path(k)),
               IF account.owner = BRIDGE THEN delete(db.withdrawal_node, Path(k)) ELSE db.withdrawal_node)
  ELSE [ok |-> TRUE,
        db |-> [db EXCEPT !.root_node = insert(@, Path(k), account),
                          !.withdrawal_node = IF account.owner = BRIDGE THEN insert(@, Path(k), account.data) ELSE @]]

\* update_accounts for the first n of the accounts ks, in the order of their paths; it stops at
\* the first that fails.
update_accounts(db, diff, ks, n) ==
  FoldLeft(LAMBDA r, k : IF r.ok THEN update_account(r.db, k, diff[k]) ELSE r,
           [ok |-> TRUE, db |-> db], SubSeq(SelectSeq(Addresses, LAMBDA k : k \in ks), 1, n))

-----------------------------------------------------------------------------
BlockHash(n) == <<"hash", n>>
NoHash == BlockHash(-1)

\* The transactions of the next payload: the L1 info, then the given batches. A transaction names
\* its block hash by its age.
Recent(age) == IF age = None \/ age >= Len(hashes) THEN NoHash ELSE hashes[Len(hashes) - age]
WithHash(tx) == [payer |-> tx.payer, instructions |-> tx.instructions, signers |-> tx.signers, nonce |-> tx.nonce,
                 recent_blockhash |-> IF tx.nonce # None THEN get_account([base |-> <<>>, diff |-> world], tx.nonce).data[3]
                                      ELSE Recent(tx.age)]
InfoTx == [payer |-> NO_SIG_TX_PAYER, instructions |-> <<UpdateL1BlockInfo(Info(tip + 1))>>,
           signers |-> {NO_SIG_TX_PAYER}, nonce |-> None, age |-> None]
Payload(batches) == L2Block(<<<<WithHash(InfoTx)>>>> \o [i \in DOMAIN batches |-> [j \in DOMAIN batches[i] |-> WithHash(batches[i][j])]])

Init ==
  /\ inner = None /\ tip = 0 /\ hashes = <<GenesisHash>> /\ world = Genesis
  /\ attempts = 0 /\ lost = None /\ known = None /\ tainted = FALSE /\ panicked = FALSE /\ last = None

\* The accounts for which TrieDB::get_account_data has an answer.
Readable(accounts) == IF accounts = None THEN Genesis ELSE Restrict(Genesis, DOMAIN Genesis \ accounts)

\* What the builder's machine makes of a payload.
Execution(builder, base, txs, hash) ==
  execute_block(finish_init(base, builder.last_accounts_diff, builder.parent_slot, builder.parent_slot + 1), txs, hash)

Start == /\ ~panicked /\ tip < Len(Payloads)
         /\ attempts < MaxAttempts /\ attempts' = attempts + 1

\* The bank hash or the block time cannot be fetched: nothing has changed yet.
ExecuteProviderFails ==
  /\ Start
  /\ lost' \in IF lost = None THEN Losses ELSE {lost}
  /\ inner' = update_safe_head
  /\ UNCHANGED <<tip, hashes, world, known, tainted, panicked, last>>

\* They are read, which after a failure is only possible for a block that is tried again, and
\* the clock is set. From now on, while the block is built, a provider may fail.
Read ==
  /\ lost = None \/ known = tip
  /\ ~EpochChanges(tip)
  /\ lost' \in IF lost = None THEN {None} \cup Losses ELSE {lost}
  /\ known' = tip

\* The machine cannot be set up: nothing has changed yet either.
ExecuteInitFails ==
  /\ Start /\ Read
  /\ \E b \in {update_safe_head} : InitFails(Readable(lost'), b.last_accounts_diff) /\ inner' = b
  /\ UNCHANGED <<tip, hashes, world, tainted, panicked, last>>

\* The first block of an epoch.
ExecutePanics ==
  /\ ~panicked /\ tip < Len(Payloads) /\ EpochChanges(tip) /\ lost = None
  /\ panicked' = TRUE
  /\ UNCHANGED <<inner, tip, hashes, world, attempts, lost, known, tainted, last>>

\* build_block succeeds and the driver moves its tip: builder b, what its machine made of txs, and
\* the tries with the accounts that changed.
BlockBuilt(b, txs, run, updated) ==
  /\ updated.ok
  /\ inner' = [b EXCEPT !.accounts_diff = run.svm.diff @@ @,
                        !.trie_db = [updated.db EXCEPT !.number = tip + 1]]
  /\ tip' = tip + 1 /\ hashes' = Append(hashes, BlockHash(attempts + 1))
  /\ world' = run.svm.diff @@ Genesis
  /\ last' = [txs |-> txs, results |-> run.results]
  /\ UNCHANGED <<tainted, panicked>>

\* world_states fails, because an account cannot be deleted, or a node not fetched after n
\* accounts. The accounts have been merged by then. The driver goes on.
TriesFail(b, run, modified, n) ==
  /\ \E updated \in {update_accounts(b.trie_db, run.svm.diff, modified, n)} :
       /\ IF updated.ok THEN lost' # None ELSE n = Cardinality(modified)
       /\ inner' = [b EXCEPT !.accounts_diff = run.svm.diff @@ @, !.trie_db = updated.db]
  /\ tainted' = TRUE
  /\ UNCHANGED <<tip, hashes, world, panicked, last>>

\* The payload always has a transaction, so execute_block does not fail, whatever accounts are
\* missing.
Execute ==
  /\ Start /\ Read
  /\ \E batches \in Payloads[tip + 1], b \in {update_safe_head} :
       /\ ~InitFails(Readable(lost'), b.last_accounts_diff)
       /\ \E txs \in {Payload(batches)} : \E run \in {Execution(b, Readable(lost'), txs, BlockHash(attempts + 1))} :
         \E modified \in {modified_accounts(b, run.svm.diff)} :
           \/ \E updated \in {update_accounts(b.trie_db, run.svm.diff, modified, Cardinality(modified))} :
                BlockBuilt(b, txs, run, updated)
           \/ \E n \in 0 .. Cardinality(modified) : TriesFail(b, run, modified, n)

\* The driver has reached its target, or has nothing more to execute.
Done == /\ panicked \/ tip = Len(Payloads) \/ (attempts = MaxAttempts /\ ~(EpochChanges(tip) /\ lost = None))
        /\ UNCHANGED vars

Next == ExecuteProviderFails \/ ExecuteInitFails \/ ExecutePanics \/ Execute \/ Done

Spec == Init /\ [][Next]_vars

-----------------------------------------------------------------------------
\* The roots the output root is computed from are those of the tries of all accounts that exist
\* after the tip, and of the bridge's accounts, whatever was created, changed and destroyed and
\* whichever accounts a block leaves alone, and every account is found in them; unless an
\* update of the tries has failed before.
TriesMatchState ==
  inner # None /\ ~tainted =>
    /\ blind(inner.trie_db.root_node) = blind(StateTrie(world))
    /\ blind(inner.trie_db.withdrawal_node) = blind(WithdrawalTrie(world))
    /\ \A k \in Live(world) : open(inner.trie_db.root_node, Path(k)) = {world[k]}

\* The block hashes the next block accepts are those of the last MAX_PROCESSING_AGE blocks, the
\* newest first, although each block rebuilds the queue from the sysvar with new indices.
RecentHashesAreLast ==
  ~tainted /\ tip > 0 =>
    LET list == world[RECENT_BLOCKHASHES].data[2]
        n == Len(list)
    IN  /\ n = (IF Len(hashes) < MaxProcessingAge THEN Len(hashes) ELSE MaxProcessingAge)
        /\ \A i \in 1 .. n : list[i][1] = hashes[Len(hashes) + 1 - i]
        /\ LET queue == BlockhashQueue(list)
           IN  \A i \in DOMAIN hashes : is_hash_valid(queue, hashes[i], MaxProcessingAge)
                 <=> i > Len(hashes) - MaxProcessingAge

\* What the programs keep is what the instruction that a client built asked for, through packing,
\* unpacking, counting and packing into the account. A new withdrawal is at the address of its
\* nonce, which the user's counter has passed, and carries to L1 the message that its user asked
\* for; and the L1 block info read from its account is that of the block. This needs the
\* accounts: one that could not be fetched is a missing one (AccountsDb::get_account).
Withdrawals(acc) == {k \in Live(acc) : k[1] = "withdrawal"}

Message(ix, k, m) ==
  IF ix.instruction.name = "WithdrawETH"
  THEN <<ix.instruction.value, <<"finalizeBridgeETH", k[2], ix.instruction.target, ix.instruction.value>>>>
  ELSE <<0, <<"finalizeBridgeERC20", ix.instruction.remote_token, spl_token_mint_pubkey(ix.instruction.remote_token), k[2],
              ix.instruction.to, convert_decimal(remove_dust(ix.instruction.amount, m[2], ShareDecimal), m[2], ShareDecimal)>>>>

AsRequested(acc, ix, k, r) ==
  LET m == Message(ix, k, IF ix.instruction.name = "WithdrawETH" THEN <<>> ELSE At(acc, ix.mint).data)
      call == r.calldata
  IN  /\ r.sender = BRIDGE /\ r.target = UnpackConfig(At(acc, config_pubkey).data).l1_cross_domain_messenger
      /\ r.value = m[1] /\ r.gas_limit = ix.instruction.gas_limit
      /\ call[2] = encode_versioned_nonce(k[3])
      /\ call[4] = UnpackConfig(At(acc, config_pubkey).data).l1_standard_bridge
      /\ call[5] = m[1] /\ call[7] = m[2]

StoredAsRequested ==
  [][tip' # tip /\ ~tainted /\ lost' \in {None, {}} =>
       /\ \A k \in Withdrawals(world') \ Withdrawals(world) :
            \E r \in {UnpackWithdrawal(world'[k].data)} :
              /\ r.nonce = k[3] /\ r.nonce < UnpackCounter(At(world', user_withdrawal_counter_pubkey(k[2])).data)
              /\ \E i \in DOMAIN last'.txs : \E ix \in Range(last'.txs[i].tx.instructions) :
                   /\ ix.prog = BRIDGE /\ ix.instruction.name \in {"WithdrawETH", "WithdrawSPL"} /\ ix.withdrawal = k
                   /\ AsRequested(world', ix, k, r)
       /\ UnpackL1BlockInfo(world'[l1_block_info_pubkey].data)
            = [i \in DOMAIN InfoPackLayout |-> Info(tip')[InfoPackLayout[i][1]]]]_vars

SumOver(S, f(_)) == FoldSet(LAMBDA x, n : n + f(x), 0, S)
Claims(acc, name) == {k \in Withdrawals(acc) : UnpackWithdrawal(acc[k].data).calldata[7][1] = name}

\* The block changes no account of which the machine could not read what it held.
LostUntouched == lost' # None => \A k \in lost' \ Sysvars : world'[k] = world[k]

\* The deposits and the rent that the vault has paid.
IsDeposit(tx) == has_derived_bridge_instruction(tx) /\ tx.instructions[1].instruction.name = "DepositETH"
PaidOut(acc) ==
  SumOver({k \in Live(acc) : acc[k].owner = TOKEN /\ k \notin Live(Genesis)}, LAMBDA k : acc[k].lamports)

\* What users hold and may claim on L1 together is never more than there was: every recorded ETH
\* withdrawal has been paid into the vault, in failed transactions too; unless an account that
\* could not be fetched is written as if it had been empty.
WithdrawalsBacked ==
  [][tip' # tip /\ ~tainted /\ LostUntouched =>
         LET claims(acc) == SumOver(Claims(acc, "finalizeBridgeETH"), LAMBDA k : UnpackWithdrawal(acc[k].data).value)
             deposits == SumOver({i \in DOMAIN last'.txs : IsDeposit(last'.txs[i].tx) /\ last'.results[i].ran},
                                 LAMBDA i : last'.txs[i].tx.instructions[1].instruction.value)
             rents == PaidOut(world') - PaidOut(world)
         IN  At(world', vault_pubkey).lamports + deposits + rents
               >= At(world, vault_pubkey).lamports + claims(world') - claims(world)]_vars

\* A token's withdrawals claim no more shares on L1 than its deposits brought: the shares of the
\* supply and of the recorded withdrawals grow by at most what a block deposits, and the supply
\* is what the token accounts hold (convert_decimal rounds down).
SharesCovered ==
  [][tip' # tip /\ ~tainted =>
       \A t \in {k[2] : k \in {x \in DOMAIN world' : x[1] = "spl-mint" /\ world'[x].data # <<>>}} :
         LET mint_key == spl_token_mint_pubkey(t)
             shares(acc) == IF At(acc, mint_key).data = <<>> THEN 0
                            ELSE At(acc, mint_key).data[3] * Base ^ (ShareDecimal - At(acc, mint_key).data[2])
             message(acc, k) == UnpackWithdrawal(acc[k].data).calldata[7]
             claims(acc) == SumOver({k \in Claims(acc, "finalizeBridgeERC20") : message(acc, k)[2] = t}, LAMBDA k : message(acc, k)[6])
             ix(i) == last'.txs[i].tx.instructions[1].instruction
             deposited == SumOver({i \in DOMAIN last'.txs : /\ has_derived_bridge_instruction(last'.txs[i].tx)
                                                            /\ ix(i).name = "DepositERC20" /\ ix(i).remote_token = t
                                                            /\ last'.results[i].ran}, LAMBDA i : ix(i).amount)
         IN  /\ shares(world') + claims(world') <= shares(world) + claims(world) + deposited
             /\ At(world', mint_key).data[3] =
                  SumOver({k \in Live(world') : k[1] = "token" /\ world'[k].data[2] = mint_key}, LAMBDA k : world'[k].data[4])]_vars

\* Lamports are neither made nor lost in a block that has a leader (seal_block), but for the fees
\* of transactions that were refused before they had a context: those are not charged and yet
\* given to the leader; and unless an account that could not be fetched is written as if it had
\* been empty.
LamportsConserved ==
  [][tip' # tip /\ ~tainted /\ LostUntouched /\ leader_at_slot(tip') # None =>
       LET total(acc) == SumOver(DOMAIN acc \ Sysvars, LAMBDA k : acc[k].lamports)
           uncharged == FoldLeft(LAMBDA n, r : IF r.charged THEN n ELSE n + r.fee, 0, last'.results)
       IN  total(world') = total(world) + uncharged]_vars

\* A transaction with a durable nonce is charged at most once: whatever comes of its other
\* instructions, the nonce has moved on afterwards (check_and_load_message_nonce_account).
NonceUsedOnce ==
  [][tip' # tip /\ ~tainted =>
       \A i \in DOMAIN last'.txs : last'.txs[i].tx.nonce # None /\ last'.results[i].charged =>
         At(world', last'.txs[i].tx.nonce).data[3] # last'.txs[i].tx.recent_blockhash]_vars

\* A transaction whose instructions failed is reported as failed (tests/fees.rs,
\* test_fees_failed_transaction).
FailedTxReported == last # None => \A i \in DOMAIN last.results : last.results[i].ok => last.results[i].ran

\* A block built on the tip has the effect it has for a new executor that knows the accounts of
\* the tip and nothing else (KonaExecutor::update_safe_head), if it reads all of them.
ExecutorStateless ==
  [][tip' # tip /\ lost' \in {None, {}} =>
       LET run == execute_block(finish_init(Genesis, world, tip, tip + 1), last'.txs, BlockHash(attempts + 1))
       IN  /\ world' = run.svm.diff @@ Genesis
           /\ blind(inner'.trie_db.root_node) = blind(StateTrie(world'))]_vars
=============================================================================
