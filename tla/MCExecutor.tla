----------------------------- MODULE MCExecutor -----------------------------
(***************************************************************************)
(* An instance of Executor: two users, one token with one decimal less     *)
(* than its shares, payloads of one batch with one or two transactions.    *)
(***************************************************************************)
EXTENDS Executor

u == <<"user", 1>>
v == <<"user", 2>>
w == <<"user", 3>>
leader == <<"leader">>
nonce == <<"nonce", 1>>
t == 7

Acct(lamports, owner, data) == [lamports |-> lamports, owner |-> owner, data |-> data]

MCInfo(n) ==
  [number |-> n, timestamp |-> 13 + n, base_fee |-> 150, hash |-> <<"L1", n>>, sequence_number |-> 3, batcher_hash |-> <<"batcher">>,
   fee_overhead |-> 5, fee_scalar |-> 17, gas |-> 100, is_system_tx |-> FALSE]

\* a deposit of ETH
Eth(to, amount) ==
  [bridge_sender |-> <<"bridge sender">>, mint |-> 9, gas |-> 21, is_creation |-> FALSE, l1_block_num |-> 1, l1_block_hash |-> <<"L1", 1>>,
   log_index |-> 2, from |-> <<"sender">>, to |-> to, amount |-> amount, extra_data |-> <<"none">>]

MCGenesis ==
  (u :> Acct(12, SYSTEM, <<>>)) @@ (w :> Acct(2, SYSTEM, <<>>)) @@ (leader :> Acct(5, SYSTEM, <<>>)) @@ (NO_SIG_TX_PAYER :> Acct(1, SYSTEM, <<>>))
  @@ (vault_pubkey :> Acct(40, SYSTEM, <<>>)) @@ (config_pubkey :> Acct(2, BRIDGE, BridgeConfig(<<"messenger">>, <<"standard bridge">>)))
  @@ (bridge_owner_pubkey :> Acct(2, BRIDGE, BridgeOwner(u)))
  @@ (user_withdrawal_counter_pubkey(u) :> Acct(2, BRIDGE, WithdrawalCounter(0)))
  @@ (l1_block_info_pubkey :> Acct(2, L1INFO, L1BlockInfo(MCInfo(0))))
  @@ (nonce :> Acct(2, SYSTEM, <<"nonce", u, DurableNonce(BlockHash(-2))>>))
  @@ (CLOCK :> Acct(2, SYSVAR, <<"Clock", <<0, 0>>>>)) @@ (SLOT_HISTORY :> Acct(2, SYSVAR, <<"SlotHistory", {0}>>))
  @@ (SLOT_HASHES :> Acct(2, SYSVAR, <<"SlotHashes", {}>>)) @@ (RECENT_BLOCKHASHES :> Acct(2, SYSVAR, <<"RecentBlockhashes", <<>>>>))
  @@ (FEE_RATE_GOVERNOR :> Acct(2, SYSVAR, <<"FeeRateGovernor", 0>>))
  @@ [k \in {program_account(prog) : prog \in {BRIDGE, L1INFO, SYSTEM}} |-> Acct(1, LOADER, <<"program">>)]

\* No account; accounts that a transaction changes, pays from or needs, or that the machine starts
\* from; and all that can be lost.
MCLosses == { {}, {vault_pubkey, nonce, program_account(L1INFO)}, {leader, user_withdrawal_counter_pubkey(u), SLOT_HASHES, SLOT_HISTORY},
              DOMAIN MCGenesis \ {program_account(SYSTEM)} }

\* Every address that occurs with its hash, in the order of the hashes. The account of w is the
\* only one that leaves its branch with one child, which is an extension nobody has opened.
MCHashes ==
  << <<u, <<0, 0, 0, 0>>>>, <<leader, <<0, 0, 0, 1>>>>, <<nonce, <<0, 0, 2, 2>>>>, <<vault_pubkey, <<0, 1, 0, 0>>>>,
     <<NO_SIG_TX_PAYER, <<0, 3, 3, 3>>>>,
     <<v, <<1, 0, 0, 0>>>>, <<config_pubkey, <<1, 2, 0, 0>>>>, <<bridge_owner_pubkey, <<1, 2, 0, 1>>>>,
     <<user_withdrawal_counter_pubkey(v), <<1, 2, 3, 0>>>>, <<w, <<1, 3, 0, 0>>>>,
     <<l1_block_info_pubkey, <<2, 0, 0, 0>>>>, <<user_withdrawal_counter_pubkey(u), <<2, 1, 1, 1>>>>,
     <<withdrawal_transaction_pubkey(u, 0), <<2, 1, 1, 2>>>>, <<withdrawal_transaction_pubkey(u, 1), <<2, 1, 3, 0>>>>,
     <<withdrawal_transaction_pubkey(u, 2), <<2, 2, 0, 0>>>>, <<spl_token_mint_pubkey(t), <<2, 2, 1, 0>>>>,
     <<spl_token_metadata_pubkey(t), <<2, 2, 1, 1>>>>, <<associated_token(u, spl_token_mint_pubkey(t)), <<2, 3, 0, 0>>>>,
     <<CLOCK, <<3, 0, 0, 0>>>>, <<SLOT_HISTORY, <<3, 0, 0, 1>>>>, <<SLOT_HASHES, <<3, 0, 1, 0>>>>,
     <<RECENT_BLOCKHASHES, <<3, 1, 0, 0>>>>, <<FEE_RATE_GOVERNOR, <<3, 1, 2, 0>>>>,
     <<withdrawal_transaction_pubkey(v, 0), <<3, 2, 0, 0>>>>, <<withdrawal_transaction_pubkey(u, 3), <<3, 2, 1, 0>>>>,
     <<program_account(BRIDGE), <<3, 3, 0, 0>>>>, <<program_account(L1INFO), <<3, 3, 0, 1>>>>, <<program_account(SYSTEM), <<3, 3, 1, 0>>>> >>

MCAddresses == [i \in DOMAIN MCHashes |-> MCHashes[i][1]]
HashOf == [k \in {MCAddresses[i] : i \in DOMAIN MCAddresses} |-> MCHashes[CHOOSE i \in DOMAIN MCHashes : MCAddresses[i] = k][2]]
MCPath(k) == HashOf[k]
MCValueLength(value) == 32

MCGenesisHash == BlockHash(0)
MCLeaders == <<<<0, leader>>>>

Tx(payer, age, ixs) == [payer |-> payer, instructions |-> ixs, signers |-> {payer}, nonce |-> None, age |-> age]
Deposit(ix) == [Tx(NO_SIG_TX_PAYER, None, <<ix>>) EXCEPT !.signers = {NO_SIG_TX_PAYER} \cup (IF ix.instruction.name = "DepositERC20" THEN {ix.depositor} ELSE {})]
NonceTx(ixs) == [Tx(u, None, <<[prog |-> SYSTEM, tag |-> "AdvanceNonce", nonce |-> nonce, writable |-> {nonce}]>> \o ixs) EXCEPT !.nonce = nonce]
Transfer(from, to, n) == [prog |-> SYSTEM, tag |-> "Transfer", from |-> from, to |-> to, value |-> n, writable |-> {from, to}]
WETH(n, c) == WithdrawETH(<<"target">>, u, n, MinimalGasLimit, c)
WSPL(n, c) == WithdrawSPL(t, u, <<"target">>, n, MinimalGasLimit, c)

Setup == { <<Deposit(DepositETH(Eth(v, 3)))>>, <<Deposit(DepositETH(Eth(v, 3))), Tx(v, 0, <<Transfer(v, u, 3)>>)>>,
           <<Tx(u, 0, <<CreateSPL(t, u, <<1>>, <<2, 3>>, <<>>, 1)>>)>>, <<Tx(u, 0, <<WETH(1, 0)>>)>>,
           <<Tx(u, 0, <<Transfer(u, v, 2), WETH(0, 0)>>)>>, <<NonceTx(<<Transfer(u, v, 30)>>)>>,
           <<Tx(w, 0, <<Transfer(w, u, 1)>>)>> }

Uses == Setup \cup
  { <<Deposit(DepositETH(Eth(v, 1)))>>, <<Deposit(DepositERC20(t, <<"sender">>, u, 25))>>, <<Tx(u, 0, <<UpdateSPLMetadata(t, u, <<4>>, <<2, 3>>, <<5>>)>>)>>,
    <<Tx(u, 1, <<WETH(1, 1)>>), Tx(u, 0, <<WETH(1, 2)>>)>>, <<Tx(u, 0, <<WETH(20, 0)>>)>>,
    <<Tx(v, 0, <<CreateUserWithdrawalCounterAccount(v)>>)>>, <<Tx(v, 0, <<Transfer(v, u, 2)>>)>>,
    <<NonceTx(<<Transfer(u, v, 30)>>), NonceTx(<<Transfer(u, v, 2)>>)>>,
    <<Tx(u, 0, <<[Transfer(u, v, 1) EXCEPT !.prog = "data"]>>)>>, <<Tx(u, 0, <<ChangeBridgeAdmin(u, v)>>)>> }

Ends == { <<Tx(u, 2, <<WSPL(2, 0)>>)>>, <<Tx(u, 1, <<WSPL(1, 0)>>), Tx(u, 0, <<WSPL(1, 1)>>)>>, <<Tx(u, 0, <<WETH(1, 1)>>)>>,
          <<Deposit(DepositERC20(t, <<"sender">>, u, 25))>>, <<Tx(v, 0, <<CreateSPL(t, v, <<1>>, <<2, 3>>, <<>>, 1)>>)>>, <<NonceTx(<<Transfer(u, v, 2)>>)>> }

\* The fourth block starts an epoch.
MCPayloads == <<{<<x>> : x \in Setup}, {<<>>} \cup {<<x>> : x \in Uses}, {<<x>> : x \in Ends}, {<<>>}>>
=============================================================================
