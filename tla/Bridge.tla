------------------------------- MODULE Bridge -------------------------------
(***************************************************************************)
(* The bridge program and the L1 block info program (crates/programs):     *)
(* the instructions as clients build them and the processors that run      *)
(* them, on the accounts of SolanaRuntime.                                 *)
(*                                                                         *)
(* An instruction is a record: its program, its data, the accounts it is   *)
(* given and which of them are writable. A processor that fails has        *)
(* written what it wrote before the check that failed.                     *)
(***************************************************************************)
EXTENDS SolanaRuntime, Instructions, Integers

CONSTANTS
  MinimalGasLimit,  \* MINIMAL_GAS_LIMIT
  ShareDecimal,     \* SPL_SHARE_DECIMAL, and MAX_TOKEN_DECIMAL
  Base,             \* base of the decimals (10)
  StandardBridgeCallGasLimit  \* STANDARD_BRIDGE_CALL_GAS_LIMIT

ASSUME BridgeAssumption ==
  /\ MaxU64 \in Nat /\ MinimalGasLimit \in Nat /\ ShareDecimal \in Nat /\ Base \in Nat \ {0}
  /\ MaxU64 = ByteBase ^ U64Bytes - 1

BRIDGE == "bridge"
L1INFO == "l1_block_info"
NO_SIG_TX_PAYER == <<"NoSigTxPayer">>
ZeroAddress == <<"zero">>

\* pda.rs: derived addresses are distinct for distinct seeds.
vault_pubkey == <<"vault">>
config_pubkey == <<"bridge-config">>
bridge_owner_pubkey == <<"bridge-owner">>
user_withdrawal_counter_pubkey(u) == <<"svm-withdraw-counter", u>>
withdrawal_transaction_pubkey(u, counter) == <<"withdrawal", u, counter>>
spl_token_owner_pubkey(t) == <<"spl-owner", t>>
spl_token_mint_pubkey(t) == <<"spl-mint", t>>
spl_token_metadata_pubkey(t) == <<"metadata", spl_token_mint_pubkey(t)>>
l1_block_info_pubkey == <<"l1-block-info">>

-----------------------------------------------------------------------------
\* instruction.rs: the instructions with the accounts a client passes. The program is given the
\* packed data; the instruction they were packed from is kept beside them.

Build(ix, accounts) == [prog |-> BRIDGE, instruction |-> ix, data |-> pack(ix)] @@ accounts

\* d is the deposit, as UserDeposited::to_sanitized_transaction passes it
DepositETH(d) ==
  Build([name |-> "DepositETH", from |-> d.bridge_sender, to |-> ZeroAddress, mint |-> d.mint, value |-> d.amount,
         gas |-> d.gas, is_creation |-> d.is_creation, l1_block_num |-> d.l1_block_num, l1_block_hash |-> d.l1_block_hash,
         log_index |-> d.log_index, deposit_type |-> 0, deposit_from |-> d.from, deposit_to |-> d.to,
         deposit_amount |-> d.amount, deposit_extra_data |-> d.extra_data, deposit_l2_contract |-> ZeroAddress,
         deposit_l1_contract |-> ZeroAddress],
        [depositor |-> d.to, vault |-> vault_pubkey, payer |-> NO_SIG_TX_PAYER, writable |-> {d.to, vault_pubkey}])

WithdrawETH(target, payer, value, gas_limit, counter) ==
  Build([name |-> "WithdrawETH", target |-> target, value |-> value, gas_limit |-> gas_limit],
        [counter |-> user_withdrawal_counter_pubkey(payer), withdrawal |-> withdrawal_transaction_pubkey(payer, counter),
         vault |-> vault_pubkey, config |-> config_pubkey, payer |-> payer,
         writable |-> {user_withdrawal_counter_pubkey(payer), withdrawal_transaction_pubkey(payer, counter), vault_pubkey, payer}])

ChangeBridgeAdmin(admin, new_admin) ==
  Build([name |-> "ChangeBridgeAdmin", new_admin |-> new_admin],
        [owner |-> bridge_owner_pubkey, admin |-> admin, writable |-> {bridge_owner_pubkey}])

CreateSPL(t, admin, name, symbol, uri, decimals) ==
  Build([name |-> "CreateSPL", remote_token |-> t, tokenname |-> name, symbol |-> symbol, uri |-> uri, decimals |-> decimals],
        [owner |-> bridge_owner_pubkey, admin |-> admin, token_owner |-> spl_token_owner_pubkey(t),
         mint |-> spl_token_mint_pubkey(t), vault |-> vault_pubkey, metadata |-> spl_token_metadata_pubkey(t),
         writable |-> {spl_token_mint_pubkey(t), vault_pubkey, spl_token_metadata_pubkey(t)}])

\* no client function builds this one
UpdateSPLMetadata(t, admin, name, symbol, uri) ==
  Build([name |-> "UpdateSPLMetadata", remote_token |-> t, tokenname |-> name, symbol |-> symbol, uri |-> uri],
        [owner |-> bridge_owner_pubkey, admin |-> admin, token_owner |-> spl_token_owner_pubkey(t),
         mint |-> spl_token_mint_pubkey(t), metadata |-> spl_token_metadata_pubkey(t),
         writable |-> {spl_token_metadata_pubkey(t)}])

DepositERC20(t, from, to, amount) ==
  Build([name |-> "DepositERC20", local_token |-> spl_token_mint_pubkey(t), remote_token |-> t, from |-> from, to |-> to, amount |-> amount],
        [token_owner |-> spl_token_owner_pubkey(t), mint |-> spl_token_mint_pubkey(t), depositor |-> to,
         ata |-> associated_token(to, spl_token_mint_pubkey(t)), vault |-> vault_pubkey, payer |-> NO_SIG_TX_PAYER,
         writable |-> {spl_token_mint_pubkey(t), associated_token(to, spl_token_mint_pubkey(t)), vault_pubkey}])

WithdrawSPL(t, payer, to, amount, gas_limit, counter) ==
  Build([name |-> "WithdrawSPL", remote_token |-> t, to |-> to, amount |-> amount, gas_limit |-> gas_limit],
        [counter |-> user_withdrawal_counter_pubkey(payer), withdrawal |-> withdrawal_transaction_pubkey(payer, counter),
         token_owner |-> spl_token_owner_pubkey(t), mint |-> spl_token_mint_pubkey(t),
         ata |-> associated_token(payer, spl_token_mint_pubkey(t)), config |-> config_pubkey, payer |-> payer,
         writable |-> {user_withdrawal_counter_pubkey(payer), withdrawal_transaction_pubkey(payer, counter),
                       spl_token_mint_pubkey(t), associated_token(payer, spl_token_mint_pubkey(t)), payer}])

CreateUserWithdrawalCounterAccount(payer) ==
  Build([name |-> "CreateUserWithdrawalCounterAccount"],
        [counter |-> user_withdrawal_counter_pubkey(payer), payer |-> payer,
         writable |-> {user_withdrawal_counter_pubkey(payer), payer}])

UpdateL1BlockInfo(info) ==
  [prog |-> L1INFO, instruction |-> [name |-> "UpdateL1BlockInfo"] @@ info,
   data |-> pack_info([name |-> "UpdateL1BlockInfo"] @@ info), info |-> l1_block_info_pubkey,
   payer |-> NO_SIG_TX_PAYER, writable |-> {l1_block_info_pubkey}]

\* HasNativeInstruction: a deposit, which only the derivation makes
has_derived_bridge_instruction(tx) ==
  \E i \in DOMAIN tx.instructions :
    tx.instructions[i].prog = BRIDGE /\ LET r == unpack(tx.instructions[i].data) IN r.ok /\ is_derived(r.ix)

-----------------------------------------------------------------------------
\* The call that L1 makes to finish a withdrawal; the nonce is marked with the version of messages.

encode_versioned_nonce(nonce) == <<"version 1", nonce>>

relayMessage(nonce, bridge, value, message) ==
  <<"relayMessage", encode_versioned_nonce(nonce), BRIDGE, bridge, value, StandardBridgeCallGasLimit, message>>

get_bridge_eth_calldata(bridge, sender, target, value, counter) ==
  relayMessage(counter, bridge, value, <<"finalizeBridgeETH", sender, target, value>>)

get_bridge_erc20_calldata(bridge, local_token, remote_token, from, to, amount, counter) ==
  relayMessage(counter, bridge, 0, <<"finalizeBridgeERC20", remote_token, local_token, from, to, amount>>)

ETHWithdrawalTransaction(config, payer, nonce, d) ==
  WithdrawalTransaction([nonce |-> nonce, sender |-> BRIDGE, target |-> config.l1_cross_domain_messenger, value |-> d.value,
    gas_limit |-> d.gas_limit,
    calldata |-> get_bridge_eth_calldata(config.l1_standard_bridge, payer, d.target, d.value, nonce)])

SPLWithdrawalTransaction(config, payer, mint, amount, nonce, d) ==
  WithdrawalTransaction([nonce |-> nonce, sender |-> BRIDGE, target |-> config.l1_cross_domain_messenger, value |-> 0,
    gas_limit |-> d.gas_limit,
    calldata |-> get_bridge_erc20_calldata(config.l1_standard_bridge, mint, d.remote_token, payer, d.to, amount, nonce)])

-----------------------------------------------------------------------------
\* Mutant: rounds up.
convert_decimal_up(amount, from, to) ==
  IF from > to THEN (amount + Base ^ (from - to) - 1) \div Base ^ (from - to) ELSE amount * Base ^ (to - from)

convert_decimal(amount, from, to) ==
  IF from > to THEN amount \div Base ^ (from - to) ELSE amount * Base ^ (to - from)

remove_dust(amount, from, to) ==
  IF from <= to THEN amount ELSE (amount \div Base ^ (from - to)) * Base ^ (from - to)

\* utils.rs: the rent that is missing is paid first, then the account is allocated and assigned.
create_account(acc, signers, payer, k, owner, data) ==
  LET have == At(acc, k).lamports
      need == minimum_balance(data)
  IN  Then(IF need > have THEN transfer(acc, signers, payer, k, need - have) ELSE Ok(acc), LAMBDA a :
        Then(allocate(a, k, data), LAMBDA b : assign(b, k, owner)))

deposit_eth(acc, signers, ix, d) ==
  IF \/ ix.payer # NO_SIG_TX_PAYER \/ ix.payer \notin signers
     \/ ix.vault # vault_pubkey \/ d.deposit_to # ix.depositor
     \/ d.value > MaxU64 \/ d.value <= minimum_balance(<<>>)
  THEN Err(acc)
  ELSE transfer(acc, {vault_pubkey}, vault_pubkey, ix.depositor, d.value)

\* The checks both withdrawals make before they count, and the counting.
CountingRefused(acc, ix, d) ==
  \/ d.gas_limit < MinimalGasLimit \/ ix.config # config_pubkey
  \/ ix.counter # user_withdrawal_counter_pubkey(ix.payer)
  \/ At(acc, ix.counter).data = <<>>
Counter(acc, ix) == UnpackCounter(At(acc, ix.counter).data)
Counted(acc, ix) == SetData(acc, ix.counter, WithdrawalCounter(Counter(acc, ix) + 1))
Config(acc, ix) == UnpackConfig(At(acc, ix.config).data)

ETHRefused(acc, ix, d) ==
  \/ ix.withdrawal # withdrawal_transaction_pubkey(ix.payer, Counter(acc, ix))
  \/ ix.vault # vault_pubkey \/ d.value > MaxU64 \/ d.value = 0

\* Mutant: the nonce is the new count, the account that of the old one.
withdraw_eth_new_nonce(acc, signers, ix, d) ==
  IF CountingRefused(acc, ix, d) THEN Err(acc)
  ELSE IF ETHRefused(acc, ix, d) THEN Err(Counted(acc, ix))
  ELSE Then(transfer(Counted(acc, ix), signers, ix.payer, vault_pubkey, d.value), LAMBDA a :
         create_account(a, signers, ix.payer, ix.withdrawal, BRIDGE,
           ETHWithdrawalTransaction(Config(acc, ix), ix.payer, Counter(acc, ix) + 1, d)))

\* Mutant: the value is not transferred.
withdraw_eth_unpaid(acc, signers, ix, d) ==
  IF CountingRefused(acc, ix, d) THEN Err(acc)
  ELSE IF ETHRefused(acc, ix, d) THEN Err(Counted(acc, ix))
  ELSE create_account(Counted(acc, ix), signers, ix.payer, ix.withdrawal, BRIDGE,
         ETHWithdrawalTransaction(Config(acc, ix), ix.payer, Counter(acc, ix), d))

withdraw_eth(acc, signers, ix, d) ==
  IF CountingRefused(acc, ix, d) THEN Err(acc)
  ELSE IF ETHRefused(acc, ix, d) THEN Err(Counted(acc, ix))
  ELSE Then(transfer(Counted(acc, ix), signers, ix.payer, vault_pubkey, d.value), LAMBDA a :
         create_account(a, signers, ix.payer, ix.withdrawal, BRIDGE,
           ETHWithdrawalTransaction(Config(acc, ix), ix.payer, Counter(acc, ix), d)))

withdraw_spl(acc, signers, ix, d) ==
  LET m == At(acc, ix.mint).data
      amount == remove_dust(d.amount, m[2], ShareDecimal)
  IN  IF CountingRefused(acc, ix, d) THEN Err(acc)
      ELSE IF \/ ix.withdrawal # withdrawal_transaction_pubkey(ix.payer, Counter(acc, ix))
              \/ ix.token_owner # spl_token_owner_pubkey(d.remote_token) \/ ix.mint # spl_token_mint_pubkey(d.remote_token)
              \/ m = <<>> \/ amount > MaxU64 \/ amount = 0
      THEN Err(Counted(acc, ix))
      ELSE Then(burn_tokens(Counted(acc, ix), signers, ix.ata, ix.mint, amount), LAMBDA a :
             create_account(a, signers, ix.payer, ix.withdrawal, BRIDGE,
               SPLWithdrawalTransaction(Config(acc, ix), ix.payer, ix.mint, convert_decimal(amount, m[2], ShareDecimal),
                                        Counter(acc, ix), d)))

\* The administrator has signed and is the one on record.
NotAdmin(acc, signers, ix) ==
  \/ ix.owner # bridge_owner_pubkey
  \/ UnpackOwner(At(acc, ix.owner).data) # ix.admin \/ ix.admin \notin signers

change_bridge_admin(acc, signers, ix, d) ==
  IF NotAdmin(acc, signers, ix) THEN Err(acc) ELSE Ok(SetData(acc, ix.owner, BridgeOwner(d.new_admin)))

create_spl(acc, signers, ix, d) ==
  IF \/ d.decimals > ShareDecimal \/ ix.vault # vault_pubkey \/ NotAdmin(acc, signers, ix)
     \/ ix.token_owner # spl_token_owner_pubkey(d.remote_token) \/ ix.mint # spl_token_mint_pubkey(d.remote_token)
     \/ ix.metadata # spl_token_metadata_pubkey(d.remote_token)
  THEN Err(acc)
  ELSE Then(create_account(acc, {vault_pubkey}, vault_pubkey, ix.mint, TOKEN, <<"mint", 0, 0>>), LAMBDA a :
         Then(initialize_mint(a, ix.mint, d.decimals), LAMBDA b :
           create_metadata(b, signers, ix.admin, ix.metadata, <<d.tokenname, d.symbol, d.uri>>)))

update_spl_metadata(acc, signers, ix, d) ==
  IF \/ NotAdmin(acc, signers, ix) \/ ix.metadata # spl_token_metadata_pubkey(d.remote_token)
     \/ ix.token_owner # spl_token_owner_pubkey(d.remote_token)
  THEN Err(acc) ELSE update_metadata(acc, ix.metadata, <<d.tokenname, d.symbol, d.uri>>)

\* The token account is created at the vault's cost if it is not one already.
deposit_erc20(acc, signers, ix, d) ==
  LET t == At(acc, ix.ata)
      m == At(acc, ix.mint).data
      amount == convert_decimal(d.amount, ShareDecimal, m[2])
  IN  IF \/ ix.payer # NO_SIG_TX_PAYER \/ ix.payer \notin signers
         \/ d.to # ix.depositor \/ ix.depositor \notin signers
         \/ ix.vault # vault_pubkey \/ d.local_token # ix.mint
         \/ ix.token_owner # spl_token_owner_pubkey(d.remote_token) \/ ix.mint # spl_token_mint_pubkey(d.remote_token)
         \/ t.owner = TOKEN /\ t.data[3] # ix.depositor
      THEN Err(acc)
      ELSE Then(IF t.owner = TOKEN THEN Ok(acc)
                ELSE IF m = <<>> THEN Err(acc)
                ELSE create_associated_token_account(acc, vault_pubkey, ix.depositor, ix.mint), LAMBDA a :
             IF m = <<>> \/ amount > MaxU64 THEN Err(a) ELSE mint_to(a, ix.mint, ix.ata, amount))

create_user_withdrawal_counter_account(acc, signers, ix) ==
  IF ix.counter # user_withdrawal_counter_pubkey(ix.payer) THEN Err(acc)
  ELSE create_account(acc, signers, ix.payer, ix.counter, BRIDGE, WithdrawalCounter(0))

\* l1-block-info-program/src/processor.rs
update_l1_block_info(acc, signers, ix, d) ==
  IF ix.payer # NO_SIG_TX_PAYER \/ ix.payer \notin signers \/ ix.info # l1_block_info_pubkey THEN Err(acc)
  ELSE Ok(SetData(acc, ix.info, L1BlockInfo(d)))

Dispatch(acc, signers, ix, d) ==
  CASE d.name = "DepositETH" -> deposit_eth(acc, signers, ix, d)
    [] d.name = "WithdrawETH" -> withdraw_eth(acc, signers, ix, d)
    [] d.name = "CreateSPL" -> create_spl(acc, signers, ix, d)
    [] d.name = "DepositERC20" -> deposit_erc20(acc, signers, ix, d)
    [] d.name = "WithdrawSPL" -> withdraw_spl(acc, signers, ix, d)
    [] d.name = "ChangeBridgeAdmin" -> change_bridge_admin(acc, signers, ix, d)
    [] d.name = "CreateUserWithdrawalCounterAccount" -> create_user_withdrawal_counter_account(acc, signers, ix)
    [] d.name = "UpdateSPLMetadata" -> update_spl_metadata(acc, signers, ix, d)
    [] d.name = "UpdateL1BlockInfo" -> update_l1_block_info(acc, signers, ix, d)
    [] OTHER -> Ok(acc)  \* instructions that are no longer used

ProcessUnpacked(acc, signers, ix, r) == IF r.ok THEN Dispatch(acc, signers, ix, r.ix) ELSE Err(acc)

\* Processor::process of either program
process(acc, signers, ix) ==
  ProcessUnpacked(acc, signers, ix, IF ix.prog = BRIDGE THEN unpack(ix.data) ELSE unpack_info(ix.data))
=============================================================================
