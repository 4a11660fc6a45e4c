----------------------------- MODULE MCPreimage -----------------------------
(***************************************************************************)
(* An instance of Preimage: two L1 blocks with a shared receipts trie, two *)
(* accounts, four L2 blocks, of which the first reads both accounts and    *)
(* changes one, the second reads both again, the third destroys the one    *)
(* that was changed, and the fourth cannot be built, as the L2 node has no *)
(* bank hash for the third. The store of an offline host may lack an       *)
(* account or a bank hash.                                                 *)
(***************************************************************************)
EXTENDS Preimage, TLC

CONSTANTS a, b, c

MCTxs == (0 :> <<<<"tx", 0>>>>) @@ (1 :> <<<<"tx", 1>>, <<"tx", 2>>>>)
MCReceipts == [n \in 0 .. 1 |-> <<<<"empty">>>>]
MCReads == <<<<a, b>>, <<a, b>>, <<a>>, <<>>>>
MCWrites == <<{a}, {}, {a}, {}>>
MCDestroys == <<{}, {}, {a}, {}>>

MCMissing == {{}, {new_l2_account_proof(b)}, {new_l2_bank_hash(0)}}

MCCalls == { load, header_by_hash(1), block_info_by_number(0), block_info_by_number(2), receipts_by_hash(1),
             get_block_transactions_by_hash(1), get_input(c), get_blob(0),
             new_oracle_pipeline_cursor(0, 0, 1) }
=============================================================================
