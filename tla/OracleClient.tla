---------------------------- MODULE OracleClient ----------------------------
(***************************************************************************)
(* The calls the client program makes of the oracle: for each operation of *)
(* its providers (proof/proof/src) the hints it writes and the preimages   *)
(* it asks for, in order. The data are the host's, so the course of a call *)
(* is known before it starts.                                              *)
(***************************************************************************)
EXTENDS HostData

HintOp(ty, data) == [op |-> "hint", hint |-> Hint(ty, data)]
Get(k)           == [op |-> "get", key |-> k]
GetExact(k, len) == [op |-> "get_exact", key |-> k, len |-> len]

PanicOp          == [op |-> "panic"]

IsGet(o) == o.op \in {"get", "get_exact"}

\* BootInfo::load
load == << GetExact(new_local(L1_HEAD_KEY), 32), GetExact(new_local(L2_OUTPUT_ROOT_KEY), 32),
           Get(new_local(L2_AGREED_BLOCK_NUMBER_KEY)), GetExact(new_local(L2_CLAIM_KEY), 32),
           Get(new_local(L2_CLAIM_BLOCK_NUMBER_KEY)), Get(new_local(L2_CHAIN_ID_KEY)),
           Get(new_local(L2_ROLLUP_CONFIG_KEY)) >>

-----------------------------------------------------------------------------
\* OracleL1ChainProvider

header_by_hash(b) == <<HintOp("l1-block-header", b), Get(new_keccak256(<<"header", b>>))>>

\* block_info_by_number: from the L1 head back to the block; a block past the head costs the
\* look at the head only.
block_info_by_number(n) ==
  LET looked == IF n > L1Head THEN 1 ELSE L1Head - n + 1
  IN  [i \in 1 .. 2 * looked |-> header_by_hash(L1Head - (i - 1) \div 2)[1 + ((i - 1) % 2)]]

trie_walk(nodes) == [i \in 1 .. Len(nodes) |-> Get(new_keccak256(nodes[i]))]

\* Mutant: the hint for the receipts is written before the header is read.
receipts_hint_first(b) ==
  <<HintOp("l1-receipts", b)>> \o header_by_hash(b) \o trie_walk(Receipts[b])

receipts_by_hash(b) ==
  header_by_hash(b) \o <<HintOp("l1-receipts", b)>> \o trie_walk(Receipts[b])

get_block_transactions_by_hash(b) ==
  header_by_hash(b) \o <<HintOp("l1-transactions", b)>> \o trie_walk(Txs[b])

\* OracleDaProvider::get_input
get_input(c) == <<HintOp("da-proxy-blob", c), Get(new_da_proxy_blob(c))>>

\* OracleBlobProvider::get_blob, up to the commitment; the field elements come after it.
get_blob(h) == <<HintOp("l1-blob", h), GetExact(PreimageKey("Sha256", h), 48)>>

-----------------------------------------------------------------------------
\* OracleL2ChainProvider; l2_block_info_by_number and system_config_by_number read the block.

get_block_by_number(n) == <<HintOp("l2-block-data", n), Get(new_block_slot(n))>>

\* The conversion to 32 bytes panics if the L2 node has no bank hash for the block.
bank_hash(n) ==
  LET read == <<HintOp("l2-bank-hash", n), Get(new_l2_bank_hash(n))>>
  IN  IF n \in NoBankHash THEN read \o <<PanicOp>> ELSE read
block_time(n) == <<HintOp("l2-block-time", n), Get(new_l2_block_time(n))>>

\* TrieDB::get_account_data
get_account_data(a, n) == <<HintOp("l2-account-proof", <<n, a>>), Get(new_l2_account_proof(a))>>

\* new_oracle_pipeline_cursor: the safe head, its L1 origin, and the block `back` before it
new_oracle_pipeline_cursor(n, origin, back) ==
  get_block_by_number(n) \o block_info_by_number(origin)
    \o block_info_by_number(IF back > origin THEN 0 ELSE origin - back)

\* Mutant: the diff holds the accounts of the last block only.
OverlayLast(n) == IF n = 1 THEN {} ELSE Writes[n - 1]

\* Accounts changed by the blocks before n, which are served from the diff of the builder.
Overlay(n) == UNION {Writes[m] : m \in 1 .. n - 1}

\* AccountsDB::get_account in block n: the diff first, then the state of the block before n.
get_account(a, n) == IF a \in Overlay(n) THEN <<>> ELSE get_account_data(a, n - 1)

\* The accounts block n loads, in order.
load_accounts(n) ==
  LET loaded[i \in 0 .. Len(Reads[n])] ==
        IF i = 0 THEN <<>> ELSE loaded[i - 1] \o get_account(Reads[n][i], n)
  IN  loaded[Len(Reads[n])]

\* The elements of a set in a fixed order: update_accounts sorts addresses by their hash.
Listing(S) == CHOOSE s \in Bijection(1 .. Cardinality(S), S) : TRUE

\* The nodes update_accounts opens in block n: the root the first time, and the leaves of the
\* accounts it changes that are still those of the agreed block.
update_accounts(n) ==
  LET fresh == Listing(Writes[n] \ Overlay(n))
  IN  (IF Overlay(n) = {} /\ Writes[n] # {} THEN <<Get(new_keccak256(StateRoot(0)))>> ELSE <<>>)
        \o [i \in 1 .. Len(fresh) |-> Get(new_keccak256(StateLeaf(fresh[i], 0)))]

\* The leaf of s in the trie of the agreed block, by way of an address that does not exist.
open_sibling(s, n) == <<HintOp("l2-account-proof", <<n, Mock(s)>>), Get(new_keccak256(StateLeaf(s, 0)))>>

\* collapse_if_possible: when a destroyed account leaves one sibling that was never opened, it
\* is opened.
collapse(n) ==
  LET left == {a \in Account : ~Destroyed(a, n)}
  IN  IF Destroys[n] # {} /\ Cardinality(left) = 1 /\ left \cap (Overlay(n) \cup Writes[n]) = {}
      THEN open_sibling(CHOOSE a \in left : TRUE, n - 1)
      ELSE <<>>

\* StatelessL2BlockBuilder::build_block on the block before n
build_block(n) ==
  bank_hash(n - 1) \o block_time(n) \o load_accounts(n) \o update_accounts(n) \o collapse(n)

\* All a builder may ask for in block n, and all nodes of the trie of the agreed block it may
\* open, whatever the transactions it executes do with the accounts they find.
BlockCalls(n) ==
  {bank_hash(n - 1), block_time(n)} \cup {get_account_data(a, n - 1) : a \in Account}
    \cup {open_sibling(a, n - 1) : a \in Account}
NodeCalls == {<<Get(new_keccak256(x))>> : x \in {StateRoot(0)} \cup {StateLeaf(a, 0) : a \in Account}}
BuilderCalls == NodeCalls \cup UNION {BlockCalls(n) : n \in 1 .. L2Head}

-----------------------------------------------------------------------------
\* The calls of the providers. A block past the L1 head and a channel timeout longer than the
\* chain make one case each.
TrieCalls == UNION {{header_by_hash(b), receipts_by_hash(b), get_block_transactions_by_hash(b)} : b \in 0 .. L1Head}
InfoCalls == {block_info_by_number(n) : n \in 0 .. L1Head + 1}
DataCalls == {get_input(c) : c \in Commitment} \cup {get_blob(h) : h \in BlobHash}
HeadCalls == {get_block_by_number(n) : n \in 0 .. L2Head}
CursorCalls == {new_oracle_pipeline_cursor(n, o, t) : n \in 0 .. L2Head, o \in 0 .. L1Head, t \in 0 .. L1Head + 1}

ProviderCalls == {load} \cup TrieCalls \cup InfoCalls \cup DataCalls \cup HeadCalls \cup CursorCalls
=============================================================================
