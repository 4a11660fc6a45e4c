------------------------------ MODULE HostData ------------------------------
(***************************************************************************)
(* What the host knows and how a hint makes it available: preimage keys    *)
(* (preimage/src/key.rs), hints (proof/src/hint.rs), the hint handler      *)
(* (bin/host/src/single/handler.rs) and the key-value stores.              *)
(*                                                                         *)
(* Preimages are not bytes: a value is a record of the key it belongs to,  *)
(* the L2 block it was read at (accounts only, 0 otherwise) and its size.  *)
(* L1 block n has hash n.                                                  *)
(***************************************************************************)
EXTENDS Naturals, Sequences, FiniteSets, Functions

CONSTANTS
  L1Head,     \* number of the L1 head block; blocks 0..L1Head exist
  Txs,        \* Txs[b]: nodes of the transactions trie of L1 block b, root first
  Receipts,   \* Receipts[b]: nodes of its receipts trie, root first
  Account,    \* L2 account addresses
  Writes,     \* Writes[n]: the accounts that L2 block n changes, n \in 1..L2Head
  Destroys,   \* Destroys[n]: those of Writes[n] that it destroys
  Reads,      \* Reads[n]: the accounts L2 block n loads, in order
  L2Head,     \* number of the last L2 block
  Commitment, \* DA commitments
  BlobHash,   \* versioned hashes of L1 blobs
  NoBankHash  \* L2 blocks for which the L2 node has no bank hash

ASSUME WorldAssumption ==
  /\ L1Head \in Nat /\ L2Head \in Nat
  /\ DOMAIN Txs = 0 .. L1Head /\ DOMAIN Receipts = 0 .. L1Head
  /\ \A b \in 0 .. L1Head : Txs[b] \in Seq(Range(Txs[b])) /\ Receipts[b] \in Seq(Range(Receipts[b]))
  /\ \A n \in 1 .. L2Head : Reads[n] \in Seq(Account) /\ Destroys[n] \subseteq Writes[n] /\ Writes[n] \subseteq Range(Reads[n])

PreimageKeyType == {"Local", "Keccak256", "GlobalGeneric", "Sha256", "Blob", "Precompile",
                    "BlockSlot", "DAProxyBlob", "L2AccountProof", "BankHash", "BlockTime"}

HintType == {"l1-block-header", "l1-transactions", "l1-receipts", "l1-blob", "da-proxy-blob",
             "l1-precompile", "starting-l2-output", "l2-state-node", "l2-account-proof",
             "l2-block-data", "l2-bank-hash", "l2-block-time"}

Hint(ty, data) == <<ty, data>>

PreimageKey(ty, data) == <<ty, data>>
KeyType(k) == k[1]

new_local(ident)           == PreimageKey("Local", ident)
new_keccak256(digest)      == PreimageKey("Keccak256", digest)
new_block_slot(n)          == PreimageKey("BlockSlot", n)
new_da_proxy_blob(c)       == PreimageKey("DAProxyBlob", c)
new_l2_bank_hash(n)        == PreimageKey("BankHash", n)
new_l2_block_time(n)       == PreimageKey("BlockTime", n)

\* The key of an account does not name the block its data are taken at.
new_l2_account_proof(a)    == PreimageKey("L2AccountProof", a)

\* The local inputs; SingleChainLocalInputs serves them from the configuration.
L1_HEAD_KEY == 1
L2_OUTPUT_ROOT_KEY == 2
L2_AGREED_BLOCK_NUMBER_KEY == 3
L2_CLAIM_KEY == 4
L2_CLAIM_BLOCK_NUMBER_KEY == 5
L2_CHAIN_ID_KEY == 6
L2_ROLLUP_CONFIG_KEY == 7
LocalInputs == 1 .. 7

-----------------------------------------------------------------------------
\* The L2 state trie is a root over one leaf per account. A leaf is named by the last block
\* that wrote it, the root by its block; the agreed block is 0.
LastWrite(a, n) ==
  LET ws == {m \in 1 .. n : a \in Writes[m]} IN IF ws = {} THEN 0 ELSE CHOOSE m \in ws : \A o \in ws : o <= m

Destroyed(a, n) == LastWrite(a, n) # 0 /\ a \in Destroys[LastWrite(a, n)]

StateRoot(n) == <<"root", IF n = 0 THEN 0 ELSE CHOOSE m \in 0 .. n :
                                   /\ m = 0 \/ Writes[m] # {}
                                   /\ \A o \in m + 1 .. n : Writes[o] = {}>>
StateLeaf(a, n) == <<"leaf", a, LastWrite(a, n)>>

\* An address whose path ends at the leaf of a without being a (see collapse_if_possible).
Mock(a) == <<"mock", a>>
ASSUME MockAssumption == \A a \in Account : Mock(a) \notin Account

PathAccount(a) == IF a \in Account THEN a ELSE a[2]

\* get_tried_account_proof: the nodes on the path of an address at block n.
AccountProof(a, n) == {StateRoot(n), StateLeaf(PathAccount(a), n)}

-----------------------------------------------------------------------------
Empty == [key |-> <<"Empty">>, at |-> 0, size |-> 0]

\* Sizes in bytes where the code relies on them; 64 stands for any other.
SizeOf(k) == CASE KeyType(k) = "Local" /\ k[2] \in {L1_HEAD_KEY, L2_OUTPUT_ROOT_KEY, L2_CLAIM_KEY} -> 32
               [] KeyType(k) = "Local" /\ k[2] = L2_ROLLUP_CONFIG_KEY -> 64
               [] KeyType(k) \in {"Local", "BlockTime"} -> 8
               [] KeyType(k) = "BankHash" -> 32
               [] OTHER -> 64

Preimage(k) == [key |-> k, at |-> 0, size |-> SizeOf(k)]

AccountData(a, n) ==
  IF a \notin Account \/ Destroyed(a, n) THEN Empty
  ELSE [key |-> new_l2_account_proof(a), at |-> LastWrite(a, n), size |-> 64]

Store(keys) == [k \in keys |-> Preimage(k)]

\* store_ordered_trie: every node of the trie, the root of an empty one included.
store_ordered_trie(nodes) == Store({new_keccak256(x) : x \in Range(nodes)})

\* KeyValueStore::set for each of the entries.
KvSet(kv, entries) ==
  [k \in DOMAIN kv \cup DOMAIN entries |-> IF k \in DOMAIN entries THEN entries[k] ELSE kv[k]]

fetch_account(a, n) ==
  KvSet(Store({new_keccak256(x) : x \in AccountProof(a, n)}),
        [k \in {new_l2_account_proof(a)} |-> AccountData(a, n)])

\* The L2 node is asked for an account, a block, a bank hash or a block time; the state nodes
\* come with the proofs of accounts.
fetch_l2(h) ==
  CASE h[1] = "l2-state-node" -> <<>>
    [] h[1] = "l2-account-proof" -> fetch_account(h[2][2], h[2][1])
    [] h[1] = "l2-block-data" -> Store({new_block_slot(h[2])})
    [] h[1] = "l2-bank-hash" ->
         [k \in {new_l2_bank_hash(h[2])} |-> IF h[2] \in NoBankHash THEN Empty ELSE Preimage(k)]
    [] h[1] = "l2-block-time" -> Store({new_l2_block_time(h[2])})

\* SingleChainHintHandler::fetch_hint: the entries a hint adds to the store. L1 blobs add none.
fetch_hint(h) ==
  CASE h[1] = "l1-block-header" -> Store({new_keccak256(<<"header", h[2]>>)})
    [] h[1] = "l1-transactions" -> store_ordered_trie(Txs[h[2]])
    [] h[1] = "l1-receipts" -> store_ordered_trie(Receipts[h[2]])
    [] h[1] = "l1-blob" -> <<>>
    [] h[1] = "da-proxy-blob" -> Store({new_da_proxy_blob(h[2])})
    [] h[1] = "l1-precompile" -> Store({new_keccak256(h[2]), PreimageKey("Precompile", h[2])})
    [] h[1] = "starting-l2-output" -> Store({new_keccak256(h[2])})
    [] OTHER -> fetch_l2(h)

\* SplitKeyValueStore::get: local keys come from the configuration, the rest from the store.
KvHas(kv, k) == IF KeyType(k) = "Local" THEN k[2] \in LocalInputs ELSE k \in DOMAIN kv
KvGet(kv, k) == IF KeyType(k) = "Local" THEN Preimage(k) ELSE kv[k]
=============================================================================
