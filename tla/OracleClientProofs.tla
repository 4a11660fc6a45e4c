------------------------- MODULE OracleClientProofs -------------------------
(***************************************************************************)
(* What the calls of the client promise (OracleClient), for every L1 and   *)
(* L2 chain: each key a call asks for is brought by its last hint, or is a *)
(* node of the path of an account that the call has loaded before.         *)
(***************************************************************************)
EXTENDS OracleClient, FiniteSetTheorems, WellFoundedInduction, TLAPS

\* What a hint makes the host fetch, and the trie nodes that come with an account.
IsHint(o) == o.op = "hint"
Fetched(h) == DOMAIN fetch_hint(h)
StateNodes(a, n) ==
  {new_keccak256(StateLeaf(a, 0))} \cup IF Overlay(n) = {} THEN {new_keccak256(StateRoot(0))} ELSE {}

\* Keys the host has without a hint, or does not serve at all.
NeedsNoHint(k) == KeyType(k) = "Sha256" \/ (KeyType(k) = "Local" /\ k[2] \in LocalInputs)

\* The last hint of the call before operation i brings the key of operation i.
HintedBefore(s, i) ==
  \E j \in 1 .. i - 1 : /\ IsHint(s[j]) /\ s[i].key \in Fetched(s[j].hint)
                        /\ \A m \in j + 1 .. i - 1 : ~IsHint(s[m])

\* It is a node of the path of an account the call has loaded before.
NodeOfAccount(s, i, n) ==
  \E j \in 1 .. i - 1 : \E a \in Account :
     IsGet(s[j]) /\ s[j].key = new_l2_account_proof(a) /\ s[i].key \in StateNodes(a, n)

\* In block n the data of an account are asked for at the block before n, and only if no
\* block since the agreed one has changed it.
OpFits(o, n) ==
  /\ IsHint(o) /\ o.hint[1] = "l2-account-proof" =>
       n >= 1 /\ o.hint[2][1] = n - 1 /\ (o.hint[2][2] \in Account => o.hint[2][2] \notin Overlay(n))
  /\ IsGet(o) /\ KeyType(o.key) = "L2AccountProof" => n >= 1 /\ o.key[2] \in Account \ Overlay(n)

Brought(s, i, n) == NeedsNoHint(s[i].key) \/ HintedBefore(s, i) \/ NodeOfAccount(s, i, n)

IsSeq(s) == s \in Seq(Range(s))

CallFits(s, n) ==
  IsSeq(s) /\ \A i \in 1 .. Len(s) : OpFits(s[i], n) /\ (IsGet(s[i]) => Brought(s, i, n))

\* Two sequences end to end.
LEMMA Concat ==
  ASSUME NEW s, NEW t, IsSeq(s), IsSeq(t)
  PROVE  /\ IsSeq(s \o t) /\ Len(s) \in Nat /\ Len(t) \in Nat /\ Len(s \o t) = Len(s) + Len(t)
         /\ \A i \in 1 .. Len(s) : (s \o t)[i] = s[i]
         /\ \A i \in 1 .. Len(t) : (s \o t)[Len(s) + i] = t[i]
<1> DEFINE S == Range(s) \cup Range(t)
<1>1. s \in Seq(S) /\ t \in Seq(S)
  <2>1. Range(s) \subseteq S /\ Range(t) \subseteq S
    OBVIOUS
  <2> HIDE DEF S
  <2> QED BY <2>1 DEF IsSeq
<1> HIDE DEF S
<1>2. /\ s \o t \in Seq(S) /\ Len(s) \in Nat /\ Len(t) \in Nat /\ Len(s \o t) = Len(s) + Len(t)
      /\ \A i \in 1 .. Len(s) : (s \o t)[i] = s[i]
      /\ \A i \in 1 .. Len(t) : (s \o t)[Len(s) + i] = t[i]
  BY <1>1
<1>3. ASSUME NEW u \in Seq(S) PROVE IsSeq(u)
  <2>1. DOMAIN u = 1 .. Len(u) /\ Len(u) \in Nat /\ u = [i \in 1 .. Len(u) |-> u[i]]
    OBVIOUS
  <2>2. \A i \in 1 .. Len(u) : u[i] \in Range(u)
    BY <2>1 DEF Range
  <2> QED BY <2>1, <2>2 DEF IsSeq
<1> QED BY <1>2, <1>3

\* A call may be continued by operations that are brought by hints of their own, by its last
\* hint, or by an account it has loaded.
LEMMA CatFits ==
  ASSUME NEW n, NEW s, NEW t, CallFits(s, n), IsSeq(t),
         \A i \in 1 .. Len(t) :
           /\ OpFits(t[i], n)
           /\ IsGet(t[i]) =>
                \/ Brought(t, i, n)
                \/ \E j \in 1 .. Len(s) : /\ IsHint(s[j]) /\ t[i].key \in Fetched(s[j].hint)
                                          /\ \A m \in j + 1 .. Len(s) : ~IsHint(s[m])
                                          /\ \A m \in 1 .. i - 1 : ~IsHint(t[m])
                \/ \E j \in 1 .. Len(s) : \E a \in Account :
                     IsGet(s[j]) /\ s[j].key = new_l2_account_proof(a) /\ t[i].key \in StateNodes(a, n)
  PROVE  CallFits(s \o t, n)
<1> DEFINE u == s \o t
<1>1. /\ IsSeq(u) /\ Len(s) \in Nat /\ Len(t) \in Nat /\ Len(u) = Len(s) + Len(t)
      /\ \A i \in 1 .. Len(s) : u[i] = s[i]
      /\ \A i \in 1 .. Len(t) : u[Len(s) + i] = t[i]
  BY Concat DEF CallFits
<1> HIDE DEF u
<1>2. ASSUME NEW i \in 1 .. Len(s)
      PROVE  OpFits(u[i], n) /\ (IsGet(u[i]) => Brought(u, i, n))
  <2>1. u[i] = s[i] /\ \A j \in 1 .. i - 1 : u[j] = s[j]
    BY <1>1
  <2>2. OpFits(s[i], n) /\ (IsGet(s[i]) => Brought(s, i, n))
    BY DEF CallFits
  <2>3. HintedBefore(s, i) => HintedBefore(u, i)
    BY <2>1, <1>1 DEF HintedBefore
  <2>4. NodeOfAccount(s, i, n) => NodeOfAccount(u, i, n)
    BY <2>1 DEF NodeOfAccount
  <2> QED BY <2>1, <2>2, <2>3, <2>4 DEF Brought
<1>3. ASSUME NEW i \in 1 .. Len(t)
      PROVE  OpFits(u[Len(s) + i], n) /\ (IsGet(u[Len(s) + i]) => Brought(u, Len(s) + i, n))
  <2> DEFINE k == Len(s) + i
  <2>1. /\ k \in Nat /\ i \in Nat /\ u[k] = t[i]
        /\ \A j \in 1 .. i - 1 : u[Len(s) + j] = t[j] /\ Len(s) + j \in 1 .. k - 1
        /\ \A j \in 1 .. Len(s) : j \in 1 .. k - 1
    BY <1>1
  <2>2. OpFits(u[k], n)
    BY <2>1
  <2>3. ASSUME HintedBefore(t, i)
        PROVE  HintedBefore(u, k)
    <3>1. PICK j \in 1 .. i - 1 : /\ IsHint(t[j]) /\ t[i].key \in Fetched(t[j].hint)
                                  /\ \A m \in j + 1 .. i - 1 : ~IsHint(t[m])
      BY <2>3 DEF HintedBefore
    <3>2. \A m \in Len(s) + j + 1 .. k - 1 : ~IsHint(u[m])
      <4> TAKE m \in Len(s) + j + 1 .. k - 1
      <4>1. m - Len(s) \in j + 1 .. i - 1 /\ Len(s) + (m - Len(s)) = m /\ m - Len(s) \in 1 .. i - 1
        BY <1>1, <2>1
      <4> QED BY <2>1, <3>1, <4>1
    <3> QED BY <2>1, <3>1, <3>2 DEF HintedBefore
  <2>4. NodeOfAccount(t, i, n) => NodeOfAccount(u, k, n)
    BY <2>1 DEF NodeOfAccount
  <2>5. ASSUME NEW j \in 1 .. Len(s), IsHint(s[j]), t[i].key \in Fetched(s[j].hint),
               \A m \in j + 1 .. Len(s) : ~IsHint(s[m]), \A m \in 1 .. i - 1 : ~IsHint(t[m])
        PROVE  HintedBefore(u, k)
    <3>1. \A m \in j + 1 .. k - 1 : ~IsHint(u[m])
      <4> TAKE m \in j + 1 .. k - 1
      <4>1. CASE m <= Len(s)
        BY <1>1, <2>5, <4>1
      <4>2. CASE ~(m <= Len(s))
        <5>1. m - Len(s) \in 1 .. i - 1 /\ Len(s) + (m - Len(s)) = m
          BY <1>1, <2>1, <4>2
        <5> QED BY <2>1, <2>5, <5>1
      <4> QED BY <4>1, <4>2
    <3> QED BY <1>1, <2>1, <2>5, <3>1 DEF HintedBefore
  <2>6. ASSUME NEW j \in 1 .. Len(s), NEW a \in Account,
               IsGet(s[j]), s[j].key = new_l2_account_proof(a), t[i].key \in StateNodes(a, n)
        PROVE  NodeOfAccount(u, k, n)
    BY <1>1, <2>1, <2>6 DEF NodeOfAccount
  <2>7. IsGet(t[i]) => NeedsNoHint(t[i].key) \/ HintedBefore(u, k) \/ NodeOfAccount(u, k, n)
    BY <2>3, <2>4, <2>5, <2>6 DEF Brought
  <2> QED BY <2>1, <2>2, <2>7 DEF Brought
<1>4. \A i \in 1 .. Len(u) : i \in 1 .. Len(s) \/ (i - Len(s) \in 1 .. Len(t) /\ i = Len(s) + (i - Len(s)))
  BY <1>1
<1> QED BY <1>1, <1>2, <1>3, <1>4 DEF CallFits, u

\* Two calls make a call.
LEMMA CatBoth ==
  ASSUME NEW n, NEW s, NEW t, CallFits(s, n), CallFits(t, n)
  PROVE  CallFits(s \o t, n)
<1>1. IsSeq(t) /\ \A i \in 1 .. Len(t) : OpFits(t[i], n) /\ (IsGet(t[i]) => Brought(t, i, n))
  BY DEF CallFits
<1> HIDE DEF CallFits
<1> QED BY <1>1, CatFits

\* No operation is a call of its own.
LEMMA EmptyFits == ASSUME NEW n PROVE CallFits(<<>>, n)
<1>1. IsSeq(<<>>)
  BY DEF IsSeq
<1> QED BY <1>1 DEF CallFits

\* What the operations are.
LEMMA Operations ==
  ASSUME NEW ty, NEW d, NEW k, NEW len
  PROVE  /\ IsHint(HintOp(ty, d)) /\ ~IsGet(HintOp(ty, d)) /\ HintOp(ty, d).hint = <<ty, d>>
         /\ IsGet(Get(k)) /\ ~IsHint(Get(k)) /\ Get(k).key = k
         /\ IsGet(GetExact(k, len)) /\ ~IsHint(GetExact(k, len)) /\ GetExact(k, len).key = k
BY DEF IsHint, IsGet, HintOp, Get, GetExact, Hint

\* A hint alone, or the end of the program.
LEMMA HintFits ==
  ASSUME NEW n, NEW o, ~IsGet(o), OpFits(o, n)
  PROVE  CallFits(<<o>>, n)
<1>1. IsSeq(<<o>>) /\ Len(<<o>>) = 1 /\ <<o>>[1] = o
  BY DEF IsSeq, Range
<1>2. \A i \in 1 .. 1 : i = 1
  OBVIOUS
<1> QED BY <1>1, <1>2, Zenon DEF CallFits

\* A hint and a request for a key it brings.
LEMMA PairFits ==
  ASSUME NEW n, NEW h, NEW o, IsHint(h), ~IsGet(h), OpFits(h, n), IsGet(o), OpFits(o, n),
         o.key \in Fetched(h.hint) \/ NeedsNoHint(o.key)
  PROVE  CallFits(<<h, o>>, n)
<1> DEFINE s == <<h, o>>
<1>1. IsSeq(s) /\ Len(s) = 2 /\ s[1] = h /\ s[2] = o
  BY DEF IsSeq, Range
<1> HIDE DEF s
<1>2. Brought(s, 2, n)
  BY <1>1 DEF Brought, HintedBefore
<1>3. \A i \in 1 .. 2 : i = 1 \/ i = 2
  OBVIOUS
<1>4. CallFits(s, n)
  BY <1>1, <1>2, <1>3, Zenon DEF CallFits
<1> QED BY <1>4 DEF s

\* An operation that has nothing to do with accounts fits into every block.
LEMMA PlainFits ==
  ASSUME NEW n, NEW ty, NEW d, ty # "l2-account-proof", NEW k, KeyType(k) # "L2AccountProof", NEW len
  PROVE  OpFits(HintOp(ty, d), n) /\ OpFits(Get(k), n) /\ OpFits(GetExact(k, len), n)
<1>1. \A o : o.hint[1] # "l2-account-proof" /\ ~IsGet(o) => OpFits(o, n)
  BY DEF OpFits
<1>2. \A o : ~IsHint(o) /\ KeyType(o.key) # "L2AccountProof" => OpFits(o, n)
  BY DEF OpFits
<1>3. HintOp(ty, d).hint[1] = ty
  BY DEF HintOp, Hint
<1> QED BY <1>1, <1>2, <1>3, Operations

-----------------------------------------------------------------------------
\* What the hints of the L1 providers bring.
LEMMA L1Fetched ==
  ASSUME NEW d
  PROVE  /\ Fetched(<<"l1-block-header", d>>) = {new_keccak256(<<"header", d>>)}
         /\ Fetched(<<"l1-transactions", d>>) = {new_keccak256(x) : x \in Range(Txs[d])}
         /\ Fetched(<<"l1-receipts", d>>) = {new_keccak256(x) : x \in Range(Receipts[d])}
         /\ Fetched(<<"da-proxy-blob", d>>) = {new_da_proxy_blob(d)}
         /\ Fetched(<<"l1-blob", d>>) = {}
BY DEF Fetched, fetch_hint, Store, store_ordered_trie

\* What the hints for the L2 node bring.
LEMMA L2Fetched ==
  ASSUME NEW d, NEW a, NEW m
  PROVE  /\ Fetched(<<"l2-block-data", d>>) = {new_block_slot(d)}
         /\ Fetched(<<"l2-bank-hash", d>>) = {new_l2_bank_hash(d)}
         /\ Fetched(<<"l2-block-time", d>>) = {new_l2_block_time(d)}
         /\ Fetched(<<"l2-account-proof", <<m, a>>>>) =
              {new_keccak256(x) : x \in AccountProof(a, m)} \cup {new_l2_account_proof(a)}
<1> USE DEF Fetched, fetch_hint, fetch_l2, Store
<1>2. Fetched(<<"l2-block-data", d>>) = {new_block_slot(d)}
  OBVIOUS
<1>3. Fetched(<<"l2-bank-hash", d>>) = {new_l2_bank_hash(d)}
  OBVIOUS
<1>4. Fetched(<<"l2-block-time", d>>) = {new_l2_block_time(d)}
  OBVIOUS
<1>5. Fetched(<<"l2-account-proof", <<m, a>>>>) = DOMAIN fetch_account(a, m)
  OBVIOUS
<1>6. DOMAIN fetch_account(a, m) = {new_keccak256(x) : x \in AccountProof(a, m)} \cup {new_l2_account_proof(a)}
  BY DEF fetch_account, KvSet
<1> QED BY <1>2, <1>3, <1>4, <1>5, <1>6

\* The same for data that do not depend on a block.
LEMMA AskFits ==
  ASSUME NEW n, NEW ty, NEW d, NEW k, ty # "l2-account-proof", KeyType(k) # "L2AccountProof",
         k \in Fetched(<<ty, d>>)
  PROVE  CallFits(<<HintOp(ty, d), Get(k)>>, n)
<1> DEFINE h == HintOp(ty, d)  o == Get(k)
<1>1. IsHint(h) /\ ~IsGet(h) /\ h.hint = <<ty, d>> /\ IsGet(o) /\ o.key = k
  BY Operations
<1>2. OpFits(h, n) /\ OpFits(o, n)
  BY PlainFits
<1> HIDE DEF h, o
<1>3. CallFits(<<h, o>>, n)
  BY <1>1, <1>2, PairFits
<1> QED BY <1>3 DEF h, o

\* And for data the host does not serve.
LEMMA AskUnservedFits ==
  ASSUME NEW n, NEW ty, NEW d, NEW k, NEW len, ty # "l2-account-proof", KeyType(k) # "L2AccountProof",
         NeedsNoHint(k)
  PROVE  CallFits(<<HintOp(ty, d), GetExact(k, len)>>, n)
<1> DEFINE h == HintOp(ty, d)  o == GetExact(k, len)
<1>1. IsHint(h) /\ ~IsGet(h) /\ IsGet(o) /\ o.key = k
  BY Operations
<1>2. OpFits(h, n) /\ OpFits(o, n)
  BY PlainFits
<1> HIDE DEF h, o
<1>3. CallFits(<<h, o>>, n)
  BY <1>1, <1>2, PairFits
<1> QED BY <1>3 DEF h, o

\* OracleL1ChainProvider::header_by_hash
LEMMA HeaderFits == ASSUME NEW n, NEW b PROVE CallFits(header_by_hash(b), n)
<1> DEFINE k == new_keccak256(<<"header", b>>)
<1>1. k \in Fetched(<<"l1-block-header", b>>) /\ KeyType(k) # "L2AccountProof"
  BY L1Fetched DEF new_keccak256, PreimageKey, KeyType
<1> HIDE DEF k
<1>2. "l1-block-header" # "l2-account-proof"
  OBVIOUS
<1>3. CallFits(<<HintOp("l1-block-header", b), Get(k)>>, n)
  BY <1>1, <1>2, AskFits, Zenon
<1> QED BY <1>3 DEF header_by_hash, k

\* The nodes of a trie after the hint that brings them.
LEMMA WalkFits ==
  ASSUME NEW n, NEW s, NEW nodes, NEW ty, NEW b, CallFits(s, n), IsSeq(nodes), ty # "l2-account-proof",
         \A x \in Range(nodes) : new_keccak256(x) \in Fetched(<<ty, b>>)
  PROVE  CallFits(s \o <<HintOp(ty, b)>> \o trie_walk(nodes), n)
<1> DEFINE h == <<HintOp(ty, b)>>  t == s \o h  w == trie_walk(nodes)
<1>1. CallFits(h, n) /\ IsSeq(h) /\ IsSeq(s)
  <2>1. KeyType(<<"Keccak256">>) # "L2AccountProof"
    BY DEF KeyType
  <2>2. CallFits(h, n)
    BY <2>1, HintFits, PlainFits, Operations
  <2> QED BY <2>2 DEF CallFits
<1>2. CallFits(t, n)
  BY <1>1, CatBoth
<1>3. Len(h) = 1 /\ h[1] = HintOp(ty, b)
  OBVIOUS
<1>4. /\ Len(t) \in Nat /\ Len(t) >= 1 /\ t[Len(t)] = HintOp(ty, b)
  <2>1. Len(s) \in Nat /\ Len(t) = Len(s) + 1 /\ t[Len(s) + 1] = h[1]
    <3> HIDE DEF h
    <3>1. Len(s) \in Nat /\ Len(t) = Len(s) + Len(h) /\ \A i \in 1 .. Len(h) : t[Len(s) + i] = h[i]
      BY <1>1, Concat
    <3> QED BY <1>3, <3>1
  <2> QED BY <1>3, <2>1
<1>5. IsSeq(w) /\ Len(w) = Len(nodes) /\ \A i \in 1 .. Len(w) : w[i] = Get(new_keccak256(nodes[i])) /\ nodes[i] \in Range(nodes)
  <2>1. Len(nodes) \in Nat /\ DOMAIN nodes = 1 .. Len(nodes)
    BY DEF IsSeq
  <2>2. Len(w) = Len(nodes) /\ \A i \in 1 .. Len(w) : w[i] = Get(new_keccak256(nodes[i]))
    BY <2>1 DEF trie_walk
  <2>3. DOMAIN w = 1 .. Len(nodes) /\ w = [i \in 1 .. Len(nodes) |-> w[i]]
    BY DEF trie_walk
  <2>4. \A i \in 1 .. Len(nodes) : w[i] \in Range(w)
    BY <2>3 DEF Range
  <2>5. IsSeq(w)
    BY <2>1, <2>3, <2>4 DEF IsSeq
  <2>6. \A i \in 1 .. Len(w) : nodes[i] \in Range(nodes)
    BY <2>1, <2>2 DEF Range
  <2> QED BY <2>2, <2>5, <2>6
<1> HIDE DEF t, w
<1>6. ASSUME NEW i \in 1 .. Len(w)
      PROVE  IsGet(w[i]) /\ ~IsHint(w[i]) /\ w[i].key \in Fetched(<<ty, b>>) /\ OpFits(w[i], n)
  <2>1. w[i].key = new_keccak256(nodes[i]) /\ IsGet(w[i]) /\ ~IsHint(w[i])
    BY <1>5, Operations
  <2> QED BY <1>5, <2>1 DEF OpFits, KeyType, PreimageKey, new_keccak256
<1>7. IsHint(t[Len(t)]) /\ t[Len(t)].hint = <<ty, b>>
  BY <1>4, Operations
<1>8. ASSUME NEW i \in 1 .. Len(w)
      PROVE  /\ OpFits(w[i], n)
             /\ \E j \in 1 .. Len(t) : /\ IsHint(t[j]) /\ w[i].key \in Fetched(t[j].hint)
                                       /\ \A m \in j + 1 .. Len(t) : ~IsHint(t[m])
                                       /\ \A m \in 1 .. i - 1 : ~IsHint(w[m])
  <2>1. Len(t) \in 1 .. Len(t) /\ \A m \in Len(t) + 1 .. Len(t) : FALSE
    BY <1>4
  <2>2. \A m \in 1 .. i - 1 : m \in 1 .. Len(w)
    BY <1>5
  <2> QED BY <1>6, <1>7, <2>1, <2>2
<1>9. CallFits(t \o w, n)
  BY <1>2, <1>5, <1>8, CatFits
<1> QED BY <1>9 DEF t, w

\* receipts_by_hash and get_block_transactions_by_hash: the header is read before the hint for
\* the trie is written, so the hint is the last one when the nodes are asked for.
LEMMA TrieCallsFit ==
  ASSUME NEW n, NEW b \in 0 .. L1Head
  PROVE  CallFits(receipts_by_hash(b), n) /\ CallFits(get_block_transactions_by_hash(b), n)
<1>1. IsSeq(Txs[b]) /\ IsSeq(Receipts[b])
  BY WorldAssumption DEF IsSeq
<1>2. CallFits(header_by_hash(b) \o <<HintOp("l1-receipts", b)>> \o trie_walk(Receipts[b]), n)
  <2>1. Fetched(<<"l1-receipts", b>>) = {new_keccak256(x) : x \in Range(Receipts[b])}
    BY L1Fetched, Zenon
  <2>2. \A x \in Range(Receipts[b]) : new_keccak256(x) \in Fetched(<<"l1-receipts", b>>)
    BY <2>1
  <2>3. "l1-receipts" # "l2-account-proof"
    OBVIOUS
  <2> QED BY <1>1, <2>2, <2>3, HeaderFits, WalkFits, Zenon
<1>3. CallFits(header_by_hash(b) \o <<HintOp("l1-transactions", b)>> \o trie_walk(Txs[b]), n)
  <2>1. Fetched(<<"l1-transactions", b>>) = {new_keccak256(x) : x \in Range(Txs[b])}
    BY L1Fetched, Zenon
  <2>2. \A x \in Range(Txs[b]) : new_keccak256(x) \in Fetched(<<"l1-transactions", b>>)
    BY <2>1
  <2>3. "l1-transactions" # "l2-account-proof"
    OBVIOUS
  <2> QED BY <1>1, <2>2, <2>3, HeaderFits, WalkFits, Zenon
<1> QED BY <1>2, <1>3 DEF receipts_by_hash, get_block_transactions_by_hash

\* block_info_by_number: a header for each step back from the head.
LEMMA BlockInfoFits ==
  ASSUME NEW n, NEW b \in Nat
  PROVE  CallFits(block_info_by_number(b), n)
<1> DEFINE looked == IF b > L1Head THEN 1 ELSE L1Head - b + 1
           s == block_info_by_number(b)
           hd(i) == header_by_hash(L1Head - (i - 1) \div 2)
<1>1. looked \in Nat
  BY WorldAssumption
<1>2. s = [i \in 1 .. 2 * looked |-> hd(i)[1 + ((i - 1) % 2)]]
  BY DEF block_info_by_number
<1> HIDE DEF looked, s
<1>3. Len(s) = 2 * looked /\ \A i \in 1 .. Len(s) : s[i] = hd(i)[1 + ((i - 1) % 2)]
  BY <1>1, <1>2
<1>4. IsSeq(s)
  <2>1. DOMAIN s = 1 .. 2 * looked /\ s = [i \in 1 .. 2 * looked |-> s[i]] /\ 2 * looked \in Nat
    BY <1>1, <1>2
  <2>2. \A i \in 1 .. 2 * looked : s[i] \in Range(s)
    BY <2>1 DEF Range
  <2> QED BY <2>1, <2>2 DEF IsSeq
<1>5. \A i : CallFits(hd(i), n)
  BY HeaderFits
<1>6. \A i : Len(hd(i)) = 2 /\ IsHint(hd(i)[1]) /\ IsGet(hd(i)[2]) /\ ~IsGet(hd(i)[1])
  BY DEF header_by_hash, IsHint, IsGet, HintOp, Get
<1>7. \A i : OpFits(hd(i)[1], n) /\ OpFits(hd(i)[2], n) /\ hd(i)[2].key \in Fetched(hd(i)[1].hint)
  BY L1Fetched DEF header_by_hash, HintOp, Get, Hint, OpFits, IsHint, IsGet, KeyType, new_keccak256, PreimageKey
<1> HIDE DEF hd
<1>8. ASSUME NEW i \in 1 .. Len(s)
      PROVE  OpFits(s[i], n) /\ (IsGet(s[i]) => HintedBefore(s, i))
  <2>1. CASE (i - 1) % 2 = 0
    BY <1>3, <1>6, <1>7, <2>1
  <2>2. CASE (i - 1) % 2 = 1
    <3>1. /\ i - 1 \in 1 .. Len(s) /\ (i - 1 - 1) % 2 = 0 /\ (i - 1 - 1) \div 2 = (i - 1) \div 2
      BY <1>1, <1>3, <2>2
    <3>2. hd(i - 1) = hd(i)
      BY <3>1 DEF hd
    <3>3. s[i - 1] = hd(i)[1] /\ s[i] = hd(i)[2]
      <4>1. s[i] = hd(i)[1 + ((i - 1) % 2)] /\ s[i - 1] = hd(i - 1)[1 + ((i - 1 - 1) % 2)]
        BY <1>3, <3>1, Zenon
      <4>2. 1 + ((i - 1) % 2) = 2 /\ 1 + ((i - 1 - 1) % 2) = 1
        BY <2>2, <3>1
      <4> QED BY <3>2, <4>1, <4>2, Zenon
    <3>4. \A m \in (i - 1) + 1 .. i - 1 : FALSE
      BY <1>3, <1>1
    <3> QED BY <1>6, <1>7, <3>1, <3>3, <3>4 DEF HintedBefore
  <2> QED BY <1>1, <1>3, <2>1, <2>2
<1>9. CallFits(s, n)
  BY <1>4, <1>8 DEF CallFits, Brought
<1> QED BY <1>9 DEF s

\* BootInfo::load asks for local inputs only.
LEMMA LoadFits == ASSUME NEW n PROVE CallFits(load, n)
<1> USE DEF GetExact, Get, new_local, PreimageKey
<1>1. Len(load) = 7 /\ IsSeq(load)
  BY DEF load, IsSeq, Range
<1>2. ASSUME NEW i \in 1 .. 7
      PROVE  IsGet(load[i]) /\ load[i].key[1] = "Local" /\ load[i].key[2] \in 1 .. 7
  <2>1. load[1].key = <<"Local", 1>> /\ load[2].key = <<"Local", 2>> /\ load[3].key = <<"Local", 3>>
        /\ load[4].key = <<"Local", 4>> /\ load[5].key = <<"Local", 5>> /\ load[6].key = <<"Local", 6>>
        /\ load[7].key = <<"Local", 7>>
    BY DEF load, L1_HEAD_KEY, L2_OUTPUT_ROOT_KEY, L2_AGREED_BLOCK_NUMBER_KEY, L2_CLAIM_KEY,
           L2_CLAIM_BLOCK_NUMBER_KEY, L2_CHAIN_ID_KEY, L2_ROLLUP_CONFIG_KEY
  <2>2. load[i].key = <<"Local", i>>
    <3>1. i = 1 \/ i = 2 \/ i = 3 \/ i = 4 \/ i = 5 \/ i = 6 \/ i = 7
      OBVIOUS
    <3> QED BY <2>1, <3>1, Zenon
  <2>3. load[i].op \in {"get", "get_exact"}
    BY DEF load
  <2> QED BY <2>2, <2>3 DEF IsGet
<1>3. ASSUME NEW i \in 1 .. 7
      PROVE  OpFits(load[i], n) /\ NeedsNoHint(load[i].key)
  BY <1>2 DEF OpFits, NeedsNoHint, KeyType, IsHint, IsGet, LocalInputs
<1> QED BY <1>1, <1>3 DEF CallFits, Brought

\* The calls with one request: get_input, get_blob, and those of OracleL2ChainProvider.
LEMMA SingleCallsFit ==
  ASSUME NEW n, NEW d
  PROVE  /\ CallFits(get_input(d), n) /\ CallFits(get_blob(d), n)
         /\ CallFits(get_block_by_number(d), n) /\ CallFits(bank_hash(d), n) /\ CallFits(block_time(d), n)
<1> USE DEF KeyType, PreimageKey
<1>1. /\ "da-proxy-blob" # "l2-account-proof" /\ "l2-block-data" # "l2-account-proof" /\ "l1-blob" # "l2-account-proof"
      /\ "l2-bank-hash" # "l2-account-proof" /\ "l2-block-time" # "l2-account-proof"
  OBVIOUS
<1>2. CallFits(get_input(d), n)
  <2> DEFINE k == new_da_proxy_blob(d)
  <2>1. k \in Fetched(<<"da-proxy-blob", d>>) /\ KeyType(k) # "L2AccountProof"
    BY L1Fetched DEF new_da_proxy_blob
  <2> HIDE DEF k
  <2>2. CallFits(<<HintOp("da-proxy-blob", d), Get(k)>>, n)
    BY <1>1, <2>1, AskFits, Zenon
  <2> QED BY <2>2 DEF get_input, k
<1>3. CallFits(get_block_by_number(d), n)
  <2> DEFINE k == new_block_slot(d)
  <2>1. k \in Fetched(<<"l2-block-data", d>>) /\ KeyType(k) # "L2AccountProof"
    BY L2Fetched DEF new_block_slot
  <2> HIDE DEF k
  <2>2. CallFits(<<HintOp("l2-block-data", d), Get(k)>>, n)
    BY <1>1, <2>1, AskFits, Zenon
  <2> QED BY <2>2 DEF get_block_by_number, k
<1>4. CallFits(bank_hash(d), n)
  <2> DEFINE k == new_l2_bank_hash(d)
  <2>1. k \in Fetched(<<"l2-bank-hash", d>>) /\ KeyType(k) # "L2AccountProof"
    BY L2Fetched DEF new_l2_bank_hash
  <2> HIDE DEF k
  <2>2. CallFits(<<HintOp("l2-bank-hash", d), Get(k)>>, n)
    BY <1>1, <2>1, AskFits, Zenon
  <2>3. CallFits(<<PanicOp>>, n)
    <3>1. ~IsGet(PanicOp) /\ ~IsHint(PanicOp)
      BY DEF PanicOp, IsGet, IsHint
    <3>2. OpFits(PanicOp, n)
      BY <3>1, Zenon DEF OpFits
    <3> QED BY <3>1, <3>2, HintFits, Zenon
  <2>4. CASE d \in NoBankHash
    <3>1. bank_hash(d) = <<HintOp("l2-bank-hash", d), Get(k)>> \o <<PanicOp>>
      BY <2>4, Zenon DEF bank_hash, k
    <3> QED BY <2>2, <2>3, <3>1, CatBoth, Zenon
  <2>5. CASE d \notin NoBankHash
    BY <2>2, <2>5, Zenon DEF bank_hash, k
  <2> QED BY <2>4, <2>5, Zenon
<1>5. CallFits(block_time(d), n)
  <2> DEFINE k == new_l2_block_time(d)
  <2>1. k \in Fetched(<<"l2-block-time", d>>) /\ KeyType(k) # "L2AccountProof"
    BY L2Fetched DEF new_l2_block_time
  <2> HIDE DEF k
  <2>2. CallFits(<<HintOp("l2-block-time", d), Get(k)>>, n)
    BY <1>1, <2>1, AskFits, Zenon
  <2> QED BY <2>2 DEF block_time, k
<1>6. CallFits(get_blob(d), n)
  <2> DEFINE k == PreimageKey("Sha256", d)
  <2>1. NeedsNoHint(k) /\ KeyType(k) # "L2AccountProof"
    BY DEF NeedsNoHint
  <2> HIDE DEF k
  <2>2. CallFits(<<HintOp("l1-blob", d), GetExact(k, 48)>>, n)
    BY <1>1, <2>1, AskUnservedFits, Zenon
  <2> QED BY <2>2 DEF get_blob, k
<1> QED BY <1>2, <1>3, <1>4, <1>5, <1>6

\* Every call of a provider fits, whatever block is being built.
LEMMA ProviderFits ==
  ASSUME NEW n, NEW c \in ProviderCalls
  PROVE  CallFits(c, n)
<1>1. ASSUME NEW b \in 0 .. L2Head, NEW o \in 0 .. L1Head, NEW t \in 0 .. L1Head + 1
      PROVE  CallFits(new_oracle_pipeline_cursor(b, o, t), n)
  <2> DEFINE back == IF t > o THEN 0 ELSE o - t
  <2>1. o \in Nat /\ back \in Nat
    BY WorldAssumption
  <2> HIDE DEF back
  <2>2. CallFits(get_block_by_number(b), n) /\ CallFits(block_info_by_number(o), n) /\ CallFits(block_info_by_number(back), n)
    BY <2>1, SingleCallsFit, BlockInfoFits
  <2>3. CallFits(get_block_by_number(b) \o block_info_by_number(o) \o block_info_by_number(back), n)
    BY <2>2, CatBoth
  <2> QED BY <2>3 DEF new_oracle_pipeline_cursor, back
<1>2. \A b \in 0 .. L1Head + 1 : b \in Nat
  BY WorldAssumption
<1>3. c = load \/ c \in TrieCalls \/ c \in InfoCalls \/ c \in DataCalls \/ c \in HeadCalls \/ c \in CursorCalls
  BY Zenon DEF ProviderCalls
<1>4. CASE c \in TrieCalls
  <2>1. PICK b \in 0 .. L1Head : c \in {header_by_hash(b), receipts_by_hash(b), get_block_transactions_by_hash(b)}
    BY <1>4 DEF TrieCalls
  <2> QED BY <2>1, HeaderFits, TrieCallsFit
<1>5. CASE c \in InfoCalls
  <2>1. PICK b \in 0 .. L1Head + 1 : c = block_info_by_number(b)
    BY <1>5 DEF InfoCalls
  <2> QED BY <1>2, <2>1, BlockInfoFits
<1>6. CASE c \in DataCalls \/ c \in HeadCalls
  <2>1. PICK d : c \in {get_input(d), get_blob(d), get_block_by_number(d)}
    BY <1>6 DEF DataCalls, HeadCalls
  <2> QED BY <2>1, SingleCallsFit
<1>7. CASE c \in CursorCalls
  <2>1. PICK b \in 0 .. L2Head, o \in 0 .. L1Head, t \in 0 .. L1Head + 1 : c = new_oracle_pipeline_cursor(b, o, t)
    BY <1>7 DEF CursorCalls
  <2> QED BY <1>1, <2>1
<1> QED BY <1>3, <1>4, <1>5, <1>6, <1>7, LoadFits, Zenon
-----------------------------------------------------------------------------
\* A set of numbers that is not empty has a least element.
LEMMA LeastNumber ==
  ASSUME NEW S, S \subseteq Nat, S # {}
  PROVE  \E x \in S : \A y \in S : x <= y
<1> DEFINE R == {p \in Nat \X Nat : p[1] < p[2]}
<1>1. IsWellFoundedOn(R, Nat)
  BY NatLessThanWellFounded DEF OpToRel
<1>2. PICK x \in S : \A y \in S : ~(<<y, x>> \in R)
  BY <1>1, WFMin
<1>3. ASSUME NEW y \in S, y < x
      PROVE  FALSE
  <2>1. <<y, x>> \in Nat \X Nat /\ <<y, x>>[1] = y /\ <<y, x>>[2] = x
    OBVIOUS
  <2>2. <<y, x>> \in R
    BY <1>3, <2>1
  <2> QED BY <1>2, <2>2
<1> QED BY <1>3

\* The diff of the builder only grows.
LEMMA OverlayGrows ==
  ASSUME NEW m \in Nat, NEW n \in Nat, m <= n
  PROVE  Overlay(m) \subseteq Overlay(n)
BY DEF Overlay

\* An account outside the diff is as the agreed block left it: its leaf and its data.
LEMMA Unchanged ==
  ASSUME NEW a, NEW m \in Nat, a \notin Overlay(m + 1)
  PROVE  LastWrite(a, m) = 0 /\ StateLeaf(a, m) = StateLeaf(a, 0) /\ AccountData(a, m) = AccountData(a, 0)
<1>1. \A k \in 1 .. m : a \notin Writes[k]
  BY DEF Overlay
<1>2. {k \in 1 .. m : a \in Writes[k]} = {} /\ {k \in 1 .. 0 : a \in Writes[k]} = {}
  BY <1>1
<1>3. LastWrite(a, m) = 0 /\ LastWrite(a, 0) = 0
  BY <1>2 DEF LastWrite
<1> QED BY <1>3 DEF StateLeaf, AccountData, Destroyed

\* As long as the diff is empty the state root is that of the agreed block.
LEMMA RootUnchanged ==
  ASSUME NEW m \in Nat, Overlay(m + 1) = {}
  PROVE  StateRoot(m) = StateRoot(0)
<1>1. \A k \in 1 .. m : Writes[k] = {}
  BY DEF Overlay
<1>2. CASE m # 0
  <2> DEFINE P(x) == (x = 0 \/ Writes[x] # {}) /\ \A o \in x + 1 .. m : Writes[o] = {}
  <2>1. P(0) /\ 0 \in 0 .. m
    BY <1>1
  <2>2. \A x \in 0 .. m : P(x) => x = 0
    BY <1>1
  <2>3. (CHOOSE x \in 0 .. m : P(x)) = 0
    <3> HIDE DEF P
    <3> QED BY <2>1, <2>2
  <2> QED BY <1>2, <2>3 DEF StateRoot
<1> QED BY <1>2 DEF StateRoot

\* What comes with an account that is outside the diff.
LEMMA AccountFetched ==
  ASSUME NEW a, NEW m \in Nat, NEW n \in Nat, m < n, a \in Account, a \notin Overlay(m + 1)
  PROVE  /\ StateNodes(a, n) \subseteq Fetched(<<"l2-account-proof", <<m, a>>>>)
         /\ new_l2_account_proof(a) \in Fetched(<<"l2-account-proof", <<m, a>>>>)
<1>1. Fetched(<<"l2-account-proof", <<m, a>>>>) =
        {new_keccak256(x) : x \in AccountProof(a, m)} \cup {new_l2_account_proof(a)}
  BY L2Fetched, Zenon
<1>2. StateLeaf(a, 0) \in AccountProof(a, m)
  BY Unchanged DEF AccountProof, PathAccount
<1>3. Overlay(n) = {} => StateRoot(0) \in AccountProof(a, m)
  <2>1. Overlay(m + 1) \subseteq Overlay(n)
    BY OverlayGrows
  <2> QED BY <2>1, RootUnchanged DEF AccountProof
<1> QED BY <1>1, <1>2, <1>3 DEF StateNodes

\* AccountsDB::get_account: only for an account outside the diff is the host asked.
LEMMA GetAccountFits ==
  ASSUME NEW n \in Nat \ {0}, NEW a \in Account
  PROVE  /\ CallFits(get_account(a, n), n)
         /\ a \notin Overlay(n) =>
              \E j \in 1 .. Len(get_account(a, n)) :
                 IsGet(get_account(a, n)[j]) /\ get_account(a, n)[j].key = new_l2_account_proof(a)
<1>1. CASE a \in Overlay(n)
  BY <1>1, EmptyFits DEF get_account
<1>2. CASE a \notin Overlay(n)
  <2> DEFINE k == new_l2_account_proof(a)  h == HintOp("l2-account-proof", <<n - 1, a>>)  o == Get(k)  s == <<h, o>>
  <2>1. n >= 1 /\ n - 1 \in Nat /\ n - 1 < n /\ (n - 1) + 1 = n /\ k[2] = a
    BY DEF new_l2_account_proof, PreimageKey
  <2>2. k \in Fetched(<<"l2-account-proof", <<n - 1, a>>>>)
    BY <1>2, <2>1, AccountFetched
  <2>3. /\ IsHint(h) /\ ~IsGet(h) /\ h.hint = <<"l2-account-proof", <<n - 1, a>>>>
        /\ IsGet(o) /\ ~IsHint(o) /\ o.key = k
    BY Operations
  <2>4. get_account(a, n) = s
    BY <1>2 DEF get_account, get_account_data
  <2> HIDE DEF h, o, k
  <2>5. OpFits(h, n) /\ OpFits(o, n)
    BY <1>2, <2>1, <2>3 DEF OpFits
  <2>7. CallFits(s, n)
    BY <2>2, <2>3, <2>5, PairFits
  <2>6. Len(s) = 2 /\ s[2] = o
    OBVIOUS
  <2> QED BY <2>3, <2>4, <2>6, <2>7 DEF k
<1> QED BY <1>1, <1>2

\* The operations that load the accounts of a block: the recursion has a solution.
LEMMA LoadAccountsDef ==
  ASSUME NEW n, Len(Reads[n]) \in Nat
  PROVE  \E f : /\ load_accounts(n) = f[Len(Reads[n])] /\ f[0] = <<>>
                /\ \A i \in 1 .. Len(Reads[n]) : f[i] = f[i - 1] \o get_account(Reads[n][i], n)
<1> DEFINE L == Len(Reads[n])
           Def(f, N) == f = [i \in 0 .. N |-> IF i = 0 THEN <<>> ELSE f[i - 1] \o get_account(Reads[n][i], n)]
           Bad == {N \in Nat : ~\E f : Def(f, N)}
<1>1. Bad = {}
  <2> SUFFICES ASSUME Bad # {} PROVE FALSE
    OBVIOUS
  <2>1. PICK N \in Bad : \A M \in Bad : N <= M
    BY LeastNumber
  <2>2. N # 0
    <3> DEFINE f == [i \in 0 .. 0 |-> <<>>]
    <3>1. Def(f, 0)
      OBVIOUS
    <3> QED BY <3>1
  <2>3. N \in Nat /\ N - 1 \in Nat /\ N - 1 \notin Bad
    <3>1. Bad \subseteq Nat
      OBVIOUS
    <3> HIDE DEF Bad
    <3> QED BY <2>1, <2>2, <3>1
  <2>4. PICK f : Def(f, N - 1)
    BY <2>3
  <2> DEFINE g == [i \in 0 .. N |-> IF i = N THEN f[N - 1] \o get_account(Reads[n][N], n) ELSE f[i]]
  <2>5. ASSUME NEW i \in 0 .. N
        PROVE  g[i] = IF i = 0 THEN <<>> ELSE g[i - 1] \o get_account(Reads[n][i], n)
    <3>1. CASE i = N
      <4>1. g[i] = f[N - 1] \o get_account(Reads[n][N], n)
        BY <3>1
      <4>2. g[i - 1] = f[N - 1]
        BY <2>3, <3>1
      <4> QED BY <2>2, <3>1, <4>1, <4>2, Zenon
    <3>2. CASE i # N
      <4>1. i \in 0 .. N - 1 /\ g[i] = f[i]
        BY <2>3, <3>2
      <4>2. f[i] = IF i = 0 THEN <<>> ELSE f[i - 1] \o get_account(Reads[n][i], n)
        BY <2>4, <4>1, Zenon
      <4>3. i # 0 => g[i - 1] = f[i - 1]
        BY <2>3, <3>2
      <4> QED BY <4>1, <4>2, <4>3, Zenon
    <3> QED BY <3>1, <3>2
  <2>6. g = [i \in 0 .. N |-> g[i]]
    OBVIOUS
  <2>7. Def(g, N)
    <3> HIDE DEF g
    <3> QED BY <2>5, <2>6, Zenon
  <2> QED BY <2>1, <2>7
<1>2. PICK f : Def(f, L)
  BY <1>1
<1> DEFINE F == CHOOSE f1 : Def(f1, L)
<1>3. Def(F, L)
  BY <1>2, Zenon
<1>4. load_accounts(n) = F[L]
  BY DEF load_accounts
<1> HIDE DEF F
<1>5. F[0] = <<>>
  BY <1>3
<1>6. ASSUME NEW i \in 1 .. L
      PROVE  F[i] = F[i - 1] \o get_account(Reads[n][i], n)
  <2>1. i \in 0 .. L /\ i # 0
    OBVIOUS
  <2> QED BY <1>3, <2>1, Zenon
<1> QED BY <1>4, <1>5, <1>6, Zenon

\* The accounts of a block are loaded with fitting operations, and each account outside the
\* diff is asked for.
LEMMA LoadAccountsFit ==
  ASSUME NEW n \in 1 .. L2Head
  PROVE  /\ CallFits(load_accounts(n), n)
         /\ \A a \in Range(Reads[n]) \ Overlay(n) :
              \E j \in 1 .. Len(load_accounts(n)) :
                 IsGet(load_accounts(n)[j]) /\ load_accounts(n)[j].key = new_l2_account_proof(a)
<1> DEFINE L == Len(Reads[n])
           Asks(s, a) == \E j \in 1 .. Len(s) : IsGet(s[j]) /\ s[j].key = new_l2_account_proof(a)
<1>1. L \in Nat /\ n \in Nat \ {0} /\ (\A i \in 1 .. L : Reads[n][i] \in Account) /\ DOMAIN Reads[n] = 1 .. L
  BY WorldAssumption
<1>2. PICK f : /\ load_accounts(n) = f[L] /\ f[0] = <<>>
               /\ \A i \in 1 .. L : f[i] = f[i - 1] \o get_account(Reads[n][i], n)
  BY <1>1, LoadAccountsDef
<1> HIDE DEF L
<1> DEFINE Good(i) == /\ CallFits(f[i], n)
                      /\ \A m \in 1 .. i : Reads[n][m] \notin Overlay(n) => Asks(f[i], Reads[n][m])
           Bad == {i \in 0 .. L : ~Good(i)}
<1>3. Bad = {}
  <2> SUFFICES ASSUME Bad # {} PROVE FALSE
    OBVIOUS
  <2>1. Bad \subseteq Nat /\ Bad \subseteq 0 .. L
    BY <1>1
  <2>2. PICK i \in Bad : \A m \in Bad : i <= m
    BY <2>1, LeastNumber
  <2>3. Good(0)
    BY <1>2, EmptyFits
  <2>4. i # 0
    BY <2>3
  <2>5. i \in 1 .. L /\ i - 1 \in 0 .. L /\ i - 1 \notin Bad
    <3> HIDE DEF Bad
    <3> QED BY <1>1, <2>1, <2>2, <2>4
  <2>6. Good(i - 1)
    BY <2>5
  <2> DEFINE a == Reads[n][i]  t == get_account(a, n)
  <2>7. CallFits(t, n) /\ (a \notin Overlay(n) => Asks(t, a))
    BY <1>1, <2>5, GetAccountFits
  <2>8. f[i] = f[i - 1] \o t
    BY <1>2, <2>5
  <2>9. IsSeq(f[i - 1]) /\ IsSeq(t) /\ CallFits(f[i - 1], n)
    BY <2>6, <2>7 DEF CallFits
  <2>10. CallFits(f[i], n)
    BY <2>7, <2>8, <2>9, CatBoth
  <2> HIDE DEF t, a
  <2>11. \A x : Asks(f[i - 1], x) \/ Asks(t, x) => Asks(f[i], x)
    <3>1. /\ Len(f[i - 1]) \in Nat /\ Len(t) \in Nat /\ Len(f[i]) = Len(f[i - 1]) + Len(t)
          /\ \A j \in 1 .. Len(f[i - 1]) : f[i][j] = f[i - 1][j]
          /\ \A j \in 1 .. Len(t) : f[i][Len(f[i - 1]) + j] = t[j]
      BY <2>8, <2>9, Concat
    <3>2. \A j \in 1 .. Len(f[i - 1]) : j \in 1 .. Len(f[i])
      BY <3>1
    <3>3. \A j \in 1 .. Len(t) : Len(f[i - 1]) + j \in 1 .. Len(f[i])
      BY <3>1
    <3> QED BY <3>1, <3>2, <3>3, Zenon
  <2>12. ASSUME NEW m \in 1 .. i, Reads[n][m] \notin Overlay(n)
         PROVE  Asks(f[i], Reads[n][m])
    <3>1. CASE m = i
      BY <2>7, <2>11, <2>12, <3>1 DEF a
    <3>2. CASE m # i
      <4>1. m \in 1 .. i - 1
        BY <2>5, <3>2
      <4>2. Asks(f[i - 1], Reads[n][m])
        BY <2>6, <2>12, <4>1
      <4> HIDE DEF Asks
      <4> QED BY <2>11, <4>2
    <3> QED BY <3>1, <3>2
  <2>13. Good(i)
    BY <2>10, <2>12
  <2> QED BY <2>13, <2>2
<1>4. Good(L)
  BY <1>1, <1>3
<1>5. \A a \in Range(Reads[n]) : \E m \in 1 .. L : a = Reads[n][m]
  BY <1>1 DEF Range
<1> HIDE DEF Asks
<1>6. \A a \in Range(Reads[n]) \ Overlay(n) : Asks(f[L], a)
  BY <1>4, <1>5
<1> QED BY <1>2, <1>4, <1>6 DEF Asks

\* A finite set can be listed, and the list holds nothing else.
LEMMA ListOk ==
  ASSUME NEW S, IsFiniteSet(S)
  PROVE  IsSeq(Listing(S)) /\ \A i \in 1 .. Len(Listing(S)) : Listing(S)[i] \in S
<1>1. PICK N \in Nat : ExistsBijection(1 .. N, S)
  BY FS_NatBijection
<1>2. Cardinality(S) = N
  BY <1>1, FS_CountingElements
<1>3. PICK f \in Bijection(1 .. N, S) : TRUE
  BY <1>1 DEF ExistsBijection
<1> DEFINE g == Listing(S)
<1>4. g \in [1 .. N -> S]
  BY <1>2, <1>3 DEF Listing, Bijection, Injection
<1> HIDE DEF g
<1>5. Len(g) = N /\ DOMAIN g = 1 .. N /\ g = [i \in 1 .. N |-> g[i]] /\ \A i \in 1 .. N : g[i] \in Range(g)
  BY <1>4 DEF Range
<1>6. IsSeq(g)
  BY <1>5 DEF IsSeq
<1> QED BY <1>4, <1>5, <1>6 DEF g

\* TrieNode::open in update_accounts: the root and the leaves it opens came with the accounts
\* the block has loaded.
LEMMA UpdateFits ==
  ASSUME NEW n \in 1 .. L2Head, NEW s, CallFits(s, n),
         \A a \in Range(Reads[n]) \ Overlay(n) :
           \E j \in 1 .. Len(s) : IsGet(s[j]) /\ s[j].key = new_l2_account_proof(a)
  PROVE  CallFits(s \o update_accounts(n), n)
<1> DEFINE W == Writes[n] \ Overlay(n)
           root == IF Overlay(n) = {} /\ Writes[n] # {} THEN <<Get(new_keccak256(StateRoot(0)))>> ELSE <<>>
           leaves == [i \in 1 .. Len(Listing(W)) |-> Get(new_keccak256(StateLeaf(Listing(W)[i], 0)))]
           ByAccount(t) == \A i \in 1 .. Len(t) : 
              \E a \in W : \E k \in StateNodes(a, n) : KeyType(k) = "Keccak256" /\ t[i] = Get(k)
<1>1. Reads[n] \in Seq(Account) /\ Writes[n] \subseteq Range(Reads[n])
  BY WorldAssumption
<1>2. Range(Reads[n]) \subseteq Account /\ IsFiniteSet(Range(Reads[n]))
  <2>1. DOMAIN Reads[n] = 1 .. Len(Reads[n]) /\ Len(Reads[n]) \in Nat
    BY <1>1
  <2>2. IsFiniteSet(1 .. Len(Reads[n]))
    BY <2>1, FS_Interval
  <2>3. Reads[n] \in Surjection(1 .. Len(Reads[n]), Range(Reads[n]))
    BY <1>1, <2>1 DEF Range, Surjection
  <2>4. IsFiniteSet(Range(Reads[n]))
    BY <2>2, <2>3, FS_Surjection
  <2>5. Range(Reads[n]) \subseteq Account
    BY <1>1, <2>1 DEF Range
  <2> QED BY <2>4, <2>5
<1>3. IsFiniteSet(W) /\ W \subseteq Account /\ W \subseteq Range(Reads[n]) \ Overlay(n)
  BY <1>1, <1>2, FS_Subset
<1>4. update_accounts(n) = root \o leaves
  BY DEF update_accounts
<1>5. IsSeq(root) /\ ByAccount(root)
  <2>1. CASE Overlay(n) = {} /\ Writes[n] # {}
    <3> DEFINE k == new_keccak256(StateRoot(0))
    <3>1. PICK a \in W : TRUE
      BY <2>1
    <3>2. k \in StateNodes(a, n) /\ KeyType(k) = "Keccak256"
      BY <2>1 DEF StateNodes, new_keccak256, KeyType, PreimageKey
    <3> HIDE DEF k, W
    <3>3. root = <<Get(k)>>
      BY <2>1 DEF k
    <3>4. IsSeq(<<Get(k)>>) /\ \A i \in 1 .. Len(<<Get(k)>>) : <<Get(k)>>[i] = Get(k)
      BY DEF IsSeq, Range
    <3> QED BY <3>2, <3>3, <3>4
  <2>2. CASE ~(Overlay(n) = {} /\ Writes[n] # {})
    <3>1. root = <<>> /\ IsSeq(<<>>)
      BY <2>2 DEF IsSeq
    <3> QED BY <3>1
  <2> QED BY <2>1, <2>2
<1>6. IsSeq(leaves) /\ ByAccount(leaves)
  <2> DEFINE l == Listing(W)
  <2>1. IsSeq(l) /\ \A i \in 1 .. Len(l) : l[i] \in W
    BY <1>3, ListOk
  <2> HIDE DEF l, W
  <2>2. Len(l) \in Nat
    BY <2>1 DEF IsSeq
  <2>3. leaves = [i \in 1 .. Len(l) |-> Get(new_keccak256(StateLeaf(l[i], 0)))]
    BY DEF l
  <2> HIDE DEF leaves
  <2>4. Len(leaves) = Len(l) /\ \A i \in 1 .. Len(l) : leaves[i] = Get(new_keccak256(StateLeaf(l[i], 0)))
    BY <2>2, <2>3
  <2>5. IsSeq(leaves)
    <3>1. DOMAIN leaves = 1 .. Len(l) /\ leaves = [i \in 1 .. Len(l) |-> leaves[i]]
      BY <2>3
    <3>2. \A i \in 1 .. Len(l) : leaves[i] \in Range(leaves)
      BY <3>1 DEF Range
    <3> QED BY <2>2, <3>1, <3>2 DEF IsSeq
  <2>6. ASSUME NEW i \in 1 .. Len(leaves)
        PROVE  \E a \in W : \E k \in StateNodes(a, n) : KeyType(k) = "Keccak256" /\ leaves[i] = Get(k)
    <3> DEFINE k == new_keccak256(StateLeaf(l[i], 0))
    <3>1. l[i] \in W /\ leaves[i] = Get(k)
      BY <2>1, <2>4
    <3>2. k \in StateNodes(l[i], n) /\ KeyType(k) = "Keccak256"
      BY DEF StateNodes, new_keccak256, KeyType, PreimageKey
    <3> HIDE DEF k
    <3> QED BY <3>1, <3>2
  <2> QED BY <2>5, <2>6
<1> HIDE DEF root, leaves, W
<1> DEFINE t == root \o leaves
<1>7. IsSeq(t) /\ ByAccount(t)
  <2>1. /\ IsSeq(t) /\ Len(root) \in Nat /\ Len(leaves) \in Nat /\ Len(t) = Len(root) + Len(leaves)
        /\ \A i \in 1 .. Len(root) : t[i] = root[i]
        /\ \A i \in 1 .. Len(leaves) : t[Len(root) + i] = leaves[i]
    BY <1>5, <1>6, Concat
  <2> HIDE DEF t
  <2>2. ASSUME NEW i \in 1 .. Len(t)
        PROVE  \E a \in W : \E k \in StateNodes(a, n) : KeyType(k) = "Keccak256" /\ t[i] = Get(k)
    <3>1. CASE i <= Len(root)
      <4>1. i \in 1 .. Len(root) /\ t[i] = root[i]
        BY <2>1, <3>1
      <4> QED BY <1>5, <4>1
    <3>2. CASE ~(i <= Len(root))
      <4>1. i - Len(root) \in 1 .. Len(leaves) /\ t[i] = leaves[i - Len(root)]
        BY <2>1, <3>2
      <4> QED BY <1>6, <4>1
    <3> QED BY <3>1, <3>2
  <2> QED BY <2>1, <2>2
<1> HIDE DEF t
<1>8. ASSUME NEW i \in 1 .. Len(t)
      PROVE  /\ OpFits(t[i], n)
             /\ \E j \in 1 .. Len(s) : \E a \in Account :
                  IsGet(s[j]) /\ s[j].key = new_l2_account_proof(a) /\ t[i].key \in StateNodes(a, n)
  <2>1. PICK a \in W : \E k \in StateNodes(a, n) : KeyType(k) = "Keccak256" /\ t[i] = Get(k)
    BY <1>7
  <2>2. t[i].key \in StateNodes(a, n) /\ KeyType(t[i].key) = "Keccak256" /\ ~IsHint(t[i])
    BY <2>1, Operations
  <2>3. PICK j \in 1 .. Len(s) : IsGet(s[j]) /\ s[j].key = new_l2_account_proof(a)
    BY <1>3
  <2>4. OpFits(t[i], n)
    BY <2>2 DEF OpFits
  <2> QED BY <1>3, <2>2, <2>3, <2>4
<1>9. CallFits(s \o t, n)
  BY <1>7, <1>8, CatFits
<1> QED BY <1>4, <1>9 DEF t

\* collapse_if_possible: the proof of the address that does not exist brings the sibling's leaf.
LEMMA CollapseFits ==
  ASSUME NEW n \in 1 .. L2Head
  PROVE  CallFits(collapse(n), n)
<1> DEFINE left == {a \in Account : ~Destroyed(a, n)}
           c == Destroys[n] # {} /\ Cardinality(left) = 1 /\ left \cap (Overlay(n) \cup Writes[n]) = {}
<1>1. CASE ~c
  <2>1. collapse(n) = <<>>
    BY <1>1 DEF collapse
  <2> QED BY <2>1, EmptyFits
<1>2. CASE c
  <2> DEFINE s == CHOOSE a \in left : TRUE
             m == <<n - 1, Mock(s)>>  k == new_keccak256(StateLeaf(s, 0))  h == HintOp("l2-account-proof", m)  o == Get(k)
  <2>1. left # {}
    <3>1. Cardinality({}) = 0
      BY FS_EmptySet
    <3> HIDE DEF left
    <3> QED BY <1>2, <3>1
  <2>2. s \in Account /\ s \notin Overlay(n)
    BY <1>2, <2>1
  <2>3. n \in Nat /\ n >= 1 /\ n - 1 \in Nat /\ (n - 1) + 1 = n
    OBVIOUS
  <2>4. collapse(n) = <<h, o>>
    BY <1>2 DEF collapse, open_sibling
  <2> HIDE DEF s, c, left
  <2>5. Mock(s) \notin Account /\ Mock(s)[2] = s
    BY <2>2, MockAssumption DEF Mock
  <2>6. StateLeaf(s, 0) \in AccountProof(Mock(s), n - 1)
    BY <2>2, <2>3, <2>5, Unchanged DEF AccountProof, PathAccount
  <2>7. k \in Fetched(<<"l2-account-proof", m>>)
    <3>1. Fetched(<<"l2-account-proof", m>>) =
            {new_keccak256(x) : x \in AccountProof(Mock(s), n - 1)} \cup {new_l2_account_proof(Mock(s))}
      BY L2Fetched, Zenon
    <3> QED BY <2>6, <3>1
  <2>8. /\ m[1] = n - 1 /\ m[2] = Mock(s) /\ KeyType(k) # "L2AccountProof"
        /\ IsHint(h) /\ ~IsGet(h) /\ h.hint = <<"l2-account-proof", m>> /\ IsGet(o) /\ ~IsHint(o) /\ o.key = k
    BY Operations DEF new_keccak256, PreimageKey, KeyType
  <2>9. CallFits(<<h, o>>, n)
    <3> HIDE DEF m, k, h, o
    <3>1. OpFits(h, n) /\ OpFits(o, n)
      BY <2>3, <2>5, <2>8 DEF OpFits
    <3> QED BY <2>7, <2>8, <3>1, PairFits
  <2> QED BY <2>4, <2>9
<1> QED BY <1>1, <1>2

\* StatelessL2BlockBuilder::build_block
LEMMA BuildFits ==
  ASSUME NEW n \in 1 .. L2Head
  PROVE  CallFits(build_block(n), n)
<1> DEFINE s == bank_hash(n - 1) \o block_time(n)  t == s \o load_accounts(n)
<1>1. CallFits(s, n) 
  BY SingleCallsFit, CatBoth
<1>2. CallFits(t, n)
  <2> HIDE DEF s
  <2> QED BY <1>1, LoadAccountsFit, CatBoth
<1>3. ASSUME NEW a \in Range(Reads[n]) \ Overlay(n)
      PROVE  \E j \in 1 .. Len(t) : IsGet(t[j]) /\ t[j].key = new_l2_account_proof(a)
  <2> DEFINE l == load_accounts(n)
  <2>1. IsSeq(s) /\ IsSeq(l)
    BY <1>1, LoadAccountsFit DEF CallFits
  <2>2. PICK j \in 1 .. Len(l) : IsGet(l[j]) /\ l[j].key = new_l2_account_proof(a)
    BY LoadAccountsFit
  <2> HIDE DEF s, l
  <2>3. Len(s) \in Nat /\ Len(l) \in Nat /\ Len(s \o l) = Len(s) + Len(l) /\ (s \o l)[Len(s) + j] = l[j]
    BY <2>1, Concat
  <2>4. Len(s) + j \in 1 .. Len(s \o l)
    BY <2>3
  <2>5. \E i \in 1 .. Len(s \o l) : IsGet((s \o l)[i]) /\ (s \o l)[i].key = new_l2_account_proof(a)
    BY <2>2, <2>3, <2>4
  <2> QED BY <2>5 DEF l
<1> HIDE DEF t
<1>4. CallFits(t \o update_accounts(n), n)
  BY <1>2, <1>3, UpdateFits
<1>5. CallFits(t \o update_accounts(n) \o collapse(n), n)
  BY <1>4, CollapseFits, CatBoth
<1> QED BY <1>5 DEF build_block, t

\* A builder asks for no blob, and for nothing of a given length.
LEMMA BuilderAsks ==
  ASSUME NEW c \in BuilderCalls, NEW o \in Range(c)
  PROVE  o.op # "get_exact" /\ (IsGet(o) => KeyType(o.key) # "Sha256")
<1> DEFINE Good(x) == x.op # "get_exact" /\ (IsGet(x) => KeyType(x.key) # "Sha256")
<1>1. ASSUME NEW ty, NEW d PROVE Good(HintOp(ty, d))
  BY DEF HintOp, IsGet
<1>2. ASSUME NEW k, KeyType(k) # "Sha256" PROVE Good(Get(k))
  BY <1>2 DEF Get, IsGet
<1>3. Good(PanicOp)
  BY DEF PanicOp, IsGet
<1>4. ASSUME NEW d
      PROVE  /\ KeyType(new_l2_bank_hash(d)) # "Sha256" /\ KeyType(new_l2_block_time(d)) # "Sha256"
             /\ KeyType(new_l2_account_proof(d)) # "Sha256" /\ KeyType(new_keccak256(d)) # "Sha256"
  BY DEF KeyType, PreimageKey, new_l2_bank_hash, new_l2_block_time, new_l2_account_proof, new_keccak256
<1> HIDE DEF Good
<1>5. ASSUME NEW x, NEW y, NEW z, NEW u \in Range(<<x, y>> \o <<z>>) PROVE u = x \/ u = y \/ u = z
  <2> DEFINE S == {x, y, z}  s == <<x, y>>  t == <<z>>
  <2>1. s \in Seq(S) /\ t \in Seq(S)
    OBVIOUS
  <2> HIDE DEF S, s, t
  <2>2. s \o t \in Seq(S)
    BY <2>1
  <2>3. u \in Range(s \o t)
    BY <1>5, Zenon DEF s, t
  <2>4. u \in S
    BY <2>2, <2>3 DEF Range
  <2> QED BY <2>4 DEF S
<1>6. ASSUME NEW x, NEW y, NEW u \in Range(<<x, y>>) PROVE u = x \/ u = y
  BY DEF Range
<1>7. ASSUME NEW x, NEW u \in Range(<<x>>) PROVE u = x
  BY DEF Range
<1>8. CASE \E n : c = bank_hash(n)
  <2>1. PICK n : c = bank_hash(n)
    BY <1>8
  <2> DEFINE h == HintOp("l2-bank-hash", n)  g == Get(new_l2_bank_hash(n))
  <2>2. Good(h) /\ Good(g)
    BY <1>1, <1>2, <1>4, Zenon
  <2>3. c = IF n \in NoBankHash THEN <<h, g>> \o <<PanicOp>> ELSE <<h, g>>
    BY <2>1, Zenon DEF bank_hash
  <2> HIDE DEF h, g
  <2>4. CASE n \in NoBankHash
    <3>1. c = <<h, g>> \o <<PanicOp>>
      BY <2>3, <2>4, Zenon
    <3>2. o = h \/ o = g \/ o = PanicOp
      BY <1>5, <3>1, Zenon
    <3> QED BY <1>3, <2>2, <3>2, Zenon DEF Good
  <2>5. CASE n \notin NoBankHash
    <3>1. c = <<h, g>>
      BY <2>3, <2>5, Zenon
    <3>2. o = h \/ o = g
      BY <3>1 DEF Range
    <3> QED BY <2>2, <3>2, Zenon DEF Good
  <2> QED BY <2>4, <2>5, Zenon
<1>9. CASE \E n : c = block_time(n)
  <2>1. PICK n : c = <<HintOp("l2-block-time", n), Get(new_l2_block_time(n))>>
    BY <1>9, Zenon DEF block_time
  <2>2. o = HintOp("l2-block-time", n) \/ o = Get(new_l2_block_time(n))
    BY <1>6, <2>1, Zenon
  <2> QED BY <1>1, <1>2, <1>4, <2>2, Zenon DEF Good
<1>10. CASE \E a, n : c = get_account_data(a, n)
  <2>1. PICK a, n : c = <<HintOp("l2-account-proof", <<n, a>>), Get(new_l2_account_proof(a))>>
    BY <1>10, Zenon DEF get_account_data
  <2>2. o = HintOp("l2-account-proof", <<n, a>>) \/ o = Get(new_l2_account_proof(a))
    BY <1>6, <2>1, Zenon
  <2> QED BY <1>1, <1>2, <1>4, <2>2, Zenon DEF Good
<1>11. CASE \E a, n : c = open_sibling(a, n)
  <2>1. PICK a, n : c = <<HintOp("l2-account-proof", <<n, Mock(a)>>), Get(new_keccak256(StateLeaf(a, 0)))>>
    BY <1>11, Zenon DEF open_sibling
  <2>2. o = HintOp("l2-account-proof", <<n, Mock(a)>>) \/ o = Get(new_keccak256(StateLeaf(a, 0)))
    BY <1>6, <2>1, Zenon
  <2> QED BY <1>1, <1>2, <1>4, <2>2, Zenon DEF Good
<1>12. CASE \E x : c = <<Get(new_keccak256(x))>>
  <2>1. PICK x : c = <<Get(new_keccak256(x))>>
    BY <1>12
  <2>2. o = Get(new_keccak256(x))
    BY <1>7, <2>1, Zenon
  <2> QED BY <1>2, <1>4, <2>2, Zenon DEF Good
<1>13. CASE c \in NodeCalls
  BY <1>12, <1>13, Zenon DEF NodeCalls
<1>14. CASE \E n : c \in BlockCalls(n)
  BY <1>8, <1>9, <1>10, <1>11, <1>14, Zenon DEF BlockCalls
<1> QED BY <1>13, <1>14, Zenon DEF BuilderCalls
=============================================================================
