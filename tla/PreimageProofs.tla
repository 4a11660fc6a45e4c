--------------------------- MODULE PreimageProofs ---------------------------
(***************************************************************************)
(* Proofs about Preimage. The protocol has no request ids, so that the     *)
(* channels are in step with the client rests on an invariant (IInv) that  *)
(* says, for each thing the client may wait for, where its one message is: *)
(* in a channel, in the hands of a task, or answered. What the message     *)
(* carries is known through the store: an entry is a preimage of its key.  *)
(*                                                                         *)
(* That the hints are enough rests on two more: what the calls still have  *)
(* to do (TodoFits, from OracleClientProofs), and that each key they will  *)
(* ask for is in the store, or is brought by the hint the host has noted   *)
(* last or by one the client is still to send (HInv).                      *)
(***************************************************************************)
EXTENDS Preimage, OracleClientProofs

\* In every call, the client asks for an account at a block up to which it has not changed.
LEMMA HintsFit ==
  ASSUME NEW h \in HintsOf(Planned), h[1] = "l2-account-proof", h[2][2] \in Account
  PROVE  h[2][1] \in Nat /\ h[2][2] \notin Overlay(h[2][1] + 1)
<1>1. PICK o \in Planned : o.op = "hint" /\ o.hint = h
  BY Zenon DEF HintsOf
<1>2. PICK c \in AllCalls : o \in Range(c)
  BY <1>1, Zenon DEF Planned
<1>3. PICK n \in Nat : CallFits(c, n)
  <2>1. CASE c \in Calls
    BY <2>1, ProvidersAssumption, ProviderFits, Zenon
  <2>2. CASE c \in {build_block(n) : n \in 1 .. L2Head}
    <3>1. PICK n \in 1 .. L2Head : c = build_block(n)
      BY <2>2, Zenon
    <3> QED BY <3>1, BuildFits
  <2> QED BY <2>1, <2>2, Zenon DEF AllCalls
<1>4. OpFits(o, n)
  <2>1. PICK i \in DOMAIN c : o = c[i]
    BY <1>2, Zenon DEF Range
  <2>2. i \in 1 .. Len(c)
    BY <1>3, <2>1 DEF CallFits, IsSeq
  <2> QED BY <1>3, <2>1, <2>2, Zenon DEF CallFits
<1>5. n >= 1 /\ h[2][1] = n - 1 /\ h[2][2] \notin Overlay(n)
  BY <1>1, <1>4, Zenon DEF OpFits, IsHint
<1>6. n - 1 \in Nat /\ (n - 1) + 1 = n
  BY <1>5
<1> QED BY <1>5, <1>6, Zenon
-----------------------------------------------------------------------------
\* Part 2: the channels and what is held.

\* What is ever held for a key: for an account, its data at the agreed block.
Held(k) == IF KeyType(k) = "L2AccountProof" /\ k[2] \in Account THEN {AccountData(k[2], 0)} ELSE Meaning(k)

\* An entry of the store or of the cache is held for its key.
Entries == UNION {{k} \X Held(k) : k \in Keys}
StoreOk == \A k \in DOMAIN kv : kv[k] \in Held(k)

Tasks == [state : {"read", "fetch", GaveUp}, key : Keys \cup {None}, count : Nat]

\* What the server writes for the value v, into an empty channel.
ReplyTo(v) == IF v.size > 0 THEN <<Msg(8, v.size), Msg(v.size, v)>> ELSE <<Msg(8, v.size)>>

HintsQuiet == hints = <<>> /\ acks = <<>> /\ router \in {None, Failed}
RequestsQuiet == requests = <<>> /\ replies = <<>> /\ server.state \in {"read", GaveUp}

\* The hint is in the channel, with the task, or acknowledged.
HintUnderWay ==
  /\ todo # <<>> /\ Op.op = "hint"
  /\ \/ hints = <<Msg(4, 64), Msg(64, Op.hint)>> /\ acks = <<>> /\ router = None
     \/ hints = <<>> /\ acks = <<>> /\ router = Op.hint
     \/ hints = <<>> /\ acks = <<Msg(1, 0)>> /\ router \in {None, Failed}

\* The request is in the channel, with the task, given up, or answered.
RequestUnderWay ==
  \/ requests = <<Msg(32, Op.key)>> /\ replies = <<>> /\ server.state = "read"
  \/ requests = <<>> /\ replies = <<>> /\ server.state = "fetch" /\ server.key = Op.key
  \/ requests = <<>> /\ replies = <<>> /\ server.state = GaveUp
  \/ requests = <<>> /\ server.state = "read" /\ \E v \in Held(Op.key) : replies = ReplyTo(v)

\* The length has been read, the data are in the channel.
DataUnderWay ==
  /\ requests = <<>> /\ server.state = "read"
  /\ \E v \in Held(Op.key) : replies = <<Msg(v.size, v)>>

\* As long as no operation of the builder has failed the client does what was planned, and
\* none fails as long as the host is online and reads hints.
PlanOk == (~stray => todo \in Seq(Planned)) /\ (online /\ RouterUp => ~stray)

\* What part 3 adds: as long as it reads hints, an online host gives up on a blob's key only.
OnlineServes ==
  online /\ RouterUp /\ client # "failed" /\ server.state = GaveUp
    => client = "length" /\ KeyType(Op.key) = "Sha256"

\* The inductive invariant. A client that has ended takes no step any more.
IInv ==
  client # "failed" =>
    /\ client \in {"ready", "ack", "length", "data"}
    /\ todo \in Seq(AllOps) /\ PlanOk /\ blocks \in 0 .. L2Head
    /\ cache \in Seq(Entries) /\ StoreOk
    /\ last_hint \in HintsOf(Planned) \cup {None} /\ server \in Tasks
    /\ client = "ready" => HintsQuiet /\ RequestsQuiet
    /\ client = "ack" => HintUnderWay /\ RequestsQuiet
    /\ client \in {"length", "data"} => HintsQuiet /\ todo # <<>> /\ IsGet(Op)
    /\ client = "length" => RequestUnderWay
    /\ client = "data" => DataUnderWay

-----------------------------------------------------------------------------
\* Reading from a channel that holds one message.
LEMMA OneMessage == ASSUME NEW x PROVE <<x>> # <<>> /\ Head(<<x>>) = x /\ Tail(<<x>>) = <<>>
OBVIOUS

\* The second message stays when the first is taken.
LEMMA TwoMessages ==
  ASSUME NEW x, NEW y
  PROVE  <<x, y>> # <<>> /\ Head(<<x, y>>) = x /\ Tail(<<x, y>>) = <<y>>
OBVIOUS

\* Appending an element.
LEMMA AppendOk ==
  ASSUME NEW S, NEW s \in Seq(S), NEW e \in S
  PROVE  Append(s, e) \in Seq(S) /\ Append(s, e) # <<>>
<1>1. Append(s, e) \in Seq(S)
  OBVIOUS
<1>2. Len(Append(s, e)) = Len(s) + 1 /\ Len(s) \in Nat
  OBVIOUS
<1>3. Len(Append(s, e)) # Len(<<>>)
  BY <1>2
<1>4. QED
  BY <1>1, <1>3, Zenon

\* A call is a sequence of operations, so its keys and hints are among those of all calls.
LEMMA CallOk ==
  ASSUME NEW t \in Seq(AllOps), t # <<>>
  PROVE  /\ Head(t) \in AllOps /\ Tail(t) \in Seq(AllOps)
         /\ IsGet(Head(t)) => Head(t).key \in Keys
         /\ Head(t).op = "hint" => Head(t).hint \in Hints /\ ~IsGet(Head(t))
<1>1. Head(t) \in AllOps /\ Tail(t) \in Seq(AllOps)
  OBVIOUS
<1> HIDE DEF AllOps
<1>2. QED
  BY <1>1, Zenon DEF Keys, Hints, HintsOf, IsGet

\* The planned operations are some of all.
LEMMA PlannedOk ==
  /\ Seq(Planned) \subseteq Seq(AllOps) /\ HintsOf(Planned) \subseteq Hints
  /\ \A t \in Seq(Planned) : t # <<>> =>
       Tail(t) \in Seq(Planned) /\ (Head(t).op = "hint" => Head(t).hint \in HintsOf(Planned))
<1>1. Planned \subseteq AllOps
  BY Zenon DEF AllOps
<1> HIDE DEF AllOps, Planned
<1>2. Seq(Planned) \subseteq Seq(AllOps)
  BY <1>1
<1>3. HintsOf(Planned) \subseteq Hints
  BY <1>1, Zenon DEF HintsOf, Hints
<1>4. \A t \in Seq(Planned) : t # <<>> => Tail(t) \in Seq(Planned) /\ Head(t) \in Planned
  OBVIOUS
<1> QED BY <1>2, <1>3, <1>4, Zenon DEF HintsOf

\* An operation of the builder is no get_exact and asks for no blob.
LEMMA BuilderOp ==
  ASSUME NEW o \in BuilderOps
  PROVE  o.op # "get_exact" /\ (IsGet(o) => KeyType(o.key) # "Sha256")
BY BuilderAsks, Zenon DEF BuilderOps

\* The plan is kept by a step to the next operation, and by one to none.
LEMMA PlanTail ==
  ASSUME PlanOk, todo # <<>>, todo' = Tail(todo), UNCHANGED <<stray, online, router>>
  PROVE  PlanOk'
BY PlannedOk, Zenon DEF PlanOk, RouterUp

\* It is kept by the host, whose hint task does not come back.
LEMMA PlanSame ==
  ASSUME PlanOk, UNCHANGED <<todo, stray, online>>, RouterUp' => RouterUp
  PROVE  PlanOk'
BY Zenon DEF PlanOk

\* A preimage has a size, and only the empty one has size 0: a length of 0 tells the client
\* all there is to know.
LEMMA HeldSize ==
  ASSUME NEW k, NEW v \in Held(k)
  PROVE  v.size \in Nat /\ (v.size = 0 => v = Empty)
<1>1. v = Empty \/ v = Preimage(k) \/ v.size = 64
  BY DEF Held, Meaning, AccountData
<1>2. SizeOf(k) \in {8, 32, 64}
  BY Zenon DEF SizeOf
<1>3. QED
  BY <1>1, <1>2 DEF Preimage, Empty

\* What is held for a key is a preimage of it.
LEMMA HeldMeaning ==
  ASSUME NEW k, NEW v \in Held(k)
  PROVE  v \in Meaning(k)
<1>1. 0 \in 0 .. L2Head
  BY WorldAssumption
<1>2. QED
  BY <1>1, Zenon DEF Held, Meaning

\* Entries written over those of a store.
LEMMA KvSetOk ==
  ASSUME NEW f, NEW g,
         \A k \in DOMAIN f : f[k] \in Held(k),
         \A k \in DOMAIN g : g[k] \in Held(k)
  PROVE  \A k \in DOMAIN KvSet(f, g) : KvSet(f, g)[k] \in Held(k)
BY Zenon DEF KvSet

\* SplitKeyValueStore::get returns a preimage of the key.
LEMMA KvGetOk ==
  ASSUME NEW f, \A k \in DOMAIN f : f[k] \in Held(k), NEW k, KvHas(f, k)
  PROVE  KvGet(f, k) \in Held(k)
BY Zenon DEF KvHas, KvGet, Held, Meaning

\* What is stored under a key that names its contents is their preimage.
LEMMA StoreEntries ==
  ASSUME NEW S, \A k \in S : KeyType(k) \notin {"L2AccountProof", "BankHash"}
  PROVE  \A k \in DOMAIN Store(S) : Store(S)[k] \in Held(k)
BY Zenon DEF Store, Held, Meaning

\* SingleChainHintHandler::fetch_hint stores preimages, whatever the hint.
LEMMA FetchOk ==
  ASSUME NEW h \in HintsOf(Planned)
  PROVE  \A k \in DOMAIN fetch_hint(h) : fetch_hint(h)[k] \in Held(k)
<1> DEFINE Good(f) == \A k \in DOMAIN f : f[k] \in Held(k)
<1> USE DEF KeyType, PreimageKey, new_keccak256, new_block_slot, new_da_proxy_blob, new_l2_block_time
<1>1. h[1] \in HintType /\ (h[1] = "l2-account-proof" => h[2][1] \in 0 .. L2Head)
  BY CallsAssumption, PlannedOk, Zenon
<1>2. Good(<<>>)
  OBVIOUS
<1>3. \A S : Good(Store({new_keccak256(x) : x \in S}))
  BY StoreEntries
<1>4. /\ Good(Store({new_keccak256(<<"header", h[2]>>)}))
      /\ Good(store_ordered_trie(Txs[h[2]])) /\ Good(store_ordered_trie(Receipts[h[2]]))
      /\ Good(Store({new_da_proxy_blob(h[2])}))
      /\ Good(Store({new_keccak256(h[2]), PreimageKey("Precompile", h[2])}))
      /\ Good(Store({new_keccak256(h[2])}))
  BY StoreEntries DEF store_ordered_trie
<1>5. Good(Store({new_block_slot(h[2])})) /\ Good(Store({new_l2_block_time(h[2])}))
  BY StoreEntries
<1>6. Good([k \in {new_l2_bank_hash(h[2])} |-> IF h[2] \in NoBankHash THEN Empty ELSE Preimage(k)])
  BY DEF new_l2_bank_hash, Held, Meaning
<1>7. CASE h[1] = "l2-account-proof"
  <2>1. Good([k \in {new_l2_account_proof(h[2][2])} |-> AccountData(h[2][2], h[2][1])])
    <3>1. CASE h[2][2] \in Account
      <4>1. AccountData(h[2][2], h[2][1]) = AccountData(h[2][2], 0)
        BY <1>7, <3>1, HintsFit, Unchanged, Zenon
      <4> QED BY <3>1, <4>1 DEF new_l2_account_proof, Held
    <3>2. CASE h[2][2] \notin Account
      BY <1>1, <1>7, <3>2 DEF new_l2_account_proof, Held, Meaning
    <3> QED BY <3>1, <3>2, Zenon
  <2>2. Good(fetch_account(h[2][2], h[2][1]))
    BY <1>3, <2>1, KvSetOk, Zenon DEF fetch_account
  <2>3. QED
    BY <1>7, <2>2, Zenon DEF fetch_hint, fetch_l2
<1>8. CASE h[1] # "l2-account-proof"
  <2> HIDE DEF Good
  <2>1. Good(fetch_l2(h)) \/ h[1] \notin {"l2-state-node", "l2-block-data", "l2-bank-hash", "l2-block-time"}
    BY <1>2, <1>5, <1>6, Zenon DEF fetch_l2
  <2>2. Good(fetch_hint(h))
    BY <1>1, <1>2, <1>4, <1>8, <2>1, Zenon DEF fetch_hint, HintType
  <2>3. QED
    BY <2>2, Zenon DEF Good
<1>9. QED
  BY <1>7, <1>8, Zenon

\* So does the store of a former run.
LEMMA FullStoreOk == \A k \in DOMAIN FullStore : FullStore[k] \in Held(k)
BY FetchOk, Zenon DEF FullStore

\* The server's reply into an empty channel.
LEMMA ReplyOk ==
  ASSUME NEW v, replies = <<>>
  PROVE  Reply(v) = ReplyTo(v)
<1>1. CASE v.size > 0
  <2>1. Reply(v) = <<>> \o <<Msg(8, v.size)>> \o <<Msg(v.size, v)>>
    BY <1>1, Zenon DEF Reply
  <2>2. QED
    BY <1>1, <2>1 DEF ReplyTo
<1>2. CASE ~(v.size > 0)
  <2>1. Reply(v) = <<>> \o <<Msg(8, v.size)>> \o <<>>
    BY <1>2, Zenon DEF Reply
  <2>2. QED
    BY <1>2, <2>1 DEF ReplyTo
<1>3. QED
  BY <1>1, <1>2, Zenon

\* A cache whose entries are all of a kind keeps them so.
LEMMA CacheKeeps ==
  ASSUME NEW E, cache \in Seq(E), NEW k, NEW v, <<k, v>> \in E
  PROVE  Touch(cache, k, v) \in Seq(E) /\ Put(cache, k, v) \in Seq(E)
<1>1. Without(cache, k) \in Seq(E)
  <2> DEFINE at == {i \in DOMAIN cache : cache[i][1] = k}
  <2>1. CASE at = {}
    BY <2>1, Zenon DEF Without
  <2>2. CASE at # {}
    <3> DEFINE i == CHOOSE j \in at : TRUE
    <3>1. i \in 1 .. Len(cache)
      <4>1. i \in at
        BY <2>2, Zenon
      <4> QED BY <4>1
    <3>2. SubSeq(cache, 1, i - 1) \o SubSeq(cache, i + 1, Len(cache)) \in Seq(E)
      <4> HIDE DEF i
      <4> QED BY <3>1
    <3> QED BY <2>2, <3>2, Zenon DEF Without
  <2> QED BY <2>1, <2>2, Zenon
<1>2. Touch(cache, k, v) \in Seq(E) /\ Touch(cache, k, v) # <<>>
  BY <1>1, AppendOk, Zenon DEF Touch
<1>3. Put(cache, k, v) \in Seq(E)
  <2> HIDE DEF Touch
  <2>1. Tail(Touch(cache, k, v)) \in Seq(E)
    BY <1>2
  <2> QED BY <1>2, <2>1, Zenon DEF Put
<1> QED BY <1>2, <1>3, Zenon

\* The cached value of a key is a preimage of it, and touching an entry keeps the cache
\* a sequence of such entries.
LEMMA CacheOk ==
  ASSUME cache \in Seq(Entries), NEW k \in Keys
  PROVE  /\ Cached(k) => CachedValue(k) \in Held(k)
         /\ \A v \in Held(k) : Touch(cache, k, v) \in Seq(Entries) /\ Put(cache, k, v) \in Seq(Entries)
<1>1. ASSUME NEW e \in Entries
      PROVE  e[1] \in Keys /\ e[2] \in Held(e[1])
  <2>1. PICK q \in Keys : e \in {q} \X Held(q)
    BY Zenon DEF Entries
  <2>2. QED
    BY <2>1, Zenon
<1>2. ASSUME NEW v \in Held(k)
      PROVE  <<k, v>> \in Entries
  <2>1. <<k, v>> \in {k} \X Held(k)
    OBVIOUS
  <2>2. QED
    BY <2>1, Zenon DEF Entries
<1> HIDE DEF Entries
<1>3. Cached(k) => CachedValue(k) \in Held(k)
  BY <1>1 DEF Cached, CachedValue
<1>4. \A v \in Held(k) : Touch(cache, k, v) \in Seq(Entries) /\ Put(cache, k, v) \in Seq(Entries)
  BY <1>2, CacheKeeps, Zenon
<1> QED BY <1>3, <1>4, Zenon

-----------------------------------------------------------------------------
\* An error: the program ends, or the builder goes on with nothing under way.
LEMMA FailKeeps ==
  ASSUME IInv, client # "failed", Fail, HintsQuiet', RequestsQuiet', UNCHANGED hostVars,
         Op \in BuilderOps => ~(online /\ RouterUp)
  PROVE  IInv'
<1>1. CASE Op \notin BuilderOps
  BY <1>1, Zenon DEF Fail, Crash, IInv
<1>2. CASE Op \in BuilderOps
  <2>1. client' = "ready" /\ todo' = <<>> /\ stray' /\ UNCHANGED <<cache, blocks, kv, last_hint, server, online, router>>
    BY <1>2, Zenon DEF Fail, hostVars
  <2>2. todo' \in Seq(AllOps)
    BY <2>1
  <2>3. PlanOk' /\ StoreOk'
    BY <1>2, <2>1, Zenon DEF PlanOk, RouterUp, IInv, StoreOk
  <2> QED BY <2>1, <2>2, <2>3, Zenon DEF IInv
<1> QED BY <1>1, <1>2, Zenon

\* HintWriter::write puts one hint into an idle channel.
LEMMA WriteHintOk ==
  ASSUME IInv, WriteHint
  PROVE  IInv'
<1> USE DEF WriteHint, IInv, hostVars
<1>1. CASE ~RouterUp
  <2>1. Fail /\ HintsQuiet' /\ RequestsQuiet' /\ UNCHANGED hostVars
    BY <1>1, Zenon DEF HintsQuiet, RequestsQuiet
  <2> QED BY <1>1, <2>1, FailKeeps, Zenon
<1>2. CASE RouterUp
  <2>1. HintUnderWay'
    BY <1>2 DEF HintsQuiet, HintUnderWay, Op, Msg, RouterUp
  <2>2. RequestsQuiet' /\ StoreOk' /\ PlanOk'
    BY <1>2, PlanSame, Zenon DEF RequestsQuiet, StoreOk, RouterUp
  <2>3. QED
    BY <1>2, <2>1, <2>2, Zenon
<1>3. QED
  BY <1>1, <1>2, Zenon

\* The acknowledgement leaves the hint channel idle.
LEMMA ReadAckOk ==
  ASSUME IInv, ReadAck
  PROVE  IInv'
<1> USE DEF ReadAck, IInv, hostVars
<1>1. CASE acks = <<>>
  <2>1. HintUnderWay /\ router = Failed
    BY <1>1, Zenon DEF RouterUp
  <2>2. Op.hint # Failed /\ None # Failed
    BY <2>1, CallOk, CallsAssumption, Zenon DEF HintUnderWay, Op
  <2>3. <<Msg(1, 0)>> # <<>>
    BY OneMessage, Zenon
  <2> QED BY <1>1, <2>1, <2>2, <2>3, Zenon DEF HintUnderWay
<1>2. CASE acks # <<>>
  <2>1. HintsQuiet'
    <3>1. acks = <<Msg(1, 0)>> /\ hints = <<>> /\ router \in {None, Failed}
      BY <1>2, Zenon DEF HintUnderWay
    <3>2. acks' = <<>>
      BY <1>2, <3>1, OneMessage, Zenon
    <3>3. QED
      BY <3>1, <3>2, Zenon DEF HintsQuiet
  <2>2. RequestsQuiet' /\ StoreOk'
    BY <1>2, Zenon DEF RequestsQuiet, StoreOk
  <2>3. todo' \in Seq(AllOps) /\ PlanOk'
    BY <1>2, CallOk, PlanTail, Zenon DEF HintUnderWay
  <2>4. QED
    BY <1>2, <2>1, <2>2, <2>3, Zenon
<1>3. QED
  BY <1>1, <1>2, Zenon

\* A cache hit touches no channel.
LEMMA CacheHitOk ==
  ASSUME IInv, CacheHit
  PROVE  IInv'
<1> USE DEF CacheHit, IInv, Crash, hostVars, pipes
<1>1. CASE client' = "failed"
  BY <1>1, Zenon
<1>2. CASE client' # "failed"
  <2>1. HintsQuiet' /\ RequestsQuiet' /\ StoreOk'
    BY <1>2, Zenon DEF HintsQuiet, RequestsQuiet, StoreOk
  <2>2. todo \in Seq(AllOps) /\ todo # <<>> /\ Op.key \in Keys /\ Cached(Op.key)
    BY CallOk, Zenon DEF Op
  <2>3. todo' \in Seq(AllOps) /\ PlanOk' /\ client' = "ready" /\ blocks' = blocks
    BY <1>2, <2>2, CallOk, PlanTail, Zenon DEF Answer
  <2>4. cache' \in Seq(Entries)
    BY <1>2, <2>2, CacheOk, Zenon
  <2>5. QED
    BY <1>2, <2>1, <2>3, <2>4, Zenon
<1>3. QED
  BY <1>1, <1>2, Zenon

\* OracleReader::write_key puts one request into an idle channel.
LEMMA WriteKeyOk ==
  ASSUME IInv, OnlineServes, WriteKey
  PROVE  IInv'
<1> USE DEF WriteKey, IInv, hostVars
<1>1. CASE ~ServerUp
  <2>1. Fail /\ HintsQuiet' /\ RequestsQuiet' /\ UNCHANGED hostVars
    BY <1>1, Zenon DEF HintsQuiet, RequestsQuiet
  <2>2. ~(online /\ RouterUp)
    BY <1>1, Zenon DEF OnlineServes, ServerUp
  <2> QED BY <2>1, <2>2, FailKeeps, Zenon
<1>2. CASE ServerUp
  <2>1. RequestUnderWay'
    BY <1>2 DEF RequestsQuiet, RequestUnderWay, Op, Msg, ServerUp
  <2>2. HintsQuiet' /\ StoreOk' /\ PlanOk' /\ IsGet(Op)' /\ todo' # <<>>
    BY <1>2, PlanSame, Zenon DEF HintsQuiet, StoreOk, Op, IsGet, RouterUp
  <2>3. QED
    BY <1>2, <2>1, <2>2, Zenon
<1>3. QED
  BY <1>1, <1>2, Zenon

\* The length is read: it is that of the value asked for, and if it is 0 nothing follows.
LEMMA ReadLengthOk ==
  ASSUME IInv, OnlineServes, ReadLength
  PROVE  IInv'
<1> USE DEF ReadLength, IInv, Crash, hostVars
<1>1. CASE client' = "failed"
  BY <1>1, Zenon
<1>3. CASE client' # "failed" /\ replies = <<>>
  <2>1. Fail /\ server.state = GaveUp /\ UNCHANGED <<hints, acks, requests, replies, hostVars>> /\ client = "length"
    BY <1>3, Zenon DEF ServerUp
  <2>2. HintsQuiet' /\ RequestsQuiet'
    BY <1>3, <2>1, Zenon DEF HintsQuiet, RequestsQuiet, RequestUnderWay, GaveUp
  <2>3. Op \in BuilderOps => ~(online /\ RouterUp)
    BY <2>1, BuilderOp, Zenon DEF OnlineServes
  <2> QED BY <2>1, <2>2, <2>3, FailKeeps, Zenon
<1>2. CASE client' # "failed" /\ replies # <<>>
  <2>0. ~(Op.op = "get_exact" /\ Head(replies).body # Op.len)
    BY <1>2, BuilderOp, Zenon DEF Fail
  <2>1. PICK v \in Held(Op.key) : replies = ReplyTo(v) /\ requests = <<>> /\ server.state = "read"
    BY <1>2, Zenon DEF RequestUnderWay
  <2>2. v.size \in Nat /\ (v.size = 0 => v = Empty)
    BY HeldSize, Zenon
  <2>3. /\ Head(replies) = Msg(8, v.size)
        /\ Tail(replies) = IF v.size > 0 THEN <<Msg(v.size, v)>> ELSE <<>>
    BY <2>1, OneMessage, TwoMessages, Zenon DEF ReplyTo
  <2>4. Head(replies).body = v.size
    BY <2>3 DEF Msg
  <2>5. HintsQuiet' /\ StoreOk' /\ requests' = <<>> /\ server'.state = "read"
    BY <1>2, <2>1, Zenon DEF HintsQuiet, StoreOk
  <2>6. todo \in Seq(AllOps) /\ todo # <<>> /\ IsGet(Op) /\ Op.key \in Keys
    BY CallOk, Zenon DEF Op
  <2>7. CASE v.size = 0
    <3>1. replies' = <<>>
      <4>1. replies' = Tail(replies) /\ ~(v.size > 0)
        BY <1>2, <2>7
      <4>2. QED
        BY <2>3, <4>1, Zenon
    <3>2. RequestsQuiet'
      BY <2>5, <3>1, Zenon DEF RequestsQuiet
    <3>3. cache' = Put(cache, Op.key, Empty) /\ Answer(Op.key, Empty) /\ UNCHANGED <<blocks, stray>>
      BY <1>2, <2>0, <2>4, <2>7, Zenon
    <3>4. cache' \in Seq(Entries)
      BY <2>2, <2>6, <2>7, <3>3, CacheOk, Zenon
    <3>5. todo' \in Seq(AllOps) /\ PlanOk' /\ client' = "ready"
      BY <2>6, <3>3, CallOk, PlanTail, Zenon DEF Answer
    <3>6. QED
      BY <2>5, <3>2, <3>3, <3>4, <3>5, Zenon
  <2>8. CASE v.size # 0
    <3>1. replies' = <<Msg(v.size, v)>>
      <4>1. replies' = Tail(replies) /\ v.size > 0
        BY <1>2, <2>2, <2>8
      <4>2. QED
        BY <2>3, <4>1, Zenon
    <3>2. client' = "data" /\ UNCHANGED <<todo, cache, blocks, stray>>
      BY <1>2, <2>0, <2>4, <2>8, Zenon
    <3>3. DataUnderWay' /\ IsGet(Op)' /\ PlanOk'
      BY <2>5, <2>6, <3>1, <3>2, PlanSame, Zenon DEF DataUnderWay, Op, IsGet, RouterUp
    <3>4. QED
      BY <2>5, <2>6, <3>2, <3>3, Zenon
  <2>9. QED
    BY <2>7, <2>8, Zenon
<1>4. QED
  BY <1>1, <1>2, <1>3, Zenon

\* The data are read: they are a preimage of the key, and the channel is empty again.
LEMMA ReadDataOk ==
  ASSUME IInv, ReadData
  PROVE  IInv'
<1> USE DEF ReadData, IInv, Crash, hostVars
<1>1. CASE client' = "failed"
  BY <1>1, Zenon
<1>2. CASE client' # "failed"
  <2>1. PICK v \in Held(Op.key) : replies = <<Msg(v.size, v)>> /\ requests = <<>> /\ server.state = "read"
    BY <1>2, Zenon DEF DataUnderWay
  <2>2. Head(replies).body = v /\ Tail(replies) = <<>> /\ replies # <<>>
    BY <2>1, OneMessage DEF Msg
  <2>3. HintsQuiet' /\ StoreOk' /\ RequestsQuiet'
    BY <1>2, <2>1, <2>2, Zenon DEF HintsQuiet, StoreOk, RequestsQuiet
  <2>4. todo \in Seq(AllOps) /\ todo # <<>> /\ IsGet(Op) /\ Op.key \in Keys
    BY CallOk, Zenon DEF Op
  <2>5. cache' = Put(cache, Op.key, v) /\ Answer(Op.key, v) /\ UNCHANGED <<blocks, stray>>
    BY <1>2, <2>1, <2>2, Zenon
  <2>6. cache' \in Seq(Entries)
    BY <2>4, <2>5, CacheOk, Zenon
  <2>7. todo' \in Seq(AllOps) /\ PlanOk' /\ client' = "ready"
    BY <2>4, <2>5, CallOk, PlanTail, Zenon DEF Answer
  <2>8. QED
    BY <1>2, <2>3, <2>5, <2>6, <2>7, Zenon
<1>3. QED
  BY <1>1, <1>2, Zenon

\* The next call starts between two operations.
LEMMA NextCallOk ==
  ASSUME IInv, NextCall
  PROVE  IInv'
<1> USE DEF NextCall, IInv, hostVars, pipes
<1>1. HintsQuiet' /\ RequestsQuiet' /\ StoreOk'
  BY Zenon DEF HintsQuiet, RequestsQuiet, StoreOk
<1>2. blocks' \in 0 .. L2Head
  BY WorldAssumption
<1>3. CASE stray
  <2>1. todo' \in AllCalls \/ todo' \in BuilderCalls
    BY <1>3, Zenon DEF AllCalls
  <2>2. todo' \in Seq(Planned) \/ todo' \in Seq(BuilderOps)
    BY <2>1, CallsAssumption, Zenon
  <2>3. Seq(BuilderOps) \subseteq Seq(AllOps)
    BY DEF AllOps
  <2>4. todo' \in Seq(AllOps) /\ PlanOk'
    BY <1>3, <2>2, <2>3, PlannedOk, Zenon DEF PlanOk, RouterUp
  <2> QED BY <1>1, <1>2, <2>4, Zenon
<1>4. CASE ~stray
  <2>1. todo' \in AllCalls
    BY <1>4, WorldAssumption DEF AllCalls
  <2>2. todo' \in Seq(Planned)
    BY <2>1, CallsAssumption, Zenon
  <2>3. todo' \in Seq(AllOps) /\ PlanOk'
    BY <1>4, <2>2, PlannedOk, Zenon DEF PlanOk
  <2> QED BY <1>1, <1>2, <2>3, Zenon
<1> QED BY <1>3, <1>4, Zenon

\* OraclePipeline::flush empties the cache and nothing else.
LEMMA FlushOk ==
  ASSUME IInv, Flush
  PROVE  IInv'
<1> USE DEF Flush, IInv, hostVars, pipes
<1>1. HintsQuiet' /\ RequestsQuiet' /\ StoreOk' /\ PlanOk'
  BY PlanSame, Zenon DEF HintsQuiet, RequestsQuiet, StoreOk, RouterUp
<1>2. <<>> \in Seq(Entries)
  OBVIOUS
<1>3. QED
  BY <1>1, <1>2, Zenon

-----------------------------------------------------------------------------
\* The hint task takes the hint the client waits for.
LEMMA ReadHintOk ==
  ASSUME IInv, ReadHint
  PROVE  IInv'
<1> USE DEF ReadHint, IInv, clientVars
<1>1. CASE client = "failed"
  BY <1>1, Zenon
<1>2. CASE client # "failed"
  <2>1. hints # <<>>
    BY DEF ReadHint
  <2>2. client = "ack" /\ hints = <<Msg(4, 64), Msg(64, Op.hint)>> /\ acks = <<>>
    BY <1>2, <2>1, Zenon DEF HintsQuiet, HintUnderWay
  <2>3. hints' = <<>> /\ router' = Op.hint
    BY <2>2 DEF Msg
  <2>4. HintUnderWay'
    BY <1>2, <2>2, <2>3, Zenon DEF HintUnderWay, Op
  <2>5. RequestsQuiet' /\ StoreOk' /\ PlanOk'
    BY <1>2, <2>2, CallsAssumption, PlanSame, Zenon DEF RequestsQuiet, StoreOk, RouterUp
  <2>6. QED
    BY <1>2, <2>2, <2>4, <2>5, Zenon
<1>3. QED
  BY <1>1, <1>2, Zenon

\* The hint is routed: noted, or fetched at once, and acknowledged whatever came of it.
LEMMA RouteHintOk ==
  ASSUME IInv, RouteHint
  PROVE  IInv'
<1> USE DEF RouteHint, IInv, clientVars
<1>1. CASE client = "failed"
  BY <1>1, Zenon
<1>2. CASE client # "failed"
  <2>1. client = "ack" /\ hints = <<>> /\ acks = <<>> /\ router = Op.hint /\ todo # <<>> /\ Op.op = "hint"
    BY <1>2, Zenon DEF HintsQuiet, HintUnderWay
  <2>2. online => router \in HintsOf(Planned)
    BY <1>2, <2>1, PlannedOk, Zenon DEF Op, PlanOk, RouterUp
  <2>3. acks' = <<Msg(1, 0)>> /\ router' \in {None, Failed}
    <3>1. acks' = Append(<<>>, Msg(1, 0)) /\ router' \in {None, Failed}
      BY <2>1, Zenon
    <3>2. Append(<<>>, Msg(1, 0)) = <<Msg(1, 0)>>
      OBVIOUS
    <3> QED BY <3>1, <3>2, ZenonT(40)
  <2>4. HintUnderWay'
    BY <2>1, <2>3, Zenon DEF HintUnderWay, Op
  <2>5. RequestsQuiet' /\ PlanOk'
    BY <1>2, <2>1, PlanSame, Zenon DEF RequestsQuiet, RouterUp
  <2>6. last_hint' \in HintsOf(Planned) \cup {None}
    BY <1>2, <2>2, Zenon
  <2>7. StoreOk'
    <3>1. CASE kv' = kv
      BY <1>2, <3>1, Zenon DEF StoreOk
    <3>2. CASE online /\ kv' = KvSet(kv, fetch_hint(router))
      BY <1>2, <2>2, <3>2, FetchOk, KvSetOk, Zenon DEF StoreOk
    <3>3. QED
      BY <3>1, <3>2, Zenon
  <2>8. QED
    BY <1>2, <2>1, <2>4, <2>5, <2>6, <2>7, ZenonT(40)
<1>3. QED
  BY <1>1, <1>2, Zenon

\* A value of the store is written into the empty channel as the reply to the request.
LEMMA Replied ==
  ASSUME NEW v \in Held(Op.key), replies = <<>>, replies' = Reply(v),
         todo' = todo, requests' = <<>>, server'.state = "read"
  PROVE  RequestUnderWay'
<1>1. replies' = ReplyTo(v)
  BY ReplyOk, Zenon
<1>2. QED
  BY <1>1, Zenon DEF RequestUnderWay, Op

\* The preimage task takes the request the client waits for, and answers it, starts to fetch
\* or gives up.
LEMMA ReadRequestOk ==
  ASSUME IInv, ReadRequest
  PROVE  IInv'
<1> USE DEF ReadRequest, IInv, clientVars
<1>1. CASE client = "failed"
  BY <1>1, Zenon
<1>2. CASE client # "failed"
  <2>1. client = "length" /\ requests = <<Msg(32, Op.key)>> /\ replies = <<>> /\ server.state = "read"
    BY <1>2, Zenon DEF RequestsQuiet, RequestUnderWay, DataUnderWay
  <2>2. Head(requests).body = Op.key /\ requests' = <<>>
    BY <2>1, OneMessage DEF Msg
  <2>3. HintsQuiet' /\ StoreOk' /\ PlanOk' /\ IsGet(Op)' /\ todo' # <<>>
    BY <1>2, <2>1, PlanSame, Zenon DEF HintsQuiet, StoreOk, Op, IsGet, RouterUp
  <2>4. Op.key \in Keys
    BY <1>2, <2>1, CallOk, Zenon DEF Op
  <2>5. CASE KvHas(kv, Op.key)
    <3>1. KvGet(kv, Op.key) \in Held(Op.key)
      BY <1>2, <2>5, KvGetOk, Zenon DEF StoreOk
    <3>2. RequestUnderWay'
      BY <2>1, <2>2, <2>5, <3>1, Replied, Zenon
    <3>3. QED
      BY <1>2, <2>1, <2>2, <2>3, <2>5, <3>2, Zenon
  <2>6. CASE ~KvHas(kv, Op.key)
    <3>1. /\ server' = [Waiting EXCEPT !.state = IF online THEN "fetch" ELSE GaveUp, !.key = Op.key]
          /\ replies' = <<>>
      BY <2>1, <2>2, <2>6, Zenon
    <3>2. server' \in Tasks /\ server'.state \in {"fetch", GaveUp} /\ server'.key = Op.key
      BY <2>4, <3>1, Zenon DEF Waiting, Tasks
    <3>3. RequestUnderWay'
      BY <2>2, <3>1, <3>2, Zenon DEF RequestUnderWay, Op
    <3>4. QED
      BY <1>2, <2>1, <2>3, <3>2, <3>3, Zenon
  <2>7. QED
    BY <2>5, <2>6, Zenon
<1>3. QED
  BY <1>1, <1>2, Zenon

\* One turn of get_preimage's loop: what it stores are preimages, and it answers the request
\* it was started for.
LEMMA FetchStepOk ==
  ASSUME IInv, Fetch
  PROVE  IInv'
<1> USE DEF Fetch, IInv, clientVars
<1>1. CASE client = "failed"
  BY <1>1, Zenon
<1>2. CASE client # "failed"
  <2>1. /\ client = "length" /\ requests = <<>> /\ replies = <<>>
        /\ server.state = "fetch" /\ server.key = Op.key /\ server \in Tasks
    BY <1>2, Zenon DEF RequestsQuiet, RequestUnderWay, DataUnderWay, GaveUp
  <2>2. HintsQuiet' /\ PlanOk' /\ IsGet(Op)' /\ todo' # <<>>
    BY <1>2, <2>1, PlanSame, Zenon DEF HintsQuiet, Op, IsGet, RouterUp
  <2>3. StoreOk'
    <3>1. CASE last_hint = None
      BY <1>2, <3>1, Zenon DEF StoreOk
    <3>2. CASE last_hint # None
      <4>1. last_hint \in HintsOf(Planned) /\ kv' = KvSet(kv, fetch_hint(last_hint))
        BY <1>2, <3>2, Zenon
      <4>2. QED
        BY <1>2, <4>1, FetchOk, KvSetOk, Zenon DEF StoreOk
    <3>3. QED
      BY <3>1, <3>2, Zenon
  <2>4. server' \in Tasks /\ RequestUnderWay'
    <3>1. CASE server.count >= MaxTries
      BY <2>1, <3>1, Zenon DEF Tasks, RequestUnderWay
    <3>2. CASE ~(server.count >= MaxTries) /\ last_hint # None /\ KvHas(kv', server.key)
      <4>1. KvGet(kv', Op.key) \in Held(Op.key)
        BY <2>1, <2>3, <3>2, KvGetOk, Zenon DEF StoreOk
      <4>2. server' = Waiting /\ replies' = Reply(KvGet(kv', Op.key))
        BY <2>1, <3>2, Zenon
      <4>3. server' \in Tasks /\ server'.state = "read"
        BY <4>2, Zenon DEF Waiting, Tasks
      <4>4. QED
        BY <2>1, <4>1, <4>2, <4>3, Replied, Zenon
    <3>3. CASE ~(server.count >= MaxTries) /\ ~(last_hint # None /\ KvHas(kv', server.key))
      BY <2>1, <3>3 DEF Tasks, RequestUnderWay, Op
    <3>4. QED
      BY <3>1, <3>2, <3>3, Zenon
  <2>5. QED
    BY <1>2, <2>1, <2>2, <2>3, <2>4, Zenon
<1>3. QED
  BY <1>1, <1>2, Zenon

\* A step that changes nothing of what the invariant speaks of.
LEMMA StutterOk ==
  ASSUME IInv, UNCHANGED <<clientVars, pipes, router, server, kv, last_hint, online>>
  PROVE  IInv'
BY Zenon DEF IInv, clientVars, pipes, HintsQuiet, RequestsQuiet, HintUnderWay, RequestUnderWay, DataUnderWay,
       StoreOk, Op, IsGet, PlanOk, RouterUp

\* A panic ends the program.
LEMMA PanicOk == Panic => IInv'
BY Zenon DEF Panic, Crash, IInv

\* Every step keeps the invariant.
LEMMA NextIInv ==
  ASSUME IInv, OnlineServes, [Next]_vars
  PROVE  IInv'
<1>1. CASE Client
  BY <1>1, WriteHintOk, ReadAckOk, CacheHitOk, WriteKeyOk, ReadLengthOk, ReadDataOk, PanicOk, Zenon DEF Client
<1>2. CASE NextCall \/ Flush
  BY <1>2, NextCallOk, FlushOk, Zenon
<1>3. CASE Router \/ Server
  BY <1>3, ReadHintOk, RouteHintOk, ReadRequestOk, FetchStepOk, Zenon DEF Router, Server
<1>4. CASE FetchFails \/ Done \/ UNCHANGED vars
  <2>1. UNCHANGED <<clientVars, pipes, router, server, kv, last_hint, online>>
    BY <1>4, Zenon DEF FetchFails, Done, vars, hostVars
  <2>2. QED
    BY <2>1, StutterOk, Zenon
<1>5. QED
  BY <1>1, <1>2, <1>3, <1>4, Zenon DEF Next

\* The program starts with empty channels and, offline, with the store of a former run.
LEMMA InitIInv == Init => IInv
<1> SUFFICES ASSUME Init PROVE IInv
  OBVIOUS
<1> USE DEF Init
<1>1. HintsQuiet /\ RequestsQuiet /\ server \in Tasks
  BY Zenon DEF HintsQuiet, RequestsQuiet, Tasks, Waiting
<1>2. StoreOk
  <2>1. CASE online
    BY <2>1 DEF StoreOk
  <2>2. CASE ~online
    <3>1. PICK lost \in Missing : kv = Restrict(FullStore, DOMAIN FullStore \ lost)
      BY <2>2, Zenon
    <3> QED BY <3>1, FullStoreOk, Zenon DEF StoreOk, Restrict
  <2>3. QED
    BY <2>1, <2>2, Zenon
<1>3. todo \in AllCalls /\ blocks \in 0 .. L2Head
  BY WorldAssumption DEF AllCalls
<1>4. todo \in Seq(AllOps) /\ PlanOk
  BY <1>3, CallsAssumption, PlannedOk, Zenon DEF PlanOk
<1>5. <<>> \in Seq(Entries)
  OBVIOUS
<1>6. QED
  BY <1>1, <1>2, <1>3, <1>4, <1>5, Zenon DEF IInv

-----------------------------------------------------------------------------
\* The refinement: a step of the program is a step of the abstract oracle or none.

\* The keys, the hints, None and Failed can be told apart.
LEMMA AskedOk ==
  ASSUME NEW t \in Seq(AllOps)
  PROVE  (IF t # <<>> /\ IsGet(Head(t)) THEN Head(t).key ELSE None) \in Keys \cup {None}
BY CallOk, Zenon

\* What the oracle sees of a client that has not failed.
LEMMA AskedRunning ==
  ASSUME IInv, client # "failed"
  PROVE  Asked \in Keys \cup {None} /\ Asked # Failed
<1>1. Asked \in Keys \cup {None}
  BY AskedOk, Zenon DEF IInv, Asked, Op
<1>2. QED
  BY <1>1, CallsAssumption, Zenon

\* An answered request: Serve.
LEMMA ServeOk ==
  ASSUME IInv, IInv', client # "failed", todo # <<>>, IsGet(Op), NEW v \in Held(Op.key), Answer(Op.key, v)
  PROVE  O!Serve
<1>1. Asked = Op.key /\ Asked \in Keys
  BY CallOk, Zenon DEF Asked, IInv, Op
<1>2. Asked' \in Keys \cup {None}
  <2>1. client' # "failed"
    BY Zenon DEF Answer
  <2>2. QED
    BY <2>1, AskedOk, Zenon DEF Asked, IInv, Op
<1>3. answer' = [key |-> Asked, value |-> v] /\ v \in Meaning(Asked)
  BY <1>1, HeldMeaning, Zenon DEF Answer
<1>4. QED
  BY <1>1, <1>2, <1>3, Zenon DEF O!Serve

\* A panic, or an error that ends the client: End.
LEMMA EndOk ==
  ASSUME IInv, client # "failed", Crash
  PROVE  O!End
<1>1. Asked # Failed /\ Asked' = Failed /\ answer' = answer
  BY AskedRunning, Zenon DEF Asked, Crash
<1>2. QED
  BY <1>1, Zenon DEF O!End

\* An error: End, or for the builder Fail if it asked for a preimage and no step if it hinted.
LEMMA FailRefines ==
  ASSUME IInv, client # "failed", todo # <<>>, Fail
  PROVE  [O!Next]_<<Asked, answer>>
<1>1. CASE Op \notin BuilderOps
  BY <1>1, EndOk, Zenon DEF Fail, O!Next
<1>2. CASE Op \in BuilderOps
  <2>1. Asked' = None
    BY <1>2, Zenon DEF Fail, Asked
  <2>2. CASE IsGet(Op)
    <3>1. Asked = Op.key /\ Asked \in Keys
      BY <2>2, CallOk, Zenon DEF Asked, IInv, Op
    <3> QED BY <1>2, <2>1, <2>2, <3>1, Zenon DEF Fail, O!Fail, O!Next
  <2>3. CASE ~IsGet(Op)
    BY <1>2, <2>1, <2>3, Zenon DEF Fail, Asked
  <2> QED BY <2>2, <2>3, Zenon
<1> QED BY <1>1, <1>2, Zenon

\* The end of an operation that asks for nothing: Ask, or no step.
LEMMA AskOk ==
  ASSUME IInv', Asked = None, client' # "failed", answer' = answer
  PROVE  O!Ask \/ UNCHANGED <<Asked, answer>>
<1>1. Asked' \in Keys \cup {None}
  BY AskedOk, Zenon DEF Asked, IInv, Op
<1>2. QED
  BY <1>1, Zenon DEF O!Ask

\* An answer of the cache or of the host is held for the key that was asked for.
LEMMA Answered ==
  ASSUME IInv, client' = "ready", ~Fail, CacheHit \/ ReadLength \/ ReadData
  PROVE  /\ client # "failed" /\ todo \in Seq(AllOps) /\ todo # <<>> /\ IsGet(Op) /\ Op.key \in Keys
         /\ UNCHANGED <<blocks, stray, hostVars>>
         /\ CacheHit \/ (client \in {"length", "data"} /\ replies # <<>>)
         /\ \E v \in Held(Op.key) : Answer(Op.key, v) /\ cache' \in {Touch(cache, Op.key, v), Put(cache, Op.key, v)}
<1>1. /\ client \in {"ready", "length", "data"} /\ todo \in Seq(AllOps) /\ todo # <<>> /\ IsGet(Op)
      /\ cache \in Seq(Entries)
  BY Zenon DEF IInv, CacheHit, ReadLength, ReadData
<1>2. Op.key \in Keys
  BY <1>1, CallOk, Zenon DEF Op
<1>3. CASE CacheHit
  <2>1. /\ Cached(Op.key) /\ Answer(Op.key, CachedValue(Op.key)) /\ UNCHANGED <<blocks, stray, hostVars>>
        /\ cache' = Touch(cache, Op.key, CachedValue(Op.key))
    BY <1>3, Zenon DEF CacheHit, Crash
  <2>2. CachedValue(Op.key) \in Held(Op.key)
    BY <1>1, <1>2, <2>1, CacheOk, Zenon
  <2> QED BY <1>1, <1>2, <1>3, <2>1, <2>2, Zenon
<1>4. CASE ReadLength
  <2>1. /\ client = "length" /\ replies # <<>> /\ UNCHANGED hostVars
        /\ IF Head(replies).body = 0
           THEN cache' = Put(cache, Op.key, Empty) /\ Answer(Op.key, Empty) /\ UNCHANGED <<blocks, stray>>
           ELSE client' = "data"
    BY <1>4, Zenon DEF ReadLength, Crash
  <2>2. PICK v \in Held(Op.key) : replies = ReplyTo(v)
    BY <2>1, Zenon DEF IInv, RequestUnderWay
  <2>3. Head(replies) = Msg(8, v.size)
    BY <2>2, OneMessage, TwoMessages, Zenon DEF ReplyTo
  <2>4. Head(replies).body = 0 /\ v = Empty
    BY <2>1, <2>3, HeldSize DEF Msg
  <2> QED BY <1>1, <1>2, <2>1, <2>4, Zenon
<1>5. CASE ReadData
  <2>1. /\ client = "data" /\ replies # <<>> /\ UNCHANGED <<blocks, stray, hostVars>>
        /\ Answer(Op.key, Head(replies).body) /\ cache' = Put(cache, Op.key, Head(replies).body)
    BY <1>5, Zenon DEF ReadData, Crash
  <2>2. PICK v \in Held(Op.key) : replies = <<Msg(v.size, v)>>
    BY <2>1, Zenon DEF IInv, DataUnderWay
  <2>3. Head(replies).body = v
    BY <2>2, OneMessage DEF Msg
  <2> QED BY <1>1, <1>2, <2>1, <2>3, Zenon
<1> QED BY <1>3, <1>4, <1>5, Zenon

\* Every step of the program.
LEMMA StepRefines ==
  ASSUME IInv, IInv', [Next]_vars
  PROVE  [O!Next]_<<Asked, answer>>
<1>1. CASE Client /\ Fail
  <2>1. client # "failed" /\ todo # <<>>
    BY <1>1, Zenon DEF Client, WriteHint, ReadAck, CacheHit, WriteKey, ReadLength, ReadData, Panic, IInv, HintUnderWay
  <2> QED BY <1>1, <2>1, FailRefines, Zenon
<1> USE DEF O!Next
<1>2. CASE ReadAck /\ ~Fail
  <2>1. Asked = None
    BY <1>2, Zenon DEF ReadAck, Asked, IInv, HintUnderWay, IsGet
  <2>2. client' # "failed" /\ answer' = answer
    BY <1>2, Zenon DEF ReadAck
  <2> QED BY <2>1, <2>2, AskOk, Zenon
<1>3. CASE (CacheHit \/ ReadLength \/ ReadData) /\ client' = "ready" /\ ~Fail
  BY <1>3, Answered, ServeOk, Zenon
<1>4. CASE (WriteHint \/ WriteKey) /\ ~Fail
  BY <1>4, Zenon DEF WriteHint, WriteKey, Asked, Op
<1>5. CASE (CacheHit \/ ReadLength \/ ReadData \/ Panic) /\ client' # "ready" /\ ~Fail
  <2>1. CASE Crash
    BY <1>5, <2>1, EndOk, Zenon DEF CacheHit, ReadLength, ReadData, Panic
  <2>2. CASE ~Crash
    BY <1>5, <2>2, Zenon DEF CacheHit, ReadLength, ReadData, Panic, Answer, Asked, Op
  <2> QED BY <2>1, <2>2, Zenon
<1>6. CASE NextCall
  <2>1. Asked = None /\ client' # "failed" /\ answer' = answer
    BY <1>6, Zenon DEF NextCall, Asked
  <2>2. QED
    BY <2>1, AskOk, Zenon
<1>7. CASE Flush \/ Router \/ Server \/ FetchFails \/ Done \/ UNCHANGED vars
  BY <1>7, Zenon DEF Flush, Router, ReadHint, RouteHint, Server, ReadRequest, Fetch, FetchFails, Done,
              vars, clientVars, Asked, Op
<1>8. Panic => client' # "ready"
  BY Zenon DEF Panic, Crash
<1>9. QED
  BY <1>1, <1>2, <1>3, <1>4, <1>5, <1>6, <1>7, <1>8, Zenon DEF Next, Client

-----------------------------------------------------------------------------
\* Part 3: the hints suffice.

\* What the host would fetch on a miss.
Pending == IF last_hint = None THEN {} ELSE Fetched(last_hint)

\* Each preimage the client has still to ask for is in the store, or will be by then.
Covered ==
  \A i \in 1 .. Len(todo) : IsGet(todo[i]) =>
    \/ NeedsNoHint(todo[i].key) \/ KvHas(kv, todo[i].key)
    \/ todo[i].key \in Pending /\ \A m \in 1 .. i - 1 : ~IsHint(todo[m])
    \/ HintedBefore(todo, i) \/ NodeOfAccount(todo, i, blocks)

\* The nodes of an account's path are in the store with the account.
NodesStored ==
  \A a \in Account : new_l2_account_proof(a) \in DOMAIN kv => StateNodes(a, blocks) \subseteq DOMAIN kv

CacheStored == cache \in Seq({e \in Entries : KvHas(kv, e[1])})

\* Of the operations that are left, and of the last hint.
TodoFits == client # "failed" /\ ~stray => \A i \in 1 .. Len(todo) : OpFits(todo[i], blocks)
LastHintOk == last_hint # None /\ last_hint[1] = "l2-account-proof" => last_hint[2][1] < blocks

\* The hint that has been acknowledged was fetched or noted; what is being replied is in the
\* store; what is being fetched is there after one turn.
HintRouted == client = "ack" /\ acks # <<>> => Fetched(Op.hint) \subseteq DOMAIN kv \/ last_hint = Op.hint
Replying == client \in {"length", "data"} /\ replies # <<>> => KvHas(kv, Op.key)
Fetching == server.state = "fetch" /\ KeyType(server.key) # "Sha256" => server.count = 0 /\ server.key \in Pending

\* A host that has given up did so on what the client is waiting for.
OnlyAsked == server.state = GaveUp => client = "length" /\ server.key = Op.key

Running == Covered /\ NodesStored /\ CacheStored /\ LastHintOk /\ HintRouted /\ Replying /\ Fetching

\* The inductive invariant, for a host that is online and whose hint task is up.
HInv ==
  online /\ RouterUp =>
    /\ server.state = GaveUp => KeyType(server.key) = "Sha256"
    /\ client = "failed" => requests = <<>> /\ server.state # "fetch"
    /\ client # "failed" => Running /\ OnlyAsked

-----------------------------------------------------------------------------
\* The keys a hint brings are of its own kind.
LEMMA FetchedKinds ==
  ASSUME NEW h, h[1] \in HintType, NEW k \in Fetched(h)
  PROVE  /\ KeyType(k) # "Local"
         /\ KeyType(k) = "L2AccountProof" => h[1] = "l2-account-proof" /\ k = new_l2_account_proof(h[2][2])
<1> USE DEF KeyType, PreimageKey, new_keccak256, new_block_slot, new_da_proxy_blob, new_l2_block_time, new_l2_bank_hash
<1> DEFINE Plain(f) == \A x \in DOMAIN f : KeyType(x) \notin {"Local", "L2AccountProof"}
<1>1. /\ Plain(<<>>) /\ Plain(Store({new_keccak256(<<"header", h[2]>>)}))
      /\ Plain(store_ordered_trie(Txs[h[2]])) /\ Plain(store_ordered_trie(Receipts[h[2]]))
      /\ Plain(Store({new_da_proxy_blob(h[2])}))
      /\ Plain(Store({new_keccak256(h[2]), PreimageKey("Precompile", h[2])}))
      /\ Plain(Store({new_keccak256(h[2])}))
  BY DEF Store, store_ordered_trie
<1>2. /\ Plain(Store({new_block_slot(h[2])})) /\ Plain(Store({new_l2_block_time(h[2])}))
      /\ Plain([x \in {new_l2_bank_hash(h[2])} |-> IF h[2] \in NoBankHash THEN Empty ELSE Preimage(x)])
  BY DEF Store
<1>3. CASE h[1] = "l2-account-proof"
  <2>1. Fetched(h) = DOMAIN fetch_account(h[2][2], h[2][1])
    BY <1>3, Zenon DEF Fetched, fetch_hint, fetch_l2
  <2>2. DOMAIN fetch_account(h[2][2], h[2][1]) =
          {new_keccak256(x) : x \in AccountProof(h[2][2], h[2][1])} \cup {new_l2_account_proof(h[2][2])}
    BY Zenon DEF fetch_account, KvSet, Store
  <2> QED BY <1>3, <2>1, <2>2 DEF new_l2_account_proof
<1>4. CASE h[1] # "l2-account-proof"
  <2> HIDE DEF Plain
  <2>1. Plain(fetch_l2(h)) \/ h[1] \notin {"l2-state-node", "l2-block-data", "l2-bank-hash", "l2-block-time"}
    BY <1>1, <1>2, Zenon DEF fetch_l2
  <2>2. Plain(fetch_hint(h))
    BY <1>1, <1>4, <2>1, Zenon DEF fetch_hint, HintType
  <2> QED BY <2>2, Zenon DEF Plain, Fetched
<1> QED BY <1>3, <1>4, Zenon

\* What a hint for an account brings.
LEMMA AccountHint ==
  ASSUME NEW h, h[1] = "l2-account-proof"
  PROVE  Fetched(h) = Fetched(<<"l2-account-proof", <<h[2][1], h[2][2]>>>>)
BY Zenon DEF Fetched, fetch_hint, fetch_l2

\* With an account its nodes are stored, however long ago the hint was written.
LEMMA GrowOk ==
  ASSUME NEW h \in HintsOf(Planned), h[1] = "l2-account-proof" => h[2][1] < blocks, blocks \in Nat, NodesStored,
         kv' = KvSet(kv, fetch_hint(h)), blocks' = blocks
  PROVE  NodesStored' /\ DOMAIN kv' = DOMAIN kv \cup Fetched(h)
<1>1. DOMAIN kv' = DOMAIN kv \cup Fetched(h)
  BY Zenon DEF KvSet, Fetched
<1>2. ASSUME NEW a \in Account, new_l2_account_proof(a) \in Fetched(h)
      PROVE  StateNodes(a, blocks) \subseteq Fetched(h)
  <2>1. h[1] \in HintType
    BY CallsAssumption, PlannedOk, Zenon
  <2>2. KeyType(new_l2_account_proof(a)) = "L2AccountProof"
    BY Zenon DEF KeyType, PreimageKey, new_l2_account_proof
  <2>3. h[1] = "l2-account-proof" /\ new_l2_account_proof(a) = new_l2_account_proof(h[2][2])
    BY <1>2, <2>1, <2>2, FetchedKinds, Zenon
  <2>4. h[2][2] = a
    BY <2>3, Zenon DEF PreimageKey, new_l2_account_proof
  <2>5. h[2][1] \in Nat /\ a \notin Overlay(h[2][1] + 1) /\ h[2][1] < blocks
    BY <2>3, <2>4, HintsFit, Zenon
  <2>6. StateNodes(a, blocks) \subseteq Fetched(<<"l2-account-proof", <<h[2][1], a>>>>)
    BY <2>5, AccountFetched, Zenon
  <2> QED BY <2>3, <2>4, <2>6, AccountHint, Zenon
<1>3. ASSUME NEW a \in Account, new_l2_account_proof(a) \in DOMAIN kv'
      PROVE  StateNodes(a, blocks') \subseteq DOMAIN kv'
  BY <1>1, <1>2, <1>3, Zenon DEF NodesStored
<1> QED BY <1>1, <1>3, Zenon DEF NodesStored

\* A growing store covers what it covered; a hint that is about to be read again needs not be
\* the last one any more.
LEMMA CoveredMore ==
  ASSUME Covered, DOMAIN kv \subseteq DOMAIN kv', todo' = todo, blocks' = blocks,
         last_hint' = last_hint \/ (todo # <<>> /\ IsHint(Op)), todo \in Seq(AllOps)
  PROVE  Covered'
<1>1. \A k : KvHas(kv, k) => KvHas(kv', k)
  BY Zenon DEF KvHas
<1>2. ASSUME NEW i \in 1 .. Len(todo), IsGet(todo[i]), todo[i].key \in Pending, \A m \in 1 .. i - 1 : ~IsHint(todo[m])
      PROVE  todo[i].key \in Pending'
  <2>1. CASE last_hint' = last_hint
    BY <1>2, <2>1, Zenon DEF Pending
  <2>2. CASE todo # <<>> /\ IsHint(Op)
    <3>1. IsHint(todo[1]) /\ ~IsGet(todo[1])
      BY <2>2 DEF Op, IsHint, IsGet
    <3> QED BY <1>2, <3>1
  <2> QED BY <2>1, <2>2, Zenon
<1>3. ASSUME NEW i \in 1 .. Len(todo'), IsGet(todo'[i])
      PROVE  \/ NeedsNoHint(todo'[i].key) \/ KvHas(kv', todo'[i].key)
             \/ todo'[i].key \in Pending' /\ \A m \in 1 .. i - 1 : ~IsHint(todo'[m])
             \/ HintedBefore(todo', i) \/ NodeOfAccount(todo', i, blocks')
  BY <1>1, <1>2, <1>3, ZenonT(40) DEF Covered
<1> QED BY <1>3, Zenon DEF Covered

\* An operation done: what it brought is there for the ones after it.
LEMMA CoveredTail ==
  ASSUME Covered, NodesStored, todo \in Seq(AllOps), todo # <<>>, todo' = Tail(todo),
         kv' = kv, last_hint' = last_hint, blocks' = blocks,
         IsGet(Op) => NeedsNoHint(Op.key) \/ KvHas(kv, Op.key),
         IsHint(Op) => Op.hint \in Hints /\ (Fetched(Op.hint) \subseteq DOMAIN kv \/ last_hint = Op.hint)
  PROVE  Covered'
<1>1. /\ Len(todo) \in Nat /\ Len(todo') = Len(todo) - 1 /\ todo[1] = Op
      /\ \A i \in 1 .. Len(todo') : i + 1 \in 1 .. Len(todo) /\ todo'[i] = todo[i + 1]
  BY DEF Op
<1>2. ASSUME NEW i \in 1 .. Len(todo'), IsGet(todo'[i])
      PROVE  \/ NeedsNoHint(todo'[i].key) \/ KvHas(kv', todo'[i].key)
             \/ todo'[i].key \in Pending' /\ \A m \in 1 .. i - 1 : ~IsHint(todo'[m])
             \/ HintedBefore(todo', i) \/ NodeOfAccount(todo', i, blocks')
  <2> DEFINE k == todo'[i].key
  <2>1. todo'[i] = todo[i + 1] /\ i + 1 \in 1 .. Len(todo) /\ i \in Nat /\ i >= 1
    BY <1>1
  <2>2. \A m \in 1 .. i - 1 : todo'[m] = todo[m + 1] /\ m + 1 \in 1 .. i
    BY <1>1, <2>1
  <2>3. ASSUME k \in Pending, \A m \in 1 .. i : ~IsHint(todo[m])
        PROVE  k \in Pending' /\ \A m \in 1 .. i - 1 : ~IsHint(todo'[m])
    <3>1. \A m \in 1 .. i - 1 : ~IsHint(todo'[m])
      BY <2>2, <2>3, Zenon
    <3> QED BY <2>3, <3>1, Zenon DEF Pending
  <2>4. ASSUME NEW j \in 1 .. i, IsHint(todo[j]), k \in Fetched(todo[j].hint), \A m \in j + 1 .. i : ~IsHint(todo[m])
        PROVE  KvHas(kv, k) \/ (k \in Pending' /\ \A m \in 1 .. i - 1 : ~IsHint(todo'[m])) \/ HintedBefore(todo', i)
    <3>1. CASE j = 1
      <4>1. Op.hint \in Hints /\ Op.hint # None /\ Op.hint[1] \in HintType /\ k \in Fetched(Op.hint)
        BY <1>1, <2>4, <3>1, CallsAssumption, Zenon
      <4>2. KeyType(k) # "Local"
        BY <4>1, FetchedKinds, Zenon
      <4>3. CASE Fetched(Op.hint) \subseteq DOMAIN kv
        BY <4>1, <4>2, <4>3, ZenonT(40) DEF KvHas
      <4>4. CASE last_hint = Op.hint
        <5>1. \A m \in 1 .. i - 1 : ~IsHint(todo'[m])
          <6> TAKE m \in 1 .. i - 1
          <6>1. m + 1 \in j + 1 .. i
            BY <2>1, <3>1
          <6> QED BY <2>2, <2>4, <6>1, Zenon
        <5> QED BY <4>1, <4>4, <5>1, Zenon DEF Pending
      <4> QED BY <1>1, <2>4, <3>1, <4>3, <4>4, Zenon
    <3>2. CASE j # 1
      <4>1. j - 1 \in 1 .. i - 1 /\ todo'[j - 1] = todo[j]
        <5>1. j - 1 \in 1 .. i - 1 /\ (j - 1) + 1 = j
          BY <2>1, <3>2
        <5> QED BY <2>2, <5>1, Zenon
      <4>2. \A m \in (j - 1) + 1 .. i - 1 : ~IsHint(todo'[m])
        <5> TAKE m \in (j - 1) + 1 .. i - 1
        <5>1. m \in 1 .. i - 1 /\ m + 1 \in j + 1 .. i
          BY <2>1, <4>1
        <5> QED BY <2>2, <2>4, <5>1, Zenon
      <4> QED BY <2>4, <4>1, <4>2, Zenon DEF HintedBefore
    <3> QED BY <3>1, <3>2, Zenon
  <2>5. ASSUME NEW j \in 1 .. i, NEW a \in Account,
               IsGet(todo[j]), todo[j].key = new_l2_account_proof(a), k \in StateNodes(a, blocks)
        PROVE  KvHas(kv, k) \/ NodeOfAccount(todo', i, blocks')
    <3>1. CASE j = 1
      <4>1. KeyType(new_l2_account_proof(a)) \notin {"Sha256", "Local"}
        BY Zenon DEF KeyType, PreimageKey, new_l2_account_proof
      <4>2. new_l2_account_proof(a) \in DOMAIN kv
        BY <1>1, <2>5, <3>1, <4>1, Zenon DEF KvHas, NeedsNoHint
      <4>3. k \in DOMAIN kv
        BY <2>5, <4>2, Zenon DEF NodesStored
      <4>4. KeyType(k) # "Local"
        BY <2>5 DEF StateNodes, KeyType, PreimageKey, new_keccak256
      <4> QED BY <4>3, <4>4, Zenon DEF KvHas
    <3>2. CASE j # 1
      <4>1. j - 1 \in 1 .. i - 1 /\ (j - 1) + 1 = j
        BY <2>1, <3>2
      <4>2. todo'[j - 1] = todo[j]
        BY <2>2, <4>1, Zenon
      <4> QED BY <2>5, <4>1, <4>2, Zenon DEF NodeOfAccount
    <3> QED BY <3>1, <3>2, Zenon
  <2>6. (i + 1) - 1 = i
    BY <2>1
  <2>7. \/ NeedsNoHint(k) \/ KvHas(kv, k)
        \/ k \in Pending /\ \A m \in 1 .. i : ~IsHint(todo[m])
        \/ \E j \in 1 .. i : IsHint(todo[j]) /\ k \in Fetched(todo[j].hint) /\ \A m \in j + 1 .. i : ~IsHint(todo[m])
        \/ \E j \in 1 .. i : \E a \in Account :
             IsGet(todo[j]) /\ todo[j].key = new_l2_account_proof(a) /\ k \in StateNodes(a, blocks)
    BY <1>2, <2>1, <2>6, Zenon DEF Covered, HintedBefore, NodeOfAccount
  <2> HIDE DEF k
  <2>8. NeedsNoHint(k) \/ KvHas(kv', k) \/ (k \in Pending' /\ \A m \in 1 .. i - 1 : ~IsHint(todo'[m]))
        \/ HintedBefore(todo', i) \/ NodeOfAccount(todo', i, blocks')
    <3>1. ASSUME NEW j \in 1 .. i, IsHint(todo[j]) /\ k \in Fetched(todo[j].hint) /\ \A m \in j + 1 .. i : ~IsHint(todo[m])
          PROVE  KvHas(kv', k) \/ (k \in Pending' /\ \A m \in 1 .. i - 1 : ~IsHint(todo'[m])) \/ HintedBefore(todo', i)
      BY <2>4, <3>1, Zenon
    <3>2. ASSUME NEW j \in 1 .. i, NEW a \in Account,
                 IsGet(todo[j]) /\ todo[j].key = new_l2_account_proof(a) /\ k \in StateNodes(a, blocks)
          PROVE  KvHas(kv', k) \/ NodeOfAccount(todo', i, blocks')
      BY <2>5, <3>2, Zenon
    <3> QED BY <2>3, <2>7, <3>1, <3>2, Zenon
  <2> QED BY <2>8, Zenon DEF k
<1> QED BY <1>2, Zenon DEF Covered

\* A growing store holds what is cached.
LEMMA CacheMore ==
  ASSUME CacheStored, DOMAIN kv \subseteq DOMAIN kv', cache' = cache
  PROVE  CacheStored'
<1>1. {e \in Entries : KvHas(kv, e[1])} \subseteq {e \in Entries : KvHas(kv', e[1])}
  BY Zenon DEF KvHas
<1>2. ASSUME NEW S, NEW T, S \subseteq T PROVE Seq(S) \subseteq Seq(T)
  BY <1>2
<1> QED BY <1>1, <1>2, Zenon DEF CacheStored

\* An answer leaves in the cache an entry that is in the store.
LEMMA CacheAnswer ==
  ASSUME CacheStored, NEW v \in Held(Op.key), Op.key \in Keys, KvHas(kv, Op.key), kv' = kv,
         cache' = Touch(cache, Op.key, v) \/ cache' = Put(cache, Op.key, v)
  PROVE  CacheStored'
<1> DEFINE E == {e \in Entries : KvHas(kv, e[1])}
<1>1. <<Op.key, v>> \in E
  <2>1. <<Op.key, v>> \in {Op.key} \X Held(Op.key)
    OBVIOUS
  <2> QED BY <2>1, Zenon DEF Entries
<1>2. cache' \in Seq(E)
  <2> HIDE DEF E
  <2>1. cache \in Seq(E)
    BY Zenon DEF CacheStored, E
  <2> QED BY <1>1, <2>1, CacheKeeps, Zenon
<1> QED BY <1>2, Zenon DEF CacheStored

\* The nodes that come with an account get fewer with the blocks.
LEMMA NodesShrink ==
  ASSUME NEW a, NEW n \in Nat, NEW m \in Nat, n <= m
  PROVE  StateNodes(a, m) \subseteq StateNodes(a, n)
<1>1. Overlay(n) \subseteq Overlay(m)
  BY OverlayGrows, Zenon
<1> QED BY <1>1, Zenon DEF StateNodes

\* What is known of the operations that are left, the store and the last hint together.
HData == Covered /\ NodesStored /\ LastHintOk

\* A step that leaves all of them alone.
LEMMA SameData ==
  ASSUME HData, UNCHANGED <<todo, blocks, kv, last_hint>>
  PROVE  HData'
<1>1. Pending' = Pending
  BY Zenon DEF Pending
<1>2. NodesStored' /\ LastHintOk'
  BY Zenon DEF HData, NodesStored, LastHintOk
<1>3. Covered'
  BY <1>1, Zenon DEF HData, Covered
<1> QED BY <1>2, <1>3, Zenon DEF HData

-----------------------------------------------------------------------------
\* An answered request was one of a key in the store.
LEMMA AnsweredRuns ==
  ASSUME IInv, IInv', Running, client' = "ready", ~stray', CacheHit \/ ReadLength \/ ReadData
  PROVE  Running'
<1>0. ~Fail
  BY Zenon DEF Fail, Crash
<1>1. /\ client # "failed" /\ todo \in Seq(AllOps) /\ todo # <<>> /\ IsGet(Op) /\ Op.key \in Keys
      /\ UNCHANGED <<blocks, kv, last_hint>>
      /\ CacheHit \/ (client \in {"length", "data"} /\ replies # <<>>)
  BY <1>0, Answered, Zenon DEF hostVars
<1>2. PICK v \in Held(Op.key) : Answer(Op.key, v) /\ cache' \in {Touch(cache, Op.key, v), Put(cache, Op.key, v)}
  BY <1>0, Answered, Zenon
<1>3. KvHas(kv, Op.key)
  <2>1. CASE CacheHit
    <3>1. PICK i \in DOMAIN cache : cache[i][1] = Op.key
      BY <2>1, Zenon DEF CacheHit, Cached
    <3>2. cache[i] \in {e \in Entries : KvHas(kv, e[1])}
      BY DEF Running, CacheStored
    <3> QED BY <3>1, <3>2, Zenon
  <2>2. CASE client \in {"length", "data"} /\ replies # <<>>
    BY <2>2, Zenon DEF Running, Replying
  <2> QED BY <1>1, <2>1, <2>2, Zenon
<1>4. CacheStored'
  BY <1>1, <1>2, <1>3, CacheAnswer, Zenon DEF Running
<1>5. Covered'
  <2>1. todo' = Tail(todo) /\ ~IsHint(Op)
    BY <1>1, <1>2, Zenon DEF Answer, IsGet, IsHint
  <2> QED BY <1>1, <1>3, <2>1, CoveredTail, Zenon DEF Running
<1>6. NodesStored' /\ LastHintOk'
  BY <1>1, Zenon DEF Running, NodesStored, LastHintOk
<1>7. HintRouted' /\ Replying' /\ Fetching'
  <2>1. server'.state \in {"read", GaveUp}
    BY Zenon DEF IInv, RequestsQuiet
  <2> QED BY <2>1, Zenon DEF HintRouted, Replying, Fetching, GaveUp
<1> QED BY <1>4, <1>5, <1>6, <1>7, Zenon DEF Running

\* An acknowledged hint was fetched, or is the last one.
LEMMA AckRuns ==
  ASSUME IInv, IInv', Running, client' # "failed", ~stray', ReadAck
  PROVE  Running'
<1>1. /\ client = "ack" /\ acks # <<>> /\ client' = "ready" /\ todo' = Tail(todo)
      /\ UNCHANGED <<blocks, cache, kv, last_hint>>
  BY Zenon DEF ReadAck, Fail, Crash, hostVars
<1>2. todo \in Seq(AllOps) /\ todo # <<>> /\ Op.op = "hint"
  BY <1>1, Zenon DEF IInv, HintUnderWay
<1>3. Op.hint \in Hints /\ ~IsGet(Op) /\ (Fetched(Op.hint) \subseteq DOMAIN kv \/ last_hint = Op.hint)
  BY <1>1, <1>2, CallOk, Zenon DEF Op, Running, HintRouted
<1>4. Covered'
  BY <1>1, <1>2, <1>3, CoveredTail, Zenon DEF Running
<1>5. NodesStored' /\ LastHintOk' /\ CacheStored'
  BY <1>1, CacheMore, Zenon DEF Running, NodesStored, LastHintOk
<1>6. HintRouted' /\ Replying' /\ Fetching'
  <2>1. server'.state \in {"read", GaveUp}
    BY <1>1, Zenon DEF IInv, RequestsQuiet
  <2> QED BY <1>1, <2>1, Zenon DEF HintRouted, Replying, Fetching, GaveUp
<1> QED BY <1>4, <1>5, <1>6, Zenon DEF Running

\* The steps that leave the operations, the store and the last hint alone.
LEMMA QuietRuns ==
  ASSUME IInv, Running, client # "failed", client' # "failed", ~stray',
         WriteHint \/ WriteKey \/ (ReadLength /\ client' # "ready") \/ Flush
  PROVE  Running'
<1>1. UNCHANGED <<todo, blocks, kv, last_hint, server>> /\ (cache' = cache \/ cache' = <<>>)
  BY Zenon DEF WriteHint, WriteKey, ReadLength, Flush, Fail, Crash, Answer, hostVars
<1>2. Covered' /\ NodesStored' /\ LastHintOk'
  BY <1>1, SameData, Zenon DEF Running, HData
<1>3. CacheStored'
  <2>1. CASE cache' = cache
    BY <1>1, <2>1, CacheMore, Zenon DEF Running
  <2>2. CASE cache' = <<>>
    BY <2>2 DEF CacheStored
  <2> QED BY <1>1, <2>1, <2>2, Zenon
<1>4. Fetching' /\ Pending' = Pending
  BY <1>1, Zenon DEF Running, Fetching, Pending
<1>5. HintRouted'
  <2>1. CASE WriteHint
    <3>1. acks' = <<>>
      BY <2>1, Zenon DEF WriteHint, IInv, HintsQuiet
    <3> QED BY <3>1, Zenon DEF HintRouted
  <2>2. CASE WriteKey \/ ReadLength \/ Flush
    <3>1. client' # "ack"
      BY <2>2, Zenon DEF WriteKey, ReadLength, Flush, Fail, Crash, Answer
    <3> QED BY <3>1, Zenon DEF HintRouted
  <2> QED BY <2>1, <2>2, Zenon
<1>6. Replying'
  <2>1. CASE WriteHint \/ Flush
    <3>1. client' \notin {"length", "data"}
      BY <2>1, Zenon DEF WriteHint, Flush, Fail, Crash
    <3> QED BY <3>1, Zenon DEF Replying
  <2>2. CASE WriteKey
    <3>1. replies' = <<>>
      BY <2>2, Zenon DEF WriteKey, IInv, RequestsQuiet
    <3> QED BY <3>1, Zenon DEF Replying
  <2>3. CASE ReadLength /\ client' # "ready"
    <3>1. client = "length" /\ replies # <<>>
      BY <2>3, Zenon DEF ReadLength, Fail, Crash
    <3> QED BY <1>1, <3>1, Zenon DEF Running, Replying, Op
  <2> QED BY <2>1, <2>2, <2>3, Zenon
<1> QED BY <1>2, <1>3, <1>4, <1>5, <1>6, Zenon DEF Running

\* The call that begins is one of the providers' or builds the next block.
LEMMA NextCallFits ==
  ASSUME IInv, NextCall, ~stray
  PROVE  CallFits(todo, blocks)' /\ blocks \in Nat /\ blocks' \in Nat /\ blocks <= blocks'
<1>1. blocks \in 0 .. L2Head /\ L2Head \in Nat
  BY WorldAssumption, Zenon DEF IInv, NextCall
<1>2. CASE todo' \in Calls /\ UNCHANGED blocks
  <2>1. todo' \in ProviderCalls
    BY <1>2, ProvidersAssumption, Zenon
  <2>2. CallFits(todo', blocks')
    BY <2>1, ProviderFits, Zenon
  <2> QED BY <1>1, <1>2, <2>2
<1>3. CASE blocks < L2Head /\ blocks' = blocks + 1 /\ todo' = build_block(blocks + 1)
  <2>1. blocks + 1 \in 1 .. L2Head
    BY <1>1, <1>3
  <2>2. CallFits(build_block(blocks + 1), blocks + 1)
    BY <2>1, BuildFits, Zenon
  <2>3. CallFits(todo', blocks')
    BY <1>3, <2>2, Zenon
  <2> QED BY <1>1, <1>3, <2>1, <2>3
<1> QED BY <1>2, <1>3, Zenon DEF NextCall

\* Every preimage a new call will ask for comes with a hint of its own.
LEMMA NextCallRuns ==
  ASSUME IInv, Running, NextCall, ~stray
  PROVE  Running'
<1>1. CallFits(todo, blocks)' /\ blocks \in Nat /\ blocks' \in Nat /\ blocks <= blocks'
  BY NextCallFits, Zenon
<1>2. Covered'
  BY <1>1, Zenon DEF CallFits, Covered, Brought
<1>3. client' = "ready" /\ server.state \in {"read", GaveUp} /\ UNCHANGED <<cache, kv, last_hint, server>>
  BY Zenon DEF NextCall, hostVars, IInv, RequestsQuiet
<1>4. NodesStored'
  <2>1. \A a \in Account : StateNodes(a, blocks') \subseteq StateNodes(a, blocks)
    BY <1>1, NodesShrink, Zenon
  <2> QED BY <1>3, <2>1, Zenon DEF Running, NodesStored
<1>5. CacheStored'
  BY <1>3, CacheMore, Zenon DEF Running
<1>6. LastHintOk'
  <2>1. ASSUME last_hint # None, last_hint[1] = "l2-account-proof"
        PROVE  last_hint[2][1] < blocks'
    <3>1. last_hint \in Hints
      BY <1>3, <2>1, PlannedOk, Zenon DEF IInv, NextCall
    <3>2. last_hint[2][1] \in Nat /\ last_hint[2][1] < blocks
      BY <2>1, <3>1, CallsAssumption, WorldAssumption DEF Running, LastHintOk
    <3> QED BY <1>1, <3>2
  <2> QED BY <1>3, <2>1, Zenon DEF LastHintOk
<1>7. HintRouted' /\ Replying' /\ Fetching'
  BY <1>3, Zenon DEF HintRouted, Replying, Fetching, GaveUp
<1> QED BY <1>2, <1>4, <1>5, <1>6, <1>7, Zenon DEF Running

\* A hint on its way to the host.
LEMMA ReadHintRuns ==
  ASSUME IInv, Running, client # "failed", ReadHint
  PROVE  Running'
<1>1. UNCHANGED <<todo, blocks, kv, last_hint, server, client, acks, replies, cache>>
  BY Zenon DEF ReadHint, clientVars
<1>2. Covered' /\ NodesStored' /\ LastHintOk'
  BY <1>1, SameData, Zenon DEF Running, HData
<1>3. CacheStored' /\ Pending' = Pending
  BY <1>1, CacheMore, Zenon DEF Running, Pending
<1> QED BY <1>1, <1>2, <1>3, Zenon DEF Running, HintRouted, Replying, Fetching, Op

\* A hint is noted or, if it is proactive, fetched, before it is acknowledged.
LEMMA RouteHintRuns ==
  ASSUME IInv, TodoFits, Running, client # "failed", online, RouterUp', RouteHint
  PROVE  Running'
<1>1. /\ client = "ack" /\ router = Op.hint /\ todo # <<>> /\ IsHint(Op) /\ todo \in Seq(AllOps)
      /\ blocks \in 0 .. L2Head /\ server.state \in {"read", GaveUp} /\ ~stray /\ todo \in Seq(Planned)
  BY Zenon DEF RouteHint, IInv, HintsQuiet, HintUnderWay, RequestsQuiet, IsHint, PlanOk, RouterUp
<1>2. Op.hint \in HintsOf(Planned)
  BY <1>1, PlannedOk, Zenon DEF Op, IsHint
<1>3. Op.hint[1] = "l2-account-proof" => Op.hint[2][1] < blocks
  <2>1. OpFits(Op, blocks)
    <3>1. 1 \in 1 .. Len(todo) /\ todo[1] = Op
      BY <1>1 DEF Op
    <3> QED BY <1>1, <3>1, Zenon DEF TodoFits
  <2>2. Op.hint[1] = "l2-account-proof" => Op.hint[2][1] = blocks - 1
    BY <1>1, <2>1, ZenonT(40) DEF OpFits
  <2>3. blocks \in Int
    BY <1>1, WorldAssumption
  <2> QED BY <2>2, <2>3
<1>4. UNCHANGED <<todo, blocks, client, cache, server>>
  BY Zenon DEF RouteHint, clientVars
<1>5. \/ last_hint' = Op.hint /\ kv' = kv
      \/ last_hint' = last_hint /\ kv' = KvSet(kv, fetch_hint(Op.hint))
  BY <1>1, Zenon DEF RouteHint, RouterUp
<1>6. CASE last_hint' = Op.hint /\ kv' = kv
  <2>1. Covered' /\ CacheStored'
    BY <1>1, <1>4, <1>6, CoveredMore, CacheMore, Zenon DEF Running
  <2>2. NodesStored' /\ LastHintOk'
    BY <1>3, <1>4, <1>6, Zenon DEF Running, NodesStored, LastHintOk
  <2>3. HintRouted' /\ Replying' /\ Fetching'
    BY <1>1, <1>4, <1>6, Zenon DEF HintRouted, Replying, Fetching, Op, GaveUp
  <2> QED BY <2>1, <2>2, <2>3, Zenon DEF Running
<1>7. CASE last_hint' = last_hint /\ kv' = KvSet(kv, fetch_hint(Op.hint))
  <2>1. blocks \in Nat
    BY <1>1, WorldAssumption
  <2>2. NodesStored' /\ DOMAIN kv' = DOMAIN kv \cup Fetched(Op.hint)
    BY <1>2, <1>3, <1>4, <1>7, <2>1, GrowOk, Zenon DEF Running
  <2>3. Covered' /\ CacheStored'
    BY <1>1, <1>4, <1>7, <2>2, CoveredMore, CacheMore, Zenon DEF Running
  <2>4. LastHintOk'
    BY <1>4, <1>7, Zenon DEF Running, LastHintOk
  <2>5. HintRouted' /\ Replying' /\ Fetching'
    BY <1>1, <1>4, <2>2, Zenon DEF HintRouted, Replying, Fetching, Op, GaveUp
  <2> QED BY <2>2, <2>3, <2>4, <2>5, Zenon DEF Running
<1> QED BY <1>5, <1>6, <1>7, Zenon

\* A request that misses the store is one the last hint will bring, or a blob's.
LEMMA ReadRequestRuns ==
  ASSUME IInv, Running, client # "failed", online, ReadRequest
  PROVE  Running' /\ (server'.state # GaveUp)
<1>1. /\ client = "length" /\ requests = <<Msg(32, Op.key)>> /\ replies = <<>> /\ server.state = "read"
      /\ todo # <<>> /\ IsGet(Op) /\ todo \in Seq(AllOps)
  BY Zenon DEF ReadRequest, IInv, RequestsQuiet, RequestUnderWay, DataUnderWay
<1>2. Head(requests).body = Op.key
  BY <1>1, OneMessage DEF Msg
<1>3. UNCHANGED <<todo, blocks, client, cache, kv, last_hint>>
  BY Zenon DEF ReadRequest, clientVars
<1>4. Covered' /\ NodesStored' /\ LastHintOk'
  BY <1>3, SameData, Zenon DEF Running, HData
<1>5. CacheStored' /\ HintRouted'
  BY <1>1, <1>3, CacheMore, Zenon DEF Running, HintRouted
<1>6. CASE KvHas(kv, Op.key)
  <2>1. server' = server
    BY <1>2, <1>6, Zenon DEF ReadRequest
  <2> QED BY <1>1, <1>3, <1>4, <1>5, <1>6, <2>1, Zenon DEF Running, Replying, Fetching, Op, GaveUp
<1>7. CASE ~KvHas(kv, Op.key)
  <2>1. server' = [Waiting EXCEPT !.state = "fetch", !.key = Op.key] /\ replies' = replies
    BY <1>2, <1>7, Zenon DEF ReadRequest
  <2>2. server'.state = "fetch" /\ server'.key = Op.key /\ server'.count = 0
    BY <2>1, Zenon DEF Waiting
  <2>3. KeyType(Op.key) = "Sha256" \/ Op.key \in Pending
    <3>1. 1 \in 1 .. Len(todo) /\ todo[1] = Op
      BY <1>1 DEF Op
    <3>2. ~HintedBefore(todo, 1) /\ ~NodeOfAccount(todo, 1, blocks)
      BY DEF HintedBefore, NodeOfAccount
    <3>3. NeedsNoHint(Op.key) \/ Op.key \in Pending
      BY <1>1, <1>7, <3>1, <3>2, Zenon DEF Running, Covered
    <3> QED BY <1>7, <3>3, Zenon DEF NeedsNoHint, KvHas
  <2>4. Fetching' /\ Replying'
    BY <1>1, <1>3, <2>1, <2>2, <2>3, Zenon DEF Fetching, Replying, Pending
  <2> QED BY <1>4, <1>5, <2>2, <2>4, Zenon DEF Running, GaveUp
<1> QED BY <1>6, <1>7, Zenon

\* One turn of the loop brings what was asked for: the host gives up on blobs only.
LEMMA FetchRuns ==
  ASSUME IInv, Running, client # "failed", Fetch
  PROVE  Running' /\ OnlyAsked' /\ (server'.state = GaveUp => KeyType(server'.key) = "Sha256")
<1>1. /\ client = "length" /\ replies = <<>> /\ server.state = "fetch" /\ server.key = Op.key
      /\ server \in Tasks /\ todo \in Seq(AllOps) /\ blocks \in 0 .. L2Head /\ last_hint \in HintsOf(Planned) \cup {None}
  BY Zenon DEF Fetch, IInv, RequestsQuiet, RequestUnderWay, DataUnderWay, GaveUp
<1>2. UNCHANGED <<todo, blocks, client, cache, last_hint>>
  BY Zenon DEF Fetch, clientVars
<1>3. NodesStored' /\ DOMAIN kv' = DOMAIN kv \cup Pending
  <2>1. CASE last_hint = None
    BY <1>2, <2>1, Zenon DEF Fetch, Running, NodesStored, Pending
  <2>2. CASE last_hint # None
    <3>1. last_hint \in HintsOf(Planned) /\ kv' = KvSet(kv, fetch_hint(last_hint)) /\ blocks \in Nat
      BY <1>1, <2>2, WorldAssumption DEF Fetch
    <3>2. last_hint[1] = "l2-account-proof" => last_hint[2][1] < blocks
      BY <2>2, Zenon DEF Running, LastHintOk
    <3> QED BY <1>2, <2>2, <3>1, <3>2, GrowOk, Zenon DEF Running, Pending
  <2> QED BY <2>1, <2>2, Zenon
<1>4. Covered' /\ CacheStored' /\ LastHintOk' /\ HintRouted'
  BY <1>1, <1>2, <1>3, CoveredMore, CacheMore, Zenon DEF Running, LastHintOk, HintRouted
<1>5. CASE KeyType(server.key) = "Sha256"
  <2>1. CASE server' = Waiting
    <3>1. KvHas(kv', Op.key) /\ server'.state = "read"
      BY <1>1, <2>1, Zenon DEF Fetch, Waiting, Tasks, GaveUp
    <3> QED BY <1>2, <1>3, <1>4, <3>1, Zenon DEF Running, Replying, Fetching, OnlyAsked, Op, GaveUp
  <2>2. CASE server' # Waiting
    <3>1. replies' = <<>> /\ server'.key = server.key
      BY <1>1, <2>2, Zenon DEF Fetch, Tasks
    <3> QED BY <1>1, <1>2, <1>3, <1>4, <1>5, <3>1, Zenon DEF Running, Replying, Fetching, OnlyAsked, Op
  <2> QED BY <2>1, <2>2, Zenon
<1>6. CASE KeyType(server.key) # "Sha256"
  <2>1. server.count = 0 /\ Op.key \in Pending
    BY <1>1, <1>6, Zenon DEF Running, Fetching
  <2>2. last_hint # None /\ last_hint \in HintsOf(Planned) /\ Op.key \in Fetched(last_hint)
    BY <1>1, <2>1, Zenon DEF Pending
  <2>3. KeyType(Op.key) # "Local"
    BY <2>2, FetchedKinds, CallsAssumption, PlannedOk, Zenon
  <2>4. KvHas(kv', Op.key)
    BY <1>3, <2>1, <2>3, Zenon DEF KvHas
  <2>5. server' = Waiting
    BY <1>1, <2>1, <2>2, <2>4, PreimageAssumption DEF Fetch
  <2>6. server'.state = "read"
    BY <2>5, Zenon DEF Waiting
  <2> QED BY <1>2, <1>3, <1>4, <2>4, <2>6, Zenon DEF Running, Replying, Fetching, OnlyAsked, Op, GaveUp
<1> QED BY <1>5, <1>6, Zenon

\* The steps of a client that fails, or that fails to be served.
LEMMA FailedQuiet ==
  ASSUME IInv, client # "failed", client' = "failed", RouterUp, Client
  PROVE  requests' = <<>> /\ server'.state # "fetch" /\ server' = server
<1> USE DEF Fail, Crash, Answer, hostVars, GaveUp
<1>1. CASE WriteHint \/ ReadAck
  BY <1>1, Zenon DEF WriteHint, ReadAck
<1>2. CASE CacheHit \/ Panic
  BY <1>2, Zenon DEF CacheHit, Panic, IInv, RequestsQuiet, pipes
<1>3. CASE WriteKey
  BY <1>3, Zenon DEF WriteKey, IInv, RequestsQuiet
<1>4. CASE ReadLength
  <2>1. RequestUnderWay /\ (replies # <<>> \/ server.state = GaveUp)
    BY <1>4, Zenon DEF ReadLength, IInv, ServerUp
  <2>2. requests = <<>> /\ server.state \in {"read", GaveUp}
    BY <2>1, Zenon DEF RequestUnderWay
  <2> QED BY <1>4, <2>2, Zenon DEF ReadLength
<1>5. CASE ReadData
  BY <1>5, Zenon DEF ReadData, IInv, DataUnderWay
<1> QED BY <1>1, <1>2, <1>3, <1>4, <1>5, Zenon DEF Client

\* What a step does to the operations that are left.
LEMMA TodoMoves ==
  ASSUME IInv, [Next]_vars, client' # "failed", ~stray'
  PROVE  /\ client # "failed" /\ stray' = stray
         /\ \/ UNCHANGED <<todo, blocks>>
            \/ todo # <<>> /\ todo \in Seq(AllOps) /\ todo' = Tail(todo) /\ blocks' = blocks
            \/ NextCall
<1>0. ~Fail
  BY Zenon DEF Fail, Crash
<1>1. CASE WriteHint \/ WriteKey \/ Flush \/ Panic
  BY <1>0, <1>1, Zenon DEF WriteHint, WriteKey, Flush, Panic, Crash
<1>2. CASE ReadAck
  BY <1>0, <1>2, Zenon DEF ReadAck, IInv, HintUnderWay
<1>3. CASE CacheHit \/ ReadLength \/ ReadData
  <2>1. CASE client' = "ready"
    BY <1>0, <1>3, <2>1, Answered, Zenon DEF Answer
  <2>2. CASE client' # "ready"
    BY <1>0, <1>3, <2>2, Zenon DEF CacheHit, ReadLength, ReadData, Crash, Answer
  <2> QED BY <2>1, <2>2, Zenon
<1>4. CASE Router \/ Server \/ FetchFails \/ Done \/ UNCHANGED vars
  BY <1>4, Zenon DEF Router, ReadHint, RouteHint, Server, ReadRequest, Fetch, FetchFails, Done, vars, clientVars
<1>5. CASE NextCall
  BY <1>5, Zenon DEF NextCall
<1> QED BY <1>1, <1>2, <1>3, <1>4, <1>5, Zenon DEF Next, Client

\* What is asked for in a block stays what may be asked for in it.
LEMMA NextFits ==
  ASSUME IInv, TodoFits, [Next]_vars
  PROVE  TodoFits'
<1> SUFFICES ASSUME client' # "failed", ~stray', NEW i \in 1 .. Len(todo')
             PROVE  OpFits(todo'[i], blocks')
  BY Zenon DEF TodoFits
<1>0. client # "failed" /\ ~stray
  <2>1. client # "failed" /\ stray' = stray
    BY TodoMoves, Zenon
  <2> QED BY <2>1
<1>1. CASE UNCHANGED <<todo, blocks>>
  BY <1>0, <1>1, Zenon DEF TodoFits
<1>2. CASE todo # <<>> /\ todo \in Seq(AllOps) /\ todo' = Tail(todo) /\ blocks' = blocks
  <2>1. todo'[i] = todo[i + 1] /\ i + 1 \in 1 .. Len(todo)
    BY <1>2
  <2> QED BY <1>0, <1>2, <2>1, Zenon DEF TodoFits
<1>3. CASE NextCall
  <2>1. CallFits(todo', blocks')
    BY <1>0, <1>3, NextCallFits, Zenon
  <2> QED BY <2>1, Zenon DEF CallFits
<1> QED BY <1>1, <1>2, <1>3, TodoMoves, Zenon

\* Every step of a host whose tasks are both up.
LEMMA NextRuns ==
  ASSUME IInv, IInv', TodoFits, HInv, [Next]_vars
  PROVE  HInv'
<1> SUFFICES ASSUME online', RouterUp' PROVE HInv'
  BY Zenon DEF HInv
<1>1. online /\ RouterUp
  BY CallsAssumption, Zenon DEF Next, Client, Router, Server, WriteHint, ReadAck, CacheHit, WriteKey, ReadLength, ReadData, Panic,
     NextCall, Flush, ReadHint, RouteHint, ReadRequest, Fetch, FetchFails, Done, vars, hostVars, RouterUp
<1>2. /\ server.state = GaveUp => KeyType(server.key) = "Sha256"
      /\ client = "failed" => requests = <<>> /\ server.state # "fetch"
      /\ client # "failed" => Running /\ OnlyAsked
  BY <1>1, Zenon DEF HInv
<1> SUFFICES /\ server'.state = GaveUp => KeyType(server'.key) = "Sha256"
             /\ client' = "failed" => requests' = <<>> /\ server'.state # "fetch"
             /\ client' # "failed" => Running' /\ OnlyAsked'
  BY Zenon DEF HInv
<1>3. CASE client = "failed"
  <2>1. UNCHANGED <<client, requests, server>>
    BY <1>2, <1>3, ZenonT(40) DEF Next, Client, Router, Server, WriteHint, ReadAck, CacheHit, WriteKey, ReadLength, ReadData, Panic,
       NextCall, Flush, ReadHint, RouteHint, ReadRequest, Fetch, FetchFails, Done, vars, clientVars, pipes, hostVars
  <2> QED BY <1>2, <1>3, <2>1, Zenon
<1>4. CASE client # "failed" /\ client' = "failed"
  <2>1. Client
    BY <1>4, Zenon DEF Next, Router, Server, NextCall, Flush, ReadHint, RouteHint, ReadRequest, Fetch, FetchFails, Done, vars, clientVars
  <2> QED BY <1>1, <1>2, <1>4, <2>1, FailedQuiet, Zenon
<1>5. CASE client # "failed" /\ client' # "failed"
  <2>0. ~stray /\ ~stray'
    BY <1>1, <1>5, Zenon DEF IInv, PlanOk
  <2>1. CASE Client \/ NextCall \/ Flush
    <3>1. server' = server
      BY <2>1, Zenon DEF Client, WriteHint, ReadAck, CacheHit, WriteKey, ReadLength, ReadData, Panic, NextCall, Flush, hostVars
    <3>2. Running'
      <4>1. CASE CacheHit \/ ReadLength \/ ReadData
        <5>1. client' = "ready" \/ (ReadLength /\ client' # "ready")
          BY <1>5, <4>1, Zenon DEF CacheHit, ReadLength, ReadData, Fail, Crash, Answer
        <5> QED BY <1>2, <1>5, <2>0, <4>1, <5>1, AnsweredRuns, QuietRuns, Zenon
      <4>2. CASE WriteHint \/ WriteKey \/ Flush \/ ReadAck \/ NextCall
        BY <1>2, <1>5, <2>0, <4>2, QuietRuns, AckRuns, NextCallRuns, Zenon
      <4>3. ~Panic
        BY <1>5, Zenon DEF Panic, Crash
      <4> QED BY <2>1, <4>1, <4>2, <4>3, Zenon DEF Client
    <3>3. server.state # GaveUp
      <4> SUFFICES ASSUME server.state = GaveUp PROVE FALSE
        OBVIOUS
      <4>1. client = "length" /\ KeyType(Op.key) = "Sha256" /\ RequestUnderWay /\ IsGet(Op)
        BY <1>2, <1>5, Zenon DEF OnlyAsked, IInv
      <4>2. ReadLength
        BY <2>1, <4>1, Zenon DEF Client, WriteHint, ReadAck, CacheHit, WriteKey, ReadData, Panic, NextCall, Flush
      <4>3. replies = <<>>
        BY <4>1, Zenon DEF RequestUnderWay, GaveUp
      <4>4. Op \notin BuilderOps
        BY <4>1, BuilderOp, Zenon
      <4> QED BY <1>5, <4>2, <4>3, <4>4, Zenon DEF ReadLength, Fail, Crash
    <3> QED BY <1>2, <1>5, <3>1, <3>2, <3>3, Zenon DEF OnlyAsked
  <2>2. CASE Router
    <3>1. UNCHANGED <<server, client, todo>>
      BY <2>2, ZenonT(40) DEF Router, ReadHint, RouteHint, clientVars
    <3>2. OnlyAsked'
      BY <1>2, <1>5, <3>1, Zenon DEF OnlyAsked, Op
    <3> QED BY <1>1, <1>2, <1>5, <2>2, <3>1, <3>2, ReadHintRuns, RouteHintRuns, Zenon DEF Router
  <2>3. CASE Server
    BY <1>1, <1>2, <1>5, <2>3, ReadRequestRuns, FetchRuns, Zenon DEF Server, OnlyAsked
  <2>4. CASE FetchFails \/ Done \/ UNCHANGED vars
    <3>1. UNCHANGED <<todo, blocks, kv, last_hint, server, client, acks, replies, cache>>
      BY <2>4, Zenon DEF FetchFails, Done, vars, clientVars, hostVars, pipes
    <3>2. Covered' /\ NodesStored' /\ LastHintOk'
      BY <1>2, <1>5, <3>1, SameData, Zenon DEF Running, HData
    <3>3. CacheStored' /\ Pending' = Pending
      BY <1>2, <1>5, <3>1, CacheMore, Zenon DEF Running, Pending
    <3> QED BY <1>2, <1>5, <3>1, <3>2, <3>3, ZenonT(40) DEF Running, HintRouted, Replying, Fetching, OnlyAsked, Op
  <2> QED BY <2>1, <2>2, <2>3, <2>4, Zenon DEF Next
<1> QED BY <1>3, <1>4, <1>5, Zenon

\* The first call.
LEMMA InitHInv == Init => TodoFits /\ HInv
<1> SUFFICES ASSUME Init PROVE TodoFits /\ HInv
  OBVIOUS
<1>1. CallFits(todo, blocks)
  BY ProvidersAssumption, ProviderFits, Zenon DEF Init
<1>2. TodoFits /\ Covered
  BY <1>1, ZenonT(40) DEF TodoFits, CallFits, Covered, Brought
<1>3. LastHintOk /\ CacheStored
  BY DEF Init, LastHintOk, CacheStored
<1>4. HintRouted /\ Replying /\ Fetching /\ server.state = "read" /\ client = "ready"
  BY Zenon DEF Init, HintRouted, Replying, Fetching, Waiting
<1>5. online => NodesStored
  BY DEF Init, NodesStored
<1> QED BY <1>2, <1>3, <1>4, <1>5, Zenon DEF HInv, Running, OnlyAsked, GaveUp

-----------------------------------------------------------------------------
\* Part 4: the theorems.

\* The inductive invariant of the program: the channels, the store and the cache; what the
\* calls still need; and that an online host serves them. Each of the three needs the others.
ProgramInv == IInv /\ TodoFits /\ HInv

\* What the calls of the client still need is in the store or will be when it is asked for, and
\* neither the channels nor the caches mix up the answers.
THEOREM Invariance == Spec => []ProgramInv
<1>1. Init => ProgramInv
  BY InitIInv, InitHInv, Zenon DEF ProgramInv
<1>2. ProgramInv /\ [Next]_vars => ProgramInv'
  <2> SUFFICES ASSUME ProgramInv, [Next]_vars PROVE ProgramInv'
    OBVIOUS
  <2>1. OnlineServes
    BY Zenon DEF ProgramInv, HInv, OnlyAsked, OnlineServes
  <2>2. IInv'
    BY <2>1, NextIInv, Zenon DEF ProgramInv
  <2>3. TodoFits' /\ HInv'
    BY <2>2, NextFits, NextRuns, Zenon DEF ProgramInv
  <2> QED BY <2>2, <2>3, Zenon DEF ProgramInv
<1> QED BY <1>1, <1>2, PTL DEF Spec

\* Whatever the calls, the data and the failures: between two operations no message is left in
\* a channel and both tasks wait, so OracleReader and HintWriter need no request ids.
THEOREM ChannelsInSync == Spec => []PipesInSync
<1>1. ProgramInv => PipesInSync
  BY Zenon DEF ProgramInv, IInv, PipesInSync, HintsQuiet, RequestsQuiet
<1>2. QED
  BY <1>1, Invariance, PTL

\* The program implements the safety part of the abstract oracle, which OracleServed states
\* together with its liveness: a request is answered only with a preimage of its own key, be it
\* from the cache, the store or the network, before and after operations that failed.
THEOREM ImplementsOracle == Spec => O!Safety
<1>1. Init => O!Init
  <2> SUFFICES ASSUME Init PROVE O!Init
    OBVIOUS
  <2>1. IInv /\ client # "failed" /\ answer = None
    BY InitIInv, Zenon DEF Init
  <2>2. Asked \in Keys \cup {None}
    BY <2>1, AskedRunning, Zenon
  <2>3. QED
    BY <2>1, <2>2, Zenon DEF O!Init
<1>2. ProgramInv /\ ProgramInv' /\ [Next]_vars => [O!Next]_<<Asked, answer>>
  BY StepRefines, Zenon DEF ProgramInv
<1>3. QED
  BY <1>1, <1>2, Invariance, PTL DEF Spec, O!Safety

\* The online host gives up on no key but a blob's, unless a proactive hint failed: keeping the
\* last hint only, and fetching it only on a miss, is enough for every sequence of calls.
THEOREM HintsEnough == Spec => []HintsSuffice
<1>1. ProgramInv => HintsSuffice
  BY Zenon DEF ProgramInv, HInv, HintsSuffice
<1> QED BY <1>1, Invariance, PTL

\* An answered account has not changed since the agreed block.
LEMMA AccountStep ==
  ASSUME IInv, TodoFits, [Next]_vars, answer' # answer, KeyType(answer'.key) = "L2AccountProof", ~stray'
  PROVE  answer'.value = AccountData(answer'.key[2], blocks - 1)
<1>0. ~Fail
  BY Zenon DEF Fail, Crash
<1>1. CacheHit \/ ReadLength \/ ReadData
  BY <1>0, Zenon DEF Next, Client, Router, Server, WriteHint, ReadAck, WriteKey, Panic, NextCall, Flush, ReadHint, RouteHint, ReadRequest,
         Fetch, FetchFails, Done, vars, clientVars, Crash
<1>2. client' = "ready"
  BY <1>0, <1>1, Zenon DEF CacheHit, ReadLength, ReadData, Crash, Answer
<1>3. PICK v \in Held(Op.key) : Answer(Op.key, v)
  BY <1>0, <1>1, <1>2, Answered, Zenon
<1>4. client # "failed" /\ ~stray /\ todo \in Seq(AllOps) /\ todo # <<>> /\ IsGet(Op)
  <2>1. client # "failed" /\ stray' = stray /\ todo \in Seq(AllOps) /\ todo # <<>> /\ IsGet(Op)
    BY <1>0, <1>1, <1>2, Answered, Zenon
  <2> QED BY <2>1
<1>5. answer' = [key |-> Op.key, value |-> v]
  BY <1>3, Zenon DEF Answer
<1>6. OpFits(Op, blocks)
  <2>1. 1 \in 1 .. Len(todo) /\ todo[1] = Op
    BY <1>4 DEF Op
  <2> QED BY <1>4, <2>1, Zenon DEF TodoFits
<1>7. blocks >= 1 /\ Op.key[2] \in Account \ Overlay(blocks) /\ KeyType(Op.key) = "L2AccountProof"
  BY <1>4, <1>5, <1>6, Zenon DEF OpFits
<1>8. v = AccountData(Op.key[2], 0)
  BY <1>3, <1>7, Zenon DEF Held
<1>9. blocks - 1 \in Nat /\ (blocks - 1) + 1 = blocks
  <2>1. blocks \in 0 .. L2Head
    BY <1>4, ZenonT(40) DEF IInv
  <2> QED BY <1>7, <2>1, WorldAssumption
<1>10. AccountData(Op.key[2], blocks - 1) = AccountData(Op.key[2], 0)
  BY <1>7, <1>9, Unchanged, Zenon
<1> QED BY <1>5, <1>8, <1>10, Zenon

\* The builder reads the account data of the block before the one it builds, although their key
\* names no block and the store and the cache keep the first answer for ever, as long as none
\* of its reads has failed.
THEOREM AccountsStayCurrent == Spec => AccountsCurrent
<1>1. ProgramInv /\ [Next]_vars =>
        [answer' # answer /\ KeyType(answer'.key) = "L2AccountProof" /\ ~stray'
           => answer'.value = AccountData(answer'.key[2], blocks - 1)]_vars
  BY AccountStep, Zenon DEF ProgramInv
<1> QED BY <1>1, Invariance, PTL DEF Spec, AccountsCurrent
=============================================================================
