-------------------------- MODULE L1ProviderProofs --------------------------
(***************************************************************************)
(* What L1Provider promises for every number of blocks, reorganisations,   *)
(* failures and calls, every concurrency level and every delay.            *)
(*                                                                         *)
(* The invariant has five parts: what the L1 node guarantees (NodeOk), the *)
(* caches (CacheOk), the published finalized block (PublishedOk), every    *)
(* call under way by itself (CallOk), and which calls the background       *)
(* thread has under way at each point of its loop (TaskOk).                *)
(***************************************************************************)
EXTENDS L1Provider, FiniteSetTheorems, TLAPS

Blocks == Nat \X Nat

NodeOk ==
  /\ chain \in Seq(Blocks) /\ \A i \in 1 .. Len(chain) : chain[i][1] = i - 1
  /\ forks \in Nat /\ safe \in Nat /\ finalized \in Nat
  /\ finalized <= safe /\ safe <= Latest

CacheOk ==
  /\ receipts_by_hash_cache \subseteq Blocks /\ block_info_by_number_cache \subseteq Blocks
  /\ CachedUnderFinalized

PublishedOk == latest_finalized # None => latest_finalized \in Blocks /\ latest_finalized[1] <= finalized

Fetches == {FETCH(h) : h \in Nat}
Names == {CLIENT, HEAD, SAFE, FINALIZED} \cup Fetches

CallRecords ==
  [op : {"number", "safe", "finalized", "receipts"}, arg : Nat \cup Blocks \cup {None},
   pc : {"lookup", "answered", "returned", "failed"}, block : Blocks \cup {None}]

HasBlock(k) == k.pc \in {"answered", "returned"}

\* The call k has the types its operation asks for.
CallTyped(k) ==
  /\ k \in CallRecords
  /\ k.op = "number" => k.arg \in Nat
  /\ k.op = "receipts" => k.arg \in Blocks
  /\ HasBlock(k) => k.block \in Blocks

\* A block that was safe when the node gave it stays on its chain.
Settled(b) == b \notin early => b[1] <= safe /\ OnChain(b)

AnswerSettled(k) ==
  HasBlock(k) =>
    /\ k.op = "finalized" => k.block[1] <= finalized
    /\ k.op # "receipts" => Settled(k.block)

\* The call k of pre_fetch_receipts for the height h asks for the block, then for its receipts.
FetchOk(h, k) ==
  /\ k.op \in {"number", "receipts"}
  /\ k.op = "number" => k.arg = h /\ k.pc # "returned"
  /\ k.op = "receipts" => k.arg[1] = h
  /\ HasBlock(k) => k.block[1] = h
  /\ k.pc = "returned" => k.block \in receipts_by_hash_cache

CallOk(c, k) ==
  /\ CallTyped(k) /\ AnswerSettled(k)
  /\ c = FINALIZED => k.op = "finalized"
  /\ c \in Fetches => FetchOk(c[2], k)

CallsOk == DOMAIN calls \subseteq Names /\ \A c \in DOMAIN calls : CallOk(c, calls[c])

TaskOk ==
  /\ task \in [pc : {"step", "head", "finalize", "publish", "prefetch", "exited"}, latest : Nat, height : Nat]
  /\ At("step") \/ At("exited") => Own = {}
  /\ At("head") => Own \subseteq {HEAD}
  /\ At("finalize") => Own = {} \/ (Own = {SAFE, FINALIZED} /\ finalize_due)
  /\ At("publish") => Own = {SAFE, FINALIZED} /\ Done(SAFE) /\ Done(FINALIZED)
  /\ At("prefetch") => Own = {} \/ Own = {FETCH(h) : h \in Heights}

IInv == NodeOk /\ CacheOk /\ PublishedOk /\ CallsOk /\ TaskOk
-----------------------------------------------------------------------------
\* The names of the calls differ, and only those of the fetches begin with "fetch".
LEMMA NamesDiffer ==
  /\ CLIENT # HEAD /\ CLIENT # SAFE /\ CLIENT # FINALIZED /\ HEAD # SAFE /\ HEAD # FINALIZED /\ SAFE # FINALIZED
  /\ CLIENT \notin Fetches /\ HEAD \notin Fetches /\ SAFE \notin Fetches /\ FINALIZED \notin Fetches
  /\ \A c \in Names : c[1] = "fetch" <=> c \in Fetches
  /\ \A h \in Nat : FETCH(h) \in Fetches /\ FETCH(h)[2] = h
  /\ \A c \in Fetches : c[2] \in Nat /\ c = FETCH(c[2])
  BY DEF CLIENT, HEAD, SAFE, FINALIZED, Fetches, FETCH, Names

\* The block the node has at a height of its chain.
LEMMA BlockAtOk ==
    ASSUME NodeOk, NEW n \in Nat, n <= Latest
    PROVE  BlockAt(n) \in Blocks /\ BlockAt(n)[1] = n /\ OnChain(BlockAt(n))
<1>1. n + 1 \in 1 .. Len(chain)
  BY DEF NodeOk, Latest
<1>2. chain[n + 1] \in Blocks /\ chain[n + 1][1] = n
  BY <1>1 DEF NodeOk
<1> QED BY <1>2 DEF BlockAt, OnChain

\* A new block leaves the chain below it as it is.
LEMMA MineOk ==
    ASSUME IInv, Mine
    PROVE  NodeOk' /\ \A b \in Blocks : OnChain(b) => OnChain(b)'
<1> DEFINE b == <<Len(chain), forks>>
<1>1. chain \in Seq(Blocks) /\ Len(chain) \in Nat /\ forks \in Nat /\ b \in Blocks /\ b[1] = Len(chain)
  BY DEF IInv, NodeOk, Blocks
<1>2. /\ chain' \in Seq(Blocks) /\ Len(chain') = Len(chain) + 1
      /\ \A i \in 1 .. Len(chain) : chain'[i] = chain[i]
      /\ chain'[Len(chain) + 1] = b
  BY <1>1 DEF Mine
<1>3. ASSUME NEW i \in 1 .. Len(chain') PROVE chain'[i][1] = i - 1
  <2>1. CASE i \in 1 .. Len(chain)
    <3>1. chain'[i] = chain[i] /\ chain[i][1] = i - 1
      BY <1>2, <2>1 DEF IInv, NodeOk
    <3> QED BY <3>1
  <2>2. CASE i = Len(chain) + 1
    BY <1>1, <1>2, <2>2
  <2> QED BY <1>1, <1>2, <2>1, <2>2
<1>4. NodeOk'
  BY <1>1, <1>2, <1>3 DEF Mine, IInv, NodeOk, Latest
<1>5. ASSUME NEW x \in Blocks, OnChain(x) PROVE OnChain(x)'
  <2>1. x[1] \in Nat /\ x[1] <= Len(chain) - 1 /\ chain[x[1] + 1] = x
    BY <1>5 DEF OnChain, BlockAt, Latest, Blocks
  <2>2. x[1] <= Len(chain') - 1 /\ chain'[x[1] + 1] = x
    BY <2>1, <1>1, <1>2
  <2> QED BY <2>2 DEF OnChain, BlockAt, Latest
<1> QED BY <1>4, <1>5

\* A reorganisation above the safe block leaves the chain up to the safe block as it is.
LEMMA ReorganiseOk ==
    ASSUME IInv, NEW n \in safe .. Latest, Reorganise(n)
    PROVE  NodeOk' /\ \A b \in Blocks : OnChain(b) /\ b[1] <= safe => OnChain(b)'
<1> DEFINE b == <<n + 1, forks + 1>>
           kept == SubSeq(chain, 1, n + 1)
<1>1. /\ chain \in Seq(Blocks) /\ Len(chain) \in Nat /\ forks \in Nat /\ safe \in Nat /\ n \in Nat
      /\ n + 1 < Len(chain) /\ safe <= n /\ b \in Blocks /\ b[1] = n + 1
  <2>1. /\ chain \in Seq(Blocks) /\ Len(chain) \in Nat /\ forks \in Nat /\ safe \in Nat /\ n < Latest
    BY DEF IInv, NodeOk, Reorganise
  <2>2. n \in Nat /\ n + 1 < Len(chain) /\ safe <= n
    BY <2>1 DEF Latest
  <2> QED BY <2>1, <2>2 DEF Blocks
<1>2. kept \in Seq(Blocks) /\ Len(kept) = n + 1 /\ \A i \in 1 .. n + 1 : kept[i] = chain[i]
  BY <1>1
<1>3. chain' = Append(kept, b)
  BY DEF Reorganise
<1> HIDE DEF kept, b
<1>4. /\ chain' \in Seq(Blocks) /\ Len(chain') = n + 2
      /\ \A i \in 1 .. n + 1 : chain'[i] = chain[i]
      /\ chain'[n + 2] = b
  BY <1>1, <1>2, <1>3
<1>5. \A i \in 1 .. Len(chain') : chain'[i][1] = i - 1
  BY <1>1, <1>4 DEF IInv, NodeOk
<1>6. NodeOk'
  BY <1>1, <1>4, <1>5 DEF Reorganise, IInv, NodeOk, Latest
<1>7. ASSUME NEW x \in Blocks, OnChain(x), x[1] <= safe PROVE OnChain(x)'
  <2>1. x[1] \in Nat /\ chain[x[1] + 1] = x
    BY <1>7 DEF OnChain, BlockAt, Blocks
  <2>2. x[1] <= Len(chain') - 1 /\ chain'[x[1] + 1] = x
    BY <2>1, <1>1, <1>4, <1>7
  <2> QED BY <2>2 DEF OnChain, BlockAt, Latest
<1> QED BY <1>6, <1>7

\* A change of the chain above the safe block disturbs nothing else.
LEMMA ChainMoves ==
    ASSUME IInv, UNCHANGED <<safe, finalized, caches, published, background, calls, early>>, NodeOk',
           \A b \in Blocks : OnChain(b) /\ b[1] <= safe => OnChain(b)'
    PROVE  IInv'
<1>0. \A b \in Blocks : b[1] <= finalized => b[1] <= safe
  BY DEF IInv, NodeOk, Blocks
<1>1. CacheOk'
  BY <1>0 DEF IInv, CacheOk, CachedUnderFinalized, caches
<1>2. PublishedOk'
  BY DEF IInv, PublishedOk, published
<1>3. ASSUME NEW c \in DOMAIN calls PROVE CallOk(c, calls[c])'
  <2>1. CallTyped(calls[c]) /\ AnswerSettled(calls[c])
    BY DEF IInv, CallsOk, CallOk
  <2>2. AnswerSettled(calls[c])'
    BY <2>1 DEF CallTyped, AnswerSettled, Settled, HasBlock
  <2> QED BY <2>2 DEF IInv, CallsOk, CallOk, CallTyped, HasBlock, FetchOk, caches
<1>4. TaskOk'
  BY DEF IInv, TaskOk, background, At, Own, Done, Heights
<1> QED BY <1>1, <1>2, <1>3, <1>4 DEF IInv, CallsOk

\* The L1 node mines, reorganises and finalizes.
LEMMA L1NodeOk ==
    ASSUME IInv, L1Node
    PROVE  IInv'
<1>1. CASE Mine
  <2>1. UNCHANGED <<safe, finalized, caches, published, background, calls, early>>
    BY <1>1 DEF Mine, bounds
  <2> QED BY <1>1, <2>1, MineOk, ChainMoves
<1>2. ASSUME NEW n \in safe .. Latest, Reorganise(n) PROVE IInv'
  <2>1. UNCHANGED <<safe, finalized, caches, published, background, calls, early>>
    BY <1>2 DEF Reorganise, bounds
  <2> QED BY <1>2, <2>1, ReorganiseOk, ChainMoves
<1>3. ASSUME NEW s \in 1 .. Latest, Justify(s) PROVE IInv'
  <2>1. /\ safe < s /\ s <= Latest /\ safe' = s /\ finalized' = safe /\ finalized <= safe
        /\ finalized \in Nat /\ safe \in Nat /\ Latest \in Nat
        /\ UNCHANGED <<chain, forks, caches, published, background, calls, early>>
    BY <1>3 DEF Justify, IInv, NodeOk, Latest, bounds
  <2>2. NodeOk'
    BY <2>1 DEF IInv, NodeOk, Latest
  <2>3. CacheOk'
    BY <2>1 DEF IInv, CacheOk, CachedUnderFinalized, OnChain, BlockAt, Latest, caches, Blocks
  <2>4. PublishedOk'
    BY <2>1 DEF IInv, PublishedOk, published, Blocks
  <2>5. ASSUME NEW c \in DOMAIN calls PROVE CallOk(c, calls[c])'
    <3>1. CallTyped(calls[c]) /\ AnswerSettled(calls[c])
      BY DEF IInv, CallsOk, CallOk
    <3>2. AnswerSettled(calls[c])'
      BY <2>1, <3>1 DEF CallTyped, AnswerSettled, Settled, HasBlock, OnChain, BlockAt, Latest, Blocks
    <3> QED BY <2>1, <3>2 DEF IInv, CallsOk, CallOk, CallTyped, HasBlock, FetchOk, caches
  <2>6. TaskOk'
    BY <2>1 DEF IInv, TaskOk, background, At, Own, Done, Heights
  <2> QED BY <2>1, <2>2, <2>3, <2>4, <2>5, <2>6 DEF IInv, CallsOk
<1> QED BY <1>1, <1>2, <1>3 DEF L1Node
-----------------------------------------------------------------------------
\* One call changes: the others, and the thread, are not disturbed.
LEMMA OneCallMoves ==
    ASSUME IInv, NEW c \in Names, UNCHANGED <<l1, published, background>>, early \subseteq early', CacheOk',
           receipts_by_hash_cache \subseteq receipts_by_hash_cache',
           DOMAIN calls' = DOMAIN calls \cup {c}, CallOk(c, calls[c])',
           \A d \in DOMAIN calls : d # c => calls'[d] = calls[d],
           c = CLIENT \/ (c \in DOMAIN calls /\ ~Done(c))
    PROVE  IInv'
<1>1. NodeOk' /\ PublishedOk'
  BY DEF IInv, NodeOk, PublishedOk, l1, published, Latest
<1>2. ASSUME NEW d \in DOMAIN calls, d # c PROVE CallOk(d, calls[d])'
  BY <1>2 DEF IInv, CallsOk, CallOk, CallTyped, HasBlock, FetchOk, AnswerSettled, Settled, OnChain, BlockAt, Latest, l1
<1>3. CallsOk'
  BY <1>2 DEF IInv, CallsOk
<1>4. TaskOk'
  <2>1. Own' = Own
    BY DEF Own
  <2>2. task' = task /\ finalize_due' = finalize_due /\ Heights' = Heights
    BY DEF background, Heights
  <2>3. \A d \in {SAFE, FINALIZED} : Done(d) => Done(d)'
    BY NamesDiffer DEF Done
  <2> QED BY <2>1, <2>2, <2>3 DEF IInv, TaskOk, At
<1> QED BY <1>1, <1>3, <1>4 DEF IInv

\* Calls that end, or are dropped with their step, take nothing with them.
LEMMA EndedOk ==
    ASSUME CallsOk, NEW S, calls' = Ended(S), UNCHANGED <<l1, early>>,
           receipts_by_hash_cache \subseteq receipts_by_hash_cache'
    PROVE  /\ CallsOk'
           /\ DOMAIN calls' = DOMAIN calls \ S
           /\ \A c \in DOMAIN calls' : calls'[c] = calls[c]
<1>1. DOMAIN calls' = DOMAIN calls \ S /\ \A c \in DOMAIN calls' : calls'[c] = calls[c]
  BY DEF Ended
<1>2. ASSUME NEW d \in DOMAIN calls' PROVE CallOk(d, calls[d])'
  BY <1>1 DEF CallsOk, CallOk, CallTyped, HasBlock, FetchOk, AnswerSettled, Settled, OnChain, BlockAt, Latest, l1
<1> QED BY <1>1, <1>2 DEF CallsOk

\* A call has its block: the client's ends, a fetch goes on to the receipts, others return it.
LEMMA ReturnedOk ==
    ASSUME IInv, NEW c \in DOMAIN calls, ~Done(c), NEW b \in Blocks, calls' = Returned(c, b),
           UNCHANGED <<l1, published, background, early>>, CacheOk',
           receipts_by_hash_cache \subseteq receipts_by_hash_cache',
           calls[c].op = "finalized" => b[1] <= finalized,
           calls[c].op # "receipts" => Settled(b),
           calls[c].op = "receipts" => b \in receipts_by_hash_cache',
           c \in Fetches => b[1] = c[2]
    PROVE  IInv'
<1>1. c \in Names /\ CallOk(c, calls[c])
  BY DEF IInv, CallsOk
<1>2. \A x \in Blocks : OnChain(x)' <=> OnChain(x)
  BY DEF OnChain, BlockAt, Latest, l1
<1>3. finalized' = finalized /\ safe' = safe
  BY DEF l1
<1>4. CASE c = CLIENT
  <2>1. calls' = Ended({CLIENT})
    BY <1>4 DEF Returned
  <2>2. CallsOk' /\ Own' = Own /\ \A d \in Own : calls'[d] = calls[d]
    BY <2>1, EndedOk DEF IInv, Own
  <2>3. NodeOk' /\ PublishedOk'
    BY DEF IInv, NodeOk, PublishedOk, l1, published, Latest
  <2>4. Done(SAFE) => Done(SAFE)'
    BY <2>1, NamesDiffer DEF Done, Ended
  <2>5. Done(FINALIZED) => Done(FINALIZED)'
    BY <2>1, NamesDiffer DEF Done, Ended
  <2>6. TaskOk'
    BY <2>2, <2>4, <2>5 DEF IInv, TaskOk, At, Heights, background
  <2> QED BY <2>2, <2>3, <2>6 DEF IInv
<1>5. CASE c # CLIENT /\ c[1] = "fetch" /\ calls[c].op = "number"
  <2> DEFINE k == Call("receipts", b)
  <2>1. calls' = With(c, k)
    BY <1>5 DEF Returned
  <2>2. /\ DOMAIN calls' = DOMAIN calls \cup {c} /\ calls'[c] = k
        /\ \A d \in DOMAIN calls : d # c => calls'[d] = calls[d]
    BY <2>1 DEF With
  <2>3. /\ k \in CallRecords /\ k.op = "receipts" /\ k.pc = "lookup" /\ k.arg = b
    BY DEF Call, CallRecords
  <2> HIDE DEF k
  <2>4. c # FINALIZED /\ c \in Fetches
    BY <1>1, <1>5, NamesDiffer
  <2>5. CallOk(c, calls[c])'
    BY <2>2, <2>3, <2>4 DEF CallOk, CallTyped, AnswerSettled, HasBlock, FetchOk
  <2> QED BY <1>1, <2>2, <2>5, OneCallMoves
<1>6. CASE c # CLIENT /\ ~(c[1] = "fetch" /\ calls[c].op = "number")
  <2> DEFINE k == [calls[c] EXCEPT !.pc = "returned", !.block = b]
  <2>1. calls' = With(c, k)
    BY <1>6 DEF Returned
  <2>2. /\ DOMAIN calls' = DOMAIN calls \cup {c} /\ calls'[c] = k
        /\ \A d \in DOMAIN calls : d # c => calls'[d] = calls[d]
    BY <2>1 DEF With
  <2>3. /\ k \in CallRecords /\ k.op = calls[c].op /\ k.pc = "returned" /\ k.arg = calls[c].arg /\ k.block = b
    BY <1>1 DEF CallOk, CallTyped, CallRecords
  <2> HIDE DEF k
  <2>4. CallTyped(calls[c])' /\ (c = FINALIZED => calls'[c].op = "finalized")
    BY <1>1, <2>2, <2>3 DEF CallOk, CallTyped, HasBlock
  <2>5. AnswerSettled(calls[c])'
    BY <1>2, <1>3, <2>2, <2>3 DEF AnswerSettled, Settled, HasBlock
  <2>6. c \in Fetches => FetchOk(c[2], calls[c])'
    BY <1>1, <1>6, <2>2, <2>3, NamesDiffer DEF CallOk, FetchOk, HasBlock
  <2>7. CallOk(c, calls[c])'
    BY <2>4, <2>5, <2>6 DEF CallOk
  <2> QED BY <1>1, <2>2, <2>7, OneCallMoves
<1> QED BY <1>4, <1>5, <1>6

\* A step of a call: it finds its block in a cache, asks the node, fails, or stores its answer.
LEMMA CallStepOk ==
    ASSUME IInv, NEW c \in DOMAIN calls, CallStep(c)
    PROVE  IInv'
<1>1. c \in Names /\ CallOk(c, calls[c]) /\ CallTyped(calls[c])
  BY DEF IInv, CallsOk, CallOk
<1>2. CASE CacheHit(c)
  <2>1. PICK b \in Cached(calls[c]) : calls' = Returned(c, b)
    BY <1>2 DEF CacheHit
  <2>2. calls[c].pc = "lookup" /\ UNCHANGED <<l1, caches, published, background, early>>
    BY <1>2 DEF CacheHit, bounds
  <2>3. \/ calls[c].op = "number" /\ b \in block_info_by_number_cache /\ b[1] = calls[c].arg
        \/ calls[c].op = "receipts" /\ b \in receipts_by_hash_cache /\ b = calls[c].arg
    BY <1>1, <2>1 DEF Cached, CallTyped, CallRecords
  <2>4. b \in Blocks
    BY <2>3 DEF IInv, CacheOk
  <2>5. CacheOk' /\ receipts_by_hash_cache' = receipts_by_hash_cache
    BY <2>2 DEF IInv, CacheOk, CachedUnderFinalized, OnChain, BlockAt, Latest, caches, l1
  <2>6. calls[c].op # "receipts" => Settled(b) /\ b[1] <= finalized
    BY <2>3, <2>4 DEF IInv, CacheOk, CachedUnderFinalized, Settled, NodeOk, Blocks
  <2>7. c \in Fetches => b[1] = c[2]
    BY <1>1, <2>3 DEF CallOk, FetchOk
  <2>8. ~Done(c)
    BY <2>2 DEF Done
  <2> QED BY <2>1, <2>2, <2>3, <2>4, <2>5, <2>6, <2>7, <2>8, ReturnedOk
<1>3. CASE Ask(c)
  <2>1. PICK b \in Found(calls[c]) : calls' = With(c, [calls[c] EXCEPT !.pc = "answered", !.block = b]) /\ Early(b)
    BY <1>3 DEF Ask
  <2>2. calls[c].pc = "lookup" /\ UNCHANGED <<l1, caches, published, background>>
    BY <1>3 DEF Ask
  <2>3. /\ calls[c].op = "number" => calls[c].arg <= Latest /\ b = BlockAt(calls[c].arg)
        /\ calls[c].op = "safe" => b = BlockAt(safe)
        /\ calls[c].op = "finalized" => b = BlockAt(finalized)
        /\ calls[c].op = "receipts" => b = calls[c].arg /\ OnChain(b)
    BY <1>1, <2>1 DEF Found, CallTyped, CallRecords
  <2>4. /\ b \in Blocks /\ OnChain(b)
        /\ calls[c].op = "number" => b[1] = calls[c].arg
        /\ calls[c].op = "finalized" => b[1] = finalized
    <3>1. NodeOk /\ safe \in Nat /\ finalized \in Nat /\ safe <= Latest /\ finalized <= Latest
      BY DEF IInv, NodeOk, Latest
    <3>2. calls[c].op \in {"number", "safe", "finalized", "receipts"}
      BY <1>1 DEF CallTyped, CallRecords
    <3> QED BY <1>1, <2>3, <3>1, <3>2, BlockAtOk DEF CallTyped
  <2>5. /\ DOMAIN calls' = DOMAIN calls \cup {c} /\ \A d \in DOMAIN calls : d # c => calls'[d] = calls[d]
        /\ calls'[c] \in CallRecords /\ calls'[c].op = calls[c].op /\ calls'[c].arg = calls[c].arg
        /\ calls'[c].pc = "answered" /\ calls'[c].block = b
    BY <1>1, <2>1, <2>4 DEF With, CallTyped, CallRecords
  <2>6. CallTyped(calls[c])' /\ (c = FINALIZED => calls'[c].op = "finalized")
    BY <1>1, <2>4, <2>5 DEF CallOk, CallTyped, HasBlock
  <2>7. AnswerSettled(calls[c])'
    <3>1. Settled(b)'
      BY <2>1, <2>2, <2>4 DEF Settled, Early, OnChain, BlockAt, Latest, l1, IInv, NodeOk, Blocks
    <3> QED BY <2>2, <2>4, <2>5, <3>1 DEF AnswerSettled, Settled, l1, IInv, NodeOk
  <2>8. c \in Fetches => FetchOk(c[2], calls[c])'
    BY <1>1, <2>3, <2>4, <2>5 DEF CallOk, FetchOk, HasBlock
  <2>9. CallOk(c, calls[c])'
    BY <2>6, <2>7, <2>8 DEF CallOk
  <2>10. CacheOk' /\ receipts_by_hash_cache' = receipts_by_hash_cache /\ ~Done(c) /\ early \subseteq early'
    BY <2>1, <2>2 DEF Early, IInv, CacheOk, CachedUnderFinalized, OnChain, BlockAt, Latest, caches, l1, Done
  <2> QED BY <1>1, <2>2, <2>5, <2>9, <2>10, OneCallMoves
<1>4. CASE AskFails(c)
  <2>1. calls[c].pc = "lookup" /\ UNCHANGED <<l1, caches, published, background, early>>
    BY <1>4 DEF AskFails
  <2>2. /\ DOMAIN calls' = DOMAIN calls \cup {c} /\ \A d \in DOMAIN calls : d # c => calls'[d] = calls[d]
        /\ calls'[c] \in CallRecords /\ calls'[c].op = calls[c].op /\ calls'[c].arg = calls[c].arg
        /\ calls'[c].pc = "failed"
    BY <1>1, <1>4 DEF AskFails, With, CallTyped, CallRecords
  <2>3. CallOk(c, calls[c])'
    BY <1>1, <2>2 DEF CallOk, CallTyped, AnswerSettled, HasBlock, FetchOk
  <2>4. CacheOk' /\ receipts_by_hash_cache' = receipts_by_hash_cache /\ ~Done(c)
    BY <2>1 DEF IInv, CacheOk, CachedUnderFinalized, OnChain, BlockAt, Latest, caches, l1, Done
  <2> QED BY <1>1, <2>1, <2>2, <2>3, <2>4, OneCallMoves
<1>5. CASE Answered(c)
  <2> DEFINE b == calls[c].block
  <2>1. /\ calls[c].pc = "answered" /\ calls' = Returned(c, b) /\ ~Done(c)
        /\ UNCHANGED <<l1, published, background, early>>
    BY <1>5 DEF Answered, Done, bounds
  <2>2. b \in Blocks /\ AnswerSettled(calls[c]) /\ HasBlock(calls[c])
    BY <1>1, <2>1 DEF CallOk, CallTyped, HasBlock
  <2>3. /\ receipts_by_hash_cache' \subseteq Blocks
        /\ receipts_by_hash_cache \subseteq receipts_by_hash_cache'
        /\ calls[c].op = "receipts" => b \in receipts_by_hash_cache'
    BY <1>5, <2>2 DEF Answered, Put, IInv, CacheOk
  <2>4. FinalizedNumber \in Nat /\ FinalizedNumber <= finalized
    BY DEF FinalizedNumber, IInv, PublishedOk, Blocks, NodeOk
  <2>5. ASSUME NEW x \in block_info_by_number_cache'
        PROVE  x \in Blocks /\ x[1] <= finalized /\ (x \notin early => OnChain(x))
    <3>1. CASE x \in block_info_by_number_cache
      BY <3>1 DEF IInv, CacheOk, CachedUnderFinalized
    <3>2. CASE x \notin block_info_by_number_cache
      <4>1. x = b /\ calls[c].op # "receipts" /\ FinalizedNumber >= b[1]
        BY <1>5, <3>2 DEF Answered, CacheBlockInfo, PutNumber
      <4>2. b[1] <= finalized
        BY <2>2, <2>4, <4>1 DEF IInv, NodeOk, Blocks
      <4> QED BY <2>2, <4>1, <4>2 DEF AnswerSettled, Settled
    <3> QED BY <3>1, <3>2
  <2>6. CacheOk'
    BY <2>1, <2>3, <2>5 DEF CacheOk, CachedUnderFinalized, OnChain, BlockAt, Latest, l1
  <2>7. c \in Fetches => b[1] = c[2]
    BY <1>1, <2>2 DEF CallOk, FetchOk
  <2> QED BY <2>1, <2>2, <2>3, <2>6, <2>7, ReturnedOk DEF AnswerSettled
<1> QED BY <1>2, <1>3, <1>4, <1>5 DEF CallStep
-----------------------------------------------------------------------------
\* A client asks for a block by its number.
LEMMA ClientCallsOk ==
    ASSUME IInv, ClientCalls
    PROVE  IInv'
<1>1. PICK n \in 0 .. Latest :
        /\ calls' = With(CLIENT, [Call("number", n) EXCEPT !.pc = "answered", !.block = BlockAt(n)])
        /\ Early(BlockAt(n))
  BY DEF ClientCalls
<1>2. n \in Nat /\ BlockAt(n) \in Blocks /\ OnChain(BlockAt(n))
  <2>1. n \in Nat /\ n <= Latest
    BY DEF IInv, NodeOk, Latest
  <2> QED BY <2>1, BlockAtOk DEF IInv
<1>3. UNCHANGED <<l1, caches, published, background>> /\ early \subseteq early'
  BY <1>1 DEF ClientCalls, Early
<1>4. /\ DOMAIN calls' = DOMAIN calls \cup {CLIENT}
      /\ \A d \in DOMAIN calls : d # CLIENT => calls'[d] = calls[d]
      /\ calls'[CLIENT] \in CallRecords /\ calls'[CLIENT].op = "number" /\ calls'[CLIENT].arg = n
      /\ calls'[CLIENT].pc = "answered" /\ calls'[CLIENT].block = BlockAt(n)
  BY <1>1, <1>2 DEF With, Call, CallRecords
<1>5. AnswerSettled(calls[CLIENT])'
  <2>1. Settled(BlockAt(n))'
    BY <1>1, <1>2, <1>3 DEF Settled, Early, OnChain, BlockAt, Latest, l1, IInv, NodeOk, Blocks
  <2> QED BY <1>3, <1>4, <2>1 DEF AnswerSettled, Settled, OnChain, BlockAt, Latest, l1
<1>6. CallOk(CLIENT, calls[CLIENT])'
  BY <1>2, <1>4, <1>5, NamesDiffer DEF CallOk, CallTyped, HasBlock
<1>7. CacheOk' /\ receipts_by_hash_cache' = receipts_by_hash_cache /\ CLIENT \in Names
  BY <1>3 DEF IInv, CacheOk, CachedUnderFinalized, OnChain, BlockAt, Latest, caches, l1, Names
<1> QED BY <1>3, <1>4, <1>6, <1>7, OneCallMoves

\* What a step leaves as it is when it touches neither the node nor the caches.
LEMMA Untouched ==
    ASSUME IInv, UNCHANGED <<l1, caches, early>>
    PROVE  /\ NodeOk' /\ CacheOk'
           /\ UNCHANGED latest_finalized => PublishedOk'
           /\ UNCHANGED calls => CallsOk' /\ Own' = Own
<1>1. NodeOk' /\ CacheOk'
  BY DEF IInv, NodeOk, CacheOk, CachedUnderFinalized, OnChain, BlockAt, Latest, caches, l1
<1>2. UNCHANGED latest_finalized => PublishedOk'
  BY DEF IInv, PublishedOk, l1
<1>3. UNCHANGED calls => CallsOk' /\ Own' = Own
  BY DEF IInv, CallsOk, CallOk, CallTyped, HasBlock, FetchOk, AnswerSettled, Settled, OnChain, BlockAt, Latest, l1, caches, Own
<1> QED BY <1>1, <1>2, <1>3

\* A call that is left alone stays as it should be.
LEMMA CallKept ==
    ASSUME CallsOk, UNCHANGED <<l1, caches, early>>, NEW d \in DOMAIN calls, calls'[d] = calls[d]
    PROVE  CallOk(d, calls[d])'
<1>1. CallOk(d, calls[d]) /\ OnChain(calls[d].block)' = OnChain(calls[d].block)
  BY DEF CallsOk, OnChain, BlockAt, Latest, l1
<1>2. CallTyped(calls[d])' /\ AnswerSettled(calls[d])'
  BY <1>1 DEF CallOk, CallTyped, AnswerSettled, Settled, HasBlock, OnChain, BlockAt, Latest, l1
<1>3. d \in Fetches => FetchOk(d[2], calls[d])'
  BY <1>1 DEF CallOk, FetchOk, HasBlock, caches
<1> QED BY <1>1, <1>2, <1>3 DEF CallOk

\* A call that has just been made.
LEMMA NewCallOk ==
    ASSUME NEW c, NEW op \in {"number", "safe", "finalized"}, NEW arg \in Nat \cup {None},
           calls'[c] = Call(op, arg), op = "number" => arg \in Nat,
           c = FINALIZED => op = "finalized",
           c \in Fetches => op = "number" /\ arg = c[2]
    PROVE  CallOk(c, calls[c])'
<1>1. /\ calls'[c] \in CallRecords
      /\ calls'[c].op = op /\ calls'[c].arg = arg /\ calls'[c].pc = "lookup"
  BY DEF Call, CallRecords
<1>2. ~HasBlock(calls[c])'
  BY <1>1 DEF HasBlock
<1>3. CallTyped(calls[c])' /\ AnswerSettled(calls[c])'
  BY <1>1, <1>2 DEF CallTyped, AnswerSettled
<1>4. c \in Fetches => FetchOk(c[2], calls[c])'
  BY <1>1, <1>2 DEF FetchOk
<1> QED BY <1>1, <1>3, <1>4 DEF CallOk

\* The step of the thread has ended, or has failed.
LEMMA LoopedOk ==
    ASSUME TaskOk, Looped, Own' = {}
    PROVE  TaskOk'
<1>1. PICK exit \in BOOLEAN : task' = [task EXCEPT !.pc = IF exit THEN "exited" ELSE "step"]
  BY DEF Looped, Go
<1> QED BY <1>1 DEF TaskOk, At

\* The names of the calls that fetch the heights of a step.
LEMMA FetchNames ==
    ASSUME TaskOk
    PROVE  /\ {FETCH(h) : h \in Heights} \subseteq Fetches
           /\ Heights \subseteq Nat
  BY DEF TaskOk, Heights, Fetches, At

\* There is one call for each height of a step.
LEMMA StepNamesFinite ==
    ASSUME TaskOk
    PROVE  /\ IsFiniteSet({FETCH(h) : h \in Heights}) /\ IsFiniteSet(Heights)
           /\ Cardinality({FETCH(h) : h \in Heights}) = Cardinality(Heights)
<1> DEFINE F == {FETCH(h) : h \in Heights}
           f == [h \in Heights |-> FETCH(h)]
<1>1. IsFiniteSet(Heights)
  <2> DEFINE top == (IF task.latest - task.height > Concurrency THEN task.height + Concurrency ELSE task.latest) - 1
  <2>1. task.height \in Int /\ top \in Int
    BY L1ProviderAssumption DEF TaskOk
  <2> HIDE DEF top
  <2>2. IsFiniteSet(task.height .. top)
    BY <2>1, FS_Interval
  <2> QED BY <2>2 DEF Heights, top
<1>2. \A g, h \in Heights : FETCH(g) = FETCH(h) => g = h
  BY FetchNames, NamesDiffer
<1>3. f \in Bijection(Heights, F)
  BY <1>2 DEF Bijection, Injection, Surjection, IsInjective
<1> HIDE DEF f, F
<1>4. IsFiniteSet(F) /\ Cardinality(F) = Cardinality(Heights)
  BY <1>1, <1>3, FS_Bijection DEF ExistsBijection
<1> QED BY <1>1, <1>4 DEF F

\* A step of the background thread.
LEMMA BackgroundOk ==
    ASSUME IInv, Background
    PROVE  IInv'
<1> USE DEF At, Go
<1>1. TaskOk /\ CallsOk
  BY DEF IInv
<1>2. CASE BlockNumber
  <2>1. UNCHANGED <<l1, caches, early, latest_finalized, calls>>
    BY <1>2 DEF BlockNumber, published, bounds
  <2>2. Latest \in Nat
    BY DEF IInv, NodeOk, Latest
  <2>3. TaskOk'
    BY <1>1, <1>2, <2>1, <2>2, Untouched DEF BlockNumber, TaskOk
  <2> QED BY <2>1, <2>3, Untouched DEF IInv
<1>3. CASE BlockNumberFails
  <2>1. UNCHANGED <<l1, caches, early, latest_finalized, calls>> /\ Looped
    BY <1>3 DEF BlockNumberFails, published, bounds
  <2>2. Own' = {}
    BY <1>1, <1>3, <2>1, Untouched DEF BlockNumberFails, TaskOk
  <2> QED BY <1>1, <2>1, <2>2, LoopedOk, Untouched DEF IInv
<1>4. CASE AskHead
  <2> DEFINE n == IF task.latest > Delay THEN task.latest - Delay ELSE 0
  <2>1. UNCHANGED <<l1, caches, early, latest_finalized, task>>
    BY <1>4 DEF AskHead, published, background, bounds
  <2>2. n \in Nat
    BY <1>1, L1ProviderAssumption DEF TaskOk
  <2>3. /\ DOMAIN calls' = DOMAIN calls \cup {HEAD}
        /\ \A d \in DOMAIN calls : d # HEAD => calls'[d] = calls[d]
        /\ calls'[HEAD] = Call("number", n)
    BY <1>4 DEF AskHead, With
  <2> HIDE DEF n
  <2>4. CallOk(HEAD, calls[HEAD])'
    BY <2>2, <2>3, NamesDiffer DEF CallOk, CallTyped, AnswerSettled, HasBlock, Call, CallRecords
  <2>5. CallsOk'
    <3>1. \A d \in DOMAIN calls : d # HEAD => CallOk(d, calls[d])'
      BY <1>1, <2>1, <2>3, CallKept
    <3>2. DOMAIN calls' \subseteq Names
      BY <1>1, <2>3 DEF CallsOk, Names
    <3> QED BY <2>3, <2>4, <3>1, <3>2 DEF CallsOk
  <2>6. Own' = {HEAD}
    BY <1>4, <2>3, NamesDiffer DEF AskHead, Own
  <2>7. TaskOk'
    BY <1>1, <1>4, <2>1, <2>6 DEF AskHead, TaskOk
  <2> QED BY <2>1, <2>5, <2>7, Untouched DEF IInv
<1>5. CASE PublishHead
  <2>1. UNCHANGED <<l1, caches, early, latest_finalized>> /\ calls' = Ended({HEAD})
    BY <1>5 DEF PublishHead, bounds
  <2>2. CallsOk' /\ Own' = Own \ {HEAD}
    BY <1>1, <2>1, EndedOk DEF Own, caches
  <2>3. TaskOk'
    BY <1>1, <1>5, <2>2 DEF PublishHead, TaskOk
  <2> QED BY <2>1, <2>2, <2>3, Untouched DEF IInv
<1>6. CASE AskFinalized
  <2>1. UNCHANGED <<l1, caches, early, latest_finalized, task, finalize_due>>
    BY <1>6 DEF AskFinalized, published, background, bounds
  <2>2. /\ DOMAIN calls' = DOMAIN calls \cup {SAFE, FINALIZED}
        /\ \A d \in DOMAIN calls : d # SAFE /\ d # FINALIZED => calls'[d] = calls[d]
        /\ calls'[SAFE] = Call("safe", None) /\ calls'[FINALIZED] = Call("finalized", None)
    BY <1>6, NamesDiffer DEF AskFinalized
  <2>3. CallOk(SAFE, calls[SAFE])'
    BY <2>2, NamesDiffer, NewCallOk
  <2>4. CallOk(FINALIZED, calls[FINALIZED])'
    BY <2>2, NamesDiffer, NewCallOk
  <2>5. CallsOk'
    <3>1. \A d \in DOMAIN calls : d # SAFE /\ d # FINALIZED => CallOk(d, calls[d])'
      BY <1>1, <2>1, <2>2, CallKept
    <3>2. DOMAIN calls' \subseteq Names
      BY <1>1, <2>2 DEF CallsOk, Names
    <3> QED BY <2>2, <2>3, <2>4, <3>1, <3>2 DEF CallsOk
  <2>6. Own' = {SAFE, FINALIZED}
    BY <1>6, <2>2, NamesDiffer DEF AskFinalized, Own
  <2>7. TaskOk'
    BY <1>1, <1>6, <2>1, <2>6 DEF AskFinalized, TaskOk
  <2> QED BY <2>1, <2>5, <2>7, Untouched DEF IInv
<1>7. CASE PublishSafe
  <2>1. UNCHANGED <<l1, caches, early, latest_finalized, calls>>
    BY <1>7 DEF PublishSafe, bounds
  <2>2. Own' = {SAFE, FINALIZED} /\ Done(SAFE)' /\ Done(FINALIZED)'
    <3>1. Own = {SAFE, FINALIZED} /\ Done(SAFE) /\ Done(FINALIZED)
      <4>1. Own # {}
        BY <1>7, NamesDiffer DEF PublishSafe, Done, Own
      <4> QED BY <1>1, <1>7, <4>1 DEF PublishSafe, TaskOk
    <3>2. Own' = Own
      BY <2>1, Untouched
    <3> QED BY <2>1, <3>1, <3>2 DEF Done
  <2>3. TaskOk'
    BY <1>1, <1>7, <2>2 DEF PublishSafe, TaskOk
  <2> QED BY <2>1, <2>3, Untouched DEF IInv
<1>8. CASE PublishFinalized
  <2>1. UNCHANGED <<l1, caches, early>> /\ calls' = Ended({SAFE, FINALIZED}) /\ latest_finalized' = calls[FINALIZED].block
    BY <1>8 DEF PublishFinalized, bounds
  <2>2. CallsOk' /\ Own' = {}
    <3>1. Own = {SAFE, FINALIZED}
      BY <1>1, <1>8 DEF PublishFinalized, TaskOk
    <3>2. CallsOk' /\ DOMAIN calls' = DOMAIN calls \ {SAFE, FINALIZED}
      BY <1>1, <2>1, EndedOk DEF caches
    <3> QED BY <3>1, <3>2 DEF Own
  <2>3. TaskOk'
    BY <1>1, <1>8, <2>2 DEF PublishFinalized, TaskOk
  <2>4. CallOk(FINALIZED, calls[FINALIZED]) /\ HasBlock(calls[FINALIZED])
    BY <1>1, <1>8 DEF PublishFinalized, TaskOk, Done, CallsOk, HasBlock
  <2>5. PublishedOk'
    BY <2>1, <2>4 DEF PublishedOk, CallOk, CallTyped, AnswerSettled, l1
  <2> QED BY <2>1, <2>2, <2>3, <2>5, Untouched DEF IInv
<1>9. CASE NoFinalizeDue
  <2>1. UNCHANGED <<l1, caches, early, latest_finalized, calls>>
    BY <1>9 DEF NoFinalizeDue, published, bounds
  <2>2. TaskOk'
    BY <1>1, <1>9, <2>1, Untouched DEF NoFinalizeDue, TaskOk
  <2> QED BY <2>1, <2>2, Untouched DEF IInv
<1>10. CASE NothingToFetch
  <2>1. UNCHANGED <<l1, caches, early, latest_finalized, calls>> /\ Looped /\ Own = {}
    BY <1>10 DEF NothingToFetch, published, bounds
  <2> QED BY <1>1, <2>1, LoopedOk, Untouched DEF IInv
<1>11. CASE Prefetch
  <2> DEFINE F == {FETCH(h) : h \in Heights}
  <2>1. UNCHANGED <<l1, caches, early, latest_finalized, task>> /\ Own = {}
    BY <1>11 DEF Prefetch, published, background, bounds
  <2>2. /\ DOMAIN calls' = DOMAIN calls \cup F
        /\ \A d \in DOMAIN calls : calls'[d] = calls[d]
        /\ \A d \in F \ DOMAIN calls : calls'[d] = Call("number", d[2])
    BY <1>11 DEF Prefetch
  <2>3. F \subseteq Fetches
    BY <1>1, FetchNames
  <2>4. F' = F /\ F \cap DOMAIN calls = {}
    BY <2>1, <2>3, NamesDiffer DEF Heights, Own
  <2> HIDE DEF F
  <2>5. ASSUME NEW d \in F PROVE CallOk(d, calls[d])'
    <3>1. calls'[d] = Call("number", d[2]) /\ d \in Fetches
      BY <2>2, <2>3, <2>4
    <3>2. d[2] \in Nat /\ d # FINALIZED
      BY <3>1, NamesDiffer
    <3> QED BY <3>1, <3>2, NewCallOk
  <2>6. CallsOk'
    <3>1. \A d \in DOMAIN calls : CallOk(d, calls[d])'
      BY <1>1, <2>1, <2>2, CallKept
    <3>2. DOMAIN calls' \subseteq Names
      BY <1>1, <2>2, <2>3 DEF CallsOk, Names
    <3> QED BY <2>2, <2>5, <3>1, <3>2 DEF CallsOk
  <2>7. Own' = F
    BY <2>1, <2>2, <2>3, NamesDiffer DEF Own
  <2>8. TaskOk'
    BY <1>1, <1>11, <2>1, <2>4, <2>7 DEF Prefetch, TaskOk, F
  <2> QED BY <2>1, <2>6, <2>8, Untouched DEF IInv
<1>12. CASE StoreHeight
  <2>1. UNCHANGED <<l1, caches, early, latest_finalized>> /\ calls' = Ended(Own)
    BY <1>12 DEF StoreHeight, published, bounds
  <2>2. CallsOk' /\ Own' = {}
    BY <1>1, <2>1, EndedOk DEF Own, caches
  <2>3. IsFiniteSet(Own)
    BY <1>1, <1>12, StepNamesFinite DEF StoreHeight, TaskOk
  <2>4. task.height + Cardinality(Own) \in Nat
    BY <1>1, <2>3, FS_CardinalityType DEF TaskOk
  <2>5. TaskOk'
    BY <1>1, <1>12, <2>2, <2>4 DEF StoreHeight, TaskOk
  <2> QED BY <2>1, <2>2, <2>5, Untouched DEF IInv
<1>13. CASE StepFails
  <2>1. UNCHANGED <<l1, caches, early, latest_finalized>> /\ calls' = Ended(Own) /\ Looped
    BY <1>13 DEF StepFails, published, bounds
  <2>2. CallsOk' /\ Own' = {}
    BY <1>1, <2>1, EndedOk DEF Own, caches
  <2> QED BY <1>1, <2>1, <2>2, LoopedOk, Untouched DEF IInv
<1> QED BY <1>2, <1>3, <1>4, <1>5, <1>6, <1>7, <1>8, <1>9, <1>10, <1>11, <1>12, <1>13 DEF Background
-----------------------------------------------------------------------------
\* The invariant holds when the provider is created, on a chain without forks.
LEMMA InitIInv == Init => IInv
<1> SUFFICES ASSUME Init PROVE IInv
  OBVIOUS
<1>1. /\ chain \in Seq(Blocks) /\ Len(chain) = StartBlocks /\ \A i \in 1 .. StartBlocks : chain[i] = <<i - 1, 0>>
      /\ StartBlocks \in Nat \ {0}
  BY L1ProviderAssumption DEF Init, Blocks
<1>2. NodeOk
  BY <1>1 DEF Init, NodeOk, Latest
<1>3. CallsOk /\ Own = {} /\ CacheOk /\ PublishedOk
  BY DEF Init, CallsOk, Own, CacheOk, CachedUnderFinalized, PublishedOk
<1>4. TaskOk
  BY <1>3, L1ProviderAssumption DEF Init, TaskOk, At
<1> QED BY <1>2, <1>3, <1>4 DEF IInv

\* Every step of the node, of a call and of the background thread keeps the invariant.
LEMMA NextIInv == IInv /\ [Next]_vars => IInv'
<1> SUFFICES ASSUME IInv, [Next]_vars PROVE IInv'
  OBVIOUS
<1>1. CASE HeadInterval \/ FinalizeInterval
  <2>1. UNCHANGED <<l1, caches, early, latest_finalized, calls, task>> /\ At("step")
    BY <1>1 DEF HeadInterval, FinalizeInterval, published, bounds
  <2>2. TaskOk'
    BY <2>1, Untouched DEF IInv, TaskOk, At
  <2> QED BY <2>1, <2>2, Untouched DEF IInv
<1>2. CASE UNCHANGED vars
  <2>1. UNCHANGED <<l1, caches, early, latest_finalized, calls, task, finalize_due>>
    BY <1>2 DEF vars, published, background, bounds
  <2>2. TaskOk'
    BY <2>1, Untouched DEF IInv, TaskOk, At, Done, Heights
  <2> QED BY <2>1, <2>2, Untouched DEF IInv
<1>3. CASE Calls
  BY <1>3, CallStepOk DEF Calls
<1> QED BY <1>1, <1>2, <1>3, L1NodeOk, ClientCallsOk, BackgroundOk DEF Next

\* IInv is an invariant of the provider.
THEOREM Invariance == Spec => []IInv
  BY InitIInv, NextIInv, PTL DEF Spec

\* However long an answer of the node takes, the cache by number has finalized numbers only, and
\* under them finalized blocks only, but for blocks given before they were safe
\* (block_info_by_number).
THEOREM CachesUnderFinalized == Spec => []CachedUnderFinalized
<1>1. IInv => CachedUnderFinalized
  BY DEF IInv, CacheOk
<1> QED BY <1>1, Invariance, PTL

\* Only StoreHeight moves the height, to the one after the last it has fetched.
LEMMA HeightPassesFetched ==
    ASSUME IInv, [Next]_vars, task'.height # task.height
    PROVE  \A h \in task.height .. task'.height - 1 : \E b \in receipts_by_hash_cache : b[1] = h
<1>1. StoreHeight
  <2>1. task \in [pc : {"step", "head", "finalize", "publish", "prefetch", "exited"}, latest : Nat, height : Nat]
    BY DEF IInv, TaskOk
  <2>2. task' # task
    OBVIOUS
  <2>3. ~L1Node /\ ~Calls /\ ~ClientCalls /\ ~HeadInterval /\ ~FinalizeInterval /\ ~UNCHANGED vars
    BY <2>2
    DEF L1Node, Mine, Reorganise, Justify, Calls, CallStep, CacheHit, Ask, AskFails, Answered, ClientCalls,
        HeadInterval, FinalizeInterval, vars, background
  <2>4. Background
    BY <2>3 DEF Next
  <2> QED
    BY <2>1, <2>2, <2>4
    DEF Background, BlockNumber, BlockNumberFails, AskHead, PublishHead, AskFinalized, PublishSafe,
        PublishFinalized, NoFinalizeDue, NothingToFetch, Prefetch, StepFails, Looped, Go, background
<1>2. /\ TaskOk /\ CallsOk /\ Own # {} /\ At("prefetch") /\ \A c \in Own : Done(c)
      /\ task'.height = task.height + Cardinality(Own) /\ task.height \in Nat
  BY <1>1 DEF StoreHeight, IInv, TaskOk, Prefetched
<1>3. Own = {FETCH(h) : h \in Heights}
  BY <1>2 DEF TaskOk
<1>4. Heights # {} /\ Cardinality(Own) = Cardinality(Heights)
  BY <1>2, <1>3, StepNamesFinite
<1>5. \A h \in task.height .. task'.height - 1 : h \in Heights
  <2> DEFINE top == (IF task.latest - task.height > Concurrency THEN task.height + Concurrency ELSE task.latest) - 1
  <2>1. task.height \in Int /\ top \in Int
    BY L1ProviderAssumption DEF IInv, TaskOk
  <2>2. Heights = task.height .. top
    BY DEF Heights
  <2> HIDE DEF top
  <2>3. task.height <= top
    BY <1>4, <2>1, <2>2
  <2>4. Cardinality(Heights) = top - task.height + 1
    BY <2>1, <2>2, <2>3, FS_Interval
  <2> QED BY <1>2, <1>4, <2>1, <2>2, <2>4
<1>6. ASSUME NEW h \in Heights PROVE \E b \in receipts_by_hash_cache : b[1] = h
  <2>1. FETCH(h) \in Fetches /\ FETCH(h)[2] = h /\ FETCH(h) \in DOMAIN calls /\ Done(FETCH(h))
    BY <1>2, <1>3, FetchNames, NamesDiffer DEF Own
  <2>2. FetchOk(h, calls[FETCH(h)])
    BY <1>2, <2>1 DEF CallsOk, CallOk
  <2> QED BY <2>1, <2>2 DEF FetchOk, Done, HasBlock
<1> QED BY <1>5, <1>6

\* pre_fetch_receipts: the height only passes heights whose receipts are in the cache, for every
\* concurrency level and whatever fails or is reorganised meanwhile.
THEOREM HeightsAreFetched == Spec => ReceiptsFetched
<1>1. IInv /\ [Next]_vars =>
        [task'.height # task.height =>
           \A h \in task.height .. task'.height - 1 : \E b \in receipts_by_hash_cache : b[1] = h]_vars
  BY HeightPassesFetched
<1> QED BY <1>1, Invariance, PTL DEF Spec, ReceiptsFetched
=============================================================================
