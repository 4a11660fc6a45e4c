------------------------------ MODULE Preimage ------------------------------
(***************************************************************************)
(* The client program and the preimage server: CachingOracle               *)
(* (proof/src/caching_oracle.rs) over OracleReader and HintWriter          *)
(* (preimage/src), the native channels, the two tasks of PreimageServer    *)
(* (bin/host/src/server.rs) and the online and offline backends.           *)
(*                                                                         *)
(* The client runs calls of OracleClient one after the other. A message in *)
(* a channel is a record with its size in bytes; read_exact takes one      *)
(* message and panics if the size is another than that of the buffer.      *)
(*                                                                         *)
(* An error ends the program when a provider meets it, but not when the    *)
(* block builder does: AccountsDB::get_account takes an account it cannot  *)
(* fetch for a missing one, and the driver tries a block that could not be *)
(* built again. The client then goes on, with whatever the cache and the   *)
(* host still answer.                                                      *)
(***************************************************************************)
EXTENDS OracleClient

CONSTANTS
  Calls,          \* the calls the client may make, sequences of operations
  MaxCalls,       \* bound: how many calls it makes
  CacheSize,      \* capacity of the client's LRU cache
  MaxTries,       \* fruitless fetches after which the host gives up (10 in the code)
  MaxFailures,    \* bound: failures of the providers behind fetch_hint
  ProactiveHints, \* hint types fetched when they arrive
  Missing,        \* sets of keys, one of which the store of an offline host lacks
  None, Failed    \* model values

ASSUME PreimageAssumption ==
  /\ CacheSize \in Nat \ {0} /\ MaxTries \in Nat \ {0} /\ MaxCalls \in Nat /\ MaxFailures \in Nat
  /\ ProactiveHints \subseteq HintType

ASSUME ProvidersAssumption == Calls \subseteq ProviderCalls

\* The calls of the providers and of the builder as long as no operation of it fails, and all
\* there is to ask for once one has; their operations, and what these name.
AllCalls   == Calls \cup {build_block(n) : n \in 1 .. L2Head}
Planned    == UNION {Range(c) : c \in AllCalls}
BuilderOps == UNION {Range(c) : c \in BuilderCalls}
AllOps     == Planned \cup BuilderOps

HintsOf(ops) == {o.hint : o \in {x \in ops : x.op = "hint"}}
Hints        == HintsOf(AllOps)
Keys         == {o.key : o \in {x \in AllOps : IsGet(x)}}

\* A call is a sequence of operations. Its hints are of the types HintType parses, and the
\* accounts it asks for are those of a block that exists. The providers ask for nothing that
\* the builder asks for.
ASSUME CallsAssumption ==
  /\ None # Failed /\ {None, Failed} \cap (Keys \cup Hints) = {}
  /\ \A c \in AllCalls : c \in Seq(Planned)
  /\ \A c \in BuilderCalls : c \in Seq(BuilderOps)
  /\ \A c \in Calls : Range(c) \cap BuilderOps = {}
  /\ \A h \in Hints : h[1] \in HintType /\ (h[1] = "l2-account-proof" => h[2][1] \in 0 .. L2Head)

VARIABLES
  todo,      \* operations left of the client's current call
  client,    \* "ready", or what it waits for: "ack", "length", "data"; or "failed"
  length,    \* the length the client has read
  cache,     \* the LRU cache: pairs of key and value, least recently used first
  answer,    \* history: the last answer the client got, Failed if it was told of a failure
  calls,     \* history: number of calls made
  blocks,    \* number of the last L2 block the client has built or begun
  stray,     \* whether an operation of the block builder has failed
  hints, acks,       \* the two directions of the hint channel
  requests, replies, \* the two directions of the preimage channel
  router,    \* the hint task: None when it reads, the hint it is routing, or Failed when it has ended
  server,    \* the preimage task: [state, key, count]
  kv, last_hint,     \* the backend: store and last hint
  online,    \* which of the two backends the host was started with
  failures   \* history: failed fetches

clientVars == <<todo, client, length, cache, answer, calls, blocks, stray>>
pipes      == <<hints, acks, requests, replies>>
hostVars   == <<router, server, kv, last_hint, online, failures>>
vars       == <<clientVars, pipes, hostVars>>

Msg(size, body) == [size |-> size, body |-> body]

\* A read from an empty channel whose other end is gone, or a write to one, is an error.
Waiting  == [state |-> "read", key |-> None, count |-> 0]
GaveUp   == "gaveup"    \* next_preimage_request returned an error: the task has ended
ServerUp == server.state # GaveUp
RouterUp == router # Failed

\* What a former online run leaves in the store, for the offline backend: all of it, if that
\* run came to its end and made the same calls.
FullStore ==
  LET planned == HintsOf(Planned)
  IN  [k \in UNION {DOMAIN fetch_hint(h) : h \in planned} |->
         fetch_hint(CHOOSE h \in planned : k \in DOMAIN fetch_hint(h))[k]]

Init ==
  /\ todo \in Calls /\ calls = 1 /\ client = "ready" /\ length = 0 /\ blocks = 0 /\ stray = FALSE
  /\ cache = <<>> /\ answer = None
  /\ hints = <<>> /\ acks = <<>> /\ requests = <<>> /\ replies = <<>>
  /\ router = None /\ server = Waiting
  /\ last_hint = None /\ failures = 0
  /\ online \in BOOLEAN
  /\ IF online THEN kv = <<>>
     ELSE \E lost \in Missing : kv = Restrict(FullStore, DOMAIN FullStore \ lost)

-----------------------------------------------------------------------------
\* The client's LRU cache.

Cached(k) == \E i \in DOMAIN cache : cache[i][1] = k
CachedValue(k) == cache[CHOOSE i \in DOMAIN cache : cache[i][1] = k][2]
Without(c, k) == LET at == {i \in DOMAIN c : c[i][1] = k}
                     i  == CHOOSE j \in at : TRUE
                 IN  IF at = {} THEN c ELSE SubSeq(c, 1, i - 1) \o SubSeq(c, i + 1, Len(c))

\* LruCache::get makes the entry the most recent one, put drops the oldest of a full cache.
Touch(c, k, v) == Append(Without(c, k), <<k, v>>)
Put(c, k, v) == LET d == Touch(c, k, v) IN IF Len(d) > CacheSize THEN Tail(d) ELSE d

Op == Head(todo)

Answer(k, v) == /\ answer' = [key |-> k, value |-> v]
                /\ todo' = Tail(todo) /\ client' = "ready" /\ length' = 0

\* A panic.
Crash == client' = "failed" /\ UNCHANGED <<todo, length, cache, answer, calls, blocks, stray>>

\* An operation returns an error. To the pipeline an error of a provider is a critical one, and
\* boot and cursor hand it on: the program ends. In the block builder an account that cannot be
\* fetched is taken for a missing one, and after any other error the driver tries the block
\* again, maybe with the diff or the trie of the failed attempt: the client goes on, and what
\* it asks for from then on is not that of the chain any more.
Fail ==
  IF Op \in BuilderOps
  THEN /\ client' = "ready" /\ todo' = <<>> /\ length' = 0 /\ stray' = TRUE
       /\ answer' = IF IsGet(Op) THEN [key |-> Op.key, value |-> Failed] ELSE answer
       /\ UNCHANGED <<cache, calls, blocks>>
  ELSE Crash

\* HintWriter::write: the length, the hint, then wait for the acknowledgement.
WriteHint ==
  /\ client = "ready" /\ todo # <<>> /\ Op.op = "hint"
  /\ IF RouterUp
     THEN /\ hints' = hints \o <<Msg(4, 64), Msg(64, Op.hint)>> /\ client' = "ack"
          /\ UNCHANGED <<todo, length, cache, answer, calls, blocks, stray>>
     ELSE Fail /\ UNCHANGED hints
  /\ UNCHANGED <<acks, requests, replies, hostVars>>

ReadAck ==
  /\ client = "ack"
  /\ \/ /\ acks # <<>> /\ Head(acks).size = 1
        /\ acks' = Tail(acks) /\ client' = "ready" /\ todo' = Tail(todo)
        /\ UNCHANGED <<length, cache, answer, calls, blocks, stray>>
     \/ /\ acks = <<>> /\ ~RouterUp
        /\ Fail /\ UNCHANGED acks
  /\ UNCHANGED <<hints, requests, replies, hostVars>>

\* Mutant: a cached value is returned for whatever was cached last.
CacheHitLast ==
  /\ client = "ready" /\ todo # <<>> /\ IsGet(Op) /\ Cached(Op.key)
  /\ cache' = Touch(cache, Op.key, CachedValue(Op.key))
  /\ Answer(Op.key, cache[Len(cache)][2])
  /\ UNCHANGED <<calls, blocks, stray, pipes, hostVars>>

\* CachingOracle::get and get_exact with the key in the cache. get_exact copies the value into
\* the buffer, which panics if the lengths differ.
CacheHit ==
  /\ client = "ready" /\ todo # <<>> /\ IsGet(Op) /\ Cached(Op.key)
  /\ IF Op.op = "get_exact" /\ CachedValue(Op.key).size # Op.len
     THEN Crash
     ELSE /\ cache' = Touch(cache, Op.key, CachedValue(Op.key))
          /\ Answer(Op.key, CachedValue(Op.key))
          /\ UNCHANGED <<calls, blocks, stray>>
  /\ UNCHANGED <<pipes, hostVars>>

\* OracleReader::write_key
WriteKey ==
  /\ client = "ready" /\ todo # <<>> /\ IsGet(Op) /\ ~Cached(Op.key)
  /\ IF ServerUp
     THEN /\ requests' = Append(requests, Msg(32, Op.key)) /\ client' = "length"
          /\ UNCHANGED <<todo, length, cache, answer, calls, blocks, stray>>
     ELSE Fail /\ UNCHANGED requests
  /\ UNCHANGED <<hints, acks, replies, hostVars>>

\* The length is read. get_exact fails on another length than that of its buffer, with the
\* data still in the channel; no data follow a length of 0.
ReadLength ==
  /\ client = "length"
  /\ \/ /\ replies # <<>> /\ replies' = Tail(replies)
        /\ IF Head(replies).size # 8 THEN Crash
           ELSE IF Op.op = "get_exact" /\ Head(replies).body # Op.len THEN Fail
           ELSE IF Head(replies).body = 0
           THEN cache' = Put(cache, Op.key, Empty) /\ Answer(Op.key, Empty) /\ UNCHANGED <<calls, blocks, stray>>
           ELSE length' = Head(replies).body /\ client' = "data" /\ UNCHANGED <<todo, cache, answer, calls, blocks, stray>>
     \/ /\ replies = <<>> /\ ~ServerUp
        /\ Fail /\ UNCHANGED replies
  /\ UNCHANGED <<hints, acks, requests, hostVars>>

\* The data are read and cached.
ReadData ==
  /\ client = "data"
  /\ \/ /\ replies # <<>> /\ replies' = Tail(replies)
        /\ IF Head(replies).size # length THEN Crash
           ELSE /\ cache' = Put(cache, Op.key, Head(replies).body)
                /\ Answer(Op.key, Head(replies).body)
                /\ UNCHANGED <<calls, blocks, stray>>
     \/ /\ replies = <<>> /\ ~ServerUp
        /\ Fail /\ UNCHANGED replies
  /\ UNCHANGED <<hints, acks, requests, hostVars>>

\* What was read cannot be used.
Panic ==
  /\ client = "ready" /\ todo # <<>> /\ Op = PanicOp
  /\ Crash /\ UNCHANGED <<pipes, hostVars>>

\* The next call: one of the providers', or the next L2 block to build; after a failure in the
\* builder, any of the things a builder may do.
NextCall ==
  /\ client = "ready" /\ todo = <<>> /\ calls < MaxCalls
  /\ calls' = calls + 1
  /\ \/ todo' \in Calls /\ UNCHANGED blocks
     \/ ~stray /\ blocks < L2Head /\ blocks' = blocks + 1 /\ todo' = build_block(blocks + 1)
     \/ stray /\ todo' \in BuilderCalls /\ UNCHANGED blocks
  /\ UNCHANGED <<client, length, cache, answer, stray, pipes, hostVars>>

\* OraclePipeline::flush, which the driver calls on a reorg.
Flush ==
  /\ client = "ready" /\ todo = <<>> /\ cache # <<>>
  /\ cache' = <<>>
  /\ UNCHANGED <<todo, client, length, answer, calls, blocks, stray, pipes, hostVars>>

-----------------------------------------------------------------------------
\* The hint task: next_hint and route_hint.

ReadHint ==
  /\ router = None /\ Len(hints) >= 2
  /\ hints' = SubSeq(hints, 3, Len(hints))
  /\ router' = hints[2].body
  /\ UNCHANGED <<clientVars, acks, requests, replies, server, kv, last_hint, online, failures>>

\* route_hint, then the acknowledgement, also when it failed; but then the task ends.
\* last_hint is locked while the preimage task fetches, so its write waits.
RouteHint ==
  /\ router \notin {None, Failed}
  /\ acks' = Append(acks, Msg(1, 0))
  /\ \/ /\ ~online \/ (router[1] \notin ProactiveHints /\ server.state # "fetch")
        /\ last_hint' = IF online THEN router ELSE last_hint
        /\ router' = None /\ UNCHANGED <<kv, failures>>
     \/ /\ online /\ router[1] \in ProactiveHints
        /\ kv' = KvSet(kv, fetch_hint(router)) /\ router' = None /\ UNCHANGED <<last_hint, failures>>
     \/ /\ online /\ router[1] \in ProactiveHints /\ failures < MaxFailures
        /\ failures' = failures + 1 /\ router' = Failed /\ UNCHANGED <<kv, last_hint>>
  /\ UNCHANGED <<clientVars, hints, requests, replies, server, online>>

-----------------------------------------------------------------------------
\* The preimage task: next_preimage_request and get_preimage.

\* Mutant: the data are written even if there are none.
ReplyAlways(v) == replies \o <<Msg(8, v.size), Msg(v.size, v)>>

Reply(v) == replies \o <<Msg(8, v.size)>> \o (IF v.size > 0 THEN <<Msg(v.size, v)>> ELSE <<>>)

\* The request is read; what is in the store is answered at once. Otherwise the offline
\* backend fails, and the online one starts to fetch.
ReadRequest ==
  /\ server.state = "read" /\ requests # <<>>
  /\ requests' = Tail(requests)
  /\ LET k == Head(requests).body
     IN  IF KvHas(kv, k)
         THEN replies' = Reply(KvGet(kv, k)) /\ UNCHANGED server
         ELSE /\ server' = [Waiting EXCEPT !.state = IF online THEN "fetch" ELSE GaveUp, !.key = k]
              /\ UNCHANGED replies
  /\ UNCHANGED <<clientVars, hints, acks, router, kv, last_hint, online, failures>>

\* A failed fetch is tried again without being counted.
FetchFails ==
  /\ server.state = "fetch" /\ last_hint # None /\ failures < MaxFailures
  /\ failures' = failures + 1
  /\ UNCHANGED <<clientVars, pipes, router, server, kv, last_hint, online>>

\* One turn of the loop: the last hint is fetched and the store is looked at again.
Fetch ==
  /\ server.state = "fetch"
  /\ kv' = IF last_hint = None THEN kv ELSE KvSet(kv, fetch_hint(last_hint))
  /\ IF server.count >= MaxTries
     THEN server' = [server EXCEPT !.state = GaveUp] /\ UNCHANGED replies
     ELSE IF last_hint # None /\ KvHas(kv', server.key)
     THEN server' = Waiting /\ replies' = Reply(KvGet(kv', server.key))
     ELSE server' = [server EXCEPT !.count = @ + 1] /\ UNCHANGED replies
  /\ UNCHANGED <<clientVars, hints, acks, requests, router, last_hint, online, failures>>

\* The program has come to its end, by itself or with an error.
Done ==
  /\ client = "failed" \/ (client = "ready" /\ todo = <<>> /\ calls = MaxCalls)
  /\ UNCHANGED vars

Client == WriteHint \/ ReadAck \/ CacheHit \/ WriteKey \/ ReadLength \/ ReadData \/ Panic
Router == ReadHint \/ RouteHint
Server == ReadRequest \/ Fetch

Next == Client \/ NextCall \/ Flush \/ Router \/ Server \/ FetchFails \/ Done

\* The client and the two tasks run on; the providers fail finitely often.
Spec == /\ Init /\ [][Next]_vars
        /\ WF_vars(Client) /\ WF_vars(NextCall) /\ WF_vars(Router) /\ WF_vars(Server)

-----------------------------------------------------------------------------
\* Between two operations of the client nothing is under way: no message is left in a channel
\* and the tasks wait for the next one, so the next reply is the reply to the next request.
\* This is what lets the protocol do without request ids (oracle.rs, hint.rs).
PipesInSync ==
  client = "ready" =>
    /\ hints = <<>> /\ acks = <<>> /\ requests = <<>> /\ replies = <<>>
    /\ router \in {None, Failed} /\ server.state \in {"read", GaveUp}

\* The online host never gives up on a key of these calls, blobs excepted, which it does not
\* serve: although it keeps the last hint only and fetches it only on a miss, every preimage
\* is there by the time it is asked for, trie nodes that have no hint of their own included.
\* The exception is a proactive hint whose fetch failed: it is acknowledged all the same.
HintsSuffice == online /\ server.state = GaveUp /\ RouterUp => KeyType(server.key) = "Sha256"

\* The account data the builder reads for block n are those of block n-1, although their key
\* does not name a block and the store and the cache keep the first answer for ever: accounts
\* changed since are never asked for again (TrieDB::get_account_data behind the diff). It says
\* nothing of a builder one of whose reads has failed: an account it took for missing is not
\* written as it is on the chain, so its diff does not stand for the blocks since.
AccountsCurrent ==
  [][answer' # answer /\ KeyType(answer'.key) = "L2AccountProof" /\ ~stray'
       => answer'.value = AccountData(answer'.key[2], blocks - 1)]_vars

\* What a key may stand for: one value, or for an account one for each L2 block.
Meaning(k) == IF KeyType(k) = "L2AccountProof" THEN {AccountData(k[2], n) : n \in 0 .. L2Head}
              ELSE IF KeyType(k) = "BankHash" /\ k[2] \in NoBankHash THEN {Empty}
              ELSE {Preimage(k)}

\* What the client is asking for, as the abstract oracle sees it.
Asked == IF client = "failed" THEN Failed
         ELSE IF todo # <<>> /\ IsGet(Op) THEN Op.key ELSE None

O == INSTANCE Oracle WITH Key <- Keys, request <- Asked

\* Client, channels, tasks, store and caches together implement the abstract oracle: a request
\* is answered with a preimage of its key, the client is told of the failure, or the program
\* ends, and one of these happens as long as the providers of the host do not fail for ever.
\* This holds after a failure too, when the builder goes on: what the cache and the tasks that
\* are still up answer then is no less a preimage of the key that was asked for.
OracleServed == O!Spec
=============================================================================
