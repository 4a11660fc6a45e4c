------------------------------ MODULE MCInflate ------------------------------
(***************************************************************************)
(* Streams, channels and spans for TLC: the decompressor with bytes of two *)
(* bits, codes of at most four, matches of 3 to 11 bytes and a window of   *)
(* 16.                                                                     *)
(***************************************************************************)
EXTENDS BatchReader, SpanCodec

MC_LENGTH_BASE == <<3, 4>>
MC_LENGTH_EXTRA == <<0, 3>>
MC_DIST_BASE == <<1, 2, 3, 5, 9>>
MC_DIST_EXTRA == <<0, 0, 1, 2, 3>>
MC_STATIC_LITLEN == <<2, 3, 4, 4, 3, 3, 3, 3>>
MC_STATIC_DIST == <<3, 3, 3, 3, 3, 3, 3, 3>>
MC_SizeBits == <<2, 3, 2>>
MC_MIN_TABLE_SIZES == <<5, 1, 5>>
MC_HUFFMAN_LENGTH_ORDER == <<5, 6, 7, 0, 3, 2, 4, 1>>
MC_RepeatExtra == <<1, 1, 2>>
MC_RepeatBase == <<2, 2, 4>>
MC_WindowOf(cmf) == IF cmf \div 2 = 0 THEN 16 ELSE 32

RawBlock(bytes) == [kind |-> "raw", bytes |-> bytes]
Static(tokens) == [kind |-> "static", tokens |-> tokens]
\* a last block that is not well formed, and the data before its error
BitsBlock(bits, data) == [kind |-> "bits", bits |-> bits, data |-> data]
Dynamic(litlen, dist, hufflen, sizes, tokens) ==
  [kind |-> "dynamic", litlen |-> litlen, dist |-> dist, hufflen |-> hufflen, sizes |-> sizes, tokens |-> tokens]

Lits(seq) == [i \in DOMAIN seq |-> <<seq[i]>>]

\* codes of one to four bits, a repeated size
Deep(tokens) == Dynamic(<<1, 2, 4, 0, 4, 4, 4>>, <<1, 2, 2>>, <<3, 2, 2, 0, 2, 3, 0, 0>>,
                        <<<<1>>, <<2>>, <<4>>, <<0>>, <<4>>, <<5, 2>>, <<1>>, <<2>>, <<2>>>>, tokens)
\* two codes of one bit and no distances; both repeats of zero
Flat(tokens) == Dynamic(<<1, 0, 0, 0, 1>>, <<0, 0, 0, 0>>, <<0, 1, 0, 0, 0, 0, 2, 2>>,
                        <<<<1>>, <<6, 3>>, <<1>>, <<7, 4>>>>, tokens)

Short == <<Static(<<<<3>>, <<3, 1>>, <<1>>>>)>>
Mixed == <<RawBlock(<<1, 2, 3>>), Static(Lits(<<0, 3>>) \o <<<<3, 2>>>>), RawBlock(<<>>), Flat(Lits(<<0, 0>>))>>
Runs == <<Static(<<<<2>>, <<11, 1>>, <<1>>, <<5, 3>>, <<10, 9>>, <<4, 16>>, <<0>>>>)>>
Deeper == <<Deep(<<<<0>>, <<1>>, <<2>>, <<3, 3>>, <<4, 2>>, <<9, 4>>, <<1>>, <<2>>>>)>>
Long == <<Static(Lits(<<0, 1, 2, 3, 1, 0, 3>>) \o <<<<7, 7>>, <<11, 14>>, <<2>>, <<3, 1>>, <<3>>, <<11, 16>>, <<6, 5>>>>),
          Deep(<<<<2>>, <<11, 4>>, <<1>>, <<0>>, <<11, 1>>, <<8, 3>>>>)>>

BadType == <<Static(Lits(<<1>>)), BitsBlock(<<1, 1>>, <<>>)>>
BadLength == <<BitsBlock(<<0, 0, 0>> \o Field(2, 4) \o Field(3, 4), <<>>)>>
\* a literal, the length 3 and a distance code that has no base
BadDistance == <<BitsBlock(<<1, 0>> \o Code(STATIC_LITLEN, 1) \o Code(STATIC_LITLEN, 6) \o Code(STATIC_DIST, 7), <<0>>)>>

StreamsMC == {RawStream(Mixed, TRUE), RawStream(Runs, TRUE), RawStream(Deeper, TRUE), ZlibStream(Long),
              RawStream(BadType, FALSE), RawStream(BadLength, FALSE), RawStream(BadDistance, FALSE),
              StreamOf("Zlib", Runs, Adler(DataOf(Runs)) + 1, FALSE),
              StreamOf("ZLibIgnoreChecksum", Deeper, Adler(DataOf(Deeper)) + 1, TRUE)}

\* the stream that can be interrupted by a reset, and what the state is reset for
FirstStream == ZlibStream(Long)
SecondStreams == {RawStream(Short, TRUE), ZlibStream(Short)}

After_MC == <<3, 0, 1>>

Batch1 == ZlibStream(<<Static(Lits(<<0, 1, 2>>))>>)
BatchB == ZlibStream(<<Static(Lits(<<0, 1, 3>>))>>)
Batch2 == ZlibStream(<<RawBlock(<<0, 3, 3, 1>>)>>)
SpanOne == ZlibStream(<<RawBlock(<<1, 2>>)>>)
Batch3 == ZlibStream(<<Deep(<<<<0>>, <<1>>, <<3, 2>>, <<11, 1>>>>)>>)
\* a batch of 199 bytes in 73
Grows == ZlibStream(<<Dynamic(<<2, 0, 0, 0, 2, 0, 1>>, <<1>>, <<2, 2, 2, 0, 0, 0, 2, 0>>,
                              <<<<2>>, <<6, 3>>, <<2>>, <<0>>, <<1>>, <<1>>>>, <<<<0>>>> \o [i \in 1..18 |-> <<11, 1>>])>>)
ChannelsMC == {<<Batch1>>, <<Batch1, BatchB>>, <<Batch1, Batch2>>, <<Batch2, Batch3, Batch1>>, <<Grows, Batch1>>, <<Batch3, Grows>>,
               <<Batch2, SpanOne>>}

\* Spans: two bits a byte, so that four blocks need two bytes of every bitlist. The lists of
\* transactions mix what the columns treat differently: legacy or typed, replay-protected or
\* not, call or contract creation, parity of the signature; and one that is refused.
Tx(type, to, chain_id, n) ==
  [type |-> type, data |-> n, nonce |-> n, gas |-> 10 + n, to |-> to, chain_id |-> chain_id,
   sig |-> <<n % 2 = 1, n>>]

LegacyCall     == Tx("legacy", <<"a">>, <<5>>, 1)
LegacyOld      == Tx("legacy", <<"b">>, <<>>, 2)
LegacyCreation == Tx("legacy", <<>>, <<5>>, 3)
FeeCall        == Tx("eip1559", <<"c">>, <<5>>, 4)
FeeCreation    == Tx("eip1559", <<>>, <<5>>, 5)
SetCode        == Tx("eip7702", <<"d">>, <<5>>, 6)
OtherChain     == Tx("legacy", <<"e">>, <<6>>, 7)

MCTxLists == {<<>>, <<LegacyOld>>, <<FeeCreation>>, <<LegacyCreation, FeeCall>>,
              <<FeeCall, LegacyCall, LegacyOld>>, <<SetCode, LegacyCall>>, <<LegacyCall, OtherChain>>}
MCStartTimes == {10}
MCFirstEpochs == {4}

-----------------------------------------------------------------------------
\* A behaviour is about one stream, one channel or one span.
StreamIdle == stream = Batch1 /\ state = NewInflateState("Zlib") /\ rest = <<>> /\ got = <<>> /\ result = "Idle"
ReaderIdle == channel = <<>> /\ cursor = 0 /\ batches = <<>> /\ reader = "None"
SpanIdle   == span = NewSpan /\ appended = <<>> /\ ok = FALSE

Init == \/ \E s \in Streams : StreamInit(s) /\ ReaderIdle /\ SpanIdle
        \/ \E c \in Channels : StreamIdle /\ ReaderInit(c) /\ SpanIdle
        \/ StreamIdle /\ ReaderIdle /\ SpanInit

StreamNext ==
  \/ \E n \in Chunks, room \in Rooms, flush \in {"None", "Finish", "Full"} : Feed(n, room, flush)
  \/ \E n \in Chunks : Slices(n)
  \/ \E reset \in {"Min", "Zero", "Full"}, s \in SecondStreams : stream = FirstStream /\ Reset(reset, s)

Next == \/ StreamNext /\ UNCHANGED <<readerVars, spanVars>>
        \/ next_batch /\ UNCHANGED <<streamVars, spanVars>>
        \/ AppendSingularBatch /\ UNCHANGED <<streamVars, readerVars>>

vars == <<streamVars, readerVars, spanVars>>
Spec == Init /\ [][Next]_vars
=============================================================================
