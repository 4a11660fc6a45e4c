------------------------------ MODULE Inflate ------------------------------
(***************************************************************************)
(* The DEFLATE and zlib decompressor (utilities/miniz_oxide/src/inflate/   *)
(* core.rs): the resumable state machine behind `decompress', with its bit *)
(* buffer, its Huffman tables and its fast path.                           *)
(*                                                                         *)
(* The format keeps its structure, but its numbers are constants: bits in  *)
(* a byte, longest code, sizes of the alphabets. The decompressor and the  *)
(* variables of one call form one record s. Its bit buffer is the sequence *)
(* of the num_bits bits that are valid; an alphabet is numbered from 0, a  *)
(* Huffman table is a lookup by the first FastBits bits and a tree of pairs *)
(* for the longer codes, whose negative entries refer to pairs.            *)
(***************************************************************************)
EXTENDS Integers, Sequences, SequencesExt, FiniteSets, FiniteSetsExt, TLC

CONSTANTS
  ByteBits,        \* bits of a byte: 8
  MaxCode,         \* longest Huffman code: 15
  FastBits,        \* FAST_LOOKUP_BITS: 10
  LENGTH_BASE, LENGTH_EXTRA, DIST_BASE, DIST_EXTRA,
  STATIC_LITLEN, STATIC_DIST,  \* code sizes of start_static_table: 288 and 32 symbols
  LitlenMax, DistMax,          \* largest table sizes of a dynamic block: 286 and 30
  SizeBits, MIN_TABLE_SIZES,   \* fields of ReadTableSizes: <<5, 5, 4>> and <<257, 1, 4>>
  HufflenBits,                 \* bits of a length in ReadHufflenTableCodeSize: 3
  HUFFMAN_LENGTH_ORDER, RepeatExtra, RepeatBase,  \* codes 16 to 18: <<2, 3, 7>> and <<3, 3, 11>>
  FastOut, FastIn,             \* room that decompress_fast needs: 259 and 14
  HeaderMod, Method, MethodMod, DictBit, MaxWindow, WindowOf(_),  \* fields of the zlib header
  AdlerMod, AdlerBase,         \* modulus of the checksum, and of its upper half
  X86                          \* whether apply_match is compiled for x86

LITLEN == 1
DIST == 2
HUFFLEN == 3

Literals == 2 ^ ByteBits           \* 256, also the end of a block
MaxLitlen == Literals + Len(LENGTH_BASE)

BitsOf(b) == [i \in 1..ByteBits |-> (b \div 2 ^ (i - 1)) % 2]
RECURSIVE Value(_)
Value(bits) == IF bits = <<>> THEN 0 ELSE Head(bits) + 2 * Value(Tail(bits))
BitAt(bits, n) == IF n < Len(bits) THEN bits[n + 1] ELSE 0
First(bits, n) == SubSeq(bits, 1, IF n < Len(bits) THEN n ELSE Len(bits))

-----------------------------------------------------------------------------
\* Input and output of a call

left(s) == Len(s.in) - s.ip
bytes_left(s) == Len(s.out) - s.pos

Take(s, n) ==
  [s EXCEPT !.bits = @ \o FlattenSeq([i \in 1..n |-> BitsOf(s.in[s.ip + i])]), !.ip = @ + n]
Skip(s, n) == [s EXCEPT !.bits = SubSeq(@, n + 1, Len(@))]

Jump(s, state) == [s EXCEPT !.state = state]
End(s, status) == [s EXCEPT !.status = status]

end_of_input(s) == End(s, IF "more" \in s.flags THEN "NeedsMoreInput" ELSE "FailedCannotMakeProgress")

read_byte(s, F(_, _)) ==
  IF left(s) = 0 THEN end_of_input(s) ELSE F([s EXCEPT !.ip = @ + 1], s.in[s.ip + 1])

\* bytes that are missing from the bit buffer
Missing(s, amount) == IF Len(s.bits) >= amount THEN 0 ELSE (amount - Len(s.bits) + ByteBits - 1) \div ByteBits

read_bits(s, amount, F(_, _)) ==
  IF Missing(s, amount) > left(s) THEN end_of_input(Take(s, left(s)))
  ELSE F(Skip(Take(s, Missing(s, amount)), amount), Value(First(Take(s, Missing(s, amount)).bits, amount)))

pad_to_bytes(s, F(_)) == F(Skip(s, Len(s.bits) % ByteBits))

\* Mutant: read-ahead is not given back
undo_bytes_none(s, max) == 0

undo_bytes(s, max) == IF Len(s.bits) \div ByteBits < max THEN Len(s.bits) \div ByteBits ELSE max

Undo(s, n) == [s EXCEPT !.bits = First(@, Len(@) - n * ByteBits), !.ip = @ - n]

fill_bit_buffer(s) == IF Len(s.bits) < 2 * MaxCode THEN Take(s, 4) ELSE s

Put(out, pos, bytes) == SubSeq(out, 1, pos) \o bytes \o SubSeq(out, pos + Len(bytes) + 1, Len(out))

write_byte(s, b) == [s EXCEPT !.out[s.pos + 1] = b, !.pos = @ + 1]

-----------------------------------------------------------------------------
\* Huffman tables

TreeSize == 2 * Len(STATIC_LITLEN)
EmptyTable == [look_up |-> [i \in 0 .. 2 ^ FastBits - 1 |-> [sym |-> 0, len |-> 0]],
               tree |-> [i \in 0 .. TreeSize - 1 |-> 0], next |-> -1]

fast_lookup(table, bits) == table.look_up[Value(First(bits, FastBits))]

RECURSIVE tree_lookup(_, _, _, _)
tree_lookup(tree, symbol, bits, n) ==
  IF -symbol - 1 + BitAt(bits, n) >= TreeSize THEN <<symbol, n>>
  ELSE IF tree[-symbol - 1 + BitAt(bits, n)] >= 0 THEN <<tree[-symbol - 1 + BitAt(bits, n)], n + 1>>
  ELSE tree_lookup(tree, tree[-symbol - 1 + BitAt(bits, n)], bits, n + 1)

\* symbol and length of the code that the bits start with; the length is 0 for none
lookup(table, bits) ==
  IF fast_lookup(table, bits).sym >= 0 THEN <<fast_lookup(table, bits).sym, fast_lookup(table, bits).len>>
  ELSE tree_lookup(table.tree, fast_lookup(table, bits).sym, bits, FastBits)

\* whether the bits that are there are a whole code
RECURSIVE WalkFinds(_, _, _, _)
WalkFinds(tree, symbol, bits, n) ==
  \/ tree[-symbol - 1 + BitAt(bits, n)] >= 0
  \/ Len(bits) >= n + 2 /\ WalkFinds(tree, tree[-symbol - 1 + BitAt(bits, n)], bits, n + 1)

HasCode(table, bits) ==
  IF fast_lookup(table, bits).sym >= 0
  THEN fast_lookup(table, bits).len \in 1 .. Len(bits)
  ELSE Len(bits) > FastBits /\ WalkFinds(table.tree, fast_lookup(table, bits).sym, bits, FastBits)

\* fewer than two bytes are left: they are read one at a time, and only as far as needed
RECURSIVE FillForCode(_, _)
FillForCode(s, table) ==
  IF Len(s.bits) >= MaxCode \/ HasCode(table, s.bits) THEN s
  ELSE IF left(s) = 0 THEN end_of_input(s)
  ELSE FillForCode(Take(s, 1), table)

LoadCode(s, table) ==
  IF Len(s.bits) >= MaxCode THEN s ELSE IF left(s) < 2 THEN FillForCode(s, table) ELSE Take(s, 2)

WithCode(s, c, F(_, _)) ==
  IF s.status # "Running" THEN s
  ELSE IF c[2] = 0 THEN Jump(s, "InvalidCodeLen") ELSE F(Skip(s, c[2]), c[1])

decode_huffman_code(s, t, F(_, _)) ==
  WithCode(LoadCode(s, s.tables[t]), lookup(s.tables[t], LoadCode(s, s.tables[t]).bits), F)

\* The code of a symbol, in the order of the stream: sizes[k] = size is the size of symbol k - 1
Symbols(sizes, size) == {k \in DOMAIN sizes : sizes[k] = size}
TotalTo(sizes, size) ==
  FoldLeft(LAMBDA total, cs : 2 * (total + Cardinality(Symbols(sizes, cs))), 0, [i \in 1..size |-> i])
NextCode(sizes, k) == TotalTo(sizes, sizes[k] - 1) + Cardinality({j \in Symbols(sizes, sizes[k]) : j < k})
CodeBits(sizes, k) == [i \in 1..sizes[k] |-> (NextCode(sizes, k) \div 2 ^ (sizes[k] - i)) % 2]

\* a code longer than FastBits: t.tree from its bit n + 1 on, with t.next the next free pair
RECURSIVE Plant(_, _, _, _, _)
Plant(t, cur, code, n, symbol) ==
  IF n + 1 = Len(code) THEN [t EXCEPT !.tree[-cur - 1 + code[n + 1]] = symbol]
  ELSE IF t.tree[-cur - 1 + code[n + 1]] = 0
  THEN Plant([t EXCEPT !.tree[-cur - 1 + code[n + 1]] = t.next, !.next = @ - 2], t.next, code, n + 1, symbol)
  ELSE Plant(t, t.tree[-cur - 1 + code[n + 1]], code, n + 1, symbol)

LongCode(t, i, code, symbol) ==
  IF t.look_up[i].sym < 0 THEN Plant(t, t.look_up[i].sym, code, FastBits, symbol)
  ELSE Plant([t EXCEPT !.look_up[i] = [sym |-> t.next, len |-> 0], !.next = @ - 2], t.next, code, FastBits, symbol)

AddCode(t, code, symbol) ==
  IF Len(code) > FastBits THEN LongCode(t, Value(First(code, FastBits)), code, symbol)
  ELSE [t EXCEPT !.look_up = [i \in DOMAIN @ |-> IF i % 2 ^ Len(code) = Value(code)
                                                 THEN [sym |-> symbol, len |-> Len(code)] ELSE @[i]]]

TableOf(sizes) ==
  FoldLeft(LAMBDA t, k : IF sizes[k] = 0 THEN t ELSE AddCode(t, CodeBits(sizes, k), k - 1),
           EmptyTable, [k \in DOMAIN sizes |-> k])

\* a code that is not complete is only taken when it has at most one symbol
BadTotal(sizes) ==
  TotalTo(sizes, MaxCode) # 2 ^ (MaxCode + 1) /\ Cardinality({k \in DOMAIN sizes : sizes[k] # 0}) > 1

InitTable(s, t) ==
  IF s.state = "BadTotalSymbols" \/ BadTotal(s.code_size[t]) THEN Jump(s, "BadTotalSymbols")
  ELSE [s EXCEPT !.tables[t] = TableOf(s.code_size[t])]

Started(s) == IF s.state = "BadTotalSymbols" THEN s ELSE [Jump(s, "DecodeLitlen") EXCEPT !.counter = 0]

\* block_type counts down over the distance and the literal table
init_tree(s) ==
  IF s.block_type = 2
  THEN IF BadTotal(s.code_size[HUFFLEN]) THEN Jump(s, "BadTotalSymbols")
       ELSE [Jump(InitTable(s, HUFFLEN), "ReadLitlenDistTablesCodeSize") EXCEPT !.counter = 0]
  ELSE Started(InitTable(InitTable(s, DIST), LITLEN))

start_static_table(s) == [s EXCEPT !.code_size[LITLEN] = STATIC_LITLEN, !.code_size[DIST] = STATIC_DIST]

-----------------------------------------------------------------------------
\* Matches: bytes are copied from src to pos in an output buffer that wraps at its length, or
\* (wrap = 0) does not wrap

Wrap(s) == IF "nonwrapping" \in s.flags THEN 0 ELSE Len(s.out)
Masked(p, wrap) == IF wrap = 0 THEN p ELSE p % wrap

\* one byte after the other: a byte that was copied can be copied again
RECURSIVE CopyBytes(_, _, _, _, _)
CopyBytes(out, src, pos, n, wrap) ==
  IF n = 0 THEN out
  ELSE CopyBytes([out EXCEPT ![pos + 1] = out[Masked(src, wrap) + 1]], src + 1, pos + 1, n - 1, wrap)

\* all at once, as copy_within and copy_from_slice do
CopySlice(out, src, pos, n) == Put(out, pos, SubSeq(out, src + 1, src + n))

RECURSIVE CopyFours(_, _, _, _)
CopyFours(out, src, pos, n) ==
  IF n < 4 THEN CopyBytes(out, src, pos, n, 0)
  ELSE CopyFours(CopySlice(out, src, pos, 4), src + 4, pos + 4, n - 4)

FillByte(out, pos, n) == Put(out, pos, [i \in 1..n |-> out[pos]])

transfer(out, src, pos, n, wrap) ==
  IF wrap = 0 /\ pos - src = 1
  THEN CopyBytes(FillByte(out, pos, 4 * (n \div 4)), pos + 4 * (n \div 4) - 1, pos + 4 * (n \div 4), n % 4, 0)
  ELSE IF wrap = 0 /\ pos - src >= 4 THEN CopyFours(out, src, pos, n)
  ELSE CopyBytes(out, src, pos, n, wrap)

\* apply_match from src, the masked position dist bytes back
MatchFrom(out, src, pos, dist, n, wrap) ==
  IF n = 3 THEN CopyBytes(out, src, pos, n, wrap)
  ELSE IF X86 /\ ~(src >= pos /\ src - pos < n) /\ n <= dist /\ src + n < Len(out)
  THEN CopySlice(out, src, pos, n)
  ELSE transfer(out, src, pos, n, wrap)

apply_match(out, pos, dist, n, wrap) == MatchFrom(out, Masked(pos - dist, wrap), pos, dist, n, wrap)

Matched(s) ==
  [s EXCEPT !.out = apply_match(s.out, s.pos, s.dist, s.counter, Wrap(s)), !.pos = @ + s.counter]

TooFar(s) == s.dist > s.pos /\ "nonwrapping" \in s.flags

-----------------------------------------------------------------------------
\* decompress_fast: while there is room for a literal and a whole match, the bits are looked up
\* without a check of the input

Fail(s, state) == End(Jump(s, state), "Failed")

ExtraBits(s, n) == Value(First(s.bits, n))

\* the distance is known
FastMatch(s) == IF TooFar(s) THEN Fail(s, "DistanceOutOfBounds") ELSE Matched(s)

FastExtraDistance(s) == FastMatch(Skip([s EXCEPT !.dist = @ + ExtraBits(s, s.num_extra)], s.num_extra))

FastDistance(s, c) ==
  IF c[2] = 0 THEN Fail(s, "InvalidCodeLen")
  ELSE IF c[1] >= Len(DIST_BASE) THEN Fail(Skip(s, c[2]), "InvalidDist")
  ELSE IF DIST_EXTRA[c[1] + 1] = 0 THEN FastMatch([Skip(s, c[2]) EXCEPT !.num_extra = 0, !.dist = DIST_BASE[c[1] + 1]])
  ELSE FastExtraDistance(fill_bit_buffer([Skip(s, c[2]) EXCEPT !.num_extra = DIST_EXTRA[c[1] + 1],
                                                               !.dist = DIST_BASE[c[1] + 1]]))

FastLengthBits(s) == Skip([s EXCEPT !.counter = @ + ExtraBits(s, s.num_extra)], s.num_extra)

FastThenDistance(s) == FastDistance(s, lookup(s.tables[DIST], s.bits))

\* the symbol in the counter is not a literal
FastLength(s) ==
  IF s.counter = Literals THEN Jump(s, "BlockDone")
  ELSE IF s.counter > MaxLitlen THEN Fail(s, "InvalidLitlen")
  ELSE FastThenDistance(FastLengthBits(fill_bit_buffer(
         [s EXCEPT !.num_extra = LENGTH_EXTRA[s.counter - Literals], !.counter = LENGTH_BASE[s.counter - Literals]])))

\* c is the code after the literal in the counter
FastSecond(s, c) ==
  IF c[2] = 0 THEN Fail(s, "InvalidCodeLen")
  ELSE IF c[1] >= Literals THEN FastLength([write_byte(Skip(s, c[2]), s.counter) EXCEPT !.counter = c[1]])
  ELSE write_byte(write_byte(Skip(s, c[2]), s.counter), c[1])

FastThenSecond(s) == FastSecond(s, lookup(s.tables[LITLEN], s.bits))

FastFirst(s, c) ==
  IF c[2] = 0 THEN Fail(s, "InvalidCodeLen")
  ELSE IF c[1] >= Literals THEN FastLength([Skip(s, c[2]) EXCEPT !.counter = c[1]])
  ELSE FastThenSecond([Skip(s, c[2]) EXCEPT !.counter = c[1]])

FastRoom(s) == bytes_left(s) >= FastOut /\ left(s) >= FastIn

FastThenFirst(s) == FastFirst(s, lookup(s.tables[LITLEN], s.bits))

RECURSIVE decompress_fast(_)
decompress_fast(s) ==
  IF s.status = "Running" /\ s.state = "DecodeLitlen" /\ FastRoom(s)
  THEN decompress_fast(FastThenFirst(fill_bit_buffer(s)))
  ELSE s

-----------------------------------------------------------------------------
\* The states of decompress. Each maps the record to the one after one pass of the state machine.

Start(s) ==
  Jump([s EXCEPT !.bits = <<>>, !.dist = 0, !.counter = 0, !.num_extra = 0, !.z_header0 = 0,
                 !.z_adler32 = 1, !.check_adler32 = 1],
       IF "zlib" \in s.flags THEN "ReadZlibCmf" ELSE "ReadBlockHeader")

ReadZlibCmf(s) == read_byte(s, LAMBDA t, cmf : [Jump(t, "ReadZlibFlg") EXCEPT !.z_header0 = cmf])

validate_zlib_header(cmf, flg, wrap) ==
  IF \/ (cmf * Literals + flg) % HeaderMod # 0
     \/ (flg \div DictBit) % 2 # 0
     \/ cmf % MethodMod # Method
     \/ wrap # 0 /\ wrap < WindowOf(cmf)
     \/ WindowOf(cmf) > MaxWindow
  THEN "BadZlibHeader" ELSE "ReadBlockHeader"

ReadZlibFlg(s) == read_byte(s, LAMBDA t, flg : Jump(t, validate_zlib_header(t.z_header0, flg, Wrap(t))))

Header(s, bits) == [s EXCEPT !.finish = bits % 2, !.block_type = bits \div 2]

ReadBlockHeader(s) ==
  read_bits(s, 3, LAMBDA t, bits :
    CASE bits \div 2 = 0 -> Jump(Header(t, bits), "BlockTypeNoCompression")
      [] bits \div 2 = 1 -> init_tree(start_static_table(Header(t, bits)))
      [] bits \div 2 = 2 -> [Jump(Header(t, bits), "ReadTableSizes") EXCEPT !.counter = 0]
      [] bits \div 2 = 3 -> Jump(Header(t, bits), "BlockTypeUnexpected"))

BlockTypeNoCompression(s) == pad_to_bytes(s, LAMBDA t : [Jump(t, "RawHeader") EXCEPT !.counter = 0, !.raw_header = <<>>])

\* a byte, from the bit buffer as long as it holds any
NextByte(s, F(_, _)) == IF s.bits # <<>> THEN read_bits(s, ByteBits, F) ELSE read_byte(s, F)

RawLength(h) == h[1] + Literals * h[2]
RawCheck(h) == Literals * Literals - 1 - (h[3] + Literals * h[4])

RawHeader(s) ==
  IF s.counter < 4
  THEN NextByte(s, LAMBDA t, b : [t EXCEPT !.raw_header = Append(@, b), !.counter = @ + 1])
  ELSE Jump([s EXCEPT !.counter = RawLength(s.raw_header)],
            IF RawLength(s.raw_header) # RawCheck(s.raw_header) THEN "BadRawLength"
            ELSE IF RawLength(s.raw_header) = 0 THEN "BlockDone"
            ELSE IF s.bits # <<>> THEN "RawReadFirstByte"
            ELSE "RawMemcpy1")

RawReadFirstByte(s) == read_bits(s, ByteBits, LAMBDA t, b : [Jump(t, "RawStoreFirstByte") EXCEPT !.dist = b])

RawStoreFirstByte(s) ==
  IF bytes_left(s) = 0 THEN End(s, "HasMoreOutput")
  ELSE Jump([write_byte(s, s.dist) EXCEPT !.counter = @ - 1],
            IF s.counter = 1 \/ s.bits = <<>> THEN "RawMemcpy1" ELSE "RawReadFirstByte")

RawMemcpy1(s) ==
  IF s.counter = 0 THEN Jump(s, "BlockDone")
  ELSE IF bytes_left(s) = 0 THEN End(s, "HasMoreOutput")
  ELSE Jump(s, "RawMemcpy2")

RawCopied(s, n) ==
  [s EXCEPT !.out = Put(s.out, s.pos, SubSeq(s.in, s.ip + 1, s.ip + n)),
            !.pos = @ + n, !.ip = @ + n, !.counter = @ - n, !.state = "RawMemcpy1"]

RawMemcpy2(s) ==
  IF left(s) = 0 THEN end_of_input(s) ELSE RawCopied(s, Min({bytes_left(s), left(s), s.counter}))

ReadTableSizes(s) ==
  IF s.counter < 3
  THEN read_bits(s, SizeBits[s.counter + 1], LAMBDA t, bits :
         [t EXCEPT !.table_sizes[t.counter + 1] = bits + MIN_TABLE_SIZES[t.counter + 1], !.counter = @ + 1])
  ELSE Jump([s EXCEPT !.code_size[HUFFLEN] = [i \in 1..Len(HUFFMAN_LENGTH_ORDER) |-> 0], !.counter = 0,
                      !.len_codes = <<>>],
            IF s.table_sizes[LITLEN] <= LitlenMax /\ s.table_sizes[DIST] <= DistMax
            THEN "ReadHufflenTableCodeSize" ELSE "BadDistOrLiteralTableLength")

ReadHufflenTableCodeSize(s) ==
  IF s.counter < s.table_sizes[HUFFLEN]
  THEN read_bits(s, HufflenBits, LAMBDA t, bits :
         [t EXCEPT !.code_size[HUFFLEN][HUFFMAN_LENGTH_ORDER[t.counter + 1] + 1] = bits, !.counter = @ + 1])
  ELSE init_tree([s EXCEPT !.table_sizes[HUFFLEN] = Len(HUFFMAN_LENGTH_ORDER)])

\* The sizes of both tables, the first len_codes up to the counter; symbols above MaxCode repeat.
TotalSizes(s) == s.table_sizes[LITLEN] + s.table_sizes[DIST]

ReadLitlenDistTablesCodeSize(s) ==
  IF s.counter < TotalSizes(s)
  THEN decode_huffman_code(s, HUFFLEN, LAMBDA t, symbol :
         IF symbol <= MaxCode
         THEN [t EXCEPT !.dist = symbol, !.len_codes = Append(@, symbol), !.counter = @ + 1]
         ELSE IF symbol = MaxCode + 1 /\ t.counter = 0
         THEN [Jump(t, "BadCodeSizeDistPrevLookup") EXCEPT !.dist = symbol]
         ELSE [Jump(t, "ReadExtraBitsCodeSize") EXCEPT !.dist = symbol, !.num_extra = RepeatExtra[symbol - MaxCode]])
  ELSE IF s.counter # TotalSizes(s) THEN Jump(s, "BadCodeSizeSum")
  ELSE init_tree([s EXCEPT !.code_size[LITLEN] = SubSeq(s.len_codes, 1, s.table_sizes[LITLEN]),
                           !.code_size[DIST] = SubSeq(s.len_codes, s.table_sizes[LITLEN] + 1, s.counter),
                           !.block_type = 1])

Repeated(s, val, n) == [s EXCEPT !.len_codes = @ \o [i \in 1..n |-> val], !.counter = @ + n,
                                 !.state = "ReadLitlenDistTablesCodeSize"]

ReadExtraBitsCodeSize(s) ==
  read_bits(s, s.num_extra, LAMBDA t, bits :
    Repeated(t, IF t.dist = MaxCode + 1 THEN t.len_codes[t.counter] ELSE 0, bits + RepeatBase[t.dist - MaxCode]))

\* without room for the fast path, but with four bytes of input: up to two literals
SlowSecond(s, c) ==
  IF c[2] = 0 THEN Jump(s, "InvalidCodeLen")
  ELSE IF c[1] >= Literals
  THEN [Jump(write_byte(Skip(s, c[2]), s.counter), "HuffDecodeOuterLoop1") EXCEPT !.counter = c[1]]
  ELSE write_byte(write_byte(Skip(s, c[2]), s.counter), c[1])

SlowThenSecond(s) == SlowSecond(s, lookup(s.tables[LITLEN], s.bits))

SlowFirst(s, c) ==
  IF c[2] = 0 THEN Jump(s, "InvalidCodeLen")
  ELSE IF c[1] >= Literals THEN [Jump(Skip(s, c[2]), "HuffDecodeOuterLoop1") EXCEPT !.counter = c[1]]
  ELSE SlowThenSecond([Skip(s, c[2]) EXCEPT !.counter = c[1]])

SlowThenFirst(s) == SlowFirst(s, lookup(s.tables[LITLEN], s.bits))

DecodeLitlen(s) ==
  IF left(s) < 4 \/ bytes_left(s) < 2
  THEN decode_huffman_code(s, LITLEN, LAMBDA t, symbol : [Jump(t, "WriteSymbol") EXCEPT !.counter = symbol])
  ELSE IF FastRoom(s) THEN decompress_fast(s)
  ELSE SlowThenFirst(fill_bit_buffer(s))

WriteSymbol(s) ==
  IF s.counter >= Literals THEN Jump(s, "HuffDecodeOuterLoop1")
  ELSE IF bytes_left(s) > 0 THEN Jump(write_byte(s, s.counter), "DecodeLitlen")
  ELSE End(s, "HasMoreOutput")

HuffDecodeOuterLoop1(s) ==
  IF s.counter = Literals THEN Jump(s, "BlockDone")
  ELSE IF s.counter > MaxLitlen THEN Jump(s, "InvalidLitlen")
  ELSE Jump([s EXCEPT !.num_extra = LENGTH_EXTRA[s.counter - Literals], !.counter = LENGTH_BASE[s.counter - Literals]],
            IF LENGTH_EXTRA[s.counter - Literals] # 0 THEN "ReadExtraBitsLitlen" ELSE "DecodeDistance")

ReadExtraBitsLitlen(s) ==
  read_bits(s, s.num_extra, LAMBDA t, bits : [Jump(t, "DecodeDistance") EXCEPT !.counter = @ + bits])

DecodeDistance(s) ==
  decode_huffman_code(s, DIST, LAMBDA t, symbol :
    IF symbol >= Len(DIST_BASE) THEN Jump(t, "InvalidDist")
    ELSE Jump([t EXCEPT !.num_extra = DIST_EXTRA[symbol + 1], !.dist = DIST_BASE[symbol + 1]],
              IF DIST_EXTRA[symbol + 1] # 0 THEN "ReadExtraBitsDistance" ELSE "HuffDecodeOuterLoop2"))

ReadExtraBitsDistance(s) ==
  read_bits(s, s.num_extra, LAMBDA t, bits : [Jump(t, "HuffDecodeOuterLoop2") EXCEPT !.dist = @ + bits])

\* the match does not fit, or the wrapped source runs into the output
WrapsInto(s, src) == src >= s.pos /\ src - s.pos < s.counter

HuffDecodeOuterLoop2(s) ==
  IF TooFar(s) THEN Jump(s, "DistanceOutOfBounds")
  ELSE IF s.counter > bytes_left(s) \/ WrapsInto(s, Masked(s.pos - s.dist, Wrap(s)))
  THEN Jump(s, IF s.counter = 0 THEN "DecodeLitlen" ELSE "WriteLenBytesToEnd")
  ELSE Jump(Matched(s), "DecodeLitlen")

Transferred(s, n) ==
  [s EXCEPT !.out = transfer(s.out, Masked(s.pos - s.dist, Wrap(s)), s.pos, n, Wrap(s)), !.pos = @ + n,
            !.counter = @ - n, !.state = IF s.counter = n THEN "DecodeLitlen" ELSE @]

WriteLenBytesToEnd(s) ==
  IF bytes_left(s) = 0 THEN End(s, "HasMoreOutput") ELSE Transferred(s, Min({bytes_left(s), s.counter}))

\* the end of the last block: bytes that were read ahead are given back to the input
BlockDone(s) ==
  IF s.finish = 0 THEN Jump(s, "ReadBlockHeader")
  ELSE pad_to_bytes(s, LAMBDA t :
         [Jump(Undo(t, undo_bytes(t, t.ip)), IF "zlib" \in s.flags THEN "ReadAdler32" ELSE "DoneForever") EXCEPT
            !.counter = IF "zlib" \in s.flags THEN 0 ELSE @,
            !.aligned = Undo(t, undo_bytes(t, t.ip)).bits = <<>>])

ReadAdler32(s) ==
  IF s.counter < 4
  THEN NextByte(s, LAMBDA t, b : [t EXCEPT !.z_adler32 = (@ * Literals + b) % AdlerBase ^ 2, !.counter = @ + 1])
  ELSE Jump(s, "DoneForever")

-----------------------------------------------------------------------------
\* A call

States == {"Start", "ReadZlibCmf", "ReadZlibFlg", "ReadBlockHeader", "BlockTypeNoCompression", "RawHeader",
  "RawReadFirstByte", "RawStoreFirstByte", "RawMemcpy1", "RawMemcpy2", "ReadTableSizes",
  "ReadHufflenTableCodeSize", "ReadLitlenDistTablesCodeSize", "ReadExtraBitsCodeSize", "DecodeLitlen",
  "WriteSymbol", "HuffDecodeOuterLoop1", "ReadExtraBitsLitlen", "DecodeDistance", "ReadExtraBitsDistance",
  "HuffDecodeOuterLoop2", "WriteLenBytesToEnd", "BlockDone", "ReadAdler32", "DoneForever"}

Step(s) ==
  CASE s.state = "Start" -> Start(s)
    [] s.state = "ReadZlibCmf" -> ReadZlibCmf(s)
    [] s.state = "ReadZlibFlg" -> ReadZlibFlg(s)
    [] s.state = "ReadBlockHeader" -> ReadBlockHeader(s)
    [] s.state = "BlockTypeNoCompression" -> BlockTypeNoCompression(s)
    [] s.state = "RawHeader" -> RawHeader(s)
    [] s.state = "RawReadFirstByte" -> RawReadFirstByte(s)
    [] s.state = "RawStoreFirstByte" -> RawStoreFirstByte(s)
    [] s.state = "RawMemcpy1" -> RawMemcpy1(s)
    [] s.state = "RawMemcpy2" -> RawMemcpy2(s)
    [] s.state = "ReadTableSizes" -> ReadTableSizes(s)
    [] s.state = "ReadHufflenTableCodeSize" -> ReadHufflenTableCodeSize(s)
    [] s.state = "ReadLitlenDistTablesCodeSize" -> ReadLitlenDistTablesCodeSize(s)
    [] s.state = "ReadExtraBitsCodeSize" -> ReadExtraBitsCodeSize(s)
    [] s.state = "DecodeLitlen" -> DecodeLitlen(s)
    [] s.state = "WriteSymbol" -> WriteSymbol(s)
    [] s.state = "HuffDecodeOuterLoop1" -> HuffDecodeOuterLoop1(s)
    [] s.state = "ReadExtraBitsLitlen" -> ReadExtraBitsLitlen(s)
    [] s.state = "DecodeDistance" -> DecodeDistance(s)
    [] s.state = "ReadExtraBitsDistance" -> ReadExtraBitsDistance(s)
    [] s.state = "HuffDecodeOuterLoop2" -> HuffDecodeOuterLoop2(s)
    [] s.state = "WriteLenBytesToEnd" -> WriteLenBytesToEnd(s)
    [] s.state = "BlockDone" -> BlockDone(s)
    [] s.state = "ReadAdler32" -> ReadAdler32(s)
    [] s.state = "DoneForever" -> End(s, "Done")
    [] s.state \notin States -> End(s, "Failed")

RECURSIVE Run(_)
Run(s) == IF s.status = "Running" THEN Run(Step(s)) ELSE s

\* read-ahead is given back, unless the bits of the input are part of what is missing
GiveBack(s) ==
  IF s.status \in {"NeedsMoreInput", "FailedCannotMakeProgress"} THEN s ELSE Undo(s, undo_bytes(s, s.ip))

FullFirst(s) ==
  IF s.status = "NeedsMoreInput" /\ bytes_left(s) = 0 /\ s.state # "ReadAdler32" THEN End(s, "HasMoreOutput") ELSE s

\* Adler-32: the sum of the bytes, and the sum of that sum after every byte
RECURSIVE Total(_)
Total(seq) ==
  IF Len(seq) <= 1 THEN IF seq = <<>> THEN 0 ELSE seq[1]
  ELSE Total(SubSeq(seq, 1, Len(seq) \div 2)) + Total(SubSeq(seq, Len(seq) \div 2 + 1, Len(seq)))

update_adler32(adler, data) ==
  (((adler % AdlerBase) + Total(data)) % AdlerMod)
  + AdlerBase * (((adler \div AdlerBase) + Len(data) * (adler % AdlerBase)
                  + Total([i \in DOMAIN data |-> (Len(data) - i + 1) * data[i]])) % AdlerMod)

Checked(s) == IF s.status = "Done" /\ "zlib" \in s.flags /\ s.check_adler32 # s.z_adler32 THEN End(s, "Adler32Mismatch") ELSE s

WithAdler(s, from) ==
  IF /\ "ignore" \notin s.flags
     /\ s.flags \cap {"zlib", "adler"} # {}
     /\ s.status \in {"Done", "NeedsMoreInput", "HasMoreOutput"}
  THEN Checked([s EXCEPT !.check_adler32 = update_adler32(@, SubSeq(s.out, from + 1, s.pos))])
  ELSE s

PowerOfTwo(n) == n = 0 \/ \E k \in 0..n : n = 2 ^ k

\* DecompressorOxide::new
NewDecompressor ==
  [state |-> "Start", bits |-> <<>>, dist |-> 0, counter |-> 0, num_extra |-> 0, finish |-> 0, block_type |-> 0,
   z_header0 |-> 0, z_adler32 |-> 0, check_adler32 |-> 0, table_sizes |-> <<0, 0, 0>>,
   code_size |-> <<<<>>, <<>>, <<>>>>, tables |-> <<EmptyTable, EmptyTable, EmptyTable>>,
   raw_header |-> <<>>, len_codes |-> <<>>, aligned |-> TRUE]

Call(in_buf, out, out_pos, flags) ==
  [in |-> in_buf, ip |-> 0, out |-> out, pos |-> out_pos, flags |-> flags, status |-> "Running"]

Result(r, s, pos) ==
  [r |-> [f \in DOMAIN r |-> s[f]], status |-> s.status, in |-> s.ip, written |-> s.pos - pos, out |-> s.out]

\* the decompressor after the call, its status, the bytes it has read and written, and the output
decompress(r, in_buf, out, out_pos, flags) ==
  IF ("nonwrapping" \notin flags /\ ~PowerOfTwo(Len(out))) \/ out_pos > Len(out)
  THEN [r |-> r, status |-> "BadParam", in |-> 0, written |-> 0, out |-> out]
  ELSE Result(r, WithAdler(FullFirst(GiveBack(Run(r @@ Call(in_buf, out, out_pos, flags)))), out_pos), out_pos)
=============================================================================
