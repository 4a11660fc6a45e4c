--------------------------- MODULE DeflateFormat ---------------------------
(***************************************************************************)
(* The format that the decompressor reads, stated on its own: which bytes  *)
(* stand for a sequence of blocks, and which data these stand for. A token *)
(* is <<b>>, a literal, or <<length, distance>>, a match. The reference    *)
(* that the decompressor is compared with; it translates no code.          *)
(***************************************************************************)
EXTENDS Decompress

Field(v, n) == [i \in 1..n |-> (v \div 2 ^ (i - 1)) % 2]

\* the canonical code of symbol k: the codes before it, of shorter symbols and of smaller ones
Before(sizes, k) == {j \in DOMAIN sizes : sizes[j] \in 1..sizes[k] /\ (sizes[j] = sizes[k] => j < k)}
CodeNumber(sizes, k) == MapThenSumSet(LAMBDA j : 2 ^ (sizes[k] - sizes[j]), Before(sizes, k))
Code(sizes, k) == [i \in 1..sizes[k] |-> (CodeNumber(sizes, k) \div 2 ^ (sizes[k] - i)) % 2]

\* the entry of a table of bases that v belongs to
Slot(base, extra, v) == CHOOSE i \in DOMAIN base : v \in base[i] .. base[i] + 2 ^ extra[i] - 1

MatchBits(litlen, dist, len, d, i, j) ==
  Code(litlen, Literals + 1 + i) \o Field(len - LENGTH_BASE[i], LENGTH_EXTRA[i])
    \o Code(dist, j) \o Field(d - DIST_BASE[j], DIST_EXTRA[j])

TokenBits(litlen, dist, token) ==
  IF Len(token) = 1 THEN Code(litlen, token[1] + 1)
  ELSE MatchBits(litlen, dist, token[1], token[2], Slot(LENGTH_BASE, LENGTH_EXTRA, token[1]),
                 Slot(DIST_BASE, DIST_EXTRA, token[2]))

TokensBits(litlen, dist, tokens) ==
  FlattenSeq([i \in DOMAIN tokens |-> TokenBits(litlen, dist, tokens[i])]) \o Code(litlen, Literals + 1)

Pad(bits) == bits \o [i \in 1 .. (ByteBits - (Len(bits) % ByteBits)) % ByteBits |-> 0]
Complement(v) == Literals ^ 2 - 1 - v

\* the blocks: [kind, ...] with the tokens, or the bytes of a raw one
RawBits(bits, block) ==
  Pad(bits) \o Field(Len(block.bytes), 2 * ByteBits) \o Field(Complement(Len(block.bytes)), 2 * ByteBits)
    \o FlattenSeq([i \in DOMAIN block.bytes |-> Field(block.bytes[i], ByteBits)])

\* the sizes of a dynamic block are given as <<size>>, or <<repeat code, count>>
SizeToken(hufflen, token) ==
  IF Len(token) = 1 THEN Code(hufflen, token[1] + 1)
  ELSE Code(hufflen, token[1] + 1) \o Field(token[2] - RepeatBase[token[1] - MaxCode], RepeatExtra[token[1] - MaxCode])

DynamicHeader(block) ==
  Field(Len(block.litlen) - MIN_TABLE_SIZES[1], SizeBits[1]) \o Field(Len(block.dist) - MIN_TABLE_SIZES[2], SizeBits[2])
    \o Field(Len(block.hufflen) - MIN_TABLE_SIZES[3], SizeBits[3])
    \o FlattenSeq([i \in DOMAIN block.hufflen |-> Field(block.hufflen[HUFFMAN_LENGTH_ORDER[i] + 1], HufflenBits)])
    \o FlattenSeq([i \in DOMAIN block.sizes |-> SizeToken(block.hufflen, block.sizes[i])])

AddBlock(bits, block, final) ==
  CASE block.kind = "raw" -> RawBits(bits \o <<final, 0, 0>>, block)
    [] block.kind = "static" -> bits \o <<final, 1, 0>> \o TokensBits(STATIC_LITLEN, STATIC_DIST, block.tokens)
    [] block.kind = "dynamic" ->
         bits \o <<final, 0, 1>> \o DynamicHeader(block) \o TokensBits(block.litlen, block.dist, block.tokens)
    [] block.kind = "bits" -> bits \o <<final>> \o block.bits

BlocksBits(blocks) ==
  FoldLeft(LAMBDA bits, i : AddBlock(bits, blocks[i], IF i = Len(blocks) THEN 1 ELSE 0), <<>>,
           [i \in DOMAIN blocks |-> i])

Bytes(bits) == [i \in 1 .. Len(bits) \div ByteBits |-> Value(SubSeq(bits, (i - 1) * ByteBits + 1, i * ByteBits))]

-----------------------------------------------------------------------------
\* the data of the blocks

\* a match repeats the last d bytes as often as its length asks for
Copied(data, len, d) ==
  data \o [i \in 1..len |-> data[Len(data) - d + 1 + ((i - 1) % d)]]

Expand(data, tokens) ==
  FoldLeft(LAMBDA sofar, t : IF Len(t) = 1 THEN Append(sofar, t[1]) ELSE Copied(sofar, t[1], t[2]), data, tokens)

DataOf(blocks) ==
  FoldLeft(LAMBDA sofar, b : CASE b.kind = "raw" -> sofar \o b.bytes
                               [] b.kind \in {"static", "dynamic"} -> Expand(sofar, b.tokens)
                               [] b.kind = "bits" -> sofar \o b.data, <<>>, blocks)

\* the checksum, its upper bytes first
Trailer(v) == [i \in 1..4 |-> (v \div Literals ^ (4 - i)) % Literals]

ZlibHeader == <<1, 2>>

StreamOf(format, blocks, check, valid) ==
  [format |-> format, data |-> DataOf(blocks), valid |-> valid,
   bytes |-> IF format = "Raw" THEN Bytes(Pad(BlocksBits(blocks)))
             ELSE ZlibHeader \o Bytes(Pad(BlocksBits(blocks))) \o Trailer(check)]

RawStream(blocks, valid) == StreamOf("Raw", blocks, 0, valid)
Adler(data) == update_adler32(1, data)
ZlibStream(blocks) == StreamOf("Zlib", blocks, Adler(DataOf(blocks)), TRUE)
=============================================================================
