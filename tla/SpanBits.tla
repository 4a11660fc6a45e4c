------------------------------ MODULE SpanBits ------------------------------
(***************************************************************************)
(* The bitlists of a span batch (crates/derive, batch/span_batch/bits.rs): *)
(* a big-endian list of bytes whose bit 0 is the lowest bit of the LAST    *)
(* byte. A byte is the set of its bits that are set. Encoders and decoders *)
(* return a set: {} stands for an error, {x} for Ok(x).                    *)
(***************************************************************************)
EXTENDS Naturals, Sequences, FiniteSetsExt, SequencesExt

CONSTANTS
  U8Bits     \* bits of a byte (8)

ASSUME U8BitsAssumption == U8Bits \in Nat \ {0}

OkIf(cond, x) == IF cond THEN {x} ELSE {}

Byte(bits) == <<"byte", bits>>
Zeros(n) == [i \in 1..n |-> {}]

\* number of bytes of a bitlist of n bits
BufferLen(n) == n \div U8Bits + (IF n % U8Bits # 0 THEN 1 ELSE 0)

\* Mutant: the new bytes are appended, as in a little-endian list
resize_from_left(bits, size) == bits \o Zeros(size - Len(bits))

\* new bytes come first, as the number is big-endian
resize_from_right(bits, size) == Zeros(size - Len(bits)) \o bits

set_bit(bits, index, value) ==
  LET b == IF index \div U8Bits >= Len(bits)
           THEN resize_from_right(bits, index \div U8Bits + 1) ELSE bits
      i == Len(b) - index \div U8Bits
  IN  [b EXCEPT ![i] = IF value THEN @ \cup {index % U8Bits} ELSE @ \ {index % U8Bits}]

\* {} for None
get_bit(bits, index) ==
  IF index \div U8Bits >= Len(bits) THEN {}
  ELSE {IF index % U8Bits \in bits[Len(bits) - index \div U8Bits] THEN 1 ELSE 0}

\* position of the highest bit that is set, plus one; 0 when there is none
bit_len(bits) ==
  IF \A i \in DOMAIN bits : bits[i] = {} THEN 0
  ELSE LET i == Min({j \in DOMAIN bits : bits[j] # {}})
       IN  Max(bits[i]) + 1 + (Len(bits) - i) * U8Bits

count_ones(bits) == FoldLeft(LAMBDA n, b : n + Cardinality(b), 0, bits)

\* SpanBatchBits::encode and ::decode; a bitlist cut short by the end of the input is filled
\* up with zero bytes
encode_bits(n, bits) ==
  OkIf(bit_len(bits) <= n, [i \in 1..BufferLen(n) |-> Byte(resize_from_right(bits, BufferLen(n))[i])])

decode_bits(r, n) ==
  LET have == IF Len(r) < BufferLen(n) THEN Len(r) ELSE BufferLen(n)
      bits == [i \in 1..BufferLen(n) |-> IF i <= have THEN r[i][2] ELSE {}]
  IN  OkIf(bit_len(bits) <= n, [v |-> bits, r |-> SubSeq(r, have + 1, Len(r))])
=============================================================================
