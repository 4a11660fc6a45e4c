--------------------------- MODULE BatchQueueProofs ---------------------------
(***************************************************************************)
(* What BatchQueue promises for every L1 chain, configuration, content of  *)
(* the channels and number of resets.                                      *)
(*                                                                         *)
(* The window is a run of L1 blocks that ends at the origin of the stage   *)
(* (WindowOk), and where it starts, relative to the epoch of the safe head,*)
(* follows from the last reset (AlignOk): while the origin is behind that  *)
(* epoch the window is empty or the block of the reset; then it starts at  *)
(* the epoch or at the block after it, or one before it until the next     *)
(* call has drained it. OutOk says what is known of a batch that was       *)
(* returned, ReadOk how far the L1 data have been read.                    *)
(***************************************************************************)
EXTENDS BatchQueue, WellFoundedInduction, TLAPS

L1Numbers == 0 .. MaxL1

\* A run of consecutive L1 blocks that ends at o.
IsRun(w, o) == w \in Seq(L1Numbers) /\ \A i \in 1 .. Len(w) : w[i] = o - Len(w) + i

WindowOk ==
    /\ l1 \in L1Numbers /\ origin \in L1Numbers /\ l1 \in {origin, origin + 1}
    /\ IsRun(l1_blocks, origin)
    /\ l1_blocks = <<>> => origin < parent.epoch

HeadOk == parent.number \in Nat /\ parent.timestamp \in Nat /\ parent.epoch \in L1Numbers

Entries == [batch : Batches, inclusion : L1Numbers]

\* A batch is returned: it names the first or the second block of the window, by its hash too
\* unless the safe head is the genesis block.
OutOk ==
    res = "Batch" =>
        /\ l1_blocks # <<>>
        /\ out.parent_hash = parent.number
        /\ out.epoch_num \in {l1_blocks[1], l1_blocks[1] + 1}
        /\ out.epoch_num # l1_blocks[1] => Len(l1_blocks) >= 2
        /\ parent.number # 0 => out.epoch_hash = out.epoch_num

\* Eof is only returned when all of the L1 block has been read.
ReadOk ==
    /\ drained \in Int /\ l1 - 1 <= drained
    /\ res = "Eof" => drained = l1 /\ origin = l1

AlignOk ==
    GoodStart =>
        /\ res # "Reset"
        /\ origin < parent.epoch => l1_blocks = <<>> \/ (Len(l1_blocks) = 1 /\ origin <= parent.epoch - 2)
        /\ origin >= parent.epoch => l1_blocks[1] \in {parent.epoch - 1, parent.epoch, parent.epoch + 1}
        /\ res = "Batch" => origin >= parent.epoch /\ l1_blocks[1] # parent.epoch - 1

\* No u64 addition of this stage to an L1 block number overflows.
NoOverflow == MaxL1 + SeqWindow <= U64Max

IInv ==
    /\ WindowOk /\ HeadOk /\ batches \in Seq(Entries)
    /\ reader \in BOOLEAN /\ start.origin \in Int /\ start.epoch \in Int
    /\ res \in {"None", "Batch", "Eof", "Err", "Reset"}
    /\ res # "Batch" => out = NoBatch
    /\ OutOk /\ ReadOk /\ AlignOk
    /\ NoOverflow => ForcedAfterWindow
-----------------------------------------------------------------------------
\* A set of numbers that is not empty has a least element.
LEMMA LeastNat ==
    ASSUME NEW S, S \subseteq Nat, S # {}
    PROVE  \E x \in S : \A y \in S : x <= y
<1> DEFINE R == {p \in Nat \X Nat : p[1] < p[2]}
<1>1. IsWellFoundedOn(R, Nat)
  BY NatLessThanWellFounded DEF OpToRel
<1>2. PICK x \in S : \A y \in S : ~(<<y, x>> \in R)
  BY <1>1, WFMin
<1>3. ASSUME NEW y \in S, y < x
      PROVE  FALSE
  <2>1. <<y, x>> \in Nat \X Nat /\ <<y, x>>[1] = y /\ <<y, x>>[2] = x
    OBVIOUS
  <2>2. <<y, x>> \in R
    BY <1>3, <2>1
  <2> QED BY <1>2, <2>2
<1> QED BY <1>3

\* The ends of a run.
LEMMA RunEnds ==
    ASSUME NEW w, NEW o \in Int, IsRun(w, o), w # <<>>
    PROVE  /\ Len(w) \in Nat /\ Len(w) >= 1
           /\ w[1] \in L1Numbers /\ w[1] \in Nat /\ w[1] = o - Len(w) + 1
           /\ Len(w) >= 2 => w[2] \in L1Numbers /\ w[2] = w[1] + 1
<1>1. w \in Seq(L1Numbers) /\ Len(w) \in Nat /\ Len(w) >= 1
  BY DEF IsRun
<1>2. w[1] \in L1Numbers /\ w[1] = o - Len(w) + 1
  BY <1>1 DEF IsRun
<1>3. Len(w) >= 2 => w[2] \in L1Numbers /\ w[2] = o - Len(w) + 2
  BY <1>1 DEF IsRun
<1> QED BY <1>1, <1>2, <1>3, L1TimestampAssumption DEF L1Numbers

\* What is left of a run after its first blocks have been drained is a run to the same end.
LEMMA RunSuffix ==
    ASSUME NEW w, NEW o \in Int, IsRun(w, o), NEW k \in 1 .. Len(w)
    PROVE  LET v == SubSeq(w, k, Len(w))
           IN  IsRun(v, o) /\ v # <<>> /\ v[1] = w[k]
<1> DEFINE v == SubSeq(w, k, Len(w))
<1>1. w \in Seq(L1Numbers) /\ Len(w) \in Nat
  BY DEF IsRun
<1>2. v \in Seq(L1Numbers) /\ Len(v) = Len(w) - k + 1 /\ \A i \in 1 .. Len(v) : v[i] = w[k + i - 1]
  BY <1>1
<1> HIDE DEF v
<1>3. \A i \in 1 .. Len(v) : v[i] = o - Len(v) + i
  BY <1>1, <1>2 DEF IsRun
<1>4. v # <<>> /\ v[1] = w[k]
  BY <1>1, <1>2
<1> QED BY <1>2, <1>3, <1>4 DEF IsRun, v

\* A run of at least two blocks without its first one is a run (l1_blocks.remove(0)).
LEMMA RunTail ==
    ASSUME NEW w, NEW o \in Int, IsRun(w, o), Len(w) >= 2
    PROVE  IsRun(Tail(w), o) /\ Tail(w) # <<>> /\ Tail(w)[1] = w[1] + 1
<1>1. w \in Seq(L1Numbers) /\ Len(w) \in Nat /\ w # <<>>
  BY DEF IsRun
<1>2. Tail(w) \in Seq(L1Numbers) /\ Len(Tail(w)) = Len(w) - 1
      /\ \A i \in 1 .. Len(w) - 1 : Tail(w)[i] = w[i + 1]
  BY <1>1
<1>3. \A i \in 1 .. Len(Tail(w)) : Tail(w)[i] = o - Len(Tail(w)) + i
  BY <1>1, <1>2 DEF IsRun
<1>4. Tail(w) # <<>> /\ Tail(w)[1] = w[2]
  BY <1>1, <1>2
<1> QED BY <1>1, <1>2, <1>3, <1>4, RunEnds DEF IsRun

\* The next L1 block continues a run.
LEMMA RunAppend ==
    ASSUME NEW w, NEW o \in Int, IsRun(w, o), o + 1 \in L1Numbers
    PROVE  LET v == Append(w, o + 1)
           IN  IsRun(v, o + 1) /\ v # <<>> /\ v[1] = IF w = <<>> THEN o + 1 ELSE w[1]
<1> DEFINE v == Append(w, o + 1)
<1>1. w \in Seq(L1Numbers) /\ Len(w) \in Nat
  BY DEF IsRun
<1>2. v \in Seq(L1Numbers) /\ Len(v) = Len(w) + 1
      /\ \A i \in 1 .. Len(v) : v[i] = IF i <= Len(w) THEN w[i] ELSE o + 1
  BY <1>1
<1> HIDE DEF v
<1>3. \A i \in 1 .. Len(v) : v[i] = (o + 1) - Len(v) + i
  BY <1>1, <1>2 DEF IsRun
<1>4. v # <<>> /\ v[1] = IF w = <<>> THEN o + 1 ELSE w[1]
  BY <1>1, <1>2
<1> QED BY <1>2, <1>3, <1>4 DEF IsRun, v

\* A u64 addition is the sum unless it overflows, and then less.
LEMMA AddOk ==
    ASSUME NEW x \in Nat, NEW y \in Nat
    PROVE  /\ Add(x, y) \in Nat /\ Add(x, y) <= x + y
           /\ x + y <= U64Max => Add(x, y) = x + y
<1> DEFINE a == x + y
           m == U64Max + 1
<1>1. a \in Nat /\ m \in Nat /\ m > 0
  BY ConfigAssumption
<1> HIDE DEF a, m
<1>2. a % m \in Nat /\ a % m < m /\ (a < m => a % m = a)
  BY <1>1
<1>3. a % m <= a
  BY <1>1, <1>2
<1>4. Add(x, y) = a % m
  BY DEF Add, a, m
<1>5. x + y <= U64Max => a < m
  BY ConfigAssumption DEF a, m
<1>6. a = x + y
  BY DEF a
<1> QED BY <1>2, <1>3, <1>4, <1>5, <1>6

\* check_batch has four results.
LEMMA CheckBatchResults ==
    ASSUME NEW b, NEW w, NEW head, NEW inclusion
    PROVE  CheckBatch(b, w, head, inclusion) \in {"Accept", "Drop", "Undecided", "Past"}
  BY DEF CheckBatch, CheckDrift
-----------------------------------------------------------------------------
\* Of a batch that is accepted the epoch is the first or the second block of the window, and
\* so is its hash unless the safe head is the genesis block.
LEMMA AcceptedBatch ==
    ASSUME NEW b \in Batches, NEW w, NEW o \in Int, IsRun(w, o), NEW head, NEW inclusion,
           CheckBatch(b, w, head, inclusion) = "Accept"
    PROVE  /\ w # <<>> /\ b.parent_hash = head.number
           /\ b.epoch_num \in {w[1], w[1] + 1}
           /\ b.epoch_num # w[1] => Len(w) >= 2
           /\ head.number # 0 => b.epoch_hash = b.epoch_num
<1>1. /\ w # <<>> /\ b.parent_hash = head.number
      /\ ~(b.epoch_num < w[1]) /\ ~(b.epoch_num > Add(w[1], 1))
      /\ b.epoch_num # w[1] => ~(Len(w) < 2)
      /\ head.number # 0 => b.epoch_hash = BatchOrigin(b, w)
  BY DEF CheckBatch
<1>2. b.epoch_num \in Int
  BY BatchesAssumption
<1>3. Len(w) \in Nat /\ w[1] \in Nat /\ (Len(w) >= 2 => w[2] = w[1] + 1)
  BY <1>1, RunEnds
<1>4. Add(w[1], 1) <= w[1] + 1 /\ Add(w[1], 1) \in Int
  <2>1. w[1] \in Nat /\ 1 \in Nat
    BY <1>3
  <2>2. Add(w[1], 1) \in Nat /\ Add(w[1], 1) <= w[1] + 1
    BY <2>1, AddOk, Zenon
  <2> QED BY <2>2
<1>5. b.epoch_num \in {w[1], w[1] + 1}
  BY <1>1, <1>2, <1>3, <1>4
<1>6. b.epoch_num # w[1] => Len(w) >= 2
  BY <1>1, <1>3
<1>7. head.number # 0 => b.epoch_hash = b.epoch_num
  BY <1>1, <1>3, <1>5, <1>6 DEF BatchOrigin
<1> QED BY <1>1, <1>5, <1>6, <1>7

\* derive_next_batch has a first batch it does not drop, or drops all of them.
LEMMA FirstKeptOk ==
    ASSUME NEW q \in Seq(Entries), NEW blocks
    PROVE  FirstKept(q, blocks) \in 1 .. Len(q) + 1
<1> DEFINE V(j) == Validity(q[j].batch, blocks, q[j].inclusion)
           S == {j \in 1 .. Len(q) + 1 : j <= Len(q) => V(j) \in {"Accept", "Undecided"}}
<1>1. Len(q) \in Nat /\ \A j : V(j) \in {"Accept", "Drop", "Undecided", "Past"}
  BY CheckBatchResults DEF Validity
<1> HIDE DEF V
<1>2. S \subseteq Nat /\ Len(q) + 1 \in S
  BY <1>1
<1>3. PICK i \in S : \A j \in S : i <= j
  BY <1>2, LeastNat
<1>4. \A j \in 1 .. i - 1 : V(j) \in {"Drop", "Past"}
  BY <1>1, <1>3
<1>5. \E k \in 1 .. Len(q) + 1 :
        (k <= Len(q) => V(k) \in {"Accept", "Undecided"}) /\ \A j \in 1 .. k - 1 : V(j) \in {"Drop", "Past"}
  BY <1>3, <1>4
<1> QED BY <1>5 DEF FirstKept, V

\* The window without the blocks before the epoch of the safe head.
LEMMA DrainedOk ==
    ASSUME WindowOk, HeadOk
    PROVE  /\ IsRun(DrainedBlocks, origin)
           /\ DrainedBlocks = <<>> <=> l1_blocks = <<>>
           /\ origin < parent.epoch => DrainedBlocks = l1_blocks
           /\ (l1_blocks # <<>> /\ origin >= parent.epoch) =>
                 DrainedBlocks[1] = IF l1_blocks[1] < parent.epoch THEN parent.epoch ELSE l1_blocks[1]
<1> DEFINE p == parent.epoch
           k == p - origin + Len(l1_blocks)
<1>1. p \in Int /\ origin \in Int /\ IsRun(l1_blocks, origin)
  BY L1TimestampAssumption DEF WindowOk, HeadOk, L1Numbers
<1>2. DOMAIN l1_blocks = 1 .. Len(l1_blocks) /\ Len(l1_blocks) \in Nat
      /\ \A i \in 1 .. Len(l1_blocks) : l1_blocks[i] = origin - Len(l1_blocks) + i
  BY <1>1 DEF IsRun
<1>3. CASE l1_blocks # <<>> /\ l1_blocks[1] < p /\ p <= origin
  <2>1. l1_blocks[1] = origin - Len(l1_blocks) + 1
    BY <1>1, <1>3, RunEnds
  <2>2. k \in 1 .. Len(l1_blocks) /\ k > 1 /\ l1_blocks[k] = p
    BY <1>1, <1>2, <1>3, <2>1
  <2>3. \A i \in DOMAIN l1_blocks : l1_blocks[i] = p => i = k
    BY <1>1, <1>2
  <2>4. (CHOOSE i \in DOMAIN l1_blocks : l1_blocks[i] = p) = k
    BY <1>2, <2>2, <2>3
  <2>5. DrainedBlocks = SubSeq(l1_blocks, k, Len(l1_blocks))
    BY <1>2, <1>3, <2>2, <2>4 DEF DrainedBlocks
  <2>6. IsRun(DrainedBlocks, origin) /\ DrainedBlocks # <<>> /\ DrainedBlocks[1] = l1_blocks[k]
    BY <1>1, <2>2, <2>5, RunSuffix
  <2> QED BY <1>1, <1>3, <2>2, <2>6
<1>4. CASE ~(l1_blocks # <<>> /\ l1_blocks[1] < p /\ p <= origin)
  <2>1. DrainedBlocks = l1_blocks
    <3>1. ASSUME NEW i \in DOMAIN l1_blocks, i > 1, l1_blocks[1] < p, l1_blocks[i] = p
          PROVE  FALSE
      BY <1>1, <1>2, <1>4, <3>1
    <3> QED BY <3>1 DEF DrainedBlocks
  <2> QED BY <1>1, <1>4, <2>1, RunEnds
<1> QED BY <1>3, <1>4

\* The window next_batch works on is a run to the new origin. It is not empty once the epoch of
\* the safe head is reached, and from a good start it then starts at that epoch or after it.
LEMMA UpdatedOk ==
    ASSUME WindowOk, HeadOk
    PROVE  /\ IsRun(UpdatedBlocks, l1)
           /\ UpdatedBlocks = <<>> => OriginBehind
           /\ (GoodStart /\ AlignOk) =>
                 IF OriginBehind
                 THEN UpdatedBlocks = <<>> \/ (Len(UpdatedBlocks) = 1 /\ l1 <= parent.epoch - 2)
                 ELSE UpdatedBlocks[1] \in {parent.epoch, parent.epoch + 1}
<1> DEFINE p == parent.epoch
           D == DrainedBlocks
<1>1. p \in Int /\ origin \in Int /\ l1 \in Int /\ l1 \in {origin, origin + 1} /\ l1 \in L1Numbers
  BY L1TimestampAssumption DEF WindowOk, HeadOk, L1Numbers
<1>2. /\ IsRun(D, origin) /\ (D = <<>> <=> l1_blocks = <<>>)
      /\ origin < p => D = l1_blocks
      /\ (l1_blocks # <<>> /\ origin >= p) =>
            D[1] = IF l1_blocks[1] < p THEN p ELSE l1_blocks[1]
  BY DrainedOk
<1>3. l1_blocks = <<>> => origin < p
  BY DEF WindowOk
<1> HIDE DEF D
<1>4. CASE origin = l1
  <2>1. UpdatedBlocks = D
    BY <1>4 DEF UpdatedBlocks, D
  <2>2. ASSUME GoodStart, AlignOk, l1 < p
        PROVE  D = <<>> \/ (Len(D) = 1 /\ l1 <= p - 2)
    BY <1>2, <1>4, <2>2 DEF AlignOk
  <2>3. ASSUME GoodStart, AlignOk, ~(l1 < p)
        PROVE  D[1] \in {p, p + 1}
    <3>1. l1_blocks[1] \in {p - 1, p, p + 1} /\ origin >= p /\ l1_blocks # <<>>
      BY <1>1, <1>3, <1>4, <2>3 DEF AlignOk
    <3> QED BY <1>1, <1>2, <3>1
  <2> QED BY <1>2, <1>3, <1>4, <2>1, <2>2, <2>3 DEF OriginBehind
<1>5. CASE origin # l1 /\ l1 < p
  <2>1. UpdatedBlocks = <<>>
    BY <1>5 DEF UpdatedBlocks, OriginBehind
  <2>2. IsRun(<<>>, l1)
    BY DEF IsRun
  <2> QED BY <1>5, <2>1, <2>2 DEF OriginBehind
<1>6. CASE origin # l1 /\ ~(l1 < p)
  <2>1. l1 = origin + 1 /\ UpdatedBlocks = Append(D, l1)
    BY <1>1, <1>6 DEF UpdatedBlocks, OriginBehind, D
  <2>2. /\ IsRun(UpdatedBlocks, l1) /\ UpdatedBlocks # <<>>
        /\ UpdatedBlocks[1] = IF D = <<>> THEN l1 ELSE D[1]
    BY <1>1, <1>2, <2>1, RunAppend
  <2>3. ASSUME GoodStart, AlignOk
        PROVE  UpdatedBlocks[1] \in {p, p + 1}
    <3>1. CASE origin < p
      <4>1. l1 = p
        BY <1>1, <1>6, <2>1, <3>1
      <4>2. l1_blocks = <<>>
        BY <1>1, <2>1, <2>3, <3>1, <4>1 DEF AlignOk
      <4> QED BY <1>2, <2>2, <4>1, <4>2
    <3>2. CASE ~(origin < p)
      <4>1. origin >= p /\ l1_blocks # <<>>
        BY <1>1, <1>3, <3>2
      <4>2. l1_blocks[1] \in {p - 1, p, p + 1}
        BY <2>3, <4>1 DEF AlignOk
      <4> QED BY <1>1, <1>2, <2>2, <4>1, <4>2
    <3> QED BY <3>1, <3>2
  <2> QED BY <1>6, <2>2, <2>3 DEF OriginBehind
<1> QED BY <1>4, <1>5, <1>6
-----------------------------------------------------------------------------
\* What derive_next_batch leaves behind. The epoch of an empty batch has left the sequencing
\* window: by a block when the previous stages still have data.
Derived(q, empty) ==
    /\ IsRun(l1_blocks', l1) /\ l1_blocks' # <<>>
    /\ batches' \in Seq(Entries)
    /\ res' \in {"Batch", "Reset", IF empty THEN "Eof" ELSE "Err"}
    /\ res' # "Batch" => out' = NoBatch
    /\ res' = "Batch" =>
         /\ out'.parent_hash = parent.number
         /\ out'.epoch_num \in {l1_blocks'[1], l1_blocks'[1] + 1}
         /\ out'.epoch_num # l1_blocks'[1] => Len(l1_blocks') >= 2
         /\ parent.number # 0 => out'.epoch_hash = out'.epoch_num
    /\ (GoodStart /\ AlignOk) => res' # "Reset" /\ l1_blocks'[1] \in {parent.epoch, parent.epoch + 1}
    /\ (NoOverflow /\ forced') => out'.epoch_num \in Int /\ out'.epoch_num + SeqWindow <= IF empty THEN l1 ELSE l1 - 1

\* An empty batch names the first block of the window, and the window only moves on from the
\* epoch of the safe head to the next one.
LEMMA ForceEmptyOk ==
    ASSUME WindowOk, HeadOk, NEW w, IsRun(w, l1), w # <<>>, NEW empty \in BOOLEAN,
           (GoodStart /\ AlignOk) => w[1] \in {parent.epoch, parent.epoch + 1},
           NEW q, batches' \in Seq(Entries), ForceEmpty(w, empty)
    PROVE  Derived(q, empty)
<1> DEFINE expiry == Add(w[1], SeqWindow)
           force == (expiry = l1 /\ empty) \/ expiry < l1
<1>1. l1 \in Int /\ parent.epoch \in Int
  BY L1TimestampAssumption DEF WindowOk, HeadOk, L1Numbers
<1>2. w[1] \in L1Numbers /\ w[1] \in Nat /\ Len(w) \in Nat
  BY <1>1, RunEnds
<1>3. SeqWindow \in Nat
  BY ConfigAssumption
<1>4. /\ expiry \in Nat
      /\ NoOverflow => expiry = w[1] + SeqWindow
  <2>1. expiry \in Nat /\ (w[1] + SeqWindow <= U64Max => expiry = w[1] + SeqWindow)
    BY <1>2, <1>3, AddOk
  <2>2. NoOverflow => w[1] + SeqWindow <= U64Max
    BY <1>2, <1>3, L1TimestampAssumption, ConfigAssumption DEF NoOverflow, L1Numbers
  <2> QED BY <2>1, <2>2
<1> HIDE DEF expiry
<1>5. CASE Eof(empty) /\ l1_blocks' = w
  BY <1>5 DEF Derived, Eof, Return, NoBatch
<1>6. CASE /\ force /\ res' = "Batch" /\ out' = EmptyBatch(w[1])
           /\ forced' = TRUE /\ l1_blocks' = w
  <2>1. /\ out'.parent_hash = parent.number
        /\ out'.epoch_num = w[1] /\ out'.epoch_hash = w[1]
    BY <1>6 DEF EmptyBatch
  <2>2. NoOverflow => w[1] + SeqWindow <= IF empty THEN l1 ELSE l1 - 1
    BY <1>1, <1>2, <1>3, <1>4, <1>6
  <2> QED BY <1>2, <1>6, <2>1, <2>2 DEF Derived
<1>7. CASE /\ ~(Len(w) < 2) /\ w[1] # parent.epoch + 1
           /\ Eof(empty) /\ l1_blocks' = Tail(w)
  <2>1. IsRun(l1_blocks', l1) /\ l1_blocks' # <<>> /\ l1_blocks'[1] = w[1] + 1
    <3>1. Len(w) >= 2
      BY <1>2, <1>7
    <3> QED BY <1>1, <1>7, <3>1, RunTail
  <2>2. res' = (IF empty THEN "Eof" ELSE "Err") /\ out' = NoBatch /\ ~forced'
    BY <1>7 DEF Eof, Return
  <2>3. (GoodStart /\ AlignOk) => l1_blocks'[1] \in {parent.epoch, parent.epoch + 1}
    BY <1>1, <1>2, <1>7, <2>1
  <2> QED BY <2>1, <2>2, <2>3 DEF Derived
<1> QED BY <1>5, <1>6, <1>7, Zenon DEF ForceEmpty, expiry

\* derive_next_batch, over its three outcomes: a batch, a forced empty one, or none.
LEMMA DeriveNextBatchOk ==
    ASSUME WindowOk, HeadOk, ~OriginBehind, NEW q \in Seq(Entries), NEW empty \in BOOLEAN,
           DeriveNextBatch(UpdatedBlocks, q, empty)
    PROVE  Derived(q, empty)
<1> DEFINE w == UpdatedBlocks
           i == FirstKept(q, w)
           V == Validity(q[i].batch, w, q[i].inclusion)
<1>1. l1 \in Int /\ parent.epoch \in Int
  BY L1TimestampAssumption DEF WindowOk, HeadOk, L1Numbers
<1>2. IsRun(w, l1) /\ w # <<>> /\ ((GoodStart /\ AlignOk) => w[1] \in {parent.epoch, parent.epoch + 1})
  BY UpdatedOk
<1> HIDE DEF w
<1>3. i \in 1 .. Len(q) + 1 /\ Len(q) \in Nat
  BY FirstKeptOk
<1>4. CASE /\ parent.number # 0 /\ parent.epoch \notin {w[1], w[1] - 1}
           /\ Return("Reset") /\ l1_blocks' = w /\ batches' = q
  <2>1. w[1] \in Nat
    BY <1>1, <1>2, RunEnds
  <2>2. ~(GoodStart /\ AlignOk)
    BY <1>1, <1>2, <1>4, <2>1
  <2> QED BY <1>2, <1>4, <2>2 DEF Derived, Return
<1>5. CASE batches' = <<>> /\ ForceEmpty(w, empty)
  <2>1. batches' \in Seq(Entries)
    BY <1>5
  <2> QED BY <1>2, <1>5, <2>1, ForceEmptyOk
<1>6. CASE i <= Len(q) /\ l1_blocks' = w /\ V = "Accept" /\ batches' = SubSeq(q, i + 1, Len(q))
           /\ res' = "Batch" /\ out' = q[i].batch /\ forced' = FALSE
  <2>1. batches' \in Seq(Entries) /\ q[i].batch \in Batches
    <3>1. i \in 1 .. Len(q) /\ i + 1 \in 1 .. Len(q) + 1
      BY <1>3, <1>6
    <3> HIDE DEF i
    <3>2. SubSeq(q, i + 1, Len(q)) \in Seq(Entries)
      BY <1>3, <3>1
    <3>3. q[i] \in Entries
      BY <3>1
    <3> QED BY <1>6, <3>2, <3>3 DEF Entries
  <2>2. /\ out'.parent_hash = parent.number
        /\ out'.epoch_num \in {w[1], w[1] + 1}
        /\ out'.epoch_num # w[1] => Len(w) >= 2
        /\ parent.number # 0 => out'.epoch_hash = out'.epoch_num
    BY <1>1, <1>2, <1>6, <2>1, AcceptedBatch DEF Validity
  <2> QED BY <1>2, <1>6, <2>1, <2>2 DEF Derived
<1>7. CASE i <= Len(q) /\ l1_blocks' = w /\ batches' = SubSeq(q, i, Len(q)) /\ Eof(empty)
  <2>1. batches' \in Seq(Entries)
    BY <1>3, <1>7
  <2> QED BY <1>2, <1>7, <2>1 DEF Derived, Eof, Return
<1>8. i > Len(q) \/ i <= Len(q)
  BY <1>3
<1> QED BY <1>2, <1>4, <1>5, <1>6, <1>7, <1>8 DEF DeriveNextBatch, w

\* The batch of the previous stage joins the queue, or not.
LEMMA QueuedOk ==
    ASSUME IInv, NEW b \in Batches
    PROVE  Queued(b) \in Seq(Entries)
<1>1. batches \in Seq(Entries) /\ l1 \in L1Numbers
  BY DEF IInv, WindowOk
<1>2. [batch |-> b, inclusion |-> l1] \in Entries
  BY <1>1 DEF Entries
<1> QED BY <1>1, <1>2 DEF Queued

\* A call of next_batch that reaches derive_next_batch keeps the invariant.
LEMMA DerivedKeepsIInv ==
    ASSUME IInv, ~OriginBehind, NEW q \in Seq(Entries), NEW empty \in BOOLEAN,
           Derived(q, empty), origin' = l1, drained' \in Int, l1 - 1 <= drained',
           empty => drained' = l1, reader' \in BOOLEAN, UNCHANGED <<l1, parent, start>>
    PROVE  IInv'
<1>1. l1 \in L1Numbers /\ l1 \in Int /\ parent.epoch \in Int /\ l1 >= parent.epoch
  BY L1TimestampAssumption DEF IInv, WindowOk, HeadOk, L1Numbers, OriginBehind
<1>2. WindowOk' /\ HeadOk' /\ (batches \in Seq(Entries))'
  BY <1>1 DEF IInv, WindowOk, HeadOk, Derived
<1>3. /\ reader' \in BOOLEAN /\ start'.origin \in Int /\ start'.epoch \in Int
      /\ res' \in {"None", "Batch", "Eof", "Err", "Reset"}
      /\ res' # "Batch" => out' = NoBatch
  BY DEF IInv, Derived
<1>4. OutOk'
  BY DEF Derived, OutOk
<1>5. ReadOk'
  <2>1. res' = "Eof" => empty
    BY DEF Derived
  <2> QED BY <2>1 DEF ReadOk
<1>6. AlignOk'
  <2>1. GoodStart' = GoodStart /\ AlignOk
    BY DEF GoodStart, IInv
  <2>2. ASSUME GoodStart
        PROVE  res' # "Reset" /\ l1_blocks'[1] \in {parent.epoch, parent.epoch + 1}
    BY <2>1, <2>2 DEF Derived
  <2>3. GoodStart => l1_blocks'[1] # parent.epoch - 1
    BY <1>1, <2>2
  <2> QED BY <1>1, <2>1, <2>2, <2>3 DEF AlignOk
<1>7. (NoOverflow => ForcedAfterWindow)'
  <2>1. SUFFICES ASSUME NoOverflow, forced'
                 PROVE  drained' >= out'.epoch_num + SeqWindow
    BY DEF NoOverflow, ForcedAfterWindow
  <2>2. /\ out'.epoch_num \in Int /\ SeqWindow \in Int
        /\ out'.epoch_num + SeqWindow <= IF empty THEN l1 ELSE l1 - 1
    BY <2>1, ConfigAssumption DEF Derived
  <2>3. CASE empty
    BY <1>1, <2>2, <2>3
  <2>4. CASE ~empty
    BY <1>1, <2>2, <2>4
  <2> QED BY <2>3, <2>4
<1> QED BY <1>2, <1>3, <1>4, <1>5, <1>6, <1>7 DEF IInv

\* A call that only updates the window keeps it, too.
LEMMA NoBatchKeepsIInv ==
    ASSUME IInv, l1_blocks' = UpdatedBlocks, origin' = l1, res' \in {"Eof", "Err"},
           out' = NoBatch, forced' = FALSE, drained' \in Int, l1 - 1 <= drained',
           res' = "Eof" => drained' = l1, reader' \in BOOLEAN,
           UNCHANGED <<l1, batches, parent, start>>
    PROVE  IInv'
<1>1. /\ l1 \in L1Numbers /\ l1 \in Int /\ parent.epoch \in Int
      /\ WindowOk /\ HeadOk /\ AlignOk
  BY L1TimestampAssumption DEF IInv, WindowOk, HeadOk, L1Numbers
<1>2. /\ IsRun(l1_blocks', l1)
      /\ l1_blocks' = <<>> => l1 < parent.epoch
      /\ GoodStart =>
            IF l1 < parent.epoch
            THEN l1_blocks' = <<>> \/ (Len(l1_blocks') = 1 /\ l1 <= parent.epoch - 2)
            ELSE l1_blocks'[1] \in {parent.epoch, parent.epoch + 1}
  BY <1>1, UpdatedOk DEF OriginBehind
<1>3. WindowOk' /\ HeadOk' /\ (batches \in Seq(Entries))'
  BY <1>1, <1>2 DEF IInv, WindowOk, HeadOk
<1>4. AlignOk'
  BY <1>1, <1>2 DEF AlignOk, GoodStart
<1> QED BY <1>3, <1>4 DEF IInv, OutOk, ReadOk, ForcedAfterWindow
-----------------------------------------------------------------------------
\* An error of the previous stage changes nothing the invariant speaks of.
LEMMA PullErrorOk == ASSUME IInv, PullError PROVE IInv'
  BY NoBatchKeepsIInv DEF PullError, Return, IInv, ReadOk

\* The end of the previous stage's data: the block is drained, and a batch may be forced.
LEMMA PullEofOk == ASSUME IInv, PullEof PROVE IInv'
<1>1. drained' = l1 /\ l1 \in Int /\ l1 - 1 <= l1 /\ batches \in Seq(Entries) /\ WindowOk /\ HeadOk
  BY L1TimestampAssumption DEF PullEof, IInv, WindowOk, L1Numbers
<1>2. CASE OriginBehind
  BY <1>1, <1>2, NoBatchKeepsIInv DEF PullEof, Derive, Eof, Return, IInv
<1>3. CASE ~OriginBehind
  <2>1. Derived(batches, TRUE)
    BY <1>1, <1>3, DeriveNextBatchOk DEF PullEof, Derive
  <2> QED BY <1>1, <1>3, <2>1, DerivedKeepsIInv DEF PullEof, IInv
<1> QED BY <1>2, <1>3

\* The batch of a channel never meets an empty window.
LEMMA PullBatchOk == ASSUME IInv, NEW b \in Batches, PullBatch(b) PROVE IInv'
<1>1. /\ UNCHANGED <<l1, parent, drained, start>> /\ origin' = l1
      /\ drained \in Int /\ l1 - 1 <= drained /\ WindowOk /\ HeadOk
  BY DEF PullBatch, IInv, ReadOk
<1>2. /\ Derive(Queued(b), FALSE)
      /\ reader' \in BOOLEAN
  <2>1. ~(~OriginBehind /\ UpdatedBlocks = <<>>)
    BY <1>1, UpdatedOk
  <2> QED BY <2>1, Zenon DEF PullBatch
<1>3. CASE OriginBehind
  BY <1>1, <1>2, <1>3, NoBatchKeepsIInv DEF Derive, Eof, Return
<1>4. CASE ~OriginBehind
  <2>1. Queued(b) \in Seq(Entries)
    BY QueuedOk
  <2>2. Derived(Queued(b), FALSE)
    BY <1>1, <1>2, <1>4, <2>1, DeriveNextBatchOk DEF Derive
  <2> QED BY <1>1, <1>2, <1>4, <2>1, <2>2, DerivedKeepsIInv
<1> QED BY <1>3, <1>4

\* The previous stage moves on to the next L1 block, once the current one is drained.
LEMMA AdvanceOriginOk == ASSUME IInv, AdvanceOrigin PROVE IInv'
<1>1. /\ l1 \in Int /\ l1' = l1 + 1 /\ l1' \in L1Numbers /\ drained = l1 /\ origin = l1
  BY L1TimestampAssumption DEF AdvanceOrigin, IInv, WindowOk, ReadOk, L1Numbers
<1>2. /\ res' = "None" /\ out = NoBatch
      /\ UNCHANGED <<reader, queue, parent, out, forced, drained, start>>
  BY DEF AdvanceOrigin, IInv
<1>3. WindowOk' /\ HeadOk'
  BY <1>1, <1>2 DEF IInv, WindowOk, HeadOk, queue
<1>4. OutOk' /\ ReadOk' /\ (NoOverflow => ForcedAfterWindow)'
  BY <1>1, <1>2 DEF IInv, OutOk, ReadOk, ForcedAfterWindow, NoOverflow
<1>5. AlignOk'
  BY <1>2 DEF IInv, AlignOk, GoodStart, queue
<1> QED BY <1>2, <1>3, <1>4, <1>5 DEF IInv, queue

\* The new safe head has the epoch of the old one or the next, and the window holds it.
LEMMA BuildBlockOk == ASSUME IInv, BuildBlock PROVE IInv'
<1> DEFINE p == parent.epoch
           w == l1_blocks
<1>1. /\ p \in L1Numbers /\ p \in Int /\ origin \in Int /\ IsRun(w, origin)
      /\ w # <<>> /\ res = "Batch" /\ Attributes(out) = "Ok"
  BY L1TimestampAssumption DEF IInv, BuildBlock, WindowOk, HeadOk, OutOk, L1Numbers
<1>2. Len(w) \in Nat /\ Len(w) >= 1 /\ w[1] \in Nat /\ w[1] = origin - Len(w) + 1
  BY <1>1, RunEnds
<1>3. /\ out.epoch_num \in {w[1], w[1] + 1}
      /\ out.epoch_num # w[1] => Len(w) >= 2
  BY <1>1 DEF IInv, OutOk
<1>4. /\ out.epoch_num = p => out.epoch_hash = p
      /\ out.epoch_num # p => out.epoch_hash \in 0 .. MaxL1 /\ out.epoch_hash - 1 = p
  BY <1>1 DEF Attributes
<1>5. /\ parent'.number = parent.number + 1 /\ parent'.epoch = out.epoch_hash
      /\ parent'.timestamp = Add(parent.timestamp, BlockTime)
      /\ res' = "None" /\ out' = NoBatch /\ forced' = FALSE
      /\ UNCHANGED <<l1, reader, origin, l1_blocks, batches, drained, start>>
  BY DEF BuildBlock, queue
<1>6. /\ parent'.epoch \in L1Numbers /\ parent'.epoch \in Int
      /\ (out.epoch_num = p /\ parent'.epoch = p) \/ (out.epoch_num # p /\ parent'.epoch = p + 1)
  BY <1>1, <1>4, <1>5, L1TimestampAssumption DEF L1Numbers
<1>7. HeadOk'
  <2>1. parent.timestamp \in Nat /\ BlockTime \in Nat /\ parent.number \in Nat
    BY ConfigAssumption DEF IInv, HeadOk
  <2>2. Add(parent.timestamp, BlockTime) \in Nat
    BY <2>1, AddOk
  <2> QED BY <1>5, <1>6, <2>1, <2>2 DEF HeadOk
<1>8. WindowOk'
  BY <1>1, <1>5 DEF IInv, WindowOk
<1>9. AlignOk'
  <2>1. SUFFICES ASSUME GoodStart
                 PROVE  /\ origin >= parent'.epoch
                        /\ w[1] \in {parent'.epoch - 1, parent'.epoch, parent'.epoch + 1}
    BY <1>1, <1>5, <1>6 DEF AlignOk, GoodStart
  <2>2. origin >= p /\ w[1] # p - 1 /\ w[1] \in {p - 1, p, p + 1}
    BY <1>1, <2>1 DEF IInv, AlignOk
  <2>3. CASE out.epoch_num = p /\ parent'.epoch = p
    BY <2>2, <2>3
  <2>4. CASE out.epoch_num # p /\ parent'.epoch = p + 1
    BY <1>1, <1>2, <1>3, <2>2, <2>4
  <2> QED BY <1>6, <2>3, <2>4
<1> QED BY <1>5, <1>7, <1>8, <1>9 DEF IInv, OutOk, ReadOk, ForcedAfterWindow

\* The payload of the batch fails to execute: the queue keeps its window.
LEMMA ExecutionFailsOk == ASSUME IInv, ExecutionFails PROVE IInv'
<1>1. /\ res = "Batch" /\ res' = "None" /\ out' = NoBatch /\ forced' = FALSE
      /\ UNCHANGED <<l1, reader, origin, l1_blocks, batches, parent, drained, start>>
  BY DEF ExecutionFails, queue
<1> QED BY <1>1 DEF IInv, WindowOk, HeadOk, OutOk, ReadOk, AlignOk, GoodStart, ForcedAfterWindow

\* A reset starts the window anew at the current L1 block.
LEMMA ResetOk == ASSUME IInv, Reset PROVE IInv'
<1>1. /\ l1 \in L1Numbers /\ l1 \in Int /\ parent.epoch \in Int
  BY L1TimestampAssumption DEF IInv, WindowOk, HeadOk, L1Numbers
<1>2. /\ reader' = FALSE /\ origin' = l1 /\ l1_blocks' = <<l1>> /\ batches' = <<>>
      /\ drained' = l1 - 1 /\ start'.origin = l1 /\ start'.epoch = parent.epoch
      /\ res' = "None" /\ out' = NoBatch /\ forced' = FALSE /\ UNCHANGED <<l1, parent>>
  BY DEF Reset
<1>3. IsRun(<<l1>>, l1) /\ <<l1>> # <<>> /\ Len(<<l1>>) = 1 /\ <<l1>>[1] = l1
  BY <1>1 DEF IsRun
<1>4. WindowOk' /\ HeadOk' /\ (batches \in Seq(Entries))'
  BY <1>1, <1>2, <1>3 DEF IInv, WindowOk, HeadOk
<1>5. AlignOk'
  <2>1. GoodStart' => l1 <= parent.epoch + 1 /\ l1 # parent.epoch - 1
    BY <1>2 DEF GoodStart
  <2> QED BY <1>1, <1>2, <1>3, <2>1 DEF AlignOk
<1>6. OutOk' /\ ReadOk' /\ ForcedAfterWindow'
  BY <1>1, <1>2 DEF OutOk, ReadOk, ForcedAfterWindow
<1>7. reader' \in BOOLEAN /\ start'.origin \in Int /\ start'.epoch \in Int
  BY <1>1, <1>2
<1> QED BY <1>2, <1>4, <1>5, <1>6, <1>7 DEF IInv

\* The queue starts from a reset.
LEMMA InitIInv == Init => IInv
<1> SUFFICES ASSUME Init PROVE IInv
  OBVIOUS
<1>1. PICK n \in {0, 1}, e \in StartEpochs :
        parent = [number |-> n, timestamp |-> L1Timestamp[e], epoch |-> e]
  BY DEF Init
<1>2. HeadOk /\ parent.epoch \in Int
  BY <1>1, L1TimestampAssumption, StartEpochsAssumption, ConfigAssumption DEF HeadOk, L1Numbers
<1>3. l1 \in L1Numbers /\ l1 \in Int
  BY <1>2, L1TimestampAssumption DEF Init, HeadOk, L1Numbers
<1>4. IsRun(<<l1>>, l1) /\ <<l1>> # <<>> /\ Len(<<l1>>) = 1 /\ <<l1>>[1] = l1
  BY <1>3 DEF IsRun
<1>5. /\ start.origin = l1 /\ start.epoch = parent.epoch
      /\ origin = l1 /\ l1_blocks = <<l1>> /\ batches = <<>> /\ reader = FALSE
      /\ res = "None" /\ out = NoBatch /\ forced = FALSE /\ drained = l1 - 1
  BY DEF Init
<1>6. WindowOk
  BY <1>3, <1>4, <1>5 DEF WindowOk
<1>7. AlignOk
  BY <1>2, <1>3, <1>4, <1>5 DEF AlignOk, GoodStart
<1>8. OutOk /\ ForcedAfterWindow
  BY <1>5 DEF OutOk, ForcedAfterWindow
<1>9. ReadOk
  BY <1>3, <1>5 DEF ReadOk
<1>10. batches \in Seq(Entries) /\ reader \in BOOLEAN
  <2>1. <<>> \in Seq(Entries)
    OBVIOUS
  <2> QED BY <1>5, <2>1, Zenon
<1>11. start.origin \in Int /\ start.epoch \in Int
  BY <1>2, <1>3, <1>5
<1> QED BY <1>2, <1>5, <1>6, <1>7, <1>8, <1>9, <1>10, <1>11 DEF IInv

\* Every step keeps the invariant.
LEMMA NextIInv == IInv /\ [Next]_vars => IInv'
<1> SUFFICES ASSUME IInv, [Next]_vars PROVE IInv'
  OBVIOUS
<1>1. CASE NextBatch
  BY <1>1, PullErrorOk, PullEofOk, PullBatchOk DEF NextBatch
<1>2. CASE AdvanceOrigin
  BY <1>2, AdvanceOriginOk
<1>3. CASE BuildBlock
  BY <1>3, BuildBlockOk
<1>4. CASE ExecutionFails
  BY <1>4, ExecutionFailsOk
<1>5. CASE Reset
  BY <1>5, ResetOk
<1>6. CASE UNCHANGED vars
  <2>1. UNCHANGED <<l1, reader, origin, l1_blocks, batches, parent, res, out, forced, drained, start>>
    BY <1>6 DEF vars, queue
  <2>2. /\ WindowOk' = WindowOk /\ HeadOk' = HeadOk /\ OutOk' = OutOk /\ ReadOk' = ReadOk
        /\ AlignOk' = AlignOk /\ ForcedAfterWindow' = ForcedAfterWindow
    BY <2>1 DEF WindowOk, HeadOk, OutOk, ReadOk, AlignOk, GoodStart, ForcedAfterWindow
  <2> QED BY <2>1, <2>2 DEF IInv
<1>7. CASE AttributesFail
  <2>1. UNCHANGED vars
    BY <1>7 DEF AttributesFail
  <2> QED BY <1>6, <2>1
<1> QED BY <1>1, <1>2, <1>3, <1>4, <1>5, <1>6, <1>7 DEF Next
-----------------------------------------------------------------------------
\* The inductive invariant: window, safe head, queue and result stay in step through every
\* call of next_batch, every L1 block, every block that is built and every reset.
THEOREM Invariance == Spec => []IInv
<1>1. Init => IInv
  BY InitIInv
<1>2. IInv /\ [Next]_vars => IInv'
  BY NextIInv
<1> QED BY <1>1, <1>2, PTL DEF Spec

\* The fields of the stage keep their types, and a batch it returns names an L1 block.
THEOREM TypeCorrect == Spec => []TypeOK
<1>1. IInv => TypeOK
  <2> SUFFICES ASSUME IInv PROVE TypeOK
    OBVIOUS
  <2>1. /\ l1 \in 0 .. MaxL1 /\ reader \in BOOLEAN /\ origin \in 0 .. MaxL1
        /\ l1_blocks \in Seq(0 .. MaxL1)
        /\ parent.number \in Nat /\ parent.timestamp \in Nat /\ parent.epoch \in 0 .. MaxL1
        /\ res \in {"None", "Batch", "Eof", "Err", "Reset"}
        /\ res # "Batch" => out = NoBatch
    BY DEF IInv, WindowOk, HeadOk, IsRun, L1Numbers
  <2>2. \A i \in DOMAIN batches : batches[i].batch \in Batches /\ batches[i].inclusion \in 0 .. MaxL1
    <3>1. batches \in Seq(Entries)
      BY DEF IInv
    <3>2. \A i \in DOMAIN batches : batches[i] \in Entries
      BY <3>1
    <3> QED BY <3>2 DEF Entries, L1Numbers
  <2>3. ASSUME res = "Batch" PROVE out.epoch_num \in 0 .. MaxL1
    <3>1. origin \in Int /\ IsRun(l1_blocks, origin) /\ OutOk
      BY L1TimestampAssumption DEF IInv, WindowOk, L1Numbers
    <3>2. /\ l1_blocks[1] \in L1Numbers
          /\ Len(l1_blocks) >= 2 => l1_blocks[2] \in L1Numbers /\ l1_blocks[2] = l1_blocks[1] + 1
      BY <2>3, <3>1, RunEnds DEF OutOk
    <3> QED BY <2>3, <3>1, <3>2 DEF OutOk, L1Numbers
  <2> QED BY <2>1, <2>2, <2>3 DEF TypeOK
<1> QED BY <1>1, Invariance, PTL

\* BatchQueue::next_batch: the window of L1 blocks ends at the origin, is never empty when
\* derive_next_batch or add_batch reads its first block, and from a good start stays aligned
\* with the safe head, so the stage does not ask for a reset.
THEOREM StaysAligned == Spec => []WindowAligned
<1>1. IInv => WindowAligned
  BY DEF IInv, WindowOk, AlignOk, IsRun, WindowAligned
<1> QED BY <1>1, Invariance, PTL

\* A batch accepted by check_batch, or created when the sequencing window has passed, also
\* passes the checks of AttributesQueue and of the attributes builder.
THEOREM AcceptedFitsAttributes == Spec => []BatchFitsAttributes
<1>1. IInv => BatchFitsAttributes
  <2> SUFFICES ASSUME IInv, res = "Batch", l1_blocks[1] = parent.epoch, parent.number # 0
               PROVE  Attributes(out) = "Ok"
    BY DEF BatchFitsAttributes
  <2>1. origin \in Int /\ IsRun(l1_blocks, origin) /\ OutOk /\ parent.epoch \in 0 .. MaxL1 /\ MaxL1 \in Nat
    BY L1TimestampAssumption DEF IInv, WindowOk, HeadOk, L1Numbers
  <2>2. Len(l1_blocks) >= 2 => parent.epoch + 1 \in 0 .. MaxL1
    <3>1. Len(l1_blocks) >= 2 => l1_blocks[2] \in L1Numbers /\ l1_blocks[2] = l1_blocks[1] + 1
      BY <2>1, RunEnds DEF OutOk
    <3> QED BY <3>1 DEF L1Numbers
  <2>3. /\ out.parent_hash = parent.number /\ out.epoch_hash = out.epoch_num
        /\ \/ out.epoch_num = parent.epoch
           \/ out.epoch_num = parent.epoch + 1 /\ parent.epoch + 1 \in 0 .. MaxL1
    BY <2>1, <2>2 DEF OutOk
  <2> QED BY <2>1, <2>3 DEF Attributes
<1> QED BY <1>1, Invariance, PTL

\* derive_next_batch: an empty batch is only created when every L1 block in which a batch of its
\* epoch may be included has been read to the end, whatever the channels held. No L1 block
\* number plus the size of the sequencing window may exceed a u64.
THEOREM ForcesAfterWindow ==
    ASSUME MaxL1 + SeqWindow <= U64Max
    PROVE  Spec => []ForcedAfterWindow
<1>1. IInv => ForcedAfterWindow
  BY DEF IInv, NoOverflow
<1> QED BY <1>1, Invariance, PTL
=============================================================================
