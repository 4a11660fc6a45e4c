----------------------------- MODULE StagesProofs -----------------------------
(***************************************************************************)
(* What the stages of the Holocene rules promise for every L1 chain,       *)
(* configuration, sequence of frames and content of the channels.          *)
(*                                                                         *)
(* A call goes down the stack through records of the state below the       *)
(* validator. StackOk is what every such record keeps: what is buffered    *)
(* comes from the channel that is being read, and that one is not flushed; *)
(* what is assembled holds frames of one channel that came in time. Where  *)
(* the window of the validator starts follows from the last reset          *)
(* (AlignOk), as in BatchQueueProofs. Which spans cannot be converted      *)
(* (Conversion) follows from the checks on their prefix and from the       *)
(* search for their origins, which never passes one that is in the window. *)
(***************************************************************************)
EXTENDS Stages, WellFoundedInduction, TLAPS

L1Numbers == 0 .. MaxL1

\* A run of consecutive L1 blocks that ends at o.
IsRun(w, o) == w \in Seq(L1Numbers) /\ \A i \in 1 .. Len(w) : w[i] = o - Len(w) + i

\* The safe chain and the L1 blocks.
HeadOk ==
  /\ chain # <<>> /\ chain \in Seq([number : Nat, timestamp : Nat, epoch : L1Numbers])
  /\ \A i \in 1..Len(chain) : chain[i].number = chain[1].number + i - 1
  /\ l1 \in L1Numbers /\ origin \in L1Numbers /\ l1 \in {origin, origin + 1}

\* The sequencing window is larger than one block, and no L1 block number overflows with it.
LongWindow == SeqWindow >= 2 /\ MaxL1 + SeqWindow <= U64Max

\* A span that the checks on its prefix accept and the conversion refuses.
Refused(s, w, ps) ==
  get_singular_batches(s, w, parent) = {} /\ check_batch_prefix(s, w, parent, l1, ps) = "Accept"
Unconverted(s, w) ==
  s \in Spans /\ \E ps \in {{}, SafeBlock(ParentNum(s, parent))} : Refused(s, w, ps)
-----------------------------------------------------------------------------
\* A set of numbers that is not empty has a least element.
LEMMA LeastNat ==
  ASSUME NEW S, S \subseteq Nat, S # {}
  PROVE  \E x \in S : \A y \in S : x <= y
<1> DEFINE R == {p \in Nat \X Nat : p[1] < p[2]}
<1>1. IsWellFoundedOn(R, Nat)
  BY NatLessThanWellFounded, Zenon DEF OpToRel
<1>2. PICK x \in S : \A y \in S : ~(<<y, x>> \in R)
  BY <1>1, WFMin, Zenon
<1>3. ASSUME NEW y \in S, y < x
      PROVE  FALSE
  <2>1. <<y, x>> \in Nat \X Nat /\ <<y, x>>[1] = y /\ <<y, x>>[2] = x
    OBVIOUS
  <2>2. <<y, x>> \in R
    BY <1>3, <2>1, Zenon
  <2> QED BY <1>2, <2>2, Zenon
<1> QED BY <1>3

\* The ends of a run.
LEMMA RunEnds ==
  ASSUME NEW w, NEW o \in Int, IsRun(w, o), w # <<>>
  PROVE  /\ Len(w) \in Nat /\ Len(w) >= 1
         /\ w[1] \in L1Numbers /\ w[1] \in Nat /\ w[1] = o - Len(w) + 1
         /\ Len(w) >= 2 => w[2] \in L1Numbers /\ w[2] = w[1] + 1
<1>1. w \in Seq(L1Numbers) /\ Len(w) \in Nat /\ Len(w) >= 1
  BY DEF IsRun
<1>2. w[1] \in L1Numbers /\ w[1] = o - Len(w) + 1
  BY <1>1 DEF IsRun
<1>3. Len(w) >= 2 => w[2] \in L1Numbers /\ w[2] = o - Len(w) + 2
  BY <1>1 DEF IsRun
<1> QED BY <1>1, <1>2, <1>3, L1TimestampAssumption DEF L1Numbers

\* What is left of a run after its first blocks have been drained is a run to the same end.
LEMMA RunSuffix ==
  ASSUME NEW w, NEW o \in Int, IsRun(w, o), NEW k \in 1 .. Len(w)
  PROVE  LET v == SubSeq(w, k, Len(w))
         IN  IsRun(v, o) /\ v # <<>> /\ v[1] = w[k]
<1> DEFINE v == SubSeq(w, k, Len(w))
<1>1. w \in Seq(L1Numbers) /\ Len(w) \in Nat
  BY DEF IsRun
<1>2. v \in Seq(L1Numbers) /\ Len(v) = Len(w) - k + 1 /\ \A i \in 1 .. Len(v) : v[i] = w[k + i - 1]
  BY <1>1
<1> HIDE DEF v
<1>3. \A i \in 1 .. Len(v) : v[i] = o - Len(v) + i
  BY <1>1, <1>2 DEF IsRun
<1>4. v # <<>> /\ v[1] = w[k]
  BY <1>1, <1>2
<1> QED BY <1>2, <1>3, <1>4, Zenon DEF IsRun, v

\* A run of at least two blocks without its first one is a run (l1_blocks.remove(0)).
LEMMA RunTail ==
  ASSUME NEW w, NEW o \in Int, IsRun(w, o), Len(w) >= 2
  PROVE  IsRun(Tail(w), o) /\ Tail(w) # <<>> /\ Tail(w)[1] = w[1] + 1
<1>1. w \in Seq(L1Numbers) /\ Len(w) \in Nat /\ w # <<>>
  BY DEF IsRun
<1>2. Tail(w) \in Seq(L1Numbers) /\ Len(Tail(w)) = Len(w) - 1
      /\ \A i \in 1 .. Len(w) - 1 : Tail(w)[i] = w[i + 1]
  BY <1>1
<1>3. \A i \in 1 .. Len(Tail(w)) : Tail(w)[i] = o - Len(Tail(w)) + i
  BY <1>1, <1>2 DEF IsRun
<1>4. Tail(w) # <<>> /\ Tail(w)[1] = w[2]
  BY <1>1, <1>2
<1> QED BY <1>1, <1>2, <1>3, <1>4, RunEnds, Zenon DEF IsRun

\* The next L1 block continues a run.
LEMMA RunAppend ==
  ASSUME NEW w, NEW o \in Int, IsRun(w, o), o + 1 \in L1Numbers
  PROVE  LET v == Append(w, o + 1)
         IN  IsRun(v, o + 1) /\ v # <<>> /\ v[1] = IF w = <<>> THEN o + 1 ELSE w[1]
<1> DEFINE v == Append(w, o + 1)
<1>1. w \in Seq(L1Numbers) /\ Len(w) \in Nat
  BY DEF IsRun
<1>2. v \in Seq(L1Numbers) /\ Len(v) = Len(w) + 1
      /\ \A i \in 1 .. Len(v) : v[i] = IF i <= Len(w) THEN w[i] ELSE o + 1
  BY <1>1
<1> HIDE DEF v
<1>3. \A i \in 1 .. Len(v) : v[i] = (o + 1) - Len(v) + i
  BY <1>1, <1>2 DEF IsRun
<1>4. v # <<>> /\ v[1] = IF w = <<>> THEN o + 1 ELSE w[1]
  BY <1>1, <1>2
<1> QED BY <1>2, <1>3, <1>4, Zenon DEF IsRun, v

\* A u64 addition is the sum unless it overflows, and then less.
LEMMA AddOk ==
  ASSUME NEW x \in Nat, NEW y \in Nat
  PROVE  /\ Add(x, y) \in Nat /\ Add(x, y) <= x + y
         /\ x + y <= U64Max => Add(x, y) = x + y
<1> DEFINE a == x + y
           m == U64Max + 1
<1>1. a \in Nat /\ m \in Nat /\ m > 0
  BY ConfigAssumption
<1> HIDE DEF a, m
<1>2. a % m \in Nat /\ a % m < m /\ (a < m => a % m = a)
  BY <1>1
<1>3. a % m <= a
  BY <1>1, <1>2
<1>4. Add(x, y) = a % m
  BY Zenon DEF Add, a, m
<1>5. x + y <= U64Max => a < m
  BY ConfigAssumption DEF a, m
<1>6. a = x + y
  BY Zenon DEF a
<1> QED BY <1>2, <1>3, <1>4, <1>5, <1>6, Zenon

\* The elements of a sequence.
LEMMA SeqElements ==
  ASSUME NEW S, NEW q \in Seq(S)
  PROVE  /\ \A i \in 1..Len(q) : q[i] \in S
         /\ q # <<>> => Head(q) \in S /\ Tail(q) \in Seq(S)
  OBVIOUS
-----------------------------------------------------------------------------
\* The safe head.
LEMMA ParentOk ==
  ASSUME HeadOk
  PROVE  /\ parent.number \in Nat /\ parent.timestamp \in Nat
         /\ parent.epoch \in L1Numbers /\ parent.epoch \in Nat
         /\ l1 \in Nat /\ origin \in Nat /\ MaxL1 \in Nat
<1> DEFINE T == [number : Nat, timestamp : Nat, epoch : L1Numbers]
<1>1. chain \in Seq(T) /\ chain # <<>> /\ l1 \in L1Numbers /\ origin \in L1Numbers
  BY Zenon DEF HeadOk
<1> HIDE DEF T
<1>2. Len(chain) \in 1..Len(chain)
  BY <1>1
<1>3. parent \in T
  BY <1>1, <1>2, SeqElements, Zenon DEF parent
<1> QED BY <1>1, <1>3, L1TimestampAssumption DEF T, L1Numbers

\* One step of the recursion of SliceStart.
SliceStep(s, w, head, f, i) ==
  IF i = 0 THEN 0
  ELSE IF \/ i \notin New(s, head)
          \/ \A j \in (f[i - 1] + 1)..Len(w) : w[j] # s.batches[i].epoch_num
  THEN f[i - 1]
  ELSE (CHOOSE j \in (f[i - 1] + 1)..Len(w) : w[j] = s.batches[i].epoch_num) - 1 - f[i - 1]

\* SliceStart is the function its recursion describes.
LEMMA SliceStartDef ==
  ASSUME NEW s, NEW w, NEW head, Len(s.batches) \in Nat
  PROVE  \A i \in 0..Len(s.batches) :
           SliceStart(s, w, head)[i] = SliceStep(s, w, head, SliceStart(s, w, head), i)
<1> DEFINE L == Len(s.batches)
           Def(f, N) == f = [i \in 0..N |-> SliceStep(s, w, head, f, i)]
           Bad == {N \in Nat : ~\E f : Def(f, N)}
<1>1. Bad = {}
  <2> SUFFICES ASSUME Bad # {} PROVE FALSE
    OBVIOUS
  <2>1. PICK N \in Bad : \A M \in Bad : N <= M
    BY LeastNat, Zenon
  <2>2. N # 0
    <3> DEFINE f == [i \in 0..0 |-> 0]
    <3>1. Def(f, 0)
      BY DEF SliceStep
    <3> QED BY <3>1, Zenon
  <2>3. N \in Nat /\ N - 1 \in Nat /\ N - 1 \notin Bad
    <3>1. Bad \subseteq Nat
      OBVIOUS
    <3> HIDE DEF Bad
    <3> QED BY <2>1, <2>2, <3>1
  <2>4. PICK f : Def(f, N - 1)
    BY <2>3, Zenon
  <2> DEFINE g == [i \in 0..N |-> IF i = N THEN SliceStep(s, w, head, f, N) ELSE f[i]]
  <2>5. ASSUME NEW i \in 0..N
        PROVE  g[i] = SliceStep(s, w, head, g, i)
    <3>1. i # 0 => g[i - 1] = f[i - 1]
      BY <2>3
    <3>2. SliceStep(s, w, head, g, i) = SliceStep(s, w, head, f, i)
      <4> HIDE DEF g
      <4>1. CASE i = 0
        BY <4>1, Zenon DEF SliceStep
      <4>2. CASE i # 0
        <5>1. g[i - 1] = f[i - 1]
          BY <3>1, <4>2, Zenon
        <5> QED BY <5>1, <4>2 DEF SliceStep
      <4> QED BY <4>1, <4>2, Zenon
    <3>3. g[i] = SliceStep(s, w, head, f, i)
      <4>1. CASE i = N
        BY <4>1, Zenon
      <4>2. CASE i # N
        <5>1. i \in 0..N - 1 /\ g[i] = f[i]
          BY <2>3, <4>2
        <5> QED BY <2>4, <5>1, Zenon
      <4> QED BY <4>1, <4>2, Zenon
    <3> QED BY <3>2, <3>3, Zenon
  <2>6. g = [i \in 0..N |-> g[i]]
    OBVIOUS
  <2>7. Def(g, N)
    <3> HIDE DEF g
    <3> QED BY <2>5, <2>6, Zenon
  <2> QED BY <2>1, <2>7, Zenon
<1>2. PICK f : Def(f, L)
  BY <1>1, Zenon
<1> DEFINE F == CHOOSE f1 : Def(f1, L)
<1>3. Def(F, L)
  BY <1>2, Zenon
<1>4. SliceStart(s, w, head) = F
  BY Zenon DEF SliceStart, SliceStep
<1> HIDE DEF F
<1>5. \A i \in 0..L : F[i] = SliceStep(s, w, head, F, i)
  BY <1>3, Zenon
<1> QED BY <1>4, <1>5, Zenon

\* The blocks of a span.
LEMMA SpanOk ==
  ASSUME NEW s \in Spans
  PROVE  /\ Len(s.batches) \in Nat /\ DOMAIN s.batches = 1..Len(s.batches)
         /\ \A i \in 1..Len(s.batches) :
              /\ s.batches[i].epoch_num \in Nat /\ s.batches[i].timestamp \in Nat
              /\ s.batches[i].timestamp = s.batches[1].timestamp + (i - 1) * BlockTime
              /\ \A j \in 1..i : s.batches[j].epoch_num <= s.batches[i].epoch_num
              /\ i > 1 => s.batches[i].epoch_num <= s.batches[i - 1].epoch_num + 1
<1> DEFINE T == [epoch_num : 0..U64Max, timestamp : 0..U64Max, txs : {"none", "some", "invalid"}]
<1>1. s.batches \in Seq(T)
  BY SpansAssumption, Zenon
<1>2. \A i \in 1..Len(s.batches) : s.batches[i] \in T
  <2> HIDE DEF T
  <2> QED BY <1>1
<1>3. \A i \in 1..Len(s.batches) : s.batches[i].epoch_num \in Nat /\ s.batches[i].timestamp \in Nat
  BY <1>2, ConfigAssumption
<1> HIDE DEF T
<1> QED BY <1>1, <1>3, SpansAssumption

\* When the origins of all new blocks are in the window, get_singular_batches finds them: an index
\* into the slice that was searched last is never past the next origin.
LEMMA OriginsFound ==
  ASSUME NEW s \in Spans, NEW w, NEW o \in Int, IsRun(w, o), NEW head,
         \A i \in New(s, head) : w # <<>> /\ w[1] <= s.batches[i].epoch_num /\ s.batches[i].epoch_num <= o
  PROVE  get_singular_batches(s, w, head) # {}
<1> DEFINE L == Len(s.batches)
           e(i) == s.batches[i].epoch_num
           N == New(s, head)
           f == SliceStart(s, w, head)
           at(i) == e(i) - w[1] + 1
           Ok(k) == f[k] \in Nat /\ \A i \in N : i > k => f[k] + 1 <= at(i)
           Bad == {k \in 0..L : ~Ok(k)}
<1>1. L \in Nat /\ N \subseteq 1..L /\ \A i \in 1..L : e(i) \in Nat /\ \A j \in 1..i : e(j) <= e(i)
  BY SpanOk, Zenon DEF New
<1>2. \A i \in 0..L : f[i] = SliceStep(s, w, head, f, i)
  BY <1>1, SliceStartDef, Zenon
<1>3. Len(w) \in Nat /\ \A j \in 1..Len(w) : w[j] = o - Len(w) + j
  BY DEF IsRun
<1>4. ASSUME NEW i \in N
      PROVE  w[1] \in Int /\ at(i) \in 1..Len(w) /\ \A j \in 1..Len(w) : w[j] = e(i) <=> j = at(i)
  <2>1. w # <<>> /\ w[1] <= e(i) /\ e(i) <= o /\ e(i) \in Nat
    BY <1>1, Zenon
  <2>2. w[1] = o - Len(w) + 1
    BY <2>1, RunEnds, Zenon
  <2> HIDE DEF e
  <2> QED BY <1>3, <2>1, <2>2
<1> HIDE DEF f, N, e, L
<1>5. Bad = {}
  <2> SUFFICES ASSUME Bad # {} PROVE FALSE
    OBVIOUS
  <2>1. Bad \subseteq Nat
    BY <1>1
  <2>2. PICK k \in Bad : \A m \in Bad : k <= m
    BY <2>1, LeastNat, Zenon
  <2>3. k \in 0..L /\ ~Ok(k)
    OBVIOUS
  <2>4. k # 0
    <3>1. f[0] = 0
      BY <1>1, <1>2 DEF SliceStep
    <3>2. Ok(0)
      BY <3>1, <1>4
    <3> QED BY <2>3, <3>2, Zenon
  <2>5. k - 1 \in 0..L /\ k \in 1..L
    BY <1>1, <2>3, <2>4
  <2>6. Ok(k - 1)
    <3>1. k - 1 \notin Bad
      <4> HIDE DEF Bad
      <4> QED BY <1>1, <2>1, <2>2, <2>5
    <3> QED BY <2>5, <3>1, Zenon
  <2>7. f[k] = SliceStep(s, w, head, f, k)
    BY <1>2, <2>3, Zenon
  <2>8. CASE k \notin N
    <3>1. f[k] = f[k - 1]
      BY <2>4, <2>7, <2>8, Zenon DEF SliceStep, N
    <3>2. \A i \in N : i > k => i > k - 1
      BY <1>1, <2>5
    <3> QED BY <2>3, <2>6, <3>1, <3>2, Zenon
  <2>9. CASE k \in N
    <3>1. f[k - 1] \in Nat /\ f[k - 1] + 1 <= at(k)
      BY <2>5, <2>6, <2>9
    <3>2. at(k) \in f[k - 1] + 1..Len(w) /\ w[at(k)] = e(k) /\ at(k) \in Int
      BY <1>4, <2>9, <3>1
    <3>3. \A j \in f[k - 1] + 1..Len(w) : w[j] = e(k) => j = at(k)
      BY <1>3, <1>4, <2>9, <3>1, SMTT(40)
    <3>4. (CHOOSE j \in f[k - 1] + 1..Len(w) : w[j] = e(k)) = at(k)
      <4> HIDE DEF at
      <4> QED BY <3>2, <3>3, Zenon
    <3>5. f[k] = at(k) - 1 - f[k - 1]
      <4>1. ~\A j \in f[k - 1] + 1..Len(w) : w[j] # e(k)
        BY <3>2, Zenon
      <4> HIDE DEF at
      <4> QED BY <2>4, <2>7, <2>9, <3>4, <4>1, Zenon DEF SliceStep, N, e
    <3>6. f[k] \in Nat /\ f[k] + 1 <= at(k)
      <4> HIDE DEF at
      <4> QED BY <3>1, <3>2, <3>5, SMTT(40)
    <3>7. ASSUME NEW i \in N, i > k PROVE at(k) <= at(i)
      <4>1. i \in 1..L /\ k \in 1..i
        BY <1>1, <2>5, <3>7
      <4>2. e(k) <= e(i) /\ e(k) \in Nat /\ e(i) \in Nat
        BY <1>1, <2>5, <4>1, Zenon
      <4> QED BY <1>4, <4>2, SMTT(40)
    <3>8. \A i \in N : i > k => f[k] + 1 <= at(i)
      BY <1>4, <3>2, <3>6, <3>7, SMTT(40)
    <3> QED BY <2>3, <3>6, <3>8, Zenon
  <2> QED BY <2>8, <2>9, Zenon
<1>6. ASSUME NEW i \in N
      PROVE  \E j \in (f[i - 1] + 1)..Len(w) : w[j] = e(i)
  <2>1. i - 1 \in 0..L /\ i > i - 1
    BY <1>1
  <2>2. Ok(i - 1)
    BY <1>5, <2>1, Zenon
  <2>3. f[i - 1] \in Nat /\ f[i - 1] + 1 <= at(i)
    BY <2>1, <2>2, Zenon
  <2> QED BY <1>4, <2>3
<1>7. ~\E i \in N : \A j \in (f[i - 1] + 1)..Len(w) : w[j] # e(i)
  BY <1>6, Zenon
<1> QED BY <1>7, Zenon DEF get_singular_batches, N, f, e

\* The block with the number of the safe head is the safe head.
LEMMA SafeHead ==
  ASSUME HeadOk, NEW b \in SafeBlock(parent.number)
  PROVE  b = parent
<1> DEFINE T == [number : Nat, timestamp : Nat, epoch : L1Numbers]
           n == Len(chain)
           c == chain[1].number
<1>1. n \in Nat /\ n >= 1 /\ DOMAIN chain = 1..n /\ c \in Nat
  <2>1. chain # <<>> /\ chain \in Seq(T)
    BY Zenon DEF HeadOk
  <2> HIDE DEF T
  <2>2. n \in Nat /\ n >= 1 /\ DOMAIN chain = 1..n /\ chain[1] \in T
    BY <2>1
  <2> QED BY <2>2, Zenon DEF T
<1>2. PICK j \in 1..n : b = chain[j] /\ chain[j].number = chain[n].number
  BY <1>1, Zenon DEF SafeBlock, parent
<1>3. chain[j].number = c + j - 1 /\ chain[n].number = c + n - 1
  BY <1>1 DEF HeadOk
<1>4. j = n
  <2> HIDE DEF c, n
  <2>1. c + j - 1 = c + n - 1
    BY <1>2, <1>3, Zenon
  <2> QED BY <1>1, <2>1
<1> QED BY <1>2, <1>4, Zenon DEF parent

\* Of two multiples of a number, the larger one has the larger factor.
LEMMA LargerFactor ==
  ASSUME NEW m \in Int, NEW q \in Int, NEW b \in Nat \ {0}, m * b > q * b
  PROVE  m > q
<1> SUFFICES ASSUME q - m \in Nat PROVE FALSE
  OBVIOUS
<1>1. (q - m) * b \in Nat /\ (q - m) * b = q * b - m * b
  OBVIOUS
<1> QED BY <1>1

\* What check_batch_prefix has found when it accepts.
LEMMA PrefixAccepted ==
  ASSUME NEW s, NEW w, NEW head, NEW ps, check_batch_prefix(s, w, head, l1, ps) = "Accept"
  PROVE  /\ w # <<>> /\ s.batches # <<>> /\ ps # {}
         /\ ~(s.batches[1].timestamp > NextTimestamp(head))
         /\ s.batches[1].timestamp < NextTimestamp(head) =>
              ~(s.batches[1].timestamp > head.timestamp) /\ (head.timestamp - s.batches[1].timestamp) % BlockTime = 0
         /\ ~(Add(s.batches[1].epoch_num, SeqWindow) < l1)
         /\ ~(s.batches[1].epoch_num < (CHOOSE p \in ps : TRUE).epoch)
         /\ \E j \in DOMAIN w : w[j] = s.batches[Len(s.batches)].epoch_num
<1>1. PrefixTimes(s, w, head) = "Accept" /\ ps # {} /\ PrefixEpochs(s, w, CHOOSE p \in ps : TRUE, l1) = "Accept"
  BY Zenon DEF check_batch_prefix
<1>2. /\ w # <<>> /\ s.batches # <<>> /\ ~(s.batches[1].timestamp > NextTimestamp(head))
      /\ s.batches[1].timestamp < NextTimestamp(head) =>
           ~(s.batches[1].timestamp > head.timestamp) /\ (head.timestamp - s.batches[1].timestamp) % BlockTime = 0
  <2> HIDE DEF NextTimestamp
  <2> QED BY <1>1, Zenon DEF PrefixTimes, starting_timestamp, starting_epoch_num, final_timestamp
<1>3. /\ ~(Add(s.batches[1].epoch_num, SeqWindow) < l1)
      /\ ~(s.batches[1].epoch_num < (CHOOSE p \in ps : TRUE).epoch)
      /\ \E j \in DOMAIN w : w[j] = s.batches[Len(s.batches)].epoch_num
  <2> DEFINE p == CHOOSE p1 \in ps : TRUE
  <2> HIDE DEF p
  <2> QED BY <1>1, Zenon DEF PrefixEpochs, starting_epoch_num, end_epoch_num, p
<1> QED BY <1>1, <1>2, <1>3, Zenon

\* A block time divides the distance of a span from a block it overlaps.
LEMMA Overlap ==
  ASSUME NEW x \in Nat, x % BlockTime = 0
  PROVE  \E q \in Nat : x = q * BlockTime
<1> QED BY ConfigAssumption

\* Blocks of a span after the safe head: when the span does not contradict the safe chain their
\* epochs are those of the safe head or later, up to the end of the window.
LEMMA NewEpochs ==
  ASSUME HeadOk, NEW s \in Spans, NEW w, IsRun(w, l1), ~Disagrees(s),
         NEW ps \in {{}, SafeBlock(ParentNum(s, parent))}, check_batch_prefix(s, w, parent, l1, ps) = "Accept"
  PROVE  /\ \A i \in New(s, parent) : s.batches[i].epoch_num \in parent.epoch..l1
         /\ \/ s.batches[1].epoch_num <= parent.epoch
            \/ \A i \in New(s, parent) : s.batches[i].epoch_num > parent.epoch
<1> DEFINE L == Len(s.batches)
           e(i) == s.batches[i].epoch_num
           t(i) == s.batches[i].timestamp
           p == parent.epoch
           h == parent.timestamp
<1>1. p \in Nat /\ h \in Nat /\ l1 \in Nat
  BY ParentOk, Zenon
<1>2. /\ L \in Nat /\ New(s, parent) = {i \in 1..L : t(i) > h}
      /\ \A i \in 1..L : /\ e(i) \in Nat /\ t(i) \in Nat /\ t(i) = t(1) + (i - 1) * BlockTime
                         /\ \A j \in 1..i : e(j) <= e(i)
  BY SpanOk, Zenon DEF New
<1>3. L >= 1
  <2> DEFINE T == [epoch_num : 0..U64Max, timestamp : 0..U64Max, txs : {"none", "some", "invalid"}]
  <2>1. s.batches \in Seq(T) /\ s.batches # <<>>
    BY PrefixAccepted, SpansAssumption, ZenonT(40)
  <2> HIDE DEF T
  <2> QED BY <2>1
<1>4. e(L) <= l1
  <2>1. PICK j \in DOMAIN w : w[j] = e(L)
    BY PrefixAccepted, Zenon
  <2>2. Len(w) \in Nat /\ j \in 1..Len(w) /\ w[j] = l1 - Len(w) + j
    BY DEF IsRun
  <2> QED BY <1>1, <2>1, <2>2
<1>5. \A i \in 1..L : e(i) <= l1
  BY <1>1, <1>2, <1>3, <1>4, SMTT(40)
<1>6. CASE t(1) < NextTimestamp(parent)
  <2>1. ~(t(1) > h) /\ (h - t(1)) % BlockTime = 0
    BY <1>6, PrefixAccepted, Zenon
  <2>2. h - t(1) \in Nat
    BY <1>1, <1>2, <1>3, <2>1
  <2>3. PICK q \in Nat : h - t(1) = q * BlockTime
    BY <2>1, <2>2, Overlap, Zenon
  <2>4. \A i \in New(s, parent) : q + 1 < i
    <3> SUFFICES ASSUME NEW i \in 1..L, t(i) > h PROVE q + 1 < i
      BY <1>2, Zenon
    <3> DEFINE a == (i - 1) * BlockTime
               b == q * BlockTime
    <3>1. a \in Int /\ b \in Int /\ t(1) \in Nat /\ t(i) = t(1) + a /\ h - t(1) = b
      BY <1>2, <1>3, <2>3, ConfigAssumption
    <3>2. a > b
      <4> HIDE DEF a, b, t, h
      <4> QED BY <1>1, <3>1
    <3>3. i - 1 > q
      BY <1>2, <3>2, LargerFactor, ConfigAssumption
    <3> QED BY <1>2, <3>3
  <2>5. q + 1 \in 1..L => e(q + 1) = p
    <3> SUFFICES ASSUME q + 1 \in 1..L PROVE e(q + 1) = p
      OBVIOUS
    <3>1. t(q + 1) = h
      BY <1>1, <1>2, <1>3, <2>3
    <3>2. Len(chain) \in DOMAIN chain /\ chain[Len(chain)] = parent
      BY DEF HeadOk, parent
    <3> QED BY <1>2, <3>1, <3>2, SpanOk, Zenon DEF Disagrees
  <2>6. ASSUME NEW i \in New(s, parent)
        PROVE  e(i) >= p /\ e(1) <= p
    <3>1. q + 1 \in 1..i /\ i \in 1..L /\ q + 1 \in 1..L
      BY <1>2, <2>4
    <3>2. e(q + 1) <= e(i) /\ e(1) <= e(q + 1) /\ e(q + 1) = p
      BY <1>2, <2>5, <3>1
    <3> QED BY <3>2, Zenon
  <2> HIDE DEF e, t
  <2> QED BY <1>1, <1>2, <1>5, <2>6 DEF e
<1>7. CASE ~(t(1) < NextTimestamp(parent))
  <2>1. ParentNum(s, parent) = parent.number
    BY <1>7, Zenon DEF ParentNum, starting_timestamp
  <2>2. ps # {} /\ ps = SafeBlock(parent.number)
    BY <2>1, PrefixAccepted, Zenon
  <2>3. (CHOOSE b \in ps : TRUE) = parent
    BY <2>2, SafeHead, Zenon
  <2>4. e(1) \in Nat /\ ~(e(1) < p)
    BY <1>2, <1>3, <2>3, PrefixAccepted
  <2>5. \A i \in 1..L : e(i) \in Nat /\ e(1) <= e(i)
    BY <1>2
  <2> HIDE DEF e, t
  <2>6. \A i \in 1..L : e(i) \in p..l1
    BY <1>1, <1>5, <2>4, <2>5
  <2>7. e(1) <= p \/ \A i \in 1..L : e(i) > p
    BY <1>1, <2>4, <2>5
  <2> QED BY <1>2, <2>6, <2>7, Zenon DEF e
<1> QED BY <1>6, <1>7, Zenon

\* Which spans cannot be converted.
LEMMA Conversion ==
  ASSUME HeadOk, LongWindow, NEW s, NEW w, IsRun(w, l1), Unconverted(s, w),
         ~(l1 < parent.epoch) => w # <<>> /\ w[1] \in {parent.epoch, parent.epoch + 1}
  PROVE  Disagrees(s) \/ (w # <<>> /\ w[1] = parent.epoch + 1 /\ l1 <= parent.epoch + SeqWindow)
<1> SUFFICES ASSUME ~Disagrees(s)
             PROVE  w # <<>> /\ w[1] = parent.epoch + 1 /\ l1 <= parent.epoch + SeqWindow
  OBVIOUS
<1> DEFINE p == parent.epoch
           e(i) == s.batches[i].epoch_num
           N == New(s, parent)
<1>1. s \in Spans /\ get_singular_batches(s, w, parent) = {}
  BY Zenon DEF Unconverted, Refused
<1>2. PICK ps \in {{}, SafeBlock(ParentNum(s, parent))} : check_batch_prefix(s, w, parent, l1, ps) = "Accept"
  BY Zenon DEF Unconverted, Refused
<1>3. /\ \A i \in N : e(i) \in p..l1
      /\ e(1) <= p \/ \A i \in N : e(i) > p
  BY <1>1, <1>2, NewEpochs, Zenon
<1>4. p \in Nat /\ l1 \in Nat /\ p + SeqWindow <= U64Max /\ SeqWindow \in Nat
  BY ParentOk, ConfigAssumption DEF LongWindow, L1Numbers
<1> HIDE DEF N, e
<1>5. PICK i \in N : ~(w # <<>> /\ w[1] <= e(i) /\ e(i) <= l1)
  BY <1>1, <1>4, OriginsFound DEF N, e
<1>6. ~(l1 < p)
  BY <1>3, <1>4
<1>7. w # <<>> /\ w[1] \in {p, p + 1}
  BY <1>6, Zenon
<1>8. w[1] = p + 1 /\ e(i) = p
  BY <1>3, <1>4, <1>5, <1>7
<1>9. e(1) <= p
  BY <1>3, <1>4, <1>8
<1>10. e(1) \in Nat /\ ~(Add(e(1), SeqWindow) < l1)
  <2>1. s.batches # <<>> /\ ~(Add(e(1), SeqWindow) < l1)
    BY <1>2, PrefixAccepted, Zenon DEF e
  <2> QED BY <1>1, <2>1, SpanOk, SpansAssumption DEF e
<1>11. Add(e(1), SeqWindow) = e(1) + SeqWindow
  <2>1. e(1) + SeqWindow <= U64Max
    BY <1>4, <1>9, <1>10, ConfigAssumption
  <2> QED BY <1>4, <1>10, <2>1, AddOk, Zenon
<1> QED BY <1>4, <1>7, <1>8, <1>9, <1>10, <1>11
-----------------------------------------------------------------------------
\* What a channel under assembly holds: frames of its own, none from after its timeout.
InTime(c) ==
  c # NoChannel =>
    /\ c.open_block \in Int /\ c.highest_l1_inclusion_block \in Int
    /\ c.highest_l1_inclusion_block <= c.open_block + ChannelTimeout
    /\ \A n \in DOMAIN c.inputs : c.inputs[n].id = c.id

\* AssembledInTime of a channel that was handed to the reader.
Whole(c) ==
  c # NoChannel =>
    /\ \A n \in 0..c.last_frame_number : n \in DOMAIN c.inputs /\ c.inputs[n].id = c.id
    /\ c.highest_l1_inclusion_block <= c.open_block + ChannelTimeout

\* A batch a span was turned into, with the channel it was read from.
Entry(c) ==
  [batch : [parent_hash : {ZeroHash}, epoch_num : Int, epoch_hash : Int, timestamp : Int,
            txs : {"none", "some", "invalid"}],
   channel : {c}, from : {"span"}]

StackFields ==
  {"frames", "channel", "reader", "read", "buffer", "flushed", "channels", "count", "res", "batch"}

StackOk(s) ==
  /\ DOMAIN s = StackFields
  /\ s.frames \in Seq(Frame) /\ InTime(s.channel) /\ Whole(s.read)
  /\ s.reader \in Nat /\ s.channels \in Nat /\ s.reader <= s.channels
  /\ s.flushed \subseteq 1..s.channels /\ s.reader \notin s.flushed
  /\ s.buffer \in Seq(Entry(s.reader))

\* The result of a call of the stream with the window w.
StreamOk(s, w) ==
  /\ StackOk(s)
  /\ s.res \in {"Ok", "Eof", "NotEnoughData", "Temporary", "Critical"}
  /\ s.res = "Ok" => s.batch.channel = s.reader
  /\ s.res = "Critical" => Unconverted(s.batch.batch, w)

\* Channel::add_frame on a channel that has not timed out.
LEMMA AddFrameInTime ==
  ASSUME l1 \in Nat, NEW c, InTime(c), c # NoChannel, ~is_timed_out(c), NEW f, ~RejectsFrame(c, f)
  PROVE  LET a == AddFrame(c, f, l1) IN InTime(a) /\ (IsReady(a) => Whole(a))
<1> DEFINE a == AddFrame(c, f, l1)
<1>1. /\ a.id = c.id /\ a.open_block = c.open_block
      /\ a.highest_l1_inclusion_block \in {c.highest_l1_inclusion_block, l1}
      /\ a.inputs = [n \in RetainedOn(c, f) \cup {f.number} |-> IF n = f.number THEN f ELSE c.inputs[n]]
  BY Zenon DEF AddFrame
<1> HIDE DEF a
<1>2. c.open_block \in Int /\ c.highest_l1_inclusion_block \in Int /\ ChannelTimeout \in Nat
      /\ c.highest_l1_inclusion_block <= c.open_block + ChannelTimeout
      /\ ~(c.open_block + ChannelTimeout < l1)
  BY FramesAssumption DEF InTime, is_timed_out
<1>3. a.highest_l1_inclusion_block \in Int
      /\ a.highest_l1_inclusion_block <= a.open_block + ChannelTimeout
  BY <1>1, <1>2
<1>4. \A n \in DOMAIN a.inputs : a.inputs[n].id = a.id
  <2>1. f.id = c.id
    BY Zenon DEF RejectsFrame
  <2>2. RetainedOn(c, f) \subseteq DOMAIN c.inputs
    BY Zenon DEF RetainedOn
  <2>3. \A n \in DOMAIN c.inputs : c.inputs[n].id = c.id
    BY Zenon DEF InTime
  <2> QED BY <1>1, <2>1, <2>2, <2>3, Zenon
<1>5. InTime(a)
  BY <1>1, <1>2, <1>3, <1>4, Zenon DEF InTime
<1>6. IsReady(a) => Whole(a)
  BY <1>3, <1>4, Zenon DEF IsReady, Whole
<1> QED BY <1>5, <1>6, Zenon DEF a

\* A channel that has just been opened.
LEMMA OpenedInTime ==
  ASSUME l1 \in Nat, NEW c, InTime(c), ~is_timed_out(c), NEW f
  PROVE  InTime(Opened(c, f)) /\ ~is_timed_out(Opened(c, f))
<1>1. CASE f.number = 0
  <2> DEFINE d == NewChannel(f.id, l1)
  <2>1. d.open_block = l1 /\ d.highest_l1_inclusion_block = 0 /\ DOMAIN d.inputs = {}
    BY Zenon DEF NewChannel
  <2> HIDE DEF d
  <2>2. ChannelTimeout \in Nat
    BY FramesAssumption, Zenon
  <2>3. InTime(d) /\ ~is_timed_out(d)
    BY <2>1, <2>2 DEF InTime, is_timed_out
  <2> QED BY <1>1, <2>3, Zenon DEF Opened, d
<1>2. CASE f.number # 0
  BY <1>2, ZenonT(40) DEF Opened
<1> QED BY <1>1, <1>2, Zenon

\* The part of the stack above the assembler.
Upper(s) == <<s.reader, s.buffer, s.flushed, s.channels, s.batch>>

\* A frame that enters the assembler changes nothing above it.
LEMMA AssembleOk ==
  ASSUME l1 \in Nat, NEW s, StackOk(s), s.frames # <<>>, ~is_timed_out(s.channel), NEW f
  PROVE  LET u == Assemble(s, f)
         IN  StackOk(u) /\ Upper(u) = Upper(s) /\ u.res \in {s.res, "NotEnoughData"}
<1> DEFINE c == Opened(s.channel, f)
           a == AddFrame(c, f, l1)
           t == [s EXCEPT !.frames = Tail(@)]
           u == Assemble(s, f)
<1>1. InTime(c) /\ ~is_timed_out(c)
  BY OpenedInTime, ZenonT(40) DEF StackOk
<1>2. (c # NoChannel /\ ~RejectsFrame(c, f)) => InTime(a) /\ (IsReady(a) => Whole(a))
  BY <1>1, AddFrameInTime
<1>3. InTime(NoChannel)
  BY Zenon DEF InTime
<1>4. Tail(s.frames) \in Seq(Frame)
  BY DEF StackOk
<1>5. \/ u = [t EXCEPT !.res = "NotEnoughData"]
      \/ u = [t EXCEPT !.channel = c, !.res = "NotEnoughData"]
      \/ u = [t EXCEPT !.channel = NoChannel, !.res = "NotEnoughData"]
      \/ InTime(a) /\ u = [t EXCEPT !.channel = a, !.res = "NotEnoughData"]
      \/ Whole(a) /\ u = [t EXCEPT !.channel = NoChannel, !.read = a]
  BY <1>2, Zenon DEF Assemble
<1> HIDE DEF c, a, u
<1>6. DOMAIN s = StackFields
  BY Zenon DEF StackOk
<1>7. /\ DOMAIN u = StackFields /\ u.frames = Tail(s.frames)
      /\ u.channel \in {s.channel, c, NoChannel} \/ (InTime(a) /\ u.channel = a)
      /\ u.read = s.read \/ (Whole(a) /\ u.read = a)
      /\ u.reader = s.reader /\ u.buffer = s.buffer /\ u.flushed = s.flushed
      /\ u.channels = s.channels /\ u.batch = s.batch
      /\ u.res \in {s.res, "NotEnoughData"}
  BY <1>5, <1>6, Zenon DEF StackFields
<1>8. InTime(u.channel) /\ Whole(u.read)
  BY <1>1, <1>3, <1>7, Zenon DEF StackOk
<1>9. StackOk(u)
  BY <1>4, <1>7, <1>8, Zenon DEF StackOk
<1> QED BY <1>7, <1>9 DEF Upper, u

\* ChannelAssembler::next_data changes nothing above it.
LEMMA NextDataOk ==
  ASSUME l1 \in Nat, NEW s, StackOk(s), s.res = "Ok", NEW u \in next_data(s)
  PROVE  StackOk(u) /\ Upper(u) = Upper(s) /\ u.res \in {"Ok", "Eof", "NotEnoughData", "Temporary"}
<1> DEFINE t == [s EXCEPT !.channel = IF is_timed_out(@) THEN NoChannel ELSE @]
<1>1. /\ DOMAIN t = StackFields /\ t.frames = s.frames /\ t.read = s.read /\ t.res = "Ok"
      /\ t.channel = (IF is_timed_out(s.channel) THEN NoChannel ELSE s.channel)
      /\ t.reader = s.reader /\ t.buffer = s.buffer /\ t.flushed = s.flushed
      /\ t.channels = s.channels /\ t.batch = s.batch
  BY Zenon DEF StackOk, StackFields
<1>2. \/ u = [t EXCEPT !.res = "Eof"] \/ u = [t EXCEPT !.res = "Temporary"]
      \/ s.frames # <<>> /\ u = Assemble(t, Head(t.frames))
  BY Zenon DEF next_data
<1> HIDE DEF t
<1>3. InTime(t.channel) /\ ~is_timed_out(t.channel)
  BY <1>1, Zenon DEF StackOk, InTime, is_timed_out
<1>4. StackOk(t) /\ Upper(t) = Upper(s)
  BY <1>1, <1>3 DEF StackOk, Upper
<1>5. CASE u = [t EXCEPT !.res = "Eof"] \/ u = [t EXCEPT !.res = "Temporary"]
  <2>1. /\ DOMAIN u = StackFields /\ u.frames = t.frames /\ u.read = t.read
        /\ u.channel = t.channel /\ u.reader = t.reader /\ u.buffer = t.buffer
        /\ u.flushed = t.flushed /\ u.channels = t.channels /\ u.batch = t.batch
        /\ u.res \in {"Eof", "Temporary"}
    BY <1>1, <1>5, ZenonT(40) DEF StackFields
  <2> QED BY <1>4, <2>1, Zenon DEF StackOk, Upper
<1>6. CASE s.frames # <<>> /\ u = Assemble(t, Head(t.frames))
  <2>1. StackOk(u) /\ Upper(u) = Upper(t) /\ u.res \in {t.res, "NotEnoughData"}
    BY <1>1, <1>3, <1>4, <1>6, AssembleOk
  <2> QED BY <1>1, <1>4, <2>1, Zenon
<1> QED BY <1>2, <1>5, <1>6, Zenon

\* BatchStream fetches a channel only when its buffer is empty.
LEMMA SetBatchReaderOk ==
  ASSUME l1 \in Nat, NEW s, StackOk(s), s.res = "Ok", s.buffer = <<>>, NEW u \in set_batch_reader(s)
  PROVE  StackOk(u) /\ u.buffer = <<>> /\ u.res \in {"Ok", "Eof", "NotEnoughData", "Temporary"}
<1>1. CASE s.reader # 0
  BY <1>1, Zenon DEF set_batch_reader
<1>2. CASE s.reader = 0
  <2>1. PICK t \in next_data(s) :
          u = IF t.res # "Ok" THEN t ELSE [t EXCEPT !.reader = t.channels + 1, !.channels = @ + 1]
    BY <1>2, Zenon DEF set_batch_reader
  <2>2. /\ StackOk(t) /\ t.buffer = <<>>
        /\ t.res \in {"Ok", "Eof", "NotEnoughData", "Temporary"}
    BY NextDataOk, Zenon DEF Upper
  <2>3. CASE t.res # "Ok"
    BY <2>1, <2>2, <2>3, Zenon
  <2>4. CASE t.res = "Ok"
    <3>1. /\ DOMAIN u = StackFields /\ u.frames = t.frames /\ u.read = t.read
          /\ u.channel = t.channel /\ u.reader = t.channels + 1 /\ u.buffer = <<>>
          /\ u.flushed = t.flushed /\ u.channels = t.channels + 1 /\ u.res = "Ok"
      BY <2>1, <2>2, <2>4, Zenon DEF StackOk, StackFields
    <3>2. /\ t.channels \in Nat /\ t.flushed \subseteq 1..t.channels
      BY <2>2, Zenon DEF StackOk
    <3>3. /\ u.reader \in Nat /\ u.channels \in Nat /\ u.reader <= u.channels
          /\ u.flushed \subseteq 1..u.channels /\ u.reader \notin u.flushed
      BY <3>1, <3>2
    <3>4. u.buffer \in Seq(Entry(u.reader))
      BY <3>1
    <3> QED BY <2>2, <3>1, <3>3, <3>4 DEF StackOk
  <2> QED BY <2>3, <2>4, Zenon
<1> QED BY <1>1, <1>2, Zenon

\* A batch of the reader names the channel being read.
LEMMA ReaderNextBatchOk ==
  ASSUME l1 \in Nat, NEW s, StackOk(s), s.res = "Ok", s.buffer = <<>>, NEW u \in reader_next_batch(s)
  PROVE  /\ StackOk(u) /\ u.buffer = <<>> /\ u.res \in {"Ok", "Eof", "NotEnoughData", "Temporary"}
         /\ u.res = "Ok" => u.batch.channel = u.reader /\ u.batch.batch \in Singles \cup Spans
<1>1. PICK t \in set_batch_reader(s) :
        u \in IF t.res # "Ok" THEN {t}
              ELSE {[t EXCEPT !.reader = 0, !.res = "NotEnoughData"]} \cup
                   {[t EXCEPT !.count = @ + 1, !.batch = [batch |-> b, channel |-> t.reader, from |-> "channel"]] :
                      b \in {x \in Singles \cup Spans : t.count < MaxBatches}}
  BY Zenon DEF reader_next_batch
<1>2. StackOk(t) /\ t.buffer = <<>> /\ t.res \in {"Ok", "Eof", "NotEnoughData", "Temporary"}
  BY SetBatchReaderOk, Zenon
<1>3. CASE t.res # "Ok"
  BY <1>1, <1>2, <1>3, ZenonT(40)
<1>4. CASE t.res = "Ok" /\ u = [t EXCEPT !.reader = 0, !.res = "NotEnoughData"]
  <2>1. /\ DOMAIN u = StackFields /\ u.frames = t.frames /\ u.read = t.read
        /\ u.channel = t.channel /\ u.reader = 0 /\ u.buffer = <<>>
        /\ u.flushed = t.flushed /\ u.channels = t.channels /\ u.res = "NotEnoughData"
    BY <1>2, <1>4, Zenon DEF StackOk, StackFields
  <2>2. /\ t.channels \in Nat /\ t.flushed \subseteq 1..t.channels
    BY <1>2, Zenon DEF StackOk
  <2>3. 0 <= u.channels /\ 0 \notin u.flushed
    BY <2>1, <2>2
  <2>4. u.buffer \in Seq(Entry(u.reader))
    BY <2>1, SMTT(40)
  <2> QED BY <1>2, <2>1, <2>3, <2>4 DEF StackOk
<1>5. CASE /\ t.res = "Ok"
           /\ \E b \in Singles \cup Spans :
                u = [t EXCEPT !.count = @ + 1, !.batch = [batch |-> b, channel |-> t.reader, from |-> "channel"]]
  <2>1. PICK b \in Singles \cup Spans :
          u = [t EXCEPT !.count = @ + 1, !.batch = [batch |-> b, channel |-> t.reader, from |-> "channel"]]
    BY <1>5, Zenon
  <2>2. /\ DOMAIN u = StackFields /\ u.frames = t.frames /\ u.read = t.read
        /\ u.channel = t.channel /\ u.reader = t.reader /\ u.buffer = t.buffer
        /\ u.flushed = t.flushed /\ u.channels = t.channels /\ u.res = "Ok"
        /\ u.batch = [batch |-> b, channel |-> t.reader, from |-> "channel"]
    BY <1>2, <1>5, <2>1, ZenonT(40) DEF StackOk, StackFields
  <2>3. StackOk(u) /\ u.buffer = <<>>
    BY <1>2, <2>2, SMTT(40) DEF StackOk
  <2> QED BY <2>2, <2>3
<1> QED BY <1>1, <1>3, <1>4, <1>5, Zenon

\* ChannelReader::flush takes the channel that was being read out of the stack.
LEMMA FlushOk ==
  ASSUME NEW s, StackOk(s)
  PROVE  LET u == flush(s) IN StackOk(u) /\ u.res = s.res /\ u.batch = s.batch
<1> DEFINE u == flush(s)
<1>1. /\ DOMAIN u = StackFields /\ u.frames = s.frames /\ u.read = s.read
      /\ u.channel = s.channel /\ u.reader = 0 /\ u.buffer = <<>>
      /\ u.flushed = s.flushed \cup ({s.reader} \ {0}) /\ u.channels = s.channels
      /\ u.res = s.res /\ u.batch = s.batch
  BY Zenon DEF StackOk, StackFields, flush
<1> HIDE DEF u
<1>2. /\ s.reader \in Nat /\ s.channels \in Nat /\ s.reader <= s.channels
      /\ s.flushed \subseteq 1..s.channels
  BY Zenon DEF StackOk
<1>3. u.flushed \subseteq 1..u.channels /\ u.reader \notin u.flushed /\ u.reader <= u.channels
  BY <1>1, <1>2
<1>4. u.buffer \in Seq(Entry(u.reader))
  BY <1>1
<1> QED BY <1>1, <1>2, <1>3, <1>4 DEF StackOk, u

\* get_singular_batches returns a sequence of batches.
LEMMA SingularBatches ==
  ASSUME NEW span \in Spans, NEW w, NEW head, NEW b \in get_singular_batches(span, w, head)
  PROVE  b \in Seq([parent_hash : {ZeroHash}, epoch_num : Int, epoch_hash : Int, timestamp : Int,
                    txs : {"none", "some", "invalid"}])
<1> DEFINE S == New(span, head) \cup {Len(span.batches) + 1}
           first == Min(S)
           n == Len(span.batches) - first + 1
           G(i) == [parent_hash |-> ZeroHash, epoch_num |-> span.batches[i].epoch_num,
                    epoch_hash |-> span.batches[i].epoch_num,
                    timestamp |-> span.batches[i].timestamp, txs |-> span.batches[i].txs]
           T == [parent_hash : {ZeroHash}, epoch_num : Int, epoch_hash : Int, timestamp : Int,
                 txs : {"none", "some", "invalid"}]
<1>1. /\ span.batches \in Seq([epoch_num : 0..U64Max, timestamp : 0..U64Max,
                                txs : {"none", "some", "invalid"}])
      /\ U64Max \in Nat
  BY SpansAssumption, ConfigAssumption, Zenon
<1>2. Len(span.batches) \in Nat /\ DOMAIN span.batches = 1..Len(span.batches)
  BY <1>1
<1>3. S \subseteq 1..Len(span.batches) + 1 /\ S # {}
  BY <1>2 DEF New
<1>4. first \in 1..Len(span.batches) + 1
  <2>1. S \subseteq Nat
    BY <1>2, <1>3
  <2>2. PICK x \in S : \A y \in S : x <= y
    BY <1>3, <2>1, LeastNat, Zenon
  <2>3. first \in S
    BY <2>2, Zenon DEF Min
  <2> QED BY <1>3, <2>3, Zenon
<1>5. b = [k \in 1..n |-> G(first + k - 1)]
  BY Zenon DEF get_singular_batches
<1>6. \A i \in 1..Len(span.batches) : G(i) \in T
  <2>1. ASSUME NEW i \in 1..Len(span.batches)
        PROVE  /\ span.batches[i].epoch_num \in Int /\ span.batches[i].timestamp \in Int
               /\ span.batches[i].txs \in {"none", "some", "invalid"}
    <3>1. span.batches[i] \in [epoch_num : 0..U64Max, timestamp : 0..U64Max,
                               txs : {"none", "some", "invalid"}]
      BY <1>1, SeqElements, Zenon
    <3> QED BY <1>1, <3>1, SMTT(40)
  <2> QED BY <2>1, Zenon
<1> HIDE DEF first, S, G, T
<1>7. n \in Nat /\ \A k \in 1..n : first + k - 1 \in 1..Len(span.batches)
  BY <1>2, <1>4
<1>8. \A k \in 1..n : G(first + k - 1) \in T
  BY <1>6, <1>7, Zenon
<1>9. b \in Seq(T)
  BY <1>5, <1>7, <1>8
<1> QED BY <1>9, Zenon DEF T

\* A span leaves the batches it was turned into in the buffer, or nothing.
LEMMA StreamSpanOk ==
  ASSUME NEW s, StackOk(s), s.buffer = <<>>, s.res = "Ok", s.batch.channel = s.reader,
         s.batch.batch \in Spans, NEW w, NEW parents
  PROVE  LET u == StreamSpan(s, s.batch.batch, w, parents)
         IN  /\ StackOk(u) /\ u.res \in {"Ok", "Eof", "NotEnoughData", "Critical"}
             /\ u.batch = s.batch
             /\ u.res = "Critical" => Refused(s.batch.batch, w, parents)
<1> DEFINE span == s.batch.batch
           u == StreamSpan(s, span, w, parents)
           bs == CHOOSE b \in get_singular_batches(span, w, parent) : TRUE
           buf == [i \in DOMAIN bs |-> [batch |-> bs[i], channel |-> s.batch.channel, from |-> "span"]]
<1>1. \/ u = [flush(s) EXCEPT !.res = "Eof"]
      \/ \E r \in {"Eof", "NotEnoughData"} : u = [s EXCEPT !.res = r]
      \/ Refused(span, w, parents) /\ u = [s EXCEPT !.res = "Critical"]
      \/ get_singular_batches(span, w, parent) # {} /\ u = [s EXCEPT !.buffer = buf]
  BY ZenonT(40) DEF StreamSpan, Refused
<1>2. CASE u = [flush(s) EXCEPT !.res = "Eof"]
  <2>1. StackOk(flush(s)) /\ flush(s).batch = s.batch
    BY FlushOk, Zenon
  <2> HIDE DEF u
  <2>2. /\ DOMAIN u = StackFields /\ u.frames = flush(s).frames /\ u.read = flush(s).read
        /\ u.channel = flush(s).channel /\ u.reader = flush(s).reader
        /\ u.buffer = flush(s).buffer /\ u.flushed = flush(s).flushed
        /\ u.channels = flush(s).channels /\ u.res = "Eof" /\ u.batch = flush(s).batch
    BY <1>2, <2>1, Zenon DEF StackOk, StackFields
  <2>3. StackOk(u)
    BY <2>1, <2>2, Zenon DEF StackOk
  <2> QED BY <2>1, <2>2, <2>3 DEF u
<1>3. CASE \/ \E r \in {"Eof", "NotEnoughData"} : u = [s EXCEPT !.res = r]
           \/ Refused(span, w, parents) /\ u = [s EXCEPT !.res = "Critical"]
  <2> HIDE DEF u
  <2>1. /\ DOMAIN u = StackFields /\ u.frames = s.frames /\ u.read = s.read
        /\ u.channel = s.channel /\ u.reader = s.reader /\ u.buffer = s.buffer
        /\ u.flushed = s.flushed /\ u.channels = s.channels /\ u.batch = s.batch
        /\ u.res \in {"Eof", "NotEnoughData"} \/ (Refused(span, w, parents) /\ u.res = "Critical")
    BY <1>3, ZenonT(40) DEF StackOk, StackFields
  <2>2. StackOk(u)
    BY <2>1, Zenon DEF StackOk
  <2> QED BY <2>1, <2>2, Zenon DEF u
<1>4. CASE get_singular_batches(span, w, parent) # {} /\ u = [s EXCEPT !.buffer = buf]
  <2>1. bs \in get_singular_batches(span, w, parent)
    BY <1>4, Zenon
  <2>2. bs \in Seq([parent_hash : {ZeroHash}, epoch_num : Int, epoch_hash : Int, timestamp : Int,
                    txs : {"none", "some", "invalid"}])
    BY <2>1, SingularBatches, Zenon
  <2> HIDE DEF u, bs
  <2>3. buf \in Seq(Entry(s.reader))
    <3>1. DOMAIN bs = 1..Len(bs) /\ Len(bs) \in Nat
      BY <2>2
    <3>2. ASSUME NEW i \in 1..Len(bs)
          PROVE  [batch |-> bs[i], channel |-> s.batch.channel, from |-> "span"] \in Entry(s.reader)
      <4>1. bs[i] \in [parent_hash : {ZeroHash}, epoch_num : Int, epoch_hash : Int, timestamp : Int,
                       txs : {"none", "some", "invalid"}]
        BY <2>2, SeqElements, Zenon
      <4> QED BY <4>1, Zenon DEF Entry
    <3>3. buf \in [1..Len(bs) -> Entry(s.reader)]
      BY <3>1, <3>2, Zenon
    <3> HIDE DEF buf
    <3> QED BY <3>1, <3>3
  <2> HIDE DEF buf
  <2>4. /\ DOMAIN u = StackFields /\ u.frames = s.frames /\ u.read = s.read
        /\ u.channel = s.channel /\ u.reader = s.reader /\ u.buffer = buf
        /\ u.flushed = s.flushed /\ u.channels = s.channels /\ u.batch = s.batch /\ u.res = "Ok"
    BY <1>4, Zenon DEF StackOk, StackFields
  <2>5. StackOk(u)
    BY <2>3, <2>4, Zenon DEF StackOk
  <2> QED BY <2>4, <2>5 DEF u
<1> QED BY <1>1, <1>2, <1>3, <1>4, Zenon

\* A batch from the buffer is of the channel being read.
LEMMA PopFrontOk ==
  ASSUME NEW s, StackOk(s), s.res \in {"Ok", "Eof", "NotEnoughData", "Critical"},
         NEW w, s.res = "Critical" => Unconverted(s.batch.batch, w)
  PROVE  StreamOk(PopFront(s), w)
<1>1. CASE s.res # "Ok"
  BY <1>1, ZenonT(40) DEF PopFront, StreamOk
<1>2. CASE s.res = "Ok" /\ s.buffer = <<>>
  <2> DEFINE u == [s EXCEPT !.res = "NotEnoughData"]
  <2>1. /\ DOMAIN u = StackFields /\ u.frames = s.frames /\ u.read = s.read
        /\ u.channel = s.channel /\ u.reader = s.reader /\ u.buffer = s.buffer
        /\ u.flushed = s.flushed /\ u.channels = s.channels /\ u.res = "NotEnoughData"
    BY Zenon DEF StackOk, StackFields
  <2>2. PopFront(s) = u
    BY <1>2, Zenon DEF PopFront
  <2> HIDE DEF u
  <2> QED BY <2>1, <2>2 DEF StreamOk, StackOk
<1>3. CASE s.res = "Ok" /\ s.buffer # <<>>
  <2> DEFINE u == [s EXCEPT !.buffer = Tail(@), !.batch = Head(s.buffer)]
  <2>1. /\ DOMAIN u = StackFields /\ u.frames = s.frames /\ u.read = s.read
        /\ u.channel = s.channel /\ u.reader = s.reader /\ u.buffer = Tail(s.buffer)
        /\ u.flushed = s.flushed /\ u.channels = s.channels /\ u.res = "Ok"
        /\ u.batch = Head(s.buffer)
    BY <1>3, Zenon DEF StackOk, StackFields
  <2>2. PopFront(s) = u
    BY <1>3, Zenon DEF PopFront
  <2> HIDE DEF u
  <2>3. Tail(s.buffer) \in Seq(Entry(s.reader)) /\ Head(s.buffer) \in Entry(s.reader)
    BY <1>3, SeqElements, Zenon DEF StackOk
  <2>4. u.batch.channel = u.reader
    BY <2>1, <2>3, Zenon DEF Entry
  <2>5. StackOk(u)
    BY <2>1, <2>3, Zenon DEF StackOk
  <2> QED BY <2>1, <2>2, <2>4, <2>5, Zenon DEF StreamOk
<1> QED BY <1>1, <1>2, <1>3, Zenon

\* BatchStream::next_batch, from the buffer or from the next channel.
LEMMA StreamNextBatchOk ==
  ASSUME l1 \in Nat, NEW s, StackOk(s), s.res = "Ok", NEW w, NEW u \in stream_next_batch(s, w)
  PROVE  StreamOk(u, w)
<1>1. CASE s.buffer # <<>>
  <2>1. u = PopFront(s)
    BY <1>1, Zenon DEF stream_next_batch
  <2> QED BY <2>1, PopFrontOk, Zenon
<1>2. CASE s.buffer = <<>>
  <2>1. PICK t \in reader_next_batch(s) :
          u \in IF t.res # "Ok" \/ t.batch.batch \in Singles THEN {t}
                ELSE {PopFront(StreamSpan(t, t.batch.batch, w, p)) :
                        p \in {{}, SafeBlock(ParentNum(t.batch.batch, parent))}}
    BY <1>2, Zenon DEF stream_next_batch
  <2>2. /\ StackOk(t) /\ t.buffer = <<>> /\ t.res \in {"Ok", "Eof", "NotEnoughData", "Temporary"}
        /\ t.res = "Ok" => t.batch.channel = t.reader /\ t.batch.batch \in Singles \cup Spans
    BY <1>2, ReaderNextBatchOk, ZenonT(40)
  <2>3. CASE t.res # "Ok" \/ t.batch.batch \in Singles
    BY <2>1, <2>2, <2>3 DEF StreamOk
  <2>4. CASE ~(t.res # "Ok" \/ t.batch.batch \in Singles)
    <3>1. PICK p \in {{}, SafeBlock(ParentNum(t.batch.batch, parent))} :
            u = PopFront(StreamSpan(t, t.batch.batch, w, p))
      BY <2>1, <2>4, Zenon
    <3> DEFINE v == StreamSpan(t, t.batch.batch, w, p)
    <3>2. t.res = "Ok" /\ t.batch.channel = t.reader /\ t.batch.batch \in Spans
      BY <2>2, <2>4, ZenonT(40)
    <3>3. /\ StackOk(v) /\ v.res \in {"Ok", "Eof", "NotEnoughData", "Critical"} /\ v.batch = t.batch
          /\ v.res = "Critical" => Refused(t.batch.batch, w, p)
      BY <2>2, <3>2, StreamSpanOk, Zenon
    <3> HIDE DEF v
    <3>4. v.res = "Critical" => Unconverted(v.batch.batch, w)
      BY <3>2, <3>3, ZenonT(40) DEF Unconverted
    <3>5. StreamOk(PopFront(v), w)
      BY <3>3, <3>4, PopFrontOk, Zenon
    <3> QED BY <3>1, <3>5, Zenon DEF v
  <2> QED BY <2>3, <2>4, Zenon
<1> QED BY <1>1, <1>2, Zenon
-----------------------------------------------------------------------------
\* Where a window w that ends at o starts, from a good start.
Aligned(w, o) ==
  IF o < parent.epoch THEN w = <<>> \/ Len(w) = 1
  ELSE /\ w # <<>> /\ w[1] \in {parent.epoch - 1, parent.epoch, parent.epoch + 1}
       /\ w[1] = parent.epoch + 1 => Len(w) >= 2 /\ parent.epoch + SeqWindow <= o

AlignOk ==
  GoodStart =>
    /\ Aligned(l1_blocks, origin)
    /\ res = "Batch" => origin > parent.epoch /\ l1_blocks[1] # parent.epoch - 1
    /\ res \in {"Critical", "Reset"} =>
         res = "Critical" /\ out.batch \in Spans /\ (Disagrees(out.batch) \/ EpochGivenUp)

IInv ==
  /\ StackOk(Below) /\ HeadOk /\ IsRun(l1_blocks, origin)
  /\ start.origin \in Int /\ start.epoch \in Int
  /\ res = "Batch" => out.channel \notin flushed
  /\ res = "Eof" => origin = l1
  /\ LongWindow => AlignOk

\* update_origins follows the origin with a run of blocks, and drops those before the epoch of
\* the safe head.
LEMMA UpdateOriginsOk ==
  ASSUME HeadOk, IsRun(l1_blocks, origin)
  PROVE  /\ IsRun(update_origins, l1)
         /\ (GoodStart /\ AlignOk) =>
              IF OriginBehind THEN update_origins = <<>> \/ Len(update_origins) = 1
              ELSE /\ update_origins # <<>> /\ update_origins[1] \in {parent.epoch, parent.epoch + 1}
                   /\ update_origins[1] = parent.epoch + 1 =>
                        Len(update_origins) >= 2 /\ parent.epoch + SeqWindow <= l1
<1> DEFINE p == parent.epoch
           F == Followed
           at == {i \in DOMAIN F : F[1] < p /\ F[i] = p}
           k == p - l1 + Len(F)
           U == update_origins
<1>1. /\ p \in Int /\ origin \in Int /\ l1 \in Int /\ SeqWindow \in Nat
      /\ l1 \in L1Numbers /\ l1 \in {origin, origin + 1}
  BY ParentOk, ConfigAssumption DEF HeadOk
<1>2. IsRun(F, l1)
  <2>1. CASE origin = l1
    BY <2>1, Zenon DEF Followed
  <2>2. CASE origin # l1 /\ l1 < p
    BY <2>2 DEF Followed, OriginBehind, IsRun
  <2>3. CASE origin # l1 /\ ~(l1 < p)
    <3>1. l1 = origin + 1 /\ F = Append(l1_blocks, l1)
      BY <1>1, <2>3, Zenon DEF Followed, OriginBehind
    <3> QED BY <1>1, <3>1, RunAppend, Zenon
  <2> QED BY <2>1, <2>2, <2>3, Zenon
<1>3. ASSUME GoodStart, AlignOk
      PROVE  IF l1 < p THEN F = <<>> \/ Len(F) = 1
             ELSE /\ F # <<>> /\ F[1] \in {p - 1, p, p + 1}
                  /\ F[1] = p + 1 => Len(F) >= 2 /\ p + SeqWindow <= l1
  <2>1. Aligned(l1_blocks, origin)
    BY <1>3, Zenon DEF AlignOk
  <2>2. CASE origin = l1
    BY <2>1, <2>2, Zenon DEF Followed, Aligned
  <2>3. CASE origin # l1 /\ l1 < p
    BY <2>3, Zenon DEF Followed, OriginBehind
  <2>4. CASE origin # l1 /\ ~(l1 < p)
    <3>1. l1 = origin + 1 /\ F = Append(l1_blocks, l1)
      BY <1>1, <2>4, Zenon DEF Followed, OriginBehind
    <3>2. F # <<>> /\ F[1] = IF l1_blocks = <<>> THEN l1 ELSE l1_blocks[1]
      BY <1>1, <3>1, RunAppend, Zenon
    <3>3. Len(F) = Len(l1_blocks) + 1 /\ Len(l1_blocks) \in Nat
      BY <1>1, <3>1 DEF IsRun
    <3>4. CASE origin < p
      <4>1. l1 = p
        BY <1>1, <2>4, <3>1, <3>4
      <4>2. l1_blocks = <<>> \/ Len(l1_blocks) = 1
        BY <2>1, <3>4, Zenon DEF Aligned
      <4>3. l1_blocks # <<>> => l1_blocks[1] = p - 1
        BY <1>1, <3>1, <4>1, <4>2, RunEnds, SMTT(40)
      <4> QED BY <1>1, <2>4, <3>2, <4>1, <4>3, SMTT(40)
    <3>5. CASE ~(origin < p)
      <4>1. l1_blocks # <<>> /\ l1_blocks[1] \in {p - 1, p, p + 1}
            /\ (l1_blocks[1] = p + 1 => Len(l1_blocks) >= 2 /\ p + SeqWindow <= origin)
        BY <2>1, <3>5, Zenon DEF Aligned
      <4> QED BY <1>1, <2>4, <3>1, <3>2, <3>3, <4>1
    <3> QED BY <3>4, <3>5, Zenon
  <2> QED BY <2>2, <2>3, <2>4, Zenon
<1>4. U = IF at = {} THEN F ELSE SubSeq(F, Min(at), Len(F))
  BY Zenon DEF update_origins
<1> HIDE DEF F, U
<1>5. DOMAIN F = 1..Len(F) /\ Len(F) \in Nat /\ \A i \in 1..Len(F) : F[i] = l1 - Len(F) + i
  BY <1>2 DEF IsRun
<1>6. CASE F # <<>> /\ F[1] < p /\ p <= l1
  <2>1. F[1] = l1 - Len(F) + 1
    BY <1>1, <1>2, <1>6, RunEnds, Zenon
  <2>2. k \in 1..Len(F) /\ F[k] = p
    <3>1. k \in 1..Len(F)
      BY <1>1, <1>5, <1>6, <2>1
    <3> QED BY <1>1, <1>5, <3>1
  <2>3. at = {k}
    <3>1. \A i \in 1..Len(F) : F[i] = p => i = k
      BY <1>1, <1>5
    <3> HIDE DEF k
    <3> QED BY <1>5, <1>6, <2>2, <3>1, Zenon
  <2>4. Min(at) = k
    BY <1>1, <1>5, <2>3 DEF Min
  <2>5. U = SubSeq(F, k, Len(F))
    BY <1>4, <2>3, <2>4, Zenon
  <2>6. IsRun(U, l1) /\ U # <<>> /\ U[1] = p
    BY <1>1, <1>2, <2>2, <2>5, RunSuffix, SMTT(40)
  <2> QED BY <1>1, <1>6, <2>6 DEF U, OriginBehind
<1>7. CASE ~(F # <<>> /\ F[1] < p /\ p <= l1)
  <2>1. at = {}
    BY <1>1, <1>5, <1>7
  <2>2. U = F
    BY <1>4, <2>1, Zenon
  <2>3. ASSUME GoodStart, AlignOk, ~(l1 < p)
        PROVE  F # <<>> /\ F[1] \in {p, p + 1} /\ (F[1] = p + 1 => Len(F) >= 2 /\ p + SeqWindow <= l1)
    BY <1>1, <1>3, <1>7, <2>3
  <2> QED BY <1>2, <1>3, <2>2, <2>3, Zenon DEF U, OriginBehind
<1> QED BY <1>6, <1>7, Zenon

\* try_derive_empty_batch only moves the window on from the epoch of the safe head to the next
\* one, and leaves two blocks of it when the sequencing window is larger than one block.
LEMMA TryDeriveOk ==
  ASSUME HeadOk, NEW w, IsRun(w, l1), Len(w) >= 2, try_derive_empty_batch(w)
  PROVE  /\ IsRun(l1_blocks', l1) /\ res' \in {"Eof", "Batch"}
         /\ res' = "Batch" => out'.channel = 0
         /\ (LongWindow /\ w[1] \in {parent.epoch, parent.epoch + 1}) =>
              /\ l1_blocks' # <<>> /\ l1_blocks'[1] \in {parent.epoch, parent.epoch + 1}
              /\ Len(l1_blocks') >= 2
              /\ l1_blocks'[1] = w[1] \/ parent.epoch + SeqWindow <= l1
<1> DEFINE p == parent.epoch
           expiry == Add(w[1], SeqWindow)
<1>1. p \in Int /\ l1 \in Int /\ MaxL1 \in Nat /\ SeqWindow \in Nat /\ U64Max \in Nat
  BY ParentOk, ConfigAssumption
<1>2. w # <<>> /\ Len(w) \in Nat
  BY DEF IsRun
<1>3. w[1] \in L1Numbers /\ w[1] \in Nat /\ w[1] = l1 - Len(w) + 1
  BY <1>1, <1>2, RunEnds, Zenon
<1>4. expiry \in Nat /\ (LongWindow => expiry = w[1] + SeqWindow)
  <2>1. expiry \in Nat /\ (w[1] + SeqWindow <= U64Max => expiry = w[1] + SeqWindow)
    BY <1>1, <1>3, AddOk, Zenon
  <2>2. LongWindow => w[1] + SeqWindow <= U64Max
    BY <1>1, <1>3 DEF LongWindow, L1Numbers
  <2> QED BY <2>1, <2>2, Zenon
<1> HIDE DEF expiry
<1>5. CASE /\ l1_blocks' = w
           /\ Return("Eof", NoBatch) \/
              Return("Batch", [batch |-> EmptyBatch(w[1]), channel |-> 0, from |-> "forced"])
  BY <1>2, <1>5 DEF Return
<1>6. CASE /\ ~(expiry > l1) /\ w[1] # p + 1
           /\ Return("Eof", NoBatch) /\ l1_blocks' = Tail(w)
  <2>1. IsRun(l1_blocks', l1) /\ l1_blocks' # <<>> /\ l1_blocks'[1] = w[1] + 1
    BY <1>1, <1>6, RunTail, Zenon
  <2>2. Len(l1_blocks') \in Nat /\ l1_blocks'[1] = l1 - Len(l1_blocks') + 1
    BY <1>1, <2>1, RunEnds, Zenon
  <2>3. LongWindow => Len(l1_blocks') >= 2 /\ w[1] + SeqWindow <= l1
    <3>1. SUFFICES ASSUME LongWindow PROVE Len(l1_blocks') >= 2 /\ w[1] + SeqWindow <= l1
      OBVIOUS
    <3>2. w[1] + SeqWindow <= l1 /\ SeqWindow >= 2
      BY <1>1, <1>3, <1>4, <1>6, <3>1 DEF LongWindow
    <3> QED BY <1>1, <1>3, <2>1, <2>2, <3>2
  <2> QED BY <1>1, <1>3, <1>6, <2>1, <2>3, SMTT(40) DEF Return
<1> QED BY <1>5, <1>6, <1>2, Zenon DEF try_derive_empty_batch, expiry
-----------------------------------------------------------------------------
\* The state the stack leaves is the state of the stages.
LEMMA SetBelowOk ==
  ASSUME NEW s, StackOk(s), SetBelow(s)
  PROVE  StackOk(Below)' /\ flushed' = s.flushed
<1>1. /\ Below'.frames = s.frames /\ Below'.channel = s.channel /\ Below'.reader = s.reader
      /\ Below'.read = s.read /\ Below'.buffer = s.buffer /\ Below'.flushed = s.flushed
      /\ Below'.channels = s.channels /\ DOMAIN Below' = StackFields /\ flushed' = s.flushed
  BY ZenonT(40) DEF SetBelow, Below, StackFields
<1> QED BY <1>1, Zenon DEF StackOk

\* A call of BatchValidator::next_batch.
LEMMA NextBatchOk ==
  ASSUME IInv, NextBatch
  PROVE  IInv'
<1> DEFINE p == parent.epoch
           U == update_origins
           GivenUp(w) == w # <<>> /\ w[1] = p + 1 /\ l1 = p + SeqWindow
<1>1. /\ p \in Int /\ l1 \in Nat /\ l1 \in Int /\ l1 \in L1Numbers
      /\ HeadOk /\ IsRun(l1_blocks, origin) /\ StackOk(Below) /\ Below.res = "Ok"
  BY ParentOk DEF IInv, HeadOk, Below
<1>2. /\ IsRun(U, l1)
      /\ (GoodStart /\ AlignOk) =>
           IF l1 < p THEN U = <<>> \/ Len(U) = 1
           ELSE /\ U # <<>> /\ U[1] \in {p, p + 1}
                /\ U[1] = p + 1 => Len(U) >= 2 /\ p + SeqWindow <= l1
  BY <1>1, UpdateOriginsOk, Zenon DEF OriginBehind
<1>3. origin' = l1 /\ UNCHANGED <<l1, chain, start>>
  BY Zenon DEF NextBatch
<1>4. HeadOk' /\ start'.origin \in Int /\ start'.epoch \in Int
  BY <1>1, <1>3, Zenon DEF IInv, HeadOk
<1>5. parent' = parent /\ (GoodStart' <=> GoodStart)
  BY <1>3, Zenon DEF parent, GoodStart
<1> HIDE DEF U
<1>6. SUFFICES /\ StackOk(Below)' /\ IsRun(l1_blocks', l1)
               /\ res' = "Batch" => out'.channel \notin flushed'
               /\ LongWindow /\ GoodStart /\ AlignOk =>
                    /\ IF l1 < p THEN l1_blocks' = <<>> \/ Len(l1_blocks') = 1
                       ELSE /\ l1_blocks' # <<>> /\ l1_blocks'[1] \in {p, p + 1}
                            /\ l1_blocks'[1] = p + 1 => Len(l1_blocks') >= 2 /\ p + SeqWindow <= l1
                    /\ res' = "Batch" => l1 > p
                    /\ res' \in {"Critical", "Reset"} =>
                         /\ res' = "Critical" /\ out'.batch \in Spans
                         /\ Disagrees(out'.batch) \/ GivenUp(l1_blocks')
  <2>1. SUFFICES ASSUME LongWindow, GoodStart, AlignOk,
                        /\ IF l1 < p THEN l1_blocks' = <<>> \/ Len(l1_blocks') = 1
                           ELSE /\ l1_blocks' # <<>> /\ l1_blocks'[1] \in {p, p + 1}
                                /\ l1_blocks'[1] = p + 1 => Len(l1_blocks') >= 2 /\ p + SeqWindow <= l1
                        /\ res' = "Batch" => l1 > p
                        /\ res' \in {"Critical", "Reset"} =>
                             /\ res' = "Critical" /\ out'.batch \in Spans
                             /\ Disagrees(out'.batch) \/ GivenUp(l1_blocks')
                 PROVE  AlignOk'
    BY <1>3, <1>4, <1>5, <1>6, Zenon DEF IInv, LongWindow, AlignOk
  <2>2. Aligned(l1_blocks', l1)
    BY <1>1, <2>1, Zenon DEF Aligned
  <2>3. Aligned(l1_blocks, origin)'
    BY <1>3, <1>5, <2>2, Zenon DEF Aligned
  <2>4. res' = "Batch" => origin' > parent'.epoch /\ l1_blocks'[1] # parent'.epoch - 1
    BY <1>1, <1>3, <1>5, <2>1, SMTT(40)
  <2>5. res' \in {"Critical", "Reset"} =>
          res' = "Critical" /\ out'.batch \in Spans /\ (Disagrees(out.batch)' \/ EpochGivenUp')
    BY <1>3, <1>5, <2>1 DEF Disagrees, EpochGivenUp
  <2> QED BY <2>3, <2>4, <2>5, Zenon DEF AlignOk
<1>0. ASSUME NEW b, Unconverted(b, U), LongWindow, GoodStart, AlignOk
      PROVE  b \in Spans /\ (Disagrees(b) \/ GivenUp(U))
  <2>1. ~(l1 < p) => U # <<>> /\ U[1] \in {p, p + 1}
    BY <1>0, <1>2, Zenon
  <2>2. Disagrees(b) \/ (U # <<>> /\ U[1] = p + 1 /\ l1 <= p + SeqWindow)
    BY <1>0, <1>1, <1>2, <2>1, Conversion, Zenon
  <2>3. (U # <<>> /\ U[1] = p + 1) => p + SeqWindow <= l1
    BY <1>0, <1>1, <1>2, RunEnds
  <2> QED BY <1>0, <1>1, <2>2, <2>3, ConfigAssumption DEF Unconverted
<1>7. CASE \E s \in stream_next_batch(Below, U) : (OriginBehind \/ p = l1) /\ Drain(U, s)
  <2>1. PICK s \in stream_next_batch(Below, U) : Drain(U, s)
    BY <1>7, Zenon
  <2>2. StreamOk(s, U)
    BY <1>1, StreamNextBatchOk, Zenon
  <2>3. /\ SetBelow(s) /\ l1_blocks' = U /\ out' = s.batch
        /\ res' = IF s.res = "Ok" THEN "NotEnoughData" ELSE s.res
    BY <2>1, Zenon DEF Drain, Return
  <2>4. StackOk(Below)'
    BY <2>2, <2>3, SetBelowOk, Zenon DEF StreamOk
  <2>5. res' # "Batch" /\ res' # "Reset" /\ (res' = "Critical" => Unconverted(out'.batch, U))
    BY <2>2, <2>3, Zenon DEF StreamOk
  <2> QED BY <1>0, <1>2, <2>3, <2>4, <2>5, Zenon
<1>8. CASE /\ ~OriginBehind /\ p # l1
           /\ Len(U) < 2 \/ p \notin {U[1], U[1] - 1}
           /\ l1_blocks' = U /\ UNCHANGED below
           /\ Return(IF Len(U) < 2 THEN "Critical" ELSE "Reset", NoBatch)
  <2>1. StackOk(Below)'
    <3>1. /\ Below'.frames = Below.frames /\ Below'.channel = Below.channel
          /\ Below'.reader = Below.reader /\ Below'.read = Below.read
          /\ Below'.buffer = Below.buffer /\ Below'.flushed = Below.flushed
          /\ Below'.channels = Below.channels /\ DOMAIN Below' = StackFields
      BY <1>8, Zenon DEF below, Below, StackFields
    <3> QED BY <1>1, <3>1, Zenon DEF StackOk
  <2>2. res' # "Batch"
    BY <1>8, Zenon DEF Return
  <2>3. ~(GoodStart /\ AlignOk)
    <3>1. SUFFICES ASSUME GoodStart, AlignOk PROVE FALSE
      OBVIOUS
    <3>2. l1 > p /\ U # <<>> /\ U[1] \in {p, p + 1} /\ (U[1] = p + 1 => Len(U) >= 2)
      BY <1>1, <1>2, <1>8, <3>1 DEF OriginBehind
    <3>3. Len(U) \in Nat /\ U[1] = l1 - Len(U) + 1
      BY <1>1, <1>2, <3>2, RunEnds, Zenon
    <3>4. Len(U) >= 2
      BY <1>1, <3>2, <3>3
    <3> QED BY <1>1, <1>8, <3>2, <3>3, <3>4
  <2> QED BY <1>2, <1>8, <2>1, <2>2, <2>3, Zenon
<1>9. CASE /\ ~OriginBehind /\ p # l1 /\ ~(Len(U) < 2)
           /\ \E s \in stream_next_batch(Below, U) : Validate(U, s)
  <2>1. PICK s \in stream_next_batch(Below, U) : Validate(U, s)
    BY <1>9, Zenon
  <2>2. StreamOk(s, U)
    BY <1>1, StreamNextBatchOk, Zenon
  <2>3. l1 > p /\ Len(U) >= 2
    BY <1>1, <1>2, <1>9, SMTT(40) DEF OriginBehind, IsRun
  <2>4. CASE s.res = "Eof"
    <3>1. SetBelow(s) /\ try_derive_empty_batch(U)
      BY <2>1, <2>4, Zenon DEF Validate
    <3>2. StackOk(Below)' /\ flushed' = s.flushed
      BY <2>2, <3>1, SetBelowOk, Zenon DEF StreamOk
    <3>3. /\ IsRun(l1_blocks', l1) /\ res' \in {"Eof", "Batch"}
          /\ res' = "Batch" => out'.channel = 0
          /\ (LongWindow /\ U[1] \in {p, p + 1}) =>
               /\ l1_blocks' # <<>> /\ l1_blocks'[1] \in {p, p + 1}
               /\ Len(l1_blocks') >= 2
               /\ l1_blocks'[1] = U[1] \/ p + SeqWindow <= l1
      BY <1>1, <1>2, <2>3, <3>1, TryDeriveOk, ZenonT(40)
    <3>4. 0 \notin flushed'
      BY <2>2, <3>2 DEF StreamOk, StackOk
    <3> QED BY <1>1, <1>2, <2>3, <3>2, <3>3, <3>4
  <2>5. CASE s.res \notin {"Ok", "Eof"}
    <3>1. SetBelow(s) /\ l1_blocks' = U /\ res' = s.res /\ out' = s.batch
      BY <2>1, <2>5, Zenon DEF Validate, Return
    <3>2. StackOk(Below)'
      BY <2>2, <3>1, SetBelowOk, Zenon DEF StreamOk
    <3>3. res' # "Batch" /\ res' # "Reset" /\ (res' = "Critical" => Unconverted(out'.batch, U))
      BY <2>2, <3>1, Zenon DEF StreamOk
    <3> QED BY <1>0, <1>2, <3>1, <3>2, <3>3, Zenon
  <2>6. CASE s.res = "Ok"
    <3>1. /\ SetBelow(IF Verdict(s.batch.batch, U) = "Drop" THEN flush(s) ELSE s)
          /\ l1_blocks' = U
          /\ IF Verdict(s.batch.batch, U) = "Accept" THEN Return("Batch", s.batch)
             ELSE Return("NotEnoughData", NoBatch)
      BY <2>1, <2>6, Zenon DEF Validate
    <3>2. CASE Verdict(s.batch.batch, U) = "Accept"
      <4>1. SetBelow(s) /\ res' = "Batch" /\ out' = s.batch
        BY <3>1, <3>2, Zenon DEF Return
      <4>2. StackOk(Below)' /\ flushed' = s.flushed
        BY <2>2, <4>1, SetBelowOk, Zenon DEF StreamOk
      <4>3. s.batch.channel \notin s.flushed
        BY <2>2, <2>6, Zenon DEF StreamOk, StackOk
      <4> QED BY <1>2, <2>3, <3>1, <4>1, <4>2, <4>3, Zenon
    <3>3. CASE Verdict(s.batch.batch, U) # "Accept"
      <4>1. res' = "NotEnoughData"
        BY <3>1, <3>3, ZenonT(40) DEF Return
      <4>2. StackOk(Below)'
        BY <2>2, <3>1, FlushOk, SetBelowOk DEF StreamOk
      <4> QED BY <1>2, <3>1, <4>1, <4>2, Zenon
    <3> QED BY <3>2, <3>3, Zenon
  <2> QED BY <2>4, <2>5, <2>6, Zenon
<1> QED BY <1>7, <1>8, <1>9, SMTT(40) DEF NextBatch, U

\* The next L1 block: its frames join those of the queue.
LEMMA AdvanceOriginOk ==
  ASSUME IInv, AdvanceOrigin
  PROVE  IInv'
<1>1. /\ res = "Eof" /\ l1 < MaxL1 /\ l1' = l1 + 1 /\ res' = "None" /\ out' = NoBatch
      /\ UNCHANGED <<channel, reader, read, buffer, flushed, channels, origin, l1_blocks, chain, start>>
  BY Zenon DEF AdvanceOrigin, window
<1>2. PICK f \in FrameLists : frames' = frames \o f
  BY Zenon DEF AdvanceOrigin
<1>3. frames' \in Seq(Frame)
  <2>1. f \in Seq(Frame) /\ frames \in Seq(Frame)
    BY FramesAssumption DEF IInv, StackOk, Below
  <2> QED BY <1>2, <2>1, SMTT(40)
<1>4. StackOk(Below)'
  <2>1. /\ Below'.frames = frames' /\ Below'.channel = Below.channel
        /\ Below'.reader = Below.reader /\ Below'.read = Below.read
        /\ Below'.buffer = Below.buffer /\ Below'.flushed = Below.flushed
        /\ Below'.channels = Below.channels /\ DOMAIN Below' = StackFields
    BY <1>1, Zenon DEF Below, StackFields
  <2> QED BY <1>3, <2>1, Zenon DEF IInv, StackOk
<1>5. HeadOk'
  <2>1. HeadOk /\ (res = "Eof" => origin = l1)
    BY Zenon DEF IInv
  <2>2. l1 = origin /\ l1 + 1 \in L1Numbers
    BY <1>1, <2>1, ParentOk DEF L1Numbers
  <2> QED BY <1>1, <2>1, <2>2, Zenon DEF HeadOk
<1>6. LongWindow => AlignOk'
  BY <1>1, Zenon DEF IInv, AlignOk, Aligned, GoodStart, parent
<1> QED BY <1>1, <1>4, <1>5, <1>6, Zenon DEF IInv, LongWindow

\* The new safe head has the epoch of the old one or the next. The origin was past the old one.
LEMMA BuildBlockOk ==
  ASSUME IInv, BuildBlock
  PROVE  IInv'
<1> DEFINE p == parent.epoch
           T == [number : Nat, timestamp : Nat, epoch : L1Numbers]
           e == out.batch.epoch_hash
           b == [number |-> parent.number + 1, timestamp |-> Add(parent.timestamp, BlockTime), epoch |-> e]
<1>1. /\ p \in Int /\ p \in L1Numbers /\ parent.number \in Nat /\ parent.timestamp \in Nat
      /\ origin \in Int /\ MaxL1 \in Nat /\ HeadOk
  BY ParentOk DEF IInv
<1>2. /\ res = "Batch" /\ Fits(out.batch) /\ chain' = Append(chain, b) /\ res' = "None"
      /\ UNCHANGED <<l1, frames, channel, reader, read, buffer, flushed, channels, origin, l1_blocks, start>>
  BY Zenon DEF BuildBlock, below, window
<1>3. e \in {p, p + 1} /\ e \in L1Numbers
  BY <1>1, <1>2, SMTT(40) DEF Fits, L1Numbers
<1>4. b \in T
  <2>1. Add(parent.timestamp, BlockTime) \in Nat
    BY <1>1, ConfigAssumption, AddOk, Zenon
  <2> QED BY <1>1, <1>3, <2>1
<1>5. chain' \in Seq(T) /\ chain' # <<>> /\ parent' = b
  <2>1. chain \in Seq(T)
    BY <1>1, Zenon DEF HeadOk
  <2> HIDE DEF T, b
  <2> QED BY <1>2, <1>4, <2>1 DEF parent
<1>6. parent'.epoch = e
  BY <1>5, Zenon
<1>7. HeadOk'
  <2>1. \A i \in 1..Len(chain') : chain'[i].number = chain'[1].number + i - 1
    <3> DEFINE n == Len(chain)
               m == chain[1].number
    <3>1. chain \in Seq(T) /\ chain # <<>>
      BY <1>1, Zenon DEF HeadOk
    <3>2. n \in Nat /\ n >= 1 /\ chain[1] \in T
      <4> HIDE DEF T
      <4> QED BY <3>1
    <3>3. m \in Nat /\ \A i \in 1..n : chain[i].number = m + i - 1
      BY <1>1, <3>2, Zenon DEF HeadOk
    <3>4. parent.number = m + n - 1 /\ b.number = m + n
      BY <3>2, <3>3, SMTT(40) DEF parent
    <3>5. Len(chain') = n + 1 /\ \A i \in 1..n + 1 : chain'[i] = IF i <= n THEN chain[i] ELSE b
      <4> HIDE DEF T, b
      <4> QED BY <1>2, <3>1, <3>2
    <3>6. ASSUME NEW i \in 1..n + 1 PROVE chain'[i].number = m + i - 1
      <4>1. CASE i <= n
        BY <3>2, <3>3, <3>5, <4>1
      <4>2. CASE i = n + 1
        <5>1. chain'[i] = b
          BY <3>2, <3>5, <4>2, SMTT(40)
        <5> HIDE DEF b, n, m
        <5> QED BY <3>2, <3>3, <3>4, <4>2, <5>1, SMTT(40)
      <4> QED BY <3>2, <4>1, <4>2, SMTT(40)
    <3>7. chain'[1] = chain[1]
      BY <3>2, <3>5
    <3> QED BY <3>5, <3>6, <3>7, Zenon
  <2> QED BY <1>1, <1>2, <1>5, <2>1, Zenon DEF HeadOk
<1>8. StackOk(Below)'
  <2>1. /\ Below'.frames = Below.frames /\ Below'.channel = Below.channel
        /\ Below'.reader = Below.reader /\ Below'.read = Below.read
        /\ Below'.buffer = Below.buffer /\ Below'.flushed = Below.flushed
        /\ Below'.channels = Below.channels /\ DOMAIN Below' = StackFields
    BY <1>2, Zenon DEF Below, StackFields
  <2> QED BY <2>1, Zenon DEF IInv, StackOk
<1>9. LongWindow => AlignOk'
  <2>1. SUFFICES ASSUME LongWindow, GoodStart PROVE Aligned(l1_blocks, origin)'
    BY <1>2, Zenon DEF AlignOk, GoodStart
  <2>2. /\ origin > p /\ l1_blocks # <<>> /\ l1_blocks[1] \in {p, p + 1}
        /\ l1_blocks[1] = p + 1 => Len(l1_blocks) >= 2 /\ p + SeqWindow <= origin
    <3>1. AlignOk
      BY <2>1, Zenon DEF IInv
    <3>2. origin > p /\ l1_blocks[1] # p - 1 /\ Aligned(l1_blocks, origin)
      BY <1>2, <2>1, <3>1, Zenon DEF AlignOk
    <3> QED BY <1>1, <3>2 DEF Aligned
  <2>3. /\ ~(origin < e) /\ l1_blocks[1] \in {e - 1, e, e + 1}
        /\ l1_blocks[1] = e + 1 => Len(l1_blocks) >= 2 /\ e + SeqWindow <= origin
    BY <1>1, <1>3, <2>2, SMTT(40)
  <2>4. parent'.epoch = e /\ origin' = origin /\ l1_blocks' = l1_blocks
    BY <1>2, <1>6, Zenon
  <2> HIDE DEF e, p
  <2> QED BY <2>2, <2>3, <2>4, Zenon DEF Aligned
<1> QED BY <1>2, <1>7, <1>8, <1>9, Zenon DEF IInv, LongWindow

\* A signal flushes the channel that was being read.
LEMMA SignalBelowOk ==
  ASSUME IInv, NEW keep \in BOOLEAN, SignalBelow(keep), frames' \in Seq(Frame)
  PROVE  /\ StackOk(Below)' /\ res' = "None" /\ UNCHANGED <<l1, chain>>
<1>1. /\ channel' \in {channel, NoChannel} /\ reader' = 0 /\ buffer' = <<>>
      /\ flushed' = flushed \cup ({reader} \ {0}) /\ res' = "None"
      /\ UNCHANGED <<l1, read, channels, chain>>
  BY Zenon DEF SignalBelow
<1>2. /\ InTime(channel) /\ Whole(read) /\ reader \in Nat /\ channels \in Nat /\ reader <= channels
      /\ flushed \subseteq 1..channels
  BY SMTT(40) DEF IInv, StackOk, Below
<1>3. InTime(channel')
  BY <1>1, <1>2 DEF InTime
<1>4. flushed' \subseteq 1..channels' /\ 0 \notin flushed' /\ 0 <= channels'
  BY <1>1, <1>2
<1>5. <<>> \in Seq(Entry(0))
  OBVIOUS
<1>6. /\ Below'.frames = frames' /\ Below'.channel = channel' /\ Below'.reader = 0
      /\ Below'.read = read /\ Below'.buffer = <<>> /\ Below'.flushed = flushed'
      /\ Below'.channels = channels' /\ DOMAIN Below' = StackFields
  BY <1>1, Zenon DEF Below, StackFields
<1> QED BY <1>1, <1>2, <1>3, <1>4, <1>5, <1>6 DEF StackOk

\* The flush signal reaches every stage and leaves the window of the validator alone.
LEMMA FlushChannelOk ==
  ASSUME IInv, FlushChannel
  PROVE  IInv'
<1>1. SignalBelow(TRUE) /\ UNCHANGED <<frames, origin, l1_blocks, start>>
  BY Zenon DEF FlushChannel, window
<1>2. frames' \in Seq(Frame)
  BY <1>1 DEF IInv, StackOk, Below
<1>3. StackOk(Below)' /\ res' = "None" /\ UNCHANGED <<l1, chain>>
  BY <1>1, <1>2, SignalBelowOk, ZenonT(40)
<1> QED BY <1>1, <1>3, Zenon DEF IInv, HeadOk, AlignOk, Aligned, GoodStart, parent, LongWindow

\* So does the activation of Holocene.
LEMMA ActivationOk ==
  ASSUME IInv, Activation
  PROVE  IInv'
<1>1. SignalBelow(FALSE) /\ frames' \in FrameLists /\ UNCHANGED <<origin, l1_blocks, start>>
  BY Zenon DEF Activation, window
<1>2. frames' \in Seq(Frame)
  BY <1>1, FramesAssumption, Zenon
<1>3. StackOk(Below)' /\ res' = "None" /\ UNCHANGED <<l1, chain>>
  BY <1>1, <1>2, SignalBelowOk, Zenon
<1> QED BY <1>1, <1>3 DEF IInv, HeadOk, AlignOk, Aligned, GoodStart, parent, LongWindow

\* A reset starts the stages and the window anew at the current L1 block.
LEMMA ResetOk ==
  ASSUME IInv, Reset
  PROVE  IInv'
<1>1. /\ SignalBelow(FALSE) /\ frames' \in FrameLists
      /\ origin' = l1 /\ l1_blocks' = <<l1>>
      /\ start'.origin = l1 /\ start'.epoch = parent.epoch
  BY Zenon DEF Reset
<1>2. frames' \in Seq(Frame)
  BY <1>1, FramesAssumption, Zenon
<1>3. StackOk(Below)' /\ res' = "None" /\ UNCHANGED <<l1, chain>>
  BY <1>1, <1>2, SignalBelowOk, Zenon
<1>4. /\ l1 \in L1Numbers /\ l1 \in Int /\ parent.epoch \in Int /\ parent' = parent
  BY <1>3, ParentOk DEF IInv, HeadOk, parent
<1>5. HeadOk'
  BY <1>1, <1>3, <1>4, Zenon DEF IInv, HeadOk
<1>6. IsRun(<<l1>>, l1) /\ <<l1>> # <<>> /\ Len(<<l1>>) = 1 /\ <<l1>>[1] = l1
  BY <1>4 DEF IsRun
<1>7. AlignOk'
  <2>1. GoodStart' => l1 <= parent.epoch
    BY <1>1, Zenon DEF GoodStart
  <2>2. l1 <= parent.epoch => Aligned(<<l1>>, l1)
    BY <1>4, <1>6 DEF Aligned
  <2> QED BY <1>1, <1>3, <1>4, <2>1, <2>2, Zenon DEF AlignOk, Aligned
<1> QED BY <1>1, <1>3, <1>4, <1>5, <1>6, <1>7, Zenon DEF IInv

\* The stages start from a reset.
LEMMA InitIInv == Init => IInv
<1> SUFFICES ASSUME Init PROVE IInv
  OBVIOUS
<1> DEFINE T == [number : Nat, timestamp : Nat, epoch : L1Numbers]
<1>1. chain # <<>> /\ chain \in Seq(T)
  <2> DEFINE R == [number : Nat, timestamp : 0..U64Max, epoch : 0..MaxL1]
  <2>1. chain # <<>> /\ chain \in Seq(R)
    BY SafeAssumption, Zenon DEF Init
  <2>2. R \subseteq T
    BY ConfigAssumption DEF L1Numbers
  <2> HIDE DEF R, T
  <2> QED BY <2>1, <2>2
<1>2. parent.epoch \in L1Numbers
  <2> HIDE DEF T
  <2>1. Len(chain) \in 1..Len(chain)
    BY <1>1
  <2>2. parent \in T
    BY <1>1, <2>1, SeqElements, Zenon DEF parent
  <2> QED BY <2>2, Zenon DEF T
<1>3. l1 \in L1Numbers /\ l1 \in Int /\ parent.epoch \in Int /\ l1 <= parent.epoch
  BY <1>2, L1TimestampAssumption DEF Init, L1Numbers
<1>4. HeadOk
  <2>1. \A i \in 1..Len(chain) : chain[i].number = chain[1].number + i - 1
    BY SafeAssumption, Zenon DEF Init
  <2> QED BY <1>1, <1>3, <2>1, Zenon DEF Init, HeadOk
<1>5. StackOk(Below)
  <2>1. frames \in Seq(Frame)
    BY FramesAssumption, Zenon DEF Init
  <2>2. /\ Below.frames = frames /\ Below.channel = NoChannel /\ Below.reader = 0
        /\ Below.read = NoChannel /\ Below.buffer = <<>> /\ Below.flushed = {}
        /\ Below.channels = 0 /\ DOMAIN Below = StackFields
    BY Zenon DEF Below, StackFields, Init
  <2>3. InTime(NoChannel) /\ Whole(NoChannel)
    BY Zenon DEF InTime, Whole
  <2>4. <<>> \in Seq(Entry(0))
    OBVIOUS
  <2> QED BY <2>1, <2>2, <2>3, <2>4 DEF StackOk
<1>6. /\ origin = l1 /\ l1_blocks = <<l1>> /\ start.origin = l1 /\ start.epoch = parent.epoch
      /\ res = "None"
  BY Zenon DEF Init
<1>7. IsRun(<<l1>>, l1) /\ <<l1>> # <<>> /\ Len(<<l1>>) = 1 /\ <<l1>>[1] = l1
  BY <1>3 DEF IsRun
<1>8. AlignOk
  BY <1>3, <1>6, <1>7 DEF AlignOk, Aligned
<1> QED BY <1>3, <1>4, <1>5, <1>6, <1>7, <1>8, Zenon DEF IInv

\* Every step keeps the invariant.
LEMMA NextIInv == IInv /\ [Next]_vars => IInv'
<1> SUFFICES ASSUME IInv, [Next]_vars PROVE IInv'
  OBVIOUS
<1>1. CASE NextBatch
  BY <1>1, NextBatchOk, Zenon
<1>2. CASE AdvanceOrigin
  BY <1>2, AdvanceOriginOk, Zenon
<1>3. CASE BuildBlock
  BY <1>3, BuildBlockOk, Zenon
<1>4. CASE FlushChannel
  BY <1>4, FlushChannelOk, Zenon
<1>5. CASE Activation
  BY <1>5, ActivationOk, Zenon
<1>6. CASE Reset
  BY <1>6, ResetOk, Zenon
<1>7. CASE UNCHANGED vars
  <2>1. UNCHANGED <<l1, frames, channel, reader, read, buffer, flushed, channels, count,
                    origin, l1_blocks, chain, res, out, start>>
    BY <1>7, Zenon DEF vars, below, window
  <2>2. Below' = Below
    BY <2>1, Zenon DEF Below
  <2>3. StackOk(Below)'
    BY <2>2, Zenon DEF IInv
  <2>4. HeadOk' /\ (AlignOk => AlignOk')
    BY <2>1, Zenon DEF IInv, HeadOk, AlignOk, Aligned, GoodStart, Disagrees, EpochGivenUp, parent
  <2> QED BY <2>1, <2>3, <2>4, Zenon DEF IInv, LongWindow
<1> QED BY <1>1, <1>2, <1>3, <1>4, <1>5, <1>6, <1>7, Zenon DEF Next
-----------------------------------------------------------------------------
\* The inductive invariant: assembler, reader, stream and validator stay in step through every
\* call, every L1 block, every block that is built and every signal.
THEOREM Invariance == Spec => []IInv
<1>1. Init => IInv
  BY InitIInv, Zenon
<1>2. IInv /\ [Next]_vars => IInv'
  BY NextIInv, Zenon
<1> QED BY <1>1, <1>2, PTL DEF Spec

\* BatchValidator::next_batch, BatchStream::flush and ChannelReader::flush: after a batch of a
\* channel is dropped, or the channel is flushed, nothing of that channel is delivered.
THEOREM DroppedStaysDropped == Spec => []NothingAfterDrop
<1>1. IInv => NothingAfterDrop
  <2> SUFFICES ASSUME IInv PROVE NothingAfterDrop
    OBVIOUS
  <2>1. reader \notin flushed /\ buffer \in Seq(Entry(reader))
    BY Zenon DEF IInv, StackOk, Below
  <2>2. \A i \in DOMAIN buffer : buffer[i].channel \notin flushed
    <3>1. ASSUME NEW i \in DOMAIN buffer PROVE buffer[i] \in Entry(reader)
      <4>1. i \in 1..Len(buffer)
        BY <2>1
      <4> QED BY <2>1, <4>1, SeqElements, Zenon
    <3> QED BY <2>1, <3>1, Zenon DEF Entry
  <2> QED BY <2>1, <2>2, Zenon DEF NothingAfterDrop, IInv
<1> QED BY <1>1, Invariance, PTL

\* ChannelAssembler::next_data: what it hands to the reader is one channel, whole, with no frame
\* from after the timeout, whatever frames came in between.
THEOREM AssemblesInTime == Spec => []AssembledInTime
<1>1. IInv => AssembledInTime
  BY Zenon DEF IInv, StackOk, Below, Whole, AssembledInTime
<1> QED BY <1>1, Invariance, PTL

\* BatchValidator::next_batch never finds its window empty, too short or without the epoch of the
\* safe head, and a span it cannot convert contradicts the safe chain or is of the epoch that was
\* given up, if the sequencing window is larger than one L1 block and no block number overflows.
THEOREM StaysOnTrack ==
  ASSUME SeqWindow >= 2, MaxL1 + SeqWindow <= U64Max
  PROVE  Spec => []ValidatorOnTrack
<1>1. IInv => ValidatorOnTrack
  BY DEF IInv, LongWindow, AlignOk, IsRun, ValidatorOnTrack
<1> QED BY <1>1, Invariance, PTL
=============================================================================
