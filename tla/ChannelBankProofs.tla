-------------------------- MODULE ChannelBankProofs --------------------------
(***************************************************************************)
(* What ChannelBank promises for every set of channel ids, frame sizes,    *)
(* timeout, bank limit and bound on the L1 origin.                         *)
(*                                                                         *)
(* The inductive invariant IInv says of the map and the queue that they    *)
(* hold the same ids, in the order the channels were opened (BankOk), and  *)
(* of every channel that it is well formed (WellFormed).  The bank changes *)
(* in four ways, each with a lemma: a channel is replaced (ReplaceOk) or   *)
(* appended (AppendOk) by an ingest, the first k are popped (PopsOk) by a  *)
(* timeout or by prune, and one in the middle is removed (RemoveOk).       *)
(***************************************************************************)
EXTENDS ChannelBank, SequenceTheorems, TLAPS

\* The size of an empty bank is zero, so prune stops at the latest when the bank is empty.
LEMMA EmptyBank ==
    ASSUME NEW f, DOMAIN f = {}
    PROVE  BankSize(f) = 0
  BY DEF BankSize, MapThenSumSet, MapThenFoldSet

\* VecDeque::remove as read uses it: the elements after index i move down by one.
LEMMA RemoveAtSeq ==
    ASSUME NEW S, NEW s \in Seq(S), NEW i \in 1 .. Len(s)
    PROVE  /\ RemoveAt(s, i) \in Seq(S)
           /\ Len(RemoveAt(s, i)) = Len(s) - 1
           /\ \A j \in 1 .. Len(s) - 1 : RemoveAt(s, i)[j] = IF j < i THEN s[j] ELSE s[j + 1]
<1> DEFINE a == SubSeq(s, 1, i - 1)
           b == SubSeq(s, i + 1, Len(s))
<1>1. a \in Seq(S) /\ Len(a) = i - 1 /\ \A j \in 1 .. i - 1 : a[j] = s[j]
  OBVIOUS
<1>2. b \in Seq(S) /\ Len(b) = Len(s) - i /\ \A j \in 1 .. Len(s) - i : b[j] = s[i + j]
  OBVIOUS
<1>3. RemoveAt(s, i) = a \o b
  BY DEF RemoveAt
<1> HIDE DEF a, b
<1>a. Len(s) \in Nat /\ i \in Int
  OBVIOUS
<1>4. a \o b \in Seq(S) /\ Len(a \o b) = Len(s) - 1
  <2>1. a \o b \in Seq(S) /\ Len(a \o b) = Len(a) + Len(b)
    BY <1>1, <1>2, ConcatProperties, Zenon
  <2>2. Len(a \o b) = (i - 1) + (Len(s) - i)
    BY <2>1, <1>1, <1>2, Zenon
  <2> QED BY <2>1, <2>2, <1>a
<1>5. ASSUME NEW j \in 1 .. Len(s) - 1
      PROVE  (a \o b)[j] = IF j < i THEN s[j] ELSE s[j + 1]
  <2>1. CASE j < i
    BY <2>1, <1>1, <1>2, ConcatProperties
  <2>2. CASE j >= i
    <3>1. (a \o b)[j] = b[j - (i - 1)]
      BY <2>2, <1>1, <1>2, ConcatProperties
    <3>2. b[j - (i - 1)] = s[i + (j - (i - 1))]
      BY <2>2, <1>2
    <3>3. i + (j - (i - 1)) = j + 1
      OBVIOUS
    <3>4. ~(j < i)
      BY <2>2
    <3> QED BY <3>1, <3>2, <3>3, <3>4, Zenon
  <2>3. j < i \/ j >= i
    BY <1>a
  <2> QED BY <2>1, <2>2, <2>3, Zenon
<1> QED BY <1>3, <1>4, <1>5

\* The queue that is left once prune has popped its first k ids.
LEMMA SuffixSeq ==
    ASSUME NEW S, NEW s \in Seq(S), NEW k \in 0 .. Len(s)
    PROVE  /\ SubSeq(s, k + 1, Len(s)) \in Seq(S)
           /\ Len(SubSeq(s, k + 1, Len(s))) = Len(s) - k
           /\ \A j \in 1 .. Len(s) - k : SubSeq(s, k + 1, Len(s))[j] = s[k + j]
  OBVIOUS

\* What a channel of the bank satisfies, by itself.
WellFormed(c, id, o) ==
    /\ ChannelOk(c)
    /\ c.id = id
    /\ c.open_block <= o
    /\ \A n \in DOMAIN c.inputs :
          /\ c.inputs[n].id = id /\ c.inputs[n].number = n
          /\ n <= c.highest_frame_number
          /\ c.inputs[n].is_last <=> (c.closed /\ n = c.last_frame_number)
    /\ c.closed => /\ c.highest_frame_number = c.last_frame_number
                   /\ c.last_frame_number \in DOMAIN c.inputs
    /\ DOMAIN c.inputs # {} => c.open_block <= c.highest_l1_inclusion_block
    /\ c.highest_l1_inclusion_block <= c.open_block + ChannelTimeout

\* What the map and the queue of the bank satisfy together, at L1 origin o.
BankOk(chs, q, o) ==
    /\ DOMAIN chs \subseteq ChannelIds
    /\ q \in Seq(ChannelIds)
    /\ \A id \in DOMAIN chs : WellFormed(chs[id], id, o) /\ \E i \in 1 .. Len(q) : q[i] = id
    /\ \A i \in 1 .. Len(q) : q[i] \in DOMAIN chs
    /\ \A i, j \in 1 .. Len(q) : q[i] = q[j] => i = j
    /\ \A i, j \in 1 .. Len(q) : i <= j => chs[q[i]].open_block <= chs[q[j]].open_block

\* A new channel is well formed.
LEMMA NewChannelOk ==
    ASSUME NEW id \in ChannelIds, NEW o \in Nat
    PROVE  WellFormed(NewChannel(id, o), id, o)
  BY U16MaxAssumption, ChannelTimeoutAssumption
  DEF WellFormed, NewChannel, ChannelOk, FrameNumbers

\* add_frame keeps a channel well formed, if the channel has not timed out.
LEMMA AddFrameOk ==
    ASSUME NEW c, NEW o \in Nat, NEW f \in Frame,
           WellFormed(c, f.id, o), ~RejectsFrame(c, f), ~(c.open_block + ChannelTimeout < o)
    PROVE  /\ WellFormed(AddFrame(c, f, o), f.id, o)
           /\ AddFrame(c, f, o).open_block = c.open_block
<1> DEFINE d == AddFrame(c, f, o)
<1>1. /\ f.id \in ChannelIds /\ f.number \in FrameNumbers /\ f.is_last \in BOOLEAN
      /\ f.id = c.id
      /\ f.is_last => ~c.closed
      /\ f.number \notin DOMAIN c.inputs
      /\ c.closed => f.number < c.last_frame_number
  BY DEF RejectsFrame, Frame, WellFormed, ChannelOk, FrameNumbers
<1>2. /\ c.open_block \in Nat /\ c.closed \in BOOLEAN
      /\ c.highest_frame_number \in FrameNumbers /\ c.last_frame_number \in FrameNumbers
      /\ c.highest_l1_inclusion_block \in Nat
      /\ DOMAIN c.inputs \subseteq FrameNumbers
      /\ \A n \in DOMAIN c.inputs : c.inputs[n] \in Frame
  BY DEF WellFormed, ChannelOk
<1>3. /\ d.id = c.id /\ d.open_block = c.open_block
      /\ d.closed = (c.closed \/ f.is_last)
      /\ d.last_frame_number = IF f.is_last THEN f.number ELSE c.last_frame_number
      /\ d.highest_l1_inclusion_block = IF c.highest_l1_inclusion_block < o THEN o
                                        ELSE c.highest_l1_inclusion_block
  BY DEF AddFrame
<1>4. /\ DOMAIN d.inputs = RetainedOn(c, f) \cup {f.number}
      /\ \A n \in DOMAIN d.inputs : d.inputs[n] = IF n = f.number THEN f ELSE c.inputs[n]
  BY DEF AddFrame
<1>5. d.highest_frame_number =
        IF PrunesOn(c, f) THEN f.number
        ELSE IF f.number > c.highest_frame_number THEN f.number ELSE c.highest_frame_number
  BY <1>1, <1>2 DEF AddFrame, FrameNumbers
<1>6. /\ RetainedOn(c, f) \subseteq DOMAIN c.inputs
      /\ \A n \in RetainedOn(c, f) : PrunesOn(c, f) => n < f.number
  BY DEF RetainedOn
<1> HIDE DEF d
<1>7. ChannelOk(d)
  BY <1>1, <1>2, <1>3, <1>4, <1>5, <1>6 DEF ChannelOk, FrameNumbers
<1>8. d.id = f.id /\ d.open_block <= o
  BY <1>1, <1>3 DEF WellFormed
<1>9. d.closed => /\ d.highest_frame_number = d.last_frame_number
                  /\ d.last_frame_number \in DOMAIN d.inputs
  <2>1. CASE f.is_last
    BY <2>1, <1>1, <1>2, <1>3, <1>4, <1>5 DEF PrunesOn, FrameNumbers
  <2>2. CASE ~f.is_last
    <3>1. RetainedOn(c, f) = DOMAIN c.inputs /\ ~PrunesOn(c, f)
      BY <2>2 DEF RetainedOn, PrunesOn
    <3> QED BY <2>2, <3>1, <1>1, <1>2, <1>3, <1>4, <1>5 DEF WellFormed, FrameNumbers
  <2> QED BY <2>1, <2>2
<1>10. ASSUME NEW n \in DOMAIN d.inputs
       PROVE  /\ d.inputs[n].id = f.id /\ d.inputs[n].number = n
              /\ n <= d.highest_frame_number
              /\ d.inputs[n].is_last <=> (d.closed /\ n = d.last_frame_number)
  <2>1. CASE n = f.number
    <3>1. d.inputs[n] = f
      BY <2>1, <1>4
    <3>2. n <= d.highest_frame_number
      BY <2>1, <1>1, <1>2, <1>5 DEF FrameNumbers
    <3>3. f.is_last <=> (d.closed /\ n = d.last_frame_number)
      BY <2>1, <1>1, <1>2, <1>3 DEF FrameNumbers
    <3> QED BY <2>1, <3>1, <3>2, <3>3
  <2>2. CASE n # f.number
    <3>1. n \in DOMAIN c.inputs /\ d.inputs[n] = c.inputs[n] /\ n \in FrameNumbers
      BY <2>2, <1>2, <1>4, <1>6
    <3>2. /\ c.inputs[n].id = f.id /\ c.inputs[n].number = n
          /\ n <= c.highest_frame_number
          /\ c.inputs[n].is_last <=> (c.closed /\ n = c.last_frame_number)
      BY <3>1 DEF WellFormed
    <3>3. PrunesOn(c, f) => n < f.number
      BY <2>2, <1>4, <1>6
    <3>4. n <= d.highest_frame_number
      BY <3>1, <3>2, <3>3, <1>1, <1>2, <1>5 DEF FrameNumbers
    <3>5. c.inputs[n].is_last <=> (d.closed /\ n = d.last_frame_number)
      BY <2>2, <3>2, <1>1, <1>2, <1>3
    <3> QED BY <3>1, <3>2, <3>4, <3>5
  <2> QED BY <2>1, <2>2
<1>11. /\ DOMAIN d.inputs # {} => d.open_block <= d.highest_l1_inclusion_block
       /\ d.highest_l1_inclusion_block <= d.open_block + ChannelTimeout
  BY <1>2, <1>3, ChannelTimeoutAssumption DEF WellFormed
<1> QED
  BY <1>3, <1>7, <1>8, <1>9, <1>10, <1>11 DEF WellFormed, d

\* The queue q2 is q without the ids of R: e says where an id of q2 is in q.
Embeds(q2, q, R, e) ==
    /\ q2 \in Seq(ChannelIds)
    /\ e \in [1 .. Len(q2) -> 1 .. Len(q)]
    /\ \A j \in 1 .. Len(q2) : q2[j] = q[e[j]] /\ q2[j] \notin R
    /\ \A i, j \in 1 .. Len(q2) : i <= j => e[i] <= e[j]
    /\ \A i, j \in 1 .. Len(q2) : e[i] = e[j] => i = j
    /\ \A k \in 1 .. Len(q) : q[k] \in R \/ \E j \in 1 .. Len(q2) : e[j] = k

\* A bank that keeps some channels, and their ids in the same order, is still a good one.
LEMMA SubBank ==
    ASSUME NEW chs, NEW q, NEW o, BankOk(chs, q, o),
           NEW R, NEW q2, NEW e, Embeds(q2, q, R, e)
    PROVE  BankOk(Without(chs, R), q2, o)
<1> DEFINE w == Without(chs, R)
<1>1. DOMAIN w = DOMAIN chs \ R /\ \A id \in DOMAIN w : w[id] = chs[id]
  BY DEF Without
<1> HIDE DEF w
<1>2. \A j \in 1 .. Len(q2) : e[j] \in 1 .. Len(q) /\ q2[j] \in DOMAIN w
  BY <1>1 DEF BankOk, Embeds
<1>3. DOMAIN w \subseteq ChannelIds
  BY <1>1 DEF BankOk
<1>4. ASSUME NEW id \in DOMAIN w
      PROVE  WellFormed(w[id], id, o) /\ \E j \in 1 .. Len(q2) : q2[j] = id
  <2>1. id \in DOMAIN chs /\ id \notin R /\ w[id] = chs[id]
    BY <1>1
  <2>2. PICK k \in 1 .. Len(q) : q[k] = id
    BY <2>1 DEF BankOk
  <2>3. PICK j \in 1 .. Len(q2) : e[j] = k
    BY <2>1, <2>2 DEF Embeds
  <2>4. q2[j] = id
    BY <2>2, <2>3 DEF Embeds
  <2> QED BY <2>1, <2>4 DEF BankOk
<1>5. ASSUME NEW i \in 1 .. Len(q2), NEW j \in 1 .. Len(q2), q2[i] = q2[j]
      PROVE  i = j
  <2>1. e[i] \in 1 .. Len(q) /\ e[j] \in 1 .. Len(q) /\ q[e[i]] = q[e[j]]
    BY <1>2, <1>5 DEF Embeds
  <2>2. e[i] = e[j]
    BY <2>1 DEF BankOk
  <2> QED BY <2>2 DEF Embeds
<1>6. ASSUME NEW i \in 1 .. Len(q2), NEW j \in 1 .. Len(q2), i <= j
      PROVE  w[q2[i]].open_block <= w[q2[j]].open_block
  <2>1. e[i] \in 1 .. Len(q) /\ e[j] \in 1 .. Len(q) /\ e[i] <= e[j]
    BY <1>2, <1>6 DEF Embeds
  <2>2. chs[q[e[i]]].open_block <= chs[q[e[j]]].open_block
    BY <2>1 DEF BankOk
  <2> QED BY <2>2, <1>1, <1>2 DEF Embeds
<1> QED
  BY <1>2, <1>3, <1>4, <1>5, <1>6 DEF BankOk, Embeds, w

\* prune pops channels from the front of the queue.
LEMMA PopsOk ==
    ASSUME NEW chs, NEW q, NEW o, BankOk(chs, q, o), NEW k \in 0 .. Len(q)
    PROVE  BankOk(AfterPops(chs, q, k), SubSeq(q, k + 1, Len(q)), o)
<1> DEFINE R  == {q[j] : j \in 1 .. k}
           q2 == SubSeq(q, k + 1, Len(q))
           e  == [j \in 1 .. Len(q2) |-> k + j]
<1>1. q \in Seq(ChannelIds) /\ Len(q) \in Nat /\ k \in Nat /\ k <= Len(q)
  BY DEF BankOk
<1>2. q2 \in Seq(ChannelIds) /\ Len(q2) = Len(q) - k /\ \A j \in 1 .. Len(q2) : q2[j] = q[k + j]
  BY <1>1, SuffixSeq
<1> HIDE DEF q2
<1>3. e \in [1 .. Len(q2) -> 1 .. Len(q)]
  BY <1>1, <1>2
<1>4. ASSUME NEW j \in 1 .. Len(q2)
      PROVE  q2[j] = q[e[j]] /\ q2[j] \notin R
  <2>1. k + j \in 1 .. Len(q) /\ e[j] = k + j
    BY <1>1, <1>2
  <2>2. \A i \in 1 .. k : i \in 1 .. Len(q) /\ i # k + j
    BY <1>1, <1>2
  <2>3. \A i \in 1 .. k : q[i] # q[k + j]
    BY <2>1, <2>2 DEF BankOk
  <2> QED BY <2>1, <2>3, <1>2
<1>5. /\ \A i, j \in 1 .. Len(q2) : i <= j => e[i] <= e[j]
      /\ \A i, j \in 1 .. Len(q2) : e[i] = e[j] => i = j
  BY <1>1, <1>2
<1>6. ASSUME NEW n \in 1 .. Len(q)
      PROVE  q[n] \in R \/ \E j \in 1 .. Len(q2) : e[j] = n
  <2>1. CASE n <= k
    BY <2>1, <1>1
  <2>2. CASE n > k
    <3>1. n - k \in 1 .. Len(q2) /\ e[n - k] = n
      BY <2>2, <1>1, <1>2
    <3> QED BY <3>1
  <2>3. n <= k \/ n > k
    BY <1>1
  <2> QED BY <2>1, <2>2, <2>3
<1> HIDE DEF e, R
<1>7. Embeds(q2, q, R, e)
  BY <1>2, <1>3, <1>4, <1>5, <1>6 DEF Embeds
<1>8. BankOk(Without(chs, R), q2, o)
  BY <1>7, SubBank
<1> QED BY <1>8 DEF AfterPops, R, q2

\* Any one channel may leave the bank.
LEMMA RemoveOk ==
    ASSUME NEW chs, NEW q, NEW o, BankOk(chs, q, o), NEW k \in 1 .. Len(q)
    PROVE  BankOk(Without(chs, {q[k]}), RemoveAt(q, k), o)
<1> DEFINE q2 == RemoveAt(q, k)
           e  == [j \in 1 .. Len(q2) |-> IF j < k THEN j ELSE j + 1]
<1>1. q \in Seq(ChannelIds) /\ Len(q) \in Nat /\ k \in Nat
  BY DEF BankOk
<1>2. /\ q2 \in Seq(ChannelIds) /\ Len(q2) = Len(q) - 1
      /\ \A j \in 1 .. Len(q2) : q2[j] = IF j < k THEN q[j] ELSE q[j + 1]
  BY <1>1, RemoveAtSeq
<1> HIDE DEF q2
<1>3. e \in [1 .. Len(q2) -> 1 .. Len(q)]
  BY <1>1, <1>2
<1>4. ASSUME NEW j \in 1 .. Len(q2)
      PROVE  q2[j] = q[e[j]] /\ q2[j] \notin {q[k]}
  <2>1. e[j] \in 1 .. Len(q) /\ e[j] # k /\ q2[j] = q[e[j]]
    BY <1>1, <1>2
  <2> QED BY <2>1 DEF BankOk
<1>5. /\ \A i, j \in 1 .. Len(q2) : i <= j => e[i] <= e[j]
      /\ \A i, j \in 1 .. Len(q2) : e[i] = e[j] => i = j
  BY <1>1, <1>2
<1>6. ASSUME NEW n \in 1 .. Len(q)
      PROVE  q[n] \in {q[k]} \/ \E j \in 1 .. Len(q2) : e[j] = n
  <2>1. CASE n = k
    BY <2>1
  <2>2. CASE n < k
    BY <2>2, <1>1, <1>2
  <2>3. CASE n > k
    <3>1. n - 1 \in 1 .. Len(q2) /\ e[n - 1] = n
      BY <2>3, <1>1, <1>2
    <3> QED BY <3>1
  <2>4. n = k \/ n < k \/ n > k
    BY <1>1
  <2> QED BY <2>1, <2>2, <2>3, <2>4
<1> HIDE DEF e
<1>7. Embeds(q2, q, {q[k]}, e)
  BY <1>2, <1>3, <1>4, <1>5, <1>6 DEF Embeds
<1>8. BankOk(Without(chs, {q[k]}), q2, o)
  BY <1>7, SubBank
<1> QED BY <1>8 DEF q2

\* The map with channel d under id.
Put(chs, id, d) == [x \in DOMAIN chs \cup {id} |-> IF x = id THEN d ELSE chs[x]]

\* A channel of the bank may change as long as its open block does not.
LEMMA ReplaceOk ==
    ASSUME NEW chs, NEW q, NEW o, BankOk(chs, q, o), NEW id \in DOMAIN chs,
           NEW d, WellFormed(d, id, o), d.open_block = chs[id].open_block
    PROVE  BankOk(Put(chs, id, d), q, o)
<1> DEFINE p == Put(chs, id, d)
<1>1. DOMAIN p = DOMAIN chs /\ \A x \in DOMAIN p : p[x] = IF x = id THEN d ELSE chs[x]
  BY DEF Put
<1> HIDE DEF p
<1>2. \A x \in DOMAIN p : WellFormed(p[x], x, o) /\ p[x].open_block = chs[x].open_block
  BY <1>1 DEF BankOk
<1> QED BY <1>1, <1>2 DEF BankOk, p

\* A new channel goes to the end of the queue: no channel was opened after it.
LEMMA AppendOk ==
    ASSUME NEW chs, NEW q, NEW o \in Nat, BankOk(chs, q, o), NEW id \in ChannelIds \ DOMAIN chs,
           NEW d, WellFormed(d, id, o), d.open_block = o
    PROVE  BankOk(Put(chs, id, d), Append(q, id), o)
<1> DEFINE p == Put(chs, id, d)
           q2 == Append(q, id)
<1>1. /\ DOMAIN p = DOMAIN chs \cup {id} /\ p[id] = d
      /\ \A x \in DOMAIN chs : p[x] = chs[x]
  BY DEF Put
<1>2. /\ q \in Seq(ChannelIds) /\ Len(q) \in Nat
      /\ q2 \in Seq(ChannelIds) /\ Len(q2) = Len(q) + 1 /\ q2[Len(q) + 1] = id
      /\ \A i \in 1 .. Len(q) : q2[i] = q[i]
  BY DEF BankOk
<1> HIDE DEF p, q2
<1>3. \A i \in 1 .. Len(q2) : i \in 1 .. Len(q) \/ i = Len(q) + 1
  BY <1>2
<1>4. \A i \in 1 .. Len(q) : q[i] \in DOMAIN chs /\ q[i] # id
  BY DEF BankOk
<1>5. \A i \in 1 .. Len(q2) : q2[i] \in DOMAIN p
  BY <1>1, <1>2, <1>3, <1>4
<1>6. ASSUME NEW x \in DOMAIN p
      PROVE  WellFormed(p[x], x, o) /\ \E i \in 1 .. Len(q2) : q2[i] = x
  <2>1. CASE x = id
    <3>1. Len(q) + 1 \in 1 .. Len(q2)
      BY <1>2
    <3> QED BY <2>1, <3>1, <1>1, <1>2
  <2>2. CASE x \in DOMAIN chs
    <3>1. WellFormed(chs[x], x, o)
      BY <2>2 DEF BankOk
    <3>2. PICK i \in 1 .. Len(q) : q[i] = x
      BY <2>2 DEF BankOk
    <3>3. i \in 1 .. Len(q2) /\ q2[i] = x
      BY <3>2, <1>2
    <3> QED BY <2>2, <3>1, <3>3, <1>1
  <2> QED BY <2>1, <2>2, <1>1
<1>7. ASSUME NEW i \in 1 .. Len(q2), NEW j \in 1 .. Len(q2), q2[i] = q2[j]
      PROVE  i = j
  <2>1. CASE i \in 1 .. Len(q) /\ j \in 1 .. Len(q)
    BY <2>1, <1>2, <1>7 DEF BankOk
  <2> QED BY <2>1, <1>2, <1>3, <1>4, <1>7
<1>8. ASSUME NEW i \in 1 .. Len(q2), NEW j \in 1 .. Len(q2), i <= j
      PROVE  p[q2[i]].open_block <= p[q2[j]].open_block
  <2>1. CASE j \in 1 .. Len(q)
    <3>1. i \in 1 .. Len(q)
      BY <2>1, <1>2, <1>8
    <3>2. chs[q[i]].open_block <= chs[q[j]].open_block
      BY <2>1, <3>1, <1>8 DEF BankOk
    <3> QED BY <2>1, <3>1, <3>2, <1>1, <1>2, <1>4
  <2>2. CASE j = Len(q) + 1
    <3>1. p[q2[j]].open_block = o
      BY <2>2, <1>1, <1>2
    <3>2. p[q2[i]].open_block <= o
      BY <1>5, <1>6 DEF WellFormed
    <3> QED BY <3>1, <3>2
  <2> QED BY <2>1, <2>2, <1>3
<1>9. DOMAIN p \subseteq ChannelIds
  BY <1>1 DEF BankOk
<1> QED BY <1>2, <1>5, <1>6, <1>7, <1>8, <1>9 DEF BankOk, p, q2

\* prune keeps the bank in order, and never runs out of channels: an empty bank fits.
LEMMA PruneOk ==
    ASSUME NEW chs, NEW q, BankOk(chs, q, origin), Prune(chs, q)
    PROVE  BankOk(channels', channel_queue', origin) /\ res' = "Err"
<1>1. PICK k \in 0 .. Len(q) :
        /\ PruneStops(chs, q, k)
        /\ channels' = AfterPops(chs, q, k)
        /\ channel_queue' = SubSeq(q, IF BankSize(AfterPops(chs, q, k)) <= MaxChannelBankSize
                                      THEN k + 1 ELSE k + 2, Len(q))
        /\ res' = IF BankSize(AfterPops(chs, q, k)) <= MaxChannelBankSize THEN "Err" ELSE "Critical"
  BY DEF Prune
<1>2. BankOk(AfterPops(chs, q, k), SubSeq(q, k + 1, Len(q)), origin)
  BY PopsOk
<1>3. Len(q) \in Nat /\ q \in Seq(ChannelIds)
  BY DEF BankOk
<1>4. BankSize(AfterPops(chs, q, k)) <= MaxChannelBankSize
  <2>1. CASE k = Len(q)
    <3>1. DOMAIN AfterPops(chs, q, k) = {}
      BY <2>1 DEF BankOk, AfterPops, Without
    <3> QED BY <3>1, EmptyBank, MaxBankAssumption
  <2>2. ASSUME k < Len(q) PROVE q[k + 1] \in DOMAIN AfterPops(chs, q, k)
    <3>1. /\ 1 \in 1 .. Len(SubSeq(q, k + 1, Len(q)))
          /\ SubSeq(q, k + 1, Len(q))[1] = q[k + 1]
      BY <2>2, <1>3, SuffixSeq
    <3> QED BY <3>1, <1>2 DEF BankOk
  <2> QED BY <1>1, <2>1, <2>2 DEF PruneStops
<1> QED BY <1>1, <1>2, <1>4
-----------------------------------------------------------------------------
\* The inductive invariant. Beyond the properties it implies it says of every channel that
\* it is well formed, which is what makes an emitted one whole, and that no open block is
\* past the origin, which is what keeps the queue in order when a channel is appended.
IInv ==
    /\ origin \in 0 .. MaxOrigin
    /\ BankOk(channels, channel_queue, origin)
    /\ res \in {"None", "Data", "Err"}
    /\ emitted # NoChannel => WellFormed(emitted, emitted.id, origin) /\ IsReady(emitted)

\* The bank starts empty.
LEMMA InitIInv == Init => IInv
<1> SUFFICES ASSUME Init PROVE IInv
  OBVIOUS
<1>1. BankOk(channels, channel_queue, origin)
  BY DEF Init, BankOk
<1> QED BY <1>1, MaxOriginAssumption DEF Init, IInv

\* A well formed channel stays so when the origin advances.
LEMMA AdvanceOk ==
    ASSUME NEW chs, NEW q, NEW o \in Nat, BankOk(chs, q, o)
    PROVE  BankOk(chs, q, o + 1)
<1>1. \A c, id : WellFormed(c, id, o) => WellFormed(c, id, o + 1)
  BY DEF WellFormed, ChannelOk
<1> QED BY <1>1 DEF BankOk

\* read() finds the first channel timed out.
LEMMA DropTimedOutIInv == IInv /\ DropTimedOut => IInv'
<1> SUFFICES ASSUME IInv, DropTimedOut PROVE IInv'
  OBVIOUS
<1>1. channel_queue \in Seq(ChannelIds) /\ channel_queue # <<>>
  BY DEF IInv, BankOk, DropTimedOut, Read
<1>2. /\ 1 \in 0 .. Len(channel_queue)
      /\ Tail(channel_queue) = SubSeq(channel_queue, 1 + 1, Len(channel_queue))
      /\ {Head(channel_queue)} = {channel_queue[j] : j \in 1 .. 1}
  BY <1>1
<1>3. BankOk(AfterPops(channels, channel_queue, 1), SubSeq(channel_queue, 1 + 1, Len(channel_queue)), origin)
  BY <1>2, PopsOk, Zenon DEF IInv
<1>4. channels' = AfterPops(channels, channel_queue, 1)
  BY <1>2, Zenon DEF DropTimedOut, AfterPops
<1>5. BankOk(channels', channel_queue', origin)
  BY <1>2, <1>3, <1>4, Zenon DEF DropTimedOut
<1> QED BY <1>5 DEF IInv, DropTimedOut

\* read() returns a ready channel.
LEMMA EmitChannelIInv == IInv /\ EmitChannel => IInv'
<1> SUFFICES ASSUME IInv, EmitChannel PROVE IInv'
  OBVIOUS
<1>1. PICK i \in DOMAIN channel_queue :
        /\ Readable(i)
        /\ emitted' = channels[channel_queue[i]]
        /\ channels' = Without(channels, {channel_queue[i]})
        /\ channel_queue' = RemoveAt(channel_queue, i)
  BY DEF EmitChannel
<1>2. i \in 1 .. Len(channel_queue)
  BY DEF IInv, BankOk
<1>3. BankOk(channels', channel_queue', origin)
  BY <1>1, <1>2, RemoveOk DEF IInv
<1>4. WellFormed(emitted', channel_queue[i], origin) /\ IsReady(emitted')
  BY <1>1, <1>2 DEF IInv, BankOk, Readable
<1>5. emitted'.id = channel_queue[i]
  BY <1>4 DEF WellFormed
<1> QED BY <1>3, <1>4, <1>5 DEF IInv, EmitChannel, IsReady

\* A frame is ingested.
LEMMA IngestFrameIInv ==
    ASSUME IInv, NEW f \in Frame, IngestFrame(f)
    PROVE  IInv'
<1> DEFINE fresh == f.id \notin DOMAIN channels
           q     == IF fresh THEN Append(channel_queue, f.id) ELSE channel_queue
           c     == IF fresh THEN NewChannel(f.id, origin) ELSE channels[f.id]
<1>1. origin \in Nat /\ f.id \in ChannelIds /\ BankOk(channels, channel_queue, origin)
  BY MaxOriginAssumption DEF IInv, Frame
<1>2. /\ emitted' = NoChannel /\ origin' = origin
      /\ IF TimedOut(c) \/ RejectsFrame(c, f)
         THEN channels' = Put(channels, f.id, c) /\ channel_queue' = q /\ res' = "Err"
         ELSE Prune(Put(channels, f.id, AddFrame(c, f, origin)), q)
  BY DEF IngestFrame, Put
<1>3. WellFormed(c, f.id, origin) /\ (fresh => c.open_block = origin)
  <2>1. CASE fresh
    BY <2>1, <1>1, NewChannelOk DEF NewChannel
  <2>2. CASE ~fresh
    BY <2>2, <1>1 DEF BankOk
  <2> QED BY <2>1, <2>2
<1>4. ASSUME NEW d, WellFormed(d, f.id, origin), d.open_block = c.open_block
      PROVE  BankOk(Put(channels, f.id, d), q, origin)
  <2>1. CASE fresh
    BY <2>1, <1>1, <1>3, <1>4, AppendOk
  <2>2. CASE ~fresh
    BY <2>2, <1>1, <1>4, ReplaceOk
  <2> QED BY <2>1, <2>2
<1> HIDE DEF fresh, q, c
<1>5. BankOk(channels', channel_queue', origin) /\ res' = "Err"
  <2>1. CASE TimedOut(c) \/ RejectsFrame(c, f)
    BY <2>1, <1>2, <1>3, <1>4
  <2>2. CASE ~(TimedOut(c) \/ RejectsFrame(c, f))
    <3>1. /\ WellFormed(AddFrame(c, f, origin), f.id, origin)
          /\ AddFrame(c, f, origin).open_block = c.open_block
      BY <2>2, <1>1, <1>3, AddFrameOk DEF TimedOut
    <3>2. BankOk(Put(channels, f.id, AddFrame(c, f, origin)), q, origin)
      BY <3>1, <1>4
    <3> QED BY <2>2, <3>2, <1>2, PruneOk
  <2> QED BY <2>1, <2>2
<1> QED BY <1>2, <1>5 DEF IInv

\* A call that returns an error: the queue and the map agree, so it is not the bank's own.
LEMMA ReturnErrorIInv == IInv /\ ReturnError => IInv'
<1> SUFFICES ASSUME IInv, ReturnError PROVE IInv'
  OBVIOUS
<1>1. Read # "Critical"
  <2>1. CASE channel_queue = <<>>
    BY <2>1 DEF Read
  <2>2. CASE channel_queue # <<>>
    <3>1. Head(channel_queue) \in DOMAIN channels
      BY <2>2 DEF IInv, BankOk
    <3> QED BY <2>2, <3>1 DEF Read
  <2> QED BY <2>1, <2>2
<1> QED BY <1>1 DEF IInv, ReturnError

\* Every step preserves the invariant.
LEMMA NextIInv == IInv /\ [Next]_vars => IInv'
<1> SUFFICES ASSUME IInv, [Next]_vars PROVE IInv'
  OBVIOUS
<1>1. CASE DropTimedOut
  BY <1>1, DropTimedOutIInv
<1>2. CASE EmitChannel
  BY <1>2, EmitChannelIInv
<1>3. CASE ReturnError
  BY <1>3, ReturnErrorIInv
<1>4. ASSUME NEW f \in Frame, IngestFrame(f) PROVE IInv'
  BY <1>4, IngestFrameIInv
<1>5. CASE AdvanceOrigin
  <2>1. origin \in Nat /\ origin' = origin + 1 /\ origin' \in 0 .. MaxOrigin
    BY <1>5, MaxOriginAssumption DEF IInv, AdvanceOrigin
  <2>2. BankOk(channels, channel_queue, origin + 1)
    BY <2>1, AdvanceOk DEF IInv
  <2>3. WellFormed(emitted, emitted.id, origin) => WellFormed(emitted, emitted.id, origin + 1)
    BY <2>1 DEF WellFormed, ChannelOk
  <2> QED BY <1>5, <2>1, <2>2, <2>3 DEF IInv, AdvanceOrigin, IsReady
<1>6. CASE Signal
  <2>1. BankOk(channels', channel_queue', origin')
    BY <1>6 DEF Signal, BankOk
  <2> QED BY <1>6, <2>1 DEF IInv, Signal
<1>7. CASE UNCHANGED vars
  BY <1>7 DEF IInv, vars, IsReady
<1> QED
  BY <1>1, <1>2, <1>3, <1>4, <1>5, <1>6, <1>7 DEF Next, NextData

\* The invariant holds in every state.
THEOREM SpecIInv == Spec => []IInv
  BY InitIInv, NextIInv, PTL DEF Spec

\* The types of the stage's fields hold in every state.
THEOREM TypeCorrect == Spec => []TypeOK
<1>1. IInv => TypeOK
  <2> SUFFICES ASSUME IInv PROVE TypeOK
    OBVIOUS
  <2>1. \A id \in DOMAIN channels : ChannelOk(channels[id])
    BY DEF IInv, BankOk, WellFormed
  <2>2. emitted = NoChannel \/ ChannelOk(emitted)
    BY DEF IInv, WellFormed
  <2> QED BY <2>1, <2>2 DEF TypeOK, IInv, BankOk
<1> QED BY <1>1, SpecIInv, PTL

\* channel_queue and the map of channels hold the same ids, each once, in every state, so
\* neither ChannelProviderEmpty nor ChannelNotFound is ever returned by next_data.
THEOREM QueueAndMapAgree == Spec => []QueueMatchesMap
<1>1. IInv => QueueMatchesMap
  <2> SUFFICES ASSUME IInv PROVE QueueMatchesMap
    OBVIOUS
  <2>1. DOMAIN channel_queue = 1 .. Len(channel_queue)
    BY DEF IInv, BankOk
  <2>2. \A i \in DOMAIN channel_queue : channel_queue[i] \in DOMAIN channels
    BY <2>1 DEF IInv, BankOk
  <2>3. \A id \in DOMAIN channels : \E i \in DOMAIN channel_queue : channel_queue[i] = id
    BY <2>1 DEF IInv, BankOk
  <2>4. Range(channel_queue) = DOMAIN channels
    BY <2>2, <2>3, Zenon DEF Range
  <2>5. \A i, j \in DOMAIN channel_queue : channel_queue[i] = channel_queue[j] => i = j
    BY <2>1 DEF IInv, BankOk
  <2> QED BY <2>4, <2>5 DEF QueueMatchesMap, IInv
<1> QED BY <1>1, SpecIInv, PTL

\* Every buffered channel holds frames of its own, numbered up to its closing frame, that
\* were included before it timed out, in whatever order add_frame got them.
THEOREM BufferedChannelsWellFormed == Spec => []ChannelsWellFormed
<1>1. IInv => ChannelsWellFormed
  BY DEF IInv, BankOk, WellFormed, ChannelsWellFormed
<1> QED BY <1>1, SpecIInv, PTL

\* The first channel of the queue is the oldest, so read() sees every timeout by looking
\* at it alone, and ingest_frame never meets a channel that has timed out.
THEOREM OldestFirst == Spec => []TimedOutOnlyInFront
<1>1. IInv => TimedOutOnlyInFront
  <2> SUFFICES ASSUME IInv PROVE TimedOutOnlyInFront
    OBVIOUS
  <2>1. channel_queue \in Seq(ChannelIds) /\ DOMAIN channel_queue = 1 .. Len(channel_queue)
    BY DEF IInv, BankOk
  <2>2. \A i, j \in DOMAIN channel_queue :
          i <= j => channels[channel_queue[i]].open_block <= channels[channel_queue[j]].open_block
    BY <2>1 DEF IInv, BankOk
  <2>3. ASSUME Read = "Eof", NEW id \in DOMAIN channels PROVE ~TimedOut(channels[id])
    <3>1. PICK j \in 1 .. Len(channel_queue) : channel_queue[j] = id
      BY <2>1 DEF IInv, BankOk
    <3>2. channel_queue # <<>> /\ 1 \in 1 .. Len(channel_queue) /\ 1 <= j
      BY <2>1, <3>1
    <3>3. Head(channel_queue) = channel_queue[1] /\ channel_queue[1] \in DOMAIN channels
      BY <2>1, <3>2 DEF IInv, BankOk
    <3>4. ~TimedOut(channels[channel_queue[1]])
      BY <2>3, <3>2, <3>3 DEF Read
    <3>5. channels[channel_queue[1]].open_block <= channels[id].open_block
      BY <2>1, <2>2, <3>1, <3>2
    <3>6. channels[channel_queue[1]].open_block \in Nat /\ channels[id].open_block \in Nat
      BY <3>3 DEF IInv, BankOk, WellFormed, ChannelOk
    <3>7. origin \in Nat
      BY MaxOriginAssumption DEF IInv
    <3> QED BY <3>4, <3>5, <3>6, <3>7, ChannelTimeoutAssumption DEF TimedOut
  <2> QED BY <2>2, <2>3 DEF TimedOutOnlyInFront
<1> QED BY <1>1, SpecIInv, PTL

\* What the ChannelReader gets is one whole channel, whose frames were all included before
\* the channel timed out.
THEOREM EmitsOnlyWholeChannels == Spec => []EmitsWholeChannel
<1>1. IInv => EmitsWholeChannel
  <2> SUFFICES ASSUME IInv, emitted # NoChannel
               PROVE  EmitsWholeChannel
    BY DEF EmitsWholeChannel
  <2> DEFINE d    == FrameData(emitted)
             last == emitted.last_frame_number
  <2>1. WellFormed(emitted, emitted.id, origin) /\ IsReady(emitted)
    BY DEF IInv
  <2>2. last \in Nat /\ 0 .. last \subseteq DOMAIN emitted.inputs /\ emitted.closed
    BY <2>1, U16MaxAssumption DEF WellFormed, ChannelOk, IsReady, FrameNumbers
  <2>3. DOMAIN d = 1 .. last + 1 /\ Len(d) = last + 1
    BY <2>2 DEF FrameData
  <2>4. ASSUME NEW i \in 1 .. last + 1
        PROVE  /\ d[i] = emitted.inputs[i - 1]
               /\ i - 1 \in 0 .. last
               /\ (i - 1 = last) <=> (i = last + 1)
    BY <2>2 DEF FrameData
  <2>5. ASSUME NEW i \in DOMAIN d
        PROVE  /\ d[i].id = emitted.id
               /\ d[i].number = i - 1
               /\ d[i].is_last <=> i = Len(d)
    BY <2>1, <2>2, <2>3, <2>4 DEF WellFormed
  <2>6. DOMAIN emitted.inputs # {}
    BY <2>2
  <2>7. /\ emitted.open_block <= emitted.highest_l1_inclusion_block
        /\ emitted.highest_l1_inclusion_block <= emitted.open_block + ChannelTimeout
    BY <2>1, <2>6 DEF WellFormed
  <2> QED BY <2>5, <2>7 DEF EmitsWholeChannel
<1> QED BY <1>1, SpecIInv, PTL
=============================================================================
