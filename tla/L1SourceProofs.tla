---------------------------- MODULE L1SourceProofs ----------------------------
(***************************************************************************)
(* What L1Source promises for every L1 chain, set of batchers and number   *)
(* of failures and resets.                                                 *)
(*                                                                         *)
(* The batcher address L1Traversal holds is either still the one its       *)
(* provider has read back from the safe head it was reset with, and no     *)
(* block it has walked since has changed it, or it is that of the last of  *)
(* these blocks that did (ConfigOk). What the provider over RPC reads back *)
(* is what was written (OnlineReadsBack). The second invariant, SourceOk,  *)
(* says that L1Retrieval without a block has nothing left to read.         *)
(*                                                                         *)
(* A third one, ReadInv, follows the frames of the block that is read: the *)
(* frames that were returned, those in the queue and those of the blobs    *)
(* and transactions still to come are the frames of the block, in order.   *)
(***************************************************************************)
EXTENDS L1Source, WellFoundedInduction, TLAPS

Updates(u) == l1[u].update # NoUpdate

\* The last block in lo .. hi that updates the batcher address is u.
LastUpdate(u, lo, hi) ==
    u \in lo .. hi /\ Updates(u) /\ \A v \in u + 1 .. hi : ~Updates(v)

ConfigOk ==
    /\ provider \in Providers /\ l1 \in [Blocks -> L1Blocks]
    /\ block \in Blocks /\ start.origin \in Blocks /\ start.epoch \in Blocks /\ start.origin <= block
    /\ \/ /\ \A u \in start.origin + 1 .. block : ~Updates(u)
          /\ system_config = system_config_by_number(start.epoch)
       \/ \E u \in Blocks : LastUpdate(u, start.origin + 1, block) /\ system_config = l1[u].update

\* Without a block to read the source is closed; an Eof is only returned in that state.
SourceOk ==
    /\ next = NoBlock => ~open /\ calldata = <<>>
    /\ res = "Eof" => queue = <<>> /\ next = NoBlock

IInv == ConfigOk /\ SourceOk

-----------------------------------------------------------------------------
\* InForce is the update of the last block that has one.
LEMMA InForceIsLast ==
    ASSUME NEW b \in Nat, NEW u \in 0 .. b, LastUpdate(u, 0, b)
    PROVE  InForce(b) = l1[u].update
<1> DEFINE S == {v \in 0 .. b : Updates(v)}
<1>1. u \in S /\ S \subseteq Int /\ \A v \in S : v <= u
  BY DEF LastUpdate
<1>2. (CHOOSE x \in S : \A v \in S : v <= x) = u
  BY <1>1
<1>3. InForce(b) = IF S = {} THEN CHOOSE a \in Batchers : TRUE
                   ELSE l1[CHOOSE x \in S : \A v \in S : v <= x].update
  BY DEF InForce, Updates
<1> QED BY <1>1, <1>2, <1>3

\* InForce does not change over blocks without an update.
LEMMA InForceStays ==
    ASSUME NEW e \in Nat, NEW b \in Nat, e <= b, \A u \in e + 1 .. b : ~Updates(u)
    PROVE  InForce(b) = InForce(e)
<1> DEFINE T(n) == {u \in 0 .. n : l1[u].update # NoUpdate}
           R(S) == IF S = {} THEN CHOOSE a \in Batchers : TRUE
                   ELSE l1[CHOOSE u \in S : \A v \in S : v <= u].update
<1>1. T(b) = T(e)
  BY DEF Updates
<1>2. InForce(b) = R(T(b)) /\ InForce(e) = R(T(e))
  BY DEF InForce
<1> HIDE DEF T, R
<1> QED BY <1>1, <1>2

-----------------------------------------------------------------------------
\* A set of numbers that is not empty has a least element.
LEMMA LeastNumber ==
    ASSUME NEW S, S \subseteq Nat, S # {}
    PROVE  \E x \in S : \A y \in S : x <= y
<1> DEFINE R == {p \in Nat \X Nat : p[1] < p[2]}
<1>1. IsWellFoundedOn(R, Nat)
  BY NatLessThanWellFounded DEF OpToRel
<1>2. PICK x \in S : \A y \in S : ~(<<y, x>> \in R)
  BY <1>1, WFMin
<1>3. ASSUME NEW y \in S, y < x
      PROVE  FALSE
  <2>1. <<y, x>> \in Nat \X Nat /\ <<y, x>>[1] = y /\ <<y, x>>[2] = x
    OBVIOUS
  <2>2. <<y, x>> \in R
    BY <1>3, <2>1
  <2> QED BY <1>2, <2>2
<1> QED BY <1>3

\* The address in force after a block is that of a batcher.
LEMMA InForceType ==
    ASSUME l1 \in [Blocks -> L1Blocks], NEW b \in Blocks
    PROVE  InForce(b) \in Batchers
<1> DEFINE S == {u \in 0 .. b : l1[u].update # NoUpdate}
<1>1. CASE S = {}
  <2>1. (CHOOSE a \in Batchers : TRUE) \in Batchers
    BY BatchersAssumption, Zenon
  <2> QED BY <1>1, <2>1 DEF InForce
<1>2. CASE S # {}
  <2>1. b \in Nat
    BY L1HeadAssumption DEF Blocks
  <2>2. \E u \in S : \A v \in S : v <= u
    <3> DEFINE D == {n \in 0 .. b : b - n \in S}
    <3>1. D \subseteq Nat /\ D # {}
      <4>1. PICK u \in S : TRUE
        BY <1>2
      <4>2. b - u \in 0 .. b /\ b - (b - u) = u
        BY <2>1
      <4> QED BY <4>1, <4>2
    <3>2. PICK n \in D : \A k \in D : n <= k
      BY <3>1, LeastNumber
    <3>3. \A v \in S : b - v \in D
      BY <2>1
    <3>4. \A v \in S : v <= b - n
      <4> SUFFICES ASSUME NEW v \in S PROVE v <= b - n
        OBVIOUS
      <4>1. n <= b - v
        BY <3>2, <3>3, Zenon
      <4>2. v \in Nat /\ n \in Nat
        OBVIOUS
      <4> QED BY <2>1, <4>1, <4>2
    <3> QED BY <3>2, <3>4
  <2>3. PICK u \in S : u = (CHOOSE x \in S : \A v \in S : v <= x)
    BY <2>2
  <2>4. u \in Blocks /\ l1[u].update # NoUpdate
    BY L1HeadAssumption DEF Blocks
  <2>5. l1[u] \in L1Blocks /\ InForce(b) = l1[u].update
    BY <1>2, <2>3, <2>4 DEF InForce
  <2> QED BY <2>4, <2>5, L1BlocksAssumption
<1> QED BY <1>1, <1>2

\* The provider over RPC reads the address back that was written.
LEMMA OnlineReadsBack ==
    ASSUME NEW a \in Batchers
    PROVE  ReadBack("online", a) = a
<1> DEFINE n == AddressLength
           m == WordLength - AddressLength
           z == [i \in 1 .. m |-> 0]
           w == z \o a
           r == [i \in 1 .. Len(w) |-> w[(Len(w) - i) + 1]]
           s == SubSeq(r, 1, n)
<1>1. a \in Seq(Nat) /\ Len(a) = n /\ n \in Nat /\ m \in Nat /\ WordLength = n + m
  BY BatchersAssumption, BytesAssumption
<1>2. z \in Seq(Nat) /\ Len(z) = m
  BY <1>1
<1>3. w \in Seq(Nat) /\ Len(w) = n + m /\ \A i \in 1 .. n : w[m + i] = a[i]
  BY <1>1, <1>2
<1> HIDE DEF n, m, z, w
<1>4. r \in Seq(Nat) /\ Len(r) = n + m /\ \A i \in 1 .. n : r[i] = w[(n + m - i) + 1]
  BY <1>1, <1>3
<1>5. \A i \in 1 .. n : r[i] = a[(n - i) + 1]
  <2> SUFFICES ASSUME NEW i \in 1 .. n PROVE r[i] = a[(n - i) + 1]
    OBVIOUS
  <2>1. (n - i) + 1 \in 1 .. n /\ (n + m - i) + 1 = m + ((n - i) + 1)
    BY <1>1
  <2> QED BY <1>3, <1>4, <2>1
<1> HIDE DEF r
<1>6. s \in Seq(Nat) /\ Len(s) = n /\ \A i \in 1 .. n : s[i] = r[i]
  BY <1>1, <1>4
<1> HIDE DEF s
<1>7. [i \in 1 .. Len(s) |-> s[(Len(s) - i) + 1]] = a
  <2> DEFINE t == [i \in 1 .. Len(s) |-> s[(Len(s) - i) + 1]]
  <2>1. \A i \in 1 .. n : t[i] = a[i]
    <3> SUFFICES ASSUME NEW i \in 1 .. n PROVE t[i] = a[i]
      OBVIOUS
    <3>1. (n - i) + 1 \in 1 .. n /\ (n - ((n - i) + 1)) + 1 = i
      BY <1>1
    <3>2. t[i] = s[(n - i) + 1]
      BY <1>6
    <3>3. s[(n - i) + 1] = a[(n - ((n - i) + 1)) + 1]
      BY <1>5, <1>6, <3>1
    <3> QED BY <3>1, <3>2, <3>3
  <2>2. t \in Seq(Nat) /\ Len(t) = n
    <3>1. \A i \in 1 .. n : s[(n - i) + 1] \in Nat
      BY <1>1, <1>6
    <3> QED BY <1>1, <1>6, <3>1
  <2> HIDE DEF t
  <2>3. t = a
    BY <1>1, <2>1, <2>2
  <2> QED BY <2>3 DEF t
<1>8. ReadBack("online", a) = [i \in 1 .. Len(s) |-> s[(Len(s) - i) + 1]]
  BY DEF ReadBack, from_slice, batcher_hash, to_le_bytes, address_to_hash, Reverse, s, r, w, z, m, n
<1> QED BY <1>7, <1>8

\* The origin has caught up with the epoch of the safe head.
LEMMA CaughtUp == IInv => BatcherCaughtUp
<1> SUFFICES ASSUME IInv, start.origin <= start.epoch, start.epoch <= block
             PROVE  \/ system_config = InForce(block)
                    \/ /\ provider = "oracle" /\ \A u \in start.origin + 1 .. block : l1[u].update = NoUpdate
                       /\ system_config = ReadBack("oracle", InForce(block))
  BY DEF BatcherCaughtUp
<1>1. block \in Nat /\ start.origin \in Nat /\ start.epoch \in Nat
  BY L1HeadAssumption DEF IInv, ConfigOk, Blocks
<1>2. CASE /\ \A u \in start.origin + 1 .. block : ~Updates(u)
           /\ system_config = system_config_by_number(start.epoch)
  <2>1. \A u \in start.epoch + 1 .. block : ~Updates(u)
    BY <1>1, <1>2
  <2>2. InForce(block) = InForce(start.epoch)
    BY <1>1, <2>1, InForceStays
  <2>3. system_config = ReadBack(provider, InForce(block))
    BY <1>2, <2>2, Zenon DEF system_config_by_number
  <2>4. CASE provider = "online"
    <3>1. InForce(block) \in Batchers
      BY InForceType, Zenon DEF IInv, ConfigOk
    <3> QED BY <2>3, <2>4, <3>1, OnlineReadsBack, Zenon
  <2>5. CASE provider = "oracle"
    BY <1>2, <2>3, <2>5, Zenon DEF Updates
  <2> QED BY <2>4, <2>5 DEF IInv, ConfigOk, Providers
<1>3. ASSUME NEW u \in Blocks, LastUpdate(u, start.origin + 1, block), system_config = l1[u].update
      PROVE  system_config = InForce(block)
  <2>1. u \in 0 .. block /\ LastUpdate(u, 0, block)
    BY <1>1, <1>3 DEF LastUpdate
  <2> QED BY <1>1, <1>3, <2>1, InForceIsLast
<1> QED BY <1>2, <1>3 DEF IInv, ConfigOk

\* A step that moves neither the origin nor the batcher address.
LEMMA ConfigStays ==
    ASSUME ConfigOk, UNCHANGED <<env, block, system_config, start>>
    PROVE  ConfigOk'
  BY DEF ConfigOk, LastUpdate, Updates, system_config_by_number, InForce, env

\* advance_origin applies the update of the next block.
LEMMA ConfigAdvances ==
    ASSUME ConfigOk, UNCHANGED <<env, start>>, block # L1Head, block' = block + 1,
           system_config' = UpdateWithReceipts(system_config, block + 1)
    PROVE  ConfigOk'
<1>1. block' \in Blocks /\ block \in Nat /\ start.origin \in Nat /\ start.origin <= block
  BY L1HeadAssumption DEF ConfigOk, Blocks
<1>2. start'.origin \in Blocks /\ start'.epoch \in Blocks /\ start'.origin <= block'
  BY <1>1 DEF ConfigOk
<1>3. CASE Updates(block + 1)
  <2>1. system_config' = l1[block + 1].update
    BY <1>3 DEF UpdateWithReceipts, Updates
  <2>2. LastUpdate(block + 1, start.origin + 1, block + 1)
    BY <1>1, <1>3 DEF LastUpdate
  <2>3. \E u \in Blocks : LastUpdate(u, start.origin + 1, block)' /\ system_config' = l1'[u].update
    BY <1>1, <2>1, <2>2 DEF LastUpdate, Updates, env
  <2> QED BY <1>1, <1>2, <2>3 DEF ConfigOk, env
<1>4. CASE ~Updates(block + 1)
  <2>1. system_config' = system_config
    BY <1>4 DEF UpdateWithReceipts, Updates
  <2>2. CASE /\ \A u \in start.origin + 1 .. block : ~Updates(u)
             /\ system_config = system_config_by_number(start.epoch)
    <3>1. (\A u \in start.origin + 1 .. block + 1 : ~Updates(u))
      BY <1>1, <1>4, <2>2
    <3> QED BY <1>1, <1>2, <2>1, <2>2, <3>1 DEF ConfigOk, Updates, system_config_by_number, InForce, env
  <2>3. ASSUME NEW u \in Blocks, LastUpdate(u, start.origin + 1, block), system_config = l1[u].update
        PROVE  ConfigOk'
    <3>1. LastUpdate(u, start.origin + 1, block + 1)
      BY <1>1, <1>4, <2>3 DEF LastUpdate
    <3> QED BY <1>1, <1>2, <2>1, <2>3, <3>1 DEF ConfigOk, LastUpdate, Updates, env
  <2> QED BY <2>2, <2>3 DEF ConfigOk
<1> QED BY <1>3, <1>4

\* A reset starts over with the batcher address of an epoch.
LEMMA ConfigResets ==
    ASSUME ConfigOk, UNCHANGED <<env, block>>, NEW e \in Blocks, system_config' = system_config_by_number(e),
           start' = [origin |-> block, epoch |-> e]
    PROVE  ConfigOk'
<1>1. block \in Blocks /\ block \in Int
  BY L1HeadAssumption DEF ConfigOk, Blocks
<1>2. start'.origin = block' /\ start'.epoch = e /\ block' = block /\ block <= block
  BY <1>1
<1>3. system_config_by_number(e)' = system_config_by_number(e)
  BY DEF system_config_by_number, InForce, env
<1>4. \A u \in start'.origin + 1 .. block' : ~Updates(u)'
  BY <1>1, <1>2
<1> QED BY <1>1, <1>2, <1>3, <1>4 DEF ConfigOk, Updates, env
-----------------------------------------------------------------------------
\* The invariant holds when the pipeline is built.
LEMMA InitIInv == Init => IInv
<1> SUFFICES ASSUME Init PROVE IInv
  OBVIOUS
<1>1. block \in Blocks /\ block \in Int
  BY L1HeadAssumption DEF Init, Blocks
<1>2. PICK e \in block .. L1Head : system_config = system_config_by_number(e) /\ start = [origin |-> block, epoch |-> e]
  BY DEF Init
<1>3. /\ start.origin = block /\ start.epoch = e /\ e \in Blocks /\ block <= block
      /\ \A u \in block + 1 .. block : ~Updates(u)
  BY <1>1, <1>2, L1HeadAssumption DEF Blocks
<1>4. ConfigOk
  BY <1>1, <1>2, <1>3 DEF ConfigOk, env, Init
<1>5. SourceOk
  BY DEF Init, SourceOk
<1> QED BY <1>4, <1>5 DEF IInv

\* Every call of next_frame, advance of the origin and reset keeps the invariant.
LEMMA NextIInv == IInv /\ [Next]_vars => IInv'
<1> SUFFICES ASSUME IInv, [Next]_vars PROVE IInv'
  OBVIOUS
<1> USE DEF retrieval, history, env
<1>1. ConfigOk /\ SourceOk
  BY DEF IInv
<1>2. block # NoBlock
  BY <1>1, L1HeadAssumption DEF ConfigOk, Blocks, NoBlock
<1>3. CASE PopFrame
  BY <1>1, <1>3, ConfigStays DEF PopFrame, SourceOk, IInv
<1>4. CASE NoMoreBlocks
  BY <1>1, <1>2, <1>4, ConfigStays DEF NoMoreBlocks, CurrentBlock, SourceOk, IInv
<1>5. CASE LoadFails
  BY <1>1, <1>5, ConfigStays DEF LoadFails, Pull, Fail, SourceOk, IInv
<1>6. CASE BlockExhausted
  BY <1>1, <1>6, ConfigStays DEF BlockExhausted, Pull, SourceOk, IInv
<1>7. CASE LookupFails
  BY <1>1, <1>7, ConfigStays DEF LookupFails, TakeCommitment, Pull, Fail, SourceOk, IInv
<1>8. CASE LoadFrames
  <2>1. UNCHANGED <<env, block, system_config, start>> /\ next' # NoBlock /\ res' # "Eof"
    BY <1>8 DEF LoadFrames, TakeCommitment, Pull
  <2> QED BY <1>1, <2>1, ConfigStays DEF SourceOk, IInv
<1>9. CASE AdvanceOrigin
  <2>1. SourceOk' /\ UNCHANGED <<env, start>>
    BY <1>1, <1>9 DEF AdvanceOrigin, SourceOk
  <2>2. ConfigOk'
    BY <1>1, <1>9, <2>1, ConfigStays, ConfigAdvances DEF AdvanceOrigin
  <2> QED BY <2>1, <2>2 DEF IInv
<1>10. CASE AdvanceFails
  BY <1>1, <1>10, ConfigStays DEF AdvanceFails, Fail, SourceOk, IInv
<1>11. CASE Reset
  <2>1. SourceOk' /\ UNCHANGED <<env, block>>
    BY <1>1, <1>2, <1>11 DEF Reset, SourceOk
  <2>2. ConfigOk'
    BY <1>1, <1>11, <2>1, ConfigResets DEF Reset
  <2> QED BY <2>1, <2>2 DEF IInv
<1>12. CASE UNCHANGED vars
  BY <1>1, <1>12, ConfigStays DEF vars, SourceOk, IInv
<1> QED
  BY <1>3, <1>4, <1>5, <1>6, <1>7, <1>8, <1>9, <1>10, <1>11, <1>12 DEF Next, NextFrame

\* IInv is an invariant of the front end.
THEOREM Invariance == Spec => []IInv
  BY InitIInv, NextIInv, PTL DEF Spec

\* L1Traversal: once the origin has caught up with the epoch of the L2 safe head it was reset
\* with, its batcher address is the one in force on L1, whatever updates lie in between and
\* however often the pipeline was reset; but with the provider of the client program, and no
\* update since the reset, it is what this provider makes of the one in force.
THEOREM BatcherFollowsL1 == Spec => []BatcherCaughtUp
  BY CaughtUp, Invariance, PTL

\* The pipeline advances on Eof only: then the frame queue, the source and L1Retrieval are empty.
OriginLeavesDrained ==
    [][block' # block => queue = <<>> /\ calldata = <<>> /\ ~open /\ next = NoBlock]_vars

\* L1Traversal::advance_origin leaves no frame and no commitment of a block behind in the
\* stages: nothing of the block is handed on under the next origin.
THEOREM NothingCarriedOver == Spec => OriginLeavesDrained
<1>1. IInv /\ [Next]_vars =>
        [block' # block => queue = <<>> /\ calldata = <<>> /\ ~open /\ next = NoBlock]_vars
  BY DEF IInv, SourceOk, Next, NextFrame, PopFrame, NoMoreBlocks, LoadFails, BlockExhausted, LookupFails, LoadFrames,
         AdvanceOrigin, AdvanceFails, Reset, vars
<1> QED BY <1>1, Invariance, PTL DEF Spec, OriginLeavesDrained

-----------------------------------------------------------------------------
\* What a block's transactions and frames are named by.
Tx == Nat \X Nat
Frame == Nat \X Nat \X Nat

\* The commitments of block b, whose transactions have the indices T, in L1 order.
InOrder(c, b, T) ==
    /\ c \in Seq(Tx) /\ \A p \in 1 .. Len(c) : c[p] \in {b} \X T
    /\ \A p, q \in 1 .. Len(c) : p < q => c[p][2] < c[q][2]

\* Reading a block: since the n-th frame the frames came in order, and each frame of F has
\* been returned (g), waits in the queue (q) or is in the data of a commitment (c).
Reading(b, T, n, g, q, c, F) ==
    /\ g \in Seq(Frame) /\ q \in Seq(Frame) /\ InOrder(c, b, T) /\ n \in 0 .. Len(g)
    /\ \A f \in F : \/ \E j \in n + 1 .. Len(g) : g[j] = f
                    \/ \E j \in 1 .. Len(q) : q[j] = f
                    \/ \E j \in 1 .. Len(c) : c[j] = <<f[1], f[2]>>
    /\ \A i, j \in n + 1 .. Len(g) : i < j => Earlier(g[i], g[j])
    /\ \A i, j \in 1 .. Len(q) : i < j => Earlier(q[i], q[j])
    /\ \A i \in n + 1 .. Len(g) : /\ \A j \in 1 .. Len(q) : Earlier(g[i], q[j])
                                  /\ \A j \in 1 .. Len(c) : g[i][2] < c[j][2]
    /\ \A i \in 1 .. Len(q), j \in 1 .. Len(c) : q[i][2] < c[j][2]

\* A frame is returned.
LEMMA ReadingPop ==
    ASSUME NEW b, NEW T, NEW n, NEW g, NEW q, NEW c, NEW F, Reading(b, T, n, g, q, c, F), q # <<>>
    PROVE  Reading(b, T, n, Append(g, Head(q)), Tail(q), c, F)
<1> DEFINE g2 == Append(g, Head(q))
           q2 == Tail(q)
<1>1. g \in Seq(Frame) /\ q \in Seq(Frame) /\ InOrder(c, b, T) /\ n \in 0 .. Len(g) /\ Len(g) \in Nat /\ Len(q) \in Nat
  BY DEF Reading
<1>2. /\ g2 \in Seq(Frame) /\ Len(g2) = Len(g) + 1 /\ g2[Len(g) + 1] = q[1]
      /\ \A i \in 1 .. Len(g) : g2[i] = g[i]
  BY <1>1
<1>3. q2 \in Seq(Frame) /\ Len(q2) = Len(q) - 1 /\ Len(q) >= 1 /\ \A i \in 1 .. Len(q2) : q2[i] = q[i + 1]
  BY <1>1
<1> HIDE DEF g2, q2
<1>4. ASSUME NEW f \in F
      PROVE  \/ \E j \in n + 1 .. Len(g2) : g2[j] = f
             \/ \E j \in 1 .. Len(q2) : q2[j] = f
             \/ \E j \in 1 .. Len(c) : c[j] = <<f[1], f[2]>>
  <2>1. CASE \E j \in n + 1 .. Len(g) : g[j] = f
    <3>1. PICK j \in n + 1 .. Len(g) : g[j] = f
      BY <2>1
    <3>2. j \in n + 1 .. Len(g2) /\ j \in 1 .. Len(g)
      BY <1>1, <1>2
    <3> QED BY <1>2, <3>1, <3>2
  <2>2. CASE \E j \in 1 .. Len(q) : q[j] = f
    <3>1. PICK j \in 1 .. Len(q) : q[j] = f
      BY <2>2
    <3>2. CASE j = 1
      <4>1. Len(g) + 1 \in n + 1 .. Len(g2)
        BY <1>1, <1>2
      <4> QED BY <1>2, <3>1, <3>2, <4>1
    <3>3. CASE j # 1
      <4>1. j - 1 \in 1 .. Len(q2) /\ (j - 1) + 1 = j
        BY <1>1, <1>3, <3>3
      <4> QED BY <1>3, <3>1, <4>1
    <3> QED BY <3>2, <3>3
  <2> QED BY <2>1, <2>2 DEF Reading
<1>5. \A i, j \in n + 1 .. Len(g2) : i < j => Earlier(g2[i], g2[j])
  <2> TAKE i, j \in n + 1 .. Len(g2)
  <2> HAVE i < j
  <2>1. i \in n + 1 .. Len(g) /\ g2[i] = g[i] /\ 1 \in 1 .. Len(q)
    BY <1>1, <1>2, <1>3
  <2>2. CASE j = Len(g) + 1
    BY <1>2, <2>1, <2>2 DEF Reading
  <2>3. CASE j # Len(g) + 1
    <3>1. j \in n + 1 .. Len(g) /\ g2[j] = g[j]
      BY <1>1, <1>2, <2>3
    <3> QED BY <2>1, <3>1 DEF Reading
  <2> QED BY <2>2, <2>3
<1>6. \A i \in 1 .. Len(q2) : i + 1 \in 1 .. Len(q) /\ 1 < i + 1 /\ 1 \in 1 .. Len(q)
  BY <1>1, <1>3
<1>7. \A i, j \in 1 .. Len(q2) : i < j => Earlier(q2[i], q2[j])
  <2> TAKE i, j \in 1 .. Len(q2)
  <2> HAVE i < j
  <2>1. i + 1 < j + 1
    BY <1>3
  <2> QED BY <1>3, <1>6, <2>1 DEF Reading
<1>8. ASSUME NEW i \in n + 1 .. Len(g2)
      PROVE  (\A j \in 1 .. Len(q2) : Earlier(g2[i], q2[j])) /\ (\A j \in 1 .. Len(c) : g2[i][2] < c[j][2])
  <2>1. CASE i = Len(g) + 1
    <3>1. g2[i] = q[1] /\ 1 \in 1 .. Len(q)
      BY <1>1, <1>2, <1>3, <2>1
    <3>2. \A j \in 1 .. Len(c) : q[1][2] < c[j][2]
      BY <3>1 DEF Reading
    <3>3. \A j \in 1 .. Len(q2) : Earlier(q[1], q[j + 1])
      BY <1>6 DEF Reading
    <3> QED BY <1>3, <3>1, <3>2, <3>3
  <2>2. CASE i # Len(g) + 1
    <3>1. i \in n + 1 .. Len(g) /\ g2[i] = g[i]
      BY <1>1, <1>2, <2>2
    <3> QED BY <1>3, <1>6, <3>1 DEF Reading
  <2> QED BY <2>1, <2>2
<1>9. \A i \in 1 .. Len(q2), j \in 1 .. Len(c) : q2[i][2] < c[j][2]
  BY <1>3, <1>6 DEF Reading
<1>10. n \in 0 .. Len(g2)
  BY <1>1, <1>2
<1>11. Reading(b, T, n, g2, q2, c, F)
  BY <1>1, <1>2, <1>3, <1>4, <1>5, <1>7, <1>8, <1>9, <1>10 DEF Reading
<1> QED BY <1>11 DEF g2, q2

\* The frames of F that are in the data of transaction t are those it parses to.
Parsed(F) == \A f \in F : f \in Frame /\ f \in Range(ParseFrames(<<f[1], f[2]>>))

\* The data of the next commitment are parsed.
LEMMA ReadingTake ==
    ASSUME NEW b, NEW T, NEW n, NEW g, NEW c, NEW F, Reading(b, T, n, g, <<>>, c, F), c # <<>>, Parsed(F),
           l1[Head(c)[1]].txs[Head(c)[2]].frames \in Nat
    PROVE  Reading(b, T, n, g, ParseFrames(Head(c)), Tail(c), F)
<1> DEFINE h == Head(c)
           q2 == ParseFrames(h)
           c2 == Tail(c)
           m == l1[h[1]].txs[h[2]].frames
<1>1. g \in Seq(Frame) /\ InOrder(c, b, T) /\ n \in 0 .. Len(g) /\ c \in Seq(Tx) /\ h = c[1] /\ m \in Nat
  BY DEF Reading, InOrder
<1>2. h \in Tx /\ Len(c) \in Nat /\ Len(c) >= 1
  BY <1>1
<1>3. c2 \in Seq(Tx) /\ Len(c2) = Len(c) - 1 /\ \A i \in 1 .. Len(c2) : c2[i] = c[i + 1] /\ i + 1 \in 1 .. Len(c) /\ 1 < i + 1
  BY <1>1
<1>4. /\ q2 \in Seq(Frame) /\ Len(q2) = m
      /\ \A k \in 1 .. m : q2[k] = <<h[1], h[2], k>>
  <2>1. q2 = [k \in 1 .. m |-> <<h[1], h[2], k>>]
    BY DEF ParseFrames
  <2>2. \A k \in 1 .. m : <<h[1], h[2], k>> \in Frame
    BY <1>1, <1>2 DEF Tx, Frame
  <2>3. m \in Nat
    BY <1>1
  <2> HIDE DEF q2, m, h
  <2>4. q2 \in Seq(Frame) /\ Len(q2) = m
    BY <2>1, <2>2, <2>3
  <2> QED BY <2>1, <2>4
<1>5. InOrder(c2, b, T)
  <2>1. \A p, q \in 1 .. Len(c2) : p < q => c2[p][2] < c2[q][2]
    <3> TAKE p, q \in 1 .. Len(c2)
    <3> HAVE p < q
    <3>1. p + 1 < q + 1
      BY <1>2, <1>3
    <3> QED BY <1>1, <1>3, <3>1 DEF InOrder
  <2> QED BY <1>1, <1>3, <2>1 DEF InOrder
<1> HIDE DEF q2, c2, m, h
<1>6. ASSUME NEW f \in F
      PROVE  \/ \E j \in n + 1 .. Len(g) : g[j] = f
             \/ \E j \in 1 .. Len(q2) : q2[j] = f
             \/ \E j \in 1 .. Len(c2) : c2[j] = <<f[1], f[2]>>
  <2>1. CASE \E j \in n + 1 .. Len(g) : g[j] = f
    BY <2>1
  <2>2. ASSUME NEW j \in 1 .. Len(c), c[j] = <<f[1], f[2]>>
        PROVE  (\E i \in 1 .. Len(q2) : q2[i] = f) \/ (\E i \in 1 .. Len(c2) : c2[i] = <<f[1], f[2]>>)
    <3>1. CASE j = 1
      <4>1. f \in Range(q2)
        BY <1>1, <2>2, <3>1 DEF Parsed, q2
      <4>2. DOMAIN q2 = 1 .. Len(q2)
        BY <1>4
      <4> QED BY <4>1, <4>2 DEF Range
    <3>2. CASE j # 1
      <4>1. j - 1 \in 1 .. Len(c2) /\ (j - 1) + 1 = j
        BY <1>2, <1>3, <3>2
      <4> QED BY <1>3, <2>2, <4>1
    <3> QED BY <3>1, <3>2
  <2>3. ~\E j \in 1 .. Len(<<>>) : <<>>[j] = f
    OBVIOUS
  <2>4. \/ \E j \in n + 1 .. Len(g) : g[j] = f
        \/ \E j \in 1 .. Len(c) : c[j] = <<f[1], f[2]>>
    BY <2>3, Zenon DEF Reading
  <2> QED BY <2>1, <2>2, <2>4
<1>7. \A i, j \in 1 .. Len(q2) : i < j => Earlier(q2[i], q2[j])
  BY <1>4 DEF Earlier
<1>8. 1 \in 1 .. Len(c)
  BY <1>2
<1>9. ASSUME NEW i \in n + 1 .. Len(g)
      PROVE  (\A j \in 1 .. Len(q2) : Earlier(g[i], q2[j])) /\ (\A j \in 1 .. Len(c2) : g[i][2] < c2[j][2])
  <2>1. g[i][2] < h[2]
    BY <1>1, <1>8 DEF Reading
  <2>2. \A j \in 1 .. Len(q2) : Earlier(g[i], q2[j])
    BY <1>4, <2>1 DEF Earlier
  <2> QED BY <1>3, <2>2 DEF Reading
<1>10. \A i \in 1 .. Len(q2), j \in 1 .. Len(c2) : q2[i][2] < c2[j][2]
  <2> TAKE i \in 1 .. Len(q2), j \in 1 .. Len(c2)
  <2>1. q2[i][2] = c[1][2]
    <3>1. q2[i] = <<h[1], h[2], i>>
      BY <1>4
    <3> QED BY <3>1 DEF h
  <2>2. c[1][2] < c[j + 1][2]
    <3>1. 1 < j + 1 /\ j + 1 \in 1 .. Len(c)
      BY <1>3
    <3> QED BY <1>1, <1>8, <3>1 DEF InOrder
  <2> QED BY <1>3, <2>1, <2>2
<1>11. \A i, j \in n + 1 .. Len(g) : i < j => Earlier(g[i], g[j])
  BY DEF Reading
<1>12. Reading(b, T, n, g, q2, c2, F)
  BY <1>1, <1>4, <1>5, <1>6, <1>7, <1>9, <1>10, <1>11 DEF Reading
<1> QED BY <1>12 DEF q2, c2, h

\* The next commitment is taken and not read: its frames are not counted on any more.
LEMMA ReadingLose ==
    ASSUME NEW b, NEW T, NEW n, NEW g, NEW c, NEW F, NEW F2, Reading(b, T, n, g, <<>>, c, F), c # <<>>,
           F2 \subseteq F, \A f \in F2 : <<f[1], f[2]>> # Head(c)
    PROVE  Reading(b, T, n, g, <<>>, Tail(c), F2)
<1> DEFINE c2 == Tail(c)
<1>1. g \in Seq(Frame) /\ InOrder(c, b, T) /\ n \in 0 .. Len(g) /\ c \in Seq(Tx) /\ Len(c) \in Nat /\ Len(c) >= 1
  BY DEF Reading, InOrder
<1>2. c2 \in Seq(Tx) /\ Len(c2) = Len(c) - 1 /\ \A i \in 1 .. Len(c2) : c2[i] = c[i + 1] /\ i + 1 \in 1 .. Len(c)
  BY <1>1
<1>3. InOrder(c2, b, T)
  <2>1. \A p, q \in 1 .. Len(c2) : p < q => c2[p][2] < c2[q][2]
    <3> TAKE p, q \in 1 .. Len(c2)
    <3> HAVE p < q
    <3>1. p + 1 < q + 1
      BY <1>1, <1>2
    <3> QED BY <1>1, <1>2, <3>1 DEF InOrder
  <2> QED BY <1>1, <1>2, <2>1 DEF InOrder
<1> HIDE DEF c2
<1>4. ASSUME NEW f \in F2
      PROVE  (\E j \in n + 1 .. Len(g) : g[j] = f) \/ (\E j \in 1 .. Len(c2) : c2[j] = <<f[1], f[2]>>)
  <2>1. ~\E j \in 1 .. Len(<<>>) : <<>>[j] = f
    OBVIOUS
  <2>2. \/ \E j \in n + 1 .. Len(g) : g[j] = f
        \/ \E j \in 1 .. Len(c) : c[j] = <<f[1], f[2]>>
    BY <2>1, Zenon DEF Reading
  <2>3. ASSUME NEW j \in 1 .. Len(c), c[j] = <<f[1], f[2]>>
        PROVE  \E i \in 1 .. Len(c2) : c2[i] = <<f[1], f[2]>>
    <3>1. j # 1
      BY <1>1, <2>3
    <3>2. j - 1 \in 1 .. Len(c2) /\ (j - 1) + 1 = j
      BY <1>1, <1>2, <3>1
    <3> QED BY <1>2, <2>3, <3>2
  <2> QED BY <2>2, <2>3
<1>5. \A i, j \in n + 1 .. Len(g) : i < j => Earlier(g[i], g[j])
  BY DEF Reading
<1>6. \A i \in n + 1 .. Len(g) : \A j \in 1 .. Len(c2) : g[i][2] < c2[j][2]
  BY <1>2 DEF Reading
<1>7. <<>> \in Seq(Frame) /\ Len(<<>>) = 0 /\ 1 .. 0 = {}
  OBVIOUS
<1>8. Reading(b, T, n, g, <<>>, c2, F2)
  BY <1>1, <1>3, <1>4, <1>5, <1>6, <1>7 DEF Reading
<1> QED BY <1>8 DEF c2

\* Nothing of a block has been read yet: all of F is in its commitments.
LEMMA ReadingStarts ==
    ASSUME NEW b, NEW T, NEW g \in Seq(Frame), NEW c, NEW F, InOrder(c, b, T),
           \A f \in F : \E j \in 1 .. Len(c) : c[j] = <<f[1], f[2]>>
    PROVE  Reading(b, T, Len(g), g, <<>>, c, F)
<1>1. <<>> \in Seq(Frame) /\ 1 .. Len(<<>>) = {} /\ Len(g) \in 0 .. Len(g) /\ Len(g) + 1 .. Len(g) = {}
  OBVIOUS
<1> QED BY <1>1, Zenon DEF Reading

\* Nothing is left: the block has been read.
LEMMA ReadingEnds ==
    ASSUME NEW b, NEW T, NEW n, NEW D, Reading(b, T, n, got, <<>>, <<>>, FramesOfBlock(block, system_config, D))
    PROVE  ReadWhole(D)
<1> DEFINE F == FramesOfBlock(block, system_config, D)
<1> HIDE DEF F
<1>1. Reading(b, T, n, got, <<>>, <<>>, F)
  BY DEF F
<1>2. n \in 0 .. Len(got) /\ \A i, j \in n + 1 .. Len(got) : i < j => Earlier(got[i], got[j])
  BY <1>1, Zenon DEF Reading
<1>3. 1 .. Len(<<>>) = {}
  OBVIOUS
<1>4. \A f \in F : \E j \in n + 1 .. Len(got) : got[j] = f
  BY <1>1, <1>3, Zenon DEF Reading
<1> QED BY <1>2, <1>4 DEF ReadWhole, F

\* What the loop over the transactions has collected after each of them.
Step(b, a, f, i) ==
    IF i = 0 THEN <<>>
    ELSE IF l1[b].txs[i].inbox /\ l1[b].txs[i].from = a THEN Append(f[i - 1], <<b, i>>)
    ELSE f[i - 1]

LEMMA LoadCalldataDef ==
    ASSUME NEW b, NEW a, Len(l1[b].txs) \in Nat
    PROVE  \E f : LoadCalldata(b, a) = f[Len(l1[b].txs)] /\ \A i \in 0 .. Len(l1[b].txs) : f[i] = Step(b, a, f, i)
<1> DEFINE L == Len(l1[b].txs)
           Def(f, N) == f = [i \in 0 .. N |-> Step(b, a, f, i)]
           Bad == {N \in Nat : ~\E f : Def(f, N)}
<1>1. Bad = {}
  <2> SUFFICES ASSUME Bad # {} PROVE FALSE
    OBVIOUS
  <2>1. PICK N \in Bad : \A M \in Bad : N <= M
    BY LeastNumber
  <2>2. N # 0
    <3> DEFINE f == [i \in 0 .. 0 |-> <<>>]
    <3>1. Def(f, 0)
      BY DEF Step
    <3> QED BY <3>1
  <2>3. N \in Nat /\ N - 1 \in Nat /\ N - 1 \notin Bad
    <3>1. Bad \subseteq Nat
      OBVIOUS
    <3> HIDE DEF Bad
    <3> QED BY <2>1, <2>2, <3>1
  <2>4. PICK f : Def(f, N - 1)
    BY <2>3
  <2> DEFINE g == [i \in 0 .. N |-> IF i = N THEN Step(b, a, f, N) ELSE f[i]]
  <2>5. ASSUME NEW i \in 0 .. N
        PROVE  g[i] = Step(b, a, g, i)
    <3>1. i # 0 => g[i - 1] = f[i - 1]
      BY <2>3
    <3>2. Step(b, a, g, i) = Step(b, a, f, i)
      <4> HIDE DEF g
      <4>1. CASE i = 0
        BY <4>1, Zenon DEF Step
      <4>2. CASE i # 0
        <5>1. g[i - 1] = f[i - 1]
          BY <3>1, <4>2
        <5> QED BY <5>1, <4>2, Zenon DEF Step
      <4> QED BY <4>1, <4>2
    <3>3. g[i] = Step(b, a, f, i)
      <4>1. CASE i = N
        BY <4>1
      <4>2. CASE i # N
        <5>1. i \in 0 .. N - 1 /\ g[i] = f[i]
          BY <2>3, <4>2
        <5> QED BY <2>4, <5>1, Zenon
      <4> QED BY <4>1, <4>2
    <3> QED BY <3>2, <3>3
  <2>6. g = [i \in 0 .. N |-> g[i]]
    OBVIOUS
  <2>7. Def(g, N)
    <3> HIDE DEF g
    <3> QED BY <2>5, <2>6, Zenon
  <2> QED BY <2>1, <2>7
<1>2. PICK f : Def(f, L)
  BY <1>1
<1> DEFINE F == CHOOSE f1 : Def(f1, L)
<1>3. Def(F, L)
  BY <1>2, Zenon
<1>4. LoadCalldata(b, a) = F[L]
  BY DEF LoadCalldata, Step
<1> HIDE DEF F
<1>5. \A i \in 0 .. L : F[i] = Step(b, a, F, i)
  BY <1>3, Zenon
<1> QED BY <1>4, <1>5, Zenon

\* CalldataSource holds the transactions of the block in L1 order.
LEMMA LoadedInOrder ==
    ASSUME l1 \in [Blocks -> L1Blocks], NEW b \in Blocks, NEW a
    PROVE  InOrder(LoadCalldata(b, a), b, DOMAIN l1[b].txs)
<1> DEFINE L == Len(l1[b].txs)
           Ok(s, i) == /\ s \in Seq(Tx) /\ \A p \in 1 .. Len(s) : s[p] \in {b} \X (1 .. i)
                       /\ \A p, q \in 1 .. Len(s) : p < q => s[p][2] < s[q][2]
<1>1. l1[b].txs \in Seq(Range(l1[b].txs)) /\ b \in Nat
  BY L1BlocksAssumption, L1HeadAssumption DEF Blocks
<1>2. L \in Nat /\ DOMAIN l1[b].txs = 1 .. L
  BY <1>1
<1> HIDE DEF L
<1>3. PICK f : LoadCalldata(b, a) = f[L] /\ \A i \in 0 .. L : f[i] = Step(b, a, f, i)
  BY <1>2, LoadCalldataDef DEF L
<1> DEFINE Bad == {i \in 0 .. L : ~Ok(f[i], i)}
<1>4. Bad = {}
  <2> SUFFICES ASSUME Bad # {} PROVE FALSE
    OBVIOUS
  <2>1. Bad \subseteq Nat
    OBVIOUS
  <2>2. PICK i \in Bad : \A j \in Bad : i <= j
    BY <2>1, LeastNumber
  <2>3. i # 0
    <3>1. 0 \in 0 .. L
      BY <1>2
    <3>2. f[0] = <<>>
      BY <1>3, <3>1, Zenon DEF Step
    <3>3. Ok(<<>>, 0)
      OBVIOUS
    <3> QED BY <3>1, <3>2, <3>3
  <2>4. i \in 1 .. L /\ i - 1 \in 0 .. L /\ i - 1 \notin Bad
    <3>1. i \in 0 .. L
      OBVIOUS
    <3> HIDE DEF Bad
    <3> QED BY <1>2, <2>2, <2>3, <3>1
  <2>5. Ok(f[i - 1], i - 1)
    BY <2>4
  <2> DEFINE s == f[i - 1]
  <2>6. f[i] \in {s, Append(s, <<b, i>>)}
    BY <1>3, <2>3, <2>4 DEF Step
  <2>7. Ok(s, i)
    BY <2>4, <2>5
  <2>8. Ok(Append(s, <<b, i>>), i)
    <3> HIDE DEF s
    <3>1. s \in Seq(Tx) /\ Len(s) \in Nat /\ <<b, i>> \in Tx
      BY <1>1, <2>4, <2>5 DEF s, Tx
    <3>2. /\ Append(s, <<b, i>>) \in Seq(Tx) /\ Len(Append(s, <<b, i>>)) = Len(s) + 1
          /\ \A p \in 1 .. Len(s) + 1 : Append(s, <<b, i>>)[p] = IF p = Len(s) + 1 THEN <<b, i>> ELSE s[p]
      BY <3>1
    <3>3. \A p \in 1 .. Len(s) : s[p] \in {b} \X (1 .. i - 1)
      BY <2>5 DEF s
    <3>4. \A p \in 1 .. Len(s) : s[p][2] < i /\ s[p] \in {b} \X (1 .. i)
      BY <2>4, <3>3
    <3>5. <<b, i>> \in {b} \X (1 .. i)
      BY <2>4
    <3>6. \A p, q \in 1 .. Len(s) : p < q => s[p][2] < s[q][2]
      BY <2>5 DEF s
    <3> DEFINE e == Append(s, <<b, i>>)
    <3> HIDE DEF e
    <3>7. \A p \in 1 .. Len(e) : e[p] \in {b} \X (1 .. i)
      BY <3>1, <3>2, <3>4, <3>5 DEF e
    <3>8. \A p, q \in 1 .. Len(e) : p < q => e[p][2] < e[q][2]
      <4> TAKE p, q \in 1 .. Len(e)
      <4> HAVE p < q
      <4>1. p \in 1 .. Len(s) /\ e[p] = s[p]
        BY <3>1, <3>2 DEF e
      <4>2. CASE q = Len(s) + 1
        <5>1. e[q] = <<b, i>> /\ <<b, i>>[2] = i
          BY <3>2, <4>2 DEF e
        <5> QED BY <3>4, <4>1, <5>1
      <4>3. CASE q # Len(s) + 1
        <5>1. q \in 1 .. Len(s) /\ e[q] = s[q]
          BY <3>1, <3>2, <4>3 DEF e
        <5> QED BY <3>6, <4>1, <5>1
      <4> QED BY <4>2, <4>3
    <3> QED BY <3>2, <3>7, <3>8 DEF e
  <2> QED BY <2>2, <2>6, <2>7, <2>8
<1>5. Ok(f[L], L)
  BY <1>2, <1>4
<1> QED BY <1>2, <1>3, <1>5 DEF InOrder

\* The indices of the origin's transactions.
Txs == DOMAIN l1[block].txs

\* The block L1Retrieval reads is the origin. While the source is open its frames have been
\* returned, wait in the queue or are to come; when L1Retrieval is done with the block, all of
\* them have been returned.
ReadInv ==
    /\ l1 \in [Blocks -> L1Blocks] /\ got \in Seq(Frame) /\ next \in {block, NoBlock}
    /\ ~open => queue = <<>>
    /\ open => /\ next = block
               /\ \E n \in 0 .. Len(got) : Reading(block, Txs, n, got, queue, calldata, FramesOfBlock(block, system_config, lost \cup skipped))
    /\ next = NoBlock /\ (done \/ res = "Eof") => ReadWhole(lost \cup skipped)

\* The frames of a block are in the data of its commitments.
LEMMA FramesFit ==
    ASSUME l1 \in [Blocks -> L1Blocks], NEW b \in Blocks, NEW a, NEW D, NEW f \in FramesOfBlock(b, a, D)
    PROVE  /\ f \in Frame /\ f \in Range(ParseFrames(<<f[1], f[2]>>))
           /\ <<f[1], f[2]>> \in Range(LoadCalldata(b, a)) \ D
           /\ \E j \in 1 .. Len(LoadCalldata(b, a)) : LoadCalldata(b, a)[j] = <<f[1], f[2]>>
<1> DEFINE c == LoadCalldata(b, a)
<1>1. InOrder(c, b, DOMAIN l1[b].txs)
  BY LoadedInOrder
<1>2. PICK t \in Range(c) \ D : f \in Range(ParseFrames(t))
  BY DEF FramesOfBlock
<1> HIDE DEF c
<1>3. c \in Seq(Tx) /\ DOMAIN c = 1 .. Len(c)
  BY <1>1 DEF InOrder
<1>4. PICK j \in 1 .. Len(c) : c[j] = t
  BY <1>2, <1>3 DEF Range
<1>5. t \in Tx /\ t \in {b} \X DOMAIN l1[b].txs
  BY <1>1, <1>3, <1>4 DEF InOrder
<1>6. t = <<t[1], t[2]>> /\ t[1] = b /\ t[2] \in DOMAIN l1[b].txs /\ t[1] \in Nat /\ t[2] \in Nat
  BY <1>5 DEF Tx
<1>7. l1[b].txs[t[2]].frames \in Nat
  BY <1>6, L1BlocksAssumption
<1>8. PICK k \in 1 .. l1[b].txs[t[2]].frames : f = <<t[1], t[2], k>>
  BY <1>2, <1>6 DEF Range, ParseFrames
<1>9. f \in Frame /\ <<f[1], f[2]>> = t
  BY <1>6, <1>7, <1>8 DEF Frame
<1>10. c[j] = <<f[1], f[2]>>
  BY <1>4, <1>9
<1> QED BY <1>2, <1>9, <1>10 DEF c

\* The chain does not change: the frames after a step depend on origin and batcher only.
LEMMA SameFrames ==
    ASSUME UNCHANGED l1
    PROVE  FramesOfBlock(block, system_config, lost \cup skipped)' = FramesOfBlock(block', system_config', (lost \cup skipped)')
<1>1. LoadCalldata(block, system_config)' = LoadCalldata(block', system_config')
  BY DEF LoadCalldata
<1>2. ASSUME NEW t PROVE ParseFrames(t)' = ParseFrames(t)
  BY DEF ParseFrames
<1> QED BY <1>1, <1>2 DEF FramesOfBlock

\* A pull reads the origin, from where the last one left off.
LEMMA Pulled ==
    ASSUME ReadInv, ConfigOk, Pull
    PROVE  /\ CurrentBlock = block /\ queue = <<>>
           /\ \E n \in 0 .. Len(got) : Reading(block, Txs, n, got, <<>>, OpenedCalldata, FramesOfBlock(block, system_config, lost \cup skipped))
<1> DEFINE F == FramesOfBlock(block, system_config, lost \cup skipped)
<1>1. block \in Blocks /\ block # NoBlock
  BY L1HeadAssumption DEF ConfigOk, Blocks, NoBlock
<1>2. CurrentBlock = block /\ queue = <<>>
  BY <1>1 DEF Pull, CurrentBlock, ReadInv
<1>3. CASE open
  BY <1>2, <1>3 DEF ReadInv, OpenedCalldata
<1>4. CASE ~open
  <2> DEFINE c == LoadCalldata(block, system_config)
  <2>1. OpenedCalldata = c /\ got \in Seq(Frame) /\ Len(got) \in 0 .. Len(got)
    BY <1>2, <1>4 DEF OpenedCalldata, ReadInv
  <2>2. InOrder(c, block, Txs)
    BY <1>1, LoadedInOrder DEF ReadInv, Txs
  <2>3. \A f \in F : \E j \in 1 .. Len(c) : c[j] = <<f[1], f[2]>>
    BY <1>1, FramesFit DEF ReadInv
  <2> HIDE DEF F, c
  <2>4. Reading(block, Txs, Len(got), got, <<>>, c, F)
    BY <2>1, <2>2, <2>3, ReadingStarts
  <2> QED BY <1>2, <1>4, <2>1, <2>4 DEF F
<1> QED BY <1>3, <1>4

\* The frames of the origin are those their transactions parse to.
LEMMA OriginParsed ==
    ASSUME ReadInv, ConfigOk, NEW D
    PROVE  Parsed(FramesOfBlock(block, system_config, D))
  BY FramesFit DEF ReadInv, ConfigOk, Parsed

\* The source is open after a step; the rest of the block is as Reading says.
LEMMA StillReading ==
    ASSUME UNCHANGED <<l1, block>>, ReadInv, open', next' = block, block # NoBlock, NEW n,
           Reading(block, Txs, n, got', queue', calldata', FramesOfBlock(block, system_config', (lost \cup skipped)'))
    PROVE  ReadInv'
<1>1. n \in 0 .. Len(got') /\ got' \in Seq(Frame)
  BY Zenon DEF Reading
<1>2. FramesOfBlock(block, system_config, lost \cup skipped)' = FramesOfBlock(block, system_config', (lost \cup skipped)') /\ Txs' = Txs
  BY SameFrames DEF Txs
<1>3. Reading(block, Txs, n, got, queue, calldata, FramesOfBlock(block, system_config, lost \cup skipped))'
  BY <1>2
<1> QED BY <1>1, <1>3 DEF ReadInv

\* The frames F are in g from some place on, in the block's order.
Whole(g, F) ==
    \E n \in 0 .. Len(g) :
        /\ \A f \in F : \E j \in n + 1 .. Len(g) : g[j] = f
        /\ \A i, j \in n + 1 .. Len(g) : i < j /\ {g[i], g[j]} \subseteq F => Earlier(g[i], g[j])

\* ReadWhole is Whole of the frames of the origin, before a step and after it.
LEMMA ReadWholeIs ==
    /\ ReadWhole(lost \cup skipped) <=> Whole(got, FramesOfBlock(block, system_config, lost \cup skipped))
    /\ ReadWhole(lost \cup skipped)' <=> Whole(got', FramesOfBlock(block, system_config, lost \cup skipped)')
<1>1. ReadWhole(lost \cup skipped) <=> Whole(got, FramesOfBlock(block, system_config, lost \cup skipped))
  BY DEF ReadWhole, Whole
<1>2. ReadWhole(lost \cup skipped)' <=> Whole(got', FramesOfBlock(block, system_config, lost \cup skipped)')
  BY DEF ReadWhole, Whole
<1> QED BY <1>1, <1>2

\* A step that reads nothing.
LEMMA ReadStays ==
    ASSUME ReadInv, UNCHANGED <<l1, block, system_config, next, open, calldata, queue, got, lost, skipped>>,
           next' = NoBlock /\ (done' \/ res' = "Eof") => next = NoBlock /\ (done \/ res = "Eof")
    PROVE  ReadInv'
<1>1. FramesOfBlock(block, system_config, lost \cup skipped)' = FramesOfBlock(block, system_config, lost \cup skipped) /\ Txs' = Txs
  BY SameFrames DEF Txs
<1>2. ReadWhole(lost \cup skipped)' <=> ReadWhole(lost \cup skipped)
  BY <1>1, ReadWholeIs
<1> QED BY <1>1, <1>2 DEF ReadInv

\* A frame of the queue is returned.
LEMMA PopFrameReads ==
    ASSUME ReadInv, ConfigOk, PopFrame
    PROVE  ReadInv'
<1> DEFINE F == FramesOfBlock(block, system_config, lost \cup skipped)
<1>1. open /\ next = block /\ block # NoBlock
  BY L1HeadAssumption DEF PopFrame, ReadInv, ConfigOk, Blocks, NoBlock
<1>2. PICK n \in 0 .. Len(got) : Reading(block, Txs, n, got, queue, calldata, F)
  BY <1>1 DEF ReadInv
<1>3. queue # <<>> /\ queue' = Tail(queue) /\ got' = Append(got, Head(queue)) /\ calldata' = calldata
      /\ UNCHANGED <<l1, block, system_config, next, open, lost, skipped>>
  BY DEF PopFrame, retrieval, env
<1> HIDE DEF F
<1>4. Reading(block, Txs, n, got', queue', calldata', F)
  BY <1>2, <1>3, ReadingPop
<1>5. F = FramesOfBlock(block, system_config', (lost \cup skipped)')
  BY <1>3 DEF F
<1> QED BY <1>1, <1>3, <1>4, <1>5, StillReading

\* Nothing is left of the block.
LEMMA ExhaustedReads ==
    ASSUME ReadInv, ConfigOk, BlockExhausted
    PROVE  ReadInv'
<1>1. OpenedCalldata = <<>> /\ queue = <<>> /\ next' = NoBlock /\ ~open'
      /\ UNCHANGED <<l1, block, system_config, queue, got, lost, skipped>>
  BY Pulled DEF BlockExhausted, history, env
<1>2. PICK n \in 0 .. Len(got) : Reading(block, Txs, n, got, <<>>, <<>>, FramesOfBlock(block, system_config, lost \cup skipped))
  BY <1>1, Pulled DEF BlockExhausted
<1>3. ReadWhole(lost \cup skipped)
  BY <1>2, ReadingEnds
<1>4. FramesOfBlock(block, system_config, lost \cup skipped)' = FramesOfBlock(block, system_config, lost \cup skipped)
  BY <1>1, SameFrames
<1>5. ReadWhole(lost \cup skipped)'
  BY <1>1, <1>3, <1>4, ReadWholeIs
<1> QED BY <1>1, <1>5 DEF ReadInv

\* The lookup of a commitment fails: its frames are given up.
LEMMA LookupFailsReads ==
    ASSUME ReadInv, ConfigOk, LookupFails
    PROVE  ReadInv'
<1> DEFINE c == OpenedCalldata
           D == lost \cup skipped
           F == FramesOfBlock(block, system_config, D)
           G == FramesOfBlock(block, system_config, D \cup {Head(c)})
<1>1. c # <<>> /\ queue = <<>> /\ next' = block /\ open' /\ calldata' = Tail(c) /\ lost' = lost \cup {Head(c)}
      /\ UNCHANGED <<l1, block, system_config, queue, got, skipped>>
  BY Pulled DEF LookupFails, TakeCommitment, env
<1>2. PICK n \in 0 .. Len(got) : Reading(block, Txs, n, got, <<>>, c, F)
  BY Pulled DEF LookupFails, TakeCommitment
<1>3. block \in Blocks /\ block # NoBlock /\ l1 \in [Blocks -> L1Blocks]
  BY L1HeadAssumption DEF ReadInv, ConfigOk, Blocks, NoBlock
<1>4. G \subseteq F
  BY DEF FramesOfBlock
<1>5. \A f \in G : <<f[1], f[2]>> # Head(c)
  <2> DEFINE E == D \cup {Head(c)}
  <2>1. Head(c) \in E
    OBVIOUS
  <2>2. G = FramesOfBlock(block, system_config, E)
    OBVIOUS
  <2> HIDE DEF E, G
  <2>3. \A f \in FramesOfBlock(block, system_config, E) : <<f[1], f[2]>> \notin E
    BY <1>3, FramesFit
  <2> QED BY <2>1, <2>2, <2>3
<1>6. G = FramesOfBlock(block, system_config', (lost \cup skipped)')
  <2>1. D \cup {Head(c)} = (lost \cup skipped)'
    BY <1>1
  <2> QED BY <1>1, <2>1
<1> HIDE DEF c, F, G
<1>7. Reading(block, Txs, n, got, <<>>, Tail(c), G)
  BY <1>1, <1>2, <1>4, <1>5, ReadingLose
<1>8. Reading(block, Txs, n, got', queue', calldata', G)
  BY <1>1, <1>7
<1> QED BY <1>1, <1>3, <1>6, <1>8, StillReading

\* The data of a commitment are parsed, and the first of its frames is returned.
LEMMA LoadFramesReads ==
    ASSUME ReadInv, ConfigOk, LoadFrames
    PROVE  ReadInv'
<1> DEFINE c == OpenedCalldata
           F == FramesOfBlock(block, system_config, lost \cup skipped)
           q == ParseFrames(Head(c))
<1>1. c # <<>> /\ queue = <<>> /\ next' = block /\ open' /\ calldata' = Tail(c)
      /\ UNCHANGED <<l1, block, system_config, lost, skipped>>
  BY Pulled DEF LoadFrames, TakeCommitment, env
<1>2. PICK n \in 0 .. Len(got) : Reading(block, Txs, n, got, <<>>, c, F)
  BY Pulled DEF LoadFrames, TakeCommitment
<1>3. block \in Blocks /\ block # NoBlock /\ l1 \in [Blocks -> L1Blocks]
  BY L1HeadAssumption DEF ReadInv, ConfigOk, Blocks, NoBlock
<1>4. IF q = <<>> THEN UNCHANGED <<queue, got>> ELSE queue' = Tail(q) /\ got' = Append(got, Head(q))
  BY DEF LoadFrames
<1>5. Parsed(F)
  BY OriginParsed
<1> HIDE DEF c, F
<1>6. l1[Head(c)[1]].txs[Head(c)[2]].frames \in Nat
  <2>1. InOrder(c, block, Txs) /\ c \in Seq(Tx)
    BY <1>2, Zenon DEF Reading, InOrder
  <2>2. Head(c) = c[1] /\ 1 \in 1 .. Len(c)
    BY <1>1, <2>1
  <2>3. Head(c) \in {block} \X Txs
    BY <2>1, <2>2 DEF InOrder
  <2>4. Head(c)[1] = block /\ Head(c)[2] \in DOMAIN l1[block].txs
    BY <2>3 DEF Txs
  <2> QED BY <1>3, <2>4, L1BlocksAssumption
<1>7. Reading(block, Txs, n, got, q, Tail(c), F)
  BY <1>1, <1>2, <1>5, <1>6, ReadingTake
<1> HIDE DEF q
<1>8. Reading(block, Txs, n, got', queue', calldata', F)
  <2>1. CASE q = <<>>
    BY <1>1, <1>4, <1>7, <2>1
  <2>2. CASE q # <<>>
    BY <1>1, <1>4, <1>7, <2>2, ReadingPop
  <2> QED BY <2>1, <2>2
<1>9. F = FramesOfBlock(block, system_config', (lost \cup skipped)')
  BY <1>1 DEF F
<1> QED BY <1>1, <1>3, <1>8, <1>9, StillReading

\* A reset starts over, but for the commitments an open source has already taken.
LEMMA ResetReads ==
    ASSUME ReadInv, ConfigOk, Reset
    PROVE  ReadInv'
<1>1. block \in Blocks /\ block # NoBlock /\ l1 \in [Blocks -> L1Blocks]
  BY L1HeadAssumption DEF ReadInv, ConfigOk, Blocks, NoBlock, Reset, env
<1>2. next' = block /\ queue' = <<>> /\ got' = <<>> /\ lost' = {} /\ UNCHANGED <<l1, block, open, calldata>>
  BY DEF Reset, env
<1>3. CASE ~open
  BY <1>1, <1>2, <1>3 DEF ReadInv
<1>4. CASE open
  <2> DEFINE a == system_config'
             D == (lost \cup skipped)'
             F == FramesOfBlock(block, a, D)
  <2>1. InOrder(calldata, block, Txs)
    BY <1>4, Zenon DEF ReadInv, Reading
  <2>2. DOMAIN calldata = 1 .. Len(calldata)
    BY <2>1 DEF InOrder
  <2>3. D = ({block} \X Txs) \ Range(calldata)
    BY <1>2, <1>4 DEF Reset, Txs
  <2> HIDE DEF a, D
  <2>4. ASSUME NEW f \in F
        PROVE  \E j \in 1 .. Len(calldata) : calldata[j] = <<f[1], f[2]>>
    <3>1. <<f[1], f[2]>> \notin D /\ \E j \in 1 .. Len(LoadCalldata(block, a)) : LoadCalldata(block, a)[j] = <<f[1], f[2]>>
      BY <1>1, <2>4, FramesFit
    <3>2. InOrder(LoadCalldata(block, a), block, Txs)
      BY <1>1, LoadedInOrder DEF Txs
    <3>3. <<f[1], f[2]>> \in {block} \X Txs
      BY <3>1, <3>2, Zenon DEF InOrder
    <3>4. <<f[1], f[2]>> \in Range(calldata)
      BY <2>3, <3>1, <3>3, Zenon
    <3> QED BY <2>2, <3>4, Zenon DEF Range
  <2> HIDE DEF F
  <2>5. <<>> \in Seq(Frame) /\ Len(<<>>) = 0
    OBVIOUS
  <2>6. Reading(block, Txs, 0, <<>>, <<>>, calldata, F)
    BY <2>1, <2>4, <2>5, ReadingStarts
  <2>7. Reading(block, Txs, 0, got', queue', calldata', F)
    BY <1>2, <2>6
  <2> QED BY <1>1, <1>2, <1>4, <2>7, StillReading DEF F, a, D
<1> QED BY <1>3, <1>4

\* load_calldata fails: the block is kept.
LEMMA LoadFailsReads ==
    ASSUME ReadInv, ConfigOk, LoadFails
    PROVE  ReadInv'
<1>1. block \in Blocks /\ block # NoBlock
  BY L1HeadAssumption DEF ConfigOk, Blocks, NoBlock
<1>2. next' = block /\ ~open' /\ queue' = <<>> /\ UNCHANGED <<l1, block, got>>
  BY Pulled DEF LoadFails, Pull, history, env
<1> QED BY <1>1, <1>2 DEF ReadInv

\* The origin advances, or is the L1 head.
LEMMA AdvanceReads ==
    ASSUME ReadInv, SourceOk, AdvanceOrigin
    PROVE  ReadInv' /\ (block' # block => ReadWhole(lost \cup skipped))
<1>1. res = "Eof" /\ queue = <<>> /\ next = NoBlock /\ ~open /\ UNCHANGED <<l1, next, open, calldata, queue>>
  BY DEF AdvanceOrigin, SourceOk, retrieval, env
<1>2. ReadWhole(lost \cup skipped)
  BY <1>1 DEF ReadInv
<1>3. CASE block = L1Head
  BY <1>1, <1>2, <1>3, ReadStays DEF AdvanceOrigin
<1>4. CASE block # L1Head
  <2>1. got' = <<>> /\ done' = FALSE /\ res' = "None"
    BY <1>4 DEF AdvanceOrigin
  <2>2. got' \in Seq(Frame)
    BY <2>1
  <2> QED BY <1>1, <1>2, <2>1, <2>2 DEF ReadInv
<1> QED BY <1>3, <1>4

\* Every step keeps ReadInv, and leaves a block only when it has been read.
LEMMA NextReads ==
    ASSUME ReadInv, IInv, [Next]_vars
    PROVE  ReadInv' /\ (block' # block => ReadWhole(lost \cup skipped))
<1> USE DEF IInv
<1>1. CASE PopFrame
  BY <1>1, PopFrameReads DEF PopFrame
<1>2. CASE NoMoreBlocks
  <2>1. UNCHANGED <<l1, block, system_config, next, open, calldata, queue, got, lost, skipped, done>>
    BY <1>2 DEF NoMoreBlocks, retrieval, history, env
  <2>2. next = NoBlock /\ done
    <3>1. block # NoBlock
      BY L1HeadAssumption DEF ConfigOk, Blocks, NoBlock
    <3> QED BY <1>2, <3>1 DEF NoMoreBlocks, CurrentBlock
  <2> QED BY <2>1, <2>2, ReadStays
<1>3. CASE LoadFails
  BY <1>3, LoadFailsReads DEF LoadFails
<1>4. CASE BlockExhausted
  BY <1>4, ExhaustedReads DEF BlockExhausted
<1>5. CASE LookupFails
  BY <1>5, LookupFailsReads DEF LookupFails
<1>6. CASE LoadFrames
  BY <1>6, LoadFramesReads DEF LoadFrames
<1>7. CASE AdvanceOrigin
  BY <1>7, AdvanceReads
<1>8. CASE AdvanceFails
  <2>1. UNCHANGED <<l1, block, system_config, next, open, calldata, queue, got, lost, skipped>> /\ res = "Eof"
    BY <1>8 DEF AdvanceFails, retrieval, history, env
  <2> QED BY <2>1, ReadStays DEF SourceOk
<1>9. CASE Reset
  BY <1>9, ResetReads DEF Reset
<1>10. CASE UNCHANGED vars
  <2>1. UNCHANGED <<l1, block, system_config, next, open, calldata, queue, got, lost, skipped, done, res>>
    BY <1>10 DEF vars, retrieval, history, env
  <2> QED BY <2>1, ReadStays
<1> QED BY <1>1, <1>2, <1>3, <1>4, <1>5, <1>6, <1>7, <1>8, <1>9, <1>10 DEF Next, NextFrame

\* The pipeline starts with the origin unread.
LEMMA InitReads == Init => ReadInv
  BY DEF Init, ReadInv

\* ReadInv holds in every behaviour: L1Retrieval never loses its place in the origin.
THEOREM ReadInvariance == Spec => [](IInv /\ ReadInv)
<1>1. Init => IInv /\ ReadInv
  BY InitIInv, InitReads
<1>2. (IInv /\ ReadInv) /\ [Next]_vars => (IInv /\ ReadInv)'
  BY NextIInv, NextReads
<1> QED BY <1>1, <1>2, PTL DEF Spec

\* For every chain, every place of the failures and every reset, the origin leaves a block only
\* when each of its batcher's frames has been returned, once and in L1 order since some pull,
\* but for those of a commitment a failed lookup or a reset has dropped.
THEOREM BlocksReadWhole == Spec => BlockReadWhole
<1>1. IInv /\ ReadInv /\ [Next]_vars => [block' # block => ReadWhole(lost \cup skipped)]_vars
  BY NextReads
<1> QED BY <1>1, ReadInvariance, PTL DEF Spec, BlockReadWhole
=============================================================================
