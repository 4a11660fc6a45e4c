----------------------------- MODULE DriverProofs -----------------------------
(***************************************************************************)
(* What Driver promises for every channel timeout, L1 chain, target and    *)
(* number of resets.                                                       *)
(*                                                                         *)
(* The invariant says of the cursor (CursorOk) that the origin it was last *)
(* advanced to is the largest of its keys, that the queue of origins still *)
(* holds every key, so that the one `advance' pops is never missing, and   *)
(* (Anchored) that the cache has its first entry or is nearly full. One    *)
(* lemma, AdvanceOk, says that `advance' keeps this.                       *)
(***************************************************************************)
EXTENDS Driver, FiniteSetTheorems, TLAPS

L1Blocks == L1Start .. L1Head

Tips == [number : Nat, root : Int]

Cursors ==
    [origin : L1Blocks, origins : Seq(L1Blocks), origin_infos : SUBSET L1Blocks,
     tips : UNION {[D -> Tips] : D \in SUBSET L1Blocks}]

\* The cache still has the entry of the L1 block it started with, or is nearly full.
Anchored(c) ==
    L1Start \in DOMAIN c.tips \/ Cardinality(DOMAIN c.tips) >= ChannelTimeout + 4

\* The cursor c after it was last advanced with the tip t.
CursorOk(c, t) ==
    /\ c \in Cursors
    /\ c.origin \in DOMAIN c.tips /\ c.tips[c.origin] = t
    /\ \A k \in DOMAIN c.tips : k <= c.origin /\ \E i \in 1 .. Len(c.origins) : c.origins[i] = k
    /\ Anchored(c)

IInv ==
    /\ TypeOK
    /\ CursorOk(cursor, built)
    /\ built \in Tips
    /\ cursor.origin <= l1
    /\ PayloadOnTip
-----------------------------------------------------------------------------
\* tip() of a cursor is the entry of the origin it was last advanced to.
LEMMA TipIsAtOrigin ==
    ASSUME NEW c, NEW t, CursorOk(c, t)
    PROVE  Tip(c) = t
<1>1. /\ DOMAIN c.tips \subseteq Int
      /\ c.origin \in DOMAIN c.tips /\ \A k \in DOMAIN c.tips : k <= c.origin
      /\ c.tips[c.origin] = t
  BY StartAssumption DEF CursorOk, Cursors, L1Blocks
<1>2. LastKey(DOMAIN c.tips) = c.origin
  BY <1>1 DEF LastKey
<1> QED BY <1>1, <1>2 DEF Tip

\* A set of L1 blocks is finite.
LEMMA FiniteKeys ==
    ASSUME NEW D, D \subseteq L1Blocks
    PROVE  IsFiniteSet(D) /\ Cardinality(D) \in Nat
<1>1. L1Start \in Int /\ L1Head \in Int
  BY StartAssumption
<1>2. IsFiniteSet(L1Blocks)
  BY <1>1, FS_Interval DEF L1Blocks
<1> QED BY <1>2, FS_Subset, FS_CardinalityType

\* The oldest origin is popped from a full cursor: at most one entry goes, and the queue of
\* origins still holds every key that is left.
LEMMA EvictedOk ==
    ASSUME NEW c, NEW t, CursorOk(c, t)
    PROVE  /\ Evicted(c) \in Cursors
           /\ DOMAIN Evicted(c).tips \subseteq DOMAIN c.tips
           /\ \A k \in DOMAIN Evicted(c).tips :
                 \E i \in 1 .. Len(Evicted(c).origins) : Evicted(c).origins[i] = k
           /\ Anchored(Evicted(c))
<1> DEFINE D == DOMAIN c.tips
           h == Head(c.origins)
<1>1. c \in Cursors /\ c.origins \in Seq(L1Blocks) /\ D \subseteq L1Blocks /\ c.tips \in [D -> Tips]
  BY DEF CursorOk, Cursors
<1>2. IsFiniteSet(D) /\ Cardinality(D) \in Nat
  BY <1>1, FiniteKeys
<1>3. CASE ~(Cardinality(D) >= Capacity)
  BY <1>3 DEF Evicted, CursorOk
<1>4. CASE Cardinality(D) >= Capacity
  <2> DEFINE e == [c EXCEPT !.origins = Tail(@), !.tips = Restrict(@, DOMAIN @ \ {Head(c.origins)})]
  <2>1. Evicted(c) = e
    BY <1>4 DEF Evicted
  <2>2. D # {}
    BY <1>4, FS_EmptySet, ChannelTimeoutAssumption DEF Capacity
  <2>3. c.origins # <<>>
    BY <2>2, <1>1 DEF CursorOk
  <2>4. /\ e.origins = Tail(c.origins) /\ e.origin = c.origin /\ e.origin_infos = c.origin_infos
        /\ e.tips = [k \in D \ {h} |-> c.tips[k]]
        /\ (Tail(c.origins) \in Seq(L1Blocks) /\ e.tips \in [D \ {h} -> Tips]) => e \in Cursors
    BY <1>1 DEF Cursors, Restrict
  <2> HIDE DEF e
  <2>5. e.origins \in Seq(L1Blocks) /\ Len(e.origins) = Len(c.origins) - 1
        /\ \A i \in 1 .. Len(e.origins) : e.origins[i] = c.origins[i + 1]
    BY <2>3, <2>4, <1>1
  <2>6. e.tips \in [D \ {h} -> Tips] /\ DOMAIN e.tips = D \ {h}
    BY <2>4, <1>1
  <2>7. e \in Cursors
    BY <2>4, <2>5, <2>6
  <2>8. ASSUME NEW k \in D \ {h}
        PROVE  \E i \in 1 .. Len(e.origins) : e.origins[i] = k
    <3>1. PICK j \in 1 .. Len(c.origins) : c.origins[j] = k
      BY DEF CursorOk
    <3>2. j # 1
      BY <3>1, <2>3, <1>1
    <3>3. j - 1 \in 1 .. Len(e.origins) /\ e.origins[j - 1] = k
      BY <3>1, <3>2, <2>5, <1>1
    <3> QED BY <3>3
  <2>9. Cardinality(D \ {h}) >= ChannelTimeout + 4
    <3>1. Cardinality(D \ {h}) = IF h \in D THEN Cardinality(D) - 1 ELSE Cardinality(D)
      BY <1>2, FS_RemoveElement
    <3> QED BY <3>1, <1>2, <1>4, ChannelTimeoutAssumption DEF Capacity
  <2> QED BY <2>1, <2>6, <2>7, <2>8, <2>9 DEF Anchored
<1> QED BY <1>3, <1>4

\* PipelineCursor::advance to an origin that is not before the last one.
LEMMA AdvanceOk ==
    ASSUME NEW c, NEW t, CursorOk(c, t), NEW o \in L1Blocks, c.origin <= o, NEW u \in Tips
    PROVE  CursorOk(Advance(c, o, u), u) /\ Advance(c, o, u).origin = o
<1> DEFINE e == Evicted(c)
           a == Advance(c, o, u)
<1>1. /\ e \in Cursors /\ DOMAIN e.tips \subseteq DOMAIN c.tips
      /\ \A k \in DOMAIN e.tips : \E i \in 1 .. Len(e.origins) : e.origins[i] = k
      /\ Anchored(e)
  BY EvictedOk
<1>2. /\ a.origin = o /\ a.origins = Append(e.origins, o)
      /\ a.origin_infos = e.origin_infos \cup {o}
      /\ a.tips = [k \in DOMAIN e.tips \cup {o} |-> IF k = o THEN u ELSE e.tips[k]]
      /\ a = [origin |-> a.origin, origins |-> a.origins, origin_infos |-> a.origin_infos, tips |-> a.tips]
  BY DEF Advance
<1> HIDE DEF e, a
<1>3. /\ e.origins \in Seq(L1Blocks) /\ e.origin_infos \subseteq L1Blocks
      /\ DOMAIN e.tips \subseteq L1Blocks /\ e.tips \in [DOMAIN e.tips -> Tips]
  BY <1>1 DEF Cursors
<1>4. /\ a.origins \in Seq(L1Blocks) /\ Len(a.origins) = Len(e.origins) + 1
      /\ a.origins[Len(e.origins) + 1] = o
      /\ \A i \in 1 .. Len(e.origins) : a.origins[i] = e.origins[i]
  BY <1>2, <1>3
<1>5. /\ DOMAIN a.tips = DOMAIN e.tips \cup {o} /\ a.tips[o] = u
      /\ a.tips \in [DOMAIN e.tips \cup {o} -> Tips]
  BY <1>2, <1>3
<1>6. a \in Cursors
  BY <1>2, <1>3, <1>4, <1>5 DEF Cursors
<1>7. ASSUME NEW k \in DOMAIN a.tips
      PROVE  k <= a.origin /\ \E i \in 1 .. Len(a.origins) : a.origins[i] = k
  <2>1. CASE k = o
    <3>1. Len(e.origins) + 1 \in 1 .. Len(a.origins)
      BY <1>3, <1>4
    <3>2. o <= o
      BY StartAssumption DEF L1Blocks
    <3> QED BY <2>1, <3>1, <3>2, <1>2, <1>4, Zenon
  <2>2. CASE k \in DOMAIN e.tips
    <3>1. k <= c.origin /\ k \in Int /\ c.origin \in Int /\ o \in Int
      BY <2>2, <1>1, StartAssumption DEF CursorOk, Cursors, L1Blocks
    <3>2. PICK i \in 1 .. Len(e.origins) : e.origins[i] = k
      BY <2>2, <1>1
    <3>3. i \in 1 .. Len(a.origins) /\ a.origins[i] = k
      BY <3>2, <1>3, <1>4
    <3> QED BY <3>1, <3>3, <1>2
  <2> QED BY <2>1, <2>2, <1>5
<1>8. Anchored(a)
  <2>1. IsFiniteSet(DOMAIN e.tips) /\ Cardinality(DOMAIN e.tips) \in Nat
    BY <1>3, FiniteKeys
  <2>2. /\ IsFiniteSet(DOMAIN a.tips) /\ Cardinality(DOMAIN a.tips) \in Nat
        /\ Cardinality(DOMAIN a.tips) >= Cardinality(DOMAIN e.tips)
    <3>1. Cardinality(DOMAIN a.tips) =
            IF o \in DOMAIN e.tips THEN Cardinality(DOMAIN e.tips) ELSE Cardinality(DOMAIN e.tips) + 1
      BY <2>1, <1>5, FS_AddElement
    <3>2. IsFiniteSet(DOMAIN a.tips)
      BY <2>1, <1>5, FS_AddElement
    <3> QED BY <3>1, <3>2, <2>1
  <2> QED BY <2>1, <2>2, <1>1, <1>5, ChannelTimeoutAssumption DEF Anchored
<1>9. CursorOk(a, u)
  BY <1>2, <1>5, <1>6, <1>7, <1>8 DEF CursorOk
<1> QED BY <1>2, <1>9 DEF a

\* The cursor new_pipeline_cursor builds.
LEMMA NewCursorOk ==
    ASSUME NEW u \in Tips
    PROVE  CursorOk(Advance(NewCursor(L1Start), L1Start, u), u)
<1> DEFINE c == NewCursor(L1Start)
           a == Advance(c, L1Start, u)
<1>1. L1Start \in L1Blocks /\ L1Start <= L1Start
  BY StartAssumption DEF L1Blocks
<1>2. Evicted(c) = c
  BY FS_EmptySet, ChannelTimeoutAssumption DEF Evicted, NewCursor, Capacity
<1>3. /\ a.origin = L1Start /\ a.origins = Append(c.origins, L1Start)
      /\ a.origin_infos = c.origin_infos \cup {L1Start}
      /\ a.tips = [k \in DOMAIN c.tips \cup {L1Start} |-> IF k = L1Start THEN u ELSE c.tips[k]]
      /\ a = [origin |-> a.origin, origins |-> a.origins, origin_infos |-> a.origin_infos, tips |-> a.tips]
  BY <1>2 DEF Advance
<1>4. c.origins = <<L1Start>> /\ c.origin_infos = {L1Start} /\ DOMAIN c.tips = {}
  BY DEF NewCursor
<1> HIDE DEF a, c
<1>5. /\ a.tips \in [{L1Start} -> Tips] /\ DOMAIN a.tips = {L1Start} /\ a.tips[L1Start] = u
      /\ a.origin_infos = {L1Start}
  BY <1>3, <1>4
<1>6. /\ a.origins \in Seq(L1Blocks) /\ Len(a.origins) = 2 /\ a.origins[1] = L1Start
      /\ 1 \in 1 .. Len(a.origins)
  BY <1>1, <1>3, <1>4
<1>7. a \in Cursors
  <2>1. {L1Start} \in SUBSET L1Blocks
    BY <1>1
  <2>2. a.tips \in UNION {[D -> Tips] : D \in SUBSET L1Blocks}
    BY <2>1, <1>5
  <2> QED BY <2>1, <2>2, <1>1, <1>3, <1>5, <1>6 DEF Cursors
<1>8. CursorOk(a, u)
  BY <1>1, <1>3, <1>5, <1>6, <1>7 DEF CursorOk, Anchored
<1> QED BY <1>8 DEF a, c
-----------------------------------------------------------------------------
\* The invariant holds of the cursor and pipeline the driver is created with.
LEMMA InitIInv == Init => IInv
<1> SUFFICES ASSUME Init PROVE IInv
  OBVIOUS
<1>1. built \in Tips
  BY StartAssumption DEF Init, Tips, ZeroRoot
<1>2. CursorOk(cursor, built)
  BY <1>1, NewCursorOk DEF Init
<1>3. cursor.origin = L1Start /\ l1 = L1Start /\ pc = "check"
  BY DEF Init, Advance
<1>4. TypeOK
  BY <1>2, <1>3, StartAssumption DEF Init, TypeOK, CursorOk, Cursors, L1Blocks, NoBatch
<1> QED BY <1>1, <1>2, <1>3, <1>4, StartAssumption DEF IInv, PayloadOnTip

\* Every step of advance_to_target keeps the invariant.
LEMMA NextIInv == IInv /\ [Next]_vars => IInv'
<1> SUFFICES ASSUME IInv, [Next]_vars PROVE IInv'
  OBVIOUS
<1>1. tip = built /\ built.number \in Nat /\ tip.number \in Int
  BY TipIsAtOrigin DEF IInv, tip, Tips
<1>2. /\ pc \in {"check", "step", "execute", "done"}
      /\ target \in Int /\ l1 \in L1Blocks /\ left \in 0 .. MaxPerBlock
      /\ batch \in Int /\ payload \in Int /\ result \in {"None", "Ok", "Err"}
      /\ prepared = <<>>
      /\ CursorOk(cursor, built) /\ built \in Tips /\ cursor.origin <= l1
      /\ pc = "execute" => payload = tip.number
  BY DEF IInv, TypeOK, PayloadOnTip, L1Blocks
\* it is enough that a step keeps the following, which does not speak of the cursor's fields
<1>3. SUFFICES
        /\ pc' \in {"check", "step", "execute", "done"}
        /\ target' \in Int /\ l1' \in L1Blocks /\ left' \in 0 .. MaxPerBlock
        /\ batch' \in Int /\ payload' \in Int /\ result' \in {"None", "Ok", "Err"}
        /\ prepared' = <<>>
        /\ CursorOk(cursor', built') /\ built' \in Tips /\ cursor'.origin <= l1'
        /\ pc' = "execute" => payload' = tip'.number
  BY DEF IInv, TypeOK, PayloadOnTip, CursorOk, Cursors, L1Blocks
<1>4. CASE CheckTarget
  BY <1>2, <1>4 DEF CheckTarget, stages, tip
<1>5. CASE StepPrepared
  BY <1>1, <1>2, <1>5, StartAssumption DEF StepPrepared, LoadBatch, Loaded, NoBatch, tip
<1>6. CASE StepTemporary
  BY <1>1, <1>2, <1>6, StartAssumption DEF StepTemporary, LoadBatch, Loaded, NoBatch
<1>7. CASE StepAdvanced
  <2>1. l1' \in L1Blocks /\ cursor.origin <= l1'
    BY <1>2, <1>7, StartAssumption DEF StepAdvanced, L1Blocks, CursorOk, Cursors
  <2> QED BY <2>1, <1>2, <1>7 DEF StepAdvanced
<1>8. CASE StepEndOfSource
  BY <1>1, <1>2, <1>8 DEF StepEndOfSource, stages
<1>9. CASE StepReset
  BY <1>2, <1>9 DEF StepReset, NoBatch
<1>10. CASE StepCritical
  BY <1>2, <1>10 DEF StepCritical, stages
<1>11. CASE ExecutePayload
  <2>1. built' \in Tips
    BY <1>1, <1>11 DEF ExecutePayload, Tips
  <2>2. CursorOk(cursor', built') /\ cursor'.origin = l1
    BY <1>2, <1>11, <2>1, AdvanceOk DEF ExecutePayload
  <2>3. l1 <= l1
    BY <1>2, StartAssumption DEF L1Blocks
  <2> QED BY <1>2, <1>11, <2>1, <2>2, <2>3 DEF ExecutePayload, stages, NoBatch
<1>12. CASE ExecuteFails
  BY <1>2, <1>12 DEF ExecuteFails, stages, NoBatch
<1>13. CASE ExecutorError
  BY <1>2, <1>13 DEF ExecutorError, stages, NoBatch
<1>14. CASE UNCHANGED vars
  BY <1>2, <1>14 DEF vars, stages, tip
<1> QED
  BY <1>4, <1>5, <1>6, <1>7, <1>8, <1>9, <1>10, <1>11, <1>12, <1>13, <1>14 DEF Next, Step, Done

\* Eviction pops the oldest origin only when the cache holds ChannelTimeout + 5 entries, so an
\* entry at or below every fork of the last three blocks is left.
LEMMA AnchorsLeft == IInv => ReorgAnchored
<1> SUFFICES ASSUME IInv,
                    NEW fork \in cursor.origin - 3 .. cursor.origin, fork - ChannelTimeout >= L1Start
             PROVE  ResetAnchors(cursor, fork) # {}
  BY DEF ReorgAnchored
<1> DEFINE D == DOMAIN cursor.tips
           o == cursor.origin
<1>1. /\ D \subseteq L1Blocks /\ D \subseteq Int /\ o \in Int /\ L1Start \in Int
      /\ \A k \in D : k <= o
      /\ Anchored(cursor)
  BY StartAssumption DEF IInv, CursorOk, Cursors, L1Blocks
<1>2. CASE L1Start \in D
  BY <1>2 DEF ResetAnchors
<1>3. CASE L1Start \notin D
  <2>1. Cardinality(D) >= ChannelTimeout + 4
    BY <1>1, <1>3 DEF Anchored
  <2>2. SUFFICES ASSUME ResetAnchors(cursor, fork) = {} PROVE FALSE
    OBVIOUS
  <2>3. \A k \in D : ~(k <= fork - ChannelTimeout)
    BY <2>2 DEF ResetAnchors
  <2> DEFINE I == o - 2 - ChannelTimeout .. o
  <2>4. D \subseteq I
    BY <2>3, <1>1, ChannelTimeoutAssumption
  <2>5. IsFiniteSet(I) /\ Cardinality(I) = ChannelTimeout + 3
    <3>1. o - 2 - ChannelTimeout \in Int /\ ~(o - 2 - ChannelTimeout > o)
          /\ o - (o - 2 - ChannelTimeout) + 1 = ChannelTimeout + 3
      BY <1>1, ChannelTimeoutAssumption
    <3> HIDE DEF o
    <3> QED BY <3>1, <1>1, FS_Interval, Zenon
  <2> HIDE DEF I, D
  <2>6. Cardinality(D) <= ChannelTimeout + 3 /\ Cardinality(D) \in Nat
    BY <2>4, <2>5, FS_Subset, FS_CardinalityType
  <2> QED BY <2>1, <2>6, ChannelTimeoutAssumption
<1> QED BY <1>2, <1>3

\* IInv is an invariant of the driver.
THEOREM Invariance == Spec => []IInv
  BY InitIInv, NextIInv, PTL DEF Spec

\* The driver's, the pipeline's and the cursor's fields keep their types: attributes are never
\* left in `prepared', and no key of the cursor is past the L1 head (Driver, PipelineCursor).
THEOREM TypeCorrect == Spec => []TypeOK
<1>1. IInv => TypeOK
  BY DEF IInv
<1> QED BY <1>1, Invariance, PTL

\* Driver::advance_to_target builds every block on the one before it: whatever was evicted,
\* tip() finds the L2 block built last.
THEOREM BuildsOnLastBuilt == Spec => []TipIsLastBuilt
<1>1. IInv => TipIsLastBuilt
  BY TipIsAtOrigin DEF IInv, TipIsLastBuilt, tip
<1> QED BY <1>1, Invariance, PTL

\* The attributes that are executed were derived for the current tip, after any number of
\* temporary errors, resets and failed executions (produce_payload, AttributesQueue).
THEOREM ExecutesOnTip == Spec => []PayloadOnTip
<1>1. IInv => PayloadOnTip
  BY DEF IInv
<1> QED BY <1>1, Invariance, PTL

\* PipelineCursor::reset finds an entry to go back to for every fork of the last three L1
\* blocks that is a channel timeout past the start, for every channel timeout.
THEOREM ResetHasAnchor == Spec => []ReorgAnchored
  BY AnchorsLeft, Invariance, PTL
=============================================================================
