---------------------------- MODULE PipelineCursor ----------------------------
(***************************************************************************)
(* PipelineCursor (protocol/driver/src/cursor.rs): the L2 safe heads the   *)
(* driver has reached, cached by the L1 origin the pipeline had then.      *)
(*                                                                         *)
(* A cursor is a record [origin, origins, origin_infos, tips].  L1 blocks  *)
(* are their numbers, so origin_infos is the set of its keys; a tip is a   *)
(* record [number, root] of an L2 block and its output root.               *)
(***************************************************************************)
EXTENDS Integers, Sequences, FiniteSets, Functions

CONSTANT ChannelTimeout    \* cfg.channel_timeout

ASSUME ChannelTimeoutAssumption == ChannelTimeout \in Nat

\* Mutant: a smaller cache.
CapacitySmall == ChannelTimeout + 2

\* The entries at which advance starts to evict old ones.
Capacity == ChannelTimeout + 5

\* PipelineCursor::new.
NewCursor(origin) ==
    [origin |-> origin, origins |-> <<origin>>, origin_infos |-> {origin}, tips |-> <<>>]

\* The largest of the keys S.
LastKey(S) == CHOOSE k \in S : \A j \in S : j <= k

\* PipelineCursor::tip: the entry with the largest key.
Tip(c) == c.tips[LastKey(DOMAIN c.tips)]

\* The cursor when advance has made room: the oldest origin is popped, and with it its tip
\* if it still has one.
Evicted(c) ==
    IF Cardinality(DOMAIN c.tips) >= Capacity
    THEN [c EXCEPT !.origins = Tail(@), !.tips = Restrict(@, DOMAIN @ \ {Head(c.origins)})]
    ELSE c

\* Mutant: an origin keeps its first tip.
AdvanceKeepsFirst(c, origin, tip) ==
    LET e == Evicted(c)
    IN  [origin |-> origin,
         origins |-> Append(e.origins, origin),
         origin_infos |-> e.origin_infos \cup {origin},
         tips |-> [k \in DOMAIN e.tips \cup {origin} |-> IF k \in DOMAIN e.tips THEN e.tips[k] ELSE tip]]

\* PipelineCursor::advance.
Advance(c, origin, tip) ==
    LET e == Evicted(c)
    IN  [origin |-> origin,
         origins |-> Append(e.origins, origin),
         origin_infos |-> e.origin_infos \cup {origin},
         tips |-> [k \in DOMAIN e.tips \cup {origin} |-> IF k = origin THEN tip ELSE e.tips[k]]]

\* The L1 block PipelineCursor::reset goes back to when L1 is reorganised at fork, or none,
\* where the code panics.
ResetAnchors(c, fork) == {k \in DOMAIN c.tips : k <= fork - ChannelTimeout}
=============================================================================
