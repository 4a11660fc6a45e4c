------------------------------ MODULE MCStages ------------------------------
EXTENDS Stages

\* Blocks 1 and 2 are one block time apart, the others two.
MCL1Timestamp == [n \in 0..MaxL1 |-> IF n < 2 THEN 2 * n ELSE 2 * n - 1]

Block(n, e) == [number |-> n, timestamp |-> n + 2, epoch |-> e]
MCSafe == {<<Block(0, 0), Block(1, 1)>>, <<Block(0, 0), Block(1, 0), Block(2, 1)>>}

F(id, n, last, size) == [id |-> id, number |-> n, is_last |-> last, size |-> size]
MCFrameLists == {<<>>, <<F("a", 0, FALSE, 1)>>, <<F("a", 1, TRUE, 1)>>, <<F("b", 1, TRUE, 2)>>,
                 <<F("a", 0, FALSE, 1), F("a", 0, FALSE, 1), F("b", 0, TRUE, 1)>>}

Single(p, e, h, txs) ==
  [parent_hash |-> p, epoch_num |-> e, epoch_hash |-> h, timestamp |-> p + 3, txs |-> txs]
MCSingles == {Single(1, 1, 1, "some"), Single(1, 2, 2, "none"), Single(2, 1, 1, "none"),
              Single(2, 2, 3, "none"), Single(2, 2, 2, "invalid")}

\* a span on the L2 block p, with these epochs
Span(p, epochs, txs) ==
  [parent_check |-> p, l1_origin_check |-> epochs[Len(epochs)],
   batches |-> [i \in DOMAIN epochs |-> [epoch_num |-> epochs[i], timestamp |-> p + 2 + i, txs |-> txs]]]
MCSpans == {Span(1, <<1, 2>>, "some"), Span(1, <<1, 1, 1>>, "none"), Span(0, <<0, 1, 1>>, "none"),
            Span(0, <<0, 0, 0>>, "some"), Span(0, <<1, 2>>, "none"), Span(2, <<1, 2, 3>>, "none")}
=============================================================================
