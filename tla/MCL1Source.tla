------------------------------ MODULE MCL1Source ------------------------------
(* Instance of L1Source for TLC. *)
EXTENDS L1Source

\* Batcher addresses of two bytes, in words of three.
a1 == <<1, 2>>
a2 == <<3, 4>>
MCBatchers == {a1, a2}

Tx(inbox, from, frames) == [inbox |-> inbox, from |-> from, frames |-> frames]

\* An empty block, blocks with data of one and of both batchers (several frames, data that
\* do not parse, a transaction to another address), and an update of the batcher.
MCL1Blocks ==
    {[txs |-> <<>>, update |-> NoUpdate],
     [txs |-> <<Tx(TRUE, a1, 2), Tx(TRUE, a2, 1)>>, update |-> NoUpdate],
     [txs |-> <<Tx(TRUE, a2, 0), Tx(FALSE, a1, 1), Tx(TRUE, a1, 1)>>, update |-> a1],
     [txs |-> <<Tx(TRUE, a2, 2), Tx(TRUE, a2, 1)>>, update |-> a2]}
=============================================================================
