---------------------------- MODULE MCNodeStorage ----------------------------
(* Branches of different length above the first block, a fork at genesis and a bad block. *)
EXTENDS NodeStorage

Tx(hash, sender, sequence) ==
    [hash |-> hash, kind |-> "Transfer", sender |-> sender, receiver |-> 2,
     amount |-> 0, sequence |-> sequence, fee |-> 1, signed |-> TRUE]

Block(height, slot, previous_hash, txs, accounts) ==
    [height |-> height, slot |-> slot, previous_hash |-> previous_hash,
     validator |-> 1, signed |-> TRUE, transactions |-> txs,
     slash_proofs |-> <<>>, state_root |-> [a \in accounts |-> 0]]

MCBlockOf ==
    << [Block(0, 0, 0, <<>>, {}) EXCEPT !.signed = FALSE],
       Block(1, 1, 1, <<Tx(3, 2, 0)>>, {2}),
       Block(2, 2, 2, <<Tx(1, 1, 0)>>, {1, 2}),
       Block(2, 3, 2, <<>>, {2}),
       Block(3, 4, 3, <<Tx(4, 1, 1)>>, {1, 2}),
       Block(1, 2, 1, <<Tx(1, 1, 0)>>, {1, 2}),
       Block(3, 4, 3, <<>>, {1}) >>         \* wrong root

MCHash == DOMAIN MCBlockOf
MCResponses == {<<1>>, <<2, 4>>, <<3, 5>>}
=============================================================================
