----------------------------- MODULE MCBlockTree -----------------------------
(***************************************************************************)
(* A fork above the first block, a fork at genesis, and four blocks that    *)
(* must be refused.  Genesis has no balances, so transactions move nothing, but *)
(* they touch balances and advance nonces.                                 *)
(***************************************************************************)
EXTENDS BlockTree

Tx(hash, sender, sequence, fee) ==
    [hash |-> hash, kind |-> "Transfer", sender |-> sender, receiver |-> 2,
     amount |-> 0, sequence |-> sequence, fee |-> fee, signed |-> TRUE]

T1 == Tx(1, 1, 0, 1)
T2 == Tx(2, 1, 0, 2)
T3 == Tx(3, 2, 0, 1)
T4 == Tx(4, 1, 1, 3)

MCTransactions == {T1, T2, T3, T4}

\* The root after touching the given accounts.
Root(accounts) == [a \in accounts |-> 0]

Block(height, slot, previous_hash, txs, accounts) ==
    [height |-> height, slot |-> slot, previous_hash |-> previous_hash,
     validator |-> 1, signed |-> TRUE, transactions |-> txs,
     slash_proofs |-> <<>>, state_root |-> Root(accounts)]

MCBlockOf ==
    << [Block(0, 0, 0, <<>>, {}) EXCEPT !.signed = FALSE],
       Block(1, 1, 1, <<T3>>, {2}),
       Block(2, 2, 2, <<T1>>, {1, 2}),
       Block(2, 2, 2, <<T2>>, {1, 2}),
       Block(3, 3, 3, <<T4>>, {1, 2}),
       Block(3, 4, 4, <<>>, {1, 2}),
       Block(4, 5, 6, <<T4>>, {1, 2}),
       Block(1, 2, 1, <<T1>>, {1, 2}),      \* a fork at genesis
       Block(4, 3, 3, <<>>, {1, 2}),        \* wrong height
       Block(3, 2, 3, <<>>, {1, 2}),        \* slot not later
       Block(3, 3, 3, <<T2>>, {1, 2}),      \* a second transaction 0 of account 1
       Block(3, 3, 4, <<T4>>, {1}) >>       \* wrong root

MCHash == DOMAIN MCBlockOf
=============================================================================
