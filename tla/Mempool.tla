------------------------------ MODULE Mempool -------------------------------
(***************************************************************************)
(* rp-node/src/mempool.rs: the ordered set of unconfirmed transactions.    *)
(* A pool is a set of transactions; the order of the BTreeSet, which is    *)
(* Ord for Transaction, only matters for which element is the last.        *)
(***************************************************************************)
EXTENDS Integers, FiniteSets

CONSTANT MempoolSize    \* max_size, 10000 in Blockchain::new

ASSUME MempoolSizeAssumption == MempoolSize \in Nat \ {0}

\* Ord for Transaction: higher fee first, then the lower hash.
Precedes(tx, other) ==
    \/ tx.fee > other.fee
    \/ tx.fee = other.fee /\ tx.hash < other.hash

\* The element iter().last() yields.
Lowest(pool) == CHOOSE tx \in pool : \A other \in pool \ {tx} : Precedes(other, tx)

\* Mempool::add_transaction and what it answers.
AddToMempool(pool, tx) ==
    IF tx \in pool THEN [answer |-> "known", pool |-> pool]
    ELSE IF Cardinality(pool) < MempoolSize
         THEN [answer |-> "added", pool |-> pool \cup {tx}]
    ELSE IF tx.fee > Lowest(pool).fee
         THEN [answer |-> "added", pool |-> (pool \ {Lowest(pool)}) \cup {tx}]
    ELSE [answer |-> "fee too low", pool |-> pool]

\* Mutant of RemoveFromMempool that keeps what a block confirmed.
KeepConfirmed(pool, txs) == pool

\* Mempool::remove_transaction for each of txs: everything with such a hash.
RemoveFromMempool(pool, txs) ==
    {tx \in pool : \A removed \in txs : removed.hash # tx.hash}
=============================================================================
