------------------------------ MODULE BlockTree ------------------------------
(***************************************************************************)
(* A Blockchain used as the node engine uses it: blocks are added on top   *)
(* of the head's state or of the state stored for their parent, every      *)
(* added block's state is stored, transactions come in, and the node may   *)
(* at any time be set back to a stored block.                              *)
(***************************************************************************)
EXTENDS Blockchain

CONSTANT Transactions   \* transactions that may be submitted

VARIABLES
    bc,                 \* the Blockchain
    snapshots           \* the states its caller has stored, by block hash

vars == <<bc, snapshots>>

Init == bc = NewBlockchain /\ snapshots = EmptyMap

\* The engine hands add_block the head's state or a stored one.
ParentState(h) ==
    IF Parent(h) = bc.head_hash THEN bc.state ELSE snapshots[Parent(h)]

ImportBlock(h) ==
    /\ Parent(h) \in DOMAIN snapshots \cup {bc.head_hash}
    /\ LET added == AddBlock(bc, h, ParentState(h))
       IN  /\ bc' = added.bc
           /\ snapshots' = IF added.ok THEN Put(snapshots, h, added.next_state)
                           ELSE snapshots

SubmitTransaction(tx) ==
    /\ bc' = AddTransaction(bc, tx).bc
    /\ UNCHANGED snapshots

\* A stored block and state whose roots agree become the new and only block.
Restore(h) ==
    /\ h \in DOMAIN snapshots
    /\ BlockOf[h].state_root = StateRoot(snapshots[h])
    /\ bc' = RestoreHead(h, snapshots[h])
    /\ UNCHANGED snapshots

Next ==
    \/ \E h \in Hash : ImportBlock(h) \/ Restore(h)
    \/ \E tx \in Transactions : SubmitTransaction(tx)

Spec == Init /\ [][Next]_vars

-----------------------------------------------------------------------------
(* Properties *)

Known == DOMAIN bc.chain

\* The state a block leads to, as far as it is stored.
StateAfter(h) == IF h = Genesis THEN NewState ELSE snapshots[h]

\* The blockchain has its fields, and knows and stores existing blocks only.
TypeOK ==
    /\ bc = [chain |-> bc.chain, head_hash |-> bc.head_hash,
             state |-> bc.state, mempool   |-> bc.mempool]
    /\ bc.chain \in [Known -> Seq(Hash)]
    /\ Known \subseteq Hash
    /\ bc.head_hash \in Known
    /\ DOMAIN snapshots \subseteq Hash \ {Genesis}

\* Fork choice: whatever order the blocks came in, the head is the one block
\* above all other known ones by height, slot and hash.
HeadIsBest == \A h \in Known \ {bc.head_hash} : Above(bc.head_hash, h)

\* The known blocks are one tree: all but its lowest, the root, have a known
\* parent one height below and in an earlier slot, and a block is in the children list of its
\* parent, once, exactly when it is known.  The walks of get_blocks and
\* earliest_contiguous_height rely on it.
OneTree ==
    /\ \E root \in Known : \A h \in Known \ {root} :
            /\ Parent(h) \in Known
            /\ BlockOf[h].height > BlockOf[root].height
            /\ BlockOf[h].height = BlockOf[Parent(h)].height + 1
            /\ BlockOf[h].slot > BlockOf[Parent(h)].slot
    /\ \A g \in Known :
            /\ {bc.chain[g][i] : i \in DOMAIN bc.chain[g]}
                    = {h \in Known : Parent(h) = g}
            /\ \A i, j \in DOMAIN bc.chain[g] :
                    bc.chain[g][i] = bc.chain[g][j] => i = j

\* The state is the head's: the state at the head is what the rules make of
\* its parent's state, and so on down to genesis, across forks, repeated
\* imports and restores; the state of every known block is stored.
StateIsReplay ==
    /\ Known \subseteq DOMAIN snapshots \cup {Genesis}
    /\ bc.state = StateAfter(bc.head_hash)
    /\ \A h \in DOMAIN snapshots :
        /\ Parent(h) \in DOMAIN snapshots \cup {Genesis}
        /\ LET rules == ValidateAndApply(BlockOf[Parent(h)], StateAfter(Parent(h)),
                                         BlockOf[h])
           IN  rules.ok /\ rules.state = snapshots[h]

\* What get_blocks serves is a piece of the head's chain: consecutive heights
\* from the requested one up to the requested or the latest, each block the
\* parent of the next.
ServedBlocksLinked ==
    \A from, to \in 0 .. LatestHeight(bc) + 1 :
        LET served == GetBlocks(bc, from, to)
            last   == IF to < LatestHeight(bc) THEN to ELSE LatestHeight(bc)
        IN  IF from \in EarliestContiguousHeight(bc) .. last
            THEN /\ Len(served) = last - from + 1
                 /\ \A i \in DOMAIN served : BlockOf[served[i]].height = from + i - 1
                 /\ \A i \in 1 .. Len(served) - 1 : Parent(served[i + 1]) = served[i]
                 /\ last = LatestHeight(bc) => served[Len(served)] = bc.head_hash
            ELSE served = <<>>

\* The mempool keeps within its size and holds no transaction of the head.
MempoolExcludesHead ==
    /\ Cardinality(bc.mempool) <= MempoolSize
    /\ bc.mempool \cap TxsOf(bc.head_hash) = {}
=============================================================================
