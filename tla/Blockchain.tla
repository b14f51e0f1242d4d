----------------------------- MODULE Blockchain -----------------------------
(***************************************************************************)
(* rp-node/src/blockchain.rs: the tree of known blocks, its head, the      *)
(* state at the head and the mempool.  The struct is a record, each method *)
(* an operator on it, so that the node engine can call several of them in  *)
(* one step.  BlockTree runs them as a state machine.                      *)
(***************************************************************************)
EXTENDS Ledger, Mempool

CONSTANTS
    Hash,               \* hashes of the blocks there are
    BlockOf,            \* the block with a given hash
    Genesis,            \* the hash of the genesis block
    ZeroHash            \* [0u8; 32], the genesis block's previous_hash

ASSUME HashAssumption ==
    /\ Hash \subseteq Nat
    /\ Genesis \in Hash
    /\ ZeroHash \in Nat \ Hash
ASSUME BlockAssumption ==
    \A h \in Hash : /\ BlockOf[h].height \in Nat
                    /\ BlockOf[h].slot \in Nat
                    /\ BlockOf[h].previous_hash \in Hash \cup {ZeroHash}
ASSUME GenesisAssumption ==
    /\ BlockOf[Genesis].height = 0
    /\ BlockOf[Genesis].slot = 0
    /\ BlockOf[Genesis].previous_hash = ZeroHash
    /\ ~ BlockOf[Genesis].signed

Parent(h) == BlockOf[h].previous_hash

\* The transactions of a block.
TxsOf(h) == {BlockOf[h].transactions[i] : i \in DOMAIN BlockOf[h].transactions}

\* should_replace_head between two known blocks.
Above(h, g) == ShouldReplaceHead(h, BlockOf[h], g, BlockOf[g])

-----------------------------------------------------------------------------
(* The methods.  chain maps the hash of a known block to its children. *)

\* Mutant of RestoreHead that starts from the empty state.
RestoreWithoutState(h, s) ==
    [chain |-> [g \in {h} |-> <<>>], head_hash |-> h, state |-> NewState, mempool |-> {}]

\* Blockchain::restore_head
RestoreHead(h, s) ==
    [chain |-> [g \in {h} |-> <<>>], head_hash |-> h, state |-> s, mempool |-> {}]

\* Blockchain::new
NewBlockchain == RestoreHead(Genesis, NewState)

\* Mutant of Linked that lists a child again when it is imported again.
LinkedAgain(chain, h) ==
    LET Children(g) == IF g \in DOMAIN chain THEN chain[g] ELSE <<>>
    IN  [g \in DOMAIN chain \cup {h} |->
            IF g = Parent(h) THEN Append(Children(g), h) ELSE Children(g)]

\* The children lists and nodes once h is linked below its parent.
Linked(chain, h) ==
    LET Children(g) == IF g \in DOMAIN chain THEN chain[g] ELSE <<>>
    IN  [g \in DOMAIN chain \cup {h} |->
            IF g = Parent(h) /\ ~ Contains(Children(g), h)
            THEN Append(Children(g), h) ELSE Children(g)]

\* Mutant of Added that installs the state of a block which is not the head.
ForkStateLeaks(bc, h, s) ==
    LET became_head == Above(h, bc.head_hash)
    IN  [ok |-> TRUE, became_head |-> became_head, next_state |-> s,
         bc |-> [bc EXCEPT !.chain = Linked(@, h), !.state = s,
                           !.head_hash = IF became_head THEN h ELSE @]]

\* add_block with a block that passed, whose state is s: it is linked, and may
\* be the new head.
Added(bc, h, s) ==
    LET became_head == Above(h, bc.head_hash)
    IN  [ok |-> TRUE, became_head |-> became_head, next_state |-> s,
         bc |-> [chain     |-> Linked(bc.chain, h),
                 head_hash |-> IF became_head THEN h ELSE bc.head_hash,
                 state     |-> IF became_head THEN s ELSE bc.state,
                 mempool   |-> IF became_head
                               THEN RemoveFromMempool(bc.mempool, TxsOf(h))
                               ELSE bc.mempool]]

\* add_block with a block that did not pass.
Refused(bc, parent_state) ==
    [ok |-> FALSE, became_head |-> FALSE, next_state |-> parent_state, bc |-> bc]

Judged(bc, h, parent_state, rules) ==
    IF rules.ok THEN Added(bc, h, rules.state) ELSE Refused(bc, parent_state)

\* Blockchain::add_block with the given parent state: whether it succeeds,
\* the blockchain after it, the block's state and whether it is the new head.
AddBlock(bc, h, parent_state) ==
    IF Parent(h) \in DOMAIN bc.chain
    THEN Judged(bc, h, parent_state,
                ValidateAndApply(BlockOf[Parent(h)], parent_state, BlockOf[h]))
    ELSE Refused(bc, parent_state)

\* Blockchain::add_transaction
AddTransaction(bc, tx) ==
    IF IsValidTx(bc.state, tx)
    THEN LET added == AddToMempool(bc.mempool, tx)
         IN  [answer |-> added.answer, bc |-> [bc EXCEPT !.mempool = added.pool]]
    ELSE [answer |-> "invalid", bc |-> bc]

\* The walk of earliest_contiguous_height stops here.
IsBottom(bc, h) == BlockOf[h].height = 0 \/ Parent(h) \notin DOMAIN bc.chain

\* Blockchain::earliest_contiguous_height
EarliestContiguousHeight(bc) ==
    LET down[h \in DOMAIN bc.chain] ==
            IF IsBottom(bc, h) THEN BlockOf[h].height ELSE down[Parent(h)]
    IN  down[bc.head_hash]

LatestHeight(bc) == BlockOf[bc.head_hash].height

\* Mutant of GetBlocks whose walk stops one block above the bottom.
WalkStopsEarly(bc, from, to) ==
    LET earliest == EarliestContiguousHeight(bc)
        walk[h \in DOMAIN bc.chain] ==
            (IF BlockOf[h].height \in {earliest, earliest + 1} THEN <<>> ELSE walk[Parent(h)])
            \o (IF BlockOf[h].height \in from .. to THEN <<h>> ELSE <<>>)
    IN  IF from > to \/ from < earliest \/ from > LatestHeight(bc) THEN <<>>
        ELSE walk[bc.head_hash]

\* Blockchain::get_blocks, as hashes in ascending order.
GetBlocks(bc, from, to) ==
    LET earliest == EarliestContiguousHeight(bc)
        walk[h \in DOMAIN bc.chain] ==
            (IF BlockOf[h].height \in {earliest, 0} THEN <<>> ELSE walk[Parent(h)])
            \o (IF BlockOf[h].height \in from .. to THEN <<h>> ELSE <<>>)
    IN  IF from > to \/ from < earliest \/ from > LatestHeight(bc) THEN <<>>
        ELSE walk[bc.head_hash]
=============================================================================
