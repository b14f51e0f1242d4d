---------------------------- MODULE LedgerImport ----------------------------
(***************************************************************************)
(* validate_and_apply_block of rp-core/src/blockchain.rs as the loop it    *)
(* is, run for one candidate block after another on a chain that only      *)
(* grows.  The function works on a clone of the parent state and returns   *)
(* either that clone or an error, so nothing can observe the steps between *)
(* its start and its return; taking them one by one lets the properties    *)
(* speak of every transaction in every position of every block.            *)
(***************************************************************************)
EXTENDS Ledger

CONSTANTS
    Account,            \* public keys that send, receive and validate
    Transactions,       \* transactions that blocks may carry
    SlashProofs,        \* slash proofs that blocks may carry
    StartState,         \* the state of the block the chain starts from
    MaxBlockTxs,        \* bound on the transactions of one block
    MaxBlockProofs,     \* bound on the slash proofs of one block
    MaxSlot,            \* bound on slots
    MaxApplied          \* bound on the transactions of the whole chain

VARIABLES
    parent,             \* height and slot of the last accepted block
    state,              \* the state after it
    block,              \* the block being validated
    next_state,         \* the clone of state the block is applied to
    pos,                \* transactions, then slash proofs, already applied
    verdict,            \* what the last call returned, or "running"
    applied,            \* history: the transactions that led to state
    next_applied        \* history: the transactions that led to next_state

vars == <<parent, state, block, next_state, pos, verdict, applied, next_applied>>

\* A map of the ledger with values in V, and the states made of such maps.
IsMap(map, V) == DOMAIN map \subseteq Account /\ map \in [DOMAIN map -> V]
UnstakeRequest == [amount : U64, unlock_slot : U64]
IsState(s) ==
    /\ s = [balances  |-> s.balances, nonces    |-> s.nonces,
            stakes    |-> s.stakes,   unstaking |-> s.unstaking]
    /\ IsMap(s.balances, U64)
    /\ IsMap(s.nonces, U64)
    /\ IsMap(s.stakes, U64)
    /\ IsMap(s.unstaking, Seq(UnstakeRequest))

\* A transaction in the history of a state.
Entry == [sender : Account, sequence : U64]

TxKinds == {"Transfer", "Stake", "Unstake", "Slash"}

ASSUME AccountAssumption == Account \subseteq Nat
ASSUME TransactionsAssumption ==
    \A tx \in Transactions : /\ tx.kind \in TxKinds
                             /\ tx.sender \in Account
                             /\ tx.kind = "Transfer" => tx.receiver \in Account
                             /\ tx.kind # "Slash" => tx.amount \in U64
                             /\ tx.sequence \in U64
ASSUME StartStateAssumption ==
    /\ IsState(StartState)
    /\ StartState.nonces = EmptyMap
ASSUME BoundsAssumption ==
    /\ MaxBlockTxs \in Nat
    /\ MaxBlockProofs \in Nat
    /\ MaxSlot \in U64
    /\ MaxApplied \in U64

\* A root no state of the chain has.
BadRoot == [k \in {-1} |-> 0]

\* What a forger may offer: any header around the parent's, any contents, and
\* either the root of the state they lead to or another one.
Headers ==
    [height : {parent.height, parent.height + 1}, slot : 0 .. MaxSlot,
     validator : Account, signed : BOOLEAN]

Bodies ==
    [transactions : UNION {[1 .. n -> Transactions] : n \in 0 .. MaxBlockTxs},
     slash_proofs : UNION {[1 .. n -> SlashProofs] : n \in 0 .. MaxBlockProofs}]

Forge(header, body, good_root) ==
    [height       |-> header.height,
     slot         |-> header.slot,
     validator    |-> header.validator,
     signed       |-> header.signed,
     transactions |-> body.transactions,
     slash_proofs |-> body.slash_proofs,
     state_root   |-> IF good_root
                      THEN StateRoot(ApplyContents(state,
                               [slot         |-> header.slot,
                                transactions |-> body.transactions,
                                slash_proofs |-> body.slash_proofs]).state)
                      ELSE BadRoot]

NoBlock == [transactions |-> <<>>, slash_proofs |-> <<>>]

Running == verdict = "running"

Init ==
    /\ parent = [height |-> 0, slot |-> 0]
    /\ state = StartState
    /\ block = NoBlock
    /\ next_state = StartState
    /\ pos = 0
    /\ verdict = "none"
    /\ applied = <<>>
    /\ next_applied = <<>>

\* Mutant of Fail for a call that works on the caller's state, not on a clone.
FailKeepsPartial(error) ==
    /\ verdict' = error
    /\ block' = NoBlock
    /\ state' = next_state
    /\ next_applied' = applied
    /\ pos' = 0
    /\ UNCHANGED <<parent, next_state, applied>>

\* The call returns an error: the clone is dropped, the chain stays.
Fail(error) ==
    /\ verdict' = error
    /\ block' = NoBlock
    /\ next_state' = state
    /\ next_applied' = applied
    /\ pos' = 0
    /\ UNCHANGED <<parent, state, applied>>

\* The call starts: the header passes and the parent state is cloned.
Begin(header) ==
    /\ ~ Running
    /\ HeaderValid(parent, state, header)
    /\ verdict' = "running"
    /\ \E body \in Bodies, good_root \in BOOLEAN :
        /\ Len(applied) + Len(body.transactions) <= MaxApplied
        /\ block' = Forge(header, body, good_root)
    /\ UNCHANGED <<parent, state, next_state, pos, applied, next_applied>>

\* The first check of the header that fails, in the order of the code.
HeaderError(b) ==
    IF ~ b.signed THEN "InvalidSignature"
    ELSE IF b.height # parent.height + 1 THEN "InvalidHeight"
    ELSE IF b.slot <= parent.slot THEN "InvalidSlot"
    ELSE "InvalidValidator"

RejectHeader(b) ==
    /\ ~ Running
    /\ ~ HeaderValid(parent, state, b)
    /\ Fail(HeaderError(b))

\* One transaction of the block.
NextTx == block.transactions[pos + 1]

ApplyNextTx ==
    /\ Running
    /\ pos < Len(block.transactions)
    /\ IsValidTx(next_state, NextTx)
    /\ next_state' = ApplyTx(next_state, NextTx, block.slot)
    /\ next_applied' = Append(next_applied,
                              [sender |-> NextTx.sender, sequence |-> NextTx.sequence])
    /\ pos' = pos + 1
    /\ UNCHANGED <<parent, state, block, verdict, applied>>

RejectNextTx ==
    /\ Running
    /\ pos < Len(block.transactions)
    /\ ~ IsValidTx(next_state, NextTx)
    /\ Fail("InvalidTransaction")

\* One slash proof of the block, once its transactions are through.
ProofsLeft ==
    /\ pos >= Len(block.transactions)
    /\ pos < Len(block.transactions) + Len(block.slash_proofs)

NextProof == block.slash_proofs[pos + 1 - Len(block.transactions)]

ApplyNextProof ==
    /\ Running
    /\ ProofsLeft
    /\ SlashProofValid(NextProof)
    /\ next_state' = ApplySlash(next_state, NextProof)
    /\ pos' = pos + 1
    /\ UNCHANGED <<parent, state, block, verdict, applied, next_applied>>

RejectNextProof ==
    /\ Running
    /\ ProofsLeft
    /\ ~ SlashProofValid(NextProof)
    /\ Fail("InvalidSlashProof")

\* The root is compared last; the caller then goes on from the new state.
Done ==
    /\ Running
    /\ pos >= Len(block.transactions) + Len(block.slash_proofs)

Accept ==
    /\ Done
    /\ block.state_root = StateRoot(next_state)
    /\ verdict' = "Ok"
    /\ parent' = [height |-> block.height, slot |-> block.slot]
    /\ state' = next_state
    /\ applied' = next_applied
    /\ block' = NoBlock
    /\ pos' = 0
    /\ UNCHANGED <<next_state, next_applied>>

RejectRoot ==
    /\ Done
    /\ block.state_root # StateRoot(next_state)
    /\ Fail("InvalidStateRoot")

Next ==
    \/ \E header \in Headers : Begin(header) \/ RejectHeader(header)
    \/ ApplyNextTx
    \/ RejectNextTx
    \/ ApplyNextProof
    \/ RejectNextProof
    \/ Accept
    \/ RejectRoot

Spec == Init /\ [][Next]_vars

-----------------------------------------------------------------------------
(* Properties *)

\* Every map of both states holds u64 values for known accounts, and the
\* position stays within the block that is being applied.
TypeOK ==
    /\ parent \in [height : Nat, slot : Nat]
    /\ IsState(state)
    /\ IsState(next_state)
    /\ applied \in Seq(Entry)
    /\ next_applied \in Seq(Entry)
    /\ pos \in 0 .. Len(block.transactions) + Len(block.slash_proofs)

\* Replay protection (the sequence number of models/transaction.rs:16): no
\* transaction of a sender is applied twice, in one block or along the chain,
\* whatever is offered again by whom.
NoReplay ==
    \A i, j \in DOMAIN next_applied :
        next_applied[i] = next_applied[j] => i = j

\* The transactions of an account among the first n of a history.
Sent(history, k, n) == {i \in DOMAIN history \cap 1 .. n : history[i].sender = k}

\* A history without a gap that led to a state: each transaction carries the number
\* of its sender's before it, and the state expects the number of all of them.
Unbroken(s, history) ==
    /\ \A i \in DOMAIN history :
            history[i].sequence = Cardinality(Sent(history, history[i].sender, i - 1))
    /\ \A k \in Account :
            Get(s.nonces, k) = Cardinality(Sent(history, k, Len(history)))

\* The chain holds the transactions of each sender without a gap, in the order of
\* their sequence numbers, and the accepted state expects the next one: whatever
\* failed in between, at a transaction, a proof or its root, has left nothing
\* behind (the clone of blockchain.rs:25), and nothing accepted is forgotten.
SequencesUnbroken == Unbroken(state, applied)

\* What an account owns, wherever it is.
Funds(s, k) ==
    Get(s.balances, k) + Get(s.stakes, k)
      + FoldLeft(LAMBDA n, r : n + r.amount, 0, Requests(s, k))

\* What the transfers of a block bring an account, less what they take from it.
Net(b, k) ==
    LET Credit(tx) == IF tx.kind = "Transfer" /\ tx.receiver = k THEN tx.amount ELSE 0
        Debit(tx)  == IF tx.kind = "Transfer" /\ tx.sender = k THEN tx.amount ELSE 0
    IN  FoldLeft(LAMBDA n, tx : n + Credit(tx) - Debit(tx), 0, b.transactions)

\* The validators a block slashes.
Slashed(b) ==
    {b.slash_proofs[i].validator : i \in DOMAIN b.slash_proofs}
      \cup {tx.proof.validator : tx \in {t \in Range(b.transactions) : t.kind = "Slash"}}

\* The accepted state changes by an accepted block only, and what an account owns
\* changes by exactly its transfers in that block: staking, unstaking, a transfer to
\* oneself, two withdrawals of the same funds or a sum at the limit of a u64 neither
\* mint nor burn nor move another's funds.  Only the validators that the block
\* slashes may lose more.
FundsFollowTransfers ==
    [][/\ verdict' = "Ok"
       /\ \A k \in Account :
            LET expected == Funds(state, k) + Net(block, k)
            IN  IF k \in Slashed(block) THEN Funds(state', k) <= expected
                ELSE Funds(state', k) = expected]_state

\* A slash proof of an accepted block leaves its validator neither stake nor
\* funds in unbonding, even when the same block stakes or unstakes for them.
SlashIsTotal ==
    [][verdict' = "Ok" /\ Running =>
        \A i \in DOMAIN block.slash_proofs :
            LET v == block.slash_proofs[i].validator
            IN  v \notin DOMAIN state'.stakes \cup DOMAIN state'.unstaking]_vars

\* Validator selection is proportional: of any run of as many heights as there
\* is stake, every validator is expected for exactly as many as it staked.
SelectionProportional ==
    LET total == StakeOf(state, DOMAIN state.stakes)
    IN  total > 0 =>
        \A k \in DOMAIN state.stakes :
            Cardinality({h \in parent.height + 1 .. parent.height + total :
                            ExpectedValidator(state, h) = k}) = state.stakes[k]
=============================================================================
