------------------------------- MODULE Ledger -------------------------------
(***************************************************************************)
(* The ledger rules of rp-core: what a State is, when a transaction or a   *)
(* slash proof is valid, what applying one does, who may forge a block,    *)
(* when a block is accepted on top of its parent and when it replaces the  *)
(* head.  Everything here is a pure operator; LedgerImport runs the rules  *)
(* as a state machine and Blockchain builds the block tree on them.        *)
(*                                                                         *)
(* A BTreeMap is a function on the keys it holds.  Public keys and hashes  *)
(* are integers, because the code compares their bytes.  A block or a      *)
(* transaction carries "signed" in place of its signature: whether the     *)
(* signature is there and verifies.                                        *)
(***************************************************************************)
EXTENDS Integers, Sequences, SequencesExt, Maps

CONSTANTS
    MaxU64,             \* the largest value of a u64
    ValidKeys,          \* the stored key bytes that decode to a public key
    UnlockDelay         \* UNSTAKE_LOCK_EPOCHS * EPOCH_LENGTH

ASSUME MaxU64Assumption == MaxU64 \in Nat
ASSUME ValidKeysAssumption == ValidKeys \subseteq Int
ASSUME UnlockDelayAssumption == UnlockDelay \in Nat

U64 == 0 .. MaxU64

\* u64 arithmetic of an optimised build, which wraps around.
Wrap(n) == n % (MaxU64 + 1)

-----------------------------------------------------------------------------
(* Maps *)

\* map.get(key).unwrap_or(&0)
Get(map, key) == IF key \in DOMAIN map THEN map[key] ELSE 0

\* *map.entry(key).or_insert(0) += n, and -= n with a negative n
Add(map, key, n) == Put(map, key, Wrap(Get(map, key) + n))

-----------------------------------------------------------------------------
(* State *)

\* State::new()
NewState == [balances  |-> EmptyMap, nonces    |-> EmptyMap,
             stakes    |-> EmptyMap, unstaking |-> EmptyMap]

\* SlashProof::validate: two different signed blocks of one validator in one
\* slot.  The proof's blocks are kept as far as the check reads them.
SlashProofValid(proof) ==
    /\ proof.a.slot = proof.b.slot
    /\ proof.a.hash # proof.b.hash
    /\ proof.a.validator = proof.validator
    /\ proof.b.validator = proof.validator
    /\ proof.a.signed
    /\ proof.b.signed

\* Mutant of ApplySlash that spares the funds in unbonding.
SlashSparesUnbonding(s, proof) == [s EXCEPT !.stakes = Drop(@, proof.validator)]

\* State::apply_slash, for a proof that validates.
ApplySlash(s, proof) ==
    [s EXCEPT !.stakes    = Drop(@, proof.validator),
              !.unstaking = Drop(@, proof.validator)]

\* Mutant of IsValidTx that does not compare the sequence number.
ValidAtAnySequence(s, tx) ==
    /\ CASE tx.kind \in {"Transfer", "Stake"} ->
                Get(s.balances, tx.sender) >= tx.amount
         [] tx.kind = "Unstake" -> Get(s.stakes, tx.sender) >= tx.amount
         [] tx.kind = "Slash"   -> SlashProofValid(tx.proof)
    /\ tx.signed

\* State::is_valid_tx.  The fee takes no part in it.
IsValidTx(s, tx) ==
    /\ CASE tx.kind \in {"Transfer", "Stake"} ->
                Get(s.balances, tx.sender) >= tx.amount
         [] tx.kind = "Unstake" -> Get(s.stakes, tx.sender) >= tx.amount
         [] tx.kind = "Slash"   -> SlashProofValid(tx.proof)
    /\ tx.sequence = Get(s.nonces, tx.sender)
    /\ tx.signed

\* The requests an account has in the unstaking map.
Requests(s, account) ==
    IF account \in DOMAIN s.unstaking THEN s.unstaking[account] ELSE <<>>

\* Mutant of ApplyTxData: a transfer that reads both balances before it writes.
TransferReadsFirst(s, tx, slot) ==
    IF tx.kind = "Transfer"
    THEN [s EXCEPT !.balances =
            Put(Put(@, tx.sender, Wrap(Get(@, tx.sender) - tx.amount)),
                tx.receiver, Wrap(Get(@, tx.receiver) + tx.amount))]
    ELSE s

\* What each kind of transaction does to everything but the nonce.
ApplyTxData(s, tx, slot) ==
    CASE tx.kind = "Transfer" ->
            [s EXCEPT !.balances =
                Add(Add(@, tx.sender, -tx.amount), tx.receiver, tx.amount)]
      [] tx.kind = "Stake" ->
            [s EXCEPT !.balances = Add(@, tx.sender, -tx.amount),
                      !.stakes   = Add(@, tx.sender, tx.amount)]
      [] tx.kind = "Unstake" ->
            [s EXCEPT !.stakes    = Add(@, tx.sender, -tx.amount),
                      !.unstaking = Put(@, tx.sender,
                          Append(Requests(s, tx.sender),
                                 [amount      |-> tx.amount,
                                  unlock_slot |-> Wrap(slot + UnlockDelay)]))]
      [] tx.kind = "Slash" ->
            IF SlashProofValid(tx.proof) THEN ApplySlash(s, tx.proof) ELSE s

\* State::apply_tx
ApplyTx(s, tx, slot) ==
    [ApplyTxData(s, tx, slot) EXCEPT !.nonces = Add(@, tx.sender, 1)]

-----------------------------------------------------------------------------
(* Validator selection *)

StakeOf(s, keys) == MapThenSumSet(LAMBDA k : s.stakes[k], keys)

NoValidator == -1

\* Mutant of ExpectedValidator: a ticket equal to the cumulative stake wins.
InclusiveTicket(s, height) ==
    LET keys  == DOMAIN s.stakes \cap ValidKeys
        total == Wrap(StakeOf(s, keys))
        Cumulative(k) == Wrap(StakeOf(s, {j \in keys : j <= k}))
        winners == {k \in keys : height % total <= Cumulative(k)}
    IN  IF total = 0 \/ winners = {} THEN NoValidator ELSE Min(winners)

\* State::get_expected_validator: the first key, in byte order, whose
\* cumulative stake exceeds the ticket height % total.
ExpectedValidator(s, height) ==
    LET keys  == DOMAIN s.stakes \cap ValidKeys
        total == Wrap(StakeOf(s, keys))
        Cumulative(k) == Wrap(StakeOf(s, {j \in keys : j <= k}))
        winners == {k \in keys : height % total < Cumulative(k)}
    IN  IF total = 0 \/ winners = {} THEN NoValidator ELSE Min(winners)

-----------------------------------------------------------------------------
(* Blocks *)

\* State::compute_state_root.  The Merkle root over the sorted balances is a
\* collision-free image of the balances, so they stand for it; the nonces,
\* stakes and unstaking requests are not hashed.
StateRoot(s) == s.balances

\* The checks of validate_and_apply_block before the first transaction.
HeaderValid(parent, s, block) ==
    /\ block.signed
    /\ block.height = parent.height + 1
    /\ block.slot > parent.slot
    /\ ExpectedValidator(s, block.height) \in {NoValidator, block.validator}

\* One iteration over block.transactions and over block.slash_proofs.
TxStep(acc, tx, slot) ==
    IF acc.ok /\ IsValidTx(acc.state, tx)
    THEN [ok |-> TRUE, state |-> ApplyTx(acc.state, tx, slot)]
    ELSE [ok |-> FALSE, state |-> acc.state]
SlashStep(acc, proof) ==
    IF acc.ok /\ SlashProofValid(proof)
    THEN [ok |-> TRUE, state |-> ApplySlash(acc.state, proof)]
    ELSE [ok |-> FALSE, state |-> acc.state]

\* The two loops of validate_and_apply_block over the clone of the parent state.
ApplyContents(s, block) ==
    LET txs == FoldLeft(LAMBDA acc, tx : TxStep(acc, tx, block.slot),
                        [ok |-> TRUE, state |-> s], block.transactions)
    IN  FoldLeft(SlashStep, txs, block.slash_proofs)

\* The verdict on a block whose contents gave applied.
Verdict(parent, s, block, applied) ==
    [ok    |-> /\ HeaderValid(parent, s, block)
               /\ applied.ok
               /\ block.state_root = StateRoot(applied.state),
     state |-> applied.state]

\* validate_and_apply_block: whether block is accepted on parent, whose state
\* is s, and the state it leads to.
ValidateAndApply(parent, s, block) ==
    Verdict(parent, s, block, ApplyContents(s, block))

\* Mutant of ShouldReplaceHead without the tie break on the hash.
NoTieBreak(hash, block, head_hash, head) ==
    \/ block.height > head.height
    \/ block.height = head.height /\ block.slot > head.slot

\* should_replace_head: the candidate's (height, slot, hash) is above the
\* head's, in that order of importance.
ShouldReplaceHead(hash, block, head_hash, head) ==
    \/ block.height > head.height
    \/ /\ block.height = head.height
       /\ block.slot > head.slot
    \/ /\ block.height = head.height
       /\ block.slot = head.slot
       /\ hash > head_hash
=============================================================================
