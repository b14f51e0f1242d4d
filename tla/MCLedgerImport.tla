---------------------------- MODULE MCLedgerImport ---------------------------
(* Two accounts that own as much as a u64 holds, both kinds of slashing. *)
EXTENDS LedgerImport

MCStartState ==
    [NewState EXCEPT !.balances = (1 :> 3) @@ (2 :> 1)]

Tx(kind, sender, amount, sequence) ==
    [kind |-> kind, sender |-> sender, receiver |-> 2, amount |-> amount,
     sequence |-> sequence, fee |-> 1, signed |-> TRUE]

Evidence(hash, validator) ==
    [slot |-> 1, hash |-> hash, validator |-> validator, signed |-> TRUE]

MCProof == [validator |-> 1, a |-> Evidence(1, 1), b |-> Evidence(2, 1)]

MCSlashProofs == {MCProof, [MCProof EXCEPT !.b.hash = 1]}

MCTransactions ==
    {Tx("Transfer", 1, 3, 0), Tx("Transfer", 1, 1, 1),
     Tx("Transfer", 2, 1, 0),
     Tx("Stake", 1, 1, 0), Tx("Stake", 1, 1, 1), Tx("Stake", 2, 1, 0),
     Tx("Unstake", 1, 1, 1), Tx("Unstake", 1, 1, 2),
     [Tx("Stake", 2, 1, 0) EXCEPT !.signed = FALSE],
     Tx("Slash", 2, 0, 1) @@ [proof |-> MCProof]}
=============================================================================
