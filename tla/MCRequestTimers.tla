--------------------------- MODULE MCRequestTimers ---------------------------
(* A node that knows genesis only, and a block two heights above it. *)
EXTENDS RequestTimers

Block(height, slot, previous_hash) ==
    [height |-> height, slot |-> slot, previous_hash |-> previous_hash,
     validator |-> 1, signed |-> height > 0, transactions |-> <<>>,
     slash_proofs |-> <<>>, state_root |-> EmptyMap]

MCBlockOf == <<Block(0, 0, 0), Block(1, 1, 1), Block(2, 2, 2)>>
=============================================================================
