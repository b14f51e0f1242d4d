------------------------- MODULE LedgerImportProofs -------------------------
(***************************************************************************)
(* Proofs about LedgerImport, for every set of accounts, transactions and  *)
(* slash proofs and every width of the integers: every reachable state is  *)
(* a well-formed ledger, and no transaction is applied twice on a chain of *)
(* up to MaxU64 transactions (a nonce wraps around after that many).       *)
(***************************************************************************)
EXTENDS LedgerImport, FiniteSetTheorems, TLAPS

-----------------------------------------------------------------------------
(* u64 arithmetic and maps *)

\* Wrapped arithmetic stays within u64, and is exact within it.
LEMMA WrapU64 ==
    ASSUME NEW n \in Int
    PROVE  /\ Wrap(n) \in U64
           /\ n \in U64 => Wrap(n) = n
  BY MaxU64Assumption DEF Wrap, U64

\* insert and remove on a map with values in V.
LEMMA PutMap ==
    ASSUME NEW V, NEW map, IsMap(map, V), NEW key \in Account, NEW value \in V
    PROVE  IsMap(Put(map, key, value), V)
  BY DEF IsMap, Put

\* remove on a map with values in V.
LEMMA DropMap ==
    ASSUME NEW V, NEW map, IsMap(map, V), NEW key
    PROVE  IsMap(Drop(map, key), V)
  BY DEF IsMap, Drop

\* Reading, and adding to, an entry of a map of u64 values.
LEMMA GetU64 ==
    ASSUME NEW map, IsMap(map, U64), NEW key
    PROVE  Get(map, key) \in U64
  BY MaxU64Assumption DEF IsMap, Get, U64

\* += on an entry keeps a map of u64 values.
LEMMA AddMap ==
    ASSUME NEW map, IsMap(map, U64), NEW key \in Account, NEW n \in Int
    PROVE  IsMap(Add(map, key, n), U64)
  <1>1. Get(map, key) \in U64
    BY GetU64
  <1>2. Wrap(Get(map, key) + n) \in U64
    BY <1>1, WrapU64, MaxU64Assumption DEF U64
  <1> QED
    BY <1>2, PutMap DEF Add

\* Reading after insert.
LEMMA GetPut ==
    ASSUME NEW map, NEW key, NEW value, NEW k
    PROVE  Get(Put(map, key, value), k) = IF k = key THEN value ELSE Get(map, k)
  BY DEF Get, Put

-----------------------------------------------------------------------------
(* The rules keep a state well formed *)

\* apply_slash leads from a well-formed state to one, with the same nonces.
LEMMA SlashState ==
    ASSUME NEW s, IsState(s), NEW proof
    PROVE  /\ IsState(ApplySlash(s, proof))
           /\ ApplySlash(s, proof).nonces = s.nonces
  <1>1. PICK b, n, k, u : s = [balances |-> b, nonces |-> n, stakes |-> k, unstaking |-> u]
    BY DEF IsState
  <1>2. /\ IsMap(b, U64) /\ IsMap(n, U64) /\ IsMap(k, U64)
        /\ IsMap(u, Seq(UnstakeRequest))
    BY <1>1 DEF IsState
  <1>3. PICK v : v = proof.validator
    OBVIOUS
  <1>4. ApplySlash(s, proof) = [balances |-> b, nonces |-> n,
                                stakes |-> Drop(k, v), unstaking |-> Drop(u, v)]
    <2>1. PICK k2, u2 : k2 = Drop(k, v) /\ u2 = Drop(u, v)
      OBVIOUS
    <2>2. ApplySlash(s, proof) = [s EXCEPT !.stakes = k2, !.unstaking = u2]
      BY <1>1, <1>3, <2>1 DEF ApplySlash
    <2> QED
      BY <1>1, <2>1, <2>2
  <1>5. IsMap(Drop(k, v), U64) /\ IsMap(Drop(u, v), Seq(UnstakeRequest))
    BY <1>2, DropMap
  <1> QED
    BY <1>1, <1>2, <1>4, <1>5 DEF IsState

\* What a transaction does apart from its nonce.
LEMMA TxDataState ==
    ASSUME NEW s, IsState(s), NEW tx \in Transactions, NEW slot \in Nat
    PROVE  /\ IsState(ApplyTxData(s, tx, slot))
           /\ ApplyTxData(s, tx, slot).nonces = s.nonces
  <1>1. PICK b, n, k, u : s = [balances |-> b, nonces |-> n, stakes |-> k, unstaking |-> u]
    BY DEF IsState
  <1>2. /\ IsMap(b, U64) /\ IsMap(n, U64) /\ IsMap(k, U64)
        /\ IsMap(u, Seq(UnstakeRequest))
    BY <1>1 DEF IsState
  <1>3. tx.sender \in Account /\ tx.kind \in TxKinds
    BY TransactionsAssumption
  <1>4. tx.kind # "Slash" => tx.amount \in U64 /\ tx.amount \in Int /\ -tx.amount \in Int
    BY TransactionsAssumption, MaxU64Assumption DEF U64
  <1>5. CASE tx.kind = "Transfer"
    <2> DEFINE paid == Add(Add(b, tx.sender, -tx.amount), tx.receiver, tx.amount)
    <2>1. ApplyTxData(s, tx, slot) = [balances |-> paid, nonces |-> n,
                                      stakes |-> k, unstaking |-> u]
      BY <1>1, <1>5 DEF ApplyTxData
    <2>2. IsMap(paid, U64)
      BY <1>2, <1>3, <1>4, <1>5, AddMap, TransactionsAssumption
    <2> QED
      BY <1>1, <1>2, <2>1, <2>2 DEF IsState
  <1>6. CASE tx.kind = "Stake"
    <2>1. ApplyTxData(s, tx, slot) =
            [balances |-> Add(b, tx.sender, -tx.amount), nonces |-> n,
             stakes |-> Add(k, tx.sender, tx.amount), unstaking |-> u]
      BY <1>1, <1>6 DEF ApplyTxData
    <2>2. /\ IsMap(Add(b, tx.sender, -tx.amount), U64)
          /\ IsMap(Add(k, tx.sender, tx.amount), U64)
      BY <1>2, <1>3, <1>4, <1>6, AddMap
    <2> QED
      BY <1>1, <1>2, <2>1, <2>2 DEF IsState
  <1>7. CASE tx.kind = "Unstake"
    <2> DEFINE request == [amount |-> tx.amount, unlock_slot |-> Wrap(slot + UnlockDelay)]
               waiting == Append(Requests(s, tx.sender), request)
    <2>1. ApplyTxData(s, tx, slot) =
            [balances |-> b, nonces |-> n, stakes |-> Add(k, tx.sender, -tx.amount),
             unstaking |-> Put(u, tx.sender, waiting)]
      BY <1>1, <1>7 DEF ApplyTxData
    <2>2. IsMap(Add(k, tx.sender, -tx.amount), U64)
      BY <1>2, <1>3, <1>4, <1>7, AddMap
    <2>3. request \in UnstakeRequest
      BY <1>4, <1>7, WrapU64, UnlockDelayAssumption DEF UnstakeRequest
    <2>4. Requests(s, tx.sender) \in Seq(UnstakeRequest)
      BY <1>1, <1>2 DEF Requests, IsMap
    <2>5. waiting \in Seq(UnstakeRequest)
      BY <2>3, <2>4
    <2>6. IsMap(Put(u, tx.sender, waiting), Seq(UnstakeRequest))
      BY <1>2, <1>3, <2>5, PutMap
    <2> QED
      BY <1>1, <1>2, <2>1, <2>2, <2>6 DEF IsState
  <1>8. CASE tx.kind = "Slash"
    <2>1. ApplyTxData(s, tx, slot) \in {ApplySlash(s, tx.proof), s}
      BY <1>8 DEF ApplyTxData
    <2> QED
      BY <2>1, SlashState
  <1> QED
    BY <1>3, <1>5, <1>6, <1>7, <1>8 DEF TxKinds

\* apply_tx: a well-formed state again, with the sender's nonce advanced.
LEMMA TxState ==
    ASSUME NEW s, IsState(s), NEW tx \in Transactions, NEW slot \in Nat
    PROVE  /\ IsState(ApplyTx(s, tx, slot))
           /\ ApplyTx(s, tx, slot).nonces = Add(s.nonces, tx.sender, 1)
  <1> DEFINE d == ApplyTxData(s, tx, slot)
  <1>1. IsState(d) /\ d.nonces = s.nonces
    BY TxDataState
  <1>2. ApplyTx(s, tx, slot) = [d EXCEPT !.nonces = Add(@, tx.sender, 1)]
    BY DEF ApplyTx
  <1> HIDE DEF d
  <1>3. PICK b, n, k, u : d = [balances |-> b, nonces |-> n, stakes |-> k, unstaking |-> u]
    BY <1>1 DEF IsState
  <1>4. ApplyTx(s, tx, slot) = [balances |-> b, nonces |-> Add(n, tx.sender, 1),
                                stakes |-> k, unstaking |-> u]
    BY <1>2, <1>3
  <1>5. IsMap(Add(n, tx.sender, 1), U64)
    BY <1>1, <1>3, AddMap, TransactionsAssumption DEF IsState
  <1> QED
    BY <1>1, <1>3, <1>4, <1>5 DEF IsState

-----------------------------------------------------------------------------
(* The invariant *)

\* What ties the nonces of a state to the transactions that led to it: nonces
\* count within the history, every transaction of the history lies below its
\* sender's nonce, and none occurs twice.
Accounted(s, history) ==
    /\ \A a \in Account : Get(s.nonces, a) <= Len(history)
    /\ \A i \in DOMAIN history : history[i].sequence < Get(s.nonces, history[i].sender)
    /\ \A i, j \in DOMAIN history : history[i] = history[j] => i = j

\* The block under way is made of known transactions, in a slot, and leaves
\* the history within its bound; between calls the clone is the state.
CallOK ==
    /\ block.transactions \in Seq(Transactions)
    /\ block.slash_proofs \in Seq(SlashProofs)
    /\ Running => /\ block.slot \in Nat
                  /\ block.height \in Nat
    /\ Len(next_applied) <= MaxApplied
    /\ pos <= Len(block.transactions) =>
            Len(next_applied) + Len(block.transactions) - pos <= MaxApplied
    /\ ~ Running => next_state = state /\ next_applied = applied /\ pos = 0
    /\ Len(applied) <= MaxApplied

Inv ==
    /\ TypeOK
    /\ CallOK
    /\ Accounted(state, applied)
    /\ Accounted(next_state, next_applied)

\* Nothing is applied at the start.
LEMMA InitInv == Init => Inv
  <1> SUFFICES ASSUME Init PROVE Inv
    OBVIOUS
  <1>1. \A a : Get(StartState.nonces, a) = 0
    BY StartStateAssumption DEF Get, EmptyMap
  <1>2. /\ block.transactions = <<>>
        /\ block.slash_proofs = <<>>
        /\ applied = <<>>
        /\ next_applied = <<>>
        /\ state = StartState
        /\ next_state = StartState
        /\ pos = 0
        /\ ~ Running
        /\ parent = [height |-> 0, slot |-> 0]
    BY DEF Init, NoBlock, Running
  <1>3. TypeOK
    BY <1>2, StartStateAssumption DEF TypeOK
  <1>4. CallOK
    BY <1>2, BoundsAssumption, MaxU64Assumption DEF CallOK, U64
  <1>5. Accounted(state, applied) /\ Accounted(next_state, next_applied)
    BY <1>1, <1>2 DEF Accounted
  <1> QED
    BY <1>3, <1>4, <1>5 DEF Inv

\* Appending to a sequence.
LEMMA AppendFacts ==
    ASSUME NEW S, NEW s \in Seq(S), NEW e \in S
    PROVE  /\ DOMAIN s = 1 .. Len(s)
           /\ Len(s) \in Nat
           /\ \A i \in 1 .. Len(s) : s[i] \in S
           /\ Append(s, e) \in Seq(S)
           /\ DOMAIN Append(s, e) = 1 .. Len(s) + 1
           /\ Len(Append(s, e)) = Len(s) + 1
           /\ Append(s, e)[Len(s) + 1] = e
           /\ \A i \in 1 .. Len(s) : Append(s, e)[i] = s[i]
  OBVIOUS

\* The heart of replay protection: a valid transaction carries exactly the
\* sender's nonce, so it differs from all those already applied.
LEMMA TxAccounted ==
    ASSUME NEW s, IsState(s), NEW history \in Seq(Entry), Accounted(s, history),
           NEW tx \in Transactions, IsValidTx(s, tx), NEW slot \in Nat,
           Len(history) < MaxU64
    PROVE  Accounted(ApplyTx(s, tx, slot),
                     Append(history, [sender |-> tx.sender, sequence |-> tx.sequence]))
  <1> DEFINE e == [sender |-> tx.sender, sequence |-> tx.sequence]
             t == ApplyTx(s, tx, slot)
             longer == Append(history, e)
  <1>1. /\ tx.sequence = Get(s.nonces, tx.sender)
        /\ tx.sender \in Account
        /\ tx.sequence \in U64
    BY TransactionsAssumption DEF IsValidTx
  <1>2. \A a \in Account : Get(s.nonces, a) \in Nat
    BY GetU64 DEF IsState, U64
  <1>3. Wrap(tx.sequence + 1) = tx.sequence + 1
    <2>1. tx.sequence <= Len(history)
      BY <1>1 DEF Accounted
    <2>2. tx.sequence + 1 \in U64 /\ tx.sequence + 1 \in Int
      BY <1>1, <2>1, MaxU64Assumption DEF U64
    <2> QED
      BY <2>2, WrapU64
  <1>4. t.nonces = Add(s.nonces, tx.sender, 1)
    BY TxState
  <1>5. \A a : Get(t.nonces, a) = IF a = tx.sender THEN tx.sequence + 1
                                  ELSE Get(s.nonces, a)
    BY <1>1, <1>3, <1>4, GetPut DEF Add
  <1>6. /\ DOMAIN history = 1 .. Len(history)
        /\ Len(history) \in Nat
        /\ DOMAIN longer = 1 .. Len(history) + 1
        /\ Len(longer) = Len(history) + 1
        /\ longer[Len(history) + 1] = e
        /\ \A i \in 1 .. Len(history) : longer[i] = history[i] /\ history[i] \in Entry
    <2>1. e \in Entry
      BY <1>1 DEF Entry
    <2> HIDE DEF e
    <2> QED
      BY <2>1, AppendFacts
  <1>7. e.sender = tx.sender /\ e.sequence = tx.sequence
    OBVIOUS
  <1> HIDE DEF e, t, longer
  <1>8. \A a \in Account : Get(t.nonces, a) <= Len(longer)
    BY <1>1, <1>2, <1>5, <1>6 DEF Accounted
  <1>9. \A i \in DOMAIN history : history[i].sequence < Get(s.nonces, history[i].sender)
    BY DEF Accounted
  <1>10. \A i \in DOMAIN longer : longer[i].sequence < Get(t.nonces, longer[i].sender)
    <2>1. ASSUME NEW i \in 1 .. Len(history)
          PROVE  history[i].sequence < Get(t.nonces, history[i].sender)
      <3>1. /\ history[i].sequence < Get(s.nonces, history[i].sender)
            /\ history[i].sender \in Account
            /\ history[i].sequence \in Nat
        BY <1>6, <1>9, MaxU64Assumption DEF Entry, U64
      <3>2. Get(s.nonces, history[i].sender) \in Nat
        BY <3>1, <1>2
      <3> QED
        BY <3>1, <3>2, <1>1, <1>5
    <2>2. e.sequence < Get(t.nonces, e.sender)
      BY <1>1, <1>5, <1>7, MaxU64Assumption DEF U64
    <2> QED
      BY <2>1, <2>2, <1>6
  <1>11. \A i \in DOMAIN history : history[i] # e
    <2>1. SUFFICES ASSUME NEW i \in DOMAIN history, history[i] = e PROVE FALSE
      OBVIOUS
    <2>2. e.sequence < Get(s.nonces, e.sender)
      BY <2>1, <1>9
    <2> QED
      BY <2>2, <1>1, <1>2, <1>7
  <1>12. \A i, j \in DOMAIN longer : longer[i] = longer[j] => i = j
    <2>1. \A i, j \in DOMAIN history : history[i] = history[j] => i = j
      BY DEF Accounted
    <2> QED
      BY <2>1, <1>6, <1>11
  <1>13. Accounted(t, longer)
    BY <1>8, <1>10, <1>12 DEF Accounted
  <1> QED
    BY <1>13 DEF t, longer, e

\* A call that returns an error, between calls or during one.
LEMMA FailInv ==
    ASSUME Inv, NEW error, error # "running", Fail(error)
    PROVE  Inv'
  <1>1. /\ block'.transactions = <<>>
        /\ block'.slash_proofs = <<>>
        /\ ~ Running'
    BY DEF Fail, NoBlock, Running
  <1>2. TypeOK'
    BY <1>1 DEF Inv, TypeOK, Fail
  <1>3. CallOK'
    BY <1>1 DEF Inv, TypeOK, CallOK, Fail
  <1>4. Accounted(state, applied)' /\ Accounted(next_state, next_applied)'
    BY DEF Inv, Accounted, Fail
  <1> QED
    BY <1>2, <1>3, <1>4 DEF Inv

\* The start of a call only sets the block.
LEMMA BeginInv ==
    ASSUME Inv, NEW header \in Headers, Begin(header)
    PROVE  Inv'
  <1>1. PICK body \in Bodies, good_root \in BOOLEAN :
            /\ Len(applied) + Len(body.transactions) <= MaxApplied
            /\ block' = Forge(header, body, good_root)
    BY DEF Begin
  <1>2. /\ block'.transactions = body.transactions
        /\ block'.slash_proofs = body.slash_proofs
        /\ block'.slot = header.slot
        /\ block'.height = header.height
    BY <1>1 DEF Forge
  <1>3. /\ body.transactions \in Seq(Transactions)
        /\ body.slash_proofs \in Seq(SlashProofs)
    BY BoundsAssumption DEF Bodies
  <1>4. header.slot \in Nat /\ header.height \in Nat
    BY BoundsAssumption, MaxU64Assumption DEF Headers, Inv, TypeOK, U64
  <1>5. /\ UNCHANGED <<parent, state, next_state, pos, applied, next_applied>>
        /\ next_state = state /\ next_applied = applied /\ pos = 0
        /\ Running'
    BY DEF Begin, Inv, CallOK, Running
  <1>6. TypeOK'
    <2> DEFINE txs    == Len(body.transactions)
               proofs == Len(body.slash_proofs)
    <2>1. txs \in Nat /\ proofs \in Nat
      BY <1>3
    <2>2. Len(block'.transactions) = txs /\ Len(block'.slash_proofs) = proofs
      BY <1>2
    <2> HIDE DEF txs, proofs
    <2>3. pos' \in 0 .. txs + proofs
      BY <1>5, <2>1
    <2> QED
      BY <1>5, <2>2, <2>3 DEF Inv, TypeOK
  <1>7. CallOK'
    BY <1>1, <1>2, <1>3, <1>4, <1>5 DEF Inv, TypeOK, CallOK
  <1>8. Accounted(state, applied)' /\ Accounted(next_state, next_applied)'
    BY <1>5 DEF Inv, Accounted
  <1> QED
    BY <1>6, <1>7, <1>8 DEF Inv

\* A valid transaction advances the nonce and the history together.
LEMMA ApplyTxInv ==
    ASSUME Inv, ApplyNextTx
    PROVE  Inv'
  <1> DEFINE e == [sender |-> NextTx.sender, sequence |-> NextTx.sequence]
  <1>1. /\ pos \in Nat /\ pos < Len(block.transactions)
        /\ block.transactions \in Seq(Transactions)
        /\ block.slash_proofs \in Seq(SlashProofs)
        /\ block.slot \in Nat
        /\ IsValidTx(next_state, NextTx)
        /\ next_state' = ApplyTx(next_state, NextTx, block.slot)
        /\ next_applied' = Append(next_applied, e)
        /\ pos' = pos + 1
        /\ UNCHANGED <<parent, state, block, verdict, applied>>
        /\ Running /\ Running'
    BY DEF Inv, TypeOK, CallOK, ApplyNextTx, Running
  <1>2. NextTx \in Transactions
    BY <1>1 DEF NextTx
  <1>3. e \in Entry
    BY <1>2, TransactionsAssumption DEF Entry
  <1>4. next_applied \in Seq(Entry) /\ IsState(next_state)
    BY DEF Inv, TypeOK
  <1>5. Len(next_applied) < MaxU64 /\ Len(next_applied) \in Nat
    <2>1. Len(next_applied) + Len(block.transactions) - pos <= MaxApplied
      BY <1>1 DEF Inv, CallOK
    <2>2. Len(next_applied) \in Nat /\ Len(block.transactions) \in Nat
      BY <1>1, <1>4
    <2> QED
      BY <1>1, <2>1, <2>2, BoundsAssumption, MaxU64Assumption DEF U64
  <1> HIDE DEF e
  <1>6. /\ next_applied' \in Seq(Entry)
        /\ Len(next_applied') = Len(next_applied) + 1
    BY <1>1, <1>3, <1>4, AppendFacts
  <1>7. IsState(next_state')
    BY <1>1, <1>2, <1>4, TxState
  <1>8. Accounted(next_state', next_applied')
    BY <1>1, <1>2, <1>4, <1>5, TxAccounted DEF Inv, e
  <1> DEFINE txs    == Len(block.transactions)
             proofs == Len(block.slash_proofs)
  <1>0. /\ txs \in Nat /\ proofs \in Nat
        /\ pos \in Nat /\ pos < txs /\ pos' = pos + 1
    BY <1>1
  <1>9. TypeOK'
    <2>1. pos' \in 0 .. txs + proofs
      <3> HIDE DEF txs, proofs
      <3> QED
        BY <1>0
    <2>2. /\ Len(block'.transactions) = txs
          /\ Len(block'.slash_proofs) = proofs
          /\ parent' = parent /\ state' = state /\ applied' = applied
      BY <1>1
    <2> HIDE DEF txs, proofs
    <2> QED
      BY <1>6, <1>7, <2>1, <2>2 DEF Inv, TypeOK
  <1>10. CallOK'
    <2>1. Len(next_applied) + txs - pos <= MaxApplied
      BY <1>1 DEF Inv, CallOK
    <2>2. Len(next_applied') <= MaxApplied /\ Len(next_applied') + txs - pos' <= MaxApplied
      <3> HIDE DEF txs
      <3> QED
        BY <2>1, <1>0, <1>5, <1>6, BoundsAssumption, MaxU64Assumption DEF U64
    <2> QED
      BY <1>1, <2>2 DEF Inv, CallOK
  <1>11. Accounted(state, applied)' /\ Accounted(next_state, next_applied)'
    BY <1>1, <1>8 DEF Inv, Accounted
  <1> QED
    BY <1>9, <1>10, <1>11 DEF Inv

\* A slash proof touches neither nonces nor history.
LEMMA ApplyProofInv ==
    ASSUME Inv, ApplyNextProof
    PROVE  Inv'
  <1>1. /\ next_state' = ApplySlash(next_state, NextProof)
        /\ pos' = pos + 1
        /\ pos >= Len(block.transactions)
        /\ pos < Len(block.transactions) + Len(block.slash_proofs)
        /\ block.transactions \in Seq(Transactions)
        /\ block.slash_proofs \in Seq(SlashProofs)
        /\ UNCHANGED <<parent, state, block, verdict, applied, next_applied>>
        /\ Running /\ Running'
    BY DEF Inv, CallOK, ApplyNextProof, ProofsLeft, Running
  <1>2. IsState(next_state') /\ next_state'.nonces = next_state.nonces
    BY <1>1, SlashState DEF Inv, TypeOK
  <1>3. TypeOK'
    <2> DEFINE txs    == Len(block.transactions)
               proofs == Len(block.slash_proofs)
    <2>1. txs \in Nat /\ proofs \in Nat
      BY <1>1
    <2>2. pos \in 0 .. txs + proofs /\ pos' = pos + 1 /\ pos < txs + proofs
      BY <1>1 DEF Inv, TypeOK
    <2>3. Len(block'.transactions) = txs /\ Len(block'.slash_proofs) = proofs
      BY <1>1
    <2> HIDE DEF txs, proofs
    <2>4. pos' \in 0 .. txs + proofs
      BY <2>1, <2>2
    <2>5. UNCHANGED <<parent, state, applied, next_applied>>
      BY <1>1
    <2> QED
      BY <1>2, <2>3, <2>4, <2>5 DEF Inv, TypeOK
  <1>4. CallOK'
    BY <1>1 DEF Inv, CallOK, TypeOK
  <1>5. Accounted(state, applied)' /\ Accounted(next_state, next_applied)'
    BY <1>1, <1>2 DEF Inv, Accounted
  <1> QED
    BY <1>3, <1>4, <1>5 DEF Inv

\* The accepted clone takes its history with it.
LEMMA AcceptInv ==
    ASSUME Inv, Accept
    PROVE  Inv'
  <1>1. /\ block'.transactions = <<>>
        /\ block'.slash_proofs = <<>>
        /\ ~ Running'
        /\ parent' = [height |-> block.height, slot |-> block.slot]
        /\ state' = next_state /\ next_state' = next_state
        /\ applied' = next_applied /\ next_applied' = next_applied
        /\ pos' = 0
        /\ block.slot \in Nat /\ block.height \in Nat
    BY DEF Accept, Done, NoBlock, Running, Inv, CallOK
  <1>2. Len(next_applied) <= MaxApplied
    BY DEF Inv, CallOK
  <1>3. TypeOK'
    BY <1>1 DEF Inv, TypeOK
  <1>4. CallOK'
    BY <1>1, <1>2 DEF CallOK, Inv, TypeOK
  <1>5. Accounted(state, applied)' /\ Accounted(next_state, next_applied)'
    BY <1>1 DEF Inv, Accounted
  <1> QED
    BY <1>3, <1>4, <1>5 DEF Inv

\* Every step of validate_and_apply_block keeps the invariant.
LEMMA StepInv == Inv /\ [Next]_vars => Inv'
  <1> SUFFICES ASSUME Inv, [Next]_vars PROVE Inv'
    OBVIOUS
  <1>1. ASSUME NEW header \in Headers, Begin(header) PROVE Inv'
    BY <1>1, BeginInv
  <1>2. ASSUME NEW header \in Headers, RejectHeader(header) PROVE Inv'
    BY <1>2, FailInv DEF RejectHeader, HeaderError
  <1>3. CASE ApplyNextTx
    BY <1>3, ApplyTxInv
  <1>4. CASE RejectNextTx
    BY <1>4, FailInv DEF RejectNextTx
  <1>5. CASE ApplyNextProof
    BY <1>5, ApplyProofInv
  <1>6. CASE RejectNextProof
    BY <1>6, FailInv DEF RejectNextProof
  <1>7. CASE Accept
    BY <1>7, AcceptInv
  <1>8. CASE RejectRoot
    BY <1>8, FailInv DEF RejectRoot
  <1>9. CASE UNCHANGED vars
    <2>1. TypeOK'
      BY <1>9 DEF vars, Inv, TypeOK
    <2>2. CallOK'
      BY <1>9 DEF vars, Inv, CallOK, Running
    <2>3. Accounted(state, applied)' /\ Accounted(next_state, next_applied)'
      BY <1>9 DEF vars, Inv, Accounted
    <2> QED
      BY <2>1, <2>2, <2>3 DEF Inv
  <1> QED
    BY <1>1, <1>2, <1>3, <1>4, <1>5, <1>6, <1>7, <1>8, <1>9 DEF Next

\* The inductive invariant holds throughout any sequence of calls.
THEOREM Invariance == Spec => []Inv
  BY InitInv, StepInv, PTL DEF Spec

-----------------------------------------------------------------------------
(* The theorems *)

\* Whatever blocks are offered, both the accepted state and the clone a block
\* is being applied to map accounts to u64 values.
THEOREM TypeCorrect == Spec => []TypeOK
  <1>1. Inv => TypeOK
    BY DEF Inv
  <1> QED
    BY <1>1, Invariance, PTL

\* Replay protection: is_valid_tx lets no transaction of a sender through a
\* second time, within a block or along the chain.
THEOREM ReplayProtection == Spec => []NoReplay
  <1>1. Inv => NoReplay
    BY DEF Inv, Accounted, NoReplay
  <1> QED
    BY <1>1, Invariance, PTL

-----------------------------------------------------------------------------
(* The sequence numbers of each sender *)

\* A longer history has the same transactions of an account, and the new one.
LEMMA SentAppend ==
    ASSUME NEW history \in Seq(Entry), NEW e \in Entry, NEW k
    PROVE  /\ \A n \in 0 .. Len(history) :
                    Sent(Append(history, e), k, n) = Sent(history, k, n)
           /\ Sent(Append(history, e), k, Len(history) + 1)
                = IF e.sender = k THEN Sent(history, k, Len(history)) \cup {Len(history) + 1}
                  ELSE Sent(history, k, Len(history))
           /\ IsFiniteSet(Sent(history, k, Len(history)))
           /\ Len(history) + 1 \notin Sent(history, k, Len(history))
  <1> DEFINE longer == Append(history, e)
             len == Len(history)
  <1>1. /\ len \in Nat
        /\ DOMAIN history = 1 .. len
        /\ DOMAIN longer = 1 .. len + 1
        /\ longer[len + 1] = e
        /\ \A i \in 1 .. len : longer[i] = history[i]
    BY AppendFacts
  <1> HIDE DEF longer, len
  <1>2. \A n \in 0 .. len : Sent(longer, k, n) = Sent(history, k, n)
    BY <1>1 DEF Sent
  <1>3. Sent(longer, k, len + 1) = IF e.sender = k THEN Sent(history, k, len) \cup {len + 1}
                                   ELSE Sent(history, k, len)
    BY <1>1 DEF Sent
  <1>4. Sent(history, k, len) \subseteq 1 .. len
    BY DEF Sent
  <1>5. IsFiniteSet(Sent(history, k, len))
    <2>1. IsFiniteSet(1 .. len)
      BY <1>1, FS_Interval
    <2> QED
      BY <1>4, <2>1, FS_Subset, Zenon
  <1>6. len + 1 \notin Sent(history, k, len)
    BY <1>1, <1>4
  <1> QED
    BY <1>2, <1>3, <1>5, <1>6 DEF longer, len

\* A valid transaction carries its sender's nonce, which is the number of those
\* before it, and advances that nonce only.
LEMMA TxUnbroken ==
    ASSUME NEW s, IsState(s), NEW history \in Seq(Entry), Accounted(s, history),
           Unbroken(s, history),
           NEW tx \in Transactions, IsValidTx(s, tx), NEW slot \in Nat,
           Len(history) < MaxU64
    PROVE  Unbroken(ApplyTx(s, tx, slot),
                    Append(history, [sender |-> tx.sender, sequence |-> tx.sequence]))
  <1> DEFINE e == [sender |-> tx.sender, sequence |-> tx.sequence]
             t == ApplyTx(s, tx, slot)
             longer == Append(history, e)
             len == Len(history)
  <1>1. /\ tx.sequence = Get(s.nonces, tx.sender)
        /\ tx.sender \in Account
        /\ tx.sequence \in U64
    BY TransactionsAssumption DEF IsValidTx
  <1>2. e \in Entry /\ e.sender = tx.sender /\ e.sequence = tx.sequence
    BY <1>1 DEF Entry
  <1>3. Wrap(tx.sequence + 1) = tx.sequence + 1
    <2>1. tx.sequence <= len /\ len \in Nat
      BY <1>1 DEF Accounted
    <2>2. tx.sequence + 1 \in U64 /\ tx.sequence + 1 \in Int
      BY <1>1, <2>1, MaxU64Assumption DEF U64
    <2> QED
      BY <2>2, WrapU64
  <1>4. t.nonces = Add(s.nonces, tx.sender, 1)
    BY TxState
  <1>5. \A a : Get(t.nonces, a) = IF a = tx.sender THEN tx.sequence + 1
                                  ELSE Get(s.nonces, a)
    BY <1>1, <1>3, <1>4, GetPut DEF Add
  <1> HIDE DEF e, t
  <1>6. /\ len \in Nat
        /\ DOMAIN history = 1 .. len
        /\ DOMAIN longer = 1 .. len + 1
        /\ Len(longer) = len + 1
        /\ longer[len + 1] = e
        /\ \A i \in 1 .. len : longer[i] = history[i]
    BY <1>2, AppendFacts
  <1>7. \A k : /\ \A n \in 0 .. len : Sent(longer, k, n) = Sent(history, k, n)
               /\ Sent(longer, k, len + 1)
                    = IF e.sender = k THEN Sent(history, k, len) \cup {len + 1}
                      ELSE Sent(history, k, len)
               /\ IsFiniteSet(Sent(history, k, len))
               /\ len + 1 \notin Sent(history, k, len)
    BY <1>2, SentAppend
  <1> HIDE DEF longer, len
  <1>8. \A k \in Account : Get(s.nonces, k) = Cardinality(Sent(history, k, len))
    BY DEF Unbroken, len
  <1>9. \A k \in Account : Get(t.nonces, k) = Cardinality(Sent(longer, k, Len(longer)))
    <2>1. SUFFICES ASSUME NEW k \in Account
                   PROVE  Get(t.nonces, k) = Cardinality(Sent(longer, k, len + 1))
      BY <1>6
    <2>2. CASE k = tx.sender
      <3>1. Sent(longer, k, len + 1) = Sent(history, k, len) \cup {len + 1}
        BY <2>2, <1>2, <1>7
      <3>2. Cardinality(Sent(longer, k, len + 1)) = Cardinality(Sent(history, k, len)) + 1
        BY <3>1, <1>7, FS_AddElement
      <3> QED
        BY <3>2, <2>2, <1>1, <1>5, <1>8
    <2>3. CASE k # tx.sender
      BY <2>3, <1>2, <1>5, <1>7, <1>8
    <2> QED
      BY <2>2, <2>3
  <1>10. \A i \in DOMAIN longer :
            longer[i].sequence = Cardinality(Sent(longer, longer[i].sender, i - 1))
    <2>1. ASSUME NEW i \in 1 .. len
          PROVE  longer[i].sequence = Cardinality(Sent(longer, longer[i].sender, i - 1))
      <3>1. history[i].sequence = Cardinality(Sent(history, history[i].sender, i - 1))
        BY <1>6 DEF Unbroken
      <3>2. i - 1 \in 0 .. len
        BY <1>6
      <3> QED
        BY <3>1, <3>2, <1>6, <1>7
    <2>2. e.sequence = Cardinality(Sent(longer, e.sender, len))
      <3>1. Sent(longer, e.sender, len) = Sent(history, e.sender, len)
        BY <1>6, <1>7
      <3> QED
        BY <3>1, <1>1, <1>2, <1>8
    <2>3. (len + 1) - 1 = len
      BY <1>6
    <2> QED
      BY <2>1, <2>2, <2>3, <1>6
  <1> QED
    BY <1>9, <1>10 DEF Unbroken, e, t, longer

\* Both states have come about from their histories without a gap.
Gapless ==
    /\ Unbroken(state, applied)
    /\ Unbroken(next_state, next_applied)

\* No transaction has been sent at the start.
LEMMA InitGapless == Init => Gapless
  <1> SUFFICES ASSUME Init PROVE Gapless
    OBVIOUS
  <1>1. \A a : Get(StartState.nonces, a) = 0
    BY StartStateAssumption DEF Get, EmptyMap
  <1>2. \A k : Sent(<<>>, k, Len(<<>>)) = {}
    BY DEF Sent
  <1>3. Unbroken(StartState, <<>>)
    BY <1>1, <1>2, FS_EmptySet DEF Unbroken
  <1> QED
    BY <1>3 DEF Init, Gapless

\* A step extends the history of the clone by a valid transaction, drops the clone,
\* or makes it the state.
LEMMA StepGapless == Inv /\ Gapless /\ [Next]_vars => Gapless'
  <1> SUFFICES ASSUME Inv, Gapless, [Next]_vars PROVE Gapless'
    OBVIOUS
  <1>1. ASSUME NEW error, Fail(error) PROVE Gapless'
    BY <1>1 DEF Fail, Gapless, Unbroken
  <1>2. ASSUME NEW header \in Headers, Begin(header) PROVE Gapless'
    BY <1>2 DEF Begin, Gapless, Unbroken
  <1>3. CASE ApplyNextTx
    <2>1. /\ pos \in Nat /\ pos < Len(block.transactions)
          /\ block.transactions \in Seq(Transactions)
          /\ block.slot \in Nat
          /\ IsState(next_state) /\ next_applied \in Seq(Entry)
          /\ Accounted(next_state, next_applied)
          /\ Len(next_applied) + Len(block.transactions) - pos <= MaxApplied
      BY <1>3 DEF Inv, TypeOK, CallOK, ApplyNextTx
    <2>2. NextTx \in Transactions
      BY <2>1 DEF NextTx
    <2>3. Len(next_applied) < MaxU64
      <3>1. Len(next_applied) \in Nat /\ Len(block.transactions) \in Nat
        BY <2>1
      <3> QED
        BY <2>1, <3>1, BoundsAssumption, MaxU64Assumption DEF U64
    <2>4. Unbroken(next_state, next_applied)'
      BY <1>3, <2>1, <2>2, <2>3, TxUnbroken DEF ApplyNextTx, Gapless
    <2>5. Unbroken(state, applied)'
      BY <1>3 DEF ApplyNextTx, Gapless, Unbroken
    <2> QED
      BY <2>4, <2>5 DEF Gapless
  <1>4. CASE ApplyNextProof
    <2>1. next_state'.nonces = next_state.nonces
      BY <1>4, SlashState DEF ApplyNextProof, Inv, TypeOK
    <2> QED
      BY <1>4, <2>1 DEF ApplyNextProof, Gapless, Unbroken
  <1>5. CASE Accept
    BY <1>5 DEF Accept, Gapless, Unbroken
  <1>6. CASE UNCHANGED vars
    BY <1>6 DEF vars, Gapless, Unbroken
  <1>7. ASSUME NEW header \in Headers, RejectHeader(header) PROVE Gapless'
    BY <1>1, <1>7 DEF RejectHeader
  <1>8. CASE RejectNextTx \/ RejectNextProof \/ RejectRoot
    BY <1>1, <1>8 DEF RejectNextTx, RejectNextProof, RejectRoot
  <1> QED
    BY <1>2, <1>3, <1>4, <1>5, <1>6, <1>7, <1>8 DEF Next

\* Along the chain each sender's transactions are numbered 0, 1, 2 and so on, and
\* the accepted state expects the next number, whatever calls failed in between.
THEOREM SequencesStayUnbroken == Spec => []SequencesUnbroken
  <1>1. Inv /\ Gapless => SequencesUnbroken
    BY DEF Gapless, SequencesUnbroken
  <1> QED
    BY <1>1, Invariance, InitGapless, StepGapless, PTL DEF Spec
=============================================================================
