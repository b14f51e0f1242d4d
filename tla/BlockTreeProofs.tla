--------------------------- MODULE BlockTreeProofs ---------------------------
(***************************************************************************)
(* Proofs about BlockTree, for every set of blocks, every ledger rule the  *)
(* blocks may exercise and every order of imports, submissions and         *)
(* restores.  The four invariants are inductive together: that a new block *)
(* has no children yet needs the root to be the lowest known block, and    *)
(* that the root is one above its own parent needs the stored states.      *)
(***************************************************************************)
EXTENDS BlockTree, TLAPS

Inv == TypeOK /\ HeadIsBest /\ OneTree /\ StateIsReplay

\* What the block tree uses of the ledger rules: an accepted block is signed,
\* one above its parent and in a later slot.
LEMMA AcceptedHeader ==
    ASSUME NEW parent, NEW s, NEW block, ValidateAndApply(parent, s, block).ok
    PROVE  /\ block.signed
           /\ block.height = parent.height + 1
           /\ block.slot > parent.slot
  BY DEF ValidateAndApply, Verdict, HeaderValid

\* should_replace_head is a strict order on the blocks there are.
LEMMA AboveOrder ==
    /\ \A h \in Hash : ~ Above(h, h)
    /\ \A h, g \in Hash : h # g => Above(h, g) \/ Above(g, h)
    /\ \A h, g, f \in Hash : Above(h, g) /\ Above(g, f) => Above(h, f)
  BY HashAssumption, BlockAssumption DEF Above, ShouldReplaceHead

\* add_block that fails leaves the blockchain alone.
LEMMA AddBlockFails ==
    ASSUME TypeOK, NEW h, NEW s, ~ AddBlock(bc, h, s).ok
    PROVE  AddBlock(bc, h, s).bc = bc
  BY DEF AddBlock, Judged, Added, Refused, TypeOK

\* add_block that succeeds.
LEMMA AddBlockSucceeds ==
    ASSUME NEW h, NEW s, AddBlock(bc, h, s).ok
    PROVE  LET added == AddBlock(bc, h, s)
               rules == ValidateAndApply(BlockOf[Parent(h)], s, BlockOf[h])
           IN  /\ Parent(h) \in Known
               /\ rules.ok
               /\ added.next_state = rules.state
               /\ added.bc = [chain     |-> added.bc.chain,
                              head_hash |-> added.bc.head_hash,
                              state     |-> added.bc.state,
                              mempool   |-> added.bc.mempool]
               /\ added.bc.chain = Linked(bc.chain, h)
               /\ \/ /\ Above(h, bc.head_hash)
                     /\ added.bc.head_hash = h
                     /\ added.bc.state = rules.state
                  \/ /\ ~ Above(h, bc.head_hash)
                     /\ added.bc.head_hash = bc.head_hash
                     /\ added.bc.state = bc.state
  BY DEF AddBlock, Judged, Added, Refused, Known

\* The elements of a list, and what appending one does to them.
Members(s) == {s[i] : i \in DOMAIN s}

\* children.push adds exactly the pushed hash to the members of the list.
LEMMA AppendMembers ==
    ASSUME NEW S, NEW s \in Seq(S), NEW e \in S
    PROVE  Members(Append(s, e)) = Members(s) \cup {e}
  <1> DEFINE t == Append(s, e)
  <1>1. /\ DOMAIN s = 1 .. Len(s)
        /\ DOMAIN t = 1 .. Len(s) + 1
        /\ Len(s) \in Nat
        /\ t[Len(s) + 1] = e
        /\ \A i \in 1 .. Len(s) : t[i] = s[i]
    OBVIOUS
  <1> HIDE DEF t
  <1>2. ASSUME NEW i \in DOMAIN t PROVE t[i] \in Members(s) \cup {e}
    BY <1>1 DEF Members
  <1>3. ASSUME NEW i \in DOMAIN s PROVE s[i] \in Members(t)
    BY <1>1 DEF Members
  <1>4. e \in Members(t)
    BY <1>1 DEF Members
  <1>5. Members(t) = Members(s) \cup {e}
    BY <1>2, <1>3, <1>4 DEF Members
  <1> QED
    BY <1>5 DEF t

\* A list without repetitions stays one when a new element is appended.
LEMMA AppendNoRepetition ==
    ASSUME NEW S, NEW s \in Seq(S), NEW e \in S, e \notin Members(s),
           \A i, j \in DOMAIN s : s[i] = s[j] => i = j
    PROVE  \A i, j \in DOMAIN Append(s, e) : Append(s, e)[i] = Append(s, e)[j] => i = j
  BY DEF Members

\* Linking an accepted block keeps the tree and its children lists exact.
LEMMA LinkedTree ==
    ASSUME TypeOK, OneTree, StateIsReplay,
           NEW h \in Hash, Parent(h) \in Known,
           BlockOf[h].height = BlockOf[Parent(h)].height + 1,
           BlockOf[h].slot > BlockOf[Parent(h)].slot,
           bc'.chain = Linked(bc.chain, h)
    PROVE  /\ bc'.chain \in [Known \cup {h} -> Seq(Hash)]
           /\ Known' = Known \cup {h}
           /\ OneTree'
  <1> DEFINE Children(g) == IF g \in Known THEN bc.chain[g] ELSE <<>>
  <1>1. /\ Known' = Known \cup {h}
        /\ \A g \in Known \cup {h} :
             bc'.chain[g] = IF g = Parent(h) /\ ~ Contains(Children(g), h)
                            THEN Append(Children(g), h) ELSE Children(g)
    BY DEF Linked, Known
  <1>2. \A g \in Known \cup {h} : Children(g) \in Seq(Hash)
    BY DEF TypeOK
  <1>3. bc'.chain \in [Known \cup {h} -> Seq(Hash)]
    BY <1>2 DEF Linked, Known
  <1>4. PICK root \in Known : \A x \in Known \ {root} :
            /\ Parent(x) \in Known
            /\ BlockOf[x].height > BlockOf[root].height
            /\ BlockOf[x].height = BlockOf[Parent(x)].height + 1
            /\ BlockOf[x].slot > BlockOf[Parent(x)].slot
    BY DEF OneTree
  <1>5. \A x \in Known \cup {h} : BlockOf[x].height \in Nat /\ x \in Hash
    BY BlockAssumption DEF TypeOK
  <1>6. \A x \in (Known \cup {h}) \ {root} :
            /\ Parent(x) \in Known
            /\ BlockOf[x].height > BlockOf[root].height
            /\ BlockOf[x].height = BlockOf[Parent(x)].height + 1
            /\ BlockOf[x].slot > BlockOf[Parent(x)].slot
    BY <1>4, <1>5
  <1>7. ASSUME h \notin Known PROVE \A x \in Known \cup {h} : Parent(x) # h
    <2>1. Parent(h) # h
      BY <1>7
    <2>2. \A x \in Known \ {root} : Parent(x) # h
      BY <1>4, <1>7
    <2>3. ASSUME Parent(root) = h PROVE FALSE
      <3>1. root \in DOMAIN snapshots
        BY <2>3, GenesisAssumption, HashAssumption DEF StateIsReplay, Parent
      <3>2. BlockOf[root].height = BlockOf[h].height + 1
        BY <3>1, <2>3, AcceptedHeader DEF StateIsReplay
      <3>3. BlockOf[Parent(h)].height >= BlockOf[root].height
        BY <1>4, <1>5
      <3> QED
        BY <3>2, <3>3, <1>5
    <2> QED
      BY <2>1, <2>2, <2>3
  <1>8. ASSUME NEW g \in Known \cup {h}
        PROVE  /\ Members(bc'.chain[g]) = {x \in Known \cup {h} : Parent(x) = g}
               /\ \A i, j \in DOMAIN bc'.chain[g] :
                    bc'.chain[g][i] = bc'.chain[g][j] => i = j
    <2>1. /\ Members(Children(g)) = {x \in Known : Parent(x) = g}
          /\ \A i, j \in DOMAIN Children(g) : Children(g)[i] = Children(g)[j] => i = j
      BY <1>7 DEF OneTree, Members
    <2>2. Contains(Children(g), h) <=> h \in Members(Children(g))
      BY <1>2 DEF Contains, Members
    <2>3. CASE g = Parent(h) /\ ~ Contains(Children(g), h)
      <3>1. bc'.chain[g] = Append(Children(g), h)
        BY <1>1, <2>3
      <3>0. Children(g) \in Seq(Hash)
        BY <1>2
      <3> HIDE DEF Children
      <3>2. Members(Append(Children(g), h)) = Members(Children(g)) \cup {h}
        BY <3>0, AppendMembers
      <3>3. \A i, j \in DOMAIN Append(Children(g), h) :
                Append(Children(g), h)[i] = Append(Children(g), h)[j] => i = j
        <4>1. h \notin Members(Children(g))
          BY <2>2, <2>3
        <4> QED
          BY <3>0, <4>1, <2>1, AppendNoRepetition, Zenon
      <3> QED
        BY <3>1, <3>2, <3>3, <2>1, <2>3
    <2>4. CASE ~ (g = Parent(h) /\ ~ Contains(Children(g), h))
      <3>1. bc'.chain[g] = Children(g)
        BY <1>1, <2>4
      <3> QED
        BY <3>1, <2>1, <2>2, <2>4
    <2> QED
      BY <2>3, <2>4
  <1>9. \E r \in Known' : \A x \in Known' \ {r} :
            /\ Parent(x) \in Known'
            /\ BlockOf[x].height > BlockOf[r].height
            /\ BlockOf[x].height = BlockOf[Parent(x)].height + 1
            /\ BlockOf[x].slot > BlockOf[Parent(x)].slot
    BY <1>1, <1>6
  <1>10. \A g \in Known' :
            /\ {bc'.chain[g][i] : i \in DOMAIN bc'.chain[g]}
                    = {x \in Known' : Parent(x) = g}
            /\ \A i, j \in DOMAIN bc'.chain[g] :
                    bc'.chain[g][i] = bc'.chain[g][j] => i = j
    BY <1>1, <1>8 DEF Members
  <1> QED
    BY <1>1, <1>3, <1>9, <1>10 DEF OneTree, Parent

-----------------------------------------------------------------------------
(* The invariant *)

\* Blockchain::new starts with genesis alone, which satisfies the invariant.
LEMMA InitInv == Init => Inv
  <1> SUFFICES ASSUME Init PROVE Inv
    OBVIOUS
  <1>1. /\ bc = [chain |-> [g \in {Genesis} |-> <<>>], head_hash |-> Genesis,
                state |-> NewState, mempool |-> {}]
        /\ DOMAIN snapshots = {}
    BY DEF Init, NewBlockchain, RestoreHead, EmptyMap
  <1>2. /\ bc.chain = [g \in {Genesis} |-> <<>>]
        /\ Known = {Genesis}
        /\ bc.head_hash = Genesis
        /\ bc.state = NewState
    BY <1>1 DEF Known
  <1>3. TypeOK
    BY <1>1, <1>2, HashAssumption DEF TypeOK
  <1>4. HeadIsBest
    BY <1>2 DEF HeadIsBest
  <1>5. OneTree
    <2>1. Parent(Genesis) # Genesis
      BY GenesisAssumption, HashAssumption DEF Parent
    <2> QED
      BY <1>2, <2>1 DEF OneTree
  <1>6. StateIsReplay
    BY <1>1, <1>2 DEF StateIsReplay, StateAfter
  <1> QED
    BY <1>3, <1>4, <1>5, <1>6 DEF Inv

\* A step that leaves the tree and the stored states alone.
LEMMA SameTreeInv ==
    ASSUME Inv,
           bc' = [chain |-> bc.chain, head_hash |-> bc.head_hash,
                  state |-> bc.state, mempool   |-> bc'.mempool],
           UNCHANGED snapshots
    PROVE  Inv'
  <1>1. /\ bc'.chain = bc.chain
        /\ bc'.head_hash = bc.head_hash
        /\ bc'.state = bc.state
        /\ Known' = Known
    BY DEF Known
  <1>2. TypeOK'
    BY <1>1 DEF Inv, TypeOK
  <1>3. HeadIsBest'
    BY <1>1 DEF Inv, HeadIsBest, Above
  <1>4. OneTree'
    BY <1>1 DEF Inv, OneTree, Parent
  <1>5. StateIsReplay'
    BY <1>1 DEF Inv, StateIsReplay, StateAfter, Parent
  <1> QED
    BY <1>2, <1>3, <1>4, <1>5 DEF Inv

\* add_transaction touches the mempool only.
LEMMA SubmitInv ==
    ASSUME Inv, NEW tx, SubmitTransaction(tx)
    PROVE  Inv'
  <1>1. bc = [chain |-> bc.chain, head_hash |-> bc.head_hash,
              state |-> bc.state, mempool   |-> bc.mempool]
    BY DEF Inv, TypeOK
  <1>2. /\ bc' = [chain |-> bc.chain, head_hash |-> bc.head_hash,
                 state |-> bc.state, mempool   |-> bc'.mempool]
        /\ UNCHANGED snapshots
    BY <1>1 DEF SubmitTransaction, AddTransaction
  <1> QED
    BY <1>2, SameTreeInv

\* restore_head leaves one stored block, with its stored state.
LEMMA RestoreInv ==
    ASSUME Inv, NEW h \in Hash, Restore(h)
    PROVE  Inv'
  <1>1. /\ bc' = [chain |-> [g \in {h} |-> <<>>], head_hash |-> h,
                 state |-> snapshots[h], mempool |-> {}]
        /\ h \in DOMAIN snapshots
        /\ snapshots' = snapshots
    BY DEF Restore, RestoreHead
  <1>2. /\ bc'.chain = [g \in {h} |-> <<>>]
        /\ Known' = {h}
        /\ bc'.head_hash = h
        /\ bc'.state = snapshots[h]
    BY <1>1 DEF Known
  <1>3. TypeOK'
    BY <1>1, <1>2 DEF Inv, TypeOK
  <1>4. HeadIsBest'
    BY <1>2 DEF HeadIsBest
  <1>5. Parent(h) # h
    <2>1. /\ BlockOf[h].height = BlockOf[Parent(h)].height + 1
          /\ BlockOf[h].height \in Nat
      BY <1>1, AcceptedHeader, BlockAssumption DEF Inv, StateIsReplay
    <2> QED
      BY <2>1
  <1>6. OneTree'
    BY <1>2, <1>5 DEF OneTree, Parent
  <1>7. StateIsReplay'
    <2>1. h # Genesis
      BY <1>1 DEF Inv, TypeOK
    <2> QED
      BY <1>1, <1>2, <2>1 DEF Inv, StateIsReplay, StateAfter, Parent
  <1> QED
    BY <1>3, <1>4, <1>6, <1>7 DEF Inv

\* add_block keeps the invariant, whether it fails, adds a fork or a new head.
LEMMA ImportInv ==
    ASSUME Inv, NEW h \in Hash, ImportBlock(h)
    PROVE  Inv'
  <1> DEFINE added == AddBlock(bc, h, ParentState(h))
             rules == ValidateAndApply(BlockOf[Parent(h)], ParentState(h), BlockOf[h])
  <1>1. CASE ~ added.ok
    <2>1. bc' = bc /\ snapshots' = snapshots
      BY <1>1, AddBlockFails DEF ImportBlock, Inv
    <2> QED
      BY <2>1, SameTreeInv DEF Inv, TypeOK
  <1>2. CASE added.ok
    <2>1. /\ Parent(h) \in Known
          /\ rules.ok
          /\ bc' = [chain |-> bc'.chain, head_hash |-> bc'.head_hash,
                   state |-> bc'.state, mempool   |-> bc'.mempool]
          /\ bc'.chain = Linked(bc.chain, h)
          /\ \/ /\ Above(h, bc.head_hash)
                /\ bc'.head_hash = h
                /\ bc'.state = rules.state
             \/ /\ ~ Above(h, bc.head_hash)
                /\ bc'.head_hash = bc.head_hash
                /\ bc'.state = bc.state
          /\ snapshots' = Put(snapshots, h, rules.state)
      BY <1>2, AddBlockSucceeds DEF ImportBlock
    <2>2. /\ BlockOf[h].signed
          /\ BlockOf[h].height = BlockOf[Parent(h)].height + 1
          /\ BlockOf[h].slot > BlockOf[Parent(h)].slot
      BY <2>1, AcceptedHeader
    <2>3. h # Genesis
      BY <2>2, GenesisAssumption
    <2>4. /\ bc'.chain \in [Known \cup {h} -> Seq(Hash)]
          /\ Known' = Known \cup {h}
          /\ OneTree'
      BY <2>1, <2>2, LinkedTree DEF Inv
    <2>5. /\ DOMAIN snapshots' = DOMAIN snapshots \cup {h}
          /\ snapshots'[h] = rules.state
          /\ \A g \in DOMAIN snapshots \ {h} : snapshots'[g] = snapshots[g]
      BY <2>1 DEF Put
    <2>6. TypeOK'
      BY <2>1, <2>3, <2>4, <2>5 DEF Inv, TypeOK
    <2>7. HeadIsBest'
      <3>1. Known \subseteq Hash /\ bc.head_hash \in Hash
        BY DEF Inv, TypeOK
      <3>2. \A g \in Known \ {bc.head_hash} : Above(bc.head_hash, g)
        BY DEF Inv, HeadIsBest
      <3>3. \A g \in Known' \ {bc'.head_hash} : Above(bc'.head_hash, g)
        BY <2>1, <2>4, <3>1, <3>2, AboveOrder
      <3> QED
        BY <3>3 DEF HeadIsBest, Above
    <2>8. ParentState(h) = StateAfter(Parent(h))
      BY <2>1 DEF Inv, TypeOK, StateIsReplay, ParentState, StateAfter, ImportBlock
    <2>9. h \in DOMAIN snapshots => rules.state = snapshots[h]
      BY <2>8 DEF Inv, StateIsReplay
    <2>10. \A g \in DOMAIN snapshots : snapshots'[g] = snapshots[g]
      BY <2>5, <2>9
    <2>11. \A g \in DOMAIN snapshots \cup {Genesis} : StateAfter(g)' = StateAfter(g)
      BY <2>10 DEF StateAfter
    <2>12. Parent(h) \in DOMAIN snapshots \cup {Genesis}
      BY <2>1 DEF Inv, StateIsReplay
    <2>13. StateIsReplay'
      <3>1. Known' \subseteq DOMAIN snapshots' \cup {Genesis}
        BY <2>4, <2>5 DEF Inv, StateIsReplay
      <3>2. bc'.state = IF bc'.head_hash = Genesis THEN NewState
                        ELSE snapshots'[bc'.head_hash]
        <4>1. CASE bc'.head_hash = h /\ bc'.state = rules.state
          BY <4>1, <2>3, <2>5
        <4>2. CASE bc'.head_hash = bc.head_hash /\ bc'.state = bc.state
          BY <4>2, <2>10 DEF Inv, StateIsReplay, StateAfter, TypeOK
        <4> QED
          BY <4>1, <4>2, <2>1
      <3>3. ASSUME NEW g \in DOMAIN snapshots'
            PROVE  /\ Parent(g) \in DOMAIN snapshots' \cup {Genesis}
                   /\ LET r == ValidateAndApply(BlockOf[Parent(g)],
                                               StateAfter(Parent(g))', BlockOf[g])
                      IN  r.ok /\ r.state = snapshots'[g]
        <4>1. CASE g = h
          BY <4>1, <2>1, <2>5, <2>8, <2>11, <2>12
        <4>2. CASE g \in DOMAIN snapshots
          BY <4>2, <2>5, <2>10, <2>11 DEF Inv, StateIsReplay
        <4> QED
          BY <4>1, <4>2, <2>5
      <3> QED
        BY <3>1, <3>2, <3>3 DEF StateIsReplay, StateAfter, Parent
    <2> QED
      BY <2>4, <2>6, <2>7, <2>13 DEF Inv
  <1> QED
    BY <1>1, <1>2

\* Every call keeps the invariant.
LEMMA StepInv == Inv /\ [Next]_vars => Inv'
  <1> SUFFICES ASSUME Inv, [Next]_vars PROVE Inv'
    OBVIOUS
  <1>1. ASSUME NEW h \in Hash, ImportBlock(h) PROVE Inv'
    BY <1>1, ImportInv
  <1>2. ASSUME NEW h \in Hash, Restore(h) PROVE Inv'
    BY <1>2, RestoreInv
  <1>3. ASSUME NEW tx \in Transactions, SubmitTransaction(tx) PROVE Inv'
    BY <1>3, SubmitInv
  <1>4. CASE UNCHANGED vars
    BY <1>4, SameTreeInv DEF vars, Inv, TypeOK
  <1> QED
    BY <1>1, <1>2, <1>3, <1>4 DEF Next

\* The inductive invariant holds after any calls of the Blockchain's methods.
THEOREM Invariance == Spec => []Inv
  BY InitInv, StepInv, PTL DEF Spec

-----------------------------------------------------------------------------
(* The theorems *)

\* The blockchain is well formed after any calls of its methods.
THEOREM TypeCorrect == Spec => []TypeOK
  <1>1. Inv => TypeOK
    BY DEF Inv
  <1> QED
    BY <1>1, Invariance, PTL

\* Fork choice: the head that should_replace_head leaves is above every other
\* known block, in whatever order the blocks were added.
THEOREM ForkChoice == Spec => []HeadIsBest
  <1>1. Inv => HeadIsBest
    BY DEF Inv
  <1> QED
    BY <1>1, Invariance, PTL

\* The chain map of Blockchain is one tree with exact children lists.
THEOREM TreeShape == Spec => []OneTree
  <1>1. Inv => OneTree
    BY DEF Inv
  <1> QED
    BY <1>1, Invariance, PTL

\* The state at the head, and every stored state, is what the ledger rules
\* make of the chain below it, whatever those rules are.
THEOREM StateFollowsHead == Spec => []StateIsReplay
  <1>1. Inv => StateIsReplay
    BY DEF Inv
  <1> QED
    BY <1>1, Invariance, PTL
=============================================================================
