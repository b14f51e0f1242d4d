-------------------------- MODULE NvsStorageProofs ---------------------------
(***************************************************************************)
(* The flash storage keeps its buckets in order and implements the store a *)
(* node relies on, for any hashes, buckets, number of slots and number of  *)
(* crashes.  The order of the buckets is what makes the scans of load and  *)
(* save see the same slot; that a snapshot follows its block through the   *)
(* channel is what makes the pointer complete.                             *)
(***************************************************************************)
EXTENDS NvsStorage, TLAPS

\* A load of the hash under the prefix finds something.
Stored(prefix, hash) == \E slot \in Slot : Holds(prefix, hash, slot)

\* Every snapshot that waits to be stored has its block in the flash already,
\* or ahead of it in the channel.
BlockFirst ==
    \A i \in 1..Len(commands) : commands[i].type = "PersistSnapshot" =>
        \/ Stored("b", commands[i].hash)
        \/ \E j \in 1..(i - 1) : commands[j] = PersistBlock(commands[i].hash)

\* Every snapshot in the flash has its block there, and so do the pointer and
\* the block the pointer is about to move to, with their snapshots.
SnapshotsHaveBlocks == \A hash \in Hash : Stored("s", hash) => Stored("b", hash)

Targets ==
    /\ latest # None => Stored("s", latest)
    /\ pointing # None => Stored("s", pointing)

\* The inductive invariant.
IInv ==
    /\ TypeOK
    /\ BucketsInOrder
    /\ BlockFirst
    /\ SnapshotsHaveBlocks
    /\ Targets

-----------------------------------------------------------------------------

\* In an ordered bucket a load answers with the payload of the hash, exactly
\* when some slot holds it.
LEMMA LoadFinds ==
    ASSUME TypeOK, BucketsInOrder, NEW prefix \in Prefix, NEW hash \in Hash
    PROVE  LoadHashedBlob(prefix, hash) =
               IF Stored(prefix, hash) THEN Payload(prefix, hash) ELSE None
<1>1. CASE ~ Stored(prefix, hash)
  BY <1>1 DEF LoadHashedBlob, Stored
<1>2. CASE Stored(prefix, hash)
  <2>1. PICK slot \in Slot : Holds(prefix, hash, slot)
    BY <1>2 DEF Stored
  <2>2. \A s \in 0..(slot - 1) : ~ Holds(prefix, hash, s)
    BY <2>1, NvsAssumption DEF Holds, Free, Blob, BucketsInOrder, TypeOK, Slot
  <2>3. \A s \in Slot : Holds(prefix, hash, s) => Blob(prefix, hash, s).payload = Payload(prefix, hash)
    BY NvsAssumption DEF Holds, Free, Blob, BucketsInOrder, TypeOK, Slot
  <2> QED
    BY <1>2, <2>1, <2>2, <2>3 DEF LoadHashedBlob, Stored
<1> QED BY <1>1, <1>2

\* So a block is loaded exactly when it is stored, and passes its own check.
LEMMA LoadBlockFinds ==
    ASSUME TypeOK, BucketsInOrder, NEW hash \in Hash
    PROVE  /\ LoadBlock(hash) = IF Stored("b", hash) THEN hash ELSE None
           /\ LoadBlock(hash) # None <=> Stored("b", hash)
  BY LoadFinds, NvsAssumption DEF LoadBlock, Payload, Prefix

\* A save keeps what is stored, adds its own hash and no other, and leaves the
\* buckets in order.
LEMMA TakeSlotStores ==
    ASSUME TypeOK, BucketsInOrder, NEW prefix \in Prefix, NEW hash \in Hash,
           TakeSlot(prefix, hash)
    PROVE  /\ nvs' \in [Prefix -> [Bucket -> [Slot -> Envelope \cup {None}]]]
           /\ BucketsInOrder'
           /\ \A p \in Prefix, h \in Hash :
                  Stored(p, h)' <=> Stored(p, h) \/ (p = prefix /\ h = hash)
<1> DEFINE new == [hash |-> hash, payload |-> Payload(prefix, hash)]
<1> DEFINE bucket == BucketOf[hash]
<1>1. new \in Envelope /\ new # None /\ new.hash = hash
                       /\ new.payload = Payload(prefix, hash) /\ bucket \in Bucket
  <2>1. Payload(prefix, hash) \in Hash \cup State
    BY NvsAssumption DEF Payload
  <2>2. new \in Envelope
    BY <2>1 DEF Envelope
  <2> QED BY <2>2, NvsAssumption DEF Envelope
<1>2. PICK slot \in Slot :
          /\ MayTake(prefix, hash, slot)
          /\ \A s \in 0..(slot - 1) : ~ MayTake(prefix, hash, s)
          /\ nvs' = [nvs EXCEPT ![prefix][bucket][slot] = new]
  BY DEF TakeSlot
<1> HIDE DEF new
<1>3. \A p \in Prefix, b \in Bucket, s \in Slot :
          nvs'[p][b][s] = IF p = prefix /\ b = bucket /\ s = slot THEN new ELSE nvs[p][b][s]
  BY <1>1, <1>2 DEF TypeOK
<1>4. nvs' \in [Prefix -> [Bucket -> [Slot -> Envelope \cup {None}]]]
  BY <1>1, <1>2 DEF TypeOK
<1>5. \A s \in 0..(slot - 1) : /\ s \in Slot
                               /\ nvs[prefix][bucket][s] # None
                               /\ nvs[prefix][bucket][s].hash # hash
  BY <1>2, NvsAssumption DEF MayTake, Free, Holds, Blob, Slot
<1>6. nvs[prefix][bucket][slot] = None \/ nvs[prefix][bucket][slot].hash = hash
  BY <1>2 DEF MayTake, Free, Holds, Blob
<1>7. BucketsInOrder'
  <2> SUFFICES ASSUME NEW p \in Prefix, NEW b \in Bucket, NEW s \in Slot, nvs'[p][b][s] # None
               PROVE  /\ BucketOf[nvs'[p][b][s].hash] = b
                      /\ nvs'[p][b][s].payload = Payload(p, nvs'[p][b][s].hash)
                      /\ \A t \in 0..(s - 1) :
                             nvs'[p][b][t] # None /\ nvs'[p][b][t].hash # nvs'[p][b][s].hash
    BY DEF BucketsInOrder, Payload
  <2>0. \A t \in 0..(s - 1) : t \in Slot /\ t # s
    BY NvsAssumption DEF Slot
  <2>1. CASE p # prefix \/ b # bucket
    <3>1. \A t \in Slot : nvs'[p][b][t] = nvs[p][b][t]
      BY <1>3, <2>1
    <3> QED BY <3>1, <2>0 DEF BucketsInOrder
  <2>2. CASE p = prefix /\ b = bucket /\ s = slot
    <3>1. nvs'[p][b][s] = new
      BY <1>3, <2>2
    <3>2. \A t \in 0..(s - 1) : nvs'[p][b][t] = nvs[p][b][t]
      BY <1>3, <2>0, <2>2
    <3> QED BY <1>1, <1>5, <2>2, <3>1, <3>2
  <2>3. CASE p = prefix /\ b = bucket /\ s # slot
    <3>1. nvs'[p][b][s] = nvs[p][b][s]
      BY <1>3, <2>3
    <3>2. \A t \in 0..(s - 1) : nvs[p][b][t] # None /\ nvs[p][b][t].hash # nvs[p][b][s].hash
      BY <3>1 DEF BucketsInOrder
    <3>3. ASSUME slot \in 0..(s - 1)
          PROVE  nvs[p][b][s].hash # hash
      BY <3>2, <3>3, <1>6, <2>3
    <3>4. ASSUME NEW t \in 0..(s - 1)
          PROVE  nvs'[p][b][t] # None /\ nvs'[p][b][t].hash # nvs[p][b][s].hash
      BY <1>1, <1>3, <2>0, <2>3, <3>2, <3>3
    <3> QED BY <3>1, <3>4 DEF BucketsInOrder
  <2> QED BY <2>1, <2>2, <2>3
<1>8. ASSUME NEW p \in Prefix, NEW h \in Hash
      PROVE  Stored(p, h)' <=> Stored(p, h) \/ (p = prefix /\ h = hash)
  <2>1. BucketOf[h] \in Bucket
    BY NvsAssumption
  <2>2. \A s \in Slot :
            Holds(p, h, s) <=> /\ nvs[p][BucketOf[h]][s] # None
                               /\ nvs[p][BucketOf[h]][s].hash = h
    BY DEF Holds, Free, Blob
  <2>3. \A s \in Slot :
            Holds(p, h, s)' <=> /\ nvs'[p][BucketOf[h]][s] # None
                                /\ nvs'[p][BucketOf[h]][s].hash = h
    BY DEF Holds, Free, Blob
  <2>4. ASSUME NEW s \in Slot, Holds(p, h, s) PROVE Holds(p, h, s)' \/ (p = prefix /\ h = hash)
    BY <1>1, <1>3, <1>6, <2>1, <2>2, <2>3, <2>4
  <2>5. ASSUME NEW s \in Slot, Holds(p, h, s)' PROVE Holds(p, h, s) \/ (p = prefix /\ h = hash)
    BY <1>1, <1>3, <2>1, <2>2, <2>3, <2>5
  <2>6. ASSUME p = prefix, h = hash PROVE Holds(p, h, slot)'
    BY <1>1, <1>3, <2>1, <2>3, <2>6
  <2> QED BY <2>4, <2>5, <2>6 DEF Stored
<1> QED BY <1>4, <1>7, <1>8

-----------------------------------------------------------------------------

\* What is stored depends on the flash alone.
LEMMA StoredUnchanged ==
    ASSUME UNCHANGED nvs
    PROVE  /\ BucketsInOrder <=> BucketsInOrder'
           /\ \A p \in Prefix, h \in Hash : Stored(p, h)' <=> Stored(p, h)
  BY DEF BucketsInOrder, Stored, Holds, Free, Blob

\* Taking the first command keeps the order of blocks and snapshots in the
\* channel, as long as a block that is taken is stored.
LEMMA TailKeepsOrder ==
    ASSUME commands \in Seq(Command), commands # <<>>, BlockFirst,
           commands' = Tail(commands),
           \A h \in Hash : Stored("b", h) => Stored("b", h)',
           \A h \in Hash : Head(commands) = PersistBlock(h) => Stored("b", h)'
    PROVE  BlockFirst'
<1> SUFFICES ASSUME NEW i \in 1..Len(commands'), commands'[i].type = "PersistSnapshot"
             PROVE  \/ Stored("b", commands[i].hash)'
                    \/ \E j \in 1..(i - 1) : commands'[j] = PersistBlock(commands'[i].hash)
  BY DEF BlockFirst, PersistBlock
<1>1. /\ i + 1 \in 1..Len(commands) /\ commands'[i] = commands[i + 1]
      /\ \A j \in 2..i : commands[j] = commands'[j - 1]
  OBVIOUS
<1>2. commands[i + 1].hash \in Hash
  BY <1>1 DEF Command, LoadLatestSnapshot
<1>3. CASE Stored("b", commands[i + 1].hash)
  BY <1>1, <1>2, <1>3
<1>4. ASSUME NEW j \in 1..i, commands[j] = PersistBlock(commands[i + 1].hash)
      PROVE  \/ Stored("b", commands[i].hash)'
             \/ \E k \in 1..(i - 1) : commands'[k] = PersistBlock(commands'[i].hash)
  <2>1. CASE j = 1
    BY <1>1, <1>2, <1>4, <2>1
  <2>2. CASE j # 1
    <3>1. j - 1 \in 1..(i - 1) /\ commands'[j - 1] = PersistBlock(commands'[i].hash)
      BY <1>1, <1>4, <2>2
    <3> QED BY <3>1
  <2> QED BY <2>1, <2>2
<1> QED BY <1>1, <1>3, <1>4 DEF BlockFirst

\* The commands the node appends keep it too.
LEMMA AppendKeepsOrder ==
    ASSUME commands \in Seq(Command), BlockFirst, UNCHANGED nvs, NEW hash \in Hash,
           \/ commands' = commands \o <<PersistBlock(hash), PersistSnapshot(hash)>>
           \/ commands' = Append(commands, LoadSnapshot(hash))
    PROVE  commands' \in Seq(Command) /\ BlockFirst'
<1>1. {PersistBlock(hash), PersistSnapshot(hash), LoadSnapshot(hash)} \subseteq Command
  BY DEF PersistBlock, PersistSnapshot, LoadSnapshot, Command
<1>2. commands' \in Seq(Command)
  <2>1. <<PersistBlock(hash), PersistSnapshot(hash)>> \in Seq(Command)
    BY <1>1
  <2>2. commands \o <<PersistBlock(hash), PersistSnapshot(hash)>> \in Seq(Command)
    BY <2>1
  <2>3. Append(commands, LoadSnapshot(hash)) \in Seq(Command)
    BY <1>1
  <2> QED BY <2>2, <2>3
<1>3. /\ Len(commands') >= Len(commands)
      /\ \A i \in 1..Len(commands) : commands'[i] = commands[i]
  BY <1>1
<1>4. ASSUME NEW i \in 1..Len(commands'), commands'[i].type = "PersistSnapshot"
      PROVE  \/ Stored("b", commands[i].hash)'
             \/ \E j \in 1..(i - 1) : commands'[j] = PersistBlock(commands'[i].hash)
  <2>1. CASE i \in 1..Len(commands)
    <3>1. commands[i].hash \in Hash
      BY <1>3, <1>4, <2>1 DEF Command, LoadLatestSnapshot
    <3> QED BY <1>3, <1>4, <2>1, <3>1, StoredUnchanged DEF BlockFirst, Prefix
  <2>2. CASE i \notin 1..Len(commands)
    <3>1. CASE commands' = commands \o <<PersistBlock(hash), PersistSnapshot(hash)>>
      <4>1. /\ Len(commands') = Len(commands) + 2
            /\ commands'[Len(commands) + 1] = PersistBlock(hash)
            /\ commands'[Len(commands) + 2] = PersistSnapshot(hash)
        BY <1>1, <3>1
      <4>2. i = Len(commands) + 2
        BY <1>4, <2>2, <4>1 DEF PersistBlock
      <4> QED BY <4>1, <4>2 DEF PersistSnapshot
    <3>2. CASE commands' = Append(commands, LoadSnapshot(hash))
      BY <1>1, <1>4, <2>2, <3>2 DEF LoadSnapshot
    <3> QED BY <3>1, <3>2
  <2> QED BY <2>1, <2>2
<1> QED BY <1>2, <1>4 DEF BlockFirst

-----------------------------------------------------------------------------

\* The strengthened invariant holds of an empty flash and idle channels.
LEMMA InitIInv == Init => IInv
<1> SUFFICES ASSUME Init PROVE IInv
  OBVIOUS
<1>1. TypeOK
  <2>1. commands \in Seq(Command) /\ replies \in Seq(Event)
    BY DEF Init, Command
  <2> QED BY <2>1, NvsAssumption DEF Init, TypeOK
<1>2. \A p \in Prefix, b \in Bucket, s \in Slot : nvs[p][b][s] = None
  BY DEF Init
<1>3. BucketsInOrder
  BY <1>2 DEF BucketsInOrder
<1>4. \A p \in Prefix, h \in Hash : ~ Stored(p, h)
  BY <1>2, NvsAssumption DEF Stored, Holds, Free, Blob
<1>5. BlockFirst
  BY DEF Init, BlockFirst, LoadLatestSnapshot
<1> QED BY <1>1, <1>3, <1>4, <1>5 DEF Init, IInv, SnapshotsHaveBlocks, Targets, Prefix

\* The facts a step that leaves the flash alone has to keep.
LEMMA FlashUnchanged ==
    ASSUME IInv, UNCHANGED nvs, TypeOK', BlockFirst',
           latest' = latest \/ (pointing # None /\ latest' = pointing),
           pointing' = pointing \/ pointing' = None
    PROVE  IInv'
<1>1. \A p \in Prefix, h \in Hash : Stored(p, h)' <=> Stored(p, h)
  BY StoredUnchanged
<1>2. /\ latest' # None => latest' \in Hash /\ Stored("s", latest')
      /\ pointing' # None => pointing' \in Hash /\ Stored("s", pointing')
  BY DEF IInv, Targets, TypeOK
<1>3. (latest # None => Stored("s", latest))' /\ (pointing # None => Stored("s", pointing))'
  <2>1. ASSUME NEW h \in Hash PROVE Stored("s", h) => \E slot \in Slot : Holds("s", h, slot)'
    BY <1>1 DEF Stored, Prefix
  <2> QED BY <1>2, <2>1 DEF Stored, Holds, Free, Blob
<1> QED BY <1>1, <1>3, StoredUnchanged DEF IInv, SnapshotsHaveBlocks, Targets, Prefix

\* The commands of the channel and their hashes.
LEMMA HeadTyped ==
    ASSUME TypeOK, commands # <<>>
    PROVE  /\ Head(commands) \in Command
           /\ Tail(commands) \in Seq(Command)
           /\ Head(commands).type # "LoadLatestSnapshot" => Head(commands).hash \in Hash
           /\ Head(commands).type = "PersistBlock" =>
                  Head(commands) = PersistBlock(Head(commands).hash)
           /\ \A h \in Hash : Head(commands) = PersistBlock(h) =>
                  Head(commands).type = "PersistBlock" /\ Head(commands).hash = h
<1>1. Head(commands) \in Command /\ Tail(commands) \in Seq(Command)
  BY DEF TypeOK
<1> QED BY <1>1 DEF Command, LoadLatestSnapshot, PersistBlock

\* A step that stores the head of the channel, whose block is stored already
\* when it is a snapshot.
LEMMA SaveStep ==
    ASSUME IInv, SaveBlock \/ SaveSnapshot
    PROVE  IInv'
<1> DEFINE h == Head(commands).hash
<1>1. /\ commands # <<>> /\ commands' = Tail(commands) /\ TypeOK /\ BucketsInOrder
      /\ h \in Hash /\ Tail(commands) \in Seq(Command)
      /\ UNCHANGED <<latest, replies, up, imported, crashes>>
  BY HeadTyped DEF IInv, SaveBlock, SaveSnapshot, Take, Ready
<1>2. CASE SaveBlock
  <2>1. TakeSlot("b", h) /\ UNCHANGED pointing /\ Head(commands).type = "PersistBlock"
    BY <1>2 DEF SaveBlock, Take, Ready
  <2>2. /\ nvs' \in [Prefix -> [Bucket -> [Slot -> Envelope \cup {None}]]]
        /\ BucketsInOrder'
        /\ \A g \in Hash : Stored("b", g)' <=> Stored("b", g) \/ g = h
        /\ \A g \in Hash : Stored("s", g)' <=> Stored("s", g)
    <3>1. "b" \in Prefix /\ "s" \in Prefix /\ "b" # "s"
      BY DEF Prefix
    <3> QED BY <1>1, <2>1, <3>1, TakeSlotStores
  <2>3. TypeOK'
    BY <1>1, <2>1, <2>2 DEF TypeOK
  <2>4. BlockFirst'
    <3>1. \A g \in Hash : Head(commands) = PersistBlock(g) => Stored("b", g)'
      BY <1>1, <2>2, HeadTyped
    <3> QED BY <1>1, <2>2, <3>1, TailKeepsOrder DEF IInv, TypeOK
  <2>5. Targets'
    <3>1. /\ latest # None => latest \in Hash /\ Stored("s", latest)'
          /\ pointing # None => pointing \in Hash /\ Stored("s", pointing)'
      <4>1. /\ latest # None => latest \in Hash /\ Stored("s", latest)
            /\ pointing # None => pointing \in Hash /\ Stored("s", pointing)
        BY DEF IInv, TypeOK, Targets
      <4>2. latest' = latest /\ pointing' = pointing
        BY <1>1, <2>1
      <4> QED BY <4>1, <4>2, <2>2 DEF Stored, Holds, Free, Blob
    <3> QED BY <3>1, <1>1, <2>1 DEF Targets
  <2> QED BY <2>2, <2>3, <2>4, <2>5 DEF IInv, SnapshotsHaveBlocks
<1>3. CASE SaveSnapshot
  <2>1. TakeSlot("s", h) /\ pointing' = h /\ Head(commands).type = "PersistSnapshot"
    BY <1>3 DEF SaveSnapshot, Take, Ready
  <2>2. /\ nvs' \in [Prefix -> [Bucket -> [Slot -> Envelope \cup {None}]]]
        /\ BucketsInOrder'
        /\ \A g \in Hash : Stored("b", g)' <=> Stored("b", g)
        /\ \A g \in Hash : Stored("s", g)' <=> Stored("s", g) \/ g = h
    <3>1. "b" \in Prefix /\ "s" \in Prefix /\ "b" # "s"
      BY DEF Prefix
    <3> QED BY <1>1, <2>1, <3>1, TakeSlotStores
  <2>3. TypeOK'
    BY <1>1, <2>1, <2>2 DEF TypeOK
  <2>4. BlockFirst'
    <3>1. \A g \in Hash : Head(commands) # PersistBlock(g)
      BY <2>1 DEF PersistBlock
    <3> QED BY <1>1, <2>2, <3>1, TailKeepsOrder DEF IInv, TypeOK
  <2>5. Stored("b", h)
    <3>1. 1 \in 1..Len(commands) /\ commands[1] = Head(commands)
      BY <1>1 DEF TypeOK
    <3> QED BY <2>1, <3>1 DEF IInv, BlockFirst
  <2>6. Targets'
    <3>1. /\ latest # None => latest \in Hash /\ Stored("s", latest)
          /\ latest' = latest
      BY <1>1 DEF IInv, TypeOK, Targets
    <3>2. \A g \in Hash : g = latest' => (Stored("s", latest)' <=> Stored("s", g)')
      BY DEF Stored, Holds, Free, Blob
    <3>3. \A g \in Hash : g = pointing' => (Stored("s", pointing)' <=> Stored("s", g)')
      BY DEF Stored, Holds, Free, Blob
    <3> QED BY <1>1, <2>1, <2>2, <3>1, <3>2, <3>3 DEF Targets
  <2> QED BY <2>2, <2>3, <2>4, <2>5, <2>6 DEF IInv, SnapshotsHaveBlocks
<1> QED BY <1>2, <1>3

\* Every command, event, failure and loss of power preserves it.
LEMMA NextIInv == IInv /\ [Next]_vars => IInv'
<1> SUFFICES ASSUME IInv, [Next]_vars PROVE IInv'
  OBVIOUS
<1>0. TypeOK /\ commands \in Seq(Command) /\ <<>> \in Seq(Command)
  BY DEF IInv, TypeOK
<1>a. ASSUME UNCHANGED <<nvs, commands>> PROVE BlockFirst'
  BY <1>a DEF IInv, BlockFirst, Stored, Holds, Free, Blob
<1>b. ASSUME UNCHANGED nvs, commands # <<>>, commands' = Tail(commands),
             Head(commands).type # "PersistBlock"
      PROVE  BlockFirst'
  <2>1. \A h \in Hash : Stored("b", h) => Stored("b", h)'
    BY <1>b, StoredUnchanged DEF Prefix
  <2>2. \A h \in Hash : Head(commands) # PersistBlock(h)
    BY <1>b DEF PersistBlock
  <2> QED BY <1>0, <1>b, <2>1, <2>2, TailKeepsOrder DEF IInv
<1>1. CASE SaveBlock \/ SaveSnapshot
  BY <1>1, SaveStep
<1>2. CASE SaveLatest
  BY <1>0, <1>2, <1>a, FlashUnchanged DEF SaveLatest, TypeOK
<1>3. CASE NoRoom \/ FlashFails
  <2>1. WorkerEnds
    BY <1>3 DEF NoRoom, FlashFails
  <2>2. TypeOK'
    BY <1>0, <2>1 DEF WorkerEnds, TypeOK
  <2>3. BlockFirst'
    BY <2>1 DEF WorkerEnds, BlockFirst
  <2> QED BY <2>1, <2>2, <2>3, FlashUnchanged DEF WorkerEnds
<1>4. CASE LoadStored \/ LoadLatest
  <2>1. /\ commands # <<>> /\ commands' = Tail(commands)
        /\ Head(commands).type # "PersistBlock"
        /\ UNCHANGED <<nvs, latest, pointing, up, imported, crashes>>
    BY <1>4 DEF LoadStored, LoadLatest, Take, Ready
  <2>2. \A h \in Hash : LoadHashedBlob("s", h) \in State \cup {None}
    BY LoadFinds, NvsAssumption DEF IInv, Payload, Prefix
  <2>3. replies' \in Seq(Event)
    <3>1. CASE LoadStored
      <4>1. Head(commands).hash \in Hash
        BY <1>0, <3>1, HeadTyped DEF LoadStored, Take, Ready
      <4>2. [type |-> "StorageLoaded", hash |-> Head(commands).hash,
             state |-> LoadHashedBlob("s", Head(commands).hash)] \in Event
        BY <2>2, <4>1 DEF Event
      <4> QED BY <1>0, <3>1, <4>2 DEF LoadStored, TypeOK
    <3>2. CASE LoadLatest
      <4>1. LatestBundle => latest \in Hash
        BY <1>0 DEF LatestBundle, TypeOK
      <4>2. LatestBundle => [type |-> "LatestSnapshotLoaded", hash |-> latest,
                             state |-> LoadHashedBlob("s", latest)] \in Event
        BY <2>2, <4>1 DEF Event
      <4>3. [type |-> "LatestSnapshotLoaded", hash |-> None, state |-> None] \in Event
        BY DEF Event
      <4> QED BY <1>0, <3>2, <4>2, <4>3 DEF LoadLatest, TypeOK
    <3> QED BY <1>4, <3>1, <3>2
  <2>4. TypeOK'
    BY <1>0, <2>1, <2>3, HeadTyped DEF TypeOK
  <2> QED BY <1>b, <2>1, <2>4, FlashUnchanged
<1>5. ASSUME NEW hash \in Hash, Import(hash) \/ AskFor(hash)
      PROVE  IInv'
  <2>1. /\ UNCHANGED <<nvs, latest, replies, pointing, up, crashes>>
        /\ imported' \subseteq Hash
        /\ \/ commands' = commands \o <<PersistBlock(hash), PersistSnapshot(hash)>>
           \/ commands' = Append(commands, LoadSnapshot(hash))
    BY <1>0, <1>5 DEF Import, AskFor, TypeOK
  <2>2. commands' \in Seq(Command) /\ BlockFirst'
    BY <1>0, <2>1, AppendKeepsOrder DEF IInv
  <2>3. TypeOK'
    BY <1>0, <2>1, <2>2 DEF TypeOK
  <2> QED BY <2>1, <2>2, <2>3, FlashUnchanged
<1>6. CASE TakeReply
  <2>a. Head(replies) \in Event /\ Tail(replies) \in Seq(Event)
    BY <1>0, <1>6 DEF TakeReply, TypeOK
  <2>0. Head(replies).hash \in Hash \cup {None} /\ Tail(replies) \in Seq(Event)
    BY <2>a DEF Event
  <2>1. TypeOK'
    BY <1>0, <1>6, <2>0 DEF TakeReply, TypeOK
  <2> QED BY <1>6, <1>a, <2>1, FlashUnchanged DEF TakeReply
<1>7. CASE Crash
  <2>1. commands' \in Seq(Command) /\ replies' \in Seq(Event)
    BY <1>7 DEF Crash, Command
  <2>2. TypeOK' /\ BlockFirst'
    BY <1>0, <1>7, <2>1, NvsAssumption DEF Crash, TypeOK, BlockFirst, LoadLatestSnapshot
  <2> QED BY <1>7, <2>2, FlashUnchanged DEF Crash
<1>8. CASE UNCHANGED vars
  <2>1. TypeOK'
    BY <1>0, <1>8 DEF vars, TypeOK
  <2> QED BY <1>8, <1>a, <2>1, FlashUnchanged DEF vars
<1> QED BY <1>1, <1>2, <1>3, <1>4, <1>5, <1>6, <1>7, <1>8 DEF Next

\* The strengthened invariant: types, the order of the buckets, what a save under
\* way has already written, and a complete pointer, at every moment.
THEOREM Invariance == Spec => []IInv
  BY InitIInv, NextIInv, PTL DEF Spec

\* At every moment the slots of a bucket are filled in order, each by another
\* hash of that bucket, so that load and save see the same slot.
THEOREM BucketsStayInOrder == Spec => []BucketsInOrder
<1>1. IInv => BucketsInOrder
  BY DEF IInv
<1> QED BY <1>1, Invariance, PTL

\* At every moment the pointer leads to a block and its own snapshot.
THEOREM LatestStaysComplete == Spec => []LatestIsComplete
<1>1. IInv => LatestIsComplete
  <2> SUFFICES ASSUME IInv, latest # None
               PROVE  LoadBlock(latest) = latest /\ LoadHashedBlob("s", latest) = StateOf[latest]
    BY DEF LatestIsComplete
  <2>1. latest \in Hash /\ Stored("s", latest) /\ Stored("b", latest)
    BY DEF IInv, TypeOK, Targets, SnapshotsHaveBlocks
  <2> QED BY <2>1, LoadFinds, LoadBlockFinds DEF IInv, Payload, Prefix
<1> QED BY <1>1, Invariance, PTL

-----------------------------------------------------------------------------

\* What the refinement mapping makes of a state.
MappedState ==
    /\ StoredBlocks = {h \in Hash : Stored("b", h)}
    /\ DOMAIN StoredSnapshots = {h \in Hash : Stored("s", h)}
    /\ \A h \in DOMAIN StoredSnapshots : StoredSnapshots[h] = StateOf[h]
    /\ StoredSnapshots = [h \in DOMAIN StoredSnapshots |-> StoredSnapshots[h]]

\* The mapped state says what is stored, hash by hash.
LEMMA Mapped == IInv => MappedState
<1> SUFFICES ASSUME IInv PROVE MappedState
  OBVIOUS
<1>1. \A h \in Hash : LoadBlock(h) # None <=> Stored("b", h)
  BY LoadBlockFinds DEF IInv
<1>2. \A h \in Hash : LoadHashedBlob("s", h) = IF Stored("s", h) THEN StateOf[h] ELSE None
  BY LoadFinds DEF IInv, Payload, Prefix
<1>3. \A h \in Hash : StateOf[h] # None
  BY NvsAssumption
<1> QED BY <1>1, <1>2, <1>3 DEF MappedState, StoredBlocks, StoredSnapshots

\* And so it does in the next state.
LEMMA MappedNext == IInv' => MappedState'
  BY Mapped, PTL

\* A step of the storage is a step of the store or leaves it alone.
LEMMA StepImplements ==
    ASSUME IInv, IInv', [Next]_vars
    PROVE  [Store!Next]_(Store!vars)
<1>0. MappedState /\ MappedState'
  BY Mapped, MappedNext
<1>1. CASE SaveBlock
  <2> DEFINE h == Head(commands).hash
  <2>1. h \in Hash /\ TakeSlot("b", h) /\ UNCHANGED latest
    BY <1>1, HeadTyped DEF IInv, SaveBlock, Take, Ready
  <2>2. /\ \A g \in Hash : Stored("b", g)' <=> Stored("b", g) \/ g = h
        /\ \A g \in Hash : Stored("s", g)' <=> Stored("s", g)
    <3>1. "b" \in Prefix /\ "s" \in Prefix /\ "b" # "s"
      BY DEF Prefix
    <3> QED BY <2>1, <3>1, TakeSlotStores DEF IInv
  <2>3. StoredBlocks' = StoredBlocks \cup {h}
    BY <1>0, <2>1, <2>2 DEF MappedState
  <2>4. StoredSnapshots' = StoredSnapshots
    BY <1>0, <2>2 DEF MappedState
  <2> QED BY <2>1, <2>3, <2>4 DEF Store!Next, Store!AddBlock
<1>2. CASE SaveSnapshot
  <2> DEFINE h == Head(commands).hash
  <2>1. h \in Hash /\ TakeSlot("s", h) /\ UNCHANGED latest /\ pointing' = h
    BY <1>2, HeadTyped DEF IInv, SaveSnapshot, Take, Ready
  <2>2. /\ \A g \in Hash : Stored("b", g)' <=> Stored("b", g)
        /\ \A g \in Hash : Stored("s", g)' <=> Stored("s", g) \/ g = h
    <3>1. "b" \in Prefix /\ "s" \in Prefix /\ "b" # "s"
      BY DEF Prefix
    <3> QED BY <2>1, <3>1, TakeSlotStores DEF IInv
  <2>3. StoredBlocks' = StoredBlocks
    BY <1>0, <2>2 DEF MappedState
  <2>4. /\ DOMAIN StoredSnapshots' = DOMAIN StoredSnapshots \cup {h}
        /\ \A g \in DOMAIN StoredSnapshots \ {h} : StoredSnapshots'[g] = StoredSnapshots[g]
    BY <1>0, <2>1, <2>2 DEF MappedState
  <2>5. \A g \in Hash : Stored("s", g)' => Stored("b", g)'
    BY DEF IInv, SnapshotsHaveBlocks
  <2>6. h \in StoredBlocks
    BY <1>0, <2>1, <2>2, <2>5 DEF MappedState
  <2> QED BY <2>1, <2>3, <2>4, <2>6 DEF Store!Next, Store!AddSnapshot
<1>3. ASSUME UNCHANGED nvs
      PROVE  StoredBlocks' = StoredBlocks /\ StoredSnapshots' = StoredSnapshots
  BY <1>3 DEF StoredBlocks, StoredSnapshots, LoadBlock, LoadHashedBlob, Holds, Free, Blob
<1>4. CASE SaveLatest
  <2>1. /\ pointing \in Hash /\ latest' = pointing /\ UNCHANGED nvs
        /\ Stored("s", pointing) /\ Stored("b", pointing)
    BY <1>4 DEF SaveLatest, IInv, TypeOK, Targets, SnapshotsHaveBlocks
  <2>2. pointing \in StoredBlocks \cap DOMAIN StoredSnapshots
    BY <1>0, <2>1 DEF MappedState
  <2> QED BY <1>3, <2>1, <2>2 DEF Store!Next, Store!PointTo
<1>5. ASSUME UNCHANGED <<nvs, latest>>
      PROVE  UNCHANGED Store!vars
  BY <1>3, <1>5 DEF Store!vars
<1>6. CASE NoRoom \/ FlashFails
  BY <1>5, <1>6 DEF NoRoom, FlashFails, WorkerEnds
<1>7. CASE LoadStored \/ LoadLatest \/ TakeReply \/ Crash
  BY <1>5, <1>7 DEF LoadStored, LoadLatest, TakeReply, Crash
<1>8. ASSUME NEW hash \in Hash, Import(hash) \/ AskFor(hash)
      PROVE  UNCHANGED Store!vars
  BY <1>5, <1>8 DEF Import, AskFor
<1>9. CASE UNCHANGED vars
  BY <1>5, <1>9 DEF vars
<1> QED BY <1>1, <1>2, <1>4, <1>6, <1>7, <1>8, <1>9 DEF Next

\* The flash storage implements the store a node relies on: nothing that could
\* be loaded is lost or replaced, and the pointer is complete, through
\* collisions, full buckets, errors and losses of power.
THEOREM Implementation == Spec => ImplementsStore
<1>1. Init => Store!Init
  <2> SUFFICES ASSUME Init PROVE Store!Init
    OBVIOUS
  <2>1. MappedState
    BY InitIInv, Mapped
  <2>2. \A p \in Prefix, h \in Hash : ~ Stored(p, h)
    BY NvsAssumption DEF Init, Stored, Holds, Free, Blob
  <2>3. StoredBlocks = {} /\ DOMAIN StoredSnapshots = {}
    BY <2>1, <2>2 DEF MappedState, Prefix
  <2>4. StoredSnapshots = EmptyMap
    BY <2>1, <2>3 DEF MappedState, EmptyMap
  <2> QED BY <2>3, <2>4 DEF Init, Store!Init, Store!EmptyMap, EmptyMap
<1>2. IInv /\ IInv' /\ [Next]_vars => [Store!Next]_(Store!vars)
  BY StepImplements
<1> QED BY <1>1, <1>2, Invariance, PTL DEF Spec, ImplementsStore, Store!Spec
=============================================================================
