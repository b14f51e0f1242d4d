----------------------------- MODULE NvsStorage ------------------------------
(***************************************************************************)
(* The storage of the device: the storage worker, and NvsStorage over the  *)
(* flash key-value store, in which a key is too short for a hash.  The     *)
(* hashes that share their first bytes share a bucket of numbered slots,   *)
(* and an envelope in a slot says whose payload it holds.                  *)
(*                                                                         *)
(* The node is the source of commands: it starts with a load of the latest *)
(* snapshot, stores each block it imports and then its snapshot, and asks  *)
(* for snapshots.  The flash may fail at any read or write and the device  *)
(* may lose power at any moment; a single write of the flash is atomic.    *)
(***************************************************************************)
EXTENDS Maps, Sequences

CONSTANTS
    Hash,               \* block hashes
    Bucket,             \* what a key keeps of a hash
    BucketOf,           \* the first bytes of each hash
    MaxSlot,            \* u8::MAX
    State,              \* serialised ledger states
    StateOf,            \* the state after each block
    None,
    MaxCommands,        \* bound on the commands that wait
    MaxWaiting,         \* bound on the commands and replies when a load is asked for
    MaxCrashes          \* bound on the crashes

Slot == 0..MaxSlot

Prefix == {"b", "s"}

\* What is kept under a prefix for a block: the block, that is its hash, or
\* its state.
Payload(prefix, hash) == IF prefix = "b" THEN hash ELSE StateOf[hash]

Envelope == [hash : Hash, payload : Hash \cup State]

ASSUME NvsAssumption ==
    /\ BucketOf \in [Hash -> Bucket]
    /\ StateOf \in [Hash -> State]
    /\ MaxSlot \in Nat
    /\ None \notin Hash \cup State \cup Envelope
    /\ MaxCommands \in Nat /\ MaxWaiting \in Nat /\ MaxCrashes \in Nat

VARIABLES
    nvs,                \* the blobs by prefix, bucket and slot
    latest,             \* the blob under latest_snap
    commands,           \* the storage channel
    replies,            \* the worker's events that wait for the node
    pointing,           \* the hash save_snapshot has still to point at, or None
    up,                 \* the worker has not ended with an error
    imported,           \* the blocks the node has had since its start
    crashes             \* counts the crashes

vars == <<nvs, latest, commands, replies, pointing, up, imported, crashes>>

LoadLatestSnapshot == [type |-> "LoadLatestSnapshot", hash |-> None]
LoadSnapshot(hash) == [type |-> "LoadSnapshot", hash |-> hash]
PersistBlock(hash) == [type |-> "PersistBlock", hash |-> hash]
PersistSnapshot(hash) == [type |-> "PersistSnapshot", hash |-> hash]

Command ==
    {LoadLatestSnapshot}
        \cup [type : {"LoadSnapshot", "PersistBlock", "PersistSnapshot"}, hash : Hash]

Event ==
    [type : {"StorageLoaded", "LatestSnapshotLoaded"},
     hash : Hash \cup {None}, state : State \cup {None}]

Init ==
    /\ nvs = [prefix \in Prefix |-> [bucket \in Bucket |-> [slot \in Slot |-> None]]]
    /\ latest = None
    /\ commands = <<LoadLatestSnapshot>>
    /\ replies = <<>>
    /\ pointing = None
    /\ up = TRUE
    /\ imported = {}
    /\ crashes = 0

-----------------------------------------------------------------------------
(* NvsStorage *)

\* slot_key and read_blob: what the slot of a bucket holds.
Blob(prefix, hash, slot) == nvs[prefix][BucketOf[hash]][slot]

Free(prefix, hash, slot) == Blob(prefix, hash, slot) = None

Holds(prefix, hash, slot) ==
    ~ Free(prefix, hash, slot) /\ Blob(prefix, hash, slot).hash = hash

\* load_hashed_blob looks into every slot and takes the first with the hash.
LoadHashedBlob(prefix, hash) ==
    IF \E slot \in Slot : Holds(prefix, hash, slot)
    THEN Blob(prefix, hash,
              CHOOSE slot \in Slot :
                  /\ Holds(prefix, hash, slot)
                  /\ \A s \in 0..(slot - 1) : ~ Holds(prefix, hash, s)).payload
    ELSE None

\* save_hashed_blob takes the first slot that is free or has the hash.
MayTake(prefix, hash, slot) == Free(prefix, hash, slot) \/ Holds(prefix, hash, slot)

\* Mutant of TakeSlot that looks for a free slot only.
TakeFreeSlot(prefix, hash) ==
    \E slot \in Slot :
        /\ Free(prefix, hash, slot)
        /\ \A s \in 0..(slot - 1) : ~ Free(prefix, hash, s)
        /\ nvs' = [nvs EXCEPT ![prefix][BucketOf[hash]][slot] =
                       [hash |-> hash, payload |-> Payload(prefix, hash)]]

TakeSlot(prefix, hash) ==
    \E slot \in Slot :
        /\ MayTake(prefix, hash, slot)
        /\ \A s \in 0..(slot - 1) : ~ MayTake(prefix, hash, s)
        /\ nvs' = [nvs EXCEPT ![prefix][BucketOf[hash]][slot] =
                       [hash |-> hash, payload |-> Payload(prefix, hash)]]

\* Every slot of the bucket is another block's.
BucketFull(prefix, hash) == \A slot \in Slot : ~ MayTake(prefix, hash, slot)

\* load_block also compares the block's own hash.
LoadBlock(hash) ==
    IF LoadHashedBlob("b", hash) = hash THEN hash ELSE None

LatestBundle ==
    /\ latest # None
    /\ LoadBlock(latest) # None
    /\ LoadHashedBlob("s", latest) # None

-----------------------------------------------------------------------------
(* StorageManager::run *)

Ready(type) ==
    /\ up
    /\ pointing = None
    /\ commands # <<>>
    /\ Head(commands).type = type

Take(type) == Ready(type) /\ commands' = Tail(commands)

SaveBlock ==
    /\ Take("PersistBlock")
    /\ TakeSlot("b", Head(commands).hash)
    /\ UNCHANGED <<latest, replies, pointing, up, imported, crashes>>

\* save_snapshot, up to and from the write of latest_snap.
SaveSnapshot ==
    /\ Take("PersistSnapshot")
    /\ TakeSlot("s", Head(commands).hash)
    /\ pointing' = Head(commands).hash
    /\ UNCHANGED <<latest, replies, up, imported, crashes>>

SaveLatest ==
    /\ up
    /\ pointing # None
    /\ latest' = pointing
    /\ pointing' = None
    /\ UNCHANGED <<nvs, commands, replies, up, imported, crashes>>

\* An error ends run, and its end of the channel goes with it.
WorkerEnds ==
    /\ up' = FALSE
    /\ commands' = <<>>
    /\ pointing' = None
    /\ UNCHANGED <<nvs, latest, replies, imported, crashes>>

\* A save that finds no slot.
NoRoom ==
    /\ \/ Ready("PersistBlock") /\ BucketFull("b", Head(commands).hash)
       \/ Ready("PersistSnapshot") /\ BucketFull("s", Head(commands).hash)
    /\ WorkerEnds

\* An error of the flash, but for one in the load of the latest snapshot.
FlashFails ==
    /\ \/ Ready("PersistBlock") \/ Ready("PersistSnapshot") \/ Ready("LoadSnapshot")
       \/ up /\ pointing # None
    /\ WorkerEnds

LoadStored ==
    /\ Take("LoadSnapshot")
    /\ replies' = Append(replies, [type |-> "StorageLoaded", hash |-> Head(commands).hash,
                                   state |-> LoadHashedBlob("s", Head(commands).hash)])
    /\ UNCHANGED <<nvs, latest, pointing, up, imported, crashes>>

\* load_latest_snapshot_bundle; an error of the flash counts as no bundle.
LoadLatest ==
    /\ Take("LoadLatestSnapshot")
    /\ \E readable \in BOOLEAN :
           replies' = Append(replies,
               IF readable /\ LatestBundle
               THEN [type |-> "LatestSnapshotLoaded", hash |-> latest,
                     state |-> LoadHashedBlob("s", latest)]
               ELSE [type |-> "LatestSnapshotLoaded", hash |-> None, state |-> None])
    /\ UNCHANGED <<nvs, latest, pointing, up, imported, crashes>>

-----------------------------------------------------------------------------
(* The node, and the power *)

\* Mutant of Import that stores the snapshot before the block.
ImportSnapshotFirst(hash) ==
    /\ up /\ hash \notin imported
    /\ Len(commands) + 2 <= MaxCommands
    /\ imported' = imported \cup {hash}
    /\ commands' = commands \o <<PersistSnapshot(hash), PersistBlock(hash)>>
    /\ UNCHANGED <<nvs, latest, replies, pointing, up, crashes>>

\* The engine's import of a block; a send to an ended worker fails and ends
\* the node task too.
Import(hash) ==
    /\ up /\ hash \notin imported
    /\ Len(commands) + 2 <= MaxCommands
    /\ imported' = imported \cup {hash}
    /\ commands' = commands \o <<PersistBlock(hash), PersistSnapshot(hash)>>
    /\ UNCHANGED <<nvs, latest, replies, pointing, up, crashes>>

\* A block arrives whose parent is not the head.
AskFor(hash) ==
    /\ up
    /\ Len(commands) + Len(replies) < MaxWaiting
    /\ commands' = Append(commands, LoadSnapshot(hash))
    /\ UNCHANGED <<nvs, latest, replies, pointing, up, imported, crashes>>

\* restore_latest_snapshot makes the block the head; other replies lead to
\* imports, which are taken to happen at any time.
TakeReply ==
    /\ replies # <<>>
    /\ replies' = Tail(replies)
    /\ imported' = IF Head(replies).type = "LatestSnapshotLoaded" /\ Head(replies).hash # None
                   THEN imported \cup {Head(replies).hash} ELSE imported
    /\ UNCHANGED <<nvs, latest, commands, pointing, up, crashes>>

\* The device loses power, also within save_snapshot, and starts again.
Crash ==
    /\ crashes < MaxCrashes
    /\ crashes' = crashes + 1
    /\ commands' = <<LoadLatestSnapshot>>
    /\ replies' = <<>>
    /\ pointing' = None
    /\ up' = TRUE
    /\ imported' = {}
    /\ UNCHANGED <<nvs, latest>>

Next ==
    \/ SaveBlock \/ SaveSnapshot \/ SaveLatest
    \/ NoRoom \/ FlashFails
    \/ LoadStored \/ LoadLatest
    \/ \E hash \in Hash : Import(hash) \/ AskFor(hash)
    \/ TakeReply
    \/ Crash

Spec == Init /\ [][Next]_vars

-----------------------------------------------------------------------------
(* Properties *)

\* The flash, the channels and the worker hold existing hashes and states.
TypeOK ==
    /\ nvs \in [Prefix -> [Bucket -> [Slot -> Envelope \cup {None}]]]
    /\ latest \in Hash \cup {None}
    /\ commands \in Seq(Command) /\ replies \in Seq(Event)
    /\ pointing \in Hash \cup {None}
    /\ up \in BOOLEAN
    /\ imported \subseteq Hash
    /\ crashes \in 0..MaxCrashes

\* The scans of load and save agree about every bucket, whatever hashes share
\* it and wherever power was lost: the slots fill from the first on, an
\* envelope is in the bucket of its hash, with that block's payload, and no
\* hash has two slots, of which a load would see the older.
BucketsInOrder ==
    \A prefix \in Prefix, bucket \in Bucket :
        LET slots == nvs[prefix][bucket]
        IN  \A s \in Slot : slots[s] # None =>
                /\ BucketOf[slots[s].hash] = bucket
                /\ slots[s].payload = Payload(prefix, slots[s].hash)
                /\ \A t \in 0..(s - 1) :
                       slots[t] # None /\ slots[t].hash # slots[s].hash

\* Once latest_snap is set, it leads at every moment, so after a loss of power
\* at any moment, to a block and the snapshot after that very block.
LatestIsComplete ==
    latest # None =>
        /\ LoadBlock(latest) = latest
        /\ LoadHashedBlob("s", latest) = StateOf[latest]

\* What a load would find.
StoredBlocks == {hash \in Hash : LoadBlock(hash) # None}
StoredSnapshots ==
    [hash \in {h \in Hash : LoadHashedBlob("s", h) # None} |-> LoadHashedBlob("s", hash)]

Store == INSTANCE SnapshotStore WITH blocks <- StoredBlocks, snapshots <- StoredSnapshots

\* The buckets implement the store a node relies on: through collisions, full
\* buckets, errors and losses of power no block or snapshot that could be
\* loaded is ever lost or replaced by another's.
ImplementsStore == Store!Spec
=============================================================================
