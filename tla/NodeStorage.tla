----------------------------- MODULE NodeStorage -----------------------------
(***************************************************************************)
(* The node engine on the host of rp-runtime with its storage task, the    *)
(* database behind it, and crashes.  Peers send blocks at any time, in     *)
(* any order and any number of times, alone or in sync responses.          *)
(*                                                                         *)
(* The node takes one event at a time from the channel it shares with the  *)
(* storage and the network task, and sends the engine's storage actions to *)
(* the storage task.  Both channels are FIFO and bounded: a task that      *)
(* finds one full waits there and does nothing else.  Requests for blocks  *)
(* leave the model: what peers send does not depend on them.               *)
(***************************************************************************)
EXTENDS NodeEngine

CONSTANTS
    Peer,               \* peers that send blocks
    Announced,          \* blocks they announce
    Responses,          \* block lists of their sync responses
    ChannelSize,        \* EVENT_ and STORAGE_CHANNEL_CAPACITY
    MaxFrames,          \* bound on the frames received
    MaxCrashes          \* bound on the crashes

VARIABLES
    engine,             \* the NodeEngine
    commands,           \* the storage channel and what the node waits to send there
    events,             \* the event channel and what waits to be sent there
    disk,               \* blocks, snapshots and the latest_snapshot key
    saving,             \* the hash save_snapshot is half through with, or None
    due,                \* history: blocks that came while their parent was known
    frames,             \* counts the frames received
    crashes             \* counts the crashes

vars == <<engine, commands, events, disk, saving, due, frames, crashes>>

ASSUME ChannelSizeAssumption == ChannelSize \in Nat \ {0}

IsStorageAction(action) ==
    action.type \in {"PersistBlock", "PersistSnapshot", "LoadSnapshot"}

LoadLatestSnapshot == [type |-> "LoadLatestSnapshot"]

\* A process starts: a new engine, and the first command of NodeManager::run.
Init ==
    /\ engine = NewEngine
    /\ commands = <<LoadLatestSnapshot>>
    /\ events = <<>>
    /\ disk = [blocks |-> {}, snapshots |-> EmptyMap, latest |-> None]
    /\ saving = None
    /\ due = {}
    /\ frames = 0
    /\ crashes = 0

Known == DOMAIN engine.bc.chain

-----------------------------------------------------------------------------
(* The channels.  What stands behind the first ChannelSize messages of a   *)
(* sequence is not in the channel yet: its sender waits in send().         *)

NodeWaits == Len(commands) > ChannelSize

Waiting(types) == \E i \in ChannelSize + 1 .. Len(events) : events[i].type \in types

NetworkWaits == Waiting({"FrameReceived"})
StorageWaits == Waiting({"StorageLoaded", "LatestSnapshotLoaded"})

-----------------------------------------------------------------------------
(* The network task, as far as it passes on frames *)

ReceiveFrame(peer, message) ==
    /\ ~ NetworkWaits
    /\ frames < MaxFrames
    /\ frames' = frames + 1
    /\ events' = Append(events, [type |-> "FrameReceived", peer |-> peer,
                                 message |-> message])
    /\ UNCHANGED <<engine, commands, disk, saving, due, crashes>>

ReceiveBlock(peer, h) == ReceiveFrame(peer, [type |-> "NewBlock", hash |-> h])

ReceiveResponse(peer, blocks) ==
    ReceiveFrame(peer, [type |-> "SyncResponse", blocks |-> blocks, next_height |-> None])

-----------------------------------------------------------------------------
(* The node task *)

\* The engine's answer to an event, and the dispatch of its actions.
Perform(turn) ==
    /\ engine' = turn.engine
    /\ commands' = commands \o SelectSeq(turn.out, IsStorageAction)

\* The blocks an event brings from a peer.
BlocksIn(event) ==
    IF event.type # "FrameReceived" THEN {}
    ELSE IF event.message.type = "NewBlock" THEN {event.message.hash}
    ELSE {event.message.blocks[i] : i \in DOMAIN event.message.blocks}

TakeEvent ==
    /\ ~ NodeWaits
    /\ events # <<>>
    /\ events' = Tail(events)

\* One round of the loop of NodeManager::run.  A restore starts a new tree.
HandleNextEvent ==
    /\ TakeEvent
    /\ Perform(HandleEvent(engine, Head(events)))
    /\ due' = IF Head(events).type = "LatestSnapshotLoaded" THEN {}
              ELSE due \cup {h \in BlocksIn(Head(events)) : Parent(h) \in Known \ {Genesis}}
    /\ UNCHANGED <<disk, saving, frames, crashes>>

-----------------------------------------------------------------------------
(* The storage task: one command after the other *)

Command(type) ==
    /\ ~ StorageWaits
    /\ saving = None
    /\ commands # <<>>
    /\ Head(commands).type = type

\* save_block
SaveBlock ==
    /\ Command("PersistBlock")
    /\ disk' = [disk EXCEPT !.blocks = @ \cup {Head(commands).hash}]
    /\ commands' = Tail(commands)
    /\ UNCHANGED <<engine, events, saving, due, frames, crashes>>

\* save_snapshot, up to and from the write of the latest_snapshot key.
SaveSnapshot ==
    /\ Command("PersistSnapshot")
    /\ disk' = [disk EXCEPT !.snapshots =
                    Put(@, Head(commands).hash, Head(commands).state)]
    /\ saving' = Head(commands).hash
    /\ commands' = Tail(commands)
    /\ UNCHANGED <<engine, events, due, frames, crashes>>

SaveLatest ==
    /\ saving # None
    /\ disk' = [disk EXCEPT !.latest = saving]
    /\ saving' = None
    /\ UNCHANGED <<engine, commands, events, due, frames, crashes>>

\* What a load of the snapshot of h answers.
Loaded(type, h, found) ==
    IF found THEN [type |-> type, hash |-> h, found |-> TRUE, state |-> disk.snapshots[h]]
    ELSE [type |-> type, hash |-> h, found |-> FALSE]

LoadStored ==
    /\ Command("LoadSnapshot")
    /\ LET h == Head(commands).hash
       IN  events' = Append(events, Loaded("StorageLoaded", h, h \in DOMAIN disk.snapshots))
    /\ commands' = Tail(commands)
    /\ UNCHANGED <<engine, disk, saving, due, frames, crashes>>

\* load_latest_snapshot_bundle
LoadLatest ==
    /\ Command("LoadLatestSnapshot")
    /\ events' = Append(events, Loaded("LatestSnapshotLoaded", disk.latest,
                             disk.latest \in disk.blocks \cap DOMAIN disk.snapshots))
    /\ commands' = Tail(commands)
    /\ UNCHANGED <<engine, disk, saving, due, frames, crashes>>

\* The process ends anywhere, also within save_snapshot, and starts again: all
\* but the database is lost.
Crash ==
    /\ crashes < MaxCrashes
    /\ crashes' = crashes + 1
    /\ engine' = NewEngine
    /\ commands' = <<LoadLatestSnapshot>>
    /\ events' = <<>>
    /\ saving' = None
    /\ due' = {}
    /\ UNCHANGED <<disk, frames>>

StorageTask == SaveBlock \/ SaveSnapshot \/ SaveLatest \/ LoadStored \/ LoadLatest

Next ==
    \/ \E peer \in Peer : \/ \E h \in Announced : ReceiveBlock(peer, h)
                          \/ \E blocks \in Responses : ReceiveResponse(peer, blocks)
    \/ HandleNextEvent
    \/ StorageTask
    \/ Crash

\* The tasks run whenever they can, and only HandleNextEvent takes an event; peers
\* need not send and nothing need crash.
Spec == Init /\ [][Next]_vars /\ WF_events(TakeEvent) /\ WF_vars(StorageTask)

-----------------------------------------------------------------------------
(* Properties *)

\* What the rules make of the chain from genesis up to a block, as a table.
Replay ==
    LET replay[h \in Hash] ==
            IF h = Genesis THEN [ok |-> TRUE, state |-> NewState]
            ELSE IF Parent(h) = ZeroHash \/ ~ replay[Parent(h)].ok
                 THEN [ok |-> FALSE, state |-> NewState]
            ELSE ValidateAndApply(BlockOf[Parent(h)], replay[Parent(h)].state, BlockOf[h])
    IN  replay @@ EmptyMap

\* Nothing is on its way between the tasks.
Idle == commands = <<>> /\ events = <<>> /\ saving = None

\* The engine, the database and the channels hold existing blocks.
TypeOK ==
    /\ Known \subseteq Hash
    /\ engine.bc.head_hash \in Known
    /\ \A p \in DOMAIN engine.parked :
            /\ engine.parked[p] \in Seq([peer : Peer, hash : Hash])
            /\ engine.parked[p] # <<>>
            /\ \A i \in DOMAIN engine.parked[p] : Parent(engine.parked[p][i].hash) = p
    /\ disk.blocks \subseteq Hash
    /\ DOMAIN disk.snapshots \subseteq Hash
    /\ disk.latest \in Hash \cup {None}
    /\ saving \in Hash \cup {None}

\* The state at the head is the replay of its chain; only accepted blocks are known.
HeadStateIsReplay ==
    /\ engine.bc.state = Replay[engine.bc.head_hash].state
    /\ \A h \in Known : Replay[h].ok

\* Each stored snapshot is the replayed state of a block that is stored too, and
\* so is its parent's.
DiskIsReplay ==
    \A h \in DOMAIN disk.snapshots :
        /\ h \in disk.blocks
        /\ Replay[h].ok /\ disk.snapshots[h] = Replay[h].state
        /\ Parent(h) \in DOMAIN disk.snapshots \cup {Genesis}

\* End to end, the node's state and every state on disk is the replay of the
\* chain below its block, at every moment and so after a crash at any moment,
\* whatever came in which order, was parked, forked, stored, lost or restored.
StatesAreReplays == TypeOK /\ HeadStateIsReplay /\ DiskIsReplay

\* A block is stored, or stands in the commands before position n.
Stored(h, n) == h \in disk.blocks \/ \E i \in 1 .. n - 1 : commands[i] = PersistBlock(h)

\* Every known block and its state are on disk or on their way there, and the
\* block of a snapshot on its way is there or goes first: an idle node has all of
\* its tree on disk, also after a restore that came late.
KnownIsPersisted ==
    /\ \A h \in Known \ {Genesis} :
        /\ Stored(h, Len(commands) + 1)
        /\ \/ h \in DOMAIN disk.snapshots
           \/ \E i \in DOMAIN commands :
                    commands[i] = PersistSnapshot(h, Replay[h].state)
    /\ \A n \in DOMAIN commands :
            commands[n].type = "PersistSnapshot" => Stored(commands[n].hash, n)

\* The blocks that are parked, or in the tree.
ParkedBlocks ==
    UNION {{engine.parked[p][i].hash : i \in DOMAIN engine.parked[p]} :
               p \in DOMAIN engine.parked}
Held == Known \cup ParkedBlocks

\* The blocks that arrive with the event a step takes up.
Arriving == IF Len(events') < Len(events) THEN BlocksIn(Head(events)) ELSE {}

\* No valid block that the node takes up or holds is dropped, whatever is parked,
\* loaded, refused or restored around it: it stays in the tree or parked, or is on
\* its way to the disk.  The one exception is a block whose parent's state is on
\* disk while the parent is not in the tree, which a restore leads to: the import
\* of what is parked there fails (NodeError::ParentBlockNotFoundError).
NothingDropped ==
    [][crashes' = crashes =>
        \A h \in (Held \cup Arriving) \ {Genesis} : Replay[h].ok =>
            \/ h \in Held'
            \/ Stored(h, Len(commands) + 1)'
            \/ Parent(h) \in DOMAIN disk.snapshots \ Known']_vars

\* Once idle, a valid block that came when its parent was in the tree is in the
\* tree too, on whatever branch, and no block waits under the head.  Genesis is
\* apart, whose state is never stored; so is a block that came before its parent
\* and whose parent joined a losing branch: it waits for a sibling or to be sent
\* again (ingest_block loads, import_parked_blocks follows new heads only).
ChildrenFollow ==
    Idle => /\ \A h \in due : Replay[h].ok => h \in Known
            /\ engine.bc.head_hash \notin DOMAIN engine.parked \ {Genesis}

\* The node waits for room in the storage channel, the storage task for room in
\* the event channel.
Circle == NodeWaits /\ StorageWaits

\* The tasks come to rest: no exchange of loads, answers, imports and further
\* loads goes on for ever once the peers are silent, and the tasks stop before it
\* has ended only at each other's full channels.
ComesToRest == <>[](Idle \/ Circle)

\* The database, seen as a store.
Store == INSTANCE SnapshotStore WITH
             blocks <- disk.blocks, snapshots <- disk.snapshots, latest <- disk.latest

\* The database implements the store a node relies on: no block or snapshot is
\* ever lost or replaced by another's, and the key never leads to half a bundle,
\* so a restart never falls back to genesis again, wherever the crash was.
ImplementsStore == Store!Spec

\* PHASE_3_BUILD_PLAN.md:219 asks for enough metadata "to restore the latest
\* head block": once idle, the head is what a restart would restore.
RestartRestoresHead ==
    Idle => disk.latest = IF engine.bc.head_hash = Genesis THEN None
                          ELSE engine.bc.head_hash
=============================================================================
