# A TLA+ development for rust-proof

rust-proof is a proof-of-stake chain: ledger rules (`rp-core`), a node engine
without I/O (`rp-node`), a tokio/libp2p host (`rp-runtime`) and an ESP32 host
(`erp-runtime`). This directory holds TLA+ modules translated from that code,
TLC models that check them on small instances, and TLAPS proofs for every value
of the constants. Paths below are relative to `src/`.

## 1. The system

| Part | State | Operations | Code |
|---|---|---|---|
| Ledger | balances, nonces, stakes, unstaking requests | `is_valid_tx`, `apply_tx`, `apply_slash`, `get_expected_validator`, `compute_state_root` | rp-core/src/state.rs |
| Block rules | none (works on a clone) | `validate_and_apply_block`, `should_replace_head` | rp-core/src/blockchain.rs |
| Mempool | ordered set of transactions | `add_transaction`, `remove_transaction` | rp-node/src/mempool.rs |
| Block tree | nodes by hash, head, head state, mempool | `add_block`, `add_transaction`, `restore_head`, `get_blocks` | rp-node/src/blockchain.rs |
| Node engine | block tree, peers, pending requests, parked blocks, time, scheduled wake | `step` on nine inputs, `restore_latest_snapshot` | rp-node/src/node_engine.rs |
| Host node task | the engine and four channels | event loop, dispatch of actions | rp-runtime/src/runtime/manager.rs |
| Host storage task | blocks, snapshots, latest pointer | save and load commands in FIFO order | rp-runtime/src/storage/manager.rs |
| Host wake loop | the next tick | schedule, cancel, tick | rp-runtime/src/main.rs |
| Host network manager | verified peers in two maps, pending sync responses | swarm events, commands | rp-runtime/src/network/manager.rs |
| Board network manager | peer registry, senders of the sessions' commands | dial, accept, session events, commands | erp-runtime/src/network/manager.rs, peer_registry.rs |
| Board session worker | one connection, from the set-up to its end | handshakes, exchanges of frames | erp-runtime/src/network/session.rs and its protocols |
| Noise stream | frame buffers and nonces of both directions | `poll_read`, `poll_write`, `poll_flush` | erp-runtime/src/network/transport/noise.rs |
| Board storage | blobs in numbered slots of the flash | save and load commands | erp-runtime/src/storage/ |
| Board tasks | node, network, storage and wake tasks, bounded channels | their loops, start and end | erp-runtime/src/runtime/ |
| Codecs | none | length prefix, postcard | rp-codec/src |

How they interact: a host task takes one event at a time from a channel, hands it
to the engine, and passes the resulting actions on to the network, storage and
wake tasks, which answer with further events. The engine never waits: a block
whose parent state is not at hand is *parked*, its parent's snapshot is loaded,
and the answer comes as a later event. Every imported block and its state are
written to the database; after a crash only the database is left, and the host
restores the block the `latest_snapshot` key names.

What is hard to get right, and hard to test: imports in any order, again, and of
competing branches; a load's answer that arrives after the tree has changed;
crashes between the three writes of an import; a restore that races the first
frames; requests that time out while their answer is on its way; wake-ups that
must not get lost between the engine and the timer; peers that connect twice;
slots that are used again while events of their last session are on their way;
frames that a socket takes in pieces; a power loss between two writes of the flash;
tasks that wait for each other at full channels.
`PROJECT.json` lists these hazards at their lines.

## 2. Modules

| Module | Models | Kind |
|---|---|---|
| `Ledger` | rp-core rules | operators |
| `LedgerImport` | `validate_and_apply_block` as a loop over one candidate after another | state machine |
| `Mempool` | mempool.rs | operators |
| `Blockchain` | rp-node/src/blockchain.rs, one operator per method on a record | operators |
| `BlockTree` | a `Blockchain` as its caller uses it, with the states the caller stores | state machine |
| `NodeEngine` | node_engine.rs, one operator per handler from an engine and an input to an engine and actions | operators |
| `NodeStorage` | engine, host task, storage task, database, crashes | composition |
| `RequestTimers` | engine, wake loop, clock, peers that answer | composition |
| `HostNetwork` | network/manager.rs of rp-runtime: swarm events, commands, the registry of verified peers, and the node task at the other end | state machine |
| `PeerSessions` | network manager, peer registry and session workers of erp-runtime, and the node task | state machine |
| `SnapshotStore` | what a node relies on its storage for | abstract specification |
| `NvsStorage` | storage worker and `NvsStorage` of erp-runtime over the flash, with a loss of power | state machine |
| `NoiseStream` | one direction of noise.rs: two ends and a socket between them | state machine |
| `SessionSetup` | the set-up of one connection between a board and a host, or two boards, through all layers | composition |
| `BoardTasks` | the tasks of erp-runtime and the bounded channels between them | composition |
| `Maps` | insert and remove on a map | operators |
| `LedgerImportProofs`, `BlockTreeProofs`, `HostNetworkProofs`, `PeerSessionsProofs`, `NvsStorageProofs` | theorems | proofs |
| `MC*` | instances for TLC | models |

State and actions. `LedgerImport` has the accepted state, the clone and the
position in the block; its actions are the steps of `validate_and_apply_block`, so
that a block that fails half-way is seen half-way. `BlockTree` has the record
`Blockchain` and the stored states; its actions are `add_block`,
`add_transaction` and `restore_head`. `NodeStorage` keeps the engine, the bounded
channels between the tasks and the database; an action is one event of the node task
with all the actions it leads to, one command of the storage task (whose separate writes
are separate steps), or a crash. What does not fit in a channel stands behind it, and
its sender takes no step until all of it is in. `RequestTimers` has the engine, the clock, the
wake loop's next tick and the requests on the wire. `HostNetwork` has the fields
of `NetworkManager` and, per transport, what the swarm knows of its connections;
an action is one swarm event or command. In `PeerSessions` every session thread is
a small automaton (setting up, idle, asking, announcing, serving, ended).
`NvsStorage` has the slots of every bucket, the latest key and the two channels of
the storage worker; a save of a snapshot is two steps, one per write. `NoiseStream`
has the fields of `NoiseStream` in noise.rs at both ends and the bytes in between; an
action is one poll, whose inner loop over the socket is cut at any point. In
`SessionSetup` an end holds a script per substream, what it still sends and waits for,
and a step is the receipt of one message with all that follows up to the next wait. In
`BoardTasks` a step is one receive of a task or one send, after which it waits if the
channel is full; the session's waits for its peer, inside an exchange that either side
has started, are states of their own.

Two modules are about the same code at two levels: `PeerSessions` takes the set-up of a
session as one step that succeeds or fails, which `SessionSetup` opens up, and its
channels as unbounded, which `BoardTasks` does not. `NodeStorage` and `NvsStorage`
both implement `SnapshotStore`, the first with the tables of the host's database, the
second with what a load of the flash would find.

Correspondence. A `BTreeMap` is a function on its keys, a `Vec` a sequence, a
struct a record with the same field names. Hashes and public keys are integers,
because the code orders them by their bytes. A signature is a boolean, whether it
is there and verifies. The state root is an injective image of the balances, which
is what the Merkle tree over the sorted balances amounts to if hashes do not
collide, so `StateRoot(s) == s.balances`. u64 arithmetic wraps (`Wrap`) or
saturates (`SaturatingAdd`) as the code says; `MaxU64` is a constant. A frame is
the message it decodes to. Events that the host only logs are left out.

Each module carries, next to a definition, mutants of it ("Mutant of ..."): the
definition with a plausible mistake. They are used by nothing; they show that the
properties notice such a mistake.

## 3. What the runs check

A run named *pass* finds no error. A run named *violation* states what a document
or comment says, and TLC shows that the code does otherwise (section 6).

| Run | Module, configuration | Checks |
|---|---|---|
| `ledger_import` | `MCLedgerImport`, LedgerImport.cfg | no transaction of a sender twice; each sender's transactions on the chain are numbered without a gap and the state expects the next, so a block that fails leaves nothing behind; validators chosen in proportion to stake; what an account owns changes by exactly its transfers, and is lost only by a slash; a slash takes the stake and all that is unbonding |
| `block_tree` | `MCBlockTree`, BlockTree.cfg | the head is the best known block whatever the order of arrival; known blocks form one tree; the head's state and all stored ones are the replay of their chains; served blocks are linked; the mempool holds nothing the head has |
| `node_storage` | `MCNodeStorage`, NodeStorage.cfg | with late loads and a crash between any two writes: states, in memory and on disk, are replays; every known block and its state are on disk or on their way, the block first; no valid block is dropped, with one exception after a restore (section 6); once idle, a valid block that came after its parent is in the tree and none waits under the head; the tasks come to rest unless they wait at each other's full channel; the database implements `SnapshotStore` |
| `request_timers` | `MCRequestTimers`, RequestTimers.cfg | a pending deadline always has a tick or a command that leads to one, and there is no tick without a request; every request ends, by an answer or its deadline; an answer that meets its request before the engine's deadline for it is continued |
| `host_network` | `MCHostNetwork`, HostNetwork.cfg | the two maps are inverse; the node hears of a peer only between its connect and its disconnect; a registered peer has a connection, and the node knows it once it has caught up; requests ask for a block at least and respect their receiver's limit; a dialled peer is registered in the end if it stays |
| `peer_sessions` | `MCPeerSessions`, PeerSessions.cfg | index, slots and senders agree; although slots are used again an event meets its own session and a command a session of its node; connects and disconnects alternate and agree with the registry; dials are bounded and an ended session's slot is about to be freed, exactly once; a session that waits for the node's answer has it on its way, unless its request overtook its registration (section 6) |
| `nvs_storage` | `MCNvsStorage`, NvsStorage.cfg | the slots of a bucket fill in order and no hash has two; the flash implements `SnapshotStore` |
| `noise_stream` | `NoiseStream`, NoiseStream.cfg | the bytes arrive in order, each once, and a regular end loses none; while the connection lasts no frame is garbled and none meets the rest of another; what is offered arrives |
| `session_setup` | `SessionSetup`, SessionSetup.cfg | a session is established only with the peer it is bound to, and a dialler's only if the listener has accepted it; the scripts of the two ends fit in every layer; a board's set-up with a host that does its part ends |
| `board_tasks` | `BoardTasks`, BoardTasks.cfg | channels keep their bounds and the node's answer meets the session's question; the tasks come to rest but for three named reasons; when the node ends, its workers end |
| `restart_head`, `two_boards` | NodeStorageHead.cfg, SessionSetupBoards.cfg | one statement each, see section 6 |

`StandstillIsExplained` of `board_tasks` names the ways the board can stand still while
something is left to do: the node and a worker at each other's full channel (`Circle`);
a session that waits inside an exchange for a peer which neither sends nor reads, with
the commands for it, and the manager and the node once they have one more
(`HeldByPeer`); and a session whose answer was dropped because its request overtook its
registration (`AnswerDropped`). Each is what the code does and each happens in the
model; the property says that the tasks reach no other standstill. `ComesToRest` of
`node_storage` has the first of them as its exception, in the form it takes between the
node and the storage of the host: the node waits to send to storage, and storage to send
to the node.

### Bounds

- `MaxU64` is small in two models. In `LedgerImport` it is 4, what the accounts own
  together, so that balances reach the limit. In `HostNetwork` it is 5 with a chain at
  height 0 or 3 and a window of 4, so that a request saturates. In the other models it
  is above any value that occurs.
- `LedgerImport`: two accounts, ten transactions, one of them unsigned, blocks of
  two transactions and one slash proof, up to slot 3. Two accounts suffice for a
  sender, a receiver and a slashed validator that is either; two transactions for
  one that invalidates the next.
- `BlockTree`: twelve blocks, two forks of different length, a fork at genesis and
  four blocks that must be refused; `MempoolSize` 2, so that eviction happens.
- `NodeStorage`: seven blocks, three frames, one crash, channels of two places (32 in
  the code), so that an event leads to more commands than there is room for. Three frames are a block, its
  child before it and a third while a load is under way; one crash at every point
  between writes, with everything that can follow it.
- `RequestTimers`: two peers and three requests, so that two deadlines are pending when
  a third changes the wake-up, and one answer can meet another request of its peer; the
  clock runs past all deadlines.
- `HostNetwork`: two transports and two nodes, where a transport may come back as
  another node and a node on another transport; two links at once per transport, so
  that one closes while the other lives; one failed hello; limits 1 and 3 below a
  window of 4. Two dials and two hellos allow a second registration after a first.
- `PeerSessions`: two slots and three sessions, so that a slot is used again and the
  registry can be full; one dial at a time, two addresses; one frame or follow-up
  request beyond what each connection causes. Nodes are interchangeable, and the run
  uses their symmetry.
- `NvsStorage`: two buckets of two slots (`MaxSlot` is 255 in the code) and four hashes,
  three of them in one bucket, so that a bucket is full and a save finds no slot; three
  commands under way; one loss of power, between any two writes.
- `NoiseStream`: a length byte has three values (`Base`, 256 in the code) and a tag two
  bytes, so the longest frame is 8 bytes and its plaintext 6; a buffer of 7 needs two
  frames, the socket holds 5 bytes and cuts every frame, and 8 bytes are written.
- `SessionSetup`: one connection, a board at either end and a host at the other, that
  misstates any one of five things; the expected identity is right or wrong. The second
  configuration has a board at both ends.
- `BoardTasks`: a buffer of one (32 and 8 in the code), up to two blocks imported or
  parked by an event, and three stimuli. A channel is full after two messages, so that a circle closes within the bound; larger buffers
  need longer bursts for the same standstill.

Deadlock is checked where a step is always possible. In the other models a state
without a step is one in which the bounds are used up or, in the network models,
the manager's `run` has returned.

### Fairness

- `NodeStorage`: the node task takes up its next event and the storage task its next
  command, unless they wait at a full channel. Both are loops over a channel that do
  nothing else. Nothing is assumed of peers or crashes.
- `RequestTimers`: time passes, the wake loop takes its commands and sends its tick,
  and the node task handles ticks. Nothing is assumed of answers.
- `HostNetwork`: the manager and the node task take up what waits, Identify succeeds
  on a connection that stays, and a hello in progress is accepted in the end. That is
  strong fairness, because the bound on waiting events can disable it again and again
  while the swarm itself delivers in order. `DialledRegisters` excuses a run in which a
  hello failed: the code does not repeat it.
- `NoiseStream`: a pending sender or receiver is polled again, as the socket's retry
  timer sees to.
- `SessionSetup`: each end goes on with what it can do. A worker is a thread in
  `block_on` and a host polls its swarm. A lost connection is noticed in the end; that it
  is lost is never assumed.
- `BoardTasks`: as long as some task can go on, one does. Nothing is assumed of which,
  nor of the peer, the flash or the timer.
- `LedgerImport`, `BlockTree`, `PeerSessions` and `NvsStorage` state no fairness; their
  properties are about safety.

## 4. What is proved

TLAPS checks these for every value of the constants, under the named assumptions of
the modules that declare them (types of blocks, transactions, limits; a genesis
without parent; hashes that are numbers).

- `LedgerImportProofs`: `TypeCorrect`, and `ReplayProtection`, that no transaction of
  a sender is applied twice. `NoReplay` is not inductive, since a history without
  repetition says nothing of the next nonce. The invariant `Inv` adds that the sequence
  number of every applied transaction is below its sender's nonce, and no nonce above
  the length of the history (`Accounted`), for the accepted state and for the clone
  alike, and that the position in the block is sound (`CallOK`). The second part keeps
  nonces from wrapping: the theorem is about histories of at most `MaxApplied`
  transactions, any number a u64 holds. `SequencesStayUnbroken` says that each sender's
  transactions on the chain are numbered 0, 1, 2 and so on and that the accepted state
  expects the next; it needs the same of the clone (`Gapless`), which an accepted block
  makes the state, and that a nonce counts the transactions sent (`TxUnbroken`).
- `BlockTreeProofs`: `TypeCorrect`, `ForkChoice`, `TreeShape` and `StateFollowsHead`.
  The conjunction of the four invariants is
  inductive. The argument needs of the ledger rules only that an accepted block is
  signed, one above its parent and in a later slot (`AcceptedHeader`), and of
  `should_replace_head` that it is a strict total order (`AboveOrder`).
- `HostNetworkProofs`: `RegistryInverse`, and `RequestsWithinLimit`, that every sync
  request asks for a block at least and for no more than its receiver announced. The first is inductive
  by itself. The second needs that the limit kept for a node is that of its transport
  (`LimitsFollow`), which in turn needs the maps to be inverse; that the ranges the
  engine asks for are not empty, also where they saturate (`CommandsAsk`); and arithmetic
  on a range cut with saturating operations (`ClampWithinLimit`).
- `PeerSessionsProofs`: `RegistryStaysConsistent`; `MessagesAlwaysMeet`, that no event
  is taken for the next session in its slot and no command reaches a session of another
  node; and `TypeCorrect`. None is inductive alone: a slot may be freed only because
  nothing else refers to it. The invariant adds that a session and its living worker
  point at each other and agree on the node (`Owners`), that a worker has a node from
  the end of its set-up on (`Named`), and that it reports Ready at most once, before
  the manager knows its node, and Closed as its last event (`Reports`). The first free
  slot exists because the numbers are well founded (`MinInSet`).
- `NvsStorageProofs`: `BucketsStayInOrder`; `LatestStaysComplete`, that the latest key
  always leads to a block and the snapshot of that block; and `Implementation`, that the
  flash implements `SnapshotStore`. `BucketsInOrder` is what makes a load find a hash
  that is stored (`LoadFinds`) and a save, which does stop at the first free slot,
  not store it twice; with it a save changes what a load finds for its own hash only. The refinement needs more
  than that: a snapshot is stored only for a block that is there, because the node's
  commands come in order (`BlockFirst`, `SnapshotsHaveBlocks`), and the latest key is only
  ever about to point at a stored snapshot (`Targets`). Steps that fail, stop or lose
  power map to stutters.

Only model-checked: all liveness properties, which the prover does not reach; the
sums and counts of `FundsFollowTransfers` and `SelectionProportional`, which need induction
over data; and the other properties of section 3.

## 5. What is not modelled

Signatures, hashes, keys and encodings are abstract; equal hashes mean equal blocks,
and a codec is taken to return what was encoded. Wi-Fi, name resolution and the calls of
BSD sockets are I/O; what a socket may do to a read or a write is in `NoiseStream`. The
crates libp2p, yamux and snow are external: `SessionSetup` has what they do on the wire.
Channels are bounded in `BoardTasks` and in `NodeStorage`, where the node's events and
storage's commands are. The host's channels for network and wake commands have the same
shape, without a bound in `HostNetwork` and `RequestTimers`; its network manager does
not wait for its peers inside a command. The clock does not step back. Both hosts handle `BroadcastFrame` and
`DisconnectPeer`, but no event of theirs makes the engine ask for either. The board's
wake task appears as a task among others; the times it sleeps until are those of the
host's wake loop (`RequestTimers`). The client is a scaffold. `PROJECT.json` lists every
part with its reason.

## 6. Where the code and its documents disagree

Two runs show a disagreement as a counterexample:

| Run | The code | The text |
|---|---|---|
| `restart_head` | the latest pointer follows the last import, not the head | PHASE_3_BUILD_PLAN.md:219 |
| `two_boards` | both ends of a connection between boards wait for the other to open Identify | docs/embedded-libp2p-profile.md:1018 and :1293 |

The models have these behaviours too, which no run is devoted to:

- the engine's deadlines count from its last tick, which may be long ago, so a request
  can expire early; `AnswerInTimeContinues` is about the deadline the engine keeps;
- after a restore the tree has one block; a block that builds on another one, whose
  state is on disk, is refused when that state has been loaded (node_engine.rs:415
  and rp-node/src/blockchain.rs:102), which `NothingDropped` excepts;
- a block that came before its parent stays parked if the parent does not become the
  head (node_engine.rs:187), until a sibling asks for the same state; `ChildrenFollow` is
  about the others;
- on the host the node and storage can wait for each other at full channels
  (rp-runtime/src/main.rs:21-24; `Circle` of `NodeStorage`);
- on the host, one of two connections of a peer closes and the peer is forgotten
  (docs/embedded-libp2p-profile.md:1617), to be registered again only by a new hello;
- on the ESP32 a send to a session that has just ended ends the manager
  (docs/embedded-libp2p-profile.md:1303; `SendTo` of `PeerSessions`);
- on the ESP32 the node and a worker can wait for each other at full channels, and a
  session whose peer stays silent holds up the manager once its channel is full, since no
  exchange of an established session, the peer's or ours, has a time-out (`Circle`,
  `HeldByPeer` of `BoardTasks`);
- fees are never charged or paid (rp-core/src/models/transaction.rs:18), unstaked funds
  never unlock (rp-core/src/state.rs:17), and the state root covers balances only
  (rp-core/docs/chapter_05.md:20);
- mempool transactions with a used sequence number stay (rp-core/docs/chapter_06.md:14),
  and so do those of a new head's ancestors that come in with a reorganisation;
- a second block of height 1 stays parked, as the genesis state is never stored
  (rp-core/docs/chapter_07.md:92);
- one answer completes all requests of its peer (node_engine.rs:350), so that the answer
  to another of them is not continued;
- the host sends an answer to the oldest open request of its peer, which after a
  reconnect may be another one, and an answer whose channel is gone ends its manager
  (network/manager.rs:485 and :497); a transport that comes back as another node leaves
  the answers of the first waiting;
- on the ESP32 a session's first frame may overtake its PeerConnected
  (docs/embedded-libp2p-profile.md:1283), the node's answer to it then finds no session
  and the session waits for it for ever, and one connection too many, or a second
  session of a node, ends the manager (docs/embedded-libp2p-profile.md:963).

## 7. Plan

In this order:

1. A wall clock that steps back between a sleep and its tick (main.rs:121), with the
   board's wake task as a second instance of the same model.
2. The host's channels of network and wake commands with their bounds, where its network
   task selects over commands and swarm events.
3. An abstract specification of import (a set of accepted blocks and the best of them)
   that `BlockTree` and, through it, `NodeStorage` implement.
4. Length prefix and encodings as operators against reference definitions.
5. Proofs: `StatesAreReplays` of `NodeStorage`; `WakeFollowsDeadlines` of
   `RequestTimers`; `StreamIntact` of `NoiseStream`; the refinement of item 3.
