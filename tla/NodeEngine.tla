----------------------------- MODULE NodeEngine ------------------------------
(***************************************************************************)
(* rp-node/src/node_engine.rs: the engine as the function from an input to *)
(* a new engine and a list of actions for its host.  The engine is a       *)
(* record, a handler is an operator on a Turn: the engine so far and the   *)
(* actions so far, in order.  ReportEvent, the FrameReceived action and    *)
(* PersistCompleted are only logged by the host and are left out, so are   *)
(* frames that do not decode and announce responses, which do nothing      *)
(* else.  A frame stands for the message it decodes to.                    *)
(***************************************************************************)
EXTENDS Blockchain

CONSTANTS
    RequestTimeout,     \* REQUEST_TIMEOUT_MS
    SyncWindow          \* blocks asked of a new peer, 100 in PeerConnected

ASSUME RequestTimeoutAssumption == RequestTimeout \in Nat \ {0}
ASSUME SyncWindowAssumption == SyncWindow \in Nat \ {0}

None == -1

\* u64::saturating_add and saturating_sub
SaturatingAdd(a, b) == IF a + b > MaxU64 THEN MaxU64 ELSE a + b
SaturatingSub(a, b) == IF a < b THEN 0 ELSE a - b

-----------------------------------------------------------------------------
(* The engine and its actions *)

\* NodeEngine::new.  A peer in the map is connected, last_seen_ms is never
\* read; a block in the map of parked ones is listed under its parent's hash.
NewEngine ==
    [bc |-> NewBlockchain, peers |-> {}, requests |-> <<>>, parked |-> EmptyMap,
     now |-> 0, wake |-> None]

PersistBlock(h) == [type |-> "PersistBlock", hash |-> h]
PersistSnapshot(h, s) == [type |-> "PersistSnapshot", hash |-> h, state |-> s]
LoadSnapshot(h) == [type |-> "LoadSnapshot", hash |-> h]
RequestBlocks(peer, from, to) ==
    [type |-> "RequestBlocks", peer |-> peer, from |-> from, to |-> to]
SendFrame(peer, message) == [type |-> "SendFrame", peer |-> peer, message |-> message]
BroadcastFrame(message) == [type |-> "BroadcastFrame", message |-> message]
ScheduleWake(at) == [type |-> "ScheduleWake", at |-> at]
CancelWake == [type |-> "CancelWake"]

Turn(engine, out) == [engine |-> engine, out |-> out]

-----------------------------------------------------------------------------
(* Requests and the wake-up they need *)

\* Mutant of Prune that keeps a request at its very deadline.
PruneLate(e, now) == [e EXCEPT !.requests = SelectSeq(@, LAMBDA r : r.deadline >= now)]

\* prune_expired_requests
Prune(e, now) == [e EXCEPT !.requests = SelectSeq(@, LAMBDA r : r.deadline > now)]

\* Mutant of ForgetRequestsTo that forgets those to the other peers as well.
ForgetsAll(e, peer) == [e EXCEPT !.requests = <<>>]

ForgetRequestsTo(e, peer) ==
    [e EXCEPT !.requests = SelectSeq(@, LAMBDA r : r.peer # peer)]

NextDeadline(e) ==
    IF e.requests = <<>> THEN None
    ELSE Min({e.requests[i].deadline : i \in DOMAIN e.requests})

WakeAction(at) == IF at = None THEN CancelWake ELSE ScheduleWake(at)

\* Mutant of SyncWake that cancels the wake-up and still counts on it.
CountsOnCancelled(turn) ==
    LET next == NextDeadline(turn.engine)
    IN  IF next = turn.engine.wake
        THEN [engine |-> turn.engine, out |-> turn.out, wake |-> <<>>]
        ELSE [engine |-> IF next = None THEN turn.engine
                         ELSE [turn.engine EXCEPT !.wake = next],
              out |-> turn.out, wake |-> <<WakeAction(next)>>]

\* sync_wake_action: the last action of a turn, if any, kept apart as wake.
SyncWake(turn) ==
    LET next == NextDeadline(turn.engine)
    IN  IF next = turn.engine.wake
        THEN [engine |-> turn.engine, out |-> turn.out, wake |-> <<>>]
        ELSE [engine |-> [turn.engine EXCEPT !.wake = next], out |-> turn.out,
              wake |-> <<WakeAction(next)>>]

\* queue_block_request
QueueRequest(turn, peer, from, to) ==
    LET request == [peer |-> peer, from |-> from, to |-> to,
                    deadline |-> SaturatingAdd(turn.engine.now, RequestTimeout)]
    IN  Turn([turn.engine EXCEPT !.requests = Append(@, request)],
             Append(turn.out, RequestBlocks(peer, from, to)))

\* continue_request: what is left of the range, or a range as long after it.
ContinueRequest(turn, request, next_height) ==
    IF next_height = 0 THEN turn
    ELSE QueueRequest(turn, request.peer, next_height,
             IF next_height <= request.to THEN request.to
             ELSE SaturatingAdd(next_height, SaturatingSub(request.to, request.from)))

-----------------------------------------------------------------------------
(* Blocks *)

\* import_parked_blocks recurses into the children of a new head before it
\* goes on with the siblings: a work list, each entry with its parent's state.
Unpark(work, parent, s) ==
    IF parent \notin DOMAIN work.parked THEN work
    ELSE LET entries == [i \in DOMAIN work.parked[parent] |->
                            [hash |-> work.parked[parent][i].hash, state |-> s]]
         IN  [work EXCEPT !.todo = entries \o @, !.parked = Drop(@, parent)]

\* Mutant of Persist that stores the snapshot, and the pointer, first.
SnapshotFirst(h, s) == <<PersistSnapshot(h, s), PersistBlock(h)>>

\* The actions for a block that was added.
Persist(h, s) == <<PersistBlock(h), PersistSnapshot(h, s)>>

\* Mutant of Imported that stores a block only when it becomes the head.
StoresHeadsOnly(work, next, added) ==
    IF ~ added.ok THEN work
    ELSE IF added.became_head
    THEN Unpark([work EXCEPT !.bc = added.bc,
                             !.out = @ \o Persist(next.hash, added.next_state)],
                next.hash, added.next_state)
    ELSE [work EXCEPT !.bc = added.bc]

\* Mutant of Imported that gives up the other blocks when one fails.
StopsAtFailure(work, next, added) ==
    LET done == [work EXCEPT !.bc = added.bc,
                             !.out = @ \o Persist(next.hash, added.next_state)]
    IN  IF ~ added.ok THEN [work EXCEPT !.todo = <<>>]
        ELSE IF added.became_head THEN Unpark(done, next.hash, added.next_state)
        ELSE done

\* What follows add_block for the next block of the list.
Imported(work, next, added) ==
    LET done == [work EXCEPT !.bc = added.bc,
                             !.out = @ \o Persist(next.hash, added.next_state)]
    IN  IF ~ added.ok THEN work
        ELSE IF added.became_head THEN Unpark(done, next.hash, added.next_state)
        ELSE done

\* One iteration of the loop.
ImportNext(work) ==
    IF work.todo = <<>> THEN work
    ELSE Imported([work EXCEPT !.todo = Tail(@)], Head(work.todo),
                  AddBlock(work.bc, Head(work.todo).hash, Head(work.todo).state))

\* The whole loop: each iteration takes one block off the list, and a block
\* gets there at most once.
Drained(work) ==
    LET Waiting == MapThenSumSet(LAMBDA h : Len(work.parked[h]), DOMAIN work.parked)
        after[n \in Nat] == IF n = 0 THEN work ELSE ImportNext(after[n - 1])
    IN  after[Len(work.todo) + Waiting]

\* The end of a turn that began with engine e.
Settled(e, work) ==
    Turn([e EXCEPT !.bc = work.bc, !.parked = work.parked], work.out)

Work(turn, todo) ==
    [bc |-> turn.engine.bc, parked |-> turn.engine.parked, todo |-> todo, out |-> turn.out]

\* import_parked_blocks
ImportParked(turn, parent, s) ==
    Settled(turn.engine, Drained(Unpark(Work(turn, <<>>), parent, s)))

\* The blocks parked under a hash, and one more of them from a peer.
Parked(e, parent) == IF parent \in DOMAIN e.parked THEN e.parked[parent] ELSE <<>>

Park(e, peer, h) ==
    [e EXCEPT !.parked = Put(@, Parent(h),
                             Append(Parked(e, Parent(h)), [peer |-> peer, hash |-> h]))]

\* Mutant of IngestBlock that loads for the first block parked under a hash only.
LoadsOnce(turn, peer, h) ==
    IF turn.engine.bc.head_hash = Parent(h)
    THEN Settled(turn.engine,
                 Drained(Work(turn, <<[hash |-> h, state |-> turn.engine.bc.state]>>)))
    ELSE Turn(Park(turn.engine, peer, h),
              IF Parked(turn.engine, Parent(h)) # <<>> THEN turn.out
              ELSE Append(turn.out, LoadSnapshot(Parent(h))))

\* ingest_block: a child of the head goes the way of a parked block at once,
\* on the state at hand; any other is parked and its parent's state loaded.
IngestBlock(turn, peer, h) ==
    IF turn.engine.bc.head_hash = Parent(h)
    THEN Settled(turn.engine,
                 Drained(Work(turn, <<[hash |-> h, state |-> turn.engine.bc.state]>>)))
    ELSE Turn(Park(turn.engine, peer, h), Append(turn.out, LoadSnapshot(Parent(h))))

\* What the SyncRequest handler answers; has_more, which no handler reads, is left out.
SyncResponse(bc, from, to) ==
    LET blocks   == GetBlocks(bc, from, to)
        earliest == EarliestContiguousHeight(bc)
        served   == BlockOf[blocks[Len(blocks)]].height
    IN  [type |-> "SyncResponse", blocks |-> blocks, next_height |->
            IF blocks # <<>>
            THEN IF served < LatestHeight(bc) THEN SaturatingAdd(served, 1) ELSE None
            ELSE IF from < earliest /\ earliest <= LatestHeight(bc) THEN earliest
            ELSE None]

-----------------------------------------------------------------------------
(* The inputs *)

OnTick(e, input) == Turn(Prune([e EXCEPT !.now = input.now], input.now), <<>>)

OnPeerConnected(e, input) ==
    QueueRequest(Turn([e EXCEPT !.peers = @ \cup {input.peer}], <<>>), input.peer,
                 SaturatingAdd(LatestHeight(e.bc), 1),
                 SaturatingAdd(LatestHeight(e.bc), SyncWindow))

OnPeerDisconnected(e, input) ==
    Turn(ForgetRequestsTo([e EXCEPT !.peers = @ \ {input.peer}], input.peer), <<>>)

\* A transaction from a peer goes on to the others, in the order of their ids.
OnNewTransaction(e, peer, tx) ==
    LET added  == AddTransaction(e.bc, tx)
        others == SetToSortSeq(e.peers \ {peer}, <)
    IN  Turn([e EXCEPT !.bc = added.bc],
             IF added.answer = "added"
             THEN [i \in DOMAIN others |->
                      SendFrame(others[i], [type |-> "NewTransaction", tx |-> tx])]
             ELSE <<>>)

OnSyncResponse(e, peer, message) ==
    LET completed == SelectSeq(e.requests, LAMBDA r : r.peer = peer)
        ingested  == FoldLeft(LAMBDA turn, h : IngestBlock(turn, peer, h),
                              Turn(ForgetRequestsTo(e, peer), <<>>), message.blocks)
    IN  IF message.next_height = None THEN ingested
        ELSE FoldLeft(LAMBDA turn, r : ContinueRequest(turn, r, message.next_height),
                      ingested, completed)

OnFrame(e, input) ==
    LET message == input.message
    IN  CASE message.type = "NewBlock" ->
                IngestBlock(Turn(e, <<>>), input.peer, message.hash)
          [] message.type = "NewTransaction" -> OnNewTransaction(e, input.peer, message.tx)
          [] message.type = "SyncRequest" ->
                Turn(e, <<SendFrame(input.peer,
                                    SyncResponse(e.bc, message.from, message.to))>>)
          [] message.type = "SyncResponse" -> OnSyncResponse(e, input.peer, message)

OnLocalTransaction(e, input) ==
    LET added == AddTransaction(e.bc, input.tx)
    IN  Turn([e EXCEPT !.bc = added.bc],
             IF added.answer = "added"
             THEN <<BroadcastFrame([type |-> "NewTransaction", tx |-> input.tx])>>
             ELSE <<>>)

\* Mutant of OnStorageLoaded that asks the storage again for what it lacks.
LoadsAgain(e, input) ==
    IF input.hash \notin DOMAIN e.parked THEN Turn(e, <<>>)
    ELSE IF input.found THEN ImportParked(Turn(e, <<>>), input.hash, input.state)
    ELSE Turn(e, <<LoadSnapshot(input.hash)>>)

\* The stored state of a parked block's parent, or None when there is none.
OnStorageLoaded(e, input) ==
    IF input.hash \notin DOMAIN e.parked THEN Turn(e, <<>>)
    ELSE LET first == e.parked[input.hash][1]
         IN  IF input.found THEN ImportParked(Turn(e, <<>>), input.hash, input.state)
             ELSE LET height == SaturatingSub(BlockOf[first.hash].height, 1)
                  IN  QueueRequest(Turn(e, <<>>), first.peer, height, height)

OnImportRequested(e, input) ==
    QueueRequest(Turn(e, <<>>), input.peer, input.from, input.to)

\* NodeEngine::step; the wake-up is brought up to date after every input.
Step(e, input) ==
    SyncWake(CASE input.type = "Tick" -> OnTick(e, input)
               [] input.type = "PeerConnected" -> OnPeerConnected(e, input)
               [] input.type = "PeerDisconnected" -> OnPeerDisconnected(e, input)
               [] input.type = "FrameReceived" -> OnFrame(e, input)
               [] input.type = "LocalTransaction" -> OnLocalTransaction(e, input)
               [] input.type = "StorageLoaded" -> OnStorageLoaded(e, input)
               [] input.type = "ImportRequested" -> OnImportRequested(e, input))

\* restore_latest_snapshot, which is no step: it leaves the wake-up alone.
RestoreLatestSnapshot(e, input) ==
    IF input.found /\ BlockOf[input.hash].state_root = StateRoot(input.state)
    THEN [e EXCEPT !.bc = RestoreHead(input.hash, input.state)]
    ELSE e

\* NodeManager::run: how the host hands an event to the engine.
HandleEvent(e, event) ==
    IF event.type = "LatestSnapshotLoaded"
    THEN [engine |-> RestoreLatestSnapshot(e, event), out |-> <<>>, wake |-> <<>>]
    ELSE Step(e, event)
=============================================================================
