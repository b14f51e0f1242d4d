---------------------------- MODULE RequestTimers ----------------------------
(***************************************************************************)
(* The node engine's block requests on the host of rp-runtime: the wake    *)
(* loop of main.rs with its channel, the clock, and peers that connect,    *)
(* answer early, late or never, announce blocks whose parent is missing,   *)
(* and go away.  The engine learns the time from ticks only; a tick is     *)
(* stale by the time it is handled.                                        *)
(***************************************************************************)
EXTENDS NodeEngine

CONSTANTS
    Peer,               \* the peers
    Orphan,             \* a block whose parent nobody has
    NextHeights,        \* heights an answer may say to go on at
    StartTime,          \* the clock when the process starts
    StartupDelay,       \* STARTUP_HEARTBEAT_DELAY_MS
    MaxTime,            \* bound on the clock
    MaxRequests         \* bound on the requests made

ASSUME OrphanAssumption == Orphan \in Hash \ {Genesis}
ASSUME TimeAssumption ==
    /\ StartTime \in Nat
    /\ StartupDelay \in Nat
    /\ MaxTime \in StartTime .. MaxU64
    /\ MaxRequests \in Nat

VARIABLES
    engine,             \* the NodeEngine
    clock,              \* now_ms()
    timer,              \* next_tick_at_ms of the wake loop, or None
    wakes,              \* the wake channel
    ticks,              \* the times of the Tick events not yet handled
    loading,            \* whether the load of the orphan's parent is under way
    asked,              \* the number of each peer's unanswered requests
    due,                \* when an up-to-date request to each peer ends, or None
    made                \* counts the requests

vars == <<engine, clock, timer, wakes, ticks, loading, asked, due, made>>

Init ==
    /\ engine = NewEngine
    /\ clock = StartTime
    /\ timer = SaturatingAdd(StartTime, StartupDelay)
    /\ wakes = <<>>
    /\ ticks = <<>>
    /\ loading = FALSE
    /\ asked = [peer \in Peer |-> 0]
    /\ due = [peer \in Peer |-> None]
    /\ made = 0

-----------------------------------------------------------------------------
(* The host task *)

IsRequest(action) == action.type = "RequestBlocks"

\* The engine's answer to an event and the dispatch of its actions, when the
\* requests counted in rest are still unanswered.
Perform(turn, rest) ==
    LET requests == SelectSeq(turn.out, IsRequest)
    IN  /\ engine' = turn.engine
        /\ wakes' = wakes \o turn.wake
        /\ made' = made + Len(requests)
        /\ asked' = [peer \in Peer |->
                        rest[peer] + Len(SelectSeq(requests, LAMBDA r : r.peer = peer))]
        /\ due' = [peer \in Peer |->
                    IF \E i \in DOMAIN requests : requests[i].peer = peer
                    THEN IF turn.engine.now = clock THEN clock + RequestTimeout ELSE None
                    ELSE IF rest[peer] < asked[peer] THEN None ELSE due[peer]]

\* The inputs that may make a request leave time for it to expire.
MayRequest == made < MaxRequests /\ clock + RequestTimeout < MaxTime

Connect(peer) ==
    /\ MayRequest
    /\ Perform(HandleEvent(engine, [type |-> "PeerConnected", peer |-> peer]), asked)
    /\ UNCHANGED <<clock, timer, ticks, loading>>

\* What the peer was asked, it will not answer any more.
Disconnect(peer) ==
    /\ peer \in engine.peers
    /\ Perform(HandleEvent(engine, [type |-> "PeerDisconnected", peer |-> peer]),
               [asked EXCEPT ![peer] = 0])
    /\ UNCHANGED <<clock, timer, ticks, loading>>

\* An answer that says where to go on, or that there is no more.
Respond(peer, next_height) ==
    /\ asked[peer] > 0
    /\ next_height # None => MayRequest
    /\ Perform(HandleEvent(engine,
                   [type |-> "FrameReceived", peer |-> peer,
                    message |-> [type |-> "SyncResponse", blocks |-> <<>>,
                                 next_height |-> next_height]]),
               [asked EXCEPT ![peer] = @ - 1])
    /\ UNCHANGED <<clock, timer, ticks, loading>>

\* The orphan is parked and the state of its parent loaded, in vain: the
\* parent is then asked for.
Announce(peer) ==
    /\ MayRequest
    /\ ~ loading
    /\ Parked(engine, Parent(Orphan)) = <<>>
    /\ loading' = TRUE
    /\ Perform(HandleEvent(engine, [type |-> "FrameReceived", peer |-> peer,
                   message |-> [type |-> "NewBlock", hash |-> Orphan]]), asked)
    /\ UNCHANGED <<clock, timer, ticks>>

LoadFails ==
    /\ loading
    /\ MayRequest
    /\ loading' = FALSE
    /\ Perform(HandleEvent(engine, [type |-> "StorageLoaded", hash |-> Parent(Orphan),
                                    found |-> FALSE]), asked)
    /\ UNCHANGED <<clock, timer, ticks>>

HandleTick ==
    /\ ticks # <<>>
    /\ ticks' = Tail(ticks)
    /\ Perform(HandleEvent(engine, [type |-> "Tick", now |-> Head(ticks)]), asked)
    /\ UNCHANGED <<clock, timer, loading>>

-----------------------------------------------------------------------------
(* The wake loop and the clock *)

\* The command branch of select!, and the only one when no tick is due.
TakeCommand ==
    /\ wakes # <<>>
    /\ timer' = IF Head(wakes) = CancelWake THEN None ELSE Head(wakes).at
    /\ wakes' = Tail(wakes)
    /\ UNCHANGED <<engine, clock, ticks, loading, asked, due, made>>

\* The sleep branch: the deadline, or one already past, is reached.
SendTick ==
    /\ timer # None
    /\ timer <= clock
    /\ timer' = None
    /\ ticks' = Append(ticks, clock)
    /\ UNCHANGED <<engine, clock, wakes, loading, asked, due, made>>

Elapse ==
    /\ clock < MaxTime
    /\ clock' = clock + 1
    /\ UNCHANGED <<engine, timer, wakes, ticks, loading, asked, due, made>>

Next ==
    \/ \E peer \in Peer : Connect(peer) \/ Disconnect(peer) \/ Announce(peer)
    \/ \E peer \in Peer, next_height \in NextHeights \cup {None} :
            Respond(peer, next_height)
    \/ LoadFails
    \/ HandleTick
    \/ TakeCommand
    \/ SendTick
    \/ Elapse

\* The host task and the wake loop run when they can and time passes; peers do
\* as they like.
Spec ==
    /\ Init /\ [][Next]_vars
    /\ WF_vars(HandleTick)
    /\ WF_vars(TakeCommand)
    /\ WF_vars(SendTick)
    /\ WF_vars(Elapse)

-----------------------------------------------------------------------------
(* Properties *)

\* The engine's idea of the time is never ahead of the clock, ticks come in
\* order, and no deadline is further away than the timeout.
TypeOK ==
    /\ engine.now <= clock
    /\ \A i \in DOMAIN ticks : ticks[i] \in engine.now .. clock
    /\ timer \in U64 \cup {None}
    /\ \A i \in DOMAIN wakes : wakes[i] = CancelWake \/ wakes[i].at \in U64
    /\ \A i \in DOMAIN engine.requests :
            engine.requests[i].deadline <= clock + RequestTimeout

\* What the wake loop's timer is to be once it has read its channel.
Scheduled == IF wakes = <<>> THEN WakeAction(timer) ELSE wakes[Len(wakes)]

\* While requests are pending, the timer is, or is about to be, set to the
\* earliest deadline, or a tick that reaches it is on its way.
WakeNeverLost ==
    engine.requests # <<>> =>
        \/ Scheduled = ScheduleWake(NextDeadline(engine))
        \/ \E i \in DOMAIN ticks : ticks[i] >= NextDeadline(engine)

\* A node without pending requests comes to sleep: beyond the ticks and
\* commands that are on their way, no wake-up is scheduled, the first one apart.
SleepsWhenIdle ==
    engine.requests = <<>> =>
        \/ Scheduled = CancelWake
        \/ engine.now = 0 /\ Scheduled = ScheduleWake(StartTime + StartupDelay)

\* The wake-up follows the deadlines, whatever commands, ticks and events cross
\* each other in the two channels: none is lost while a request is pending, and
\* none is left over when nothing is.
WakeFollowsDeadlines == TypeOK /\ WakeNeverLost /\ SleepsWhenIdle

\* Every request comes to an end, by its answer, by the peer going away or by
\* its timeout: no peer stays asked for ever.
RequestsEnd ==
    \A peer \in Peer :
        (\E i \in DOMAIN engine.requests : engine.requests[i].peer = peer)
        ~> (\A i \in DOMAIN engine.requests : engine.requests[i].peer # peer)

\* An answer that comes before the timeout has passed since its request, and
\* that says there is more, makes the node go on: the request was not given up
\* before its time, if the engine's clock was right when it was made.
AnswerInTimeContinues ==
    [][\A peer \in Peer, next_height \in NextHeights :
        /\ Respond(peer, next_height)
        /\ asked[peer] = 1
        /\ due[peer] # None /\ clock < due[peer]
        => made' > made]_vars
=============================================================================
