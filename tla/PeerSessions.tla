---------------------------- MODULE PeerSessions ----------------------------
(***************************************************************************)
(* The network of erp-runtime: the NetworkManager with its PeerRegistry,   *)
(* one SessionWorker thread per connection, and the node task.  Workers    *)
(* report to the manager through one queue of session events, and to the   *)
(* node through the node's own event queue; the manager reports to the     *)
(* node too.  A worker carries one exchange at a time: while it waits for  *)
(* an answer, of its peer or of the node, it does nothing else.            *)
(*                                                                         *)
(* The transport below (Noise, Yamux, Identify) is one step that succeeds  *)
(* with the node the peer proves to be, or ends the session.  Channels are *)
(* not bounded here.  The manager also knows broadcasts and disconnects,   *)
(* but nothing in erp-runtime asks for them: the engine broadcasts local   *)
(* transactions only, which have no event, and never disconnects.          *)
(***************************************************************************)
EXTENDS Integers, Sequences, FiniteSetsExt, Maps

CONSTANTS
    Node,               \* node identities of the peers
    Bootstrap,          \* the bootstrap addresses, a sequence
    MaxPeers,           \* config.max_peers
    MaxOutboundDials,   \* config.max_outbound_dials
    None,               \* no node, no address, no session
    MaxSessions,        \* bound on the sessions spawned
    MaxFrames           \* bound on the frames that peers send and follow-up requests

ASSUME LimitsAssumption == MaxPeers \in Nat /\ MaxOutboundDials \in Nat

Session == [worker : Nat, address : Range(Bootstrap) \cup {None}, node : Node \cup {None},
            ready : BOOLEAN]

ASSUME NamesAssumption ==
    /\ None \notin Node \cup Session
    /\ Bootstrap \in Seq(Range(Bootstrap))

VARIABLES
    running,            \* whether the manager's run has not returned an error
    sessions,           \* the registry's slots: a session, or None
    by_node_peer,       \* the registry's index
    session_commands,   \* the senders: which worker a slot's commands reach
    cursor,             \* bootstrap_cursor, modulo the number of addresses
    workers,            \* the session threads, by number; early is set
                        \* while a request is served that overtook Ready
    session_events,     \* from the workers to the manager
    events,             \* from workers and manager to the node
    commands,           \* from the node to the manager
    known,              \* the node's peers
    count               \* number of these frames

registry == <<sessions, by_node_peer>>
vars == <<running, registry, session_commands, cursor, workers, session_events, events,
          commands, known, count>>

Slots == DOMAIN sessions
Occupied == {i \in Slots : sessions[i] # None}
Live == {w \in DOMAIN workers : workers[w].phase # "ended"}

Init ==
    /\ running = TRUE
    /\ sessions = <<>>
    /\ by_node_peer = EmptyMap
    /\ session_commands = EmptyMap
    /\ cursor = 0
    /\ workers = <<>>
    /\ session_events = <<>>
    /\ events = <<>>
    /\ commands = <<>>
    /\ known = {}
    /\ count = 0

Message(type, n) == [type |-> type, peer |-> n]

-----------------------------------------------------------------------------
(* The registry *)

\* PeerRegistry::alloc: the first free slot, or a new one while there is room.
FreeSlots == {i \in 1 .. Len(sessions) + 1 : i \notin Occupied /\ i <= MaxPeers}

\* spawn_session.  A full registry ends run; so would a thread that cannot be
\* spawned, which is left out.
Spawn(address) ==
    IF FreeSlots = {}
    THEN running' = FALSE /\ UNCHANGED <<registry, session_commands, workers>>
    ELSE LET i == Min(FreeSlots)
             w == Len(workers) + 1
         IN  /\ sessions' = Put(sessions, i, [worker |-> w, address |-> address,
                                              node |-> None, ready |-> FALSE])
             /\ session_commands' = Put(session_commands, i, w)
             /\ workers' = Append(workers, [slot |-> i, phase |-> "setup", node |-> None,
                                            inbox |-> <<>>, early |-> FALSE])
             /\ UNCHANGED <<running, by_node_peer>>

\* PeerRegistry::register_node_peer
MayRegister(n, i) == n \in DOMAIN by_node_peer => by_node_peer[n] = i

\* Mutant of RemoveSession that leaves the index alone.
RemoveKeepsIndex(i) ==
    /\ sessions' = [sessions EXCEPT ![i] = None]
    /\ UNCHANGED by_node_peer

\* PeerRegistry::remove
RemoveSession(i) ==
    /\ sessions' = [sessions EXCEPT ![i] = None]
    /\ by_node_peer' = IF sessions[i].node = None THEN by_node_peer
                       ELSE Drop(by_node_peer, sessions[i].node)

-----------------------------------------------------------------------------
(* The manager *)

\* The accept branch of run.
Accept ==
    /\ Len(workers) < MaxSessions
    /\ Spawn(None)
    /\ UNCHANGED <<cursor, session_events, events, commands, known, count>>

\* bootstrap_once, when the address resolves and the connection succeeds; when
\* not, or when the address has a session, the cursor moves on all the same.
BootstrapOnce(connects) ==
    /\ Len(workers) < MaxSessions
    /\ Cardinality({i \in Occupied : sessions[i].address # None}) < MaxOutboundDials
    /\ Bootstrap # <<>>
    /\ cursor' = (cursor + 1) % Len(Bootstrap)
    /\ LET address == Bootstrap[cursor + 1]
       IN  IF connects /\ \A i \in Occupied : sessions[i].address # address
           THEN Spawn(address)
           ELSE UNCHANGED <<running, registry, session_commands, workers>>
    /\ UNCHANGED <<session_events, events, commands, known, count>>

\* handle_session_event, Ready: a node that another session has ends run.
Ready(event) ==
    LET i == event.slot
        n == event.node
    IN  IF MayRegister(n, i)
        THEN /\ sessions' = [sessions EXCEPT ![i] = [@ EXCEPT !.ready = TRUE, !.node = n]]
             /\ by_node_peer' = Put(by_node_peer, n, i)
             /\ events' = Append(events, Message("PeerConnected", n))
             /\ UNCHANGED <<running, session_commands>>
        ELSE /\ sessions' = [sessions EXCEPT ![i].ready = TRUE]
             /\ running' = FALSE
             /\ UNCHANGED <<by_node_peer, session_commands, events>>

\* Mutant of Closed that says nothing to the node.
ClosedInSilence(event) ==
    /\ session_commands' = Drop(session_commands, event.slot)
    /\ RemoveSession(event.slot)
    /\ UNCHANGED <<running, events>>

\* Mutant of Closed that passes over a session that never was ready.
ClosedLeaksSlot(event) ==
    IF event.node = None THEN UNCHANGED <<running, registry, session_commands, events>>
    ELSE /\ session_commands' = Drop(session_commands, event.slot)
         /\ RemoveSession(event.slot)
         /\ events' = Append(events, Message("PeerDisconnected", event.node))
         /\ UNCHANGED running

\* handle_session_event, Closed
Closed(event) ==
    /\ session_commands' = Drop(session_commands, event.slot)
    /\ RemoveSession(event.slot)
    /\ events' = IF event.node = None THEN events
                 ELSE Append(events, Message("PeerDisconnected", event.node))
    /\ UNCHANGED running

HandleSessionEvent ==
    /\ session_events # <<>>
    /\ session_events' = Tail(session_events)
    /\ \/ Head(session_events).type = "Ready" /\ Ready(Head(session_events))
       \/ Head(session_events).type = "Closed" /\ Closed(Head(session_events))
    /\ UNCHANGED <<cursor, workers, commands, known, count>>

\* Mutant of SendTo that does not wait for a worker that is busy.
SendToIdle(i, command) ==
    LET w == session_commands[i]
    IN  /\ IF w \in Live /\ workers[w].phase = "idle"
           THEN workers' = [workers EXCEPT ![w].inbox = Append(@, command)]
           ELSE UNCHANGED workers
        /\ UNCHANGED running

\* command_tx.send(..).await?: a worker that has ended does not receive it.  Then
\* the command is lost, or, once the worker has dropped its receiver, the send
\* fails and ends run.
SendTo(i, command) ==
    LET w == session_commands[i]
    IN  IF w \in Live
        THEN /\ workers' = [workers EXCEPT ![w].inbox = Append(@, command)]
             /\ UNCHANGED running
        ELSE running' \in BOOLEAN /\ UNCHANGED workers

\* Mutant of HandleCommand that removes a session it cannot reach.
HandleCommandDemotes ==
    /\ commands # <<>>
    /\ commands' = Tail(commands)
    /\ LET n == Head(commands).peer
       IN  IF n \in DOMAIN by_node_peer
                /\ workers[session_commands[by_node_peer[n]]].phase = "ended"
           THEN /\ RemoveSession(by_node_peer[n])
                /\ session_commands' = Drop(session_commands, by_node_peer[n])
                /\ events' = Append(events, Message("PeerDisconnected", n))
           ELSE UNCHANGED <<registry, session_commands, events>>
    /\ UNCHANGED <<running, cursor, workers, session_events, known, count>>

\* handle_network_command, send_frame_to_peer: to the session of the command's
\* peer, if there is one and its sender is known.
HandleCommand ==
    /\ commands # <<>>
    /\ commands' = Tail(commands)
    /\ LET command == Head(commands)
       IN  IF /\ command.peer \in DOMAIN by_node_peer
              /\ by_node_peer[command.peer] \in DOMAIN session_commands
           THEN SendTo(by_node_peer[command.peer], command)
           ELSE UNCHANGED <<running, workers>>
    /\ UNCHANGED <<registry, session_commands, cursor, session_events, events, known, count>>

-----------------------------------------------------------------------------
(* The session threads *)

SetPhase(w, phase) == workers' = [workers EXCEPT ![w].phase = phase]

Report(w, type, n) ==
    session_events' = Append(session_events,
        [type |-> type, slot |-> workers[w].slot, node |-> n, worker |-> w])

\* establish_session succeeds, from the negotiation of Noise and Yamux to the hello
\* that proves the peer's node, and the manager is told.
SetUp(w, n) ==
    /\ workers[w].phase = "setup"
    /\ workers' = [workers EXCEPT ![w].phase = "idle", ![w].node = n]
    /\ Report(w, "Ready", n)
    /\ UNCHANGED <<running, registry, session_commands, cursor, events, commands, known, count>>

\* The end of run_async: the peer closes, the transport or an exchange fails,
\* or the set-up is rejected.  The receiver of the commands is dropped.
End(w) ==
    /\ workers' = [workers EXCEPT ![w].phase = "ended", ![w].inbox = <<>>,
                                   ![w].early = FALSE]
    /\ Report(w, "Closed", workers[w].node)
    /\ UNCHANGED <<running, registry, session_commands, cursor, events, commands, known, count>>

\* handle_inbound_substream, SYNC_PROTOCOL, up to the wait for the node, and
\* ANNOUNCE_PROTOCOL
Receive(w, type) ==
    /\ workers[w].phase = "idle"
    /\ count < MaxFrames
    /\ count' = count + 1
    /\ events' = Append(events, Message(type, workers[w].node))
    /\ workers' = [workers EXCEPT
            ![w].phase = IF type = "SyncRequest" THEN "serving" ELSE "idle",
            ![w].early = type = "SyncRequest" /\ sessions[workers[w].slot].node = None]
    /\ UNCHANGED <<running, registry, session_commands, cursor, session_events, commands, known>>

\* run_established_session takes a command: handle_outbound_frame sends it and
\* waits for the answer, or fails if the command is itself an answer.
TakeCommand(w) ==
    /\ workers[w].phase = "idle"
    /\ workers[w].inbox # <<>>
    /\ LET type == Head(workers[w].inbox).type
       IN  IF type = "SyncResponse"
           THEN End(w)
           ELSE /\ workers' = [workers EXCEPT
                        ![w].phase = IF type = "Announce" THEN "announcing" ELSE "asking",
                        ![w].inbox = Tail(@)]
                /\ UNCHANGED <<running, registry, session_commands, cursor, session_events,
                               events, commands, known, count>>

\* handle_outbound_frame, the peer's answer
Answered(w) ==
    /\ workers[w].phase \in {"asking", "announcing"}
    /\ SetPhase(w, "idle")
    /\ events' = Append(events, Message(IF workers[w].phase = "asking" THEN "SyncResponse"
                                        ELSE "AnnounceResponse", workers[w].node))
    /\ UNCHANGED <<running, registry, session_commands, cursor, session_events, commands, known,
                   count>>

Without(seq, i) == SubSeq(seq, 1, i - 1) \o SubSeq(seq, i + 1, Len(seq))

\* wait_for_sync_response: commands before the node's answer are kept, in their
\* order.
WaitForSyncResponse(w) ==
    /\ workers[w].phase = "serving"
    /\ LET inbox   == workers[w].inbox
           answers == {i \in DOMAIN inbox : inbox[i].type = "SyncResponse"}
       IN  /\ answers # {}
           /\ workers' = [workers EXCEPT ![w].phase = "idle", ![w].early = FALSE,
                                         ![w].inbox = Without(@, Min(answers))]
    /\ UNCHANGED <<running, registry, session_commands, cursor, session_events, events, commands,
                   known, count>>

-----------------------------------------------------------------------------
(* The node task *)

\* The peers in the order in which the node goes through them.
InOrder(peers) == CHOOSE order \in Bijection(1 .. Cardinality(peers), peers) : TRUE

\* The commands of the engine's step for a frame of n: the answer to a sync
\* request; a transaction goes on to the other peers; a block without its parent,
\* or a page with more to come, makes it ask n (more).
Response(type, n, more) ==
    CASE more -> <<Message("SyncRequest", n)>>
      [] ~ more /\ type = "SyncRequest" -> <<Message("SyncResponse", n)>>
      [] ~ more /\ type = "Announce" ->
            [i \in 1 .. Cardinality(known \ {n}) |->
                Message("Announce", InOrder(known \ {n})[i])]
      [] OTHER -> <<>>

\* NodeManager::run with the engine's step
HandleEvent(more) ==
    /\ events # <<>>
    /\ more => Head(events).type \in {"Announce", "SyncResponse"}
               /\ count < MaxFrames
    /\ events' = Tail(events)
    /\ count' = IF more THEN count + 1 ELSE count
    /\ LET type == Head(events).type
           n    == Head(events).peer
       IN  /\ known' = CASE type = "PeerConnected" -> known \cup {n}
                         [] type = "PeerDisconnected" -> known \ {n}
                         [] OTHER -> known
           /\ commands' = commands \o Response(type, n, more \/ type = "PeerConnected")
    /\ UNCHANGED <<running, registry, session_commands, cursor, workers, session_events>>

\* Everything winds down once the manager's run has ended; the model stops.
Next ==
    /\ running
    /\ \/ Accept
       \/ \E connects \in BOOLEAN : BootstrapOnce(connects)
       \/ HandleSessionEvent
       \/ HandleCommand
       \/ \E w \in Live :
            \/ \E n \in Node : SetUp(w, n)
            \/ End(w)
            \/ \E type \in {"SyncRequest", "Announce"} : Receive(w, type)
            \/ TakeCommand(w)
            \/ Answered(w)
            \/ WaitForSyncResponse(w)
       \/ \E more \in BOOLEAN : HandleEvent(more)

Spec == Init /\ [][Next]_vars

-----------------------------------------------------------------------------
(* Properties *)

Messages ==
    [type : {"PeerConnected", "PeerDisconnected", "SyncRequest", "SyncResponse", "Announce",
             "AnnounceResponse"}, peer : Node]

Worker ==
    [slot : 1 .. MaxPeers, node : Node \cup {None}, inbox : Seq(Messages), early : BOOLEAN,
     phase : {"setup", "idle", "asking", "announcing", "serving", "ended"}]

SessionEvent ==
    [type : {"Ready", "Closed"}, slot : 1 .. MaxPeers, node : Node \cup {None}, worker : Nat]

\* Slots, workers and queues hold what their types say, and there are no more
\* slots than config.max_peers.
TypeOK ==
    /\ sessions \in Seq(Session \cup {None}) /\ Len(sessions) <= MaxPeers
    /\ DOMAIN by_node_peer \subseteq Node
    /\ cursor \in Nat /\ (cursor # 0 => cursor < Len(Bootstrap))
    /\ workers \in Seq(Worker)
    /\ session_events \in Seq(SessionEvent)
    /\ events \in Seq(Messages) /\ commands \in Seq(Messages)
    /\ known \subseteq Node /\ IsFiniteSet(known)

\* The index of the registry, its slots and the senders agree: the index finds
\* exactly the sessions with a node, and every occupied slot has its worker.
RegistryConsistent ==
    /\ \A n \in DOMAIN by_node_peer :
        by_node_peer[n] \in Occupied /\ sessions[by_node_peer[n]].node = n
    /\ \A i \in Occupied : sessions[i].node # None =>
        sessions[i].node \in DOMAIN by_node_peer /\ by_node_peer[sessions[i].node] = i
    /\ DOMAIN session_commands = Occupied
    /\ \A i \in Occupied : session_commands[i] = sessions[i].worker

\* An event on its way to the manager is about the session that is in its slot.
EventsMeetTheirSession ==
    \A k \in DOMAIN session_events :
        LET event == session_events[k]
        IN  event.slot \in Occupied /\ sessions[event.slot].worker = event.worker

\* A command reaches a session of the node it is for, or none.
CommandsMeetTheirNode ==
    \A w \in Live : \A k \in DOMAIN workers[w].inbox :
        workers[w].inbox[k].peer = workers[w].node

\* Slots are used again, but no event is taken for the next session in its slot,
\* and no command reaches a session of another node, nor one whose peer is not
\* proved.  (A command may reach the next session of its own node.)
MessagesMeetTheirSession == EventsMeetTheirSession /\ CommandsMeetTheirNode

\* bootstrap_once keeps to the limit on dials and to one session per address.
DialsBounded ==
    LET dialled == {i \in Occupied : sessions[i].address # None}
    IN  /\ Cardinality(dialled) <= MaxOutboundDials
        /\ \A i, j \in dialled : sessions[i].address = sessions[j].address => i = j

\* The node's peers once it has handled the first i events: the last event that
\* says whether a peer is connected counts.
KnownAfter(i) ==
    {n \in Node :
        LET said == {k \in 1 .. i : /\ events[k].peer = n
                                   /\ events[k].type \in {"PeerConnected", "PeerDisconnected"}}
        IN  IF said = {} THEN n \in known ELSE events[Max(said)].type = "PeerConnected"}

\* A node connects and disconnects in turn, whichever of its sessions it is
\* through and however they follow each other, and once the node task has caught
\* up, its peers are those of the registry.
NodeFollowsRegistry ==
    /\ \A i \in DOMAIN events :
        /\ events[i].type = "PeerConnected" => events[i].peer \notin KnownAfter(i - 1)
        /\ events[i].type = "PeerDisconnected" => events[i].peer \in KnownAfter(i - 1)
    /\ KnownAfter(Len(events)) = DOMAIN by_node_peer

\* The slots are accounted for: limits are kept, and none leaks, since a session
\* whose worker has ended, ready or not, has its Closed event waiting for the
\* manager, once.
SlotsFreed ==
    /\ TypeOK
    /\ DialsBounded
    /\ \A i \in Occupied :
            LET w       == sessions[i].worker
                reports == {k \in DOMAIN session_events :
                                session_events[k].type = "Closed" /\ session_events[k].worker = w}
            IN  Cardinality(reports) = IF w \in Live THEN 0 ELSE 1

\* A session that serves a sync request does not wait in vain: the request is on
\* its way to the node, or the answer on its way back, unless the request came
\* in before the manager had taken up the session's Ready event.
AnswerUnderWay ==
    running =>
        \A w \in Live :
            workers[w].phase = "serving" /\ ~ workers[w].early =>
                \/ Message("SyncRequest", workers[w].node) \in Range(events)
                \/ Message("SyncResponse", workers[w].node)
                        \in Range(commands) \cup Range(workers[w].inbox)

=============================================================================
