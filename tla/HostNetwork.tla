----------------------------- MODULE HostNetwork -----------------------------
(***************************************************************************)
(* The NetworkManager of rp-runtime, the node task that it serves and the  *)
(* libp2p swarm below it.  A peer has a transport identity, which its      *)
(* connections authenticate, and a node identity, which NodeHello binds to *)
(* the transport.  The two identities live in two files, so a peer that    *)
(* comes back may have kept either one and lost the other.                 *)
(*                                                                         *)
(* The manager handles one command or one swarm event at a time; events    *)
(* to the node and commands from it travel in FIFO channels.  Connections  *)
(* may close at any time, which is all that disconnect_peer_id asks for.   *)
(* Once the manager's run ends, so does the process.                       *)
(***************************************************************************)
EXTENDS Integers, Sequences, SequencesExt, Maps

CONSTANTS
    Transport,          \* transport identities of the peers
    Node,               \* node identities of the peers
    Identities,         \* which node a transport may prove to be
    Dialled,            \* transports that we may dial
    LimitOf,            \* max_blocks_per_chunk in a transport's hello
    SyncWindow,         \* blocks the node asks a new peer for
    LocalHeights,       \* heights our chain may have when a peer connects
    MaxU64,             \* the largest u64
    MaxLinks,           \* bound on the connections of a transport at a time
    MaxDials,           \* bound on the connections made
    MaxHellos,          \* bound on the hellos received
    MaxFailures,        \* bound on the hellos of ours that fail
    MaxRequests,        \* bound on the sync requests received
    MaxEvents           \* bound on the events that wait for the node

ASSUME IdentitiesAssumption == Identities \subseteq Transport \X Node
ASSUME LimitAssumption == LimitOf \in [Transport -> Nat]
ASSUME WindowAssumption ==
    /\ SyncWindow \in Nat \ {0}
    /\ MaxU64 \in Nat
    /\ LocalHeights \subseteq 0 .. MaxU64

VARIABLES
    running,            \* whether run() has not returned an error
    peer_by_node,
    node_by_transport,
    max_blocks,         \* peer_max_blocks_per_chunk
    pending_node_hello,
    responses,          \* pending_sync_responses: channels, by number
    outbound,           \* outbound_sync_requests
    links,              \* swarm: the open connections of each transport
    helloing,           \* swarm: transports with a hello of ours under way
    asked,              \* swarm: our sync requests under way
    dead,               \* swarm: channels that nobody listens to any more
    events,             \* to the node
    commands,           \* from the node
    known,              \* the node's peers
    count               \* numbers of dials, hellos, failures and requests

tables == <<peer_by_node, node_by_transport, max_blocks>>
swarm == <<links, helloing, asked, dead>>
node == <<commands, known>>
vars == <<running, tables, pending_node_hello, responses, outbound, swarm, events, node,
          count>>

Init ==
    /\ running = TRUE
    /\ peer_by_node = EmptyMap
    /\ node_by_transport = EmptyMap
    /\ max_blocks = EmptyMap
    /\ pending_node_hello = {}
    /\ responses = EmptyMap
    /\ outbound = EmptyMap
    /\ links = [t \in Transport |-> 0]
    /\ helloing = {}
    /\ asked = EmptyMap
    /\ dead = {}
    /\ events = <<>>
    /\ commands = <<>>
    /\ known = {}
    /\ count = [dials |-> 0, hellos |-> 0, failures |-> 0, requests |-> 0,
                asked |-> 0]

Event(type, n) == [type |-> type, peer |-> n]

SaturatingAdd(m, n) == IF m + n > MaxU64 THEN MaxU64 ELSE m + n

\* What the engine asks a new peer for: the blocks above its own chain.
BlockRequest(n, local) ==
    [type  |-> "RequestBlocks", peer |-> n,
     range |-> [from |-> SaturatingAdd(local, 1), to |-> SaturatingAdd(local, SyncWindow)]]

\* event_tx.send
Send(event) == events' = Append(events, event)

\* A swarm event is taken up.
Awake == running /\ Len(events) < MaxEvents

-----------------------------------------------------------------------------
(* Registration *)

\* Mutant of Register that keeps the transport a node had before.
RegisterKeepsOld(t, n) ==
    LET renamed == t \in DOMAIN node_by_transport /\ node_by_transport[t] # n
        peers   == Put(peer_by_node, n, t)
    IN  /\ node_by_transport' = Put(node_by_transport, t, n)
        /\ peer_by_node' = IF renamed THEN Drop(peers, node_by_transport[t]) ELSE peers
        /\ max_blocks' = Put(max_blocks, n, LimitOf[t])
        /\ Send(Event("PeerConnected", n))

\* register_verified_peer: the maps stay inverse to each other, and the node
\* hears of the peer unless nothing changed.
Register(t, n) ==
    LET moved    == n \in DOMAIN peer_by_node /\ peer_by_node[n] # t
        renamed  == t \in DOMAIN node_by_transport /\ node_by_transport[t] # n
        nodes    == Put(node_by_transport, t, n)
        peers    == Put(peer_by_node, n, t)
        same     == /\ n \in DOMAIN peer_by_node /\ peer_by_node[n] = t
                    /\ t \in DOMAIN node_by_transport /\ node_by_transport[t] = n
    IN  /\ node_by_transport' = IF moved THEN Drop(nodes, peer_by_node[n]) ELSE nodes
        /\ peer_by_node' = IF renamed THEN Drop(peers, node_by_transport[t]) ELSE peers
        /\ max_blocks' = Put(max_blocks, n, LimitOf[t])
        /\ IF same THEN UNCHANGED events ELSE Send(Event("PeerConnected", n))

\* Mutant of Unregister that still takes the answers to old requests.
UnregisterKeepsRequests(t) ==
    IF t \notin DOMAIN node_by_transport
    THEN UNCHANGED <<tables, pending_node_hello, responses, outbound, events>>
    ELSE LET n == node_by_transport[t]
         IN  /\ node_by_transport' = Drop(node_by_transport, t)
             /\ peer_by_node' = Drop(peer_by_node, n)
             /\ max_blocks' = Drop(max_blocks, n)
             /\ pending_node_hello' = pending_node_hello \ {t}
             /\ responses' = Drop(responses, n)
             /\ UNCHANGED outbound
             /\ Send(Event("PeerDisconnected", n))

\* unregister_transport_peer
Unregister(t) ==
    IF t \notin DOMAIN node_by_transport
    THEN UNCHANGED <<tables, pending_node_hello, responses, outbound, events>>
    ELSE LET n == node_by_transport[t]
         IN  /\ node_by_transport' = Drop(node_by_transport, t)
             /\ peer_by_node' = Drop(peer_by_node, n)
             /\ max_blocks' = Drop(max_blocks, n)
             /\ pending_node_hello' = pending_node_hello \ {t}
             /\ responses' = Drop(responses, n)
             /\ outbound' = [id \in {i \in DOMAIN outbound : outbound[i] # n} |->
                                outbound[id]]
             /\ Send(Event("PeerDisconnected", n))

-----------------------------------------------------------------------------
(* Swarm events *)

\* SwarmEvent::ConnectionEstablished
ConnectionEstablished(t, dialer) ==
    /\ running
    /\ dialer => t \in Dialled
    /\ links[t] < MaxLinks
    /\ count.dials < MaxDials
    /\ links' = [links EXCEPT ![t] = @ + 1]
    /\ count' = [count EXCEPT !.dials = @ + 1]
    /\ pending_node_hello' = IF dialer /\ t \notin DOMAIN node_by_transport
                             THEN pending_node_hello \cup {t} ELSE pending_node_hello
    /\ UNCHANGED <<running, tables, responses, outbound, helloing, asked, dead, events, node>>

\* Mutant of ConnectionClosed that unregisters when no connection is left, by
\* the count from before the close.
CountsTheClosed(t) ==
    /\ Awake
    /\ links[t] > 0
    /\ links' = [links EXCEPT ![t] = @ - 1]
    /\ helloing' = IF links[t] = 1 THEN helloing \ {t} ELSE helloing
    /\ asked' = [id \in DOMAIN asked |->
                    [asked[id] EXCEPT !.lost = @ \/ (links[t] = 1 /\ asked[id].transport = t)]]
    /\ IF links[t] = 0 THEN Unregister(t)
       ELSE UNCHANGED <<tables, pending_node_hello, responses, outbound, events>>
    /\ UNCHANGED <<running, dead, node, count>>

\* SwarmEvent::ConnectionClosed.  What rode on a transport's last connection
\* is lost; a request that did will fail.
ConnectionClosed(t) ==
    /\ Awake
    /\ links[t] > 0
    /\ links' = [links EXCEPT ![t] = @ - 1]
    /\ helloing' = IF links[t] = 1 THEN helloing \ {t} ELSE helloing
    /\ asked' = [id \in DOMAIN asked |->
                    [asked[id] EXCEPT !.lost = @ \/ (links[t] = 1 /\ asked[id].transport = t)]]
    /\ Unregister(t)
    /\ UNCHANGED <<running, dead, node, count>>

\* Mutant of Identified that forgets to send the hello.
IdentifiedForgets(t) ==
    /\ running
    /\ links[t] > 0
    /\ t \in pending_node_hello
    /\ pending_node_hello' = pending_node_hello \ {t}
    /\ UNCHANGED <<running, tables, responses, outbound, swarm, events, node, count>>

\* handle_identify_event: a peer that we dialled gets our hello.
Identified(t) ==
    /\ running
    /\ links[t] > 0
    /\ t \in pending_node_hello
    /\ pending_node_hello' = pending_node_hello \ {t}
    /\ helloing' = IF t \in DOMAIN node_by_transport THEN helloing ELSE helloing \cup {t}
    /\ UNCHANGED <<running, tables, responses, outbound, links, asked, dead, events, node,
                   count>>

\* handle_node_hello_event, a request that verifies, when our answer can be
\* sent.  After any other request the transport is to be disconnected.
HelloRequest(t, n) ==
    /\ Awake
    /\ links[t] > 0
    /\ <<t, n>> \in Identities
    /\ count.hellos < MaxHellos
    /\ count' = [count EXCEPT !.hellos = @ + 1]
    /\ Register(t, n)
    /\ UNCHANGED <<running, pending_node_hello, responses, outbound, swarm, node>>

\* handle_node_hello_event, an answer that accepts and verifies.
HelloAccepted(t, n) ==
    /\ Awake
    /\ t \in helloing
    /\ <<t, n>> \in Identities
    /\ helloing' = helloing \ {t}
    /\ Register(t, n)
    /\ UNCHANGED <<running, pending_node_hello, responses, outbound, links, asked, dead, node,
                   count>>

\* handle_node_hello_event, any other answer and a failure: a warning, and the
\* transport is to be disconnected unless it is a failure.
HelloFailed(t) ==
    /\ running
    /\ t \in helloing
    /\ count.failures < MaxFailures
    /\ count' = [count EXCEPT !.failures = @ + 1]
    /\ helloing' = helloing \ {t}
    /\ UNCHANGED <<running, tables, pending_node_hello, responses, outbound, links, asked,
                   dead, events, node>>

\* handle_sync_event, a request: it waits for the node's answer.  A transport
\* not registered gets an empty answer, and if that cannot be sent, run ends.
SyncRequest(t, open) ==
    /\ Awake
    /\ links[t] > 0
    /\ count.requests < MaxRequests
    /\ count' = [count EXCEPT !.requests = @ + 1]
    /\ IF t \in DOMAIN node_by_transport
       THEN LET n == node_by_transport[t]
            IN  /\ responses' = Put(responses, n,
                        Append(IF n \in DOMAIN responses THEN responses[n] ELSE <<>>,
                               count.requests))
                /\ Send([type |-> "SyncRequest", peer |-> n, channel |-> count.requests])
                /\ UNCHANGED running
       ELSE /\ running' = open
            /\ UNCHANGED <<responses, events>>
    /\ UNCHANGED <<tables, pending_node_hello, outbound, swarm, node>>

\* handle_sync_event, an answer: it is passed on as the node's that was asked.
SyncResponse(id) ==
    /\ Awake
    /\ ~ asked[id].lost
    /\ asked' = Drop(asked, id)
    /\ outbound' = Drop(outbound, id)
    /\ IF id \in DOMAIN outbound THEN Send(Event("FrameReceived", outbound[id]))
       ELSE UNCHANGED events
    /\ UNCHANGED <<running, tables, pending_node_hello, responses, links, helloing, dead,
                   node, count>>

\* handle_sync_event, OutboundFailure
SyncFailure(id) ==
    /\ running
    /\ asked' = Drop(asked, id)
    /\ outbound' = Drop(outbound, id)
    /\ UNCHANGED <<running, tables, pending_node_hello, responses, links, helloing, dead,
                   events, node, count>>

\* handle_gossipsub_event, and an announcement's answer in handle_announce_event
Gossip(t) ==
    /\ Awake
    /\ links[t] > 0
    /\ t \in DOMAIN node_by_transport
    /\ Send(Event("FrameReceived", node_by_transport[t]))
    /\ UNCHANGED <<running, tables, pending_node_hello, responses, outbound, swarm, node, count>>

\* handle_announce_event, an announcement: it is passed on if its sender is
\* registered and acknowledged in any case; if that cannot be sent, run ends.
Announce(t, open) ==
    /\ Awake
    /\ links[t] > 0
    /\ running' = open
    /\ IF t \in DOMAIN node_by_transport
       THEN Send(Event("FrameReceived", node_by_transport[t]))
       ELSE UNCHANGED events
    /\ UNCHANGED <<tables, pending_node_hello, responses, outbound, swarm, node, count>>

\* An inbound request times out, or its connection breaks: the channel to
\* answer it on leads nowhere, which the manager does not learn.
ChannelDies(channel) ==
    /\ running
    /\ channel \notin dead
    /\ dead' = dead \cup {channel}
    /\ UNCHANGED <<running, tables, pending_node_hello, responses, outbound, links, helloing,
                   asked, events, node, count>>

-----------------------------------------------------------------------------
(* Commands *)

\* Mutant of Clamp that lets one block too many through.
ClampOneTooMany(n, request) ==
    LET limit == max_blocks[n]
        last  == SaturatingAdd(request.from, limit)
    IN  IF limit = 0 \/ request.from > request.to \/ request.to <= last
        THEN request ELSE [request EXCEPT !.to = last]

\* clamp_sync_request, for a node with a limit
Clamp(n, request) ==
    LET limit == max_blocks[n]
        last  == SaturatingAdd(request.from, limit - 1)
    IN  IF limit = 0 \/ request.from > request.to \/ request.to <= last
        THEN request ELSE [request EXCEPT !.to = last]

\* send_sync_request
SendSyncRequest(n, request) ==
    /\ asked' = Put(asked, count.asked,
                    [transport |-> peer_by_node[n], lost |-> FALSE,
                     range |-> IF n \in DOMAIN max_blocks THEN Clamp(n, request) ELSE request])
    /\ outbound' = Put(outbound, count.asked, n)
    /\ count' = [count EXCEPT !.asked = @ + 1]
    /\ UNCHANGED <<running, responses>>

\* send_sync_response: the answer goes to the channel that waits longest, and
\* if it cannot be sent, run ends.
SendSyncResponse(n) ==
    /\ responses' = IF Len(responses[n]) = 1 THEN Drop(responses, n)
                    ELSE Put(responses, n, Tail(responses[n]))
    /\ running' = (Head(responses[n]) \notin dead)
    /\ UNCHANGED <<asked, outbound, count>>

\* handle_command: what is meant for a node not registered is dropped.
HandleCommand ==
    /\ running
    /\ commands # <<>>
    /\ commands' = Tail(commands)
    /\ LET command == Head(commands)
           n       == command.peer
       IN  IF command.type = "RequestBlocks" /\ n \in DOMAIN peer_by_node
           THEN SendSyncRequest(n, command.range)
           ELSE IF command.type = "SyncResponse" /\ n \in DOMAIN peer_by_node \cap DOMAIN responses
           THEN SendSyncResponse(n)
           ELSE UNCHANGED <<running, responses, asked, outbound, count>>
    /\ UNCHANGED <<tables, pending_node_hello, links, helloing, dead, events, known>>

-----------------------------------------------------------------------------
(* The node task *)

\* NodeManager::run with the engine, as far as the network is concerned.
HandleEvent ==
    /\ running
    /\ events # <<>>
    /\ events' = Tail(events)
    /\ LET event == Head(events)
       IN  CASE event.type = "PeerConnected" ->
                    /\ known' = known \cup {event.peer}
                    /\ \E local \in LocalHeights :
                        commands' = Append(commands, BlockRequest(event.peer, local))
             [] event.type = "PeerDisconnected" ->
                    known' = known \ {event.peer} /\ UNCHANGED commands
             [] event.type = "SyncRequest" ->
                    /\ commands' = Append(commands, [event EXCEPT !.type = "SyncResponse"])
                    /\ UNCHANGED known
             [] OTHER -> UNCHANGED <<known, commands>>
    /\ UNCHANGED <<running, tables, pending_node_hello, responses, outbound, swarm, count>>

SwarmEvent ==
    \/ \E t \in Transport :
        \/ \E dialer \in BOOLEAN : ConnectionEstablished(t, dialer)
        \/ ConnectionClosed(t)
        \/ Identified(t)
        \/ \E n \in Node : HelloRequest(t, n) \/ HelloAccepted(t, n)
        \/ HelloFailed(t)
        \/ \E open \in BOOLEAN : SyncRequest(t, open) \/ Announce(t, open)
        \/ Gossip(t)
    \/ \E id \in DOMAIN asked : SyncResponse(id) \/ SyncFailure(id)
    \/ \E channel \in 0 .. count.requests - 1 : ChannelDies(channel)

Next == SwarmEvent \/ HandleCommand \/ HandleEvent

\* The manager and the node take up what is there; identify and our hello get
\* an answer as long as the connection is open, unless the hello fails.
\* The swarm delivers its events in their order, so that none waits for ever.
Spec ==
    /\ Init /\ [][Next]_vars
    /\ WF_vars(HandleCommand)
    /\ WF_vars(HandleEvent)
    /\ \A t \in Transport :
        /\ WF_vars(Identified(t))
        /\ SF_vars(\E n \in Node : HelloAccepted(t, n))

-----------------------------------------------------------------------------
(* Properties *)

IsMapTo(map, keys, values) ==
    DOMAIN map \subseteq keys /\ \A k \in DOMAIN map : map[k] \in values

\* The tables hold what their types say; a queue of channels is never empty.
TypeOK ==
    /\ running \in BOOLEAN
    /\ IsMapTo(peer_by_node, Node, Transport)
    /\ IsMapTo(node_by_transport, Transport, Node)
    /\ IsMapTo(max_blocks, Node, Nat)
    /\ pending_node_hello \subseteq Transport
    /\ DOMAIN responses \subseteq Node
    /\ \A n \in DOMAIN responses : responses[n] # <<>>
    /\ IsMapTo(outbound, Nat, Node)
    /\ known \subseteq Node

\* register_verified_peer and unregister_transport_peer keep the two maps
\* inverse to each other, whichever identity a peer changes and however its
\* hellos and connections overlap, and every registered node has a limit.
MapsInverse ==
    /\ \A n \in DOMAIN peer_by_node :
        /\ peer_by_node[n] \in DOMAIN node_by_transport
        /\ node_by_transport[peer_by_node[n]] = n
        /\ n \in DOMAIN max_blocks
    /\ \A t \in DOMAIN node_by_transport :
        /\ node_by_transport[t] \in DOMAIN peer_by_node
        /\ peer_by_node[node_by_transport[t]] = t

\* The node's peers once it has handled the first i events.
KnownAfter(i) ==
    FoldLeft(LAMBDA peers, event :
                CASE event.type = "PeerConnected" -> peers \cup {event.peer}
                  [] event.type = "PeerDisconnected" -> peers \ {event.peer}
                  [] OTHER -> peers,
             known, SubSeq(events, 1, i))

\* The node hears of a peer between PeerConnected and PeerDisconnected only:
\* no frame, request or second goodbye comes before or after, though answers
\* to old requests arrive when the peer has left, moved or changed its name.
EventsInSession ==
    \A i \in DOMAIN events :
        events[i].type # "PeerConnected" => events[i].peer \in KnownAfter(i - 1)

\* A registered peer is known and can be reached: the node knows it once it has
\* caught up, and its transport has a connection, whichever of several
\* connections closes and whatever hello is answered last.
RegisteredIsReachable ==
    /\ TypeOK
    /\ DOMAIN peer_by_node \subseteq KnownAfter(Len(events))
    /\ \A n \in DOMAIN peer_by_node : links[peer_by_node[n]] > 0

\* A request on its way asks for a block at least, also at the largest heights,
\* and respects the limit of the transport it goes to (zero is no limit), also
\* when the node has come back with another one.
RequestWithinLimit ==
    \A id \in DOMAIN asked :
        LET limit == LimitOf[asked[id].transport]
            range == asked[id].range
        IN  /\ range.from <= range.to
            /\ limit = 0 \/ range.to - range.from < limit

\* A peer that we dial gets registered, unless its connection closes, a hello
\* of ours fails, or the manager stops.
DialledRegisters ==
    \A t \in Transport :
        t \in pending_node_hello
        ~> \/ t \in DOMAIN node_by_transport
           \/ links[t] = 0
           \/ count.failures > 0
           \/ ~ running
=============================================================================
