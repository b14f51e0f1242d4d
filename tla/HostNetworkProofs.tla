-------------------------- MODULE HostNetworkProofs --------------------------
(***************************************************************************)
(* Proofs about HostNetwork, for any number of transports and nodes, any   *)
(* binding between them and any limits: the registry's maps stay inverse   *)
(* to each other, and requests respect the limit of the transport they go  *)
(* to.  The second needs the first, and that the limit kept for a          *)
(* registered node is that of its transport.                               *)
(***************************************************************************)
EXTENDS HostNetwork, TLAPS

\* The limit kept for a registered node is the one of its transport.
LimitsFollow ==
    \A n \in DOMAIN peer_by_node :
        peer_by_node[n] \in Transport /\ max_blocks[n] = LimitOf[peer_by_node[n]]

\* Requests on their way are what send_sync_request makes them.
AskedTyped ==
    \A id \in DOMAIN asked :
        asked[id] \in [transport : Transport, lost : BOOLEAN, range : [from : Nat, to : Nat]]

\* Ranges of heights that are not empty.
Ranges == {range \in [from : 0 .. MaxU64, to : 0 .. MaxU64] : range.from <= range.to}

\* The requests of the node that wait for the manager ask for such ranges.
CommandsAsk ==
    \E S : /\ commands \in Seq(S)
           /\ \A c \in S : c.type = "RequestBlocks" => c.range \in Ranges

Inv == MapsInverse /\ LimitsFollow /\ AskedTyped /\ CommandsAsk /\ RequestWithinLimit

\* register_verified_peer keeps the maps inverse, the node's old transport and
\* the transport's old node being removed.
LEMMA RegisterInverse ==
    ASSUME MapsInverse, NEW t, NEW n, Register(t, n)
    PROVE  MapsInverse'
<1> DEFINE nodes == Put(node_by_transport, t, n)
           peers == Put(peer_by_node, n, t)
<1>1. node_by_transport' = IF n \in DOMAIN peer_by_node /\ peer_by_node[n] # t
                           THEN Drop(nodes, peer_by_node[n]) ELSE nodes
  BY DEF Register
<1>2. peer_by_node' = IF t \in DOMAIN node_by_transport /\ node_by_transport[t] # n
                      THEN Drop(peers, node_by_transport[t]) ELSE peers
  BY DEF Register
<1>3. max_blocks' = Put(max_blocks, n, LimitOf[t])
  BY DEF Register
<1>4. /\ DOMAIN max_blocks' = DOMAIN max_blocks \cup {n}
      /\ DOMAIN peer_by_node' \subseteq DOMAIN peer_by_node \cup {n}
  BY <1>2, <1>3 DEF Put, Drop
<1>5. ASSUME NEW m \in DOMAIN peer_by_node'
      PROVE  /\ peer_by_node'[m] \in DOMAIN node_by_transport'
             /\ node_by_transport'[peer_by_node'[m]] = m
  BY <1>1, <1>2, <1>5 DEF MapsInverse, Put, Drop
<1>6. ASSUME NEW u \in DOMAIN node_by_transport'
      PROVE  /\ node_by_transport'[u] \in DOMAIN peer_by_node'
             /\ peer_by_node'[node_by_transport'[u]] = u
  BY <1>1, <1>2, <1>6 DEF MapsInverse, Put, Drop
<1> QED
  BY <1>4, <1>5, <1>6 DEF MapsInverse

\* unregister_transport_peer keeps the maps inverse.
LEMMA UnregisterInverse ==
    ASSUME MapsInverse, NEW t, Unregister(t)
    PROVE  MapsInverse'
<1>1. CASE t \notin DOMAIN node_by_transport
  BY <1>1 DEF Unregister, tables, MapsInverse
<1>2. CASE t \in DOMAIN node_by_transport
  BY <1>2 DEF Unregister, Drop, MapsInverse
<1> QED
  BY <1>1, <1>2

\* Only hellos and closing connections touch the registry.
LEMMA TablesChange ==
    ASSUME [Next]_vars
    PROVE  \/ UNCHANGED tables
           \/ \E t \in Transport, n \in Node : <<t, n>> \in Identities /\ Register(t, n)
           \/ \E t \in Transport : Unregister(t)
  BY DEF Next, SwarmEvent, vars, tables, ConnectionEstablished, ConnectionClosed, Identified,
         HelloRequest, HelloAccepted, HelloFailed, SyncRequest, SyncResponse, SyncFailure,
         Gossip, Announce, ChannelDies, HandleCommand, HandleEvent

\* The two maps of the registry are inverse to each other at all times.
THEOREM RegistryInverse == Spec => []MapsInverse
<1>1. Init => MapsInverse
  BY DEF Init, MapsInverse, EmptyMap
<1>2. MapsInverse /\ [Next]_vars => MapsInverse'
  <2> SUFFICES ASSUME MapsInverse, [Next]_vars PROVE MapsInverse'
    OBVIOUS
  <2>1. CASE UNCHANGED tables
    BY <2>1 DEF tables, MapsInverse
  <2>2. CASE \E t \in Transport, n \in Node : <<t, n>> \in Identities /\ Register(t, n)
    BY <2>2, RegisterInverse
  <2>3. CASE \E t \in Transport : Unregister(t)
    BY <2>3, UnregisterInverse
  <2> QED
    BY <2>1, <2>2, <2>3, TablesChange
<1> QED
  BY <1>1, <1>2, PTL DEF Spec

\* register_verified_peer replaces the limit of the node along with its
\* transport, and leaves those of the other nodes alone.
LEMMA RegisterLimits ==
    ASSUME MapsInverse, LimitsFollow, NEW t \in Transport, NEW n, Register(t, n)
    PROVE  LimitsFollow'
<1>1. /\ DOMAIN peer_by_node' \subseteq DOMAIN peer_by_node \cup {n}
      /\ \A m \in DOMAIN peer_by_node' :
            peer_by_node'[m] = IF m = n THEN t ELSE peer_by_node[m]
  BY DEF Register, Put, Drop
<1>2. max_blocks' = Put(max_blocks, n, LimitOf[t])
  BY DEF Register
<1>3. max_blocks'[n] = LimitOf[t]
  BY <1>2 DEF Put
<1>4. ASSUME NEW m \in DOMAIN peer_by_node', m # n
      PROVE  m \in DOMAIN peer_by_node /\ max_blocks'[m] = max_blocks[m]
  BY <1>1, <1>2, <1>4 DEF Put, MapsInverse
<1> QED
  BY <1>1, <1>3, <1>4 DEF LimitsFollow

\* unregister_transport_peer removes the limit of the node that it removes.
LEMMA UnregisterLimits ==
    ASSUME MapsInverse, LimitsFollow, NEW t, Unregister(t)
    PROVE  LimitsFollow'
<1>1. CASE t \notin DOMAIN node_by_transport
  BY <1>1 DEF Unregister, tables, LimitsFollow
<1>2. CASE t \in DOMAIN node_by_transport
  <2> DEFINE n == node_by_transport[t]
  <2>1. peer_by_node' = Drop(peer_by_node, n) /\ max_blocks' = Drop(max_blocks, n)
    BY <1>2 DEF Unregister
  <2>2. ASSUME NEW m \in DOMAIN peer_by_node'
        PROVE  /\ m \in DOMAIN peer_by_node
               /\ peer_by_node'[m] = peer_by_node[m]
               /\ max_blocks'[m] = max_blocks[m]
    BY <2>1, <2>2 DEF Drop, MapsInverse
  <2> QED
    BY <2>2 DEF LimitsFollow
<1> QED
  BY <1>1, <1>2

\* clamp_sync_request cuts a request to the limit and leaves it a block, the
\* saturating addition at the largest heights included.
LEMMA ClampWithinLimit ==
    ASSUME NEW n \in DOMAIN max_blocks, max_blocks[n] \in Nat,
           NEW range \in Ranges
    PROVE  LET cut == Clamp(n, range)
           IN  /\ cut \in [from : Nat, to : Nat]
               /\ cut.from <= cut.to
               /\ max_blocks[n] = 0 \/ cut.to - cut.from < max_blocks[n]
<1>1. PICK from \in 0 .. MaxU64, to \in 0 .. MaxU64 :
          range = [from |-> from, to |-> to] /\ from <= to
  BY DEF Ranges
<1>2. Clamp(n, range) = [from |-> from,
                         to   |-> IF \/ max_blocks[n] = 0 \/ from > to
                                     \/ to <= SaturatingAdd(from, max_blocks[n] - 1)
                                  THEN to ELSE SaturatingAdd(from, max_blocks[n] - 1)]
  BY <1>1 DEF Clamp
<1> QED
  BY <1>1, <1>2, WindowAssumption DEF SaturatingAdd

\* What the engine asks for, wherever its chain ends.
LEMMA BlockRequestRange ==
    ASSUME NEW n, NEW local \in LocalHeights
    PROVE  BlockRequest(n, local).range \in Ranges
  BY WindowAssumption DEF BlockRequest, SaturatingAdd, Ranges

\* Commands are taken from the front and added at the back, requests by the engine.
LEMMA CommandsStep ==
    ASSUME Inv, [Next]_vars
    PROVE  CommandsAsk'
<1>0. PICK S : commands \in Seq(S) /\ \A c \in S : c.type = "RequestBlocks" => c.range \in Ranges
  BY DEF Inv, CommandsAsk
<1>1. CASE UNCHANGED commands
  BY <1>0, <1>1 DEF CommandsAsk
<1>2. CASE HandleCommand
  <2>1. commands' \in Seq(S)
    BY <1>0, <1>2 DEF HandleCommand
  <2> QED
    BY <1>0, <2>1 DEF CommandsAsk
<1>3. ASSUME NEW c, commands' = Append(commands, c),
             c.type = "RequestBlocks" => c.range \in Ranges
      PROVE  CommandsAsk'
  <2>1. commands' \in Seq(S \cup {c})
    BY <1>0, <1>3
  <2> QED
    BY <1>0, <1>3, <2>1 DEF CommandsAsk
<1>4. CASE HandleEvent
  <2>1. CASE Head(events).type = "PeerConnected"
    <3>1. PICK local \in LocalHeights :
              commands' = Append(commands, BlockRequest(Head(events).peer, local))
      BY <1>4, <2>1 DEF HandleEvent
    <3>2. BlockRequest(Head(events).peer, local).range \in Ranges
      BY BlockRequestRange
    <3> QED
      BY <1>3, <3>1, <3>2
  <2>2. CASE Head(events).type = "SyncRequest"
    <3> DEFINE answer == [Head(events) EXCEPT !.type = "SyncResponse"]
    <3>1. commands' = Append(commands, answer)
      BY <1>4, <2>2 DEF HandleEvent
    <3>2. answer.type # "RequestBlocks"
      OBVIOUS
    <3> HIDE DEF answer
    <3> QED
      BY <1>3, <3>1, <3>2
  <2>3. CASE Head(events).type \notin {"PeerConnected", "SyncRequest"}
    <3>1. UNCHANGED commands
      BY <1>4, <2>3 DEF HandleEvent
    <3> QED
      BY <1>1, <3>1
  <2> QED
    BY <2>1, <2>2, <2>3
<1> QED
  BY <1>1, <1>2, <1>4
     DEF Next, SwarmEvent, vars, node, ConnectionEstablished, ConnectionClosed, Identified,
         HelloRequest, HelloAccepted, HelloFailed, SyncRequest, SyncResponse, SyncFailure,
         Gossip, Announce, ChannelDies

\* A sync request is cut to the limit of its receiver before it is sent.
LEMMA SentWithinLimit ==
    ASSUME Inv, NEW n \in DOMAIN peer_by_node, NEW range \in Ranges,
           SendSyncRequest(n, range)
    PROVE  AskedTyped' /\ RequestWithinLimit'
<1> DEFINE t   == peer_by_node[n]
           cut == Clamp(n, range)
           new == [transport |-> t, lost |-> FALSE, range |-> cut]
<1>1. t \in Transport /\ n \in DOMAIN max_blocks /\ max_blocks[n] = LimitOf[t]
  BY DEF Inv, LimitsFollow, MapsInverse
<1>2. LimitOf[t] \in Nat
  BY <1>1, LimitAssumption
<1>3. /\ cut \in [from : Nat, to : Nat]
      /\ cut.from <= cut.to
      /\ LimitOf[t] = 0 \/ cut.to - cut.from < LimitOf[t]
  BY <1>1, <1>2, ClampWithinLimit
<1>4. asked' = Put(asked, count.asked, new)
  BY <1>1 DEF SendSyncRequest
<1> HIDE DEF cut
<1>5. ASSUME NEW id \in DOMAIN asked'
      PROVE  \/ id \in DOMAIN asked /\ asked'[id] = asked[id]
             \/ asked'[id] = new
  BY <1>4 DEF Put
<1>6. AskedTyped'
  <2>1. new \in [transport : Transport, lost : BOOLEAN, range : [from : Nat, to : Nat]]
    BY <1>1, <1>3
  <2> HIDE DEF new
  <2>2. AskedTyped
    BY DEF Inv
  <2> QED
    BY <1>5, <2>1, <2>2 DEF AskedTyped
<1>7. RequestWithinLimit'
  BY <1>1, <1>3, <1>5 DEF Inv, RequestWithinLimit
<1> QED
  BY <1>6, <1>7

\* What may happen to the requests on their way.
LEMMA AskedChange ==
    ASSUME Inv, [Next]_vars
    PROVE  \/ UNCHANGED asked
           \/ \E id : asked' = Drop(asked, id)
           \/ \E t \in Transport : ConnectionClosed(t)
           \/ \E n \in DOMAIN peer_by_node, range \in Ranges : SendSyncRequest(n, range)
<1>1. commands # <<>> /\ Head(commands).type = "RequestBlocks" => Head(commands).range \in Ranges
  BY DEF Inv, CommandsAsk
<1> QED
  BY <1>1 DEF Next, SwarmEvent, vars, swarm, ConnectionEstablished, Identified,
         HelloRequest, HelloAccepted, HelloFailed, SyncRequest, SyncResponse, SyncFailure,
         Gossip, Announce, ChannelDies, HandleCommand, HandleEvent, SendSyncResponse

\* Every step keeps the requests on their way within the limits.
LEMMA AskedStep ==
    ASSUME Inv, [Next]_vars
    PROVE  AskedTyped' /\ RequestWithinLimit'
<1>1. CASE UNCHANGED asked
  BY <1>1 DEF Inv, AskedTyped, RequestWithinLimit
<1>2. ASSUME NEW id, asked' = Drop(asked, id) PROVE AskedTyped' /\ RequestWithinLimit'
  BY <1>2 DEF Inv, AskedTyped, RequestWithinLimit, Drop
<1>3. ASSUME NEW t \in Transport, ConnectionClosed(t) PROVE AskedTyped' /\ RequestWithinLimit'
  <2>1. asked' = [id \in DOMAIN asked |->
                    [asked[id] EXCEPT !.lost = @ \/ (links[t] = 1 /\ asked[id].transport = t)]]
    BY <1>3 DEF ConnectionClosed
  <2>2. DOMAIN asked' = DOMAIN asked
    BY <2>1
  <2>3. ASSUME NEW id \in DOMAIN asked
        PROVE  /\ asked'[id] \in [transport : Transport, lost : BOOLEAN,
                                  range : [from : Nat, to : Nat]]
               /\ asked'[id].transport = asked[id].transport
               /\ asked'[id].range = asked[id].range
    <3>1. asked[id] \in [transport : Transport, lost : BOOLEAN, range : [from : Nat, to : Nat]]
      BY DEF Inv, AskedTyped
    <3>2. (asked[id].lost \/ (links[t] = 1 /\ asked[id].transport = t)) \in BOOLEAN
      OBVIOUS
    <3> QED
      BY <2>1, <3>1, <3>2
  <2> QED
    BY <2>2, <2>3 DEF Inv, AskedTyped, RequestWithinLimit
<1> QED
  BY <1>1, <1>2, <1>3, AskedChange, SentWithinLimit

\* Every sync request on its way respects the limit of its receiver, for any
\* limits, window and width of the heights.
THEOREM RequestsWithinLimit == Spec => []RequestWithinLimit
<1>1. Init => Inv
  BY DEF Init, Inv, MapsInverse, LimitsFollow, AskedTyped, CommandsAsk, RequestWithinLimit,
         EmptyMap
<1>2. Inv /\ [Next]_vars => Inv'
  <2> SUFFICES ASSUME Inv, [Next]_vars PROVE Inv'
    OBVIOUS
  <2>1. MapsInverse' /\ LimitsFollow'
    <3>1. CASE UNCHANGED tables
      BY <3>1 DEF tables, Inv, MapsInverse, LimitsFollow
    <3>2. CASE \E t \in Transport, n \in Node : <<t, n>> \in Identities /\ Register(t, n)
      BY <3>2, RegisterInverse, RegisterLimits DEF Inv
    <3>3. CASE \E t \in Transport : Unregister(t)
      BY <3>3, UnregisterInverse, UnregisterLimits DEF Inv
    <3> QED
      BY <3>1, <3>2, <3>3, TablesChange
  <2> QED
    BY <2>1, AskedStep, CommandsStep DEF Inv
<1>3. Inv => RequestWithinLimit
  BY DEF Inv
<1> QED
  BY <1>1, <1>2, <1>3, PTL DEF Spec
=============================================================================
