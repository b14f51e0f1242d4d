---------------------------- MODULE SessionSetup ----------------------------
(***************************************************************************)
(* The set-up of one connection between two ends, from the TCP stream to a *)
(* session that may carry Sync and Announce traffic: the session worker of *)
(* erp-runtime (establish_session of network/session.rs) with the layers   *)
(* it runs, multistream-select, the Noise handshake, Yamux substreams,     *)
(* Identify and NodeHello.                                                 *)
(*                                                                         *)
(* Each end is a board (erp-runtime, whose worker does one thing at a      *)
(* time, inline) or a host (rp-runtime, whose swarm runs every substream   *)
(* concurrently).  The host's handlers of network/manager.rs are modelled; *)
(* its libp2p layers are external, and are modelled by what they do on the *)
(* wire.                                                                   *)
(*                                                                         *)
(* What an end does on one stream is a script: a sequence of sends and     *)
(* waits.  A step takes one message and runs the script up to the next     *)
(* wait; the sends in between are short and do not block.  A message is    *)
(* its type, the transport identity it names, whether its signatures and   *)
(* its node id check, and whether it accepts.                              *)
(***************************************************************************)
EXTENDS Naturals, Sequences

CONSTANTS Boards,     \* the sets of ends that may be boards
          Faults,     \* what may be wrong with what a host says
          Expected,   \* the transport identities a dialler may expect
          None        \* no identity

VARIABLES boards,     \* the ends that are boards
          fault,      \* what is wrong with what the host says
          expected,   \* expected_transport_peer of the dialler, or None
          stage,      \* how far the worker of each end has come
          script,     \* what each end still does on each stream
          inbox,      \* the messages on their way to each end, per stream
          opened,     \* the substreams opened so far
          arrivals,   \* substreams opened by the peer, not accepted yet
          auth,       \* remote_transport_peer_id, or None
          peer,       \* the hello that was verified, or None
          identified, \* board: Identify was served; host: it was received
          link        \* whether the TCP connection stands

fixed == <<boards, fault, expected>>

substreams == <<opened, arrivals>>

vars == <<fixed, stage, script, inbox, substreams, auth, peer, identified, link>>

End == {"dialer", "listener"}

Other(e) == CHOOSE o \in End : o # e

\* The protocols a host opens by itself; "meshsub" stands for each protocol
\* that a board does not speak (gossipsub, kademlia).
HostProtocols == {"identify", "ping", "meshsub"}

Raw == <<"dialer", "raw">>

\* A substream is named by the end that opens it and its protocol: in the
\* set-up no end opens two of one protocol.
Substream == End \X (HostProtocols \cup {"hello"})

Stream == {Raw} \cup Substream

\* The lines of multistream-select, and the frames of the protocols.
Lines == {"multistream", "na", "noise", "yamux", "identify", "ping",
          "meshsub", "hello"}

Frames == {"empty", "payload", "bytes", "info", "node_hello", "response"}

Message == [type : Lines \cup Frames, who : End \cup {None}, good : BOOLEAN,
            accepted : BOOLEAN]

-----------------------------------------------------------------------------
(***************************************************************************)
(* Messages and scripts.                                                   *)
(***************************************************************************)
Line(p) == [type |-> p, who |-> None, good |-> TRUE, accepted |-> TRUE]

IsFaulty(e, f) == e \notin boards /\ fault = f

\* build_local_identity_payload: the transport key and its signature over
\* the Noise static key.
NoisePayload(e) ==
  [Line("payload") EXCEPT !.who = e, !.good = ~IsFaulty(e, "noise")]

\* build_local_identify and encode_identify.
Identify(e) ==
  [Line("info") EXCEPT !.who = IF IsFaulty(e, "identify") THEN Other(e)
                                                          ELSE e]

\* NodeHelloBuilder::build: the node id and the transport identity, signed.
NodeHello(e) ==
  [Line("node_hello") EXCEPT
     !.who = IF IsFaulty(e, "binding") THEN Other(e) ELSE e,
     !.good = ~IsFaulty(e, "signature")]

NodeHelloResponse(e, ok) ==
  [NodeHello(e) EXCEPT !.type = "response", !.accepted = ok]

Send(m)    == [op |-> "send", msg |-> m, types |-> {}]
Recv(t)    == [op |-> "recv", msg |-> Line(t), types |-> {t}]
Select(ps) == [op |-> "select", msg |-> Line("na"), types |-> ps]

\* Mutant of DialerSelect that does not wait for the answer to its proposal.
DialerSelectEarly(p) ==
  <<Send(Line("multistream")), Recv("multistream"), Send(Line(p))>>

\* dialer_select.
DialerSelect(p) ==
  <<Send(Line("multistream")), Recv("multistream"), Send(Line(p)), Recv(p)>>

\* listener_select: the requested line is answered when it is read, by
\* SelectProtocol or RefuseProtocol.
ListenerSelect(ps) ==
  <<Recv("multistream"), Send(Line("multistream")), Select(ps)>>

\* yamux::upgrade_outbound and yamux::upgrade_inbound.
YamuxOutbound == DialerSelect("yamux")

YamuxInbound == ListenerSelect({"yamux"})

\* noise::upgrade_outbound, then Yamux.
UpgradeOutbound(e) ==
  DialerSelect("noise")
    \o <<Send(Line("empty")), Recv("payload"), Send(NoisePayload(e))>>
    \o YamuxOutbound

\* Mutant of UpgradeInbound that waits for the initiator's identity first.
UpgradeInboundLast(e) ==
  <<Recv("empty"), Recv("payload"), Send(NoisePayload(e))>>
    \o YamuxInbound

\* noise::upgrade_inbound, once "noise" was selected, then Yamux.
UpgradeInbound(e) ==
  <<Recv("empty"), Send(NoisePayload(e)), Recv("payload")>>
    \o YamuxInbound

SendIdentify(e) == <<Send(Identify(e))>>

AnswerPing == <<Recv("bytes"), Send(Line("bytes"))>>

\* What follows on a stream once the listener has accepted protocol p.  The
\* answer to a hello is made when it is read (TakeHello).
Serve(e, p) ==
  CASE p = "noise"    -> UpgradeInbound(e)
    [] p = "identify" -> SendIdentify(e)
    [] p = "ping"     -> AnswerPing
    [] p = "hello"    -> <<Recv("node_hello")>>
    [] OTHER          -> <<>>

\* What follows on a substream once the protocol the end asked for was
\* accepted.
Request(e, p) ==
  CASE p = "identify" -> <<Recv("info")>>
    [] p = "ping"     -> <<Send(Line("bytes")), Recv("bytes")>>
    [] p = "hello"    -> <<Send(NodeHello(e)), Recv("response")>>
    [] OTHER          -> <<>>

\* The number of sends a script starts with.
Sends(sc) ==
  CHOOSE n \in 0..Len(sc) :
    /\ \A i \in 1..n : sc[i].op = "send"
    /\ n < Len(sc) => sc[n + 1].op # "send"

Sent(sc) == [i \in 1..Sends(sc) |-> sc[i].msg]

Rest(sc) == SubSeq(sc, Sends(sc) + 1, Len(sc))

-----------------------------------------------------------------------------
Init ==
  /\ boards \in Boards
  /\ fault \in Faults
  /\ expected \in Expected \cup {None}
  /\ stage = [e \in End |-> "upgrade"]
  /\ script = [e \in End |-> [s \in Stream |->
                 IF s # Raw THEN <<>>
                 ELSE IF e = "dialer" THEN Rest(UpgradeOutbound(e))
                      ELSE ListenerSelect({"noise"})]]
  /\ inbox = [e \in End |-> [s \in Stream |->
                IF s = Raw /\ e = "listener" THEN Sent(UpgradeOutbound("dialer"))
                                             ELSE <<>>]]
  /\ opened = {}
  /\ arrivals = [e \in End |-> <<>>]
  /\ auth = [e \in End |-> None]
  /\ peer = [e \in End |-> None]
  /\ identified = [e \in End |-> FALSE]
  /\ link = "open"

Over(e) == stage[e] \in {"established", "rejected", "failed"}

\* The worker of a board waits on at most one stream.
Idle(e) == \A s \in Stream : script[e][s] = <<>>

\* End e takes the message at the head of stream s and goes on with sc.
Proceed(e, s, sc) ==
  /\ script' = [script EXCEPT ![e][s] = Rest(sc)]
  /\ inbox' = [inbox EXCEPT ![e][s] = Tail(@), ![Other(e)][s] = @ \o Sent(sc)]

\* End e opens a substream for protocol p (open_substream, dialer_select).
Open(e, p) ==
  LET s  == <<e, p>>
      sc == DialerSelect(p) \o Request(e, p)
  IN  /\ script' = [script EXCEPT ![e][s] = Rest(sc)]
      /\ inbox' = [inbox EXCEPT ![Other(e)][s] = Sent(sc)]
      /\ opened' = opened \cup {s}
      /\ arrivals' = [arrivals EXCEPT ![Other(e)] = Append(@, s)]

\* The end stops: the worker returns, the stream is dropped.
Stop(e, how) ==
  /\ stage' = [stage EXCEPT ![e] = how]
  /\ script' = [script EXCEPT ![e] = [s \in Stream |-> <<>>]]
  /\ link' = "closed"

\* Stream s has a message for end e, which waits for it with step op.
Waits(e, s, op) ==
  /\ script[e][s] # <<>> /\ inbox[e][s] # <<>>
  /\ Head(script[e][s]).op = op

Expects(e, s, t) ==
  /\ Waits(e, s, "recv")
  /\ Head(script[e][s]).types = {t}
  /\ Head(inbox[e][s]).type = t

-----------------------------------------------------------------------------
(***************************************************************************)
(* Steps on one stream, of either end.                                     *)
(***************************************************************************)

\* listener_select_optional accepts the requested protocol, which is then
\* served.  A board that serves Identify notes it (identify_served).
SelectProtocol(e, s) ==
  LET p == Head(inbox[e][s]).type
  IN  /\ Waits(e, s, "select")
      /\ p \in Head(script[e][s]).types
      /\ Proceed(e, s, <<Send(Line(p))>> \o Serve(e, p))
      /\ identified' = [identified EXCEPT ![e] = @ \/ (e \in boards /\ p = "identify")]
      /\ UNCHANGED <<fixed, stage, substreams, auth, peer, link>>

\* listener_select answers "na" and returns an error: the set-up of a board
\* ends with it.  A host only closes that substream.
RefuseProtocol(e, s) ==
  /\ Waits(e, s, "select")
  /\ Head(inbox[e][s]).type \notin Head(script[e][s]).types
  /\ inbox' = [inbox EXCEPT ![e][s] = Tail(@), ![Other(e)][s] = Append(@, Line("na"))]
  /\ IF e \in boards THEN Stop(e, "failed")
                     ELSE /\ script' = [script EXCEPT ![e][s] = <<>>]
                          /\ UNCHANGED <<stage, link>>
  /\ UNCHANGED <<fixed, substreams, auth, peer, identified>>

\* A message that is not the one waited for, "na" among them, is an error:
\* of the connection, or of that substream of a host (OutboundFailure).
Misread(e, s) ==
  /\ Waits(e, s, "recv")
  /\ Head(inbox[e][s]).type \notin Head(script[e][s]).types
  /\ inbox' = [inbox EXCEPT ![e][s] = Tail(@)]
  /\ IF e \in boards \/ s = Raw
       THEN Stop(e, "failed")
       ELSE /\ script' = [script EXCEPT ![e][s] = <<>>]
            /\ UNCHANGED <<stage, link>>
  /\ UNCHANGED <<fixed, substreams, auth, peer, identified>>

\* Lines, pings and the empty first Noise payload only move the script on.
TakeLine(e, s) ==
  /\ \E t \in Lines \cup {"empty", "bytes"} : Expects(e, s, t)
  /\ Proceed(e, s, Tail(script[e][s]))
  /\ UNCHANGED <<fixed, stage, substreams, auth, peer,
                 identified, link>>

\* verify_remote_identity, and the comparison of establish_session with the
\* expected transport peer, after upgrade_outbound has sent its own payload.
TakeNoise(e, s) ==
  LET m  == Head(inbox[e][s])
      ok == e = "dialer" => expected \in {None, m.who}
  IN  /\ Expects(e, s, "payload")
      /\ auth' = [auth EXCEPT ![e] = IF m.good THEN m.who ELSE None]
      /\ IF m.good /\ ok
           THEN /\ Proceed(e, s, Tail(script[e][s]))
                /\ UNCHANGED <<stage, link>>
           ELSE /\ Stop(e, "failed")
                /\ inbox' = [inbox EXCEPT ![e][s] = Tail(@),
                               ![Other(e)][s] = IF m.good
                                                  THEN Append(@, NoisePayload(e))
                                                  ELSE @]
      /\ UNCHANGED <<fixed, substreams, peer, identified>>

\* request_identify of a board compares the transport identity with the
\* authenticated one.  A host takes note that Identify was received.
TakeIdentify(e, s) ==
  /\ Expects(e, s, "info")
  /\ IF e \in boards /\ Head(inbox[e][s]).who # auth[e]
       THEN /\ Stop(e, "failed")
            /\ inbox' = [inbox EXCEPT ![e][s] = Tail(@)]
            /\ identified' = identified
       ELSE /\ Proceed(e, s, Tail(script[e][s]))
            /\ identified' = [identified EXCEPT ![e] = @ \/ e \notin boards]
            /\ UNCHANGED <<stage, link>>
  /\ UNCHANGED <<fixed, substreams, auth, peer>>

\* Mutant of Verifies that does not look at the transport identity.
VerifiesUnbound(e, m) == m.good

\* NodeHelloVerifier::verify: the transport identity first, then the node id
\* and the signature.
Verifies(e, m) == m.who = auth[e] /\ m.good

\* answer_node_hello, and the request arm of the host's
\* handle_node_hello_event: the answer is sent, and a peer whose hello does
\* not verify is rejected and disconnected.  A host may refuse any hello.
TakeHello(e, s) ==
  LET m  == Head(inbox[e][s])
      ok == Verifies(e, m) /\ ~IsFaulty(e, "refuses")
      sc == <<Send(NodeHelloResponse(e, ok))>>
  IN  /\ Expects(e, s, "node_hello")
      /\ IF ok THEN /\ peer' = [peer EXCEPT ![e] = m]
                    /\ Proceed(e, s, sc)
                    /\ UNCHANGED <<stage, link>>
               ELSE /\ Stop(e, "rejected")
                    /\ inbox' = [inbox EXCEPT ![e][s] = Tail(@),
                                              ![Other(e)][s] = @ \o Sent(sc)]
                    /\ peer' = peer
      /\ UNCHANGED <<fixed, substreams, auth, identified>>

\* request_node_hello, and the response arm of handle_node_hello_event.
TakeResponse(e, s) ==
  LET m  == Head(inbox[e][s])
      ok == m.accepted /\ Verifies(e, m)
  IN  /\ Expects(e, s, "response")
      /\ inbox' = [inbox EXCEPT ![e][s] = Tail(@)]
      /\ IF ok THEN /\ peer' = [peer EXCEPT ![e] = m]
                    /\ stage' = [stage EXCEPT ![e] = IF e \in boards THEN "established"
                                                                   ELSE @]
                    /\ script' = [script EXCEPT ![e][s] = <<>>]
                    /\ link' = link
               ELSE /\ Stop(e, "rejected")
                    /\ peer' = peer
      /\ UNCHANGED <<fixed, substreams, auth, identified>>

OnStream(e) ==
  /\ ~Over(e)
  /\ \E s \in Stream :
       \/ SelectProtocol(e, s) \/ RefuseProtocol(e, s) \/ Misread(e, s)
       \/ TakeLine(e, s) \/ TakeNoise(e, s) \/ TakeIdentify(e, s)
       \/ TakeHello(e, s) \/ TakeResponse(e, s)

-----------------------------------------------------------------------------
(***************************************************************************)
(* The worker of a board, between two streams.                             *)
(***************************************************************************)

\* Yamux runs; the worker goes on by its role.
FinishUpgrade(e) ==
  /\ stage[e] = "upgrade" /\ Idle(e)
  /\ stage' = [stage EXCEPT ![e] = IF e \notin boards THEN "open"
                                   ELSE IF e = "dialer" THEN "serve_identify"
                                        ELSE "accept"]
  /\ UNCHANGED <<fixed, script, inbox, substreams, auth, peer,
                 identified, link>>

\* The loop of serve_identify_request, and that of
\* complete_inbound_handshake, each with the protocols it speaks.
ServesIdentify(e) == stage[e] = "serve_identify" /\ Idle(e) /\ ~identified[e]

ServesInbound(e) ==
  stage[e] = "accept" /\ Idle(e) /\ ~(identified[e] /\ peer[e] # None)

Speaks(e) ==
  {"identify", "ping"}
    \cup (IF stage[e] = "serve_identify" THEN {} ELSE {"hello"})
    \cup (IF e \in boards THEN {} ELSE {"meshsub"})

\* accept_substream: the substreams the peer opened are taken in the order
\* in which they came, those that came while another was driven included
\* (pending_inbound).  A host takes them all, at once.
AcceptSubstream(e) ==
  /\ ServesIdentify(e) \/ ServesInbound(e) \/ stage[e] = "open"
  /\ arrivals[e] # <<>>
  /\ script' = [script EXCEPT ![e][Head(arrivals[e])] = ListenerSelect(Speaks(e))]
  /\ arrivals' = [arrivals EXCEPT ![e] = Tail(@)]
  /\ UNCHANGED <<fixed, stage, inbox, opened, auth, peer, identified, link>>

\* complete_outbound_handshake: Identify was served, now it is requested...
RequestIdentify(e) ==
  /\ stage[e] = "serve_identify" /\ Idle(e) /\ identified[e]
  /\ stage' = [stage EXCEPT ![e] = "request_identify"]
  /\ Open(e, "identify")
  /\ UNCHANGED <<fixed, auth, peer, identified, link>>

\* ... and then the node hello is.
RequestNodeHello(e) ==
  /\ stage[e] = "request_identify" /\ Idle(e)
  /\ stage' = [stage EXCEPT ![e] = "request_hello"]
  /\ Open(e, "hello")
  /\ UNCHANGED <<fixed, auth, peer, identified, link>>

\* The loop of complete_inbound_handshake ends.
FinishInbound(e) ==
  /\ stage[e] = "accept" /\ Idle(e)
  /\ identified[e] /\ peer[e] # None
  /\ stage' = [stage EXCEPT ![e] = "established"]
  /\ UNCHANGED <<fixed, script, inbox, substreams, auth, peer,
                 identified, link>>

\* Accepting, reading or writing on a lost connection is an error.
LinkLost(e) ==
  /\ link = "closed" /\ ~Over(e)
  /\ Stop(e, "failed")
  /\ UNCHANGED <<fixed, inbox, substreams, auth, peer,
                 identified>>

-----------------------------------------------------------------------------
(***************************************************************************)
(* A host, and the network.                                                *)
(***************************************************************************)

\* The behaviours of the host's swarm open substreams by themselves, in any
\* order (external).
HostOpens(e, p) ==
  /\ e \notin boards /\ stage[e] = "open"
  /\ <<e, p>> \notin opened
  /\ Open(e, p)
  /\ UNCHANGED <<fixed, stage, auth, peer, identified, link>>

\* The Identify event of a peer this host has dialled (pending_node_hello)
\* queues a hello, for which the swarm opens a substream.
HostSaysHello(e) ==
  /\ e = "dialer" /\ identified[e] /\ peer[e] = None
  /\ HostOpens(e, "hello")

\* The network may lose the connection at any time.
Break ==
  /\ link = "open"
  /\ link' = "closed"
  /\ UNCHANGED <<fixed, stage, script, inbox, substreams, auth, peer, identified>>

\* What end e does by itself, and does not put off for ever.
Acts(e) ==
  \/ OnStream(e)
  \/ FinishUpgrade(e) \/ AcceptSubstream(e)
  \/ RequestIdentify(e) \/ RequestNodeHello(e) \/ FinishInbound(e)
  \/ HostOpens(e, "identify") \/ HostSaysHello(e)
  \/ LinkLost(e)

Next ==
  \/ \E e \in End : Acts(e)
  \/ \E e \in End, p \in {"ping", "meshsub"} : HostOpens(e, p)
  \/ Break

\* A worker is a thread of its own that runs block_on; a host polls its
\* swarm for ever.
Spec ==
  /\ Init /\ [][Next]_vars
  /\ \A e \in End : WF_vars(Acts(e))

-----------------------------------------------------------------------------
(***************************************************************************)
(* Properties.                                                             *)
(***************************************************************************)
\* The ends, their substreams and what is on its way hold what their types say.
TypeOK ==
  /\ stage \in [End -> {"upgrade", "serve_identify", "request_identify",
                        "request_hello", "accept", "open", "established",
                        "rejected", "failed"}]
  /\ \A e \in End, s \in Stream :
       /\ script[e][s] \in Seq([op : {"send", "recv", "select"}, msg : Message,
                                types : SUBSET (Lines \cup Frames)])
       /\ inbox[e][s] \in Seq(Message)
  /\ opened \subseteq Substream
  /\ \A e \in End : arrivals[e] \in Seq(opened)
  /\ auth \in [End -> End \cup {None}]
  /\ peer \in [End -> Message \cup {None}]
  /\ identified \in [End -> BOOLEAN]
  /\ link \in {"open", "closed"}

\* A session is established only with the peer it is bound to: the worker
\* knows the transport identity that Noise authenticated, it is the one the
\* dialler expected, and a hello that names that identity was verified,
\* whatever the peer says on any substream and in whatever order.  And a
\* dialler takes a peer only if that peer, the listener, has verified and
\* accepted the dialler's own hello (answer_node_hello, request_node_hello).
EstablishedIsBound ==
  /\ TypeOK
  /\ \A e \in boards : stage[e] = "established" =>
       /\ auth[e] = Other(e)
       /\ peer[e] # None
       /\ peer[e].who = auth[e] /\ peer[e].good
       /\ e = "dialer" => expected \in {None, auth[e]}
       /\ e = "dialer" => ~IsFaulty(Other(e), "identify")
  /\ peer["dialer"] # None =>
       peer["listener"] # None /\ stage["listener"] # "rejected"

\* No end of a connection reads a message that was meant for another step:
\* the scripts of both ends fit each other in every layer, whatever the
\* order of the substreams.  The one surprise is a refusal ("na").
NeverMisread ==
  \A e \in End, s \in Stream :
    Waits(e, s, "recv") =>
      Head(inbox[e][s]).type \in Head(script[e][s]).types \cup {"na"}

\* A board's set-up with a host that does its part ends: the session is
\* established, rejected or failed, with no time-out in the worker to end it
\* (establish_session).  Between two boards it need not, see IdentifyRuns.
SetupEnds == \A e \in End : <>(e \in boards => Over(e))

\* After Yamux has started one end opens a substream and runs Identify, if
\* the connection lasts.
IdentifyRuns == <>(link = "closed" \/ \E e \in End : <<e, "identify">> \in opened)
=============================================================================
