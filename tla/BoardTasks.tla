----------------------------- MODULE BoardTasks -----------------------------
(***************************************************************************)
(* The tasks of erp-runtime and the bounded channels between them: the     *)
(* node (runtime/manager.rs), the network manager, the storage worker, the *)
(* wake manager, and the worker of one session.  runtime/host.rs starts    *)
(* them and waits for their ends.                                          *)
(*                                                                         *)
(* The node sends commands to three workers, each of which sends events    *)
(* back on one channel; the manager sends commands to the session, which   *)
(* sends events to the node too.  A send to a full channel waits, and a    *)
(* task that waits does nothing else: this module is about who waits for   *)
(* whom.  What the node decides is NodeEngine, here only which commands an *)
(* event can lead to.                                                      *)
(***************************************************************************)
EXTENDS Naturals, Sequences, FiniteSets, SequencesExt

CONSTANTS Buffer,       \* the buffer of each channel
          MaxBlocks,    \* bound: blocks an event imports or parks
          MaxStimuli    \* bound: frames, answers and timer ticks of a run

Task == {"node", "network", "storage", "wake", "session"}

\* A channel has the name of its reader; the node reads events.
Senders(c) ==
  CASE c = "node"    -> Task \ {"node"}
    [] c = "session" -> {"network"}
    [] OTHER         -> {"node"}

VARIABLES chan,         \* the messages in each channel, and who waits at it
          ended,        \* the tasks that have returned
          todo,         \* actions the node has still to carry out
          session,      \* what the session worker does
          deferred,     \* deferred_commands of the session
          reports,      \* session events for the manager, unbounded
          registered,   \* the manager routes to the session
          dropped,      \* a response found no registered session
          timer,        \* wake_at is set
          stimuli       \* what the world may still do

vars == <<chan, ended, todo, session, deferred, reports, registered, dropped,
          timer, stimuli>>

-----------------------------------------------------------------------------
(***************************************************************************)
(* Channels: futures::channel::mpsc.  A message beyond the buffer is taken *)
(* and its sender parked; a receive lets the first parked sender go on.  A *)
(* receiver that is dropped lets all of them go on; sends then fail.       *)
(***************************************************************************)

Put(ch, c, t, msg) ==
  [ch EXCEPT ![c] =
     [q |-> Append(@.q, msg),
      parked |-> IF Len(@.q) >= Buffer THEN Append(@.parked, t) ELSE @.parked]]

Taken(ch, c) ==
  [ch EXCEPT ![c] =
     [q |-> Tail(@.q),
      parked |-> IF @.parked = <<>> THEN <<>> ELSE Tail(@.parked)]]

Dropped(ch, c) == [ch EXCEPT ![c] = [q |-> <<>>, parked |-> <<>>]]

Parked(t, c) == \E i \in 1..Len(chan[c].parked) : chan[c].parked[i] = t

Runs(t) == t \notin ended /\ \A c \in Task : ~Parked(t, c)

\* Task t runs and its channel has message msg next.
HasNext(t, msg) == Runs(t) /\ chan[t].q # <<>> /\ Head(chan[t].q) = msg

-----------------------------------------------------------------------------
\* run() of host.rs; the node asks for the latest snapshot first, the wake
\* manager starts with a deadline, and one session has become ready.
Init ==
  /\ chan = Put([c \in Task |-> [q |-> <<>>, parked |-> <<>>]],
                "storage", "node", "latest")
  /\ ended = {}
  /\ todo = <<>>
  /\ session = "ready"
  /\ deferred = <<>>
  /\ reports = <<"ready">>
  /\ registered = FALSE
  /\ dropped = FALSE
  /\ timer = TRUE
  /\ stimuli = MaxStimuli

\* Mutant of Ends for a task whose receiver something else keeps.
EndsHoldingReceiver(t, ch) == ended' = ended \cup {t} /\ chan' = ch

\* Task t returns: its receiver is dropped.  The host's join! lets the other
\* workers run on.
Ends(t, ch) ==
  /\ ended' = ended \cup {t}
  /\ chan' = Dropped(ch, t)

\* Task t, which has taken ch, sends msg, or ends since the reader has.
SendOrEnd(t, ch, c, msg) ==
  IF c \in ended THEN Ends(t, ch)
  ELSE chan' = Put(ch, c, t, msg) /\ ended' = ended

-----------------------------------------------------------------------------
(* The node: NodeManager::run and handle_action. *)

\* ingest_block, once for each block of an answer: it is imported, and with it
\* children that wait for it, or parked until its parent's state is loaded, or it
\* is refused.
Imported == {FlattenSeq(s) : s \in SeqOf({<<"persist", "persist">>}, MaxBlocks)}
Ingested == {FlattenSeq(s) : s \in SeqOf({<<"persist", "persist">>, <<"load">>}, MaxBlocks)}

\* Requests go with a change of the wake-up unless an earlier deadline stays.
Asked == {<<"request">>, <<"request", "wake">>}

\* The commands an event may lead to.  ReportEvent sends nothing.
Actions(event) ==
  CASE event = "restored"     -> {<<>>}
    [] event = "tick"         -> {<<>>, <<"wake">>}
    [] event = "connected"    -> Asked
    [] event = "disconnected" -> {<<>>, <<"wake">>}
    [] event = "sync"         -> {<<"response">>}
    [] event = "announce"     -> Imported \cup {<<"load">>}
    [] event = "answer"       -> {blocks \o next : blocks \in Ingested,
                                                   next \in Asked \cup {<<>>, <<"wake">>}}
    [] event = "loaded"       -> Imported \cup Asked

Target(action) ==
  CASE action \in {"persist", "load"}     -> "storage"
    [] action \in {"request", "response"} -> "network"
    [] action = "wake"                    -> "wake"

TakeEvent ==
  /\ Runs("node") /\ todo = <<>> /\ chan["node"].q # <<>>
  /\ todo' \in Actions(Head(chan["node"].q))
  /\ chan' = Taken(chan, "node")
  /\ UNCHANGED <<ended, session, deferred, reports, registered, dropped, timer, stimuli>>

HandleAction ==
  /\ Runs("node") /\ todo # <<>>
  /\ todo' = Tail(todo)
  /\ SendOrEnd("node", chan, Target(Head(todo)), Head(todo))
  /\ UNCHANGED <<session, deferred, reports, registered, dropped, timer, stimuli>>

-----------------------------------------------------------------------------
(* The network manager. *)

\* handle_network_command, send_frame_to_peer: a frame for a peer that is not
\* registered is dropped, a send to a worker that has returned ends the
\* manager.
HandleNetworkCommand ==
  \E msg \in {"request", "response"} :
    /\ HasNext("network", msg)
    /\ IF registered
         THEN /\ SendOrEnd("network", Taken(chan, "network"), "session", msg)
              /\ dropped' = dropped
         ELSE /\ chan' = Taken(chan, "network")
              /\ dropped' = (dropped \/ msg = "response")
              /\ ended' = ended
    /\ UNCHANGED <<todo, session, deferred, reports, registered, timer, stimuli>>

\* handle_session_event.  The worker of this session was ready, so its
\* Closed event names a node.
HandleSessionEvent ==
  /\ Runs("network") /\ reports # <<>>
  /\ registered' = (Head(reports) = "ready")
  /\ reports' = Tail(reports)
  /\ SendOrEnd("network", chan, "node",
               IF Head(reports) = "ready" THEN "connected" ELSE "disconnected")
  /\ UNCHANGED <<todo, session, deferred, dropped, timer, stimuli>>

-----------------------------------------------------------------------------
(* The storage worker and the wake manager. *)
StorageCommand ==
  \/ /\ \E msg \in {"latest", "load"} :
          /\ HasNext("storage", msg)
          /\ SendOrEnd("storage", Taken(chan, "storage"), "node",
                       IF msg = "latest" THEN "restored" ELSE "loaded")
     /\ UNCHANGED <<todo, session, deferred, reports, registered, dropped, timer, stimuli>>
  \/ /\ HasNext("storage", "persist")
     /\ chan' = Taken(chan, "storage")
     /\ UNCHANGED <<ended, todo, session, deferred, reports, registered, dropped, timer, stimuli>>

\* An error of the flash ends the worker.
StorageFails ==
  /\ Runs("storage") /\ chan["storage"].q # <<>>
  /\ Ends("storage", chan)
  /\ UNCHANGED <<todo, session, deferred, reports, registered, dropped, timer, stimuli>>

\* WakeManager::handle_command: Schedule or Cancel.
WakeCommand ==
  /\ HasNext("wake", "wake")
  /\ chan' = Taken(chan, "wake")
  /\ timer' \in BOOLEAN
  /\ UNCHANGED <<ended, todo, session, deferred, reports, registered, dropped, stimuli>>

\* select_biased! looks for a command first.
EmitTick ==
  /\ Runs("wake") /\ timer /\ chan["wake"].q = <<>>
  /\ stimuli > 0 /\ stimuli' = stimuli - 1
  /\ timer' = FALSE
  /\ SendOrEnd("wake", chan, "node", "tick")
  /\ UNCHANGED <<todo, session, deferred, reports, registered, dropped>>

\* The command channel of a worker is empty and its sender gone: run returns.
WorkerStops(t) ==
  /\ t \in {"network", "storage", "wake"}
  /\ Runs(t) /\ chan[t].q = <<>> /\ "node" \in ended
  /\ Ends(t, chan)
  /\ UNCHANGED <<todo, session, deferred, reports, registered, dropped, timer, stimuli>>

-----------------------------------------------------------------------------
(***************************************************************************)
(* The session worker: run_established_session.  It is "ready" at its      *)
(* loop and in "sync" while the peer's SyncRequest waits for the node's    *)
(* answer.  Three waits are for the peer, inline and without a time-out:   *)
(* "asking" from the opening of a substream for a request to its answer,   *)
(* "reading" from the acceptance of a substream to the end of its request, *)
(* and "writing" until a response is written.                              *)
(***************************************************************************)
AtPeer == {"asking", "reading", "writing"}

\* The worker returns and reports it (run_async).
SessionEnds(ch) ==
  /\ Ends("session", ch)
  /\ reports' = Append(reports, "closed")
  /\ session' = "over" /\ deferred' = <<>>

\* Sends event to the node and goes on in state next, or ends.
Forward(event, next) ==
  IF "node" \in ended THEN SessionEnds(chan)
  ELSE /\ chan' = Put(chan, "node", "session", event)
       /\ session' = next
       /\ UNCHANGED <<ended, reports, deferred>>

\* handle_outbound_frame: a request goes to the peer; a response is an error
\* here.  ch and rest are the channels and deferred commands without it.
Outbound(msg, ch, rest) ==
  IF msg = "request"
    THEN /\ session' = "asking"
         /\ chan' = ch /\ deferred' = rest
         /\ UNCHANGED <<ended, reports>>
    ELSE SessionEnds(ch)

\* The loop looks at the deferred commands first.
SessionCommand ==
  /\ session = "ready"
  /\ \/ /\ Runs("session") /\ deferred # <<>>
        /\ Outbound(Head(deferred), chan, Tail(deferred))
     \/ /\ deferred = <<>>
        /\ \E msg \in {"request", "response"} :
             HasNext("session", msg) /\ Outbound(msg, Taken(chan, "session"), <<>>)
  /\ UNCHANGED <<todo, registered, dropped, timer, stimuli>>

\* A substream of the peer is accepted.
AcceptSubstream ==
  /\ Runs("session") /\ session = "ready" /\ deferred = <<>>
  /\ stimuli > 0 /\ stimuli' = stimuli - 1
  /\ session' = "reading"
  /\ UNCHANGED <<chan, ended, todo, deferred, reports, registered, dropped, timer>>

\* handle_inbound_substream, once the peer has sent what it has to: an
\* announcement is forwarded and confirmed, a sync request is forwarded and its
\* answer waited for; the other protocols do not concern the node.
InboundSubstream ==
  /\ Runs("session") /\ session = "reading"
  /\ \/ Forward("announce", "writing")
     \/ Forward("sync", "sync")
     \/ session' = "writing" /\ UNCHANGED <<chan, ended, reports, deferred>>
  /\ UNCHANGED <<todo, registered, dropped, timer, stimuli>>

\* The peer takes the response; a push and a protocol refused have none.
PeerReads ==
  /\ Runs("session") /\ session = "writing"
  /\ session' = "ready"
  /\ UNCHANGED <<chan, ended, todo, deferred, reports, registered, dropped, timer, stimuli>>

\* Mutant of WaitForSyncResponse that takes any command for its answer.
WaitForAnyCommand ==
  /\ session = "sync"
  /\ \E msg \in {"request", "response"} :
       /\ HasNext("session", msg)
       /\ session' = "writing"
       /\ deferred' = IF msg = "response" THEN deferred ELSE Append(deferred, msg)
  /\ chan' = Taken(chan, "session")
  /\ UNCHANGED <<ended, todo, reports, registered, dropped, timer, stimuli>>

\* Mutant of WaitForSyncResponse that leaves other commands in the channel.
WaitForResponseOnly ==
  /\ session = "sync"
  /\ HasNext("session", "response")
  /\ session' = "writing"
  /\ chan' = Taken(chan, "session")
  /\ UNCHANGED <<ended, todo, deferred, reports, registered, dropped, timer, stimuli>>

\* wait_for_sync_response: other commands are retained until the response
\* has come, and restored then; the response is written to the peer.
WaitForSyncResponse ==
  /\ session = "sync"
  /\ \E msg \in {"request", "response"} :
       /\ HasNext("session", msg)
       /\ session' = IF msg = "response" THEN "writing" ELSE "sync"
       /\ deferred' = IF msg = "response" THEN deferred ELSE Append(deferred, msg)
  /\ chan' = Taken(chan, "session")
  /\ UNCHANGED <<ended, todo, reports, registered, dropped, timer, stimuli>>

\* The peer answers a request.
PeerAnswers ==
  /\ Runs("session") /\ session = "asking"
  /\ stimuli > 0 /\ stimuli' = stimuli - 1
  /\ Forward("answer", "ready")
  /\ UNCHANGED <<todo, registered, dropped, timer>>

\* The connection is lost where the worker accepts, reads or writes.
SessionBreaks ==
  /\ Runs("session") /\ session # "sync"
  /\ SessionEnds(chan)
  /\ UNCHANGED <<todo, registered, dropped, timer, stimuli>>

\* The manager has returned and dropped its sender of commands.
SessionStops ==
  /\ Runs("session") /\ session \notin AtPeer
  /\ "network" \in ended /\ chan["session"].q = <<>>
  /\ SessionEnds(chan)
  /\ UNCHANGED <<todo, registered, dropped, timer, stimuli>>

Steps(t) ==
  \/ t = "node" /\ (TakeEvent \/ HandleAction)
  \/ t = "network" /\ (HandleNetworkCommand \/ HandleSessionEvent)
  \/ t = "storage" /\ StorageCommand
  \/ t = "wake" /\ WakeCommand
  \/ t = "session" /\ (SessionCommand \/ WaitForSyncResponse \/ SessionStops)
  \/ WorkerStops(t)

World ==
  \/ StorageFails \/ EmitTick
  \/ AcceptSubstream \/ InboundSubstream \/ PeerReads \/ PeerAnswers \/ SessionBreaks

Next == (\E t \in Task : Steps(t)) \/ World

\* The executors poll the tasks that can go on, in any order: some task does.
\* Nothing is asked of the peer, the flash or the timer.
Spec == Init /\ [][Next]_vars /\ WF_vars(\E t \in Task : Steps(t))

-----------------------------------------------------------------------------
(***************************************************************************)
(* Properties.                                                             *)
(***************************************************************************)
Messages == {"latest", "load", "persist", "request", "response", "wake", "restored", "loaded",
             "tick", "connected", "disconnected", "sync", "announce", "answer"}

\* The types; no channel holds more than its buffer and one message of each
\* of its senders, so the memory of a board is bounded (host.rs).
TypeOK ==
  /\ \A c \in Task :
       /\ chan[c].q \in Seq(Messages) /\ chan[c].parked \in Seq(Senders(c))
       /\ Len(chan[c].q) <= Buffer + Cardinality(Senders(c))
  /\ ended \subseteq Task
  /\ todo \in Seq(Messages) /\ deferred \in Seq({"request", "response"})
  /\ session \in AtPeer \cup {"ready", "sync", "over"}
  /\ reports \in Seq({"ready", "closed"})
  /\ registered \in BOOLEAN /\ dropped \in BOOLEAN /\ timer \in BOOLEAN
  /\ stimuli \in 0..MaxStimuli

Underway(msg, sq) == Cardinality({i \in 1..Len(sq) : sq[i] = msg})

\* The channels keep to their bounds, and the node's answer to a SyncRequest, on
\* its way through the node's actions and two channels, is there only while the
\* session waits for it, and only once: outside that wait it would end the
\* session as an unroutable response (handle_outbound_frame).
AnswersMeetTheirQuestion ==
  /\ TypeOK
  /\ session # "over" =>
       Underway("sync", chan["node"].q) + Underway("response", todo)
         + Underway("response", chan["network"].q)
         + Underway("response", chan["session"].q)
         + Underway("response", deferred) <= IF session = "sync" THEN 1 ELSE 0

\* The node waits at the channel of a worker, which waits at the node's.
WaitsForNode(t) ==
  \/ Parked(t, "node")
  \/ t = "network" /\ Parked("network", "session") /\ Parked("session", "node")

Circle == \E c \in {"network", "storage", "wake"} : Parked("node", c) /\ WaitsForNode(c)

\* Nothing waits in or at the channels C.
Quiet(C) == \A c \in C : chan[c].q = <<>> /\ chan[c].parked = <<>>

\* The worker waits for its peer, and for nothing else: what waits are commands for
\* this session, the manager if they fill its channel, and the node if it has more
\* for the manager.
HeldByPeer ==
  /\ session \in AtPeer /\ ~Parked("session", "node")
  /\ \/ Quiet(Task \ {"session"}) /\ chan["session"].parked = <<>> /\ todo = <<>>
     \/ /\ Parked("network", "session")
        /\ \/ Parked("node", "network")
           \/ Quiet({"node", "storage", "wake"}) /\ todo = <<>>

\* The worker waits for an answer that was dropped, since its request overtook its
\* registration.
AnswerDropped == session = "sync" /\ dropped /\ Quiet(Task) /\ todo = <<>>

\* Every event has been handled, every command carried out and every SyncRequest
\* answered, and the session is at its loop or closed.
AtRest ==
  /\ Quiet(Task) /\ todo = <<>> /\ deferred = <<>>
  /\ reports = <<>> \/ "network" \in ended
  /\ session \in {"ready", "over"}

\* When the world falls silent the tasks come to rest or the node has ended, but for
\* three standstills, which the code has: the node and a worker wait for each other
\* at full channels; a peer that neither sends nor reads holds its worker, and with
\* it what waits for the worker; a dropped answer is waited for without a time-out.
\* No fourth is made by the order of sends, retained commands or ends of tasks.
StandstillIsExplained ==
  <>[](AtRest \/ Circle \/ HeldByPeer \/ AnswerDropped \/ "node" \in ended)

\* Once the node has returned, on the first send to a worker that has failed,
\* every worker returns, those that waited at full channels included, unless
\* the manager waits at the channel of a session that a peer holds: host.rs can
\* join them all.
ShutdownSpreads ==
  "node" \in ended ~>
    \/ {"network", "storage", "wake"} \subseteq ended
    \/ Parked("network", "session") /\ session \in AtPeer
=============================================================================
