------------------------- MODULE PeerSessionsProofs -------------------------
(***************************************************************************)
(* Proofs about PeerSessions, for any number of peers, slots, sessions and *)
(* frames: the registry, its index and the senders agree, and events and   *)
(* commands meet the session they are about, although slots are used       *)
(* again.  The heart of it: a slot is freed by the Closed event of its     *)
(* session, which is the last event of that session.                       *)
(***************************************************************************)
EXTENDS PeerSessions, FiniteSetTheorems, SequenceTheorems, TLAPS

\* A session and its worker point at each other, as long as the worker lives;
\* the node of a session is the one its worker has found.
Owners ==
    /\ \A i \in Occupied :
        LET w == sessions[i].worker
        IN  /\ w \in DOMAIN workers
            /\ workers[w].slot = i
            /\ sessions[i].node # None =>
                workers[w].phase # "setup" /\ workers[w].node = sessions[i].node
    /\ \A w \in Live :
        workers[w].slot \in Occupied /\ sessions[workers[w].slot].worker = w

\* A worker has its peer's node from the end of the set-up on.
Named ==
    \A w \in DOMAIN workers :
        /\ workers[w].phase = "setup" => workers[w].node = None
        /\ workers[w].phase \notin {"setup", "ended"} => workers[w].node # None

\* A worker reports Ready at most once and before the manager knows its node,
\* and Closed as the last thing it does.
Reports ==
    \A k \in DOMAIN session_events :
        LET event == session_events[k]
        IN  /\ event.worker \in DOMAIN workers
            /\ workers[event.worker].phase # "setup"
            /\ workers[event.worker].node = event.node
            /\ event.type = "Ready" => event.node # None /\ sessions[event.slot].node = None
            /\ event.type = "Closed" => workers[event.worker].phase = "ended"
            /\ \A j \in DOMAIN session_events :
                j > k /\ session_events[j].worker = event.worker =>
                    event.type = "Ready" /\ session_events[j].type = "Closed"

IInv == TypeOK /\ RegistryConsistent /\ MessagesMeetTheirSession /\ Owners /\ Named /\ Reports

-----------------------------------------------------------------------------
(* Minima, maps and sequences *)

\* A set of numbers that is not empty has a least one.
LEMMA MinInSet ==
    ASSUME NEW S \in SUBSET Nat, S # {}
    PROVE  Min(S) \in S /\ \A y \in S : Min(S) <= y
<1>1. PICK x \in S : \A y \in S : ~ (<<y, x>> \in OpToRel(<, Nat))
  BY NatLessThanWellFounded, WFMin, Zenon
<1>2. \A y \in S : x <= y
  <2> TAKE y \in S
  <2>1. ~ (y < x)
    BY <1>1, Zenon DEF OpToRel
  <2> QED
    BY <2>1
<1> QED
  BY <1>2, Zenon DEF Min

\* Writing a slot of a sequence, or the one after its last.
LEMMA PutInSeq ==
    ASSUME NEW S, NEW s \in Seq(S), NEW i \in Nat, 0 < i, i <= Len(s) + 1, NEW e \in S
    PROVE  /\ Put(s, i, e) \in Seq(S)
           /\ Len(Put(s, i, e)) = IF i = Len(s) + 1 THEN i ELSE Len(s)
<1> DEFINE t == Put(s, i, e)
           n == IF i = Len(s) + 1 THEN i ELSE Len(s)
<1>1. Len(s) \in Nat /\ DOMAIN s = 1 .. Len(s) /\ \A j \in 1 .. Len(s) : s[j] \in S
  BY LenProperties
<1>2. n \in Nat /\ DOMAIN s \cup {i} = 1 .. n
  BY <1>1
<1>3. t \in [1 .. n -> S]
  BY <1>1, <1>2 DEF Put
<1>4. t \in Seq(S)
  BY <1>2, <1>3, SeqDef, SMTT(30)
<1>5. Len(t) = n
  BY <1>2, <1>3, <1>4, LenProperties
<1> QED
  BY <1>4, <1>5

\* Taking an element out of a sequence leaves elements of it.
LEMMA WithoutElements ==
    ASSUME NEW S, NEW s \in Seq(S), NEW i \in 1 .. Len(s)
    PROVE  Without(s, i) \in Seq(S)
<1>1. Len(s) \in Nat /\ \A j \in 1 .. Len(s) : s[j] \in S
  BY LenProperties
<1>2. SubSeq(s, 1, i - 1) \in Seq(S)
  <2>1. \A j \in 1 .. i - 1 : s[j] \in S
    BY <1>1
  <2> QED
    BY <1>1, <2>1, SubSeqProperties
<1>3. SubSeq(s, i + 1, Len(s)) \in Seq(S)
  <2>1. \A j \in i + 1 .. Len(s) : s[j] \in S
    BY <1>1
  <2> QED
    BY <1>1, <2>1, SubSeqProperties
<1> QED
  BY <1>2, <1>3, ConcatProperties DEF Without

\* The order of a finite set of peers lists peers of the set.
LEMMA InOrderElements ==
    ASSUME NEW S, IsFiniteSet(S)
    PROVE  Cardinality(S) \in Nat /\ InOrder(S) \in [1 .. Cardinality(S) -> S]
<1>1. Cardinality(S) \in Nat /\ ExistsBijection(1 .. Cardinality(S), S)
  BY FS_CardinalityType
<1>2. InOrder(S) \in Bijection(1 .. Cardinality(S), S)
  BY <1>1 DEF ExistsBijection, InOrder
<1> QED
  BY <1>1, <1>2 DEF Bijection, Injection

-----------------------------------------------------------------------------
(* The steps *)

\* What relates the registry, the workers and their reports.
Related == RegistryConsistent /\ MessagesMeetTheirSession /\ Owners /\ Named /\ Reports

\* A worker that goes on with its peer, or gets a command for it, disturbs nothing.
LEMMA WorkerMoves ==
    ASSUME IInv, NEW w \in DOMAIN workers, NEW r \in Worker,
           workers' = [workers EXCEPT ![w] = r],
           r.slot = workers[w].slot, r.node = workers[w].node,
           r.phase = "setup" <=> workers[w].phase = "setup",
           r.phase = "ended" <=> workers[w].phase = "ended",
           \A k \in DOMAIN r.inbox : r.inbox[k].peer = r.node,
           UNCHANGED <<registry, session_commands, session_events>>
    PROVE  workers' \in Seq(Worker) /\ Related'
<1>1. /\ workers' \in Seq(Worker) /\ DOMAIN workers' = DOMAIN workers
      /\ \A v \in DOMAIN workers : workers'[v] = IF v = w THEN r ELSE workers[v]
  BY ExceptSeq, LenProperties DEF IInv, TypeOK
<1>2. Occupied' = Occupied /\ Live' = Live
  BY <1>1 DEF Occupied, Slots, Live, registry
<1>3. RegistryConsistent' /\ EventsMeetTheirSession'
  BY <1>2 DEF IInv, RegistryConsistent, MessagesMeetTheirSession, EventsMeetTheirSession, registry
<1>4. CommandsMeetTheirNode'
  BY <1>1, <1>2, SMTT(30) DEF IInv, MessagesMeetTheirSession, CommandsMeetTheirNode, Live
<1>5. Owners'
  BY <1>1, <1>2 DEF IInv, Owners, Live, registry
<1>6. Named'
  BY <1>1 DEF IInv, Named
<1>7. Reports'
  BY <1>1 DEF IInv, Reports, registry
<1> QED
  BY <1>1, <1>3, <1>4, <1>5, <1>6, <1>7 DEF Related, MessagesMeetTheirSession

\* spawn_session puts a worker into a slot that no session, event or live worker
\* refers to.
LEMMA SpawnStep ==
    ASSUME IInv, NEW address \in Range(Bootstrap) \cup {None}, Spawn(address),
           UNCHANGED session_events
    PROVE  /\ Related'
           /\ sessions' \in Seq(Session \cup {None}) /\ Len(sessions') <= MaxPeers
           /\ DOMAIN by_node_peer' \subseteq Node
           /\ workers' \in Seq(Worker)
<1>1. CASE FreeSlots = {}
  <2>1. UNCHANGED <<sessions, by_node_peer, session_commands, workers>>
    BY <1>1 DEF Spawn, registry
  <2> QED
    BY <2>1 DEF IInv, TypeOK, Related, RegistryConsistent, MessagesMeetTheirSession, EventsMeetTheirSession,
                CommandsMeetTheirNode, Owners, Named, Reports, Occupied, Slots, Live
<1>2. CASE FreeSlots # {}
  <2> DEFINE i == Min(FreeSlots)
             w == Len(workers) + 1
             session == [worker |-> w, address |-> address, node |-> None, ready |-> FALSE]
             worker == [slot |-> i, phase |-> "setup", node |-> None, inbox |-> <<>>,
                        early |-> FALSE]
  <2>1. /\ Len(sessions) \in Nat /\ DOMAIN sessions = 1 .. Len(sessions)
        /\ Len(workers) \in Nat /\ DOMAIN workers = 1 .. Len(workers)
    BY LenProperties DEF IInv, TypeOK
  <2>2. i \in 1 .. Len(sessions) + 1 /\ i \notin Occupied /\ i <= MaxPeers
    <3>1. FreeSlots \in SUBSET Nat
      BY <2>1 DEF FreeSlots
    <3>2. i \in FreeSlots
      BY <1>2, <3>1, MinInSet
    <3> QED
      BY <3>2 DEF FreeSlots
  <2>3. session \in Session /\ worker \in Worker /\ w \in Nat
    BY <2>1, <2>2, EmptySeq, LimitsAssumption DEF Session, Worker
  <2>4. /\ sessions' = Put(sessions, i, session)
        /\ session_commands' = Put(session_commands, i, w)
        /\ workers' = Append(workers, worker)
        /\ by_node_peer' = by_node_peer
    BY <1>2 DEF Spawn
  <2> HIDE DEF i, session, worker
  <2>5. /\ sessions' \in Seq(Session \cup {None}) /\ Len(sessions') <= MaxPeers
        /\ DOMAIN sessions' = DOMAIN sessions \cup {i}
        /\ \A j \in DOMAIN sessions \cup {i} :
            sessions'[j] = IF j = i THEN session ELSE sessions[j]
    <3>1. sessions \in Seq(Session \cup {None}) /\ Len(sessions) <= MaxPeers
      BY DEF IInv, TypeOK
    <3>2. session \in Session \cup {None} /\ i \in Nat /\ 0 < i /\ i <= Len(sessions) + 1
      BY <2>1, <2>2, <2>3
    <3>3. /\ Put(sessions, i, session) \in Seq(Session \cup {None})
          /\ Len(Put(sessions, i, session)) =
                IF i = Len(sessions) + 1 THEN i ELSE Len(sessions)
      BY <3>1, <3>2, PutInSeq
    <3> QED
      BY <2>2, <2>4, <3>1, <3>3, Zenon DEF Put
  <2>6. /\ workers' \in Seq(Worker) /\ DOMAIN workers' = DOMAIN workers \cup {w}
        /\ w \notin DOMAIN workers
        /\ workers'[w] = worker /\ \A v \in DOMAIN workers : workers'[v] = workers[v]
    BY <2>1, <2>3, <2>4, AppendProperties, LenProperties DEF IInv, TypeOK
  <2>7. session # None
    BY <2>3, NamesAssumption
  <2>8. Occupied' = Occupied \cup {i}
    BY <2>5, <2>7 DEF Occupied, Slots
  <2>9. Live' = Live \cup {w}
    BY <2>6 DEF Live, worker
  <2>10. RegistryConsistent'
    BY <2>2, <2>4, <2>5, <2>8, Zenon DEF IInv, RegistryConsistent, Put, Occupied, Slots, session
  <2>11. EventsMeetTheirSession'
    BY <2>2, <2>5, <2>8 DEF IInv, MessagesMeetTheirSession, EventsMeetTheirSession, Occupied, Slots
  <2>12. CommandsMeetTheirNode'
    BY <2>6, <2>9 DEF IInv, MessagesMeetTheirSession, CommandsMeetTheirNode, Live, worker
  <2>13. Owners'
    BY <2>2, <2>5, <2>6, <2>8, <2>9, SMTT(30)
      DEF IInv, Owners, Occupied, Slots, Live, session, worker
  <2>14. Named'
    BY <2>6 DEF IInv, Named, worker
  <2>15. Reports'
    BY <2>2, <2>5, <2>6
      DEF IInv, Reports, MessagesMeetTheirSession, EventsMeetTheirSession, Occupied, Slots
  <2> QED
    BY <2>4, <2>5, <2>6, <2>10, <2>11, <2>12, <2>13, <2>14, <2>15, SMTT(30)
    DEF Related, MessagesMeetTheirSession, IInv, TypeOK
<1> QED
  BY <1>1, <1>2, SMTT(30)

\* The event the manager takes, and those behind it.
LEMMA FirstEvent ==
    ASSUME IInv, session_events # <<>>
    PROVE  /\ 1 \in DOMAIN session_events
           /\ Head(session_events) = session_events[1]
           /\ session_events[1] \in SessionEvent
           /\ Tail(session_events) \in Seq(SessionEvent)
           /\ \A k \in DOMAIN Tail(session_events) :
                /\ k \in Nat \ {0} /\ k + 1 \in DOMAIN session_events
                /\ Tail(session_events)[k] = session_events[k + 1]
<1>1. session_events \in Seq(SessionEvent)
  BY DEF IInv, TypeOK
<1>2. /\ Len(session_events) \in Nat \ {0} /\ DOMAIN session_events = 1 .. Len(session_events)
      /\ \A k \in DOMAIN session_events : session_events[k] \in SessionEvent
  BY <1>1, LenProperties, EmptySeq
<1>3. /\ Tail(session_events) \in Seq(SessionEvent)
      /\ Len(Tail(session_events)) = Len(session_events) - 1
      /\ \A k \in 1 .. Len(Tail(session_events)) :
            Tail(session_events)[k] = session_events[k + 1]
  BY <1>1, HeadTailProperties
<1>4. DOMAIN Tail(session_events) = 1 .. Len(Tail(session_events))
  BY <1>3, LenProperties
<1> QED
  BY <1>1, <1>2, <1>3, <1>4

\* The Ready event of a session gives it its node.
LEMMA ReadyStep ==
    ASSUME IInv, session_events # <<>>, session_events' = Tail(session_events),
           Head(session_events).type = "Ready", Ready(Head(session_events)),
           UNCHANGED workers
    PROVE  /\ Related'
           /\ sessions' \in Seq(Session \cup {None}) /\ Len(sessions') = Len(sessions)
           /\ DOMAIN by_node_peer' \subseteq Node
           /\ events' \in Seq(Messages)
<1> DEFINE event == session_events[1]
           i == event.slot
           n == event.node
<1>1. /\ 1 \in DOMAIN session_events /\ Head(session_events) = event /\ event \in SessionEvent
      /\ \A k \in DOMAIN session_events' :
            /\ k \in Nat \ {0} /\ k + 1 \in DOMAIN session_events
            /\ session_events'[k] = session_events[k + 1]
  BY FirstEvent
<1>2. i \in Occupied /\ sessions[i].worker = event.worker
  BY <1>1 DEF IInv, MessagesMeetTheirSession, EventsMeetTheirSession
<1>3. /\ n # None /\ sessions[i].node = None
      /\ workers[event.worker].phase # "setup" /\ workers[event.worker].node = n
  BY <1>1 DEF IInv, Reports
<1>4. n \in Node
  BY <1>1, <1>3, SMTT(30) DEF SessionEvent
<1>5. i \in 1 .. Len(sessions) /\ sessions[i] \in Session
  BY <1>2, LenProperties DEF IInv, TypeOK, Occupied, Slots
<1>6. PICK s \in Session :
        /\ sessions' = [sessions EXCEPT ![i] = s]
        /\ s.worker = sessions[i].worker
        /\ IF MayRegister(n, i) THEN s.node = n ELSE s.node = None
  <2>1. CASE MayRegister(n, i)
    <3> DEFINE s == [sessions[i] EXCEPT !.ready = TRUE, !.node = n]
    <3>1. sessions' = [sessions EXCEPT ![i] = s]
      BY <1>1, <1>5, <2>1 DEF Ready, Session
    <3>2. s \in Session /\ s.worker = sessions[i].worker /\ s.node = n
      BY <1>4, <1>5, Zenon DEF Session
    <3> QED
      BY <2>1, <3>1, <3>2, Zenon
  <2>2. CASE ~ MayRegister(n, i)
    <3> DEFINE s == [sessions[i] EXCEPT !.ready = TRUE]
    <3>1. sessions' = [sessions EXCEPT ![i] = s]
      BY <1>1, <1>5, <2>2 DEF Ready, Session
    <3>2. s \in Session /\ s.worker = sessions[i].worker /\ s.node = None
      BY <1>3, <1>5, Zenon DEF Session
    <3> QED
      BY <2>2, <3>1, <3>2, Zenon
  <2> QED
    BY <2>1, <2>2
<1>7. s # None
  BY NamesAssumption
<1>8. /\ sessions' \in Seq(Session \cup {None}) /\ Len(sessions') = Len(sessions)
      /\ DOMAIN sessions' = DOMAIN sessions
      /\ \A j \in DOMAIN sessions : sessions'[j] = IF j = i THEN s ELSE sessions[j]
  <2>1. s \in Session \cup {None} /\ sessions \in Seq(Session \cup {None})
    BY DEF IInv, TypeOK
  <2>2. sessions' \in Seq(Session \cup {None}) /\ Len(sessions') = Len(sessions)
    BY <1>5, <1>6, <2>1, ExceptSeq, SMTT(30)
  <2> QED
    BY <1>6, <2>1, <2>2, LenProperties
<1>9. Occupied' = Occupied
  BY <1>2, <1>7, <1>8 DEF Occupied, Slots
<1>10. /\ session_commands' = session_commands
       /\ by_node_peer' = IF MayRegister(n, i) THEN Put(by_node_peer, n, i) ELSE by_node_peer
       /\ events' = IF MayRegister(n, i) THEN Append(events, Message("PeerConnected", n))
                    ELSE events
  BY <1>1 DEF Ready
<1>11. MayRegister(n, i) => n \notin DOMAIN by_node_peer
  BY <1>3 DEF MayRegister, IInv, RegistryConsistent
<1> HIDE DEF event
<1>12. RegistryConsistent'
  <2>1. CASE MayRegister(n, i)
    <3>1. /\ DOMAIN by_node_peer' = DOMAIN by_node_peer \cup {n}
          /\ by_node_peer'[n] = i
          /\ \A m \in DOMAIN by_node_peer : by_node_peer'[m] = by_node_peer[m]
      BY <1>10, <1>11, <2>1, SMTT(30) DEF Put
    <3>2. \A m \in DOMAIN by_node_peer : by_node_peer[m] # i
      BY <1>3, <1>4, NamesAssumption, SMTT(30) DEF IInv, RegistryConsistent, TypeOK
    <3> QED
      BY <1>2, <1>3, <1>6, <1>8, <1>9, <1>10, <1>11, <2>1, <3>1, <3>2, SMTT(30)
      DEF IInv, RegistryConsistent, Occupied, Slots
  <2>2. CASE ~ MayRegister(n, i)
    <3>1. by_node_peer' = by_node_peer /\ s.node = None
      BY <1>6, <1>10, <2>2, SMTT(30)
    <3>2. \A m \in DOMAIN by_node_peer : by_node_peer[m] # i
      BY <1>3, <1>4, NamesAssumption, SMTT(30) DEF IInv, RegistryConsistent, TypeOK
    <3> QED
      BY <1>2, <1>6, <1>8, <1>9, <1>10, <3>1, <3>2, SMTT(30)
      DEF IInv, RegistryConsistent, Occupied, Slots
  <2> QED
    BY <2>1, <2>2, SMTT(30)
<1>13. EventsMeetTheirSession'
  BY <1>1, <1>2, <1>6, <1>8, <1>9, SMTT(30)
  DEF IInv, MessagesMeetTheirSession, EventsMeetTheirSession, Occupied, Slots
<1>14. CommandsMeetTheirNode' /\ Named'
  BY SMTT(30) DEF IInv, MessagesMeetTheirSession, CommandsMeetTheirNode, Named, Live
<1>15. Owners'
  BY <1>2, <1>3, <1>6, <1>8, <1>9, SMTT(30) DEF IInv, Owners, Occupied, Slots, Live
<1>16. Reports'
  <2> SUFFICES ASSUME NEW k \in DOMAIN session_events'
               PROVE  LET e == session_events'[k]
                      IN  /\ e.worker \in DOMAIN workers
                          /\ workers[e.worker].phase # "setup"
                          /\ workers[e.worker].node = e.node
                          /\ e.type = "Ready" =>
                                e.node # None /\ sessions'[e.slot].node = None
                          /\ e.type = "Closed" => workers[e.worker].phase = "ended"
                          /\ \A j \in DOMAIN session_events' :
                                j > k /\ session_events'[j].worker = e.worker =>
                                    e.type = "Ready" /\ session_events'[j].type = "Closed"
    BY DEF Reports
  <2> DEFINE e == session_events[k + 1]
  <2>1. k \in Nat \ {0} /\ k + 1 \in DOMAIN session_events /\ session_events'[k] = e
    BY <1>1
  <2>2. e.type = "Ready" => e.worker # event.worker
    BY <1>1, <2>1 DEF IInv, Reports, event
  <2>3. e.slot \in Occupied /\ sessions[e.slot].worker = e.worker
    BY <2>1, SMTT(30) DEF IInv, MessagesMeetTheirSession, EventsMeetTheirSession
  <2>4. e.type = "Ready" => e.node # None /\ sessions'[e.slot].node = None
    BY <1>2, <1>8, <2>1, <2>2, <2>3, SMTT(30) DEF IInv, Reports, Occupied, Slots
  <2>5. ASSUME NEW j \in DOMAIN session_events', j > k, session_events'[j].worker = e.worker
        PROVE  e.type = "Ready" /\ session_events'[j].type = "Closed"
    <3>1. j + 1 \in DOMAIN session_events /\ session_events'[j] = session_events[j + 1]
          /\ j + 1 > k + 1
      BY <1>1, <2>1, <2>5
    <3> QED
      BY <2>1, <2>5, <3>1 DEF IInv, Reports
  <2> QED
    BY <2>1, <2>4, <2>5, SMTT(30) DEF IInv, Reports
<1>17. DOMAIN by_node_peer' \subseteq Node
  BY <1>4, <1>10, SMTT(30) DEF IInv, TypeOK, Put
<1>18. events' \in Seq(Messages)
  <2>1. Message("PeerConnected", n) \in Messages
    BY <1>4, SMTT(30) DEF Message, Messages
  <2> QED
    BY <1>10, <2>1, AppendProperties DEF IInv, TypeOK
<1> QED
  BY <1>8, <1>12, <1>13, <1>14, <1>15, <1>16, <1>17, <1>18, SMTT(30)
    DEF Related, MessagesMeetTheirSession

\* The Closed event of a session is its last: nothing refers to the slot it frees.
LEMMA ClosedStep ==
    ASSUME IInv, session_events # <<>>, session_events' = Tail(session_events),
           Head(session_events).type = "Closed", Closed(Head(session_events)),
           UNCHANGED workers
    PROVE  /\ Related'
           /\ sessions' \in Seq(Session \cup {None}) /\ Len(sessions') = Len(sessions)
           /\ DOMAIN by_node_peer' \subseteq Node
           /\ events' \in Seq(Messages)
<1> DEFINE event == session_events[1]
           i == event.slot
<1>1. /\ 1 \in DOMAIN session_events /\ Head(session_events) = event /\ event \in SessionEvent
      /\ \A k \in DOMAIN session_events' :
            /\ k \in Nat \ {0} /\ k + 1 \in DOMAIN session_events
            /\ session_events'[k] = session_events[k + 1]
  BY FirstEvent
<1>2. i \in Occupied /\ sessions[i].worker = event.worker
  BY <1>1 DEF IInv, MessagesMeetTheirSession, EventsMeetTheirSession
<1>3. event.worker \notin Live
  BY <1>1 DEF IInv, Reports, Live
<1>4. \A k \in DOMAIN session_events' : session_events'[k].worker # event.worker
  <2> TAKE k \in DOMAIN session_events'
  <2>1. k + 1 > 1 /\ k + 1 \in DOMAIN session_events
    BY <1>1
  <2> QED
    BY <1>1, <2>1 DEF IInv, Reports
<1>5. i \in 1 .. Len(sessions)
  BY <1>2, LenProperties, SMTT(30) DEF IInv, TypeOK, Occupied, Slots
<1>6. /\ sessions' = [sessions EXCEPT ![i] = None]
      /\ session_commands' = Drop(session_commands, i)
      /\ by_node_peer' = IF sessions[i].node = None THEN by_node_peer
                         ELSE Drop(by_node_peer, sessions[i].node)
      /\ events' = IF event.node = None THEN events
                   ELSE Append(events, Message("PeerDisconnected", event.node))
  BY <1>1 DEF Closed, RemoveSession
<1>7. /\ sessions' \in Seq(Session \cup {None}) /\ Len(sessions') = Len(sessions)
      /\ DOMAIN sessions' = DOMAIN sessions
      /\ \A j \in DOMAIN sessions : sessions'[j] = IF j = i THEN None ELSE sessions[j]
  <2>1. None \in Session \cup {None} /\ sessions \in Seq(Session \cup {None})
    BY DEF IInv, TypeOK
  <2>2. sessions' \in Seq(Session \cup {None}) /\ Len(sessions') = Len(sessions)
    BY <1>5, <1>6, <2>1, ExceptSeq, SMTT(30)
  <2> QED
    BY <1>6, <2>1, <2>2, LenProperties, SMTT(30)
<1>8. Occupied' = Occupied \ {i}
  BY <1>2, <1>7, SMTT(30) DEF Occupied, Slots
<1> HIDE DEF event
<1>9. RegistryConsistent'
  <2>1. DOMAIN session_commands' = DOMAIN session_commands \ {i}
        /\ \A j \in DOMAIN session_commands' : session_commands'[j] = session_commands[j]
    BY <1>6, SMTT(30) DEF Drop
  <2>2. /\ DOMAIN by_node_peer' = DOMAIN by_node_peer \ {sessions[i].node}
        /\ \A m \in DOMAIN by_node_peer' : by_node_peer'[m] = by_node_peer[m]
    <3>1. None \notin DOMAIN by_node_peer
      BY NamesAssumption, SMTT(30) DEF IInv, TypeOK
    <3> QED
      BY <1>6, <3>1 DEF Drop
  <2>3. ASSUME NEW m \in DOMAIN by_node_peer'
        PROVE  by_node_peer'[m] \in Occupied' /\ sessions'[by_node_peer'[m]].node = m
    BY <1>7, <1>8, <2>2, <2>3, SMTT(30) DEF IInv, RegistryConsistent, Occupied, Slots
  <2>4. ASSUME NEW j \in Occupied', sessions'[j].node # None
        PROVE  sessions'[j].node \in DOMAIN by_node_peer'
               /\ by_node_peer'[sessions'[j].node] = j
    <3>1. j \in Occupied /\ j # i /\ sessions'[j] = sessions[j]
      BY <1>7, <1>8, SMTT(30) DEF Occupied, Slots
    <3>2. by_node_peer[sessions[j].node] = j /\ sessions[j].node \in DOMAIN by_node_peer
      BY <2>4, <3>1, SMTT(30) DEF IInv, RegistryConsistent
    <3>3. sessions[j].node # sessions[i].node
      BY <1>2, <2>4, <3>1, <3>2, SMTT(30) DEF IInv, RegistryConsistent
    <3> QED
      BY <2>2, <3>1, <3>2, <3>3, SMTT(30)
  <2>5. DOMAIN session_commands' = Occupied'
        /\ \A j \in Occupied' : session_commands'[j] = sessions'[j].worker
    BY <1>7, <1>8, <2>1, SMTT(30) DEF IInv, RegistryConsistent, Occupied, Slots
  <2> QED
    BY <2>3, <2>4, <2>5, SMTT(30) DEF RegistryConsistent
<1>10. EventsMeetTheirSession'
  BY <1>1, <1>2, <1>4, <1>7, <1>8, SMTT(30)
  DEF IInv, MessagesMeetTheirSession, EventsMeetTheirSession, Occupied, Slots
<1>11. CommandsMeetTheirNode' /\ Named'
  BY SMTT(30) DEF IInv, MessagesMeetTheirSession, CommandsMeetTheirNode, Named, Live
<1>12. Owners'
  <2>1. Live' = Live
    BY SMTT(30) DEF Live
  <2> QED
    BY <1>2, <1>3, <1>7, <1>8, <2>1, SMTT(30) DEF IInv, Owners, Occupied, Slots
<1>13. Reports'
  <2> SUFFICES ASSUME NEW k \in DOMAIN session_events'
               PROVE  LET e == session_events'[k]
                      IN  /\ e.worker \in DOMAIN workers
                          /\ workers[e.worker].phase # "setup"
                          /\ workers[e.worker].node = e.node
                          /\ e.type = "Ready" =>
                                e.node # None /\ sessions'[e.slot].node = None
                          /\ e.type = "Closed" => workers[e.worker].phase = "ended"
                          /\ \A j \in DOMAIN session_events' :
                                j > k /\ session_events'[j].worker = e.worker =>
                                    e.type = "Ready" /\ session_events'[j].type = "Closed"
    BY DEF Reports
  <2> DEFINE e == session_events[k + 1]
  <2>1. k \in Nat \ {0} /\ k + 1 \in DOMAIN session_events /\ session_events'[k] = e
    BY <1>1, SMTT(30)
  <2>2. e.slot \in Occupied /\ e.slot # i
    BY <1>2, <1>4, <2>1, SMTT(30) DEF IInv, MessagesMeetTheirSession, EventsMeetTheirSession
  <2>3. e.type = "Ready" => e.node # None /\ sessions'[e.slot].node = None
    BY <1>7, <2>1, <2>2, SMTT(30) DEF IInv, Reports, Occupied, Slots
  <2>4. ASSUME NEW j \in DOMAIN session_events', j > k, session_events'[j].worker = e.worker
        PROVE  e.type = "Ready" /\ session_events'[j].type = "Closed"
    <3>1. j + 1 \in DOMAIN session_events /\ session_events'[j] = session_events[j + 1]
          /\ j + 1 > k + 1
      BY <1>1, <2>1, <2>4, SMTT(30)
    <3> QED
      BY <2>1, <2>4, <3>1, SMTT(30) DEF IInv, Reports
  <2> QED
    BY <2>1, <2>3, <2>4, SMTT(30) DEF IInv, Reports
<1>14. DOMAIN by_node_peer' \subseteq Node
  BY <1>6 DEF IInv, TypeOK, Drop
<1>15. events' \in Seq(Messages)
  <2>1. CASE event.node = None
    BY <1>6, <2>1, SMTT(30) DEF IInv, TypeOK
  <2>2. CASE event.node # None
    <3>1. Message("PeerDisconnected", event.node) \in Messages
      BY <1>1, <2>2 DEF Message, Messages, SessionEvent
    <3> QED
      BY <1>6, <2>2, <3>1, AppendProperties, SMTT(30) DEF IInv, TypeOK
  <2> QED
    BY <2>1, <2>2, SMTT(30)
<1> QED
  BY <1>7, <1>9, <1>10, <1>11, <1>12, <1>13, <1>14, <1>15, SMTT(30)
    DEF Related, MessagesMeetTheirSession

\* A worker that reports: Ready when it leaves the set-up, Closed when it ends.
LEMMA ReportStep ==
    ASSUME IInv, NEW w \in Live, NEW r \in Worker, NEW type \in {"Ready", "Closed"},
           workers' = [workers EXCEPT ![w] = r], Report(w, type, r.node),
           r.slot = workers[w].slot,
           type = "Ready" =>
                /\ workers[w].phase = "setup" /\ r.phase = "idle"
                /\ r.node # None /\ r.inbox = workers[w].inbox,
           type = "Closed" =>
                r.phase = "ended" /\ r.node = workers[w].node,
           UNCHANGED <<registry, session_commands>>
    PROVE  workers' \in Seq(Worker) /\ session_events' \in Seq(SessionEvent) /\ Related'
<1> DEFINE event == [type |-> type, slot |-> workers[w].slot, node |-> r.node, worker |-> w]
           last == Len(session_events) + 1
<1>1. /\ workers' \in Seq(Worker) /\ DOMAIN workers' = DOMAIN workers
      /\ w \in DOMAIN workers /\ w \in Nat /\ workers[w] \in Worker /\ workers[w].phase # "ended"
      /\ \A v \in DOMAIN workers : workers'[v] = IF v = w THEN r ELSE workers[v]
  BY ExceptSeq, LenProperties, SMTT(30) DEF IInv, TypeOK, Live
<1>2. event \in SessionEvent
  BY <1>1 DEF SessionEvent, Worker
<1> HIDE DEF event
<1>3. /\ session_events' \in Seq(SessionEvent)
      /\ last \in Nat /\ DOMAIN session_events = 1 .. last - 1
      /\ DOMAIN session_events' = 1 .. last
      /\ session_events'[last] = event
      /\ \A k \in DOMAIN session_events : session_events'[k] = session_events[k]
  <2>1. session_events \in Seq(SessionEvent) /\ session_events' = Append(session_events, event)
    BY DEF IInv, TypeOK, Report, event
  <2> QED
    BY <1>2, <2>1, AppendProperties, LenProperties, SMTT(30)
<1>4. /\ event.type = type /\ event.slot = workers[w].slot /\ event.node = r.node
      /\ event.worker = w
  BY DEF event
<1>5. Occupied' = Occupied /\ Live' = IF type = "Ready" THEN Live ELSE Live \ {w}
  BY <1>1, SMTT(30) DEF Occupied, Slots, Live, registry
<1>6. event.slot \in Occupied /\ sessions[event.slot].worker = w
  BY <1>4, SMTT(30) DEF IInv, Owners
<1>7. RegistryConsistent'
  BY <1>5, SMTT(30) DEF IInv, RegistryConsistent, registry
<1>8. EventsMeetTheirSession'
  BY <1>3, <1>4, <1>5, <1>6, SMTT(30)
  DEF IInv, MessagesMeetTheirSession, EventsMeetTheirSession, registry
<1>9. CommandsMeetTheirNode'
  <2>1. CASE type = "Closed"
    BY <1>1, <1>5, <2>1, SMTT(30) DEF IInv, MessagesMeetTheirSession, CommandsMeetTheirNode, Live
  <2>2. CASE type = "Ready"
    <3>1. \A k \in DOMAIN workers[w].inbox : workers[w].inbox[k].peer = None
      BY <1>1, <2>2 DEF IInv, MessagesMeetTheirSession, CommandsMeetTheirNode, Named
    <3>2. workers[w].inbox \in Seq(Messages)
      BY <1>1, SMTT(30) DEF Worker
    <3>3. \A k \in DOMAIN workers[w].inbox : workers[w].inbox[k].peer \in Node
      <4>1. \A k \in DOMAIN workers[w].inbox : workers[w].inbox[k] \in Messages
        BY <3>2, SMTT(30)
      <4> QED
        BY <4>1 DEF Messages
    <3>4. DOMAIN workers[w].inbox = {}
      BY <3>1, <3>3, NamesAssumption, SMTT(30)
    <3> QED
      BY <1>1, <1>5, <2>2, <3>4, SMTT(30)
      DEF IInv, MessagesMeetTheirSession, CommandsMeetTheirNode, Live
  <2> QED
    BY <2>1, <2>2, SMTT(30)
<1>10. Owners'
  <2>1. type = "Ready" => sessions[workers[w].slot].node = None
    BY <1>4, <1>6, SMTT(30) DEF IInv, Owners
  <2>2. ASSUME NEW i \in Occupied
        PROVE  /\ sessions[i].worker \in DOMAIN workers'
               /\ workers'[sessions[i].worker].slot = i
               /\ sessions[i].node # None =>
                    /\ workers'[sessions[i].worker].phase # "setup"
                    /\ workers'[sessions[i].worker].node = sessions[i].node
    <3>1. CASE sessions[i].worker # w
      BY <1>1, <3>1, SMTT(30) DEF IInv, Owners
    <3>2. CASE sessions[i].worker = w
      BY <1>1, <2>1, <3>2, SMTT(30) DEF IInv, Owners
    <3> QED
      BY <3>1, <3>2, SMTT(30)
  <2>3. \A v \in Live' : workers'[v].slot \in Occupied /\ sessions[workers'[v].slot].worker = v
    BY <1>1, <1>5, SMTT(30) DEF IInv, Owners, Live
  <2>4. sessions' = sessions
    BY DEF registry
  <2> QED
    BY <1>5, <2>2, <2>3, <2>4, SMTT(30) DEF Owners
<1>11. Named'
  BY <1>1, SMTT(30) DEF IInv, Named
<1>12. Reports'
  <2>1. type = "Ready" => \A k \in DOMAIN session_events : session_events[k].worker # w
    BY DEF IInv, Reports
  <2>2. \A k \in DOMAIN session_events :
            session_events[k].worker = w => session_events[k].type = "Ready"
    <3> TAKE k \in DOMAIN session_events
    <3>1. session_events[k] \in SessionEvent
      BY SMTT(30) DEF IInv, TypeOK
    <3>2. session_events[k].type \in {"Ready", "Closed"}
      BY <3>1, SMTT(30) DEF SessionEvent
    <3> QED
      BY <1>1, <3>2, SMTT(30) DEF IInv, Reports
  <2>3. type = "Ready" => sessions[workers[w].slot].node = None
    BY <1>4, <1>6, SMTT(30) DEF IInv, Owners
  <2>4. sessions' = sessions
    BY DEF registry
  <2>5. ASSUME NEW k \in DOMAIN session_events
        PROVE  LET e == session_events[k]
               IN  /\ e.worker \in DOMAIN workers'
                   /\ workers'[e.worker].phase # "setup"
                   /\ workers'[e.worker].node = e.node
                   /\ e.type = "Ready" => e.node # None /\ sessions[e.slot].node = None
                   /\ e.type = "Closed" => workers'[e.worker].phase = "ended"
                   /\ \A j \in DOMAIN session_events' :
                        j > k /\ session_events'[j].worker = e.worker =>
                            e.type = "Ready" /\ session_events'[j].type = "Closed"
    <3>1. CASE session_events[k].worker # w
      BY <1>1, <1>3, <1>4, <3>1, SMTT(30) DEF IInv, Reports
    <3>2. CASE session_events[k].worker = w
      <4>1. type = "Closed" /\ session_events[k].type = "Ready"
        BY <2>1, <2>2, <3>2, SMTT(30)
      <4>2. /\ workers'[w] = r /\ r.phase = "ended" /\ r.node = workers[w].node
            /\ w \in DOMAIN workers'
        BY <1>1, <4>1, SMTT(30)
      <4>3. /\ workers[w].node = session_events[k].node
            /\ session_events[k].node # None /\ sessions[session_events[k].slot].node = None
        BY <3>2, <4>1, SMTT(30) DEF IInv, Reports
      <4>4. ASSUME NEW j \in DOMAIN session_events', j > k,
                   session_events'[j].worker = w
            PROVE  session_events'[j].type = "Closed"
        <5>1. CASE j = last
          BY <1>3, <1>4, <4>1, <5>1, SMTT(30)
        <5>2. CASE j # last
          <6>1. j \in DOMAIN session_events /\ session_events'[j] = session_events[j]
            BY <1>3, <5>2, SMTT(30)
          <6> QED
            BY <3>2, <4>4, <6>1, SMTT(30) DEF IInv, Reports
        <5> QED
          BY <5>1, <5>2, SMTT(30)
      <4> QED
        BY <3>2, <4>1, <4>2, <4>3, <4>4, SMTT(30)
    <3> QED
      BY <3>1, <3>2, SMTT(30)
  <2>6. /\ event.worker \in DOMAIN workers'
        /\ workers'[event.worker].phase # "setup"
        /\ workers'[event.worker].node = event.node
        /\ event.type = "Ready" => event.node # None /\ sessions[event.slot].node = None
        /\ event.type = "Closed" => workers'[event.worker].phase = "ended"
        /\ \A j \in DOMAIN session_events' : ~ (j > last)
    BY <1>1, <1>3, <1>4, <2>3, SMTT(30)
  <2> QED
    BY <1>3, <2>4, <2>5, <2>6, SMTT(30) DEF Reports
<1> QED
  BY <1>1, <1>3, <1>7, <1>8, <1>9, <1>10, <1>11, <1>12, SMTT(30)
    DEF Related, MessagesMeetTheirSession

\* Steps that touch neither the registry nor a worker nor its reports.
LEMMA RelatedUnchanged ==
    ASSUME IInv, UNCHANGED <<registry, session_commands, workers, session_events>>
    PROVE  Related'
  BY SMTT(30) DEF IInv, Related, RegistryConsistent, MessagesMeetTheirSession, EventsMeetTheirSession,
         CommandsMeetTheirNode, Owners, Named, Reports, Occupied, Slots, Live, registry

\* What a live worker is, and what of TypeOK its steps leave alone.
LEMMA LiveWorker ==
    ASSUME IInv, NEW w \in Live
    PROVE  /\ w \in DOMAIN workers /\ workers[w] \in Worker
           /\ workers[w].phase # "ended" /\ workers[w].inbox \in Seq(Messages)
           /\ \A k \in DOMAIN workers[w].inbox : workers[w].inbox[k].peer = workers[w].node
           /\ workers[w].phase # "setup" => workers[w].node \in Node
<1>1. w \in DOMAIN workers /\ workers[w] \in Worker /\ workers[w].phase # "ended"
  BY DEF IInv, TypeOK, Live
<1> QED
  BY <1>1, SMTT(30) DEF IInv, MessagesMeetTheirSession, CommandsMeetTheirNode, Named, Worker

\* The manager's steps.
LEMMA ManagerStep ==
    ASSUME IInv,
           \/ Accept
           \/ \E connects \in BOOLEAN : BootstrapOnce(connects)
           \/ HandleSessionEvent
           \/ HandleCommand
    PROVE  IInv'
<1>1. CASE Accept
  <2>1. Spawn(None) /\ UNCHANGED <<cursor, session_events, events, commands, known>>
    BY <1>1, SMTT(30) DEF Accept
  <2> QED
    BY <2>1, SpawnStep, Zenon DEF IInv, TypeOK, Related
<1>2. ASSUME NEW connects \in BOOLEAN, BootstrapOnce(connects)
      PROVE  IInv'
  <2> DEFINE address == Bootstrap[cursor + 1]
  <2>1. /\ Bootstrap # <<>> /\ cursor' = (cursor + 1) % Len(Bootstrap)
        /\ UNCHANGED <<session_events, events, commands, known>>
    BY <1>2 DEF BootstrapOnce
  <2>2. Len(Bootstrap) \in Nat \ {0} /\ DOMAIN Bootstrap = 1 .. Len(Bootstrap)
    BY <2>1, NamesAssumption, LenProperties, EmptySeq, SMTT(30)
  <2>3. cursor + 1 \in DOMAIN Bootstrap
    BY <2>2 DEF IInv, TypeOK
  <2>4. address \in Range(Bootstrap)
    BY <2>3 DEF Range
  <2>5. cursor' \in Nat /\ (cursor' # 0 => cursor' < Len(Bootstrap))
    <3>1. cursor + 1 \in Nat
      BY SMTT(30) DEF IInv, TypeOK
    <3> QED
      BY <2>1, <2>2, <3>1
  <2>6. CASE Spawn(address)
    <3> HIDE DEF address
    <3> QED
      BY <2>1, <2>4, <2>5, <2>6, SpawnStep, SMTT(30) DEF IInv, TypeOK, Related
  <2>7. CASE UNCHANGED <<running, registry, session_commands, workers>>
    BY <2>1, <2>5, <2>7, RelatedUnchanged, SMTT(30) DEF IInv, TypeOK, Related, registry
  <2> QED
    BY <1>2, <2>6, <2>7, SMTT(30) DEF BootstrapOnce
<1>3. CASE HandleSessionEvent
  <2>1. /\ session_events # <<>> /\ session_events' = Tail(session_events)
        /\ UNCHANGED <<cursor, workers, commands, known>>
    BY <1>3 DEF HandleSessionEvent
  <2>2. session_events' \in Seq(SessionEvent)
    BY <2>1, FirstEvent, SMTT(30)
  <2>3. /\ Related'
        /\ sessions' \in Seq(Session \cup {None}) /\ Len(sessions') = Len(sessions)
        /\ DOMAIN by_node_peer' \subseteq Node
        /\ events' \in Seq(Messages)
    BY <1>3, <2>1, ReadyStep, ClosedStep, SMTT(30) DEF HandleSessionEvent
  <2> QED
    BY <2>1, <2>2, <2>3, SMTT(30) DEF IInv, TypeOK, Related
<1>4. CASE HandleCommand
  <2> DEFINE command == Head(commands)
             i == by_node_peer[command.peer]
             w == session_commands[i]
  <2>1. /\ commands # <<>> /\ commands' = Tail(commands)
        /\ UNCHANGED <<registry, session_commands, cursor, session_events, events, known>>
    BY <1>4 DEF HandleCommand
  <2>2. command \in Messages /\ commands' \in Seq(Messages)
    BY <2>1, HeadTailProperties, SMTT(30) DEF IInv, TypeOK
  <2>3. CASE UNCHANGED workers
    BY <2>1, <2>2, <2>3, RelatedUnchanged, SMTT(30) DEF IInv, TypeOK, Related, registry
  <2>4. CASE /\ command.peer \in DOMAIN by_node_peer
             /\ w \in Live
             /\ workers' = [workers EXCEPT ![w].inbox = Append(@, command)]
    <3> DEFINE r == [workers[w] EXCEPT !.inbox = Append(@, command)]
    <3> HIDE DEF command, i, w
    <3>1. /\ w \in DOMAIN workers /\ workers[w] \in Worker /\ workers[w].inbox \in Seq(Messages)
          /\ \A k \in DOMAIN workers[w].inbox : workers[w].inbox[k].peer = workers[w].node
      BY <2>4, LiveWorker, Zenon
    <3>2. command.peer = workers[w].node
      <4>1. i \in Occupied /\ sessions[i].node = command.peer /\ w = sessions[i].worker
        BY <2>4 DEF IInv, RegistryConsistent, i, w
      <4>2. command.peer # None
        BY <2>2, NamesAssumption, SMTT(30) DEF Messages
      <4> QED
        BY <4>1, <4>2, SMTT(30) DEF IInv, Owners
    <3>3. Append(workers[w].inbox, command) \in Seq(Messages)
      BY <2>2, <3>1, AppendProperties
    <3>4. /\ r \in Worker /\ workers' = [workers EXCEPT ![w] = r]
          /\ r.slot = workers[w].slot /\ r.node = workers[w].node /\ r.phase = workers[w].phase
          /\ r.inbox = Append(workers[w].inbox, command)
      BY <2>4, <3>1, <3>3, Zenon DEF Worker
    <3>5. \A k \in DOMAIN r.inbox : r.inbox[k].peer = r.node
      BY <2>2, <3>1, <3>2, <3>4, AppendProperties, LenProperties, SMTT(30)
    <3> HIDE DEF r
    <3>6. workers' \in Seq(Worker) /\ Related'
      BY <2>1, <3>1, <3>4, <3>5, WorkerMoves, Zenon
    <3> QED
      BY <2>1, <2>2, <3>6, SMTT(30) DEF IInv, TypeOK, Related, registry
  <2> QED
    BY <1>4, <2>3, <2>4, Zenon DEF HandleCommand, SendTo
<1> QED
  BY <1>1, <1>2, <1>3, <1>4, SMTT(30)

\* The steps of a session's worker.
LEMMA WorkerStep ==
    ASSUME IInv, NEW w \in Live,
           \/ \E n \in Node : SetUp(w, n)
           \/ End(w)
           \/ \E type \in {"SyncRequest", "Announce"} : Receive(w, type)
           \/ TakeCommand(w)
           \/ Answered(w)
           \/ WaitForSyncResponse(w)
    PROVE  IInv'
<1>1. /\ w \in DOMAIN workers /\ workers[w] \in Worker
      /\ workers[w].phase # "ended" /\ workers[w].inbox \in Seq(Messages)
      /\ \A k \in DOMAIN workers[w].inbox : workers[w].inbox[k].peer = workers[w].node
      /\ workers[w].phase # "setup" => workers[w].node \in Node
  BY LiveWorker, SMTT(30)
<1>2. ASSUME NEW n \in Node, SetUp(w, n)
      PROVE  IInv'
  <2> DEFINE r == [workers[w] EXCEPT !.phase = "idle", !.node = n]
  <2>1. /\ r \in Worker /\ workers' = [workers EXCEPT ![w] = r]
        /\ r.slot = workers[w].slot /\ r.node = n /\ r.node # None /\ r.phase = "idle"
        /\ r.inbox = workers[w].inbox /\ workers[w].phase = "setup"
    BY <1>1, <1>2, NamesAssumption, Zenon DEF SetUp, Worker
  <2>2. /\ Report(w, "Ready", n)
        /\ UNCHANGED <<registry, session_commands, cursor, events, commands, known>>
    BY <1>2 DEF SetUp
  <2> HIDE DEF r
  <2>3. workers' \in Seq(Worker) /\ session_events' \in Seq(SessionEvent) /\ Related'
    BY <2>1, <2>2, ReportStep, Zenon
  <2> QED
    BY <2>2, <2>3, SMTT(30) DEF IInv, TypeOK, Related, registry
<1>3. ASSUME End(w)
      PROVE  IInv'
  <2> DEFINE r == [workers[w] EXCEPT !.phase = "ended", !.inbox = <<>>, !.early = FALSE]
  <2>1. /\ r \in Worker /\ workers' = [workers EXCEPT ![w] = r]
        /\ r.slot = workers[w].slot /\ r.node = workers[w].node /\ r.phase = "ended"
    <3>1. <<>> \in Seq(Messages)
      BY EmptySeq
    <3>2. r \in Worker /\ r.slot = workers[w].slot /\ r.node = workers[w].node
          /\ r.phase = "ended"
      BY <1>1, <3>1, Zenon DEF Worker
    <3>3. workers' = [workers EXCEPT ![w] = r]
      BY <1>1, <1>3, Zenon DEF End, Worker
    <3> QED
      BY <3>2, <3>3
  <2>2. /\ Report(w, "Closed", workers[w].node)
        /\ UNCHANGED <<registry, session_commands, cursor, events, commands, known>>
    BY <1>3 DEF End
  <2> HIDE DEF r
  <2>3. workers' \in Seq(Worker) /\ session_events' \in Seq(SessionEvent) /\ Related'
    BY <2>1, <2>2, ReportStep, Zenon
  <2> QED
    BY <2>2, <2>3 DEF IInv, TypeOK, Related, registry
<1>4. ASSUME NEW r \in Worker, workers' = [workers EXCEPT ![w] = r],
             r.slot = workers[w].slot, r.node = workers[w].node,
             r.phase \notin {"setup", "ended"}, workers[w].phase # "setup",
             \A k \in DOMAIN r.inbox : r.inbox[k].peer = r.node,
             UNCHANGED <<registry, session_commands, cursor, session_events, commands, known>>,
             events' \in Seq(Messages)
      PROVE  IInv'
  <2>1. workers' \in Seq(Worker) /\ Related'
    BY <1>1, <1>4, WorkerMoves, Zenon
  <2> QED
    BY <1>4, <2>1, Zenon DEF IInv, TypeOK, Related, registry
<1>5. ASSUME NEW type \in {"SyncRequest", "Announce"}, Receive(w, type)
      PROVE  IInv'
  <2> DEFINE r == [workers[w] EXCEPT
                    !.phase = IF type = "SyncRequest" THEN "serving" ELSE "idle",
                    !.early = type = "SyncRequest" /\ sessions[workers[w].slot].node = None]
  <2>1. /\ r \in Worker /\ workers' = [workers EXCEPT ![w] = r]
        /\ r.slot = workers[w].slot /\ r.node = workers[w].node /\ r.inbox = workers[w].inbox
        /\ r.phase \notin {"setup", "ended"} /\ workers[w].phase = "idle"
    BY <1>1, <1>5, Zenon DEF Receive, Worker
  <2>2. /\ UNCHANGED <<registry, session_commands, cursor, session_events, commands, known>>
        /\ events' = Append(events, Message(type, workers[w].node))
    BY <1>5 DEF Receive
  <2>3. Message(type, workers[w].node) \in Messages
    BY <1>1, <2>1, SMTT(30) DEF Message, Messages
  <2>4. events' \in Seq(Messages)
    BY <2>2, <2>3, AppendProperties, Zenon DEF IInv, TypeOK
  <2> HIDE DEF r
  <2> QED
    BY <1>1, <1>4, <2>1, <2>2, <2>4, Zenon
<1>6. ASSUME TakeCommand(w), ~ End(w)
      PROVE  IInv'
  <2> DEFINE type == Head(workers[w].inbox).type
             r == [workers[w] EXCEPT
                    !.phase = IF type = "Announce" THEN "announcing" ELSE "asking",
                    !.inbox = Tail(@)]
  <2>1. workers[w].phase = "idle" /\ workers[w].inbox # <<>>
    BY <1>6, SMTT(30) DEF TakeCommand
  <2>2. /\ Tail(workers[w].inbox) \in Seq(Messages)
        /\ \A k \in DOMAIN Tail(workers[w].inbox) :
            Tail(workers[w].inbox)[k].peer = workers[w].node
    BY <1>1, <2>1, HeadTailProperties, LenProperties, SMTT(30)
  <2>3. /\ workers' = [workers EXCEPT ![w] = r]
        /\ UNCHANGED <<registry, session_commands, cursor, session_events, events, commands, known>>
    BY <1>1, <1>6 DEF TakeCommand, Worker
  <2>4. /\ r \in Worker
        /\ r.slot = workers[w].slot /\ r.node = workers[w].node
        /\ r.inbox = Tail(workers[w].inbox) /\ r.phase \notin {"setup", "ended"}
    BY <1>1, <2>2, Zenon DEF Worker
  <2>5. events' \in Seq(Messages)
    BY <2>3 DEF IInv, TypeOK
  <2> HIDE DEF r
  <2> QED
    BY <1>4, <2>1, <2>2, <2>3, <2>4, <2>5, Zenon
<1>7. ASSUME Answered(w)
      PROVE  IInv'
  <2> DEFINE r == [workers[w] EXCEPT !.phase = "idle"]
             type == IF workers[w].phase = "asking" THEN "SyncResponse" ELSE "AnnounceResponse"
  <2>1. /\ r \in Worker /\ workers' = [workers EXCEPT ![w] = r]
        /\ r.slot = workers[w].slot /\ r.node = workers[w].node /\ r.inbox = workers[w].inbox
        /\ r.phase \notin {"setup", "ended"} /\ workers[w].phase # "setup"
    BY <1>1, <1>7, SMTT(30) DEF Answered, SetPhase, Worker
  <2>2. /\ UNCHANGED <<registry, session_commands, cursor, session_events, commands, known>>
        /\ events' = Append(events, Message(type, workers[w].node))
    BY <1>7, Zenon DEF Answered
  <2>3. Message(type, workers[w].node) \in Messages
    BY <1>1, <2>1, SMTT(30) DEF Message, Messages
  <2>4. events' \in Seq(Messages)
    BY <2>2, <2>3, AppendProperties, Zenon DEF IInv, TypeOK
  <2> HIDE DEF r
  <2> QED
    BY <1>1, <1>4, <2>1, <2>2, <2>4, Zenon
<1>8. ASSUME WaitForSyncResponse(w)
      PROVE  IInv'
  <2> DEFINE inbox == workers[w].inbox
             answers == {i \in DOMAIN inbox : inbox[i].type = "SyncResponse"}
             rest == Without(inbox, Min(answers))
             r == [workers[w] EXCEPT !.phase = "idle", !.early = FALSE, !.inbox = rest]
             own == {c \in Messages : c.peer = workers[w].node}
  <2>1. answers # {} /\ workers[w].phase = "serving"
    BY <1>8, SMTT(30) DEF WaitForSyncResponse
  <2>2. Len(inbox) \in Nat /\ DOMAIN inbox = 1 .. Len(inbox)
        /\ \A k \in 1 .. Len(inbox) : inbox[k] \in Messages
    BY <1>1, LenProperties
  <2>3. Min(answers) \in 1 .. Len(inbox)
    <3>1. answers \in SUBSET Nat /\ answers \subseteq 1 .. Len(inbox)
      BY <2>2, SMTT(30)
    <3> HIDE DEF answers
    <3>2. Min(answers) \in answers
      BY <2>1, <3>1, MinInSet, SMTT(30)
    <3> QED
      BY <3>1, <3>2, Zenon
  <2>4. inbox \in Seq(own)
    <3>1. inbox \in [1 .. Len(inbox) -> own]
      BY <1>1, <2>2, SMTT(30)
    <3> QED
      BY <2>2, <3>1, SeqDef, SMTT(30)
  <2>5. rest \in Seq(own)
    BY <2>3, <2>4, WithoutElements, SMTT(30)
  <2>6. rest \in Seq(Messages) /\ \A k \in DOMAIN rest : rest[k].peer = workers[w].node
    <3> HIDE DEF rest
    <3>1. \A k \in DOMAIN rest : rest[k] \in own
      BY <2>5
    <3>2. rest \in Seq(Messages)
      BY <2>5, SeqMonotonic
    <3> QED
      BY <3>1, <3>2, SMTT(30)
  <2>7. /\ workers' = [workers EXCEPT ![w] = r]
        /\ UNCHANGED <<registry, session_commands, cursor, session_events, events, commands, known>>
    BY <1>1, <1>8, Zenon DEF WaitForSyncResponse, Worker
  <2> HIDE DEF rest
  <2>8. /\ r \in Worker
        /\ r.slot = workers[w].slot /\ r.node = workers[w].node
        /\ r.inbox = rest /\ r.phase \notin {"setup", "ended"}
    BY <1>1, <2>6, Zenon DEF Worker
  <2>9. events' \in Seq(Messages)
    BY <2>7, SMTT(30) DEF IInv, TypeOK
  <2> HIDE DEF r
  <2> QED
    BY <1>4, <2>1, <2>6, <2>7, <2>8, <2>9, Zenon
<1> QED
  BY <1>2, <1>3, <1>5, <1>6, <1>7, <1>8, SMTT(30)

\* The step of the node task: what it does with an event are its own commands.
LEMMA NodeStep ==
    ASSUME IInv, NEW more \in BOOLEAN, HandleEvent(more)
    PROVE  IInv'
<1> DEFINE type == Head(events).type
           n == Head(events).peer
           others == known \ {n}
           response == Response(type, n, more \/ type = "PeerConnected")
<1>1. /\ events # <<>> /\ events' = Tail(events)
      /\ commands' = commands \o response
      /\ known' = CASE type = "PeerConnected" -> known \cup {n}
                    [] type = "PeerDisconnected" -> known \ {n}
                    [] OTHER -> known
      /\ UNCHANGED <<registry, session_commands, cursor, workers, session_events>>
  BY DEF HandleEvent
<1>2. n \in Node /\ events' \in Seq(Messages)
  <2>1. Head(events) \in Messages /\ events' \in Seq(Messages)
    BY <1>1, HeadTailProperties DEF IInv, TypeOK
  <2> QED
    BY <2>1 DEF Messages
<1>3. known' \subseteq Node /\ IsFiniteSet(known')
  <2>1. IsFiniteSet(known) /\ known \subseteq Node
    BY DEF IInv, TypeOK
  <2>2. IsFiniteSet(known \cup {n}) /\ IsFiniteSet(known \ {n})
    BY <2>1, FS_AddElement, FS_RemoveElement
  <2> HIDE DEF type, n
  <2>3. known' \in {known, known \cup {n}, known \ {n}}
    BY <1>1
  <2> QED
    BY <1>2, <2>1, <2>2, <2>3, Zenon
<1>4. response \in Seq(Messages)
  <2>1. /\ Message("SyncRequest", n) \in Messages /\ Message("SyncResponse", n) \in Messages
    BY <1>2 DEF Message, Messages
  <2>2. [i \in 1 .. Cardinality(others) |-> Message("Announce", InOrder(others)[i])]
            \in Seq(Messages)
    <3>1. IsFiniteSet(others) /\ others \subseteq Node
      BY FS_RemoveElement, Zenon DEF IInv, TypeOK
    <3> HIDE DEF others
    <3>2. Cardinality(others) \in Nat /\ InOrder(others) \in [1 .. Cardinality(others) -> others]
      BY <3>1, InOrderElements, SMTT(30)
    <3>3. [i \in 1 .. Cardinality(others) |-> Message("Announce", InOrder(others)[i])]
            \in [1 .. Cardinality(others) -> Messages]
      BY <3>1, <3>2 DEF Message, Messages
    <3> QED
      BY <3>2, <3>3, SeqDef
  <2>3. <<>> \in Seq(Messages)
    BY EmptySeq
  <2> QED
    BY <2>1, <2>2, <2>3, SMTT(30) DEF Response
<1>5. commands' \in Seq(Messages)
  <2> HIDE DEF response
  <2> QED
    BY <1>1, <1>4, ConcatProperties DEF IInv, TypeOK
<1> QED
  BY <1>1, <1>2, <1>3, <1>5, RelatedUnchanged, SMTT(30) DEF IInv, TypeOK, Related, registry

\* Every step of the network preserves the inductive invariant, which holds at
\* its start.
LEMMA Invariance == Spec => []IInv
<1>1. Init => IInv
  <2> SUFFICES ASSUME Init PROVE IInv
    OBVIOUS
  <2>1. TypeOK
    BY FS_EmptySet, EmptySeq, LimitsAssumption, SMTT(30) DEF Init, TypeOK, EmptyMap
  <2>2. Occupied = {} /\ DOMAIN workers = {} /\ DOMAIN session_events = {} /\ Live = {}
    BY DEF Init, Occupied, Slots, Live
  <2> QED
    BY <2>1, <2>2 DEF Init, IInv, RegistryConsistent, MessagesMeetTheirSession,
                      EventsMeetTheirSession, CommandsMeetTheirNode, Owners, Named, Reports, EmptyMap
<1>2. IInv /\ [Next]_vars => IInv'
  <2> SUFFICES ASSUME IInv, [Next]_vars PROVE IInv'
    OBVIOUS
  <2>1. CASE UNCHANGED vars
    BY <2>1, RelatedUnchanged, SMTT(30) DEF vars, registry, IInv, TypeOK, Related
  <2>2. CASE Next
    BY <2>2, ManagerStep, WorkerStep, NodeStep DEF Next
  <2> QED
    BY <2>1, <2>2
<1> QED
  BY <1>1, <1>2, PTL DEF Spec

\* Slots, workers and queues always hold what their types say, and there are
\* never more slots than config.max_peers.
THEOREM TypeCorrect == Spec => []TypeOK
<1>1. IInv => TypeOK
  BY DEF IInv
<1> QED
  BY <1>1, Invariance, PTL

\* The registry's index, its slots and the senders of commands agree at all
\* times, however sessions come, become ready and end (peer_registry.rs).
THEOREM RegistryStaysConsistent == Spec => []RegistryConsistent
<1>1. IInv => RegistryConsistent
  BY DEF IInv
<1> QED
  BY <1>1, Invariance, PTL

\* No event is ever taken for the next session in its slot, and no command
\* reaches a session of another node (handle_session_event, send_frame_to_peer).
THEOREM MessagesAlwaysMeet == Spec => []MessagesMeetTheirSession
<1>1. IInv => MessagesMeetTheirSession
  BY DEF IInv
<1> QED
  BY <1>1, Invariance, PTL
=============================================================================
