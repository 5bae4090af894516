----------------------------- MODULE NodeProofs -----------------------------
(***************************************************************************)
(* Proofs about Node, for any finite number of connections, any peers and  *)
(* any limits: the types together with the exactness of the connection     *)
(* counter, that the routing table lists no ghosts, and that peers.json is *)
(* the table whenever no task is between its update and its write, added   *)
(* peers and panics apart.                                                 *)
(***************************************************************************)
EXTENDS Node, FiniteSetTheorems, TLAPS

\* The connections the counter stands for.
InHandshake == {c \in Conn : phase[c] \in Charged}

\* The types and the counter are inductive only together: the counter is
\* decremented, and stays a natural number because it is exact.
CounterInv == TypeOK /\ CounterExact

\* The steps that move a connection keep the other connections where they are.
LEMMA GotoType ==
  ASSUME TypeOK, NEW c \in Conn, NEW l \in Phases, Goto(c, l)
  PROVE  /\ phase' \in [Conn -> Phases]
         /\ phase'[c] = l
         /\ \A d \in Conn : d # c => phase'[d] = phase[d]
  BY DEF Goto, TypeOK

\* A connection that starts its handshake adds one to the exact count.
LEMMA CountUp ==
  ASSUME IsFiniteSet(Conn), CounterInv, NEW c \in Conn, NEW l \in Charged,
         phase[c] \notin Charged, Goto(c, l), active_connections' = active_connections + 1
  PROVE  CounterExact' /\ active_connections' \in Nat
  <1>1. InHandshake' = InHandshake \cup {c}
    BY GotoType DEF InHandshake, Charged, Phases, CounterInv
  <1>2. IsFiniteSet(InHandshake)
    BY FS_Subset DEF InHandshake
  <1>3. Cardinality(InHandshake \cup {c}) = Cardinality(InHandshake) + 1
    BY <1>2, FS_AddElement DEF InHandshake
  <1>4. active_connections = Cardinality(InHandshake)
    BY DEF CounterInv, CounterExact, InHandshake
  <1>5. active_connections' = Cardinality(InHandshake')
    BY <1>1, <1>3, <1>4
  <1> QED
    BY <1>5 DEF CounterExact, InHandshake, CounterInv, TypeOK

\* A connection that leaves its handshake takes one away, and there is one to
\* take away.
LEMMA CountDown ==
  ASSUME IsFiniteSet(Conn), CounterInv, NEW c \in Conn, NEW l \in Phases \ Charged,
         phase[c] \in Charged, Goto(c, l), active_connections' = active_connections - 1
  PROVE  CounterExact' /\ active_connections' \in Nat
  <1>1. InHandshake' = InHandshake \ {c}
    BY GotoType DEF InHandshake, CounterInv
  <1>2. IsFiniteSet(InHandshake)
    BY FS_Subset DEF InHandshake
  <1>3. Cardinality(InHandshake \ {c}) = Cardinality(InHandshake) - 1
    BY <1>2, FS_RemoveElement DEF InHandshake
  <1>4. active_connections = Cardinality(InHandshake)
    BY DEF CounterInv, CounterExact, InHandshake
  <1>5. active_connections' = Cardinality(InHandshake')
    BY <1>1, <1>3, <1>4
  <1>6. Cardinality(InHandshake \ {c}) \in Nat
    BY <1>2, FS_RemoveElement, FS_CardinalityType
  <1> QED
    BY <1>1, <1>5, <1>6 DEF CounterExact, InHandshake

\* A step that moves no connection into or out of the handshake and leaves the
\* counter alone keeps it exact.
LEMMA CountSame ==
  ASSUME CounterInv, active_connections' = active_connections,
         \A c \in Conn : (phase'[c] \in Charged) <=> (phase[c] \in Charged)
  PROVE  CounterExact'
  <1>1. InHandshake' = InHandshake
    BY DEF InHandshake
  <1> QED
    BY <1>1 DEF CounterInv, CounterExact, InHandshake

\* A move of one connection between two phases on the same side of the counter.
LEMMA CountMove ==
  ASSUME CounterInv, active_connections' = active_connections,
         NEW c \in Conn, NEW l \in Phases, Goto(c, l),
         (l \in Charged) <=> (phase[c] \in Charged)
  PROVE  CounterExact'
  <1>1. \A d \in Conn : (phase'[d] \in Charged) <=> (phase[d] \in Charged)
    BY GotoType DEF CounterInv
  <1> QED
    BY <1>1, CountSame

\* An age stays an age when it gets older.
LEMMA OlderType ==
  ASSUME NEW n \in Ages
  PROVE  Older(n) \in Ages
  BY LimitAssumption DEF Ages, Older

\* Every step of a connection's tasks keeps the types and the counter.
LEMMA CounterConn ==
  ASSUME IsFiniteSet(Conn), CounterInv, NEW c \in Conn, ConnStep(c)
  PROVE  CounterInv'
  <1> TypeOK /\ CounterExact
    BY DEF CounterInv
  <1> USE DEF File, Table, Server
  <1>0. PeerOf[c] \in Peer /\ 0 \in Ages
    BY ConnAssumption, LimitAssumption DEF Ages
  <1>1. CASE Accept(c)
    <2>1. PICK l \in {"closed", "spawned"} : Goto(c, l)
      BY <1>1 DEF Accept
    <2>2. l \in Phases \ Charged /\ phase[c] \notin Charged
      BY <1>1 DEF Phases, Charged, Counted, Looping, Accept
    <2>3. CounterExact'
      BY <1>1, <2>1, <2>2, CountMove DEF Accept
    <2>4. TypeOK'
      BY <1>1, <2>1, <2>2, GotoType DEF Accept, TypeOK
    <2> QED
      BY <2>3, <2>4 DEF CounterInv
  <1>2. CASE TaskStart(c)
    <2>1. "handshake" \in Charged /\ "handshake" \in Phases /\ phase[c] \notin Charged
      BY <1>2 DEF Charged, Counted, Phases, TaskStart
    <2>2. CounterExact' /\ active_connections' \in Nat
      BY <1>2, <2>1, CountUp DEF TaskStart
    <2>3. TypeOK'
      BY <1>2, <2>1, <2>2, GotoType DEF TaskStart, TypeOK
    <2> QED
      BY <2>2, <2>3 DEF CounterInv
  <1>3. CASE HandshakeFail(c)
    <2>1. "closed" \in Phases \ Charged /\ phase[c] \in Charged
      BY <1>3 DEF Charged, Counted, Phases, HandshakeFail
    <2>2. CounterExact' /\ active_connections' \in Nat
      BY <1>3, <2>1, CountDown DEF HandshakeFail
    <2>3. TypeOK'
      BY <1>3, <2>1, <2>2, GotoType DEF HandshakeFail, TypeOK
    <2> QED
      BY <2>2, <2>3 DEF CounterInv
  <1>4. CASE HandshakeAck(c)
    <2>1. "acked" \in Charged /\ "acked" \in Phases /\ phase[c] \in Charged
      BY <1>4 DEF Charged, Counted, Phases, HandshakeAck
    <2>2. CounterExact'
      BY <1>4, <2>1, CountMove DEF HandshakeAck
    <2>3. TypeOK'
      BY <1>0, <1>4, <2>1, GotoType DEF HandshakeAck, TypeOK
    <2> QED
      BY <2>2, <2>3 DEF CounterInv
  <1>5. CASE RouteInbound(c)
    <2>1. "routedIn" \in Charged /\ "routedIn" \in Phases /\ phase[c] \in Charged
      BY <1>5 DEF Charged, Counted, Phases, RouteInbound
    <2>2. CounterExact'
      BY <1>5, <2>1, CountMove DEF RouteInbound
    <2>3. TypeOK'
      BY <1>0, <1>5, <2>1, GotoType DEF RouteInbound, Route, TypeOK
    <2> QED
      BY <2>2, <2>3 DEF CounterInv
  <1>6. CASE EnterLoop(c)
    <2>1. "loop" \in Phases \ Charged /\ phase[c] \in Charged
      BY <1>6 DEF Charged, Counted, Looping, Phases, EnterLoop
    <2>2. CounterExact' /\ active_connections' \in Nat
      BY <1>6, <2>1, CountDown DEF EnterLoop
    <2>3. TypeOK'
      BY <1>6, <2>1, <2>2, GotoType DEF EnterLoop, WritePeersFile, TypeOK
    <2> QED
      BY <2>2, <2>3 DEF CounterInv
  <1>7. ASSUME Dial(c) \/ DialFail(c) \/ DialAck(c) \/ DialNoAck(c) \/ EnterLoopOut(c)
        PROVE  CounterInv'
    <2>1. PICK l \in {"dialing", "closed", "routedOut", "anon", "loop"} : Goto(c, l)
      BY <1>7 DEF Dial, DialFail, DialAck, DialNoAck, EnterLoopOut
    <2>2. l \in Phases \ Charged /\ phase[c] \notin Charged
      BY <1>7 DEF Phases, Charged, Counted, Looping, Dial, DialFail, DialAck, DialNoAck, EnterLoopOut
    <2>3. active_connections' = active_connections
      BY <1>7 DEF Dial, DialFail, DialAck, DialNoAck, EnterLoopOut
    <2>4. CounterExact'
      BY <2>1, <2>2, <2>3, CountMove
    <2>5. phase' \in [Conn -> Phases]
      BY <2>1, <2>2, GotoType
    <2>6. TypeOK'
      BY <1>0, <1>7, <2>5
      DEF Dial, DialFail, DialAck, DialNoAck, EnterLoopOut, Route, WritePeersFile, TypeOK
    <2> QED
      BY <2>4, <2>6 DEF CounterInv
  <1>8. ASSUME ServePanic(c) \/ TimerGoodbye(c) \/ StreamEnd(c) \/ RemovePeer(c) \/ LeaveLoop(c)
        PROVE  CounterInv'
    <2>1. PICK l \in {"crashed", "ending", "endingAnon", "unrouted", "closed"} : Goto(c, l)
      BY <1>8 DEF ServePanic, TimerGoodbye, StreamEnd, RemovePeer, LeaveLoop
    <2>2. l \in Phases \ Charged /\ phase[c] \notin Charged
      BY <1>8 DEF Phases, Charged, Counted, Looping, ServePanic, TimerGoodbye, StreamEnd, RemovePeer, LeaveLoop
    <2>3. active_connections' = active_connections
      BY <1>8 DEF ServePanic, TimerGoodbye, StreamEnd, RemovePeer, LeaveLoop
    <2>4. CounterExact'
      BY <2>1, <2>2, <2>3, CountMove
    <2>5. phase' \in [Conn -> Phases]
      BY <2>1, <2>2, GotoType
    <2>6. TypeOK'
      BY <1>0, <1>8, <2>5
      DEF ServePanic, TimerGoodbye, StreamEnd, RemovePeer, LeaveLoop, Unroute, WritePeersFile, TypeOK
    <2> QED
      BY <2>4, <2>6 DEF CounterInv
  <1>9. CASE HandshakePanic(c)
    <2>1. "leaked" \in Charged /\ "leaked" \in Phases /\ phase[c] \in Charged
      BY <1>9 DEF Charged, Counted, Phases, HandshakePanic
    <2>2. CounterExact'
      BY <1>9, <2>1, CountMove DEF HandshakePanic
    <2>3. TypeOK'
      BY <1>9, <2>1, GotoType DEF HandshakePanic, TypeOK
    <2> QED
      BY <2>2, <2>3 DEF CounterInv
  <1>10. CASE DialPanic(c)
    <2>1. "closed" \in Phases /\ "closed" \notin Charged
      BY DEF Charged, Counted, Phases
    <2>2. InHandshake' = {} /\ active_connections' = 0
      BY <1>10, <2>1 DEF InHandshake, DialPanic
    <2>3. CounterExact'
      BY <2>2, FS_EmptySet DEF CounterExact, InHandshake
    <2>4. TypeOK'
      BY <1>0, <1>10, <2>1 DEF DialPanic, TypeOK, StopStates
    <2> QED
      BY <2>3, <2>4 DEF CounterInv
  <1> QED
    BY <1>1, <1>2, <1>3, <1>4, <1>5, <1>6, <1>7, <1>8, <1>9, <1>10 DEF ConnStep

\* So does every other step.
LEMMA CounterStep ==
  ASSUME IsFiniteSet(Conn), CounterInv, [Next]_vars
  PROVE  CounterInv'
  <1> TypeOK /\ CounterExact
    BY DEF CounterInv
  <1> USE DEF File, Table, Server
  <1>1. ASSUME NEW c \in Conn, ConnStep(c) PROVE CounterInv'
    BY <1>1, CounterConn
  <1>2. ASSUME Prune \/ PruneWrite \/ StopStep \/ AddPeer PROVE CounterInv'
    <2>1. phase' = phase /\ active_connections' = active_connections
      BY <1>2
      DEF Prune, PruneWrite, StopStep, StopCount, StopSignal, StopWaited, StopClose,
          AddPeer
    <2>2. CounterExact'
      BY <2>1, CountSame
    <2>3. 0 \in Ages
      BY LimitAssumption DEF Ages
    <2>4. CASE Prune
      BY <2>2, <2>3, <2>4 DEF Prune, StalePeers, TypeOK, CounterInv
    <2>5. CASE PruneWrite
      BY <2>2, <2>5 DEF PruneWrite, WritePeersFile, TypeOK, CounterInv
    <2>6. CASE StopStep
      BY <2>2, <2>6
      DEF StopStep, StopCount, StopSignal, StopWaited, StopClose, StopStates, TypeOK, CounterInv
    <2>7. CASE AddPeer
      BY <2>2, <2>7 DEF AddPeer, TypeOK, CounterInv
    <2> QED
      BY <1>2, <2>4, <2>5, <2>6, <2>7
  <1>3. CASE Tick
    <2>1. CounterExact'
      BY <1>3, CountSame DEF Tick
    <2>2. age' \in [Peer -> Ages]
      BY <1>3, OlderType DEF Tick, TypeOK
    <2>3. TypeOK'
      BY <1>3, <2>2 DEF Tick, TypeOK
    <2> QED
      BY <2>1, <2>3 DEF CounterInv
  <1>4. CASE UNCHANGED vars
    <2>1. CounterExact'
      BY <1>4, CountSame DEF vars
    <2> QED
      BY <1>4, <2>1 DEF vars, TypeOK, CounterInv
  <1> QED
    BY <1>1, <1>2, <1>3, <1>4 DEF Next

\* The counter of server.rs is exactly the number of inbound handshakes under
\* way and of those that panicked before fetch_sub, and with it every variable has its type: fetch_sub never wraps around.
THEOREM CounterCorrect ==
  ASSUME IsFiniteSet(Conn)
  PROVE  Spec => [](TypeOK /\ CounterExact)
  <1>1. Init => CounterInv
    <2> SUFFICES ASSUME Init PROVE CounterInv
      OBVIOUS
    <2>1. InHandshake = {}
      BY DEF Init, InHandshake, Charged, Counted
    <2>2. CounterExact
      BY <2>1, FS_EmptySet DEF Init, CounterExact, InHandshake
    <2>3. 0 \in Ages /\ "none" \in Phases
      BY LimitAssumption DEF Ages, Phases
    <2>4. TypeOK
      BY <2>3 DEF Init, TypeOK, StopStates
    <2> QED
      BY <2>2, <2>4 DEF CounterInv
  <1>2. CounterInv /\ [Next]_vars => CounterInv'
    BY CounterStep
  <1> QED
    BY <1>1, <1>2, PTL DEF Spec, CounterInv

\* Every entry of the routing table keeps a connection that will remove it, or
\* had one whose task panicked.
LEMMA RoutedStep ==
  ASSUME TypeOK, RoutedIsConnected, [Next]_vars
  PROVE  RoutedIsConnected'
  <1> USE DEF File, Table, Server
  <1>1. ASSUME NEW c \in Conn, ConnStep(c) PROVE RoutedIsConnected'
    <2>1. ASSUME RouteInbound(c) \/ DialAck(c) PROVE RoutedIsConnected'
      <3>1. routing' = routing \cup {PeerOf[c]}
        BY <2>1 DEF RouteInbound, DialAck, Route
      <3>2. phase'[c] \in Holding /\ \A d \in Conn : d # c => phase'[d] = phase[d]
        BY <2>1 DEF RouteInbound, DialAck, Goto, Holding, TypeOK
      <3> QED
        BY <3>1, <3>2 DEF RoutedIsConnected
    <2>2. CASE RemovePeer(c)
      <3>1. \A d \in Conn : d # c => phase'[d] = phase[d]
        BY <2>2 DEF RemovePeer, Goto, TypeOK
      <3>2. CASE phase[c] = "ending"
        <4>1. routing' = routing \ {PeerOf[c]}
          BY <2>2, <3>2 DEF RemovePeer, Unroute
        <4> QED
          BY <3>1, <4>1 DEF RoutedIsConnected
      <3>3. CASE phase[c] # "ending"
        <4>1. routing' = routing /\ phase[c] \notin Holding \cup Panicked
          BY <2>2, <3>3 DEF RemovePeer, Holding, Panicked
        <4> QED
          BY <3>1, <4>1 DEF RoutedIsConnected
      <3> QED
        BY <3>2, <3>3
    <2>3. CASE DialPanic(c)
      BY <2>3 DEF DialPanic, RoutedIsConnected
    <2>4. ASSUME ~(RouteInbound(c) \/ DialAck(c) \/ RemovePeer(c) \/ DialPanic(c))
          PROVE  RoutedIsConnected'
      <3>1. routing' = routing
        BY <1>1, <2>4
        DEF ConnStep, Accept, TaskStart, HandshakeFail, HandshakeAck, EnterLoop, HandshakePanic,
            Dial, DialFail, DialNoAck, EnterLoopOut, ServePanic, TimerGoodbye, StreamEnd, LeaveLoop
      <3>2. \A d \in Conn : phase[d] \in Holding \cup Panicked
                           => phase'[d] \in Holding \cup Panicked
        BY <1>1, <2>4
        DEF ConnStep, Accept, TaskStart, HandshakeFail, HandshakeAck, EnterLoop, HandshakePanic,
            Dial, DialFail, DialNoAck, EnterLoopOut, ServePanic, TimerGoodbye, StreamEnd, LeaveLoop,
            Goto, Holding, Panicked, Looping, TypeOK
      <3> QED
        BY <3>1, <3>2 DEF RoutedIsConnected
    <2> QED
      BY <2>1, <2>2, <2>3, <2>4
  <1>2. ASSUME Prune \/ PruneWrite \/ StopStep \/ AddPeer \/ Tick \/ UNCHANGED vars
        PROVE  RoutedIsConnected'
    <2>1. phase' = phase /\ routing' \subseteq routing
      BY <1>2
      DEF Prune, PruneWrite, StopStep, StopCount, StopSignal, StopWaited, StopClose,
          AddPeer, Tick, vars
    <2> QED
      BY <2>1 DEF RoutedIsConnected
  <1> QED
    BY <1>1, <1>2 DEF Next

\* The routing table lists no ghosts of its own making: an entry exists only
\* while a connection to its peer is set up, in its loop or about to clean up,
\* or because the task of one panicked before its cleanup.
THEOREM NoGhosts ==
  ASSUME IsFiniteSet(Conn)
  PROVE  Spec => []RoutedIsConnected
  <1>1. Init => RoutedIsConnected
    BY DEF Init, RoutedIsConnected
  <1>2. TypeOK /\ RoutedIsConnected /\ [Next]_vars => RoutedIsConnected'
    BY RoutedStep
  <1>3. Spec => []TypeOK
    BY CounterCorrect, PTL
  <1> QED
    BY <1>1, <1>2, <1>3, PTL DEF Spec

\* Every step of the node keeps PeersFileFresh: a task that changes the table
\* is then between update and write, and one that writes copies the table.
LEMMA FreshStep ==
  ASSUME TypeOK, PeersFileFresh, [Next]_vars
  PROVE  PeersFileFresh'
  <1> USE DEF File, Table, Server
  <1>1. ASSUME NEW c \in Conn, ConnStep(c) PROVE PeersFileFresh'
    <2>1. ASSUME RouteInbound(c) \/ DialAck(c) \/ RemovePeer(c) PROVE PeersFileFresh'
      <3>1. phase'[c] \in MidUpdate
        BY <2>1 DEF RouteInbound, DialAck, RemovePeer, Goto, MidUpdate, TypeOK
      <3> QED
        BY <3>1 DEF PeersFileFresh, FileBusy
    <2>2. ASSUME EnterLoop(c) \/ EnterLoopOut(c) \/ LeaveLoop(c) PROVE PeersFileFresh'
      BY <2>2 DEF EnterLoop, EnterLoopOut, LeaveLoop, WritePeersFile, PeersFileFresh
    <2>3. ASSUME HandshakePanic(c) \/ DialPanic(c) PROVE PeersFileFresh'
      BY <2>3 DEF HandshakePanic, DialPanic, PeersFileFresh
    <2>4. ASSUME ~(RouteInbound(c) \/ DialAck(c) \/ RemovePeer(c)),
                 ~(EnterLoop(c) \/ EnterLoopOut(c) \/ LeaveLoop(c)),
                 ~(HandshakePanic(c) \/ DialPanic(c))
          PROVE  PeersFileFresh'
      <3>1. UNCHANGED <<routing, peers_file, meddled, prunePending>>
        BY <1>1, <2>4
        DEF ConnStep, Accept, TaskStart, HandshakeFail, HandshakeAck, Dial, DialFail,
            DialNoAck, ServePanic, TimerGoodbye, StreamEnd
      <3>2. \A d \in Conn : phase[d] \in MidUpdate => phase'[d] \in MidUpdate
        BY <1>1, <2>4
        DEF ConnStep, Accept, TaskStart, HandshakeFail, HandshakeAck, Dial, DialFail,
            DialNoAck, ServePanic, TimerGoodbye, StreamEnd, Goto, MidUpdate, Looping, TypeOK
      <3> QED
        BY <3>1, <3>2 DEF PeersFileFresh, FileBusy
    <2> QED
      BY <2>1, <2>2, <2>3, <2>4
  <1>2. CASE Prune
    BY <1>2 DEF Prune, PeersFileFresh, FileBusy
  <1>3. CASE PruneWrite
    BY <1>3 DEF PruneWrite, WritePeersFile, PeersFileFresh
  <1>4. ASSUME StopStep \/ Tick \/ UNCHANGED vars PROVE PeersFileFresh'
    <2>1. UNCHANGED <<phase, routing, peers_file, meddled, prunePending>>
      BY <1>4 DEF StopStep, StopCount, StopSignal, StopWaited, StopClose, Tick, vars
    <2> QED
      BY <2>1 DEF PeersFileFresh, FileBusy
  <1>5. CASE AddPeer
    BY <1>5 DEF AddPeer, PeersFileFresh
  <1> QED
    BY <1>1, <1>2, <1>3, <1>4, <1>5 DEF Next

\* peers.json is the routing table whenever no task is between its update of
\* the table and its call of write_peers_file, unless since the last such call
\* a peer was added to the file or a task panicked before its call.
THEOREM FileFollowsTable ==
  ASSUME IsFiniteSet(Conn)
  PROVE  Spec => []PeersFileFresh
  <1>1. Init => PeersFileFresh
    BY DEF Init, PeersFileFresh
  <1>2. TypeOK /\ PeersFileFresh /\ [Next]_vars => PeersFileFresh'
    BY FreshStep
  <1>3. Spec => []TypeOK
    BY CounterCorrect, PTL
  <1> QED
    BY <1>1, <1>2, <1>3, PTL DEF Spec

=============================================================================
