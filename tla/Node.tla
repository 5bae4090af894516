------------------------------- MODULE Node --------------------------------
(***************************************************************************)
(* A node's QUIC connections and its routing table: src/node/server.rs and *)
(* src/node/dht.rs.  Every connection is served by tasks that share the    *)
(* routing table (an RwLock), the file peers.json (written under a mutex,  *)
(* one step after the table), an atomic connection counter and the flag    *)
(* `running`.  An action is what a task does between two points at which   *)
(* another task may run.  The API's handle_add_peer rewrites peers.json    *)
(* too, without the mutex and without the table.                           *)
(*                                                                         *)
(* Time is kept as ages that saturate just above PEER_STALE_SECS, so the   *)
(* clock itself needs no bound.                                            *)
(***************************************************************************)
EXTENDS Naturals, FiniteSets

CONSTANTS
    Conn,             \* the connections of a run, each used once
    Inbound,          \* those opened by the remote side
    Peer,             \* remote node ids
    PeerOf,           \* PeerOf[c]: the node at the other end of c
    MaxConnections,   \* max_connections
    StaleSecs,        \* PEER_STALE_SECS, in ticks
    CanPanic          \* whether a ReplicatePush may panic (Store!IndexTx)

ASSUME ConnAssumption  == Inbound \subseteq Conn /\ PeerOf \in [Conn -> Peer]
ASSUME LimitAssumption ==
    MaxConnections \in Nat /\ StaleSecs \in Nat /\ CanPanic \in BOOLEAN

VARIABLES
    odd,                 \* the ids whose byte 8 is inside a character: node ids
                         \* come unchecked from the handshake, and where one is
                         \* logged &id[..8] panics
    phase,               \* where the tasks of a connection are
    routing,             \* node ids in the routing table
    age,                 \* age of the last_seen of each entry
    peers_file,          \* node ids in peers.json
    prunePending,        \* the pruning task has yet to write peers.json
    meddled,             \* history: since the last write_peers_file, or without
                         \* one, a peer was added or a task panicked between its
                         \* update of the table and its write
    active_connections,
    running,
    stop                 \* progress of Node::stop

File   == <<peers_file, meddled>>
Table  == <<routing, age>>
Server == <<active_connections, prunePending, running, stop>>
vars   == <<odd, phase, Table, File, Server>>

Ages == 0..(StaleSecs + 1)

\* Phases of an inbound connection before its message loop.
Counted == {"handshake", "acked", "routedIn"}

\* "loop" and "anon" are handle_messages with and without a peer id.
Looping == {"loop", "anon"}

Phases == {"none", "spawned", "dialing", "routedOut", "ending", "endingAnon",
           "unrouted", "closed", "crashed", "leaked"} \cup Counted \cup Looping

StopStates == {"no", "peers", "noPeers", "grace", "closing", "closed"}

TypeOK ==
    /\ odd \subseteq Peer
    /\ phase \in [Conn -> Phases]
    /\ routing \subseteq Peer
    /\ age \in [Peer -> Ages]
    /\ peers_file \subseteq Peer
    /\ meddled \in BOOLEAN
    /\ prunePending \in BOOLEAN
    /\ active_connections \in Nat
    /\ running \in BOOLEAN
    /\ stop \in StopStates

Init ==
    /\ odd \in SUBSET Peer
    /\ phase = [c \in Conn |-> "none"]
    /\ routing = {}
    /\ age = [p \in Peer |-> 0]
    /\ peers_file \in SUBSET Peer   \* left by an earlier process
    /\ meddled = TRUE
    /\ prunePending = FALSE
    /\ active_connections = 0
    /\ running = TRUE
    /\ stop = "no"

EndpointOpen == stop # "closed"

\* connect_to_peer is under way.
Dialing == \E c \in Conn : phase[c] \in {"dialing", "routedOut"}

Goto(c, label) == phase' = [phase EXCEPT ![c] = label]

\* RoutingTable::insert with last_seen = now.
Route(p) == routing' = routing \cup {p} /\ age' = [age EXCEPT ![p] = 0]

\* RoutingTable::remove.
Unroute(p) == routing' = routing \ {p} /\ age' = [age EXCEPT ![p] = 0]

\* write_peers_file: the mutex and the read lock make it one step for all who
\* call it.
WritePeersFile == peers_file' = routing /\ meddled' = FALSE

\* A connection whose task has changed the table and not yet written the file.
MidUpdate == {"routedIn", "routedOut", "unrouted"}

\* Some task may be in the middle of write_peers_file.
FileBusy == prunePending \/ \E c \in Conn : phase[c] \in MidUpdate

-----------------------------------------------------------------------------
(* Inbound connections: the accept loop and handle_connection. *)

\* The accept loop compares the counter with the cap, and either closes the
\* connection or spawns its task.
Accept(c) ==
    /\ c \in Inbound
    /\ phase[c] = "none"
    /\ EndpointOpen
    /\ Goto(c, IF active_connections >= MaxConnections THEN "closed" ELSE "spawned")
    /\ UNCHANGED <<odd, Table, File, Server>>

\* The spawned task runs: it increments the counter.
TaskStart(c) ==
    /\ phase[c] = "spawned"
    /\ Goto(c, "handshake")
    /\ active_connections' = active_connections + 1
    /\ UNCHANGED <<odd, Table, File, prunePending, running, stop>>

\* Plausible bug: the early return skips fetch_sub.
HandshakeLeak(c) ==
    /\ phase[c] = "handshake"
    /\ Goto(c, "closed")
    /\ UNCHANGED <<odd, Table, File, Server>>

\* The handshake ends without a message loop: an I/O error, an end of stream,
\* another kind of frame or an incompatible version.
HandshakeFail(c) ==
    /\ phase[c] = "handshake"
    /\ Goto(c, "closed")
    /\ active_connections' = active_connections - 1
    /\ UNCHANGED <<odd, Table, File, prunePending, running, stop>>

\* A compatible Handshake: the HandshakeAck is written.
HandshakeAck(c) ==
    /\ phase[c] = "handshake"
    /\ EndpointOpen
    /\ Goto(c, "acked")
    /\ UNCHANGED <<odd, Table, File, Server>>

RouteInbound(c) ==
    /\ phase[c] = "acked"
    /\ Route(PeerOf[c])
    /\ Goto(c, "routedIn")
    /\ UNCHANGED <<odd, File, Server>>

\* peers.json is written, the message loop is spawned and handle_connection
\* returns, which decrements the counter.
EnterLoop(c) ==
    /\ phase[c] = "routedIn"
    /\ PeerOf[c] \notin odd
    /\ WritePeersFile
    /\ Goto(c, "loop")
    /\ active_connections' = active_connections - 1
    /\ UNCHANGED <<odd, Table, prunePending, running, stop>>

\* The log line after the insert slices the id inside a character: the task
\* panics, leaves its entry in the table and never gets to fetch_sub.
HandshakePanic(c) ==
    /\ phase[c] = "routedIn"
    /\ PeerOf[c] \in odd
    /\ Goto(c, "leaked")
    /\ meddled' = TRUE
    /\ UNCHANGED <<odd, Table, peers_file, Server>>
-----------------------------------------------------------------------------
(* Outbound connections: connect_to_peer. *)

\* cmd_node dials the bootstrap peers one after the other, before it waits for
\* the signal to stop.
Dial(c) ==
    /\ c \in Conn \ Inbound
    /\ phase[c] = "none"
    /\ stop = "no"
    /\ ~Dialing
    /\ Goto(c, "dialing")
    /\ UNCHANGED <<odd, Table, File, Server>>

\* An error, or an ack with an incompatible version.
DialFail(c) ==
    /\ phase[c] = "dialing"
    /\ Goto(c, "closed")
    /\ UNCHANGED <<odd, Table, File, Server>>

\* A HandshakeAck: the peer enters the table.
DialAck(c) ==
    /\ phase[c] = "dialing"
    /\ Route(PeerOf[c])
    /\ Goto(c, "routedOut")
    /\ UNCHANGED <<odd, File, Server>>

\* The end of the stream or any frame other than an ack (the Goodbye of a peer
\* that refuses our version): the loop starts with an empty peer id.
DialNoAck(c) ==
    /\ phase[c] = "dialing"
    /\ Goto(c, "anon")
    /\ UNCHANGED <<odd, Table, File, Server>>

\* peers.json is written; after the announcements and pushes the loop starts.
EnterLoopOut(c) ==
    /\ phase[c] = "routedOut"
    /\ PeerOf[c] \notin odd
    /\ WritePeersFile
    /\ Goto(c, "loop")
    /\ UNCHANGED <<odd, Table, Server>>

\* The same log line when dialling: cmd_node awaits connect_to_peer itself, so
\* that the panic ends the process and its tasks.  The file stays.
DialPanic(c) ==
    /\ phase[c] = "routedOut"
    /\ PeerOf[c] \in odd
    /\ phase' = [d \in Conn |-> "closed"]
    /\ routing' = {}
    /\ age' = [p \in Peer |-> 0]
    /\ meddled' = TRUE
    /\ prunePending' = FALSE
    /\ active_connections' = 0
    /\ running' = FALSE
    /\ stop' = "closed"
    /\ UNCHANGED <<odd, peers_file>>
-----------------------------------------------------------------------------
(* The message loop: handle_messages.  A frame that is read and answered   *)
(* changes nothing here: last_seen is not refreshed.                       *)

\* A ReplicatePush panics in Store::insert_record: the task dies before the
\* cleanup of handle_messages.
ServePanic(c) ==
    /\ CanPanic
    /\ phase[c] \in Looping
    /\ EndpointOpen
    /\ Goto(c, "crashed")
    /\ UNCHANGED <<odd, Table, File, Server>>

\* The 500 ms timer fires and running is false: Goodbye is sent.
TimerGoodbye(c) ==
    /\ phase[c] \in Looping
    /\ ~running
    /\ EndpointOpen
    /\ Goto(c, IF phase[c] = "loop" THEN "ending" ELSE "endingAnon")
    /\ UNCHANGED <<odd, Table, File, Server>>

\* A Goodbye of the peer, the end of its stream or an error ends the loop.
StreamEnd(c) ==
    /\ phase[c] \in Looping
    /\ Goto(c, IF phase[c] = "loop" THEN "ending" ELSE "endingAnon")
    /\ UNCHANGED <<odd, Table, File, Server>>

\* Plausible bug: the table forgets peers only while the node runs.
RemovePeerIfRunning(c) ==
    /\ phase[c] \in {"ending", "endingAnon"}
    /\ IF phase[c] = "ending" /\ running THEN Unroute(PeerOf[c]) ELSE UNCHANGED Table
    /\ Goto(c, "unrouted")
    /\ UNCHANGED <<odd, File, Server>>

\* handle_messages removes the peer by its id (the empty id is in no table).
RemovePeer(c) ==
    /\ phase[c] \in {"ending", "endingAnon"}
    /\ IF phase[c] = "ending" THEN Unroute(PeerOf[c]) ELSE UNCHANGED Table
    /\ Goto(c, "unrouted")
    /\ UNCHANGED <<odd, File, Server>>

\* Plausible bug: peers.json is not rewritten after a disconnection.
LeaveLoopSilently(c) ==
    /\ phase[c] = "unrouted"
    /\ Goto(c, "closed")
    /\ UNCHANGED <<odd, Table, File, Server>>

LeaveLoop(c) ==
    /\ phase[c] = "unrouted"
    /\ WritePeersFile
    /\ Goto(c, "closed")
    /\ UNCHANGED <<odd, Table, Server>>
-----------------------------------------------------------------------------
(* The pruning task and Node::stop. *)

\* prune_stale compares with >.
StalePeers == {p \in routing : age[p] > StaleSecs}

Prune ==
    /\ running
    /\ ~prunePending
    /\ StalePeers # {}
    /\ routing' = routing \ StalePeers
    /\ age' = [p \in Peer |-> IF p \in StalePeers THEN 0 ELSE age[p]]
    /\ prunePending' = TRUE
    /\ UNCHANGED <<odd, phase, File, active_connections, running, stop>>

\* Plausible bug: the task never gets back to its interval.
PruneWriteOnce ==
    /\ prunePending
    /\ meddled
    /\ WritePeersFile
    /\ UNCHANGED <<odd, phase, Table, Server>>

PruneWrite ==
    /\ prunePending
    /\ WritePeersFile
    /\ prunePending' = FALSE
    /\ UNCHANGED <<odd, phase, Table, active_connections, running, stop>>

\* stop counts the peers of the routing table...
StopCount ==
    /\ stop = "no"
    /\ ~Dialing
    /\ stop' = IF routing # {} THEN "peers" ELSE "noPeers"
    /\ UNCHANGED <<odd, phase, Table, File, prunePending, active_connections, running>>

\* ...clears running, and sleeps 500 ms if it counted any.
StopSignal ==
    /\ stop \in {"peers", "noPeers"}
    /\ running' = FALSE
    /\ stop' = IF stop = "peers" THEN "grace" ELSE "closing"
    /\ UNCHANGED <<odd, phase, Table, File, prunePending, active_connections>>

\* The sleep ends.  A loop whose timer was started anew by a frame may not have
\* got to its Goodbye yet.
StopWaited ==
    /\ stop = "grace"
    /\ stop' = "closing"
    /\ UNCHANGED <<odd, phase, Table, File, prunePending, active_connections, running>>

\* The endpoint is closed and with it every connection.
StopClose ==
    /\ stop = "closing"
    /\ stop' = "closed"
    /\ UNCHANGED <<odd, phase, Table, File, prunePending, active_connections, running>>

-----------------------------------------------------------------------------
(* handle_add_peer, in a task of this process, or `peers add` in another.  *)

\* peers.json is read and written back with one more entry, an address without
\* a node id.  Neither the mutex nor the table is looked at: tables may have
\* been written since the read, which found an older one, or in the middle of
\* a write_peers_file nothing that parses.
AddPeer ==
    /\ peers_file' \in SUBSET Peer
    /\ meddled' = TRUE
    /\ UNCHANGED <<odd, phase, Table, Server>>
-----------------------------------------------------------------------------
Older(n) == IF n > StaleSecs THEN n ELSE n + 1

Tick ==
    /\ age' = [p \in Peer |-> IF p \in routing THEN Older(age[p]) ELSE age[p]]
    /\ UNCHANGED <<odd, phase, routing, File, Server>>

ConnStep(c) ==
    \/ Accept(c) \/ TaskStart(c) \/ HandshakeFail(c) \/ HandshakeAck(c)
    \/ RouteInbound(c) \/ EnterLoop(c) \/ HandshakePanic(c)
    \/ Dial(c) \/ DialFail(c) \/ DialAck(c) \/ DialNoAck(c) \/ EnterLoopOut(c)
    \/ DialPanic(c)
    \/ ServePanic(c) \/ TimerGoodbye(c) \/ StreamEnd(c)
    \/ RemovePeer(c) \/ LeaveLoop(c)

StopStep == StopCount \/ StopSignal \/ StopWaited \/ StopClose

Next ==
    \/ \E c \in Conn : ConnStep(c)
    \/ Prune \/ PruneWrite
    \/ StopStep
    \/ AddPeer
    \/ Tick

Spec == Init /\ [][Next]_vars

\* The tasks that clean up are scheduled by the runtime, the pruning interval
\* keeps firing and the clock goes on; peers and users may do nothing.
FairSpec ==
    /\ Spec
    /\ WF_vars(Tick) /\ WF_vars(Prune) /\ WF_vars(PruneWrite)
    /\ \A c \in Conn : WF_vars(RouteInbound(c) \/ EnterLoop(c) \/ EnterLoopOut(c)
                                 \/ HandshakePanic(c) \/ DialPanic(c)
                                 \/ RemovePeer(c) \/ LeaveLoop(c))
-----------------------------------------------------------------------------
(* Properties. *)

\* Connections whose task has put its peer into the table and will take it out.
Holding == {"routedIn", "routedOut", "loop", "ending"}

\* Connections whose task panicked, in the message loop or before it.
Panicked == {"crashed", "leaked"}

\* Ghosts in the table come from panics only: an entry exists while some
\* connection to that peer is set up, in its message loop or about to clean up,
\* or if the task of one has panicked.
RoutedIsConnected ==
    \A p \in routing :
        \E c \in Conn : PeerOf[c] = p /\ phase[c] \in Holding \cup Panicked

\* Among the tasks that take the mutex the file never keeps an older table:
\* peers.json equals the table whenever none of them is between its table
\* update and its file write, in whatever order they update and write.  Until
\* the next write of such a task, an added peer or a task that panicked before
\* its write makes an exception.
PeersFileFresh == ~meddled /\ ~FileBusy => peers_file = routing

\* The connections that hold a place in the counter.
Charged == Counted \cup {"leaked"}

\* The atomic counter is exactly the number of inbound handshakes under way
\* and of those whose task panicked: it never underflows, and every way out of
\* a handshake but the panic gives its place back.
CounterExact ==
    active_connections = Cardinality({c \in Conn : phase[c] \in Charged})

\* An entry whose connections are all gone, even by a panic of their task,
\* leaves the table or a new connection comes, unless the node is stopped.
GhostsPruned ==
    \A p \in Peer :
        (p \in routing /\ \A c \in Conn : PeerOf[c] = p => phase[c] \in {"closed"} \cup Panicked)
            ~> (p \notin routing \/ ~running)
=============================================================================
