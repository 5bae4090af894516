----------------------------- MODULE Lifecycle ------------------------------
(***************************************************************************)
(* The processes that share a data directory: `dsearch node start`, `node  *)
(* stop` and `node restart` (src/main.rs), record commands that go through *)
(* the node's API or, without one, open the store themselves               *)
(* (src/main.rs, src/cli/api_client.rs), the tray (src/ui/tray.rs).  They  *)
(* meet in four places: the lock of the database, node.pid, node.shutdown  *)
(* and api.port.  A node process may crash at any point; the operating     *)
(* system then releases the lock and the ports, and the files stay.        *)
(***************************************************************************)
EXTENDS Naturals, FiniteSets

CONSTANTS
    Pid,         \* process ids; a dead process's id may be used again
    Dir,         \* data directories
    Ports,       \* the ports the local API tries, in order
    Platforms,   \* the platforms of a run, of {"unix", "windows"}
    MaxStarts,   \* bound of the node processes started
    MaxSignals,  \* bound of the stop requests and record commands
    CanCrash,
    None

ASSUME PidAssumption == {None, "cli"} \cap Pid = {} /\ None \notin Ports
ASSUME BoundAssumption ==
    /\ Ports \subseteq Nat /\ MaxStarts \in Nat /\ MaxSignals \in Nat
    /\ Platforms \subseteq {"unix", "windows"} /\ CanCrash \in BOOLEAN

VARIABLES
    platform,            \* never changes
    pc, dir, mode, port, watcher,   \* of each node process
    lock,                \* lock[d]: the process that has the store open: a pid or "cli"
    pid_file, shutdown_file, port_file,   \* node.pid, node.shutdown, api.port
    stop,                \* the `node stop` or `node restart` under way
    op,                  \* the record command under way
    crashed,             \* history: directories whose node.pid a crash left behind, or
                         \* a stop command that met a process id used again
    starts, signals

procs   == <<pc, dir, mode, port, watcher>>
files   == <<pid_file, shutdown_file, port_file>>
cli     == <<stop, op>>
bounds  == <<starts, signals>>
vars    == <<platform, procs, lock, files, cli, crashed, bounds>>

\* "up" is the select! or the window of cmd_node; "draining" is Node::stop.
Alive   == {"starting", "locked", "serving", "up", "stopping", "draining"}
Serving == {"serving", "up", "stopping", "draining"}

NoStop == [at |-> "idle", dir |-> None, target |-> None]
NoOp   == [at |-> "idle", dir |-> None, node |-> None, applied |-> 0]

TypeOK ==
    /\ platform \in Platforms
    /\ pc \in [Pid -> Alive \cup {"dead"}]
    /\ dir \in [Pid -> Dir \cup {None}]
    /\ mode \in [Pid -> {"headless", "ui"}]
    /\ port \in [Pid -> Ports \cup {None}]
    /\ watcher \in [Pid -> BOOLEAN]
    /\ lock \in [Dir -> Pid \cup {None, "cli"}]
    /\ pid_file \in [Dir -> Pid \cup {None}]
    /\ shutdown_file \in [Dir -> BOOLEAN]
    /\ port_file \in [Dir -> Ports \cup {None}]
    /\ stop \in [at : {"idle", "waiting", "removing"}, dir : Dir \cup {None}, target : Pid \cup {None}]
    /\ op \in [at : {"idle", "request", "applied", "direct"}, dir : Dir \cup {None},
               node : Pid \cup {None}, applied : Nat]
    /\ crashed \subseteq Dir
    /\ starts \in 0..MaxStarts /\ signals \in 0..MaxSignals

Init ==
    /\ platform \in Platforms
    /\ pc = [p \in Pid |-> "dead"]
    /\ dir = [p \in Pid |-> None]
    /\ mode = [p \in Pid |-> "headless"]
    /\ port = [p \in Pid |-> None]
    /\ watcher = [p \in Pid |-> FALSE]
    /\ lock = [d \in Dir |-> None]
    /\ pid_file = [d \in Dir |-> None]
    /\ shutdown_file = [d \in Dir |-> FALSE]
    /\ port_file = [d \in Dir |-> None]
    /\ stop = NoStop /\ op = NoOp
    /\ crashed = {}
    /\ starts = 0 /\ signals = 0

\* A process is gone: its lock and its ports are free.
Die(p) ==
    /\ pc' = [pc EXCEPT ![p] = "dead"]
    /\ dir' = [dir EXCEPT ![p] = None]
    /\ mode' = [mode EXCEPT ![p] = "headless"]
    /\ port' = [port EXCEPT ![p] = None]
    /\ watcher' = [watcher EXCEPT ![p] = FALSE]
    /\ lock' = [d \in Dir |-> IF lock[d] = p THEN None ELSE lock[d]]
-----------------------------------------------------------------------------
(* cmd_node, NodeAction::Start. *)

\* The configuration and the identity are loaded.
Start(p, d, m) ==
    /\ pc[p] = "dead"
    /\ starts < MaxStarts
    /\ starts' = starts + 1
    /\ pc' = [pc EXCEPT ![p] = "starting"]
    /\ dir' = [dir EXCEPT ![p] = d]
    /\ mode' = [mode EXCEPT ![p] = m]
    /\ UNCHANGED <<platform, port, watcher, lock, files, cli, crashed, signals>>

\* open_store: redb lets one process open the database.
OpenStore(p) ==
    /\ pc[p] = "starting"
    /\ lock[dir[p]] = None
    /\ lock' = [lock EXCEPT ![dir[p]] = p]
    /\ pc' = [pc EXCEPT ![p] = "locked"]
    /\ UNCHANGED <<platform, dir, mode, port, watcher, files, cli, crashed, bounds>>

\* The start ends with an error: a configuration or an identity that does not
\* load, a database that is open elsewhere, a QUIC port, all API ports or, after
\* api.port was written, the gateway's port taken.
StartFails(p) ==
    /\ pc[p] \in {"starting", "locked", "serving"}
    /\ Die(p)
    /\ UNCHANGED <<platform, files, cli, crashed, bounds>>

\* Ports nobody listens on (every process of the machine is in the model).
Free == Ports \ {port[q] : q \in Pid}

\* Plausible bug: the API is started before the store is opened.
ServeEarly(p) ==
    /\ pc[p] \in {"starting", "locked"}
    /\ \E n \in Free :
         /\ \A k \in Free : n <= k
         /\ port' = [port EXCEPT ![p] = n]
         /\ port_file' = [port_file EXCEPT ![dir[p]] = n]
    /\ pc' = [pc EXCEPT ![p] = "serving"]
    /\ UNCHANGED <<platform, dir, mode, watcher, lock, pid_file, shutdown_file, cli, crashed, bounds>>

\* Node::start and start_api_server: the first free port, written to api.port.
Serve(p) ==
    /\ pc[p] = "locked"
    /\ \E n \in Free :
         /\ \A k \in Free : n <= k
         /\ port' = [port EXCEPT ![p] = n]
         /\ port_file' = [port_file EXCEPT ![dir[p]] = n]
    /\ pc' = [pc EXCEPT ![p] = "serving"]
    /\ UNCHANGED <<platform, dir, mode, watcher, lock, pid_file, shutdown_file, cli, crashed, bounds>>

\* The sweeper, the scheduler and the gateway run and the bootstrap peers are
\* dialled; then node.pid is written and the watcher started.
WritePid(p) ==
    /\ pc[p] = "serving"
    /\ pid_file' = [pid_file EXCEPT ![dir[p]] = p]
    /\ crashed' = crashed \ {dir[p]}
    /\ watcher' = [watcher EXCEPT ![p] = TRUE]
    /\ pc' = [pc EXCEPT ![p] = "up"]
    /\ UNCHANGED <<platform, dir, mode, port, lock, shutdown_file, port_file, cli, bounds>>

\* The watcher, which polls until its process ends, finds node.shutdown and
\* removes it.  A headless node stops; in UI mode the handle of the watcher was
\* dropped and nothing waits for it.
Watch(p) ==
    /\ pc[p] \in {"up", "stopping", "draining"} /\ watcher[p]
    /\ shutdown_file[dir[p]]
    /\ shutdown_file' = [shutdown_file EXCEPT ![dir[p]] = FALSE]
    /\ watcher' = [watcher EXCEPT ![p] = FALSE]
    /\ pc' = [pc EXCEPT ![p] = IF @ = "up" /\ mode[p] = "headless" THEN "stopping" ELSE @]
    /\ UNCHANGED <<platform, dir, mode, port, lock, pid_file, port_file, cli, crashed, bounds>>

\* Ctrl+C, or the window is closed.
Interrupt(p) ==
    /\ pc[p] = "up"
    /\ pc' = [pc EXCEPT ![p] = "stopping"]
    /\ UNCHANGED <<platform, dir, mode, port, watcher, lock, files, cli, crashed, bounds>>

\* "Quit" in the tray of a node in UI mode: node.shutdown is written and the
\* window closed.
TrayQuit(p) ==
    /\ pc[p] = "up" /\ mode[p] = "ui"
    /\ shutdown_file' = [shutdown_file EXCEPT ![dir[p]] = TRUE]
    /\ pc' = [pc EXCEPT ![p] = "stopping"]
    /\ UNCHANGED <<platform, dir, mode, port, watcher, lock, pid_file, port_file, cli, crashed, bounds>>

RemovePid(p) ==
    /\ pc[p] = "stopping"
    /\ pid_file' = [pid_file EXCEPT ![dir[p]] = None]
    /\ pc' = [pc EXCEPT ![p] = "draining"]
    /\ UNCHANGED <<platform, dir, mode, port, watcher, lock, shutdown_file, port_file, cli, crashed, bounds>>

\* Node::stop is done; api.port stays.
Exit(p) ==
    /\ pc[p] = "draining"
    /\ Die(p)
    /\ UNCHANGED <<platform, files, cli, crashed, bounds>>

\* node.pid is left behind if it names p.
LeavesPid(p) == crashed' = IF pid_file[dir[p]] = p THEN crashed \cup {dir[p]} ELSE crashed

\* `node stop` in directory d ends the process p, if there is one.
Killed(p, d) ==
    IF pc[p] = "dead" THEN UNCHANGED <<procs, lock, crashed>>
    ELSE /\ Die(p)
         /\ IF dir[p] = d THEN UNCHANGED crashed ELSE LeavesPid(p)

Crash(p) ==
    /\ CanCrash
    /\ pc[p] \in Alive
    /\ Die(p)
    /\ LeavesPid(p)
    /\ UNCHANGED <<platform, files, cli, bounds>>
-----------------------------------------------------------------------------
(* cmd_node, NodeAction::Stop and NodeAction::Restart (which does not start  *)
(* anything), and cmd_tray, TrayAction::Stop.                                *)

\* node.pid is read.  On Windows node.shutdown is written; elsewhere SIGTERM,
\* which the node does not handle, kills the process that has this id now.
StopRequest(d) ==
    LET p == pid_file[d] IN
    /\ stop = NoStop
    /\ signals < MaxSignals
    /\ p # None
    /\ signals' = signals + 1
    /\ IF platform = "windows"
       THEN /\ shutdown_file' = [shutdown_file EXCEPT ![d] = TRUE]
            /\ stop' = [at |-> "waiting", dir |-> d, target |-> p]
            /\ UNCHANGED <<procs, lock, crashed>>
       ELSE /\ Killed(p, d)
            /\ stop' = [at |-> "removing", dir |-> d, target |-> p]
            /\ UNCHANGED shutdown_file
    /\ UNCHANGED <<platform, pid_file, port_file, op, starts>>

\* Plausible bug: the wait is given up without taskkill.
StopWaitedOnly ==
    /\ stop.at = "waiting"
    /\ UNCHANGED <<procs, lock>>
    /\ stop' = [stop EXCEPT !.at = "removing"]
    /\ UNCHANGED <<platform, files, op, crashed, bounds>>

\* tasklist no longer shows the process, or 20 polls have passed and taskkill
\* ends it.
StopWaited ==
    /\ stop.at = "waiting"
    /\ Killed(stop.target, stop.dir)
    /\ stop' = [stop EXCEPT !.at = "removing"]
    /\ UNCHANGED <<platform, files, op, bounds>>

\* node.pid is removed, whoever wrote it last, and on Windows node.shutdown.
StopRemove ==
    /\ stop.at = "removing"
    /\ pid_file' = [pid_file EXCEPT ![stop.dir] = None]
    /\ shutdown_file' = IF platform = "windows" THEN [shutdown_file EXCEPT ![stop.dir] = FALSE]
                        ELSE shutdown_file
    /\ stop' = NoStop
    /\ crashed' = crashed \ {stop.dir}
    /\ UNCHANGED <<platform, procs, lock, port_file, op, bounds>>

\* `tray stop` writes node.shutdown, whether a node runs or not.
TrayStop(d) ==
    /\ signals < MaxSignals
    /\ signals' = signals + 1
    /\ shutdown_file' = [shutdown_file EXCEPT ![d] = TRUE]
    /\ UNCHANGED <<platform, procs, lock, pid_file, port_file, cli, crashed, starts>>
-----------------------------------------------------------------------------
(* cmd_record: a command that changes the store of a directory. *)

Listener(d) == {p \in Pid : port_file[d] # None /\ port[p] = port_file[d]}

\* api_is_reachable: somebody listens on the port in api.port.  Otherwise the
\* command opens the store itself, if no other process has it open.
OpBegin(d) ==
    /\ op.at = "idle"
    /\ signals < MaxSignals
    /\ signals' = signals + 1
    /\ IF Listener(d) # {}
       THEN /\ \E p \in Listener(d) : op' = [at |-> "request", dir |-> d, node |-> p, applied |-> 0]
            /\ UNCHANGED lock
       ELSE /\ lock[d] = None
            /\ lock' = [lock EXCEPT ![d] = "cli"]
            /\ op' = [at |-> "direct", dir |-> d, node |-> None, applied |-> 0]
    /\ UNCHANGED <<platform, procs, files, stop, crashed, starts>>

\* The node carries out the request.
OpServe ==
    /\ op.at = "request"
    /\ pc[op.node] \in Serving
    /\ op' = [op EXCEPT !.at = "applied", !.applied = @ + 1]
    /\ UNCHANGED <<platform, procs, lock, files, stop, crashed, bounds>>

OpEnd(next) ==
    /\ op' = next
    /\ UNCHANGED <<platform, procs, files, stop, crashed, bounds>>

\* The answer of the node arrives.
OpAnswered == op.at = "applied" /\ OpEnd(NoOp) /\ UNCHANGED lock

\* Plausible bug: a failed request is done again on the store.
OpErrorRetry ==
    /\ op.at \in {"request", "applied"}
    /\ lock[op.dir] = None
    /\ lock' = [lock EXCEPT ![op.dir] = "cli"]
    /\ OpEnd([op EXCEPT !.at = "direct"])

\* No answer arrives (the node is gone, or ten seconds have passed) or it is an
\* error: the command exits.  Only Get and List go on to the store.
OpError == op.at \in {"request", "applied"} /\ OpEnd(NoOp) /\ UNCHANGED lock

\* The command works on the store...
OpDirect ==
    /\ op.at = "direct" /\ lock[op.dir] = "cli"
    /\ op' = [op EXCEPT !.at = "applied", !.applied = @ + 1]
    /\ lock' = [lock EXCEPT ![op.dir] = None]
    /\ UNCHANGED <<platform, procs, files, stop, crashed, bounds>>

Launch == \E p \in Pid, d \in Dir, m \in {"headless", "ui"} : Start(p, d, m)

NodeStep(p) ==
    \/ OpenStore(p) \/ StartFails(p) \/ Serve(p) \/ WritePid(p)
    \/ RemovePid(p) \/ Exit(p)

StopStep == StopWaited \/ StopRemove

Next ==
    \/ Launch
    \/ \E p \in Pid : NodeStep(p) \/ Watch(p) \/ Interrupt(p) \/ TrayQuit(p) \/ Crash(p)
    \/ \E d \in Dir : StopRequest(d) \/ TrayStop(d) \/ OpBegin(d)
    \/ StopStep
    \/ OpServe \/ OpAnswered \/ OpError \/ OpDirect

Spec == Init /\ [][Next]_vars

\* The processes run: a start goes on or fails, the watcher polls, a node that
\* stops exits, `node stop` goes through its steps.
FairSpec ==
    /\ Spec
    /\ \A p \in Pid : WF_vars(NodeStep(p)) /\ WF_vars(Watch(p))
    /\ WF_vars(StopStep)
-----------------------------------------------------------------------------
(* Properties. *)

ApiPortFresh == \A p \in Pid : pc[p] \in Serving => port_file[dir[p]] = port[p]

PidTrue ==
    \A d \in Dir : pid_file[d] # None =>
        LET p == pid_file[d] IN
        \/ pc[p] \in {"up", "stopping"} /\ dir[p] = d
        \/ d \in crashed
        \/ stop.dir = d /\ stop.target = p

\* What commands find a node by is true, however often nodes are started in the
\* same directory or on the machine: api.port names the port a running node
\* listens on, and node.pid a node of this directory, unless its node crashed
\* or a stop command that is under way ended it.
FilesTrue == ApiPortFresh /\ PidTrue

\* A record command is carried out once at most, through the node or on the
\* store, also when the node dies with the request in hand.
AppliedOnce == op.applied <= 1

\* `node stop` ends the node it found, also one in UI mode that only swallows
\* node.shutdown; and node.shutdown stops a headless node, if no `node stop` is
\* under way that could remove the file first.
StopsWhenTold ==
    \A p \in Pid :
        /\ stop.target = p /\ stop.at = "waiting" ~> pc[p] = "dead"
        /\ (pc[p] = "up" /\ mode[p] = "headless" /\ shutdown_file[dir[p]] /\ stop.dir # dir[p])
               ~> pc[p] # "up"
=============================================================================
