-------------------------- MODULE LifecycleProofs ---------------------------
(***************************************************************************)
(* Proofs about Lifecycle, for any processes, directories, ports and       *)
(* platforms: the types, that the store of a directory has one owner, that *)
(* api.port and node.pid tell the truth, and that a record command is      *)
(* carried out at most once.                                               *)
(***************************************************************************)
EXTENDS Lifecycle, TLAPS

USE DEF Alive, Serving

\* A node that has got past open_store holds the lock of its directory.
LockHeld ==
    \A p \in Pid : pc[p] \in Serving \cup {"locked"} => lock[dir[p]] = p

\* The state a process and a command keep between their steps.
LocalsKnown ==
    /\ \A p \in Pid : pc[p] \in Alive => dir[p] \in Dir
    /\ stop.at # "idle" => stop.dir \in Dir /\ stop.target \in Pid
    /\ op.at # "idle" => op.dir \in Dir
    /\ op.at = "request" => op.node \in Pid
    /\ op.applied = IF op.at = "applied" THEN 1 ELSE 0

LifeInv == TypeOK /\ LocalsKnown /\ LockHeld

\* The initial state has its types.
LEMMA LifeInit == Init => LifeInv
  BY BoundAssumption DEF Init, LifeInv, TypeOK, LocalsKnown, LockHeld, NoStop, NoOp

\* The death of a process frees what it held and nothing else.
LEMMA DieKeeps ==
  ASSUME LifeInv, NEW p \in Pid, Die(p)
  PROVE  /\ pc' \in [Pid -> Alive \cup {"dead"}]
         /\ dir' \in [Pid -> Dir \cup {None}]
         /\ mode' \in [Pid -> {"headless", "ui"}]
         /\ port' \in [Pid -> Ports \cup {None}]
         /\ watcher' \in [Pid -> BOOLEAN]
         /\ lock' \in [Dir -> Pid \cup {None, "cli"}]
         /\ \A q \in Pid : pc'[q] \in Alive => dir'[q] \in Dir
         /\ LockHeld'
  <1>1. lock' \in [Dir -> Pid \cup {None, "cli"}]
    BY DEF LifeInv, TypeOK, Die
  <1>2. LockHeld'
    <2> SUFFICES ASSUME NEW q \in Pid, pc'[q] \in Serving \cup {"locked"}
                 PROVE  lock'[dir'[q]] = q
      BY DEF LockHeld
    <2>1. q # p /\ pc[q] = pc'[q] /\ dir'[q] = dir[q]
      BY DEF LifeInv, TypeOK, Die
    <2>2. dir[q] \in Dir /\ lock[dir[q]] = q
      BY <2>1 DEF LifeInv, LocalsKnown, LockHeld
    <2> QED
      BY <2>1, <2>2 DEF Die
  <1> QED
    BY <1>1, <1>2 DEF LifeInv, TypeOK, LocalsKnown, Die

\* So does the end of the process a stop command found.
LEMMA KilledKeeps ==
  ASSUME LifeInv, NEW p \in Pid, NEW d, Killed(p, d)
  PROVE  /\ pc' \in [Pid -> Alive \cup {"dead"}]
         /\ dir' \in [Pid -> Dir \cup {None}]
         /\ mode' \in [Pid -> {"headless", "ui"}]
         /\ port' \in [Pid -> Ports \cup {None}]
         /\ watcher' \in [Pid -> BOOLEAN]
         /\ lock' \in [Dir -> Pid \cup {None, "cli"}]
         /\ crashed' \subseteq Dir
         /\ \A q \in Pid : pc'[q] \in Alive => dir'[q] \in Dir
         /\ LockHeld'
  <1>1. CASE pc[p] = "dead"
    BY <1>1 DEF Killed, procs, LifeInv, TypeOK, LocalsKnown, LockHeld
  <1>2. CASE pc[p] # "dead"
    <2>1. Die(p) /\ dir[p] \in Dir
      BY <1>2 DEF Killed, LifeInv, TypeOK, LocalsKnown
    <2>2. crashed' \subseteq Dir
      BY <1>2, <2>1 DEF Killed, LeavesPid, LifeInv, TypeOK
    <2> QED
      BY <2>1, <2>2, DieKeeps
  <1> QED
    BY <1>1, <1>2

\* A step of a node process keeps the invariant.
LEMMA NodeKeeps ==
  ASSUME LifeInv, NEW p \in Pid,
         NodeStep(p) \/ Watch(p) \/ Interrupt(p) \/ TrayQuit(p) \/ Crash(p)
  PROVE  LifeInv'
  <1> USE DEF procs, files, cli, bounds
  <1>1. CASE OpenStore(p)
    BY <1>1, PidAssumption DEF OpenStore, LifeInv, TypeOK, LocalsKnown, LockHeld
  <1>2. CASE StartFails(p)
    BY <1>2, DieKeeps DEF StartFails, LifeInv, TypeOK, LocalsKnown
  <1>3. CASE Serve(p)
    BY <1>3 DEF Serve, Free, LifeInv, TypeOK, LocalsKnown, LockHeld
  <1>4. CASE WritePid(p)
    BY <1>4 DEF WritePid, LifeInv, TypeOK, LocalsKnown, LockHeld
  <1>5. CASE RemovePid(p)
    BY <1>5 DEF RemovePid, LifeInv, TypeOK, LocalsKnown, LockHeld
  <1>6. CASE Exit(p)
    BY <1>6, DieKeeps DEF Exit, LifeInv, TypeOK, LocalsKnown
  <1>7. CASE Watch(p)
    BY <1>7 DEF Watch, LifeInv, TypeOK, LocalsKnown, LockHeld
  <1>8. CASE Interrupt(p)
    BY <1>8 DEF Interrupt, LifeInv, TypeOK, LocalsKnown, LockHeld
  <1>9. CASE TrayQuit(p)
    BY <1>9 DEF TrayQuit, LifeInv, TypeOK, LocalsKnown, LockHeld
  <1>10. CASE Crash(p)
    <2>1. crashed' \subseteq Dir
      BY <1>10 DEF Crash, LeavesPid, LifeInv, TypeOK, LocalsKnown
    <2> QED
      BY <1>10, <2>1, DieKeeps DEF Crash, LifeInv, TypeOK, LocalsKnown
  <1> QED
    BY <1>1, <1>2, <1>3, <1>4, <1>5, <1>6, <1>7, <1>8, <1>9, <1>10 DEF NodeStep

\* Carrying a command out turns its record from not applied to applied.
LEMMA AppliesOnce ==
  ASSUME LifeInv, op.at \in {"request", "direct"},
         op' = [op EXCEPT !.at = "applied", !.applied = @ + 1]
  PROVE  /\ op' \in [at : {"idle", "request", "applied", "direct"}, dir : Dir \cup {None},
                     node : Pid \cup {None}, applied : Nat]
         /\ op'.at = "applied" /\ op'.applied = 1 /\ op'.dir \in Dir
  <1>1. /\ op \in [at : {"idle", "request", "applied", "direct"}, dir : Dir \cup {None},
                   node : Pid \cup {None}, applied : Nat]
        /\ op.applied = 0 /\ op.dir \in Dir
    BY DEF LifeInv, TypeOK, LocalsKnown
  <1>2. /\ op'.at = "applied" /\ op'.dir = op.dir /\ op'.node = op.node
        /\ op'.applied = op.applied + 1
    BY <1>1
  <1>3. op' \in [at : {"idle", "request", "applied", "direct"}, dir : Dir \cup {None},
                 node : Pid \cup {None}, applied : Nat]
    <2>1. PICK n \in Nat : n = op.applied + 1
      BY <1>1
    <2>2. op' = [op EXCEPT !.at = "applied", !.applied = n]
      BY <2>1
    <2>3. [op EXCEPT !.at = "applied"] \in
            [at : {"idle", "request", "applied", "direct"}, dir : Dir \cup {None},
             node : Pid \cup {None}, applied : Nat]
      BY <1>1
    <2> QED
      BY <2>2, <2>3
  <1> QED
    BY <1>1, <1>2, <1>3

\* A step of a command keeps the invariant.
LEMMA CommandKeeps ==
  ASSUME LifeInv,
         \/ \E d \in Dir : StopRequest(d) \/ TrayStop(d) \/ OpBegin(d)
         \/ StopStep \/ OpServe \/ OpAnswered \/ OpError \/ OpDirect
  PROVE  LifeInv'
  <1> USE BoundAssumption DEF procs, files, cli, bounds
  <1>1. ASSUME NEW d \in Dir, StopRequest(d)
        PROVE  LifeInv'
    <2>1. pid_file[d] \in Pid
      BY <1>1 DEF StopRequest, LifeInv, TypeOK
    <2>2. signals' \in 0..MaxSignals
      BY <1>1 DEF StopRequest, LifeInv, TypeOK
    <2>3. CASE platform = "windows"
      <3>1. stop' = [at |-> "waiting", dir |-> d, target |-> pid_file[d]]
        BY <1>1, <2>3 DEF StopRequest
      <3>2. /\ stop' \in [at : {"idle", "waiting", "removing"}, dir : Dir \cup {None},
                          target : Pid \cup {None}]
            /\ stop'.dir \in Dir /\ stop'.target \in Pid
        BY <2>1, <3>1
      <3>3. shutdown_file' \in [Dir -> BOOLEAN]
        BY <1>1, <2>3 DEF StopRequest, LifeInv, TypeOK
      <3> QED
        BY <1>1, <2>2, <2>3, <3>2, <3>3 DEF StopRequest, LifeInv, TypeOK, LocalsKnown, LockHeld
    <2>4. CASE platform # "windows"
      BY <1>1, <2>1, <2>2, <2>4, KilledKeeps DEF StopRequest, LifeInv, TypeOK, LocalsKnown
    <2> QED
      BY <2>3, <2>4
  <1>2. ASSUME NEW d \in Dir, TrayStop(d)
        PROVE  LifeInv'
    BY <1>2 DEF TrayStop, LifeInv, TypeOK, LocalsKnown, LockHeld
  <1>3. ASSUME NEW d \in Dir, OpBegin(d)
        PROVE  LifeInv'
    <2>1. signals' \in 0..MaxSignals
      BY <1>3 DEF OpBegin, LifeInv, TypeOK
    <2>2. CASE Listener(d) # {}
      BY <1>3, <2>1, <2>2 DEF OpBegin, Listener, LifeInv, TypeOK, LocalsKnown, LockHeld
    <2>3. CASE Listener(d) = {}
      BY <1>3, <2>1, <2>3, PidAssumption DEF OpBegin, LifeInv, TypeOK, LocalsKnown, LockHeld
    <2> QED
      BY <2>2, <2>3
  <1>4. CASE StopWaited
    <2>1. stop.target \in Pid
      BY <1>4 DEF StopWaited, LifeInv, LocalsKnown
    <2> QED
      BY <1>4, <2>1, KilledKeeps DEF StopWaited, LifeInv, TypeOK, LocalsKnown
  <1>5. CASE StopRemove
    BY <1>5 DEF StopRemove, NoStop, LifeInv, TypeOK, LocalsKnown, LockHeld
  <1>6. CASE OpServe
    <2>1. /\ op' \in [at : {"idle", "request", "applied", "direct"}, dir : Dir \cup {None},
                      node : Pid \cup {None}, applied : Nat]
          /\ op'.at = "applied" /\ op'.applied = 1 /\ op'.dir \in Dir
      BY <1>6, AppliesOnce DEF OpServe
    <2> QED
      BY <1>6, <2>1 DEF OpServe, LifeInv, TypeOK, LocalsKnown, LockHeld
  <1>7. CASE OpAnswered \/ OpError
    BY <1>7 DEF OpAnswered, OpError, OpEnd, NoOp, LifeInv, TypeOK, LocalsKnown, LockHeld
  <1>8. CASE OpDirect
    <2>1. /\ op' \in [at : {"idle", "request", "applied", "direct"}, dir : Dir \cup {None},
                      node : Pid \cup {None}, applied : Nat]
          /\ op'.at = "applied" /\ op'.applied = 1 /\ op'.dir \in Dir
      BY <1>8, AppliesOnce DEF OpDirect
    <2>2. LockHeld' /\ lock' \in [Dir -> Pid \cup {None, "cli"}]
      BY <1>8, PidAssumption DEF OpDirect, LifeInv, TypeOK, LocalsKnown, LockHeld
    <2> QED
      BY <1>8, <2>1, <2>2 DEF OpDirect, LifeInv, TypeOK, LocalsKnown
  <1> QED
    BY <1>1, <1>2, <1>3, <1>4, <1>5, <1>6, <1>7, <1>8 DEF StopStep

\* Every step keeps the invariant.
LEMMA LifeNext == LifeInv /\ [Next]_vars => LifeInv'
  <1> SUFFICES ASSUME LifeInv, [Next]_vars
               PROVE  LifeInv'
    OBVIOUS
  <1>1. ASSUME NEW p \in Pid, NEW d \in Dir, NEW m \in {"headless", "ui"}, Start(p, d, m)
        PROVE  LifeInv'
    BY <1>1, BoundAssumption DEF Start, files, cli, LifeInv, TypeOK, LocalsKnown, LockHeld
  <1>2. CASE UNCHANGED vars
    BY <1>2 DEF vars, procs, files, cli, bounds, LifeInv, TypeOK, LocalsKnown, LockHeld
  <1> QED
    BY <1>1, <1>2, NodeKeeps, CommandKeeps DEF Next, Launch

\* The processes, the files and the commands keep their types, and a node that
\* serves has the store of its directory.
THEOREM TypeCorrect == Spec => []LifeInv
  BY LifeInit, LifeNext, PTL DEF Spec

\* No two nodes have the store of a directory open.
OneNodePerStore ==
    \A p, q \in Pid :
        pc[p] \in Serving \cup {"locked"} /\ pc[q] \in Serving \cup {"locked"} /\ dir[p] = dir[q]
            => p = q

\* The lock of redb, taken before the API is started and held to the end of the
\* process, keeps the nodes of one directory apart.
THEOREM StoreOwned == Spec => []OneNodePerStore
  <1>1. LifeInv => OneNodePerStore
    BY DEF LifeInv, LockHeld, OneNodePerStore
  <1> QED
    BY <1>1, TypeCorrect, PTL

\* A record command is carried out once at most.
THEOREM CommandCorrect == Spec => []AppliedOnce
  <1>1. LifeInv => AppliedOnce
    BY DEF LifeInv, LocalsKnown, AppliedOnce
  <1> QED
    BY <1>1, TypeCorrect, PTL
-----------------------------------------------------------------------------
(* The files. *)

\* api.port names the port of the node that has the store: another node of the
\* directory cannot get to the write.
LEMMA PortNext ==
  ASSUME LifeInv, ApiPortFresh, [Next]_vars
  PROVE  ApiPortFresh'
  <1> USE DEF procs, files, cli, bounds
  <1>1. ASSUME NEW p \in Pid, Die(p), UNCHANGED port_file
        PROVE  ApiPortFresh'
    BY <1>1 DEF Die, LifeInv, TypeOK, ApiPortFresh
  <1>2. ASSUME NEW p \in Pid, NEW d, Killed(p, d), UNCHANGED port_file
        PROVE  ApiPortFresh'
    BY <1>1, <1>2 DEF Killed, ApiPortFresh
  <1>3. ASSUME NEW p \in Pid, Serve(p)
        PROVE  ApiPortFresh'
    <2>1. \A q \in Pid : pc[q] \in Serving => dir[q] # dir[p]
      BY <1>3 DEF Serve, LifeInv, LockHeld
    <2>2. dir[p] \in Dir
      BY <1>3 DEF Serve, LifeInv, LocalsKnown
    <2> QED
      BY <1>3, <2>1, <2>2 DEF Serve, LifeInv, TypeOK, ApiPortFresh
  <1>4. ASSUME NEW p \in Pid, Crash(p) \/ StartFails(p) \/ Exit(p)
        PROVE  ApiPortFresh'
    BY <1>1, <1>4 DEF Crash, StartFails, Exit
  <1>5. ASSUME NEW p \in Pid,
               OpenStore(p) \/ WritePid(p) \/ RemovePid(p) \/ Watch(p) \/ Interrupt(p) \/ TrayQuit(p)
        PROVE  ApiPortFresh'
    BY <1>5 DEF OpenStore, WritePid, RemovePid, Watch, Interrupt, TrayQuit, LifeInv, TypeOK, ApiPortFresh
  <1>6. ASSUME NEW d \in Dir, StopRequest(d)
        PROVE  ApiPortFresh'
    <2>1. pid_file[d] \in Pid
      BY <1>6 DEF StopRequest, LifeInv, TypeOK
    <2> QED
      BY <1>2, <1>6, <2>1 DEF StopRequest, ApiPortFresh
  <1>7. CASE StopWaited
    <2>1. stop.target \in Pid
      BY <1>7 DEF StopWaited, LifeInv, LocalsKnown
    <2> QED
      BY <1>2, <1>7, <2>1 DEF StopWaited
  <1>8. CASE Launch
    BY <1>8 DEF Launch, Start, LifeInv, TypeOK, ApiPortFresh
  <1>9. UNCHANGED <<pc, dir, port, port_file>> => ApiPortFresh'
    BY DEF ApiPortFresh
  <1>10. CASE \/ StopRemove \/ OpServe \/ OpAnswered \/ OpError \/ OpDirect \/ UNCHANGED vars
              \/ \E d \in Dir : TrayStop(d) \/ OpBegin(d)
    BY <1>9, <1>10 DEF StopRemove, OpServe, OpAnswered, OpError, OpEnd, OpDirect, TrayStop, OpBegin, vars
  <1> QED
    BY <1>3, <1>4, <1>5, <1>6, <1>7, <1>8, <1>10 DEF Next, NodeStep, StopStep

\* node.pid names a node of its directory, or somebody accounts for it.
LEMMA PidNext ==
  ASSUME LifeInv, PidTrue, [Next]_vars
  PROVE  PidTrue'
  <1> USE PidAssumption DEF procs, files, cli, bounds
  <1>1. ASSUME NEW p \in Pid, Die(p), LeavesPid(p), UNCHANGED <<pid_file, stop>>
        PROVE  PidTrue'
    BY <1>1 DEF Die, LeavesPid, LifeInv, TypeOK, PidTrue
  <1>2. ASSUME NEW p \in Pid, StartFails(p) \/ Exit(p)
        PROVE  PidTrue'
    BY <1>2 DEF StartFails, Exit, Die, LifeInv, TypeOK, PidTrue
  <1>3. ASSUME NEW p \in Pid, Crash(p)
        PROVE  PidTrue'
    BY <1>1, <1>3 DEF Crash
  <1>4. ASSUME NEW p \in Pid, WritePid(p)
        PROVE  PidTrue'
    BY <1>4 DEF WritePid, LifeInv, TypeOK, LocalsKnown, PidTrue
  <1>5. ASSUME NEW p \in Pid, RemovePid(p)
        PROVE  PidTrue'
    BY <1>5 DEF RemovePid, LifeInv, TypeOK, LocalsKnown, PidTrue
  <1>6. ASSUME NEW p \in Pid,
               OpenStore(p) \/ Serve(p) \/ Watch(p) \/ Interrupt(p) \/ TrayQuit(p)
        PROVE  PidTrue'
    BY <1>6 DEF OpenStore, Serve, Watch, Interrupt, TrayQuit, LifeInv, TypeOK, PidTrue
  <1>7. ASSUME NEW d \in Dir, StopRequest(d)
        PROVE  PidTrue'
    <2>1. pid_file[d] \in Pid /\ stop'.dir = d /\ stop'.target = pid_file[d]
      BY <1>7 DEF StopRequest, LifeInv, TypeOK
    <2>2. stop.target = None
      BY <1>7 DEF StopRequest, NoStop
    <2>3. CASE UNCHANGED <<procs, lock, crashed>>
      BY <1>7, <2>1, <2>2, <2>3 DEF StopRequest, PidTrue
    <2>4. CASE Die(pid_file[d])
      BY <1>7, <2>1, <2>2, <2>4 DEF StopRequest, Killed, Die, LeavesPid, LifeInv, TypeOK, PidTrue
    <2> QED
      BY <1>7, <2>3, <2>4 DEF StopRequest, Killed
  <1>8. CASE StopWaited
    <2>1. stop.target \in Pid /\ stop'.dir = stop.dir /\ stop'.target = stop.target
      BY <1>8 DEF StopWaited, LifeInv, TypeOK, LocalsKnown
    <2>2. CASE UNCHANGED <<procs, lock, crashed>>
      BY <1>8, <2>1, <2>2 DEF StopWaited, PidTrue
    <2>3. CASE Die(stop.target)
      BY <1>8, <2>1, <2>3 DEF StopWaited, Killed, Die, LeavesPid, LifeInv, TypeOK, PidTrue
    <2> QED
      BY <1>8, <2>2, <2>3 DEF StopWaited, Killed
  <1>9. CASE StopRemove
    BY <1>9 DEF StopRemove, LifeInv, TypeOK, LocalsKnown, PidTrue
  <1>10. CASE Launch
    BY <1>10 DEF Launch, Start, LifeInv, TypeOK, PidTrue
  <1>11. UNCHANGED <<pc, dir, pid_file, crashed, stop>> => PidTrue'
    BY DEF PidTrue
  <1>12. CASE \/ OpServe \/ OpAnswered \/ OpError \/ OpDirect \/ UNCHANGED vars
              \/ \E d \in Dir : TrayStop(d) \/ OpBegin(d)
    BY <1>11, <1>12 DEF OpServe, OpAnswered, OpError, OpEnd, OpDirect, TrayStop, OpBegin, vars
  <1> QED
    BY <1>2, <1>3, <1>4, <1>5, <1>6, <1>7, <1>8, <1>9, <1>10, <1>12 DEF Next, NodeStep, StopStep

\* api.port and node.pid are true, through crashes, failed starts, stops and the
\* reuse of process ids.
THEOREM FilesCorrect == Spec => []FilesTrue
  <1>1. Init => FilesTrue
    BY DEF Init, FilesTrue, ApiPortFresh, PidTrue
  <1>2. LifeInv /\ FilesTrue /\ [Next]_vars => FilesTrue'
    BY PortNext, PidNext DEF FilesTrue
  <1> QED
    BY <1>1, <1>2, TypeCorrect, PTL DEF Spec
=============================================================================
