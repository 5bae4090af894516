------------------------------ MODULE Gateway ------------------------------
(***************************************************************************)
(* The public gateway (src/api/gateway.rs) and its API keys                *)
(* (src/api/gateway_keys.rs).  The node serves connections, each in a task *)
(* that waits for a permit of a semaphore; the CLI and the UI, which are   *)
(* other processes, create and revoke keys by reading and rewriting        *)
(* gateway_keys.json, which the node reads again for every request.        *)
(*                                                                         *)
(* std::fs::write truncates the file and then writes it: between the two,  *)
(* and after a kill between the two, readers find no valid JSON.           *)
(***************************************************************************)
EXTENDS Naturals, Sequences, FiniteSets, FiniteSetsExt

CONSTANTS
    Admin,      \* processes that manage keys
    Nick,       \* nicknames
    MaxKeys,    \* bound of the secrets generated
    CanKill,    \* whether a managing process may be killed
    Conn,       \* connection slots
    NoKey,      \* no API key was sent
    Permits,    \* MAX_CONCURRENT_CONNECTIONS
    RequireKey  \* require_api_key

Secret == 1..MaxKeys
Key    == [nickname : Nick, secret : Secret]

ASSUME BoundAssumption ==
    /\ MaxKeys \in Nat /\ Permits \in Nat \ {0}
    /\ CanKill \in BOOLEAN /\ RequireKey \in BOOLEAN
ASSUME NameAssumption  == NoKey \notin Secret

VARIABLES
    keys,      \* the list in gateway_keys.json
    torn,      \* the file is truncated or garbled
    issued,    \* secrets generated so far
    apc,       \* where each managing process is
    task,      \* the key it creates or revokes
    held,      \* the list it is about to write
    created, revoked,   \* history: keys whose creation or revocation returned Ok
    lost,      \* history: keys in a truncated file that a new list replaces
    overlap,   \* history: an operation on the keys began during another one
    cpc,       \* where each connection is
    api_key,   \* the key it sent, or NoKey
    waiting,   \* connections waiting for a permit, in the semaphore's order
    permits

File    == <<keys, torn>>
Admins  == <<File, issued, apc, task, held, created, revoked, lost, overlap>>
Conns   == <<cpc, api_key, waiting, permits>>
vars    == <<Admins, Conns>>

NoTask == [nickname |-> "none", secret |-> 0]

TypeOK ==
    /\ keys \subseteq Key /\ torn \in BOOLEAN
    /\ issued \in 0..MaxKeys
    /\ apc \in [Admin -> {"idle", "createOpen", "createWrite", "revokeOpen", "revokeWrite"}]
    /\ task \in [Admin -> Key \cup {NoTask}]
    /\ held \in [Admin -> SUBSET Key]
    /\ created \subseteq Key /\ revoked \subseteq Key /\ lost \subseteq Key
    /\ overlap \in BOOLEAN
    /\ cpc \in [Conn -> {"idle", "queued", "reading", "checking", "validating",
                         "served", "denied", "limited"}]
    /\ api_key \in [Conn -> Secret \cup {NoKey}]
    /\ waiting \in Seq(Conn)
    /\ permits \in 0..Permits

Init ==
    /\ keys = {} /\ torn = FALSE
    /\ issued = 0
    /\ apc = [a \in Admin |-> "idle"]
    /\ task = [a \in Admin |-> NoTask]
    /\ held = [a \in Admin |-> {}]
    /\ created = {} /\ revoked = {} /\ lost = {} /\ overlap = FALSE
    /\ cpc = [c \in Conn |-> "idle"]
    /\ api_key = [c \in Conn |-> NoKey]
    /\ waiting = <<>>
    /\ permits = Permits
-----------------------------------------------------------------------------
(* Managing the keys. *)

\* Plausible bug: the new list starts empty.
ListForCreateNone == {}

\* History: an operation begins.
Begins == overlap' = (overlap \/ \E b \in Admin : apc[b] # "idle")

\* create_key reads the list; a list it cannot parse counts as empty.
ListForCreate == IF torn THEN {} ELSE keys

\* create_key up to the write: a new secret, unless the nickname is taken.
CreateRead(a, n) ==
    LET k == [nickname |-> n, secret |-> issued + 1] IN
    /\ apc[a] = "idle"
    /\ issued < MaxKeys
    /\ \A j \in ListForCreate : j.nickname # n
    /\ issued' = issued + 1
    /\ task' = [task EXCEPT ![a] = k]
    /\ held' = [held EXCEPT ![a] = ListForCreate \cup {k}]
    /\ apc' = [apc EXCEPT ![a] = "createOpen"]
    /\ lost' = IF torn THEN lost \cup keys ELSE lost
    /\ Begins
    /\ UNCHANGED <<File, created, revoked, Conns>>

\* Plausible bug: the key stays in the list that is written back.
RevokeReadKept(a, k) ==
    /\ apc[a] = "idle"
    /\ ~torn
    /\ k \in keys
    /\ task' = [task EXCEPT ![a] = k]
    /\ held' = [held EXCEPT ![a] = keys]
    /\ apc' = [apc EXCEPT ![a] = "revokeOpen"]
    /\ Begins
    /\ UNCHANGED <<File, issued, created, revoked, lost, Conns>>

\* revoke_key up to the write: an unreadable list or an unknown nickname ends it.
RevokeRead(a, k) ==
    /\ apc[a] = "idle"
    /\ ~torn
    /\ k \in keys
    /\ task' = [task EXCEPT ![a] = k]
    /\ held' = [held EXCEPT ![a] = {j \in keys : j.nickname # k.nickname}]
    /\ apc' = [apc EXCEPT ![a] = "revokeOpen"]
    /\ Begins
    /\ UNCHANGED <<File, issued, created, revoked, lost, Conns>>

\* std::fs::write opens and truncates the file...
WriteOpen(a) ==
    /\ apc[a] \in {"createOpen", "revokeOpen"}
    /\ torn' = TRUE
    /\ apc' = [apc EXCEPT ![a] = IF apc[a] = "createOpen" THEN "createWrite" ELSE "revokeWrite"]
    /\ UNCHANGED <<keys, issued, task, held, created, revoked, lost, overlap, Conns>>

\* ...and writes it.  Over what another process wrote meanwhile, the longer of
\* the two texts may leave a garbled tail.
WriteDone(a) ==
    /\ apc[a] \in {"createWrite", "revokeWrite"}
    /\ keys' = held[a]
    /\ torn' \in IF torn THEN {FALSE} ELSE BOOLEAN
    /\ created' = IF apc[a] = "createWrite" THEN created \cup {task[a]} ELSE created
    /\ revoked' = IF apc[a] = "revokeWrite" THEN revoked \cup {task[a]} ELSE revoked
    /\ apc' = [apc EXCEPT ![a] = "idle"]
    /\ task' = [task EXCEPT ![a] = NoTask]
    /\ held' = [held EXCEPT ![a] = {}]
    /\ UNCHANGED <<issued, lost, overlap, Conns>>

\* The process is killed; another one takes its place.
Kill(a) ==
    /\ CanKill
    /\ apc[a] # "idle"
    /\ apc' = [apc EXCEPT ![a] = "idle"]
    /\ task' = [task EXCEPT ![a] = NoTask]
    /\ held' = [held EXCEPT ![a] = {}]
    /\ UNCHANGED <<File, issued, created, revoked, lost, overlap, Conns>>
-----------------------------------------------------------------------------
(* Serving connections. *)

Goto(c, label) == cpc' = [cpc EXCEPT ![c] = label]

\* gateway_server_loop accepts a connection and spawns its task, which waits
\* for a permit.
Connect(c, k) ==
    /\ cpc[c] = "idle"
    /\ Goto(c, "queued")
    /\ api_key' = [api_key EXCEPT ![c] = k]
    /\ waiting' = Append(waiting, c)
    /\ UNCHANGED <<permits, Admins>>

\* The semaphore serves its waiters in order.
Acquire(c) ==
    /\ waiting # <<>> /\ Head(waiting) = c
    /\ permits > 0
    /\ permits' = permits - 1
    /\ waiting' = Tail(waiting)
    /\ Goto(c, "reading")
    /\ UNCHANGED <<api_key, Admins>>

Request(c) ==
    /\ cpc[c] = "reading"
    /\ Goto(c, "checking")
    /\ UNCHANGED <<api_key, waiting, permits, Admins>>

\* What follows a request that is within its limit.
Admitted(c) ==
    IF api_key[c] # NoKey THEN "validating" ELSE IF RequireKey THEN "denied" ELSE "served"

\* check_rate_limit, per key, or per IP without one (module WindowLimiter), and
\* the checks of handle_gateway_connection that need no file.
CheckRate(c) ==
    /\ cpc[c] = "checking"
    /\ \E label \in {Admitted(c), "limited"} : Goto(c, label)
    /\ UNCHANGED <<api_key, waiting, permits, Admins>>

\* validate_key reads the file; a list it cannot parse validates nothing.
Valid(s) == ~torn /\ \E k \in keys : k.secret = s

Validate(c) ==
    /\ cpc[c] = "validating"
    /\ Goto(c, IF Valid(api_key[c]) THEN "served" ELSE "denied")
    /\ UNCHANGED <<api_key, waiting, permits, Admins>>

\* Plausible bug: a refused connection keeps its permit.
CloseLeak(c) ==
    /\ cpc[c] \in {"reading", "served", "denied", "limited"}
    /\ Goto(c, "idle")
    /\ api_key' = [api_key EXCEPT ![c] = NoKey]
    /\ permits' = IF cpc[c] = "limited" THEN permits ELSE permits + 1
    /\ UNCHANGED <<waiting, Admins>>

\* The response is written, or the client closed or sent no request: the task
\* ends and drops its permit.
Close(c) ==
    /\ cpc[c] \in {"reading", "served", "denied", "limited"}
    /\ Goto(c, "idle")
    /\ api_key' = [api_key EXCEPT ![c] = NoKey]
    /\ permits' = permits + 1
    /\ UNCHANGED <<waiting, Admins>>

\* `gateway create` and `gateway revoke`; the settings panel of the
\* desktop UI has the same two.
CmdGateway(a) == (\E n \in Nick : CreateRead(a, n)) \/ (\E k \in keys : RevokeRead(a, k))

AdminStep(a) ==
    \/ CmdGateway(a)
    \/ WriteOpen(a) \/ WriteDone(a) \/ Kill(a)

Serve(c) == Acquire(c) \/ Request(c) \/ CheckRate(c) \/ Validate(c) \/ Close(c)

Next ==
    \/ \E a \in Admin : AdminStep(a)
    \/ \E c \in Conn : Serve(c) \/ \E k \in Secret \cup {NoKey} : Connect(c, k)

Spec == Init /\ [][Next]_vars

\* The task reads from its client or writes to it, both without a timeout, and
\* holds its permit meanwhile.
AwaitsClient(c) == cpc[c] \in {"reading", "served", "denied", "limited"}

\* The runtime schedules the tasks that wait for no client.  Of the clients
\* nothing is assumed: they may never send, never read and never close.
TasksRun == \A c \in Conn : WF_vars(~AwaitsClient(c) /\ Serve(c))

FairSpec == Spec /\ TasksRun
-----------------------------------------------------------------------------
(* Properties. *)

\* "Revoke a key by nickname.  Immediate, no grace period.": once revoke_key
\* has returned, no request validated later is served with that key, as long as
\* the processes that manage keys take turns (create_key and revoke_key lock
\* nothing: one that read before a revocation and writes after it restores the
\* revoked key).
RevokedRefused ==
    [][\A c \in Conn : cpc[c] = "validating" /\ cpc'[c] = "served" =>
         overlap \/ \A k \in revoked : k.secret # api_key[c]]_vars

\* Between operations that take turns, the file holds exactly the keys that were
\* created and not revoked, except those that a kill in the middle of
\* std::fs::write made unreadable.
KeysExact ==
    (~overlap /\ \A a \in Admin : apc[a] = "idle") =>
        torn \/ keys = created \ (revoked \cup lost)

\* A connection is kept waiting by clients only: it gets its permit, however many
\* share the permits, unless from some moment on every permit there is belongs to
\* a connection whose client does not send its request or does not read its
\* answer.
WaitsForClientsOnly ==
    \A c \in Conn :
        \/ cpc[c] = "queued" ~> cpc[c] # "queued"
        \/ <>[](Cardinality({d \in Conn : AwaitsClient(d)}) = Permits)
=============================================================================
