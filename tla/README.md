# DSearch in TLA+

DSearch is a peer-to-peer search engine: every node scrapes pages into a local
redb store, exchanges announcements and records with its peers over QUIC, and
answers searches through a local HTTP API and an optional public gateway. This
directory holds TLA+ models of the parts in which order, concurrency and failure
matter and of the algorithms that decide what is the same and what is found, the
TLC configurations that check them on small instances, and TLAPS proofs of every
safety property they have: of the state machines for every value of the
parameters, of the algorithms for inputs of any size. Paths below are relative to
the repository.

* [Inventory](#inventory) · [Modules and code](#modules-and-code) ·
  [Runs](#runs) · [Bounds](#bounds) · [Fairness](#fairness) ·
  [Proofs](#proofs) · [Where the code and its documentation disagree](#where-the-code-and-its-documentation-disagree) ·
  [Not modelled](#not-modelled) · [Plan](#plan)

To check: `tlc -config <run>.cfg <module>` for each run of `PROJECT.json`, and
`tlapm <module>.tla` for each of `StoreProofs`, `NodeProofs`, `ExchangeProofs`,
`GatewayProofs`, `SchedulerProofs`, `LifecycleProofs`, `DataDirProofs` and
`AlgorithmProofs`.

## Inventory

The node is one tokio runtime with many tasks over shared state; next to it run
commands and the desktop UI, other processes that meet it in files, ports and the
lock of the database. What each component keeps, does, and has to get right:

| component | state | operations | interacts through | hard parts | must hold |
|---|---|---|---|---|---|
| record store (`src/storage/{mod,records,index,quota,expiry}.rs`) | redb tables `records`, `source_index`, `pins`, `inverted_index` | insert with dedup, delete, pin, unpin, evict, sweep, index | called by API handlers, replication, scraper, CLI; each operation is *several* transactions | interleaving between transactions, crash between them, lists collected in one snapshot and used in another, quota under races | the dedup tables agree; the newest record of a source wins; the tag index misses nothing that was indexed whole; the quota holds; nothing disappears without a reason; expired records go |
| announcements and replication (`src/node/announce.rs`, `src/scraper/replicate.rs`, `src/proto/frame.rs`) | announcement table, frames on the way | announce, push, handle, sweep | a QUIC stream between two nodes | interrupted reads, broken connections, edits and sweeps meanwhile, signatures of copies | frames in order, what was sent is held, signatures stay the makers' |
| connections and routing (`src/node/{server,dht}.rs`) | routing table, `peers.json`, connection counter, `running` | accept, handshake, dial, message loop, prune, stop | tasks per connection, a pruning task, `cmd_node` | table and file written in two steps by many tasks, panics, shutdown races | the table lists connected peers, the file follows the table, the counter is exact |
| windowed limiters (`src/storage/tier2_limiter.rs`, `src/node/relay.rs`, `check_rate_limit` of `src/api/gateway_keys.rs`) | a bucket per client | allow, record, remaining, prune | under a mutex each | window boundaries, a wall clock that is set back | a bound per window, consistent answers, own use only |
| gateway and keys (`src/api/{gateway,gateway_keys}.rs`) | `gateway_keys.json`, semaphore | create, revoke, validate, serve | a file shared between *processes* | lost updates, torn files, starvation of permits | revoked keys are refused, only clients keep others waiting |
| scraper scheduler (`src/scraper/{scheduler,job}.rs`) | list of job states | reload, run due jobs | `config.toml`, the store | edits while jobs run, failures, hangs, panics | list follows the file, `once` is once, `interval` keeps going |
| search cache (`src/search/cache.rs`, `Store::search_records`) | results by query | get, insert, clear | searches that hold no lock between get and insert | stale results written late | capacity, bounded staleness |
| node processes (`src/main.rs`, `src/cli/api_client.rs`, `src/ui/tray.rs`) | database lock, `node.pid`, `node.shutdown`, `api.port` | start, stop, restart, quit, record commands | the files, ports, signals | crashes that leave files, ids and ports used again, a watcher nobody listens to | the files are true, a command is applied once, a stop stops |
| shared files (`src/config`, `src/bootstrap`, `providers.rs`, `src/api/handlers.rs`, `src/ui`) | `config.toml`, `bootstrap.toml`, `search_providers.toml`, `banned_peers.json`, `peers.json` | every edit by CLI, API and UI | unlocked read-modify-write | kill between truncating and writing, unreadable files, versions | edits are exact, later versions are kept |
| identity (`src/proto/cert.rs`, `doctor`, `identity`, the wizard) | `identity.key`, `node.crt`, `identity.tls` | load, repair, generate, export, import | start-up and commands | kill between two of three files | the node stays who it is, with its certificate |
| algorithms (`src/search/query.rs`, `src/trust/{sign,pow}.rs`, `dht.rs`, `url_encode`, `parse_query_string`) | none | parse, match, rank, normalise, hash, compare, encode | – | corner cases | agreement with a definition of what is meant |
| NAT, sanitising, service, storage migrations, HTTP | none of their own | call the above | network, OS | I/O | not modelled |

The hazards found while reading, each at its line and with the properties that
would catch it going wrong, are listed under `hazards` in `PROJECT.json`.

## Modules and code

An action is what one task does between two points at which another task may
run: a redb transaction, a section under a mutex, or the code between two awaits
that touch shared state. `PROJECT.json` maps every definition to its lines.
Operators named after a "plausible bug" stand beside the definition they distort;
no specification uses them. They are there to show that each property notices
such a change.

### SourceMap, Store, MCStore, StoreProofs

`SourceMap` says what the store promises about deduplication, with one variable:
a source has at most one live record, replaced only by a strictly newer one and
otherwise only removed. `Store` is the implementation. redb serialises write
transactions and gives readers snapshots, so a transaction is an action:

* an API insert is `ApiInsert`, `CheckQuota` (a read), possibly `EvictCollect`
  (a read) and `EvictTx` (a write), then one of `InsertRefuse`, `InsertSkip`,
  `InsertCommit`, then one `IndexTx` per tag. Replication, scrapers and imports
  call `Store::insert_record` directly (`DirectInsert`), without `check_quota`;
* a delete reads twice (`DeleteBegin`, `DeleteRead`), writes (`DeleteTx`) and
  deindexes one tag per transaction (`DeindexTx`);
* a pin reads (`Pin`) and then writes (`PinTx`); `Unpin` is one transaction;
* a sweep reads the clock (`SweepStart`), collects (`SweepCollect`) and removes
  what it collected (`SweepTx`);
* `Crash` ends every task and keeps the tables, at any transaction boundary;
* an `IndexTx` or `DeindexTx` may fail (`CanFail`), which ends the operation: the
  record is stored, or gone, with some of its tags done.

`torn` is a history: the ids whose loop over their keys was cut short, by a failure, a
crash or a panic, or ran while another one did, since a delete that nothing disturbed
last cleared them. `tables` are the four redb tables, `locals` what a task carries between
transactions: the record of an insert, the id of a delete or pin, the collected
`victims`, the tags left to index, and a number. Records keep what the decisions
depend on: id, source hash, times, tags, the size of the body (what
`check_quota` counts) and of the JSON (what the table and `insert_record` count).
A sum of sizes (`TotalSize`, `SetSize`) is the number of pairs of a record and one
of its bytes, which is the same number and can be reasoned about without induction.

### Node, MCNode, NodeProofs

`phase[c]` is where the tasks of connection `c` are: accepted (`spawned`), in the
handshake (`handshake`, `acked`, `routedIn`, the phases the counter counts), dialling
(`dialing`, `routedOut`), in `handle_messages` with or without a known peer (`loop`,
`anon`), cleaning up (`ending`, `endingAnon`, `unrouted`), `closed`, `crashed` (the
task panicked in the message loop and never cleans up) or `leaked` (it panicked in the
handshake, with its entry in the table and its place in the counter). A node id comes
unchecked from the handshake, and the log line behind the update of the table slices
it at byte 8 (`src/node/server.rs:439`): `odd` are the ids that have the inside of a
character there. For one of them `HandshakePanic` takes the place of `EnterLoop`, and
`DialPanic`, which ends the process, that of `EnterLoopOut`. The update of the table
and the write of `peers.json` are separate actions, as are the count, the signal, the
sleep and the close of `Node::stop`, and the two halves of the pruning task. `AddPeer`
is `handle_add_peer` of the local API, which rewrites `peers.json` without the mutex
and without the table, and `peers add` of another process; `meddled` is a history of
that. A connection is used once; a peer has several. Time is the age of `last_seen`,
cut off just above `PEER_STALE_SECS`. A frame that is read and answered changes no
state here, since `last_seen` is not refreshed.

### Exchange, MCExchange, ExchangeProofs

What a node sends after it has dialled another one, and what that one does with
it. The dialling side announces the first records of its store (`Dial`, `Send`),
lists again and pushes the first few (`ListPushes`, `Send`). The wire carries
frames; the reader takes a header and then a body (`ReadHeader`, `HandleAnnounce`,
`HandlePush`) inside a `select!` whose timer drops the read under way (`TimerFires`),
with as many bytes of header or body as it had taken: of the first frame on the wire
the model keeps whether its next byte is its first, lies in its header or in its body,
and a dropped read moves that on, or past the end of the frame. Six bytes from the
middle of a frame (`ReadStray`) are an error that closes the connection, since text
never passes as a header (its length field is too large), except the last bytes of
the header of a push of 64 KiB or more, which pass as one with a bogus length; the
reader then takes what follows, over the ends of frames, until it has that many bytes
(`ReadStrayBody`). `Disconnect` may come at any time, also because a frame is over
`MAX_PAYLOAD_SIZE`. Both stores are edited (`Insert`,
`Delete`, `AnnounceLocal`) and swept (`SweepCollect`, `SweepDelete`: two
transactions) meanwhile. A record insert is one step here; `Store` has its
transactions. `sent`, `handled`, `pushed`, `missed`, `makers` and `interrupted` (a
read was dropped in mid-frame) are histories. `requests` counts dials and local
requests, up to `MaxRequests`. In the code the other constants are 50 announcements,
10 pushes and 256 bytes.

### WindowLimiter

`Tier2Limiter`, `RelayBandwidthAccount` and the gateway's `check_rate_limit` are
one algorithm with different costs, so there is one module and `kind` says which
of them a behaviour is about: `Allow`, `Record` (relay only, unchecked),
`Remaining`, `Prune`, `CheckRateLimit` (counts refused requests too). The clock is
the time left in each window; `SetBack` sets the gateway's wall clock back, with
the subtraction wrapping as in a release build. `recent` is a history of what was
let through, by age, `steady` one of how long the clock has been left alone, up to
`Settled`, by which it has caught up with the furthest it ever was and a window has
passed. The specification is `LimiterSpec`, since `GatewayProofs` is about this
module and `Gateway`.

### Gateway, GatewayProofs

Two halves over one file. `Admin`s are processes (CLI, UI) that read, change and
rewrite `gateway_keys.json`; `std::fs::write` is `WriteOpen` (truncate) and
`WriteDone`, and `Kill` may come anywhere. `Conn`s are connections of the node:
`Connect`, `Acquire` (tokio's semaphore is first come, first served), `Request`,
`CheckRate`, `Validate` (the file is read again for every request), `Close`.
Whether a request is within its limit is a choice; the limit is in `WindowLimiter`.
A task that reads its client's request or writes the response awaits the client,
without a timeout, and holds its permit meanwhile (`AwaitsClient`).
`created`, `revoked`, `lost` and `overlap` are histories.

### Scheduler, MCScheduler, SchedulerProofs

One task: `Wake` (reload, `sync_job_states`, read the clock), then for each job
`Start` or `Skip`, and for a started one `RunOk`, `RunErr` or `RunPanic`;
`EndPass` goes back to sleep. `Edit` changes `config.toml` at any moment, also to
something that does not parse. `sync_job_states` is `SyncNames`, which appends a
job if the list, as it grows, has none of its name, and retains the known ones
(`Subsequence`), and `Update`, which gives each the parameters of the first job of its
name: nothing keeps two jobs from having one name. The source of a job matters only to
whether its run is sure to end. What a run stores is an insert of `Store`.

### SearchCache

A search is `Lookup`, on a miss `Scan` and `Insert`; in between other searches,
`Write`s to the store, `Clear` and time happen. A result is represented by the
version of the records it was computed from. `Keep` and `Evicted` are the two
ways entries leave. The specification is `CacheSpec`, since `StoreProofs` is about
this module and `Store`.

### Lifecycle, LifecycleProofs

The processes that share data directories on one machine. A node process goes
through the steps of `cmd_node` (`Start`, `OpenStore`, `Serve`, `WritePid`, then
`Watch`, `Interrupt` or `TrayQuit`, `RemovePid`, `Exit`) and may fail or `Crash` at
any of them; its lock and ports are then free and its files stay. `StopRequest`,
`StopWaited` and `StopRemove` are `node stop`, on Windows through `node.shutdown`
and `taskkill`, elsewhere through a signal the node does not handle. A record
command (`OpBegin` ... `OpDirect`) goes to whoever listens on the port in
`api.port`, or opens the store itself.

### DataFiles, Identity, MCDataDir, DataDirProofs

`DataFiles` is one file of a data directory that several programs edit; `kind`
says which. Each command, request and button is an action that reads the file,
decides whether it can and has to change it and makes the new content (`Begin`);
then come `Save` (`save_config` reads the version again), `Truncate` and `Write`,
with other editors and `Kill` in between. `expected` is what the completed edits
amount to. `Identity` is the three files of a node's identity with everything that
writes them: `Load`, `LoadRepair`, `LoadGenerate` (`load_or_generate_identity`),
`CheckIdentity` (`doctor`), `Wizard`, `Export`, `Import`; `Show` (`identity show`)
reads the key alone, at any moment, and makes its id the one the directory is known
by. `mixed` and `bare` record the cases below in which the code does not keep the
files consistent, or showed an identity while one of them was missing.
`MCDataDir` puts the two side by side.

### Query, Canonical, Algorithms, MCAlgorithms, AlgorithmProofs

Pure operators. `Query`: `parse_query` as a fold over tokens, date filters (Hinnant's
algorithm), `matches_query`, and `search_records` with the narrowing of its scan to
one schema and a limit that wraps around. `Canonical`: `normalize_source_url`, the
canonical encoding behind record ids, proof-of-work thresholds, `find_closest` over
ids that are any text, `url_encode`, `percent_decode`, `parse_query_string`. A loop of
the code is a fold whose step is an operator of its own (`ParseToken`, `PlaceMatch`,
`KeepParam`, `DecodeChar`, `AddPair`), a sort a fold that inserts. `Algorithms` calls
one of them once, on any of the inputs it is given, and states for each result what it
should be in terms that do not follow the code: a query by what each of its tokens
asks for, a date by counting days, a search by which records are better than which,
bytes by the numbers they are. Its assumptions say what inputs are. `MCAlgorithms`
gives it every input of small sets.

## Runs

| run | question | properties |
|---|---|---|
| `MCStore_concurrent` | two clients, the sweeper and crashes, `evict_oldest` | `SourceIndexExact`, `ImplementsSourceMap`, `QuotaRespected`, `RemovalJustified`, `IndexComplete` |
| `MCStore_sweeping` | one client whose index transactions may fail, tagged records, ids that come back with another lifetime, `pause_scraper`, oversized records | `IndexComplete`, `ExpiredSwept` (liveness) |
| `MCStore_panic` | the same, looking for the panic in `index_record` | `NeverPanics` is violated |
| `MCNode_table` | two inbound and one outbound connection of two peers, panics in handshakes and loops, added peers, pruning, shutdown | `RoutedIsConnected`, `PeersFileFresh`, `CounterExact`, `GhostsPruned` (liveness) |
| `MCExchange_sync` | two nodes, two sessions, reads interrupted anywhere in a frame, broken connections, edits and sweeps | `HandledInOrder`, `Delivered`, `SignedByMaker`, `SessionDrains`, `StaleSwept` (liveness) |
| `WindowLimiter_bounds` | the three limiters, two clients, `record`, pruning, a clock set back | `TwoWindowBound`, `AnswersAgree`, `LimitedByOwnUse` |
| `Gateway_serving` | two managing processes that may be killed, two connections, one permit | `KeysExact`, `RevokedRefused`, `WaitsForClientsOnly` (liveness) |
| `MCScheduler_edits` | six configurations, one with two jobs of one name, two edits, failures, hangs, a panic | `OnceStaysDone`, `JobsFollowConfig`, `IntervalJobsRun` (liveness) |
| `SearchCache_reuse` | two searches over three queries and two entries, two writes | `CapacityHeld`, `StalenessBound` |
| `Lifecycle_dirs` | two process ids, two directories, both platforms, crashes, stop and record commands | `FilesTrue`, `AppliedOnce`, `StopsWhenTold` (liveness) |
| `MCDataDir_edits` | each of five shared files with two editors; the identity files and `identity show`; kills | `EditsExact`, `FutureKept`, `CertMatches`, `IdentityKept` |
| `MCAlgorithms_results` | the algorithms on all inputs of small sets | `QueryMeaning`, `DatesExact`, `SearchBest`, `ContentIdentified`, `BytesAsNumbers`, `ParamsKept` |

Every module defines its type invariant (`TypeOK`, `IdTypeOK`, `LimiterTypeOK`);
each is proved, by itself or as part of an inductive invariant below. What the runs show:

* **The dedup tables agree at every transaction boundary**, although deletes,
  sweeps and evictions act on snapshots: their write transactions compare the
  `source_index` entry with the id before removing it, and without that
  comparison the property fails. The store implements `SourceMap`.
* **The quota holds under races**: the deciding check is inside the write
  transaction. The eviction's unsigned subtraction cannot underflow.
* **A record disappears only** when superseded, deleted, expired or collected by
  an eviction. The run gives every record one lifetime. If an id is deleted and
  inserted again with a *longer* lifetime between the phases of a sweep, the
  sweep still removes it.
* **A stored record that nothing is indexing lacks an entry of the tag index** only
  if a loop over its keys was cut short (a failed transaction, a crash, a panic) or ran
  while another one did. It then lacks it until a delete clears the rest, since
  inserting the same record again is skipped or panics. The index also keeps entries of
  records that are gone.
* **`peers.json` and the table**, as far as the tasks that take the mutex go, differ
  only while one of them is between its update and its write. An added peer, or a task
  that panics in between, makes them differ until the next such write. An entry without
  a live connection comes only from a panicked task, and is then pruned. (A live
  connection without an entry is possible: the first of two connections to a peer
  that ends removes the entry.)
* **The counter counts the handshakes under way and those that panicked**: it never
  underflows, and every other way out of a handshake gives its place back. Each panic
  on an odd id takes a place of the cap for good; with as many of them as the cap, the
  node accepts nobody any more.
* **Messages are handled in order and at most once**, wherever in a frame a read is
  interrupted; but an interrupted read may skip messages, in silence if the bytes that
  dropped reads take come to an end with a frame. A connection ends, or is
  read to its end; through one without an interruption everything is handled. What is
  handled is held: each pushed record or a newer one of its source, and each
  announcement that fits, unless the node refused, deleted or swept it. Copies keep
  the signature they were first given.
* **Limits are per fixed window**: at most twice the limit within any interval of
  that length, plus once for every time the clock is set back. A refusal is always
  the client's own doing, except until a clock that was set back has caught up.
* **Keys**: as long as the managing processes take turns, revocation is final and
  the file exact; a kill in the middle of a write leaves an unreadable file that
  the next `create_key` replaces, losing the other keys (`lost`).
* **A connection to the gateway waits for clients only**: it gets its permit unless
  every permit stays with connections whose clients do not send or do not read. Such
  clients can keep them all for ever.
* **Jobs** follow the configuration: a reload lists each name, with the parameters of
  the first job of that name. Two jobs that share a name when the scheduler starts stay
  two, each with a `once` run of its own; of two added later the second is never
  listed. Interval jobs keep running unless the task hangs in a feed or API request,
  panics, or the job is marked completed.
* **A cached result** is at most one ttl plus one search out of date.
* **A running node is found**: `api.port` is its port, because it is written after
  the database is locked, and `node.pid` is a node of the directory, unless it
  crashed or is being stopped. A command is never applied twice. `node stop` ends
  the process it found, if need be with `taskkill`.
* **Edits that take turns are exact** for all five files, whatever is killed; a
  file cut short by a kill is read as an empty one. A `config.toml` of a later
  version is changed by nothing but `config reset`.
* **No kill between the writes of the identity files changes the identity** the
  directory is known by, and a load returns the certificate of its key, with the
  exceptions listed below: above all, `identity show` may have shown a key
  that the next load replaces, while one of the files was missing.
* **The algorithms** agree with a definition of what they return on all small inputs
  (and, by the proofs, on all others). Where that differs from what the
  documentation leads one to expect, the definition says what the code does: an `OR`,
  wherever it stands, joins the last two terms before it and the token after it, as
  typed; a search with a schema filter finds records of that very schema only, among
  as many as its limit, multiplied in a machine word, makes it scan; ids at one distance
  come in the order of the table. The conditions: at most one filter of a kind and one
  `OR`, URLs without empty inner segments, tags without commas, ASCII parameters.

## Bounds

* Store: two sources, two versions of one of them (so that replacement, skipping
  and re-insertion after removal all occur), two clients (every pair of racing
  operations), one sweeper; one version has two tags, so that a crash or another loop
  can come between their transactions. `MCStore_sweeping` has one client, and failing
  transactions instead of crashes. Sizes and `Quota` are chosen so that some pairs of
  records fit and others have to evict. `MaxTime` is past the last expiry; the
  clock stops there, which only removes behaviours in which nothing new can expire.
* Node: two connections of one peer and one of another, of both directions, and
  one slot: two handshakes can race for it and two connections share an entry. Any of
  the ids may be odd. `PEER_STALE_SECS` is 0 ticks, so that an entry is stale after one.
* Exchange: two nodes of which one dials, three records (two versions of one
  source, one content-addressed record of the CLI) in any initial distribution,
  one record announced and two pushed at most, so that a frame can be skipped, cut or
  taken for a header with others before and behind it. `MaxRequests` is 2: two sessions,
  or one and an edit, so that a record can be listed for the announcement and be gone
  or replaced before the push.
* WindowLimiter: two clients; costs below, at and above the limit, `MaxUsed` at twice
  the limit so that `record` and counting overshoot; the clock is set back twice by
  up to more than a window, so that it can be behind by more than any one setting.
* Gateway: two managing processes, two secrets and two nicknames, two connections
  and one permit. `MaxKeys` bounds the secrets generated over a behaviour.
* Scheduler: two jobs, so that one can starve the other; intervals of one and two
  passes; one configuration has two jobs of one name; `MaxEdits` bounds the edits (two:
  there and back), the liveness property speaks of what happens after the last.
* SearchCache: one query more than fits; `MaxScan` bounds a search's duration, and
  the staleness bound is stated in terms of it.
* Lifecycle: two process ids, directories and ports, two starts (an id and a port
  can be used again, and two nodes can want one directory), two commands.
* DataFiles: two editors, four edits and one kill; two names, roles and values, one
  job. Identity: one process at a time, three identities, two kills: overlapping
  operations on the identity are excepted by both properties.
* Algorithms: queries of up to four of twelve tokens; dates in ten years around
  1970, leap and century years, months 0 to 13, days 0 to 32; four records;
  URLs with two parameters of three keys; bytes of two bits and hashes of three
  bytes; tables of four of nine ids of two bytes, shorter and longer ones, ids in two
  spellings and with pairs that are no bytes among them; texts of four characters.
  `WordSize` is 4 instead of 2^64, so that a limit of two already wraps around;
  `ScanFactor` is 2 instead of 10 and `DaySeconds` 60 instead of 86400, because TLC's
  integers have 32 bits; the proofs are for any values.

Symmetry (`MCStore_concurrent`) permutes clients only, and that run checks no
liveness.

Deadlock is checked where time or a client can always step. `Exchange`,
`Lifecycle` and `MCDataDir` stop when their bounds on sessions, starts and edits
are used up, and `MCAlgorithms` when a result is there; these four runs do not
check it.

## Fairness

* Store: `WF` of the sweeper's steps. Its interval timer keeps firing and redb
  lets every writer commit. Clients get none.
* Node: `WF` of the clock, of pruning and of the steps a task takes without waiting
  for its peer (routing, file writes, clean-up). Handshakes, frames and the ends
  of streams depend on the peer and get none.
* Exchange: `WF` of the sending task and of both sweepers, which the runtime keeps
  running, and of the reading task together with its timer: a read ends or is
  dropped. One of them always happens while there are bytes on the wire, but
  which is open: what is left of a frame may be six bytes, which are read, or
  fewer, which only a dropped read takes. The network's failures get none.
* Gateway: `TasksRun` gives the runtime every step of a connection but those that await
  the client: reading the request (`src/api/gateway.rs:107`) and writing the response
  (`:182`), both without a timeout. Of clients nothing is assumed.
* Scheduler: `WF` of the loop and of runs of url and keyword jobs, whose fetches
  have a read timeout and a size limit. Feed and API runs use `reqwest::get`
  without a timeout and get none; `IntervalJobsRun` excepts a hang.
* Lifecycle: `WF` of a node's own steps (a start goes on or fails, a node that stops
  exits), of the watcher, which polls, and of `node stop`, whose wait is 20 polls.
  Users and crashes get none.

## Proofs

TLAPS proves every invariant and every action property the passing runs check, for
every value of the constants that the named assumptions of the modules allow. Each
theorem about a specification has the same shape: an invariant
that is inductive, one lemma or step per action showing that it is kept, and a last
step by temporal logic. The inductive invariants, and why the property alone is not
one of them:

`StoreProofs`, about `Store`
* `TypeCorrect`: `Spec => []TypeOK`. `LocalsOK` adds what a task's locals are at
  each point of its operation.
* `DedupExact`: `Spec => []SourceIndexExact`, and `Refinement`:
  `Spec => ImplementsSourceMap`, if ids are content addresses (`ContentAddressed`:
  the id determines source hash and creation time, because both are hashed into
  it). Removals act on records collected earlier; that whatever a task holds is a
  submitted record makes its source still the same. Each of the three writers of
  the dedup tables keeps the agreement, and each step is a `Put`, a `Drop` or a
  stutter of `SourceMap`.
* `RemovalsJustified`: `Spec => RemovalJustified`, if an id stands for one record
  (`OneRecordPerId`; with two lifetimes under one id the property is false, see
  below). `ReasonInv`: a sweep has collected only what had expired by the time it
  read, a delete only its target.
* `QuotaCorrect`: `Spec => []QuotaRespected`, without any condition. `QuotaInv` adds
  that a record is stored under its own id, that the store is finite, and that a
  client that evicts nothing has collected nothing. `PutBytes`, `DropBytes` and
  `VictimBytes` are about counting: what is collected was in the store at one moment,
  so it is no larger than the quota.
* `IndexCorrect`: `Spec => []IndexComplete`, for any clients and sweepers, with crashes,
  failing transactions and panics, if the records of an id have the same tags and none
  lists a tag twice (`TagsPerId`; the tags are part of what the id is the hash of).
  `IndexInv`, about the ids that are not `torn`: at most one loop works on such an id
  (`Alone`); while none does, it is indexed under all its tags or none (`Whole`), and a
  live one under all (`LiveFull`); an indexing loop has written the tags it is done with
  and finds the others absent, or finds all present, and a deindexing loop works on a
  record that is gone (`LoopInv`); what a delete holds is the record of the id it deletes
  (`HeldInv`). With several clients a delete may deindex what an
  insert has just indexed: then the two loops overlap, and the id is `torn`.

`StoreProofs`, about `SearchCache`
* `CapacityCorrect`: `CacheSpec => []CapacityHeld`; `StalenessCorrect`: `CacheSpec =>
  StalenessBound`. `AgeInv`: a result a search is about to insert has been outdated no
  longer than the search took, an entry's no longer than its age and the longest
  search.

`NodeProofs` (finitely many connections)
* `CounterCorrect`: `Spec => [](TypeOK /\ CounterExact)`. The two are inductive only
  together: the decrement keeps the counter a natural number because it is exact,
  and it is exact only when the places of panicked handshakes are counted (`Charged`).
* `NoGhosts`: `Spec => []RoutedIsConnected`. `FileFollowsTable`:
  `Spec => []PeersFileFresh`. All three are for any set of odd ids.

`ExchangeProofs`
* `TypeCorrect`, `OrderCorrect`: `Spec => []HandledInOrder`. `StreamInv` says what
  the wire holds: the last of the frames sent, in their order, so that the reader has
  got past the others (`Passed`); the messages handled have places among those, in
  order (`InOrder`); and until a read is interrupted they are all of them, and every
  frame on the wire is whole.
* `SignatureCorrect`: `Spec => []SignedByMaker`; `SigInv` adds the same of the
  messages on their way.
* `DeliveryCorrect`: `Spec => []Delivered`. What a handled message was for has been
  done and stays so (`HandledDone`) under edits, sweeps and newer records; `AnnInv`:
  an announcement expires no earlier than its record, so a key that a sweep collected
  is one of an expired record even if it was announced again meanwhile. That a drained
  session without an interruption has handled everything follows from `StreamInv`.

`GatewayProofs`, about `Gateway`
* `TypeCorrect`; `KeysCorrect`: `Spec => []KeysExact`; `RevocationCorrect`:
  `Spec => RevokedRefused`. `KeyInv` says that no secret belongs to two keys,
  wherever they are, and no list has a nickname twice (revoking goes by nickname and
  validation by secret); `TurnsInv` that, as long as managing processes take turns, an
  unreadable file hides the live keys and whoever is at work holds the list its
  success makes right.
* `PermitsCorrect`: free permits and connections that hold one add up.

`GatewayProofs`, about `WindowLimiter`
* `WindowsCorrect`: `LimiterSpec => []TwoWindowBound`; `OwnUseCorrect`:
  `LimiterSpec => []LimitedByOwnUse`; `AnswersCorrect`: `LimiterSpec => AnswersAgree`,
  for any limit, window, costs and clients and any bounds on setting the clock back.
  `UpperInv`: what was let through since the start of a window is at most what its
  bucket spent, plus a limit per time the clock was set back, and what was let
  through before it adds one limit. `LowerInv`: what a bucket of counted requests
  spent was let through within the last window, unless the window was started by a
  clock that has not yet caught up. A tick moves every age by one, so the counts
  before and after it are compared by an injection between the pairs they count.
  This proof attempt showed that the settling time must allow for every time the
  clock was set back, which the model now does (`Settled`), and the run with two.

`SchedulerProofs`
* `OnceCorrect`: `Spec => []OnceStaysDone`; `ConfigFollowed`: `Spec => JobsFollowConfig`.
  `SchedulerInv`: a job that finished since it was added, and whose name is not listed
  twice, is on the list with a run counted, and a job that runs was due. Names need not be
  unique: the work is in what `SyncNames` returns (`SyncNamesIs`: the names of the
  configuration, none twice that was not before), for which `Subsequence` is
  characterised (`SubsequenceIs`).

`LifecycleProofs`
* `FilesCorrect`: `Spec => []FilesTrue`; `CommandCorrect`: `Spec => []AppliedOnce`;
  `StoreOwned`: no two nodes have one database open. `LifeInv`: a node past
  `open_store` has the lock, which is what orders the writers of `api.port`.

`DataDirProofs`
* `EditsCorrect`: `DirSpec => []EditsExact`; `FutureCorrect`: `DirSpec => FutureKept`.
  `FilesInv`: with turns, an editor holds what the file is to say next, also between
  truncating and writing; nothing an editor holds has a later version, and next to a
  file of a later version only resets get past reading.
* `CertCorrect`: `DirSpec => []CertMatches`; `IdentityCorrect`: `DirSpec => IdentityKept`.
  `IdInv` lists, per operation, which of its writes are left and what the files
  written so far hold (`Doing`), that two keys that agree have their certificate next
  to them, that a directory known by an identity has all its files, and that in one that
  has them only the identity of its key, or one that was asked for, is written
  (`PlanInv`, which `identity show` needs: it may read the key at any moment).

`AlgorithmProofs`
* `DatesAreExact`, `SearchIsBest`, `ContentIsIdentified`, `BytesAreNumbers`,
  `ParamsAreKept`, `QueriesMean`: `Spec => []P` for the six properties of the run, for
  inputs of any length. The invariant of the specification, `Answered`, only says that
  the input is one that is given and that the output is what the algorithm returns for
  it; the work is in one lemma per algorithm on what that is (`DateResult`,
  `SearchResult`, `SourceResult`, `IdResult`, `PowResult`, `ClosestRanked`,
  `ParamsResult`, `QueryResult`).
* The provers cannot use induction rules that take a predicate. Induction is therefore
  over *sets*: a set of numbers that holds 0 and the successor of each of its members
  holds every number (`SetInduction`, from the well-foundedness of the natural
  numbers), and the same for sequences and appending (`SeqInduction`). A fold is the
  last of a sequence of intermediate results, each made from the one before by the
  step of the loop (`Run`, `Loop`), so that a loop of the code is proved by a loop
  invariant: what holds before the first step and is kept by each holds at the end.
  For every fold there is a lemma that says what a step is, and one with its loop
  invariant.
* What these invariants are: of the parser, that the terms, phrases, exclusions and
  filters read so far are those of the tokens read so far (`ReadQuery`), and that the
  terms stay as they were typed, in lower case, until an `OR` joins the last of them
  with the token behind it, after which plain terms follow (`Begun`, `Halfway`,
  `ReadTerms`; `TermsMeant` says what the groups of such terms find); of
  `percent_decode`, that what was decoded, with an escape that is still open, is the
  text that was encoded; of the sorts, that what was placed is in order and that
  equals are in the order they came (which is what makes two normal forms equal
  exactly when every key has the same values in the same order); of the record id,
  that a field can be read back from its length, and tags from their commas. Dates are
  the days before each month (`DaysBeforeMonth`) and the leap years before a year
  (`LeapYears`); thresholds and distances need that the first differing bit decides,
  whatever powers of two follow.
* Assumptions on inputs: their types; the records of a search are numbered in the
  order in which the scan lists them, and limits are below `WordSize`, as those of a
  machine word are; a routing table lists no id twice; a tag is not empty and holds no
  comma, and a queried tag or schema is not the word that stands for none; the
  characters `url_encode` leaves alone are none of the five the encoding itself is
  made of (space, `%`, `+`, `&`, `=`), which are the ones that stand for everything it
  escapes.

Assumptions on constants are about types, ranges and distinctness of names only (a
process id is not the word that marks the command line's lock, the default role and
name are among the roles and names, `Missing` and `Torn` are no identities), with
these exceptions: the two nodes of `Exchange`, and the inputs of `Algorithms` as
above. Bounds (`MaxTime`, `MaxKeys`, `MaxStarts`, ...) are arbitrary natural numbers
in the proofs.

Only model-checked:
* liveness under fairness (`ExpiredSwept`, `GhostsPruned`, `SessionDrains`, `StaleSwept`,
  `WaitsForClientsOnly`, `IntervalJobsRun`, `StopsWhenTold`), which is out of the prover's
  reach;
* `NeverPanics`, which is false.

## Where the code and its documentation disagree

With a run that shows it:

* `MCStore_panic`: `index_record` means to skip an id that is already indexed
  (`src/storage/index.rs:31`, `:45`) but reaches `unreachable!()`. Sweeps,
  evictions and replacements never deindex, so inserting a record that was swept
  is enough, and a pushed record takes the connection's task with it.

Seen in the code while modelling; the properties are stated around these cases.

Store and exchange:

* A record pinned between the two phases of a sweep (or an eviction) is removed
  (`src/storage/records.rs:386`); `delete_expired_records` promises "not pinned".
* `warn_only` logs "insert allowed", and `insert_record` then refuses the record.
* Nothing on the insert path checks that an id is the content address; with one id
  under two sources `SourceIndexExact` is false. Records of the scraper do not have
  the id `verify_record_id` computes: it is made without the tag they are stored with.
* `insert_announcement` signs and then measures, so the signed announcement of a
  record with content-addressed ids is refused above 256 bytes
  (`src/storage/mod.rs:199`, `src/model.rs:183`), which README and `announce.rs` do
  not expect. Announcements to peers carry the signature of the record, and nothing
  verifies what arrives although a comment says so (`src/node/server.rs:562`).
* A permanent record (`expires_at` 0) that a peer announces is swept at once: the
  sweep of announcements makes no exception for 0 (`src/storage/records.rs:447`).
* A record the CLI inserted without a key is signed by the first node that gets it.
* Each key of the tag index has a transaction of its own, after the record's
  (`src/storage/index.rs`): a failure or a kill in between, or a delete and an insert of
  one id at the same time, leaves a record a tag search misses, and nothing repairs it.
* An interrupted `read_frame` loses the bytes it had taken (`src/node/server.rs:518`,
  `src/proto/frame.rs:71`, `:93`). The next read mostly fails and closes the
  connection, but it can also be in step again, with messages skipped in silence, or, in
  the header of a push of 64 KiB or more, find a header of bogus length and take what
  follows for its payload.
* A record of nearly `MAX_RECORD_SIZE` makes a push of over `MAX_PAYLOAD_SIZE`, which the
  reader refuses and with it the connection.
* Only the first 50 records are announced and the first 10 pushed, by id.
* A `PeerExchange` message is answered by a `PeerExchange` message.
* `handle_storage_export` opens the database its own node has open, which fails.

Node and limits:

* "Active connection count, capped at max_connections" (`src/node/server.rs:30`) counts
  handshakes only, and with them those that panicked.
* A node id is sliced at byte 8 in log lines (`src/node/server.rs:439` and where
  dialling). One with the inside of a character there makes the task panic: inbound, it
  takes its place in the counter with it; dialling, it ends the process.
* `handle_add_peer` (`src/api/handlers.rs:575`) rewrites `peers.json` without
  `peers_file_mutex`, whose comment (`src/node/server.rs:34`) has it serialise the
  writers. What it added lasts until the node writes the file again.
* Ids come unchecked from the handshake. Of one that is not 64 hexadecimal digits
  `hex_to_bytes` (`src/node/dht.rs:106`) drops the pairs that are no bytes, and
  `xor_distance` ("XOR distance between two hex-encoded node IDs") is 0 beyond its end:
  short ids are near to everything, and `AA`, `aa` and `+a` with `0a` are at one distance.
* A client of the gateway that never sends its request, or never reads its response,
  keeps its permit (`src/api/gateway.rs:107`, `:182`); the rate limit counts requests and
  does not look at how long one takes.
* `last_seen` is never refreshed, so peers are pruned some time after their
  handshake however active they are (`src/node/dht.rs:5` speaks of no activity).
* `Node::stop` may close the endpoint before a message loop has sent Goodbye.
* The "rolling" window of `Tier2Limiter` is a fixed one.
* Two processes that rewrite the key file at the same time can restore a revoked
  key (`src/api/gateway_keys.rs:77`); revocation is documented as immediate.

Scheduler and files:

* Nothing keeps two jobs from having one name (`src/main.rs:1380`,
  `src/ui/settings.rs:490`). Two that are there at the start both stay, get the
  parameters of the first at the next reload, and each has its run, although
  `src/scraper/scheduler.rs:8` has "once" jobs "run once on startup and then disabled";
  of two added later the second is never listed.
* A job keeps its old `source` after an edit, stays completed when `once` becomes
  `interval`, and `on-change` jobs store unchanged content as well. Keyword jobs
  load the providers from a directory named by the job's target.
* Overlapping edits of any shared file lose updates. `config.toml` left empty by a
  kill is read as the defaults without a message. Bans are stored and never enforced.
* `identity show` (`src/main.rs:848`) reads `identity.key` alone: after an `init` that was
  killed behind its first file it shows an id that the next start replaces.
* `identity import` into a directory without `identity.tls` (the export leaves it
  out) is undone by the next start, which generates a new identity. The wizard
  overwrites an existing one. A `node.crt` of another key is not noticed while
  `identity.tls` matches, also not by `doctor`, which reports "TLS cert valid,
  matches keypair", and whose check may itself rewrite the files.

Processes:

* A `node.shutdown` left by `tray stop` or the tray's Quit stops the next headless
  node; in UI mode the watcher removes the file and nothing happens.
* `node.pid` may name a process that has nothing to do with the node any more;
  `node stop` ends it. On unix its last step may remove the file of a new node.
* `api.port` is never removed: a command may reach the node of another directory.
* `node restart` does not start a node.

Queries and encodings:

* The comment of `parse_query` (`src/search/query.rs:22`) has free text mean AND and `OR`
  an alternative. The code (`:48`, `:264`) makes `x a OR b` one group of all three terms;
  in `a OR b OR c` the middle term is kept with a literal `OR:` and lost; the token after
  `OR` is neither parsed nor lower-cased; an `OR` at the start is a word, one at the end
  joins the last two terms.
* `search_records` lists the records whose schema equals the lower-cased value of the
  filter (`src/storage/mod.rs:258`, `src/storage/records.rs:162`), while `matches_query`
  (`src/search/query.rs:188`) takes those that contain it: `schema:rust` does not find
  the schema `rust/crate`, and no filter finds a schema with a capital letter.
* A search looks at ten times its limit of records only, in the order of their ids; the
  product (`src/storage/mod.rs:261`) wraps around for a very large `limit:` in a release
  build and panics in one with overflow checks. `list_records` with limit 0 returns one
  record. Of repeated field filters the last one counts.
* `percent_decode` makes one character of each byte of UTF-8, and accepts one digit
  or a plus sign and a digit. Tags are joined by a comma before hashing, so a tag
  with a comma is two. `normalize_source_url` leaves one of several trailing
  slashes, takes a `?` right after the host as part of it, and never strips the
  tracking parameters its list spells in mixed case. The UI's search escapes only
  spaces.

## Not modelled

The cryptography, TLS, HTTP parsing and formatting, the encoding of messages, NAT
packets, text sanitising, widgets, printing, service installation: they keep no state
that other parts depend on, or are I/O. `src/trust/reputation.rs` is empty, and there
is no storage migration to run: a version is compared and written in one transaction.
Inside the modelled parts: I/O errors of redb other than those of a client's index
transactions (a failed sweep or insert changes nothing), messages that change no state
(`Ping`, `SearchQuery`, `PeerExchange`), the accept loop waiting for the handshake of
a connection it is about to reject, `tokenize` and `score_record`, and mining.

## Plan

Done: the store with its abstract specification, connections and routing, the
exchange between nodes, limiters, gateway, scheduler, search cache, processes,
shared files, identity and the algorithms; proofs of all safety properties the
runs check.

What could be added: refinements of the other components (the search cache as a map
that forgets, the key file as a set of valid keys, the exchange as a queue) with their
steps proved; `tokenize` and `score_record`, which `Query` takes as given.
