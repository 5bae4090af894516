---------------------------- MODULE SearchCache ----------------------------
(***************************************************************************)
(* The cache of search results (src/search/cache.rs) as search_records     *)
(* (src/storage/mod.rs) uses it: look up, on a miss scan the records in a  *)
(* read transaction, rank, insert the result.  The cache's methods hold a  *)
(* mutex; search_records holds nothing between them, and a write to the    *)
(* store touches no entry.                                                 *)
(*                                                                         *)
(* A result is the version of the records it was computed from.            *)
(***************************************************************************)
EXTENDS Naturals, FiniteSets

CONSTANTS
    Searcher,    \* tasks that search
    Query,       \* cache keys: a query with its limit
    NoQuery,
    Ttl,         \* ttl, in ticks
    MaxEntries,  \* max_entries
    MaxWrites,   \* bound of the writes to the records
    MaxScan      \* the longest time from the snapshot of a scan to its insert

ASSUME CacheBounds ==
    /\ Ttl \in Nat \ {0} /\ MaxEntries \in Nat \ {0}
    /\ MaxWrites \in Nat /\ MaxScan \in Nat
ASSUME QueryAssumption == NoQuery \notin Query

VARIABLES
    version,   \* the number of writes to the records so far
    entries,   \* keys with an entry
    result,    \* its result: a version
    inserted,  \* its age, cut off at Ttl
    spc,       \* where each search is
    query,     \* its key
    found,     \* the result of its scan
    busy,      \* the time since its snapshot
    outdated   \* history: ticks since a version was the current one (cut off)

cache     == <<entries, result, inserted>>
searches  == <<spc, query, found, busy>>
cacheVars == <<version, cache, searches, outdated>>

Versions == 0..MaxWrites
Bound    == Ttl + MaxScan

CacheTypeOK ==
    /\ version \in Versions
    /\ entries \subseteq Query
    /\ result \in [Query -> Versions]
    /\ inserted \in [Query -> 0..Ttl]
    /\ spc \in [Searcher -> {"idle", "scan", "insert", "hit"}]
    /\ query \in [Searcher -> Query \cup {NoQuery}]
    /\ found \in [Searcher -> Versions]
    /\ busy \in [Searcher -> 0..MaxScan]
    /\ outdated \in [Versions -> 0..Bound]

CacheInit ==
    /\ version = 0
    /\ entries = {}
    /\ result = [q \in Query |-> 0]
    /\ inserted = [q \in Query |-> 0]
    /\ spc = [s \in Searcher |-> "idle"]
    /\ query = [s \in Searcher |-> NoQuery]
    /\ found = [s \in Searcher |-> 0]
    /\ busy = [s \in Searcher |-> 0]
    /\ outdated = [v \in Versions |-> 0]

\* Plausible bug: an entry is still good when its age is the ttl.
FreshAtTtl(q) == inserted[q] <= Ttl

Fresh(q) == inserted[q] < Ttl

\* The cache holds the keys K; a removed entry leaves nothing behind.
Keep(K) ==
    /\ entries' = K
    /\ result' = [q \in Query |-> IF q \in K THEN result[q] ELSE 0]
    /\ inserted' = [q \in Query |-> IF q \in K THEN inserted[q] ELSE 0]

\* search_records calls SearchCache::get, which removes an expired entry.
Lookup(s, q) ==
    /\ spc[s] = "idle"
    /\ query' = [query EXCEPT ![s] = q]
    /\ \/ /\ q \in entries /\ Fresh(q)
          /\ spc' = [spc EXCEPT ![s] = "hit"]
          /\ found' = [found EXCEPT ![s] = result[q]]
          /\ UNCHANGED cache
       \/ /\ ~(q \in entries /\ Fresh(q))
          /\ spc' = [spc EXCEPT ![s] = "scan"]
          /\ Keep(entries \ {q})
          /\ UNCHANGED found
    /\ UNCHANGED <<version, busy, outdated>>

\* list_records reads a snapshot of the records.
Scan(s) ==
    /\ spc[s] = "scan"
    /\ spc' = [spc EXCEPT ![s] = "insert"]
    /\ found' = [found EXCEPT ![s] = version]
    /\ UNCHANGED <<version, cache, query, busy, outdated>>

\* The result is returned.
Return(s) ==
    /\ spc' = [spc EXCEPT ![s] = "idle"]
    /\ query' = [query EXCEPT ![s] = NoQuery]
    /\ found' = [found EXCEPT ![s] = 0]
    /\ busy' = [busy EXCEPT ![s] = 0]

\* Plausible bug: an entry goes only when the cache is over its capacity.
EvictedOver(K) ==
    LET good == {k \in entries : Fresh(k)} IN
    /\ K \subseteq good
    /\ \A k \in K, l \in good \ K : inserted[k] <= inserted[l]
    /\ IF Cardinality(good) <= MaxEntries THEN K = good
       ELSE Cardinality(K) = MaxEntries

\* K is what insert leaves of the entries: the expired ones go first, then the
\* oldest ones while the cache is full, even if the key itself has an
\* entry among them.
Evicted(K) ==
    LET good == {k \in entries : Fresh(k)} IN
    /\ K \subseteq good
    /\ \A k \in K, l \in good \ K : inserted[k] <= inserted[l]
    /\ IF Cardinality(good) < MaxEntries THEN K = good
       ELSE Cardinality(K) = MaxEntries - 1

\* SearchCache::insert.
Insert(s) ==
    LET q == query[s] IN
    /\ spc[s] = "insert"
    /\ \E K \in SUBSET entries :
         /\ Evicted(K)
         /\ entries' = K \cup {q}
         /\ result' = [k \in Query |-> IF k = q THEN found[s] ELSE IF k \in K THEN result[k] ELSE 0]
         /\ inserted' = [k \in Query |-> IF k \in K \ {q} THEN inserted[k] ELSE 0]
    /\ Return(s)
    /\ UNCHANGED <<version, outdated>>

\* The cached result is parsed and returned.
ReturnHit(s) ==
    /\ spc[s] = "hit"
    /\ Return(s)
    /\ UNCHANGED <<version, cache, outdated>>

\* handle_storage_cache calls SearchCache::clear.  The invalidate("") before it
\* removes nothing: a key holds the colon between its query and its limit.
Clear ==
    /\ entries # {}
    /\ Keep({})
    /\ UNCHANGED <<version, searches, outdated>>

\* A record is inserted, replaced or removed.
Write ==
    /\ version < MaxWrites
    /\ version' = version + 1
    /\ UNCHANGED <<cache, searches, outdated>>

AtMost(n, max) == IF n > max THEN max ELSE n

\* Time passes; a search takes at most MaxScan from its snapshot to its insert.
CacheTick ==
    /\ \A s \in Searcher : spc[s] = "insert" => busy[s] < MaxScan
    /\ busy' = [s \in Searcher |-> IF spc[s] = "insert" THEN busy[s] + 1 ELSE busy[s]]
    /\ inserted' = [q \in Query |-> IF q \in entries THEN AtMost(inserted[q] + 1, Ttl) ELSE 0]
    /\ outdated' = [v \in Versions |->
           IF v < version THEN AtMost(outdated[v] + 1, Bound) ELSE 0]
    /\ UNCHANGED <<version, entries, result, spc, query, found>>

CacheNext ==
    \/ \E s \in Searcher :
         \/ \E q \in Query : Lookup(s, q)
         \/ Scan(s) \/ Insert(s) \/ ReturnHit(s)
    \/ Clear
    \/ Write
    \/ CacheTick

CacheSpec == CacheInit /\ [][CacheNext]_cacheVars
-----------------------------------------------------------------------------
(* Properties. *)

\* The cache never holds more than max_entries results, whichever searches
\* insert at the same time.
CapacityHeld == Cardinality(entries) <= MaxEntries

\* A hit is never older than the ttl plus the time its search took from its
\* snapshot to its insert: whatever searches and writes happened meanwhile, its
\* result was current less than that long ago.
StalenessBound ==
    [][\A s \in Searcher : spc[s] = "idle" /\ spc'[s] = "hit" =>
         found'[s] = version \/ outdated[found'[s]] < Bound]_cacheVars
=============================================================================
