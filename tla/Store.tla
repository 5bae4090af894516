------------------------------- MODULE Store -------------------------------
(***************************************************************************)
(* The Tier 3 record store: src/storage (mod.rs, records.rs, index.rs,     *)
(* quota.rs, expiry.rs) over a redb database.                              *)
(*                                                                         *)
(* redb serialises write transactions and gives every read transaction a   *)
(* snapshot, so the unit of atomicity is the transaction: an action below  *)
(* is one transaction of the code, and an operation that uses several      *)
(* (read then write, insert then index) is that many actions, between      *)
(* which the other tasks of the node run.                                  *)
(***************************************************************************)
EXTENDS Naturals, Sequences, FiniteSets

CONSTANTS
    Client,         \* tasks that call the store: API, replication and scraper tasks, the CLI
    Sweepers,       \* the background expiry task (empty when only the CLI has the store open)
    Id, Hash, Tag,  \* record ids, source hashes, inverted-index keys
    Rec,            \* the records callers submit
    NoId, NoRec,    \* absent key, absent record
    Quota,          \* quota_mb in bytes; 0 is "unlimited"
    QuotaAction,    \* quota_action of the configuration
    MaxRecordSize,  \* MAX_RECORD_SIZE of model.rs
    MaxTime,        \* bound of the clock
    CanCrash,       \* whether the process may be killed
    CanFail         \* whether a transaction may fail

Proc == Client \cup Sweepers

ContentRecord ==
    [id : Id, source_hash : Hash, created_at : Nat, expires_at : Nat,
     tags : Seq(Tag), body : Nat, size : Nat]

ASSUME RecAssumption    == Rec \subseteq ContentRecord
ASSUME AbsentAssumption == NoId \notin Id /\ NoRec \notin Rec
ASSUME ActionAssumption ==
    QuotaAction \in {"evict_oldest", "pause_scraper", "warn_only"}
ASSUME BoundAssumption  ==
    Quota \in Nat /\ MaxRecordSize \in Nat /\ MaxTime \in Nat
    /\ CanCrash \in BOOLEAN /\ CanFail \in BOOLEAN

\* trust::sign::compute_record_id hashes source_hash and created_at, among
\* others (not expires_at, and scrapers pass no tags): equal ids, equal values of
\* these two.  Records a scraper builds satisfy this; nothing in the insert path
\* checks it.
ContentAddressed ==
    \A r, s \in Rec : r.id = s.id => /\ r.source_hash = s.source_hash
                                     /\ r.created_at = s.created_at

VARIABLES
    records,       \* RECORDS_TABLE: id -> record or NoRec
    source_index,  \* SOURCE_INDEX_TABLE: source_hash -> id or NoId
    pins,          \* PINS_TABLE: the pinned ids
    inverted,      \* INVERTED_INDEX_TABLE: the pairs <<index key, id>>
    torn,          \* history: the ids whose index entries nobody vouches for,
                   \* because a loop over their keys was cut short by an error
                   \* or a kill, or ran while another one did
    now,           \* the wall clock, in seconds
    pc,            \* where each task is in its operation
    rec,           \* the record a task holds
    target,        \* the id a task works on
    victims,       \* the records a task collected for removal
    todo,          \* index keys a task still has to write
    num            \* a number a task carries: the bytes its eviction has to
                   \* free, or the time its sweep started

index  == <<inverted, torn>>
tables == <<records, source_index, pins, index>>
locals == <<pc, rec, target, victims, todo, num>>
vars   == <<tables, now, locals>>

PcValues ==
    {"idle", "checkQuota", "evictCollect", "evictTx", "insert", "index",
     "deleteRead", "deleteTx", "deindex", "pinTx", "sweepCollect", "sweepTx",
     "refused", "panicked"}

\* The types of the tables and of the task-local state (the range of num is
\* part of QuotaRespected).
TypeOK ==
    /\ records \in [Id -> Rec \cup {NoRec}]
    /\ source_index \in [Hash -> Id \cup {NoId}]
    /\ pins \subseteq Id
    /\ inverted \subseteq Tag \X Id
    /\ torn \subseteq Id
    /\ now \in 0..MaxTime
    /\ pc \in [Proc -> PcValues]
    /\ rec \in [Proc -> Rec \cup {NoRec}]
    /\ target \in [Proc -> Id \cup {NoId}]
    /\ victims \in [Proc -> SUBSET Rec]
    /\ todo \in [Proc -> Seq(Tag)]

Init ==
    /\ records = [i \in Id |-> NoRec]
    /\ source_index = [h \in Hash |-> NoId]
    /\ pins = {}
    /\ inverted = {}
    /\ torn = {}
    /\ now = 0
    /\ pc = [p \in Proc |-> "idle"]
    /\ rec = [p \in Proc |-> NoRec]
    /\ target = [p \in Proc |-> NoId]
    /\ victims = [p \in Proc |-> {}]
    /\ todo = [p \in Proc |-> <<>>]
    /\ num = [p \in Proc |-> 0]
-----------------------------------------------------------------------------
(* Reading the tables. *)

Live(i) == records[i] # NoRec

LiveIds == {i \in Id : Live(i)}

SizeOf(i) == records[i].size

\* The bytes of the records, as pairs of an id and a position: a sum of sizes
\* is the number of such pairs.
StoredBytes == UNION {{i} \X (1..SizeOf(i)) : i \in LiveIds}

\* records_size_bytes: a read transaction, so it sees the committed records
\* only, also when it is called while a write transaction is open.
TotalSize == Cardinality(StoredBytes)

\* Plausible bug: only what is stored already is compared.
OverQuotaAlready(extra) == Quota > 0 /\ TotalSize > Quota

OverQuota(extra) == Quota > 0 /\ TotalSize + extra > Quota

\* delete_expired_records: expires_at 0 means "never".
Expired(r, t) == r.expires_at > 0 /\ r.expires_at < t

\* The record the dedup check of insert_record compares with.
Existing(h) == IF source_index[h] = NoId THEN NoRec ELSE records[source_index[h]]

\* Plausible bug: the comparison is the wrong way round.
SkippedNewer(r) ==
    Existing(r.source_hash) # NoRec /\ Existing(r.source_hash).created_at <= r.created_at

\* The dedup check: the store already holds a record at least as new.
SkippedOlder(r) ==
    Existing(r.source_hash) # NoRec /\ Existing(r.source_hash).created_at >= r.created_at

BytesOf(V) == UNION {{v} \X (1..v.size) : v \in V}

SetSize(V) == Cardinality(BytesOf(V))
-----------------------------------------------------------------------------
(* Writing the tables, and the control flow of a task. *)

\* Plausible bug: the snapshot is deleted without its source_index entry
\* being compared with the id.
DropBlind(V) ==
    /\ records' = [i \in Id |-> IF \E v \in V : v.id = i THEN NoRec ELSE records[i]]
    /\ source_index' = [h \in Hash |->
           IF \E v \in V : v.source_hash = h THEN NoId ELSE source_index[h]]

\* Remove the collected records in one write transaction; a source_index
\* entry goes only if it still points to the removed id.
DropRecords(V) ==
    /\ records' = [i \in Id |-> IF \E v \in V : v.id = i THEN NoRec ELSE records[i]]
    /\ source_index' = [h \in Hash |->
           IF \E v \in V : v.source_hash = h /\ source_index[h] = v.id
           THEN NoId ELSE source_index[h]]

\* Write r in place of the record its source had, if any.
PutRecord(r) ==
    /\ records' = [i \in Id |->
           IF i = r.id THEN r
           ELSE IF i = source_index[r.source_hash] THEN NoRec
           ELSE records[i]]
    /\ source_index' = [source_index EXCEPT ![r.source_hash] = r.id]

\* The operation of p is over, with the given outcome.
Finish(p, outcome) ==
    /\ pc' = [pc EXCEPT ![p] = outcome]
    /\ rec' = [rec EXCEPT ![p] = NoRec]
    /\ target' = [target EXCEPT ![p] = NoId]
    /\ victims' = [victims EXCEPT ![p] = {}]
    /\ todo' = [todo EXCEPT ![p] = <<>>]
    /\ num' = [num EXCEPT ![p] = 0]

Goto(p, label) == pc' = [pc EXCEPT ![p] = label]

\* Task c is in index_record or deindex_record, between two keys of record i.
Indexing(c, i) == pc[c] \in {"index", "deindex"} /\ rec[c].id = i

\* Another task than c is.
Overlaps(c, i) == \E d \in Client \ {c} : Indexing(d, i)
-----------------------------------------------------------------------------
(* Inserting.                                                              *)

\* handle_insert_record: a client of the HTTP API submits r; the quota is
\* checked first.
ApiInsert(c, r) ==
    /\ pc[c] = "idle"
    /\ Goto(c, "checkQuota")
    /\ rec' = [rec EXCEPT ![c] = r]
    /\ UNCHANGED <<tables, now, target, victims, todo, num>>

\* handle_replicate_push, run_url_job, run_feed_job, run_api_job and
\* handle_storage_import call Store::insert_record directly.
DirectInsert(c, r) ==
    /\ pc[c] = "idle"
    /\ Goto(c, "insert")
    /\ rec' = [rec EXCEPT ![c] = r]
    /\ UNCHANGED <<tables, now, target, victims, todo, num>>

\* check_quota, first read transaction: it counts the body, not the JSON.
CheckQuota(c) ==
    /\ pc[c] = "checkQuota"
    /\ \/ /\ ~OverQuota(rec[c].body) \/ QuotaAction = "warn_only"
          /\ Goto(c, "insert")
          /\ UNCHANGED <<rec, target, victims, todo, num>>
       \/ /\ OverQuota(rec[c].body) /\ QuotaAction = "evict_oldest"
          /\ Goto(c, "evictCollect")
          /\ num' = [num EXCEPT ![c] = TotalSize + rec[c].body - Quota]
          /\ UNCHANGED <<rec, target, victims, todo>>
       \/ /\ OverQuota(rec[c].body) /\ QuotaAction = "pause_scraper"
          /\ Finish(c, "refused")
    /\ UNCHANGED <<tables, now>>

\* evict_oldest never considers pinned records.
Evictable == {records[i] : i \in LiveIds \ pins}

\* V is what the loop over the candidates, oldest first, takes before it has
\* freed n bytes (records of equal age in either order).
OldestFirst(V, n) ==
    /\ \A v \in V, u \in Evictable \ V : v.created_at <= u.created_at
    /\ V = Evictable \/ SetSize(V) >= n
    /\ V # {} => \E v \in V : /\ \A u \in V : u.created_at <= v.created_at
                              /\ SetSize(V \ {v}) < n

\* evict_oldest, phase 1 (read transaction).
EvictCollect(c) ==
    /\ pc[c] = "evictCollect"
    /\ \E V \in SUBSET Evictable :
         /\ OldestFirst(V, num[c])
         /\ \/ V = {} /\ Finish(c, "refused")
            \/ /\ V # {}
               /\ Goto(c, "evictTx")
               /\ victims' = [victims EXCEPT ![c] = V]
               /\ UNCHANGED <<rec, target, todo, num>>
    /\ UNCHANGED <<tables, now>>

\* evict_oldest, phase 2 (write transaction), and the comparison that follows
\* it in check_quota.
EvictTx(c) ==
    LET freed == SetSize(victims[c]) IN
    /\ pc[c] = "evictTx"
    /\ DropRecords(victims[c])
    /\ \/ /\ freed >= num[c]
          /\ Goto(c, "insert")
          /\ victims' = [victims EXCEPT ![c] = {}]
          /\ num' = [num EXCEPT ![c] = 0]
          /\ UNCHANGED <<rec, target, todo>>
       \/ /\ freed < num[c]
          /\ Finish(c, "refused")
    /\ UNCHANGED <<pins, index, now>>

\* records::insert_record refuses a record that validate_size rejects, and one
\* that the quota check inside its write transaction finds too large, whatever
\* quota_action says and check_quota allowed.
InsertRefuse(c) ==
    /\ pc[c] = "insert"
    /\ LET r == rec[c] IN
       r.size > MaxRecordSize \/ (~SkippedOlder(r) /\ OverQuota(r.size))
    /\ Finish(c, "refused")
    /\ UNCHANGED <<tables, now>>

\* records::insert_record keeps the record it has (InsertResult::SkippedOlder).
InsertSkip(c) ==
    /\ pc[c] = "insert"
    /\ rec[c].size <= MaxRecordSize
    /\ SkippedOlder(rec[c])
    /\ Finish(c, "idle")
    /\ UNCHANGED <<tables, now>>

\* records::insert_record stores the record, one write transaction for the
\* dedup check, the removal of the older record, both tables and the quota.
InsertCommit(c) ==
    LET r == rec[c] IN
    /\ pc[c] = "insert"
    /\ r.size <= MaxRecordSize
    /\ ~SkippedOlder(r)
    /\ ~OverQuota(r.size)
    /\ PutRecord(r)
    /\ IF r.tags = <<>> THEN Finish(c, "idle")
       ELSE /\ Goto(c, "index")
            /\ todo' = [todo EXCEPT ![c] = r.tags]
            /\ UNCHANGED <<rec, target, victims, num>>
    /\ torn' = torn \cup {i \in {r.id} : r.tags # <<>> /\ Overlaps(c, i)}
    /\ UNCHANGED <<pins, inverted, now>>

\* The remaining keys of an indexing or deindexing loop.
NextTag(p) ==
    IF Len(todo[p]) = 1 THEN Finish(p, "idle")
    ELSE /\ todo' = [todo EXCEPT ![p] = Tail(@)]
         /\ UNCHANGED <<pc, rec, target, victims, num>>

\* Plausible bug: the write transaction is dropped without a commit.
IndexNoCommit(c) ==
    /\ pc[c] = "index"
    /\ NextTag(c)
    /\ UNCHANGED <<tables, now>>

\* index_record, one write transaction per key.  An id that is already in the
\* entry reaches unreachable!() and the task panics.
IndexTx(c) ==
    LET entry == <<Head(todo[c]), rec[c].id>> IN
    /\ pc[c] = "index"
    /\ \/ entry \in inverted /\ Finish(c, "panicked") /\ UNCHANGED inverted
       \/ entry \notin inverted /\ inverted' = inverted \cup {entry} /\ NextTag(c)
    /\ UNCHANGED <<records, source_index, pins, torn, now>>
-----------------------------------------------------------------------------
(* Deleting. *)

\* Store::delete_record reads the record for deindexing.
DeleteBegin(c, i) ==
    /\ pc[c] = "idle"
    /\ Goto(c, "deleteRead")
    /\ target' = [target EXCEPT ![c] = i]
    /\ rec' = [rec EXCEPT ![c] = records[i]]
    /\ UNCHANGED <<tables, now, victims, todo, num>>

\* records::delete_record reads it again, for its source_hash.
DeleteRead(c) ==
    /\ pc[c] = "deleteRead"
    /\ \/ ~Live(target[c]) /\ Finish(c, "idle")
       \/ /\ Live(target[c])
          /\ Goto(c, "deleteTx")
          /\ victims' = [victims EXCEPT ![c] = {records[target[c]]}]
          /\ UNCHANGED <<rec, target, todo, num>>
    /\ UNCHANGED <<tables, now>>

\* The tags of the record read by DeleteBegin, if there was one.
TagsHeld(c) == IF rec[c] = NoRec THEN <<>> ELSE rec[c].tags

\* records::delete_record, write transaction: record, source_index and pin.
\* deindex_record then clears the keys anew, unless another loop is at them.
DeleteTx(c) ==
    /\ pc[c] = "deleteTx"
    /\ DropRecords(victims[c])
    /\ pins' = pins \ {target[c]}
    /\ IF TagsHeld(c) = <<>> THEN Finish(c, "idle")
       ELSE /\ Goto(c, "deindex")
            /\ todo' = [todo EXCEPT ![c] = TagsHeld(c)]
            /\ UNCHANGED <<rec, target, victims, num>>
    /\ torn' = IF TagsHeld(c) = <<>> THEN torn
               ELSE IF Overlaps(c, target[c]) THEN torn \cup {target[c]}
               ELSE torn \ {target[c]}
    /\ UNCHANGED <<inverted, now>>

\* Plausible bug: the whole entry goes, not only this id.
DeindexEntry(c) ==
    /\ pc[c] = "deindex"
    /\ inverted' = {e \in inverted : e[1] # Head(todo[c])}
    /\ NextTag(c)
    /\ UNCHANGED <<records, source_index, pins, torn, now>>

\* deindex_record, one write transaction per key.
DeindexTx(c) ==
    /\ pc[c] = "deindex"
    /\ inverted' = inverted \ {<<Head(todo[c]), rec[c].id>>}
    /\ NextTag(c)
    /\ UNCHANGED <<records, source_index, pins, torn, now>>
-----------------------------------------------------------------------------
(* Pinning. *)

\* pin_record, read transaction: does the record exist?
Pin(c, i) ==
    /\ pc[c] = "idle"
    /\ Live(i)
    /\ Goto(c, "pinTx")
    /\ target' = [target EXCEPT ![c] = i]
    /\ UNCHANGED <<tables, now, rec, victims, todo, num>>

\* pin_record, write transaction.
PinTx(c) ==
    /\ pc[c] = "pinTx"
    /\ pins' = pins \cup {target[c]}
    /\ Finish(c, "idle")
    /\ UNCHANGED <<records, source_index, index, now>>

\* unpin_record.
Unpin(c, i) ==
    /\ pc[c] = "idle"
    /\ i \in pins
    /\ pins' = pins \ {i}
    /\ UNCHANGED <<records, source_index, index, now, locals>>
-----------------------------------------------------------------------------
(* Expiry: the timer of start_expiry_sweeper, or a client's sweep_once. *)

\* The sweep reads the clock.
SweepStart(p) ==
    /\ pc[p] = "idle"
    /\ Goto(p, "sweepCollect")
    /\ num' = [num EXCEPT ![p] = now]
    /\ UNCHANGED <<tables, now, rec, target, victims, todo>>

\* Plausible bug: expires_at 0 is not excepted.
SweepableAll(t) == {records[i] : i \in {j \in LiveIds \ pins : records[j].expires_at < t}}

\* Phase 1 collects the expired records that are not pinned.
Sweepable(t) == {records[i] : i \in {j \in LiveIds \ pins : Expired(records[j], t)}}

\* delete_expired_records, phase 1 (read transaction).
SweepCollect(p) ==
    LET V == Sweepable(num[p]) IN
    /\ pc[p] = "sweepCollect"
    /\ \/ V = {} /\ Finish(p, "idle")
       \/ /\ V # {}
          /\ Goto(p, "sweepTx")
          /\ victims' = [victims EXCEPT ![p] = V]
          /\ UNCHANGED <<rec, target, todo, num>>
    /\ UNCHANGED <<tables, now>>

\* Plausible bug: the write transaction is dropped without a commit.
SweepNoCommit(p) ==
    /\ pc[p] = "sweepTx"
    /\ Finish(p, "idle")
    /\ UNCHANGED <<tables, now>>

\* delete_expired_records, phase 2 (write transaction).
SweepTx(p) ==
    /\ pc[p] = "sweepTx"
    /\ DropRecords(victims[p])
    /\ Finish(p, "idle")
    /\ UNCHANGED <<pins, index, now>>
-----------------------------------------------------------------------------
(* The environment. *)

\* The caller gets its error, or the panicked task is replaced by another one.
Respond(c) ==
    /\ pc[c] \in {"refused", "panicked"}
    /\ Finish(c, "idle")
    /\ UNCHANGED <<tables, now>>

Tick ==
    /\ now < MaxTime
    /\ now' = now + 1
    /\ UNCHANGED <<tables, locals>>

\* A transaction of a client's operation fails: redb rolls it back, and the
\* "?" of the code ends the operation, what it committed before staying as it
\* is.  Nothing undoes the insert whose index_record failed.
TxFails(c) ==
    /\ CanFail
    /\ pc[c] \notin {"idle", "refused", "panicked"}
    /\ torn' = torn \cup {i \in Id : Indexing(c, i)}
    /\ Finish(c, "refused")
    /\ UNCHANGED <<records, source_index, pins, inverted, now>>

\* The process is killed and started again: committed transactions stay.
Crash ==
    /\ CanCrash
    /\ \E p \in Proc : pc[p] # "idle"
    /\ torn' = torn \cup {i \in Id : \E c \in Client : Indexing(c, i)}
    /\ pc' = [p \in Proc |-> "idle"]
    /\ rec' = [p \in Proc |-> NoRec]
    /\ target' = [p \in Proc |-> NoId]
    /\ victims' = [p \in Proc |-> {}]
    /\ todo' = [p \in Proc |-> <<>>]
    /\ num' = [p \in Proc |-> 0]
    /\ UNCHANGED <<records, source_index, pins, inverted, now>>

ClientStep(c) ==
    \/ \E r \in Rec : ApiInsert(c, r) \/ DirectInsert(c, r)
    \/ CheckQuota(c) \/ EvictCollect(c) \/ EvictTx(c)
    \/ InsertRefuse(c) \/ InsertSkip(c) \/ InsertCommit(c) \/ IndexTx(c)
    \/ \E i \in Id : DeleteBegin(c, i) \/ Pin(c, i) \/ Unpin(c, i)
    \/ DeleteRead(c) \/ DeleteTx(c) \/ DeindexTx(c) \/ PinTx(c)
    \/ TxFails(c) \/ Respond(c)

SweepStep(p) == SweepStart(p) \/ SweepCollect(p) \/ SweepTx(p)

Next ==
    \/ \E c \in Client : ClientStep(c)
    \/ \E p \in Proc : SweepStep(p)
    \/ Tick
    \/ Crash

Spec == Init /\ [][Next]_vars

\* The timer of the sweeper keeps ticking and redb grants the write lock to
\* every transaction in turn; clients need not do anything.
FairSpec == Spec /\ \A p \in Sweepers : WF_vars(SweepStep(p))
-----------------------------------------------------------------------------
(* Properties. *)

\* source_index and records agree exactly at every transaction boundary, even
\* across crashes and interleaved two-phase removals: an entry points to a live
\* record of its source, and every live record is the one its source's entry
\* points to (so there is at most one live record per source_hash).
SourceIndexExact ==
    /\ \A h \in Hash : source_index[h] # NoId =>
           /\ Live(source_index[h])
           /\ records[source_index[h]].source_hash = h
    /\ \A i \in Id : Live(i) =>
           records[i].id = i /\ source_index[records[i].source_hash] = i

\* The detailed store implements the abstract source map: whatever the tasks do
\* between their transactions, a source's record is replaced only by a strictly
\* newer one of the same source, and otherwise only removed.
SM == INSTANCE SourceMap WITH live <- [h \in Hash |-> Existing(h)]

ImplementsSourceMap == SM!Spec

\* The records never exceed quota_mb, however many inserts race with each other
\* and with the evictions; an eviction never sets out to free more than the
\* body it makes room for, and the u64 subtraction
\* "current_bytes + additional_bytes - freed" of check_quota cannot underflow,
\* although freed is computed from a later snapshot than current_bytes.
QuotaRespected ==
    Quota > 0 =>
        /\ TotalSize <= Quota
        /\ \A c \in Client : pc[c] \in {"evictCollect", "evictTx"} =>
               /\ num[c] \in 1..rec[c].body
               /\ SetSize(victims[c]) <= num[c] + Quota

\* A newer record of the source of r is live after the step.
SupersededNext(r) ==
    \E h \in Hash : /\ h = r.source_hash
                    /\ Existing(h)' # NoRec
                    /\ r.created_at < Existing(h)'.created_at

\* A record disappears only for a reason its owner can account for, whatever
\* the other tasks did between the two phases of a removal: a newer one of its
\* source arrived, a client deleted it, it was past its expires_at, or a client's
\* insert over the quota collected this very record for eviction.
RemovalJustified ==
    [][\A i \in Id : Live(i) /\ ~Live(i)' =>
         \/ SupersededNext(records[i])
         \/ \E c \in Client : pc[c] = "deleteTx" /\ target[c] = i
         \/ Expired(records[i], now)
         \/ \E c \in Client : pc[c] = "evictTx" /\ records[i] \in victims[c]
      ]_vars

\* A stored record that no task is indexing lacks an entry of the inverted
\* index, so that a tag search misses it, only if a loop over its keys was cut
\* short or ran while another one did, since a delete last cleared them
\* undisturbed: whatever else the tasks do between the transactions of each
\* other, and although sweeping, evicting and replacing leave the entries of
\* the removed record behind.
IndexComplete ==
    \A i \in LiveIds \ torn :
        \/ \E c \in Client : Indexing(c, i)
        \/ \A k \in DOMAIN records[i].tags : <<records[i].tags[k], i>> \in inverted

\* index_record skips an id that is already in an entry; no insert panics.
NeverPanics == \A p \in Proc : pc[p] # "panicked"

\* The sweeper removes every expired record unless it gets pinned.
ExpiredSwept ==
    \A r \in Rec :
        (records[r.id] = r /\ Expired(r, now)) ~>
            (records[r.id] # r \/ r.id \in pins)
=============================================================================
