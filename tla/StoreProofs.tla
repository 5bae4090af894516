---------------------------- MODULE StoreProofs ----------------------------
(***************************************************************************)
(* Proofs about Store, for any number of tasks, records, sources and tags: *)
(* the types, the agreement of records and source_index, that the store    *)
(* implements SourceMap, why a record disappears, the quota, and which     *)
(* records the inverted index may miss; and about SearchCache, which       *)
(* Store::search_records uses, for any searches, queries, ttl and          *)
(* capacity: that the capacity holds, and that no hit is older than the    *)
(* ttl plus the time of one search.                                        *)
(***************************************************************************)
EXTENDS Store, SearchCache, SequenceTheorems, FiniteSetTheorems, TLAPS

\* What a task holds at each point of its operation: the record to insert, the
\* id to delete or pin, and a key left to write.
LocalsOK ==
    \A p \in Proc :
        /\ pc[p] \in {"checkQuota", "evictCollect", "evictTx", "insert", "index"}
               => rec[p] \in Rec
        /\ pc[p] \in {"deleteRead", "deleteTx", "pinTx"} => target[p] \in Id
        /\ pc[p] \in {"index", "deindex"} => todo[p] # <<>>

\* The inductive strengthening of TypeOK.
TypeInv == TypeOK /\ LocalsOK

\* TypeInv holds in the initial state of the store.
LEMMA TypeInit == Init => TypeInv
  BY BoundAssumption DEF Init, TypeInv, TypeOK, LocalsOK, PcValues

\* Ending an operation keeps the locals of every task well typed, whatever
\* outcome of PcValues that needs no operand it ends with.
LEMMA FinishType ==
  ASSUME TypeInv, NEW p \in Proc,
         NEW o \in {"idle", "refused", "panicked"}, Finish(p, o)
  PROVE  /\ pc' \in [Proc -> PcValues]
         /\ rec' \in [Proc -> Rec \cup {NoRec}]
         /\ target' \in [Proc -> Id \cup {NoId}]
         /\ victims' \in [Proc -> SUBSET Rec]
         /\ todo' \in [Proc -> Seq(Tag)]
         /\ LocalsOK'
  <1>1. o \in PcValues
    BY DEF PcValues
  <1>2. <<>> \in Seq(Tag)
    OBVIOUS
  <1> QED
    BY <1>1, <1>2 DEF Finish, TypeInv, TypeOK, LocalsOK

\* Removing records keeps the tables well typed.
LEMMA DropType ==
  ASSUME TypeInv, NEW V, DropRecords(V)
  PROVE  /\ records' \in [Id -> Rec \cup {NoRec}]
         /\ source_index' \in [Hash -> Id \cup {NoId}]
  BY DEF DropRecords, TypeInv, TypeOK

\* The live records are records, whichever of them are selected.
LEMMA LiveType ==
  ASSUME TypeInv, NEW i \in Id, records[i] # NoRec
  PROVE  records[i] \in Rec
  BY DEF TypeInv, TypeOK

\* Going on to the next key, or ending after the last one, keeps the locals
\* of an indexing or deindexing task well typed.
LEMMA NextTagType ==
  ASSUME TypeInv, NEW p \in Proc, pc[p] \in {"index", "deindex"}, NextTag(p)
  PROVE  /\ pc' \in [Proc -> PcValues]
         /\ rec' \in [Proc -> Rec \cup {NoRec}]
         /\ target' \in [Proc -> Id \cup {NoId}]
         /\ victims' \in [Proc -> SUBSET Rec]
         /\ todo' \in [Proc -> Seq(Tag)]
         /\ LocalsOK'
  <1>1. CASE Len(todo[p]) = 1
    BY <1>1, FinishType DEF NextTag
  <1>2. CASE Len(todo[p]) # 1
    <2>1. /\ todo[p] \in Seq(Tag) /\ todo[p] # <<>>
      BY DEF TypeInv, TypeOK, LocalsOK
    <2>2. Tail(todo[p]) \in Seq(Tag) /\ Tail(todo[p]) # <<>>
      <3>1. Len(todo[p]) \in Nat /\ Len(todo[p]) # 0
        BY <2>1, EmptySeq
      <3>2. Tail(todo[p]) \in Seq(Tag) /\ Len(Tail(todo[p])) = Len(todo[p]) - 1
        BY <2>1, HeadTailProperties
      <3>3. Len(Tail(todo[p])) # 0
        BY <1>2, <3>1, <3>2
      <3>4. Len(<<>>) = 0
        BY EmptySeq
      <3> QED
        BY <3>2, <3>3, <3>4, Zenon
    <2>3. todo' = [todo EXCEPT ![p] = Tail(todo[p])]
      BY <1>2 DEF NextTag
    <2>4. UNCHANGED <<pc, rec, target, victims>>
      BY <1>2 DEF NextTag
    <2>5. todo' \in [Proc -> Seq(Tag)] /\ \A q \in Proc : todo[q] # <<>> => todo'[q] # <<>>
      BY <2>2, <2>3 DEF TypeInv, TypeOK
    <2> QED
      BY <2>4, <2>5 DEF TypeInv, TypeOK, LocalsOK
  <1> QED
    BY <1>1, <1>2

\* Every step of a client keeps TypeInv.
LEMMA ClientType ==
  ASSUME TypeInv, NEW c \in Client, ClientStep(c)
  PROVE  TypeInv'
  <1> c \in Proc
    BY DEF Proc
  <1> USE DEF tables, index
  <1>1. ASSUME NEW r \in Rec, ApiInsert(c, r) PROVE TypeInv'
    BY <1>1 DEF ApiInsert, Goto, TypeInv, TypeOK, LocalsOK, PcValues
  <1>2. ASSUME NEW r \in Rec, DirectInsert(c, r) PROVE TypeInv'
    BY <1>2 DEF DirectInsert, Goto, TypeInv, TypeOK, LocalsOK, PcValues
  <1>3. CASE CheckQuota(c)
    <2>1. CASE Finish(c, "refused")
      BY <1>3, <2>1, FinishType DEF CheckQuota, TypeInv, TypeOK
    <2>2. CASE ~Finish(c, "refused")
      <3>1. /\ \E l \in {"insert", "evictCollect"} : Goto(c, l)
            /\ UNCHANGED <<records, source_index, pins, inverted, torn, now, rec, target, victims, todo>>
            /\ pc[c] = "checkQuota"
        BY <1>3, <2>2 DEF CheckQuota
      <3> QED
        BY <3>1 DEF Goto, TypeInv, TypeOK, LocalsOK, PcValues
    <2> QED
      BY <2>1, <2>2
  <1>4. CASE EvictCollect(c)
    <2>1. CASE Finish(c, "refused")
      BY <1>4, <2>1, FinishType DEF EvictCollect, TypeInv, TypeOK
    <2>2. CASE ~Finish(c, "refused")
      <3>1. PICK V \in SUBSET Evictable :
              /\ Goto(c, "evictTx")
              /\ victims' = [victims EXCEPT ![c] = V]
              /\ UNCHANGED <<records, source_index, pins, inverted, torn, now, rec, target, todo>>
              /\ pc[c] = "evictCollect"
        BY <1>4, <2>2 DEF EvictCollect
      <3>2. V \in SUBSET Rec
        BY DEF Evictable, LiveIds, Live, TypeInv, TypeOK
      <3> QED
        BY <3>1, <3>2 DEF Goto, TypeInv, TypeOK, LocalsOK, PcValues
    <2> QED
      BY <2>1, <2>2
  <1>5. CASE EvictTx(c)
    <2>1. /\ records' \in [Id -> Rec \cup {NoRec}]
          /\ source_index' \in [Hash -> Id \cup {NoId}]
      BY <1>5, DropType DEF EvictTx
    <2>2. CASE Finish(c, "refused")
      BY <1>5, <2>1, <2>2, FinishType DEF EvictTx, TypeInv, TypeOK
    <2>3. CASE ~Finish(c, "refused")
      <3>1. /\ Goto(c, "insert")
            /\ victims' = [victims EXCEPT ![c] = {}]
            /\ UNCHANGED <<pins, inverted, torn, now, rec, target, todo>>
            /\ pc[c] = "evictTx"
        BY <1>5, <2>3 DEF EvictTx
      <3> QED
        BY <2>1, <3>1 DEF Goto, TypeInv, TypeOK, LocalsOK, PcValues
    <2> QED
      BY <2>2, <2>3
  <1>6. CASE InsertRefuse(c)
    BY <1>6, FinishType DEF InsertRefuse, TypeInv, TypeOK
  <1>7. CASE InsertSkip(c)
    BY <1>7, FinishType DEF InsertSkip, TypeInv, TypeOK
  <1>8. CASE InsertCommit(c)
    <2> DEFINE r == rec[c]
    <2>1. r \in Rec
      BY <1>8 DEF InsertCommit, TypeInv, LocalsOK
    <2>2. r.id \in Id /\ r.source_hash \in Hash /\ r.tags \in Seq(Tag)
      BY <2>1, RecAssumption DEF ContentRecord
    <2>3. /\ records' \in [Id -> Rec \cup {NoRec}]
          /\ source_index' \in [Hash -> Id \cup {NoId}]
          /\ UNCHANGED <<pins, inverted, now>>
          /\ torn' \subseteq Id
      BY <1>8, <2>1, <2>2 DEF InsertCommit, PutRecord, TypeInv, TypeOK
    <2>4. CASE Finish(c, "idle")
      BY <2>3, <2>4, FinishType DEF TypeInv, TypeOK
    <2>5. CASE ~Finish(c, "idle")
      <3>1. /\ Goto(c, "index")
            /\ r.tags # <<>>
            /\ todo' = [todo EXCEPT ![c] = r.tags]
            /\ UNCHANGED <<rec, target, victims>>
        BY <1>8, <2>5 DEF InsertCommit
      <3> HIDE DEF r
      <3>2. rec[c] \in Rec
        BY <2>1 DEF r
      <3> QED
        BY <2>2, <2>3, <3>1, <3>2 DEF Goto, TypeInv, TypeOK, LocalsOK, PcValues
    <2> QED
      BY <2>4, <2>5
  <1>9. CASE IndexTx(c)
    <2>1. CASE Finish(c, "panicked") /\ UNCHANGED inverted
      BY <1>9, <2>1, FinishType DEF IndexTx, TypeInv, TypeOK
    <2>2. CASE ~(Finish(c, "panicked") /\ UNCHANGED inverted)
      <3>1. /\ inverted' = inverted \cup {<<Head(todo[c]), rec[c].id>>}
            /\ NextTag(c)
            /\ pc[c] = "index"
            /\ UNCHANGED <<records, source_index, pins, torn, now>>
        BY <1>9, <2>2 DEF IndexTx
      <3>2. rec[c] \in Rec /\ todo[c] \in Seq(Tag) /\ todo[c] # <<>>
        BY <3>1 DEF TypeInv, TypeOK, LocalsOK
      <3>3. rec[c].id \in Id
        BY <3>2, RecAssumption DEF ContentRecord
      <3>4. Head(todo[c]) \in Tag
        BY <3>2
      <3> QED
        BY <3>1, <3>3, <3>4, NextTagType DEF TypeInv, TypeOK
    <2> QED
      BY <2>1, <2>2
  <1>10. ASSUME NEW i \in Id, DeleteBegin(c, i) PROVE TypeInv'
    BY <1>10 DEF DeleteBegin, Goto, TypeInv, TypeOK, LocalsOK, PcValues
  <1>11. ASSUME NEW i \in Id, Pin(c, i) PROVE TypeInv'
    BY <1>11 DEF Pin, Goto, TypeInv, TypeOK, LocalsOK, PcValues
  <1>12. ASSUME NEW i \in Id, Unpin(c, i) PROVE TypeInv'
    BY <1>12 DEF Unpin, locals, TypeInv, TypeOK, LocalsOK
  <1>13. CASE DeleteRead(c)
    <2>1. CASE Finish(c, "idle")
      BY <1>13, <2>1, FinishType DEF DeleteRead, TypeInv, TypeOK
    <2>2. CASE ~Finish(c, "idle")
      <3>1. /\ Live(target[c])
            /\ Goto(c, "deleteTx")
            /\ victims' = [victims EXCEPT ![c] = {records[target[c]]}]
            /\ UNCHANGED <<records, source_index, pins, inverted, torn, now, rec, target, todo>>
            /\ pc[c] = "deleteRead"
        BY <1>13, <2>2 DEF DeleteRead
      <3>2. records[target[c]] \in Rec
        BY <3>1 DEF Live, TypeInv, TypeOK, LocalsOK
      <3> QED
        BY <3>1, <3>2 DEF Goto, TypeInv, TypeOK, LocalsOK, PcValues
    <2> QED
      BY <2>1, <2>2
  <1>14. CASE DeleteTx(c)
    <2>1. /\ records' \in [Id -> Rec \cup {NoRec}]
          /\ source_index' \in [Hash -> Id \cup {NoId}]
          /\ pins' \subseteq Id
          /\ UNCHANGED <<inverted, now>>
          /\ torn' \subseteq Id
      <3>1. target[c] \in Id
        BY <1>14 DEF DeleteTx, TypeInv, LocalsOK
      <3> QED
        BY <1>14, <3>1, DropType DEF DeleteTx, TypeInv, TypeOK
    <2>2. CASE Finish(c, "idle")
      BY <2>1, <2>2, FinishType DEF TypeInv, TypeOK
    <2>3. CASE ~Finish(c, "idle")
      <3>1. /\ Goto(c, "deindex")
            /\ TagsHeld(c) # <<>>
            /\ todo' = [todo EXCEPT ![c] = TagsHeld(c)]
            /\ UNCHANGED <<rec, target, victims>>
        BY <1>14, <2>3 DEF DeleteTx
      <3>2. TagsHeld(c) \in Seq(Tag)
        BY RecAssumption DEF TagsHeld, ContentRecord, TypeInv, TypeOK
      <3> QED
        BY <2>1, <3>1, <3>2 DEF Goto, TypeInv, TypeOK, LocalsOK, PcValues
    <2> QED
      BY <2>2, <2>3
  <1>15. CASE DeindexTx(c)
    BY <1>15, NextTagType DEF DeindexTx, TypeInv, TypeOK
  <1>16. CASE PinTx(c)
    <2>1. target[c] \in Id
      BY <1>16 DEF PinTx, TypeInv, LocalsOK
    <2> QED
      BY <1>16, <2>1, FinishType DEF PinTx, TypeInv, TypeOK
  <1>17. CASE Respond(c) \/ TxFails(c)
    <2>1. torn' \subseteq Id
      BY <1>17 DEF Respond, TxFails, TypeInv, TypeOK
    <2> QED
      BY <1>17, <2>1, FinishType DEF Respond, TxFails, TypeInv, TypeOK
  <1> QED
    BY <1>1, <1>2, <1>3, <1>4, <1>5, <1>6, <1>7, <1>8, <1>9, <1>10, <1>11,
       <1>12, <1>13, <1>14, <1>15, <1>16, <1>17 DEF ClientStep

\* Every step of the sweeper, and of a client that sweeps, keeps TypeInv.
LEMMA SweepType ==
  ASSUME TypeInv, NEW p \in Proc, SweepStep(p)
  PROVE  TypeInv'
  <1> USE DEF tables, index
  <1>1. CASE SweepStart(p)
    BY <1>1 DEF SweepStart, Goto, TypeInv, TypeOK, LocalsOK, PcValues
  <1>2. CASE SweepCollect(p)
    <2>1. CASE Finish(p, "idle")
      BY <1>2, <2>1, FinishType DEF SweepCollect, TypeInv, TypeOK
    <2>2. CASE ~Finish(p, "idle")
      <3>1. /\ Goto(p, "sweepTx")
            /\ victims' = [victims EXCEPT ![p] = Sweepable(num[p])]
            /\ UNCHANGED <<records, source_index, pins, inverted, torn, now, rec, target, todo>>
        BY <1>2, <2>2 DEF SweepCollect
      <3>2. Sweepable(num[p]) \in SUBSET Rec
        BY DEF Sweepable, LiveIds, Live, TypeInv, TypeOK
      <3> QED
        BY <3>1, <3>2 DEF Goto, TypeInv, TypeOK, LocalsOK, PcValues
    <2> QED
      BY <2>1, <2>2
  <1>3. CASE SweepTx(p)
    BY <1>3, FinishType, DropType DEF SweepTx, TypeInv, TypeOK
  <1> QED
    BY <1>1, <1>2, <1>3 DEF SweepStep

\* TypeInv is inductive: every operation of the store, a panic and a crash keep it.
LEMMA TypeStep == TypeInv /\ [Next]_vars => TypeInv'
  <1> SUFFICES ASSUME TypeInv, [Next]_vars PROVE TypeInv'
    OBVIOUS
  <1>1. CASE \E c \in Client : ClientStep(c)
    BY <1>1, ClientType
  <1>2. CASE \E p \in Proc : SweepStep(p)
    BY <1>2, SweepType
  <1>3. CASE Tick
    BY <1>3, BoundAssumption DEF Tick, tables, index, locals, TypeInv, TypeOK, LocalsOK
  <1>4. CASE Crash
    BY <1>4 DEF Crash, tables, index, TypeInv, TypeOK, LocalsOK, PcValues
  <1>5. CASE UNCHANGED vars
    BY <1>5 DEF vars, tables, index, locals, TypeInv, TypeOK, LocalsOK
  <1> QED
    BY <1>1, <1>2, <1>3, <1>4, <1>5 DEF Next

\* The tables, the clock and the locals of every task stay well typed through
\* every operation of the store, through panics and through crashes.
THEOREM TypeCorrect == Spec => []TypeOK
  <1>1. TypeInv => TypeOK
    BY DEF TypeInv
  <1> QED
    BY <1>1, TypeInit, TypeStep, PTL DEF Spec

\* What a step does to records and source_index: nothing, one insert that the
\* dedup check and the quota let through, or one removal of records that were collected.
LEMMA TableStep ==
  ASSUME TypeInv, [Next]_vars
  PROVE  \/ UNCHANGED <<records, source_index>>
         \/ \E r \in Rec : ~SkippedOlder(r) /\ ~OverQuota(r.size) /\ PutRecord(r)
         \/ \E V \in SUBSET Rec : DropRecords(V)
  <1> USE DEF tables, index
  <1>1. ASSUME NEW c \in Client, ClientStep(c)
        PROVE  \/ UNCHANGED <<records, source_index>>
               \/ \E r \in Rec : ~SkippedOlder(r) /\ ~OverQuota(r.size) /\ PutRecord(r)
               \/ \E V \in SUBSET Rec : DropRecords(V)
    <2> c \in Proc
      BY DEF Proc
    <2>1. CASE InsertCommit(c)
      <3>1. rec[c] \in Rec
        BY <2>1 DEF InsertCommit, TypeInv, LocalsOK
      <3> QED
        BY <2>1, <3>1 DEF InsertCommit
    <2>2. CASE EvictTx(c) \/ DeleteTx(c)
      <3>1. victims[c] \in SUBSET Rec
        BY DEF TypeInv, TypeOK
      <3> QED
        BY <2>2, <3>1 DEF EvictTx, DeleteTx
    <2>3. CASE \/ \E r \in Rec : ApiInsert(c, r) \/ DirectInsert(c, r)
               \/ CheckQuota(c) \/ EvictCollect(c) \/ InsertRefuse(c) \/ InsertSkip(c)
               \/ IndexTx(c)
      BY <2>3 DEF ApiInsert, DirectInsert, CheckQuota, EvictCollect, InsertRefuse,
                  InsertSkip, IndexTx
    <2>4. CASE \/ \E i \in Id : DeleteBegin(c, i) \/ Pin(c, i) \/ Unpin(c, i)
               \/ DeleteRead(c) \/ DeindexTx(c) \/ PinTx(c) \/ Respond(c) \/ TxFails(c)
      BY <2>4 DEF DeleteBegin, Pin, Unpin, DeleteRead, DeindexTx, PinTx, Respond, TxFails
    <2> QED
      BY <1>1, <2>1, <2>2, <2>3, <2>4 DEF ClientStep
  <1>2. ASSUME NEW p \in Proc, SweepStep(p)
        PROVE  \/ UNCHANGED <<records, source_index>>
               \/ \E V \in SUBSET Rec : DropRecords(V)
    <2>1. victims[p] \in SUBSET Rec
      BY DEF TypeInv, TypeOK
    <2> QED
      BY <1>2, <2>1 DEF SweepStep, SweepStart, SweepCollect, SweepTx
  <1>3. CASE Tick \/ Crash \/ UNCHANGED vars
    BY <1>3 DEF Tick, Crash, vars
  <1> QED
    BY <1>1, <1>2, <1>3 DEF Next

\* An insert keeps the agreement of records and source_index: with content
\* addressing, the id it writes belongs to no other source.
LEMMA PutExact ==
  ASSUME ContentAddressed, TypeInv, SourceIndexExact, NEW r \in Rec, PutRecord(r)
  PROVE  SourceIndexExact'
  <1>1. r.id \in Id /\ r.source_hash \in Hash
    BY RecAssumption DEF ContentRecord
  <1>2. \A i \in Id : Live(i) =>
          records[i] \in Rec /\ (i = r.id => records[i].source_hash = r.source_hash)
    <2> SUFFICES ASSUME NEW i \in Id, Live(i)
                 PROVE  records[i] \in Rec
                        /\ (i = r.id => records[i].source_hash = r.source_hash)
      OBVIOUS
    <2>1. records[i] \in Rec /\ records[i].id = i
      BY LiveType DEF SourceIndexExact, Live
    <2> QED
      BY <2>1 DEF ContentAddressed
  <1>3. /\ \A i \in Id : records'[i] = IF i = r.id THEN r
                                       ELSE IF i = source_index[r.source_hash] THEN NoRec
                                       ELSE records[i]
        /\ \A h \in Hash : source_index'[h] = IF h = r.source_hash THEN r.id ELSE source_index[h]
    BY DEF PutRecord, TypeInv, TypeOK
  <1>4. ASSUME NEW h \in Hash, source_index'[h] # NoId
        PROVE  records'[source_index'[h]] # NoRec /\ records'[source_index'[h]].source_hash = h
    <2>1. CASE h = r.source_hash
      BY <1>1, <1>3, <2>1, AbsentAssumption
    <2>2. CASE h # r.source_hash
      <3> DEFINE i == source_index[h]
      <3>1. source_index'[h] = i /\ i \in Id /\ Live(i) /\ records[i].source_hash = h
        BY <1>3, <1>4, <2>2 DEF SourceIndexExact, TypeInv, TypeOK
      <3>2. i # r.id /\ i # source_index[r.source_hash]
        BY <1>1, <1>2, <2>2, <3>1, AbsentAssumption DEF SourceIndexExact
      <3> HIDE DEF i
      <3> QED
        BY <1>3, <3>1, <3>2 DEF Live
    <2> QED
      BY <2>1, <2>2
  <1>5. ASSUME NEW i \in Id, records'[i] # NoRec
        PROVE  records'[i].id = i /\ source_index'[records'[i].source_hash] = i
    <2>1. CASE i = r.id
      BY <1>1, <1>3, <2>1
    <2>2. CASE i # r.id
      <3>1. records'[i] = records[i] /\ Live(i) /\ i # source_index[r.source_hash]
        BY <1>3, <1>5, <2>2 DEF Live
      <3>2. records[i].source_hash \in Hash
        BY <1>2, <3>1, RecAssumption DEF ContentRecord
      <3>3. records[i].id = i /\ source_index[records[i].source_hash] = i
        BY <3>1 DEF SourceIndexExact
      <3> QED
        BY <1>3, <3>1, <3>2, <3>3
    <2> QED
      BY <2>1, <2>2
  <1> QED
    BY <1>4, <1>5 DEF SourceIndexExact, Live

\* A removal keeps it too: the records collected earlier may be gone or have
\* been replaced, but an id determines its source, so the entry of a source
\* goes exactly when its record goes.
LEMMA DropExact ==
  ASSUME ContentAddressed, TypeInv, SourceIndexExact, NEW V \in SUBSET Rec, DropRecords(V)
  PROVE  SourceIndexExact'
  <1>1. \A i \in Id : Live(i) =>
          records[i] \in Rec /\ \A v \in V : v.id = i => records[i].source_hash = v.source_hash
    <2> SUFFICES ASSUME NEW i \in Id, Live(i)
                 PROVE  records[i] \in Rec
                        /\ \A v \in V : v.id = i => records[i].source_hash = v.source_hash
      OBVIOUS
    <2>1. records[i] \in Rec /\ records[i].id = i
      BY LiveType DEF SourceIndexExact, Live
    <2> QED
      BY <2>1 DEF ContentAddressed
  <1>2. ASSUME NEW h \in Hash, source_index'[h] # NoId
        PROVE  records'[source_index'[h]] # NoRec /\ records'[source_index'[h]].source_hash = h
    BY <1>1, <1>2 DEF DropRecords, SourceIndexExact, Live, TypeInv, TypeOK
  <1>3. ASSUME NEW i \in Id, records'[i] # NoRec
        PROVE  records'[i].id = i /\ source_index'[records'[i].source_hash] = i
    <2>1. records'[i] = records[i] /\ Live(i) /\ ~(\E v \in V : v.id = i)
      BY <1>3 DEF DropRecords, Live
    <2>2. records[i].source_hash \in Hash
      BY <1>1, <2>1, RecAssumption DEF ContentRecord
    <2> QED
      BY <2>1, <2>2 DEF DropRecords, SourceIndexExact
  <1> QED
    BY <1>2, <1>3 DEF SourceIndexExact, Live

\* The inductive invariant of the dedup tables.
StoreInv == TypeInv /\ SourceIndexExact

\* StoreInv is inductive when ids are content addresses.
LEMMA StoreInvStep ==
  ASSUME ContentAddressed
  PROVE  StoreInv /\ [Next]_vars => StoreInv'
  <1> SUFFICES ASSUME StoreInv, [Next]_vars PROVE SourceIndexExact'
    BY TypeStep DEF StoreInv
  <1>1. CASE UNCHANGED <<records, source_index>>
    BY <1>1 DEF StoreInv, SourceIndexExact, Live
  <1>2. CASE \E r \in Rec : ~SkippedOlder(r) /\ PutRecord(r)
    BY <1>2, PutExact DEF StoreInv
  <1>3. CASE \E V \in SUBSET Rec : DropRecords(V)
    BY <1>3, DropExact DEF StoreInv
  <1> QED
    BY <1>1, <1>2, <1>3, TableStep DEF StoreInv

\* records and source_index agree after every transaction, whatever the number
\* of clients and sweepers and wherever the process is killed, provided that
\* record ids are content addresses.
THEOREM DedupExact ==
  ASSUME ContentAddressed
  PROVE  Spec => []SourceIndexExact
  <1>1. Init => StoreInv
    BY TypeInit DEF Init, StoreInv, SourceIndexExact, Live
  <1>2. StoreInv /\ [Next]_vars => StoreInv'
    BY StoreInvStep
  <1>3. StoreInv => SourceIndexExact
    BY DEF StoreInv
  <1> QED
    BY <1>1, <1>2, <1>3, PTL DEF Spec

\* The record of a source that has one is live and belongs to it, so writing
\* one source or removing records of others leaves it alone.
LEMMA PutRefines ==
  ASSUME ContentAddressed, StoreInv, NEW r \in Rec, ~SkippedOlder(r), PutRecord(r)
  PROVE  SM!Put(r)
  <1> DEFINE live == [h \in Hash |-> Existing(h)]
  <1>1. r.id \in Id /\ r.source_hash \in Hash /\ r.created_at \in Nat
    BY RecAssumption DEF ContentRecord
  <1>2. /\ \A i \in Id : records'[i] = IF i = r.id THEN r
                                       ELSE IF i = source_index[r.source_hash] THEN NoRec
                                       ELSE records[i]
        /\ \A h \in Hash : source_index'[h] = IF h = r.source_hash THEN r.id ELSE source_index[h]
    BY DEF PutRecord, StoreInv, TypeInv, TypeOK
  <1>3. Existing(r.source_hash) = NoRec \/ Existing(r.source_hash).created_at < r.created_at
    <2>1. Existing(r.source_hash) \in Rec \cup {NoRec}
      BY <1>1 DEF Existing, StoreInv, TypeInv, TypeOK
    <2>2. Existing(r.source_hash) # NoRec => Existing(r.source_hash).created_at \in Nat
      BY <2>1, RecAssumption DEF ContentRecord
    <2> QED
      BY <1>1, <2>2 DEF SkippedOlder
  <1>4. ASSUME NEW h \in Hash
        PROVE  Existing(h)' = IF h = r.source_hash THEN r ELSE Existing(h)
    <2>1. CASE h = r.source_hash
      BY <1>1, <1>2, <2>1, AbsentAssumption DEF Existing
    <2>2. CASE h # r.source_hash /\ source_index[h] = NoId
      BY <1>2, <2>2 DEF Existing
    <2>3. CASE h # r.source_hash /\ source_index[h] # NoId
      <3> DEFINE i == source_index[h]
      <3>1. i \in Id /\ Live(i) /\ records[i] \in Rec /\ records[i].id = i
            /\ records[i].source_hash = h
        BY <2>3 DEF StoreInv, SourceIndexExact, Live, TypeInv, TypeOK
      <3>2. i # r.id
        BY <2>3, <3>1 DEF ContentAddressed
      <3>3. i # source_index[r.source_hash]
        BY <1>1, <2>3, <3>1, AbsentAssumption DEF StoreInv, SourceIndexExact
      <3>4. records'[i] = records[i] /\ source_index'[h] = i
        BY <1>2, <2>3, <3>1, <3>2, <3>3
      <3> HIDE DEF i
      <3>5. Existing(h) = records[i] /\ Existing(h)' = records'[i]
        BY <2>3, <3>4 DEF i, Existing
      <3> QED
        BY <2>3, <3>4, <3>5
    <2> QED
      BY <2>1, <2>2, <2>3
  <1>5. live' = [live EXCEPT ![r.source_hash] = r]
    BY <1>1, <1>4
  <1> QED
    BY <1>1, <1>3, <1>5 DEF SM!Put

\* A removal empties the sources whose entry it removes and no others.
LEMMA DropRefines ==
  ASSUME ContentAddressed, StoreInv, NEW V \in SUBSET Rec, DropRecords(V)
  PROVE  \E H \in SUBSET Hash : SM!Drop(H)
  <1> DEFINE H == {h \in Hash : source_index'[h] = NoId}
  <1>1. SourceIndexExact'
    BY DropExact DEF StoreInv
  <1>2. ASSUME NEW h \in Hash
        PROVE  Existing(h)' = IF h \in H THEN NoRec ELSE Existing(h)
    <2>1. CASE h \in H
      BY <2>1 DEF Existing
    <2>2. CASE h \notin H
      <3>1. source_index'[h] # NoId /\ source_index'[h] = source_index[h]
        BY <2>2 DEF DropRecords, StoreInv, TypeInv, TypeOK
      <3>2. source_index[h] \in Id /\ records'[source_index[h]] # NoRec
        BY <1>1, <3>1 DEF SourceIndexExact, Live, StoreInv, TypeInv, TypeOK
      <3>3. records'[source_index[h]] = records[source_index[h]]
        BY <3>2 DEF DropRecords
      <3> QED
        BY <2>2, <3>1, <3>3 DEF Existing
    <2> QED
      BY <2>1, <2>2
  <1>3. SM!Drop(H)
    BY <1>2 DEF SM!Drop
  <1> QED
    BY <1>3

\* The store implements the abstract source map: through any interleaving of
\* inserts, deletes, sweeps, evictions and crashes, the record of a source is
\* replaced only by a strictly newer one of the same source.
THEOREM Refinement ==
  ASSUME ContentAddressed
  PROVE  Spec => ImplementsSourceMap
  <1>1. Init => StoreInv
    BY TypeInit DEF Init, StoreInv, SourceIndexExact, Live
  <1>2. StoreInv /\ [Next]_vars => StoreInv'
    BY StoreInvStep
  <1>3. Init => SM!Init
    BY DEF Init, Existing, SM!Init
  <1>4. StoreInv /\ [Next]_vars => [SM!Next]_([h \in Hash |-> Existing(h)])
    <2> SUFFICES ASSUME StoreInv, [Next]_vars
                 PROVE  [SM!Next]_([h \in Hash |-> Existing(h)])
      OBVIOUS
    <2>1. CASE UNCHANGED <<records, source_index>>
      BY <2>1 DEF Existing
    <2>2. CASE \E r \in Rec : ~SkippedOlder(r) /\ PutRecord(r)
      BY <2>2, PutRefines DEF SM!Next
    <2>3. CASE \E V \in SUBSET Rec : DropRecords(V)
      BY <2>3, DropRefines DEF SM!Next
    <2> QED
      BY <2>1, <2>2, <2>3, TableStep DEF StoreInv
  <1> QED
    BY <1>1, <1>2, <1>3, <1>4, PTL DEF Spec, ImplementsSourceMap, SM!Spec
-----------------------------------------------------------------------------
(* Why a record disappears. *)

\* A record is determined by its id, as when every caller submits the record
\* with the lifetime it was made with.
OneRecordPerId == \A r, s \in Rec : r.id = s.id => r = s

\* What a task has collected is what it may remove: a delete its target, a sweep
\* records that had expired when it started, and a fortiori have now.
ReasonInv ==
    /\ DOMAIN num = Proc
    /\ \A p \in Proc :
          /\ pc[p] = "sweepCollect" => num[p] \in Nat /\ num[p] <= now
          /\ pc[p] = "sweepTx" => \A v \in victims[p] : Expired(v, now)
          /\ pc[p] = "deleteTx" => \A v \in victims[p] : v.id = target[p]

\* A task that ends its operation has collected nothing.
LEMMA FinishReason ==
  ASSUME TypeInv, ReasonInv, NEW p \in Proc, NEW o \in {"idle", "refused", "panicked"}, Finish(p, o), now' = now
  PROVE  ReasonInv'
  BY DEF Finish, ReasonInv, TypeInv, TypeOK

\* A task that goes on to another point of its operation keeps the reasons if
\* it is not about to remove what it has collected.
LEMMA GotoReason ==
  ASSUME TypeInv, ReasonInv, NEW p \in Proc, NEW l \in PcValues \ {"sweepCollect", "sweepTx", "deleteTx"}, Goto(p, l),
         now' = now, DOMAIN num' = Proc, \A q \in Proc \ {p} : victims'[q] = victims[q] /\ num'[q] = num[q]
                                                                /\ target'[q] = target[q]
  PROVE  ReasonInv'
  BY DEF Goto, ReasonInv, TypeInv, TypeOK

\* Every step of a client keeps the reasons.
LEMMA ClientReason ==
  ASSUME StoreInv, ReasonInv, NEW c \in Client, ClientStep(c)
  PROVE  ReasonInv'
  <1> c \in Proc
    BY DEF Proc
  <1> USE DEF tables, index, PcValues
  <1>0. TypeInv
    BY DEF StoreInv
  <1>00. /\ DOMAIN num = Proc /\ now' = now
         /\ rec \in [Proc -> Rec \cup {NoRec}] /\ target \in [Proc -> Id \cup {NoId}] /\ victims \in [Proc -> SUBSET Rec]
    BY <1>0 DEF ReasonInv, TypeInv, TypeOK, ClientStep, ApiInsert, DirectInsert, CheckQuota, EvictCollect, EvictTx, InsertRefuse,
                InsertSkip, InsertCommit, IndexTx, DeleteBegin, Pin, Unpin, DeleteRead, DeleteTx, DeindexTx, PinTx, Respond, TxFails
  <1>1. CASE \E o \in {"idle", "refused", "panicked"} : Finish(c, o)
    BY <1>0, <1>00, <1>1, FinishReason
  <1>2. ASSUME NEW r \in Rec, ApiInsert(c, r) \/ DirectInsert(c, r)
        PROVE  ReasonInv'
    <2>1. \E l \in {"checkQuota", "insert"} : Goto(c, l)
      BY <1>2 DEF ApiInsert, DirectInsert
    <2>2. victims' = victims /\ num' = num /\ target' = target
      BY <1>2 DEF ApiInsert, DirectInsert
    <2> QED
      BY <1>0, <1>00, <2>1, <2>2, GotoReason
  <1>3. CASE CheckQuota(c)
    <2>1. CASE Finish(c, "refused")
      BY <1>1, <2>1
    <2>2. CASE ~Finish(c, "refused")
      <3>1. \E l \in {"insert", "evictCollect"} : Goto(c, l)
        BY <1>3, <2>2 DEF CheckQuota
      <3>2. victims' = victims /\ target' = target /\ (num' = num \/ \E x : num' = [num EXCEPT ![c] = x])
        BY <1>3, <2>2 DEF CheckQuota
      <3>3. DOMAIN num' = Proc /\ \A q \in Proc \ {c} : num'[q] = num[q]
        BY <1>00, <3>2
      <3> QED
        BY <1>0, <1>00, <3>1, <3>2, <3>3, GotoReason
    <2> QED
      BY <2>1, <2>2
  <1>4. CASE EvictCollect(c) \/ EvictTx(c)
    <2>1. CASE Finish(c, "refused")
      BY <1>1, <2>1
    <2>2. CASE ~Finish(c, "refused")
      <3>1. \E l \in {"evictTx", "insert"} : Goto(c, l)
        BY <1>4, <2>2 DEF EvictCollect, EvictTx
      <3>2. /\ target' = target /\ \E V : victims' = [victims EXCEPT ![c] = V]
            /\ num' = num \/ \E x : num' = [num EXCEPT ![c] = x]
        BY <1>4, <2>2 DEF EvictCollect, EvictTx
      <3>3. DOMAIN num' = Proc /\ \A q \in Proc \ {c} : num'[q] = num[q] /\ victims'[q] = victims[q]
        BY <1>00, <3>2
      <3> QED
        BY <1>0, <1>00, <3>1, <3>2, <3>3, GotoReason
    <2> QED
      BY <2>1, <2>2
  <1>5. CASE InsertRefuse(c) \/ InsertSkip(c) \/ PinTx(c) \/ Respond(c) \/ TxFails(c)
    BY <1>1, <1>5 DEF InsertRefuse, InsertSkip, PinTx, Respond, TxFails
  <1>6. CASE InsertCommit(c)
    <2>1. CASE Finish(c, "idle")
      BY <1>1, <2>1
    <2>2. CASE ~Finish(c, "idle")
      <3>1. Goto(c, "index") /\ victims' = victims /\ num' = num /\ target' = target
        BY <1>6, <2>2 DEF InsertCommit
      <3> QED
        BY <1>0, <1>00, <3>1, GotoReason
    <2> QED
      BY <2>1, <2>2
  <1>7. CASE IndexTx(c) \/ DeindexTx(c)
    <2>1. CASE \E o \in {"idle", "panicked"} : Finish(c, o)
      BY <1>1, <2>1
    <2>2. CASE ~\E o \in {"idle", "panicked"} : Finish(c, o)
      <3>1. pc' = pc /\ victims' = victims /\ num' = num /\ target' = target
        BY <1>7, <2>2 DEF IndexTx, DeindexTx, NextTag
      <3> QED
        BY <1>00, <3>1 DEF ReasonInv
    <2> QED
      BY <2>1, <2>2
  <1>8. ASSUME NEW i \in Id, DeleteBegin(c, i) \/ Pin(c, i)
        PROVE  ReasonInv'
    <2>1. \E l \in {"deleteRead", "pinTx"} : Goto(c, l)
      BY <1>8 DEF DeleteBegin, Pin
    <2>2. victims' = victims /\ num' = num /\ target' = [target EXCEPT ![c] = i]
      BY <1>8 DEF DeleteBegin, Pin
    <2>3. \A q \in Proc \ {c} : target'[q] = target[q]
      BY <1>00, <2>2
    <2> QED
      BY <1>0, <1>00, <2>1, <2>2, <2>3, GotoReason
  <1>9. ASSUME NEW i \in Id, Unpin(c, i)
        PROVE  ReasonInv'
    BY <1>9 DEF Unpin, locals, ReasonInv
  <1>10. CASE DeleteRead(c)
    <2>1. CASE Finish(c, "idle")
      BY <1>1, <2>1
    <2>2. CASE ~Finish(c, "idle")
      <3>1. /\ pc[c] = "deleteRead" /\ Live(target[c]) /\ Goto(c, "deleteTx") /\ num' = num /\ target' = target
            /\ victims' = [victims EXCEPT ![c] = {records[target[c]]}]
        BY <1>10, <2>2 DEF DeleteRead
      <3>2. target[c] \in Id /\ records[target[c]].id = target[c]
        BY <1>0, <3>1 DEF StoreInv, SourceIndexExact, TypeInv, LocalsOK
      <3>3. victims'[c] = {records[target[c]]} /\ \A q \in Proc \ {c} : victims'[q] = victims[q]
        BY <1>00, <3>1
      <3>4. pc'[c] = "deleteTx" /\ \A q \in Proc \ {c} : pc'[q] = pc[q]
        BY <1>0, <3>1 DEF Goto, TypeInv, TypeOK
      <3> QED
        BY <1>00, <3>1, <3>2, <3>3, <3>4 DEF ReasonInv
    <2> QED
      BY <2>1, <2>2
  <1>11. CASE DeleteTx(c)
    <2>1. CASE Finish(c, "idle")
      BY <1>1, <2>1
    <2>2. CASE ~Finish(c, "idle")
      <3>1. Goto(c, "deindex") /\ victims' = victims /\ num' = num /\ target' = target
        BY <1>11, <2>2 DEF DeleteTx
      <3> QED
        BY <1>0, <1>00, <3>1, GotoReason
    <2> QED
      BY <2>1, <2>2
  <1> QED
    BY <1>2, <1>3, <1>4, <1>5, <1>6, <1>7, <1>8, <1>9, <1>10, <1>11 DEF ClientStep

\* Every step keeps the reasons; time passes, and what has expired stays so.
LEMMA ReasonStep ==
  ASSUME StoreInv, ReasonInv, [Next]_vars
  PROVE  ReasonInv'
  <1> USE DEF tables, index, PcValues
  <1>0. TypeInv
    BY DEF StoreInv
  <1>1. CASE \E c \in Client : ClientStep(c)
    BY <1>1, ClientReason
  <1>2. ASSUME NEW p \in Proc, SweepStep(p)
        PROVE  ReasonInv'
    <2>0. /\ DOMAIN num = Proc /\ now \in Nat /\ now' = now
          /\ pc \in [Proc -> PcValues] /\ victims \in [Proc -> SUBSET Rec]
      BY <1>0, <1>2, BoundAssumption DEF ReasonInv, TypeInv, TypeOK, SweepStep, SweepStart, SweepCollect, SweepTx
    <2>1. CASE Finish(p, "idle")
      BY <1>0, <2>0, <2>1, FinishReason
    <2>2. CASE SweepStart(p)
      <3>1. /\ pc' = [pc EXCEPT ![p] = "sweepCollect"] /\ num' = [num EXCEPT ![p] = now]
            /\ victims' = victims /\ target' = target
        BY <2>2 DEF SweepStart, Goto
      <3>2. /\ pc'[p] = "sweepCollect" /\ num'[p] = now /\ DOMAIN num' = Proc
            /\ \A q \in Proc \ {p} : pc'[q] = pc[q] /\ num'[q] = num[q]
        BY <2>0, <3>1
      <3> QED
        BY <2>0, <3>1, <3>2 DEF ReasonInv
    <2>3. CASE SweepCollect(p) /\ ~Finish(p, "idle")
      <3>1. /\ pc' = [pc EXCEPT ![p] = "sweepTx"] /\ num' = num /\ pc[p] = "sweepCollect"
            /\ victims' = [victims EXCEPT ![p] = Sweepable(num[p])] /\ target' = target
        BY <2>3 DEF SweepCollect, Goto
      <3>2. /\ pc'[p] = "sweepTx" /\ victims'[p] = Sweepable(num[p])
            /\ \A q \in Proc \ {p} : pc'[q] = pc[q] /\ victims'[q] = victims[q]
        BY <2>0, <3>1
      <3>3. num[p] \in Nat /\ num[p] <= now
        BY <3>1 DEF ReasonInv
      <3>4. ASSUME NEW v \in Sweepable(num[p])
            PROVE  Expired(v, now)
        <4>1. v \in Rec /\ v.expires_at > 0 /\ v.expires_at < num[p]
          BY <1>0 DEF Sweepable, LiveIds, Live, Expired, TypeInv, TypeOK
        <4>2. v.expires_at \in Nat
          BY <4>1, RecAssumption DEF ContentRecord
        <4> QED
          BY <2>0, <3>3, <4>1, <4>2 DEF Expired
      <3> QED
        BY <2>0, <3>1, <3>2, <3>4 DEF ReasonInv, Expired
    <2> QED
      BY <1>2, <2>1, <2>2, <2>3 DEF SweepStep, SweepTx
  <1>3. CASE Tick
    <2>1. now \in Nat /\ now' = now + 1 /\ pc' = pc /\ num' = num /\ victims' = victims /\ target' = target
      BY <1>0, <1>3, BoundAssumption DEF Tick, locals, TypeInv, TypeOK
    <2>2. ASSUME NEW p \in Proc, NEW v \in victims[p], Expired(v, now)
          PROVE  Expired(v, now + 1)
      <3>1. v.expires_at \in Nat
        BY <1>0, RecAssumption DEF ContentRecord, TypeInv, TypeOK
      <3> QED
        BY <2>1, <2>2, <3>1 DEF Expired
    <2> QED
      BY <2>1, <2>2 DEF ReasonInv, Expired
  <1>4. CASE Crash
    BY <1>4 DEF Crash, ReasonInv
  <1>5. CASE UNCHANGED vars
    BY <1>5 DEF vars, locals, ReasonInv
  <1> QED
    BY <1>1, <1>2, <1>3, <1>4, <1>5 DEF Next

\* A record that goes was superseded, deleted, expired, or collected for an
\* eviction: no removal in two phases takes a record it did not read, whatever
\* happened between the phases (evict_oldest, delete_expired_records,
\* delete_record), provided that an id stands for one record.
THEOREM RemovalsJustified ==
  ASSUME OneRecordPerId
  PROVE  Spec => RemovalJustified
  <1> DEFINE Justified(i) ==
               \/ SupersededNext(records[i])
               \/ \E c \in Client : pc[c] = "deleteTx" /\ target[c] = i
               \/ Expired(records[i], now)
               \/ \E c \in Client : pc[c] = "evictTx" /\ records[i] \in victims[c]
             Reasons == \A i \in Id : Live(i) /\ ~Live(i)' => Justified(i)
             RInv == StoreInv /\ ReasonInv
  <1>1. ContentAddressed
    BY DEF OneRecordPerId, ContentAddressed
  <1>2. Init => RInv
    BY TypeInit DEF Init, StoreInv, SourceIndexExact, Live, ReasonInv
  <1>3. RInv /\ [Next]_vars => RInv'
    BY <1>1, StoreInvStep, ReasonStep
  <1>4. RInv /\ [Next]_vars => [Reasons]_vars
    <2> SUFFICES ASSUME RInv, Next, NEW i \in Id, Live(i), ~Live(i)'
                 PROVE  Justified(i)
      OBVIOUS
    <2> USE DEF tables, index
    <2>0. TypeInv /\ records[i] \in Rec /\ records[i].id = i /\ records'[i] = NoRec
      BY LiveType DEF StoreInv, SourceIndexExact, Live
    <2>1. ASSUME NEW p \in Proc, DropRecords(victims[p])
          PROVE  records[i] \in victims[p]
      <3>1. PICK v \in victims[p] : v.id = i
        BY <2>0, <2>1, AbsentAssumption DEF DropRecords
      <3>2. v \in Rec
        BY <2>0 DEF TypeInv, TypeOK
      <3> QED
        BY <2>0, <3>1, <3>2 DEF OneRecordPerId
    <2>2. ASSUME NEW p \in Proc, SweepStep(p)
          PROVE  Justified(i)
      <3>1. SweepTx(p)
        BY <2>0, <2>2 DEF SweepStep, SweepStart, SweepCollect, Live
      <3> QED
        BY <2>1, <3>1 DEF SweepTx, ReasonInv
    <2>3. ASSUME NEW c \in Client, InsertCommit(c)
          PROVE  Justified(i)
      <3>1. PICK r \in Rec : r = rec[c] /\ ~SkippedOlder(r) /\ PutRecord(r)
        BY <2>0, <2>3 DEF InsertCommit, TypeInv, LocalsOK, Proc
      <3>2. /\ r.id \in Id /\ r.source_hash \in Hash /\ r.created_at \in Nat /\ records[i].created_at \in Nat
            /\ records[i].source_hash \in Hash
        BY <2>0, RecAssumption DEF ContentRecord
      <3>3. i = source_index[r.source_hash] /\ i # r.id
        BY <2>0, <3>1, AbsentAssumption DEF PutRecord, Live
      <3>4. records[i].source_hash = r.source_hash
        BY <3>2, <3>3, AbsentAssumption DEF StoreInv, SourceIndexExact
      <3>5. Existing(r.source_hash) = records[i]
        BY <3>3, AbsentAssumption DEF Existing
      <3>6. records[i].created_at < r.created_at
        BY <2>0, <3>1, <3>2, <3>5, AbsentAssumption DEF SkippedOlder
      <3>7. source_index'[r.source_hash] = r.id /\ records'[r.id] = r
        BY <2>0, <3>1, <3>2 DEF PutRecord, TypeInv, TypeOK
      <3>8. Existing(r.source_hash)' = r /\ r # NoRec
        <4>1. r.id # NoId /\ r # NoRec
          BY <3>2, AbsentAssumption
        <4>2. \A h : h = r.source_hash => Existing(h)' = r
          BY <3>7, <4>1 DEF Existing
        <4> QED
          BY <4>1, <4>2
      <3> QED
        BY <3>2, <3>4, <3>6, <3>8 DEF SupersededNext
    <2>4. ASSUME NEW c \in Client, EvictTx(c)
          PROVE  Justified(i)
      BY <2>1, <2>4 DEF EvictTx, Proc
    <2>5. ASSUME NEW c \in Client, DeleteTx(c)
          PROVE  Justified(i)
      <3>1. records[i] \in victims[c] /\ pc[c] = "deleteTx"
        BY <2>1, <2>5 DEF DeleteTx, Proc
      <3>2. target[c] = i
        BY <2>0, <3>1 DEF ReasonInv, Proc
      <3> QED
        BY <3>1, <3>2
    <2>6. ASSUME NEW c \in Client, ClientStep(c)
          PROVE  InsertCommit(c) \/ EvictTx(c) \/ DeleteTx(c)
      BY <2>0, <2>6 DEF Live, ClientStep, ApiInsert, DirectInsert, CheckQuota, EvictCollect, InsertRefuse, InsertSkip, IndexTx,
                        DeleteBegin, Pin, Unpin, DeleteRead, DeindexTx, PinTx, Respond, TxFails
    <2>7. ~Tick /\ ~Crash
      BY <2>0 DEF Tick, Crash, Live
    <2> QED
      BY <2>2, <2>3, <2>4, <2>5, <2>6, <2>7 DEF Next
  <1>5. Spec => [][Reasons]_vars
    BY <1>2, <1>3, <1>4, PTL DEF Spec
  <1> QED
    BY <1>5 DEF RemovalJustified
-----------------------------------------------------------------------------
(* The quota. *)

\* An insert adds at most the bytes of its record.
LEMMA PutBytes ==
  ASSUME TypeInv, NEW r \in Rec, PutRecord(r)
  PROVE  StoredBytes' \subseteq StoredBytes \cup ({r.id} \X (1..r.size))
  <1> SUFFICES ASSUME NEW b \in StoredBytes'
               PROVE  b \in StoredBytes \cup ({r.id} \X (1..r.size))
    OBVIOUS
  <1>1. PICK i \in Id : records'[i] # NoRec /\ b \in {i} \X (1..records'[i].size)
    BY DEF StoredBytes, LiveIds, Live, SizeOf
  <1>2. CASE i = r.id
    <2>1. records'[i] = r
      BY <1>2 DEF PutRecord
    <2> QED
      BY <1>1, <1>2, <2>1
  <1>3. CASE i # r.id
    <2>1. records'[i] = records[i]
      BY <1>1, <1>3 DEF PutRecord
    <2> QED
      BY <1>1, <2>1 DEF StoredBytes, LiveIds, Live, SizeOf
  <1> QED
    BY <1>2, <1>3

\* A removal adds none.
LEMMA DropBytes ==
  ASSUME TypeInv, NEW V, DropRecords(V)
  PROVE  StoredBytes' \subseteq StoredBytes
  <1> SUFFICES ASSUME NEW b \in StoredBytes'
               PROVE  b \in StoredBytes
    OBVIOUS
  <1>1. PICK i \in Id : records'[i] # NoRec /\ b \in {i} \X (1..records'[i].size)
    BY DEF StoredBytes, LiveIds, Live, SizeOf
  <1>2. records'[i] = records[i]
    BY <1>1 DEF DropRecords
  <1> QED
    BY <1>1, <1>2 DEF StoredBytes, LiveIds, Live, SizeOf

\* The store is finite, a record is stored under its own id, and the quota holds.
BytesInv ==
    /\ IsFiniteSet(StoredBytes)
    /\ \A i \in Id : Live(i) => records[i].id = i
    /\ Quota > 0 => TotalSize <= Quota

\* No step takes the store over its quota: the quota is checked in the write
\* transaction that inserts.
LEMMA BytesStep ==
  ASSUME TypeInv, BytesInv, [Next]_vars
  PROVE  BytesInv'
  <1>1. IsFiniteSet(StoredBytes) /\ TotalSize \in Nat /\ TotalSize = Cardinality(StoredBytes)
    BY FS_CardinalityType DEF BytesInv, TotalSize
  <1>2. CASE UNCHANGED <<records, source_index>>
    BY <1>2 DEF BytesInv, TotalSize, StoredBytes, LiveIds, Live, SizeOf
  <1>3. ASSUME NEW r \in Rec, ~OverQuota(r.size), PutRecord(r)
        PROVE  BytesInv'
    <2> DEFINE new == {r.id} \X (1..r.size)
    <2>1. r.size \in Nat /\ r.id \in Id
      BY RecAssumption DEF ContentRecord
    <2>2. IsFiniteSet(1..r.size) /\ Cardinality(1..r.size) = r.size
      <3> DEFINE z == r.size
      <3>1. z \in Nat
        BY <2>1
      <3> HIDE DEF z
      <3>2. z \in Int /\ 1 \in Int /\ (1 > z => z = 0) /\ z - 1 + 1 = z
        BY <3>1
      <3>3. IsFiniteSet(1..z) /\ Cardinality(1..z) = z
        BY <3>1, <3>2, FS_Interval
      <3> QED
        BY <3>3 DEF z
    <2>3. IsFiniteSet({r.id}) /\ Cardinality({r.id}) = 1
      BY FS_Singleton
    <2>4. IsFiniteSet(new) /\ Cardinality(new) = r.size
      <3>1. /\ IsFiniteSet(new)
            /\ Cardinality(new) = Cardinality({r.id}) * Cardinality(1..r.size)
        BY <2>2, <2>3, FS_Product, Zenon
      <3>2. 1 * r.size = r.size
        BY <2>1
      <3> QED
        BY <2>2, <2>3, <3>1, <3>2, Zenon
    <2> HIDE DEF new
    <2> DEFINE both == StoredBytes \cup new
    <2>5. /\ IsFiniteSet(both) /\ IsFiniteSet(StoredBytes \cap new)
          /\ Cardinality(both) = TotalSize + Cardinality(new) - Cardinality(StoredBytes \cap new)
          /\ Cardinality(StoredBytes \cap new) \in Nat /\ Cardinality(both) \in Nat
      <3>1. StoredBytes \cap new \in SUBSET new
        OBVIOUS
      <3>2. IsFiniteSet(StoredBytes \cap new)
        BY <2>4, <3>1, FS_Subset
      <3> QED
        BY <1>1, <2>4, <3>2, FS_Union, FS_CardinalityType
    <2>6. Cardinality(both) <= TotalSize + r.size
      BY <1>1, <2>1, <2>4, <2>5
    <2>7. StoredBytes' \in SUBSET both
      BY <1>3, PutBytes DEF new
    <2> HIDE DEF both
    <2>8. /\ IsFiniteSet(StoredBytes') /\ Cardinality(StoredBytes') <= Cardinality(both)
          /\ Cardinality(StoredBytes') \in Nat
      BY <2>5, <2>7, FS_Subset, FS_CardinalityType
    <2>9. Quota > 0 => TotalSize + r.size <= Quota
      BY <1>1, <1>3, <2>1, BoundAssumption DEF OverQuota
    <2>10. Quota > 0 => TotalSize' <= Quota
      BY <1>1, <2>1, <2>5, <2>6, <2>8, <2>9, BoundAssumption DEF TotalSize
    <2>11. \A i \in Id : records'[i] # NoRec => records'[i].id = i
      BY <1>3 DEF PutRecord, BytesInv, Live
    <2> QED
      BY <2>8, <2>10, <2>11 DEF BytesInv, Live
  <1>4. ASSUME NEW V \in SUBSET Rec, DropRecords(V)
        PROVE  BytesInv'
    <2>1. StoredBytes' \in SUBSET StoredBytes
      BY <1>4, DropBytes
    <2>2. /\ IsFiniteSet(StoredBytes') /\ Cardinality(StoredBytes') <= TotalSize
          /\ Cardinality(StoredBytes') \in Nat
      BY <1>1, <2>1, FS_Subset, FS_CardinalityType
    <2>3. \A i \in Id : records'[i] # NoRec => records'[i].id = i
      BY <1>4 DEF DropRecords, BytesInv, Live
    <2> QED
      BY <1>1, <2>2, <2>3, BoundAssumption DEF BytesInv, Live, TotalSize
  <1> QED
    BY <1>2, <1>3, <1>4, TableStep

\* What an eviction collects is part of what is stored.
LEMMA VictimBytes ==
  ASSUME TypeInv, BytesInv, NEW V \in SUBSET Evictable
  PROVE  SetSize(V) \in Nat /\ TotalSize \in Nat /\ SetSize(V) <= TotalSize
  <1> DEFINE B == BytesOf(V)
             f == [b \in B |-> <<b[1].id, b[2]>>]
  <1>1. \A v \in V : v.id \in Id /\ records[v.id] = v /\ v # NoRec
    BY DEF Evictable, LiveIds, BytesInv, Live
  <1>2. \A b \in B : /\ b = <<b[1], b[2]>> /\ b[1] \in V /\ b[2] \in 1..b[1].size
    BY DEF BytesOf
  <1>3. \A b \in B : f[b] \in StoredBytes
    <2> SUFFICES ASSUME NEW b \in B
                 PROVE  <<b[1].id, b[2]>> \in StoredBytes
      OBVIOUS
    <2> DEFINE i == b[1].id
    <2>1. i \in LiveIds /\ records[i] = b[1] /\ b[2] \in 1..SizeOf(i)
      BY <1>1, <1>2 DEF LiveIds, Live, SizeOf
    <2> QED
      BY <2>1 DEF StoredBytes
  <1>4. \A b, d \in B : f[b] = f[d] => b = d
    <2> SUFFICES ASSUME NEW b \in B, NEW d \in B, b[1].id = d[1].id, b[2] = d[2]
                 PROVE  b = d
      OBVIOUS
    <2> QED
      BY <1>1, <1>2
  <1>5. f \in Injection(B, StoredBytes)
    BY <1>3, <1>4 DEF Injection, IsInjective
  <1>6. IsFiniteSet(StoredBytes)
    BY DEF BytesInv
  <1>7. IsFiniteSet(B) /\ Cardinality(B) <= Cardinality(StoredBytes)
    BY <1>5, <1>6, FS_Injection
  <1> QED
    BY <1>6, <1>7, FS_CardinalityType DEF SetSize, TotalSize

\* What a client carries through an eviction: the bytes it has to free, no more
\* than the body it makes room for, and nothing collected before it has looked.
EvictInv ==
    /\ DOMAIN num = Proc
    /\ \A c \in Client :
          /\ pc[c] \in {"idle", "checkQuota", "evictCollect"} => victims[c] = {}
          /\ Quota > 0 /\ pc[c] \in {"evictCollect", "evictTx"} =>
                /\ num[c] \in 1..rec[c].body
                /\ SetSize(victims[c]) <= num[c] + Quota

QuotaInv == TypeInv /\ BytesInv /\ EvictInv

\* A step that is not part of an eviction, and leaves the locals of the other
\* tasks alone, keeps EvictInv.
LEMMA EvictOther ==
  ASSUME TypeInv, EvictInv, NEW p \in Proc, DOMAIN num' = Proc,
         \A q \in Proc \ {p} : /\ pc'[q] = pc[q] /\ rec'[q] = rec[q]
                               /\ victims'[q] = victims[q] /\ num'[q] = num[q],
         pc'[p] \notin {"evictCollect", "evictTx"},
         pc'[p] \in {"idle", "checkQuota"} => victims'[p] = {}
  PROVE  EvictInv'
  BY DEF EvictInv, SetSize, BytesOf, Proc

\* Ending an operation keeps EvictInv.
LEMMA FinishEvict ==
  ASSUME TypeInv, EvictInv, NEW p \in Proc, NEW o \in {"idle", "refused", "panicked"},
         Finish(p, o)
  PROVE  EvictInv'
  <1>1. /\ pc \in [Proc -> PcValues] /\ rec \in [Proc -> Rec \cup {NoRec}]
        /\ victims \in [Proc -> SUBSET Rec] /\ DOMAIN num = Proc
    BY DEF TypeInv, TypeOK, EvictInv
  <1>2. /\ pc'[p] = o /\ victims'[p] = {} /\ DOMAIN num' = Proc
        /\ \A q \in Proc \ {p} : /\ pc'[q] = pc[q] /\ rec'[q] = rec[q]
                                 /\ victims'[q] = victims[q] /\ num'[q] = num[q]
    BY <1>1 DEF Finish
  <1> QED
    BY <1>2, EvictOther

\* Going on to a point that is not part of an eviction keeps it too.
LEMMA GotoEvict ==
  ASSUME TypeInv, EvictInv, NEW p \in Proc,
         NEW l \in PcValues \ {"idle", "checkQuota", "evictCollect", "evictTx"}, Goto(p, l),
         DOMAIN num' = Proc,
         \A q \in Proc \ {p} : rec'[q] = rec[q] /\ victims'[q] = victims[q] /\ num'[q] = num[q]
  PROVE  EvictInv'
  <1>1. pc'[p] = l /\ \A q \in Proc \ {p} : pc'[q] = pc[q]
    BY DEF Goto, TypeInv, TypeOK
  <1> QED
    BY <1>1, EvictOther

\* Every step of a client keeps EvictInv.
LEMMA ClientEvict ==
  ASSUME QuotaInv, NEW c \in Client, ClientStep(c)
  PROVE  EvictInv'
  <1> c \in Proc
    BY DEF Proc
  <1> USE DEF tables, index, PcValues
  <1>0. TypeInv /\ BytesInv /\ EvictInv
    BY DEF QuotaInv
  <1>00. /\ DOMAIN num = Proc /\ pc \in [Proc -> PcValues]
         /\ rec \in [Proc -> Rec \cup {NoRec}] /\ victims \in [Proc -> SUBSET Rec]
    BY <1>0 DEF TypeInv, TypeOK, EvictInv
  <1>1. CASE \E o \in {"idle", "refused", "panicked"} : Finish(c, o)
    BY <1>0, <1>1, FinishEvict
  <1>2. ASSUME NEW r \in Rec, ApiInsert(c, r) \/ DirectInsert(c, r)
        PROVE  EvictInv'
    <2>1. /\ victims' = victims /\ num' = num /\ rec' = [rec EXCEPT ![c] = r]
          /\ pc[c] = "idle" /\ \E l \in {"checkQuota", "insert"} : pc' = [pc EXCEPT ![c] = l]
      BY <1>2 DEF ApiInsert, DirectInsert, Goto
    <2>2. victims'[c] = {}
      BY <1>0, <2>1 DEF EvictInv
    <2>3. /\ pc'[c] \in {"checkQuota", "insert"}
          /\ \A q \in Proc \ {c} : rec'[q] = rec[q] /\ pc'[q] = pc[q]
      BY <1>00, <2>1
    <2> QED
      BY <1>0, <1>00, <2>1, <2>2, <2>3, EvictOther
  <1>3. CASE CheckQuota(c)
    <2>0. rec[c] \in Rec /\ rec[c].body \in Nat /\ pc[c] = "checkQuota"
      BY <1>0, <1>3, RecAssumption DEF CheckQuota, TypeInv, LocalsOK, ContentRecord
    <2>1. CASE Finish(c, "refused")
      BY <1>1, <2>1
    <2>2. CASE Goto(c, "insert") /\ UNCHANGED <<rec, target, victims, todo, num>>
      BY <1>0, <1>00, <2>2, GotoEvict
    <2>3. CASE /\ OverQuota(rec[c].body) /\ Goto(c, "evictCollect")
               /\ num' = [num EXCEPT ![c] = TotalSize + rec[c].body - Quota]
               /\ UNCHANGED <<rec, target, victims, todo>>
      <3>1. TotalSize \in Nat
        BY <1>0, FS_CardinalityType DEF BytesInv, TotalSize
      <3>2. Quota > 0 /\ TotalSize + rec[c].body > Quota /\ TotalSize <= Quota
        BY <1>0, <2>3 DEF OverQuota, BytesInv
      <3>3. TotalSize + rec[c].body - Quota \in 1..rec[c].body
        BY <2>0, <3>1, <3>2, BoundAssumption
      <3>4. /\ num'[c] \in 1..rec[c].body /\ DOMAIN num' = Proc
            /\ \A q \in Proc \ {c} : num'[q] = num[q]
        BY <1>00, <2>3, <3>3
      <3>5. victims[c] = {} /\ victims' = victims /\ rec' = rec
        BY <1>0, <2>0, <2>3 DEF EvictInv
      <3>6. SetSize({}) = 0
        <4>1. BytesOf({}) = {}
          BY DEF BytesOf
        <4> QED
          BY <4>1, FS_EmptySet DEF SetSize
      <3>7. SetSize(victims'[c]) <= num'[c] + Quota
        <4>1. SetSize(victims'[c]) = 0
          BY <3>5, <3>6
        <4>2. num'[c] \in Nat
          BY <2>0, <3>4
        <4> QED
          BY <4>1, <4>2, BoundAssumption
      <3>8. pc'[c] = "evictCollect" /\ \A q \in Proc \ {c} : pc'[q] = pc[q]
        BY <1>00, <2>3 DEF Goto
      <3> QED
        BY <1>0, <3>4, <3>5, <3>7, <3>8 DEF EvictInv, SetSize, BytesOf, Proc
    <2> QED
      BY <1>3, <2>1, <2>2, <2>3 DEF CheckQuota
  <1>4. CASE EvictCollect(c)
    <2>1. CASE Finish(c, "refused")
      BY <1>1, <2>1
    <2>2. CASE ~Finish(c, "refused")
      <3>1. PICK V \in SUBSET Evictable :
              /\ Goto(c, "evictTx") /\ victims' = [victims EXCEPT ![c] = V]
              /\ UNCHANGED <<rec, target, todo, num>> /\ pc[c] = "evictCollect"
        BY <1>4, <2>2 DEF EvictCollect
      <3>2. SetSize(V) \in Nat /\ TotalSize \in Nat /\ SetSize(V) <= TotalSize
        BY <1>0, VictimBytes
      <3>3. rec[c] \in Rec /\ rec[c].body \in Nat
        BY <1>0, <3>1, RecAssumption DEF TypeInv, LocalsOK, ContentRecord
      <3>4. Quota > 0 => num[c] \in 1..rec[c].body /\ TotalSize <= Quota
        BY <1>0, <3>1 DEF EvictInv, BytesInv
      <3>5. Quota > 0 => SetSize(V) <= num[c] + Quota
        BY <3>2, <3>3, <3>4, BoundAssumption
      <3>6. /\ victims'[c] = V /\ pc'[c] = "evictTx"
            /\ \A q \in Proc \ {c} : victims'[q] = victims[q] /\ pc'[q] = pc[q]
        BY <1>00, <3>1 DEF Goto
      <3> QED
        BY <1>0, <3>1, <3>4, <3>5, <3>6 DEF EvictInv, SetSize, BytesOf, Proc
    <2> QED
      BY <2>1, <2>2
  <1>5. CASE EvictTx(c)
    <2>1. CASE Finish(c, "refused")
      BY <1>1, <2>1
    <2>2. CASE ~Finish(c, "refused")
      <3>1. /\ Goto(c, "insert") /\ victims' = [victims EXCEPT ![c] = {}]
            /\ num' = [num EXCEPT ![c] = 0] /\ rec' = rec
        BY <1>5, <2>2 DEF EvictTx
      <3>2. DOMAIN num' = Proc /\ \A q \in Proc \ {c} : victims'[q] = victims[q] /\ num'[q] = num[q]
        BY <1>00, <3>1
      <3> QED
        BY <1>0, <3>1, <3>2, GotoEvict
    <2> QED
      BY <2>1, <2>2
  <1>6. CASE InsertRefuse(c) \/ InsertSkip(c) \/ PinTx(c) \/ Respond(c) \/ TxFails(c)
    BY <1>1, <1>6 DEF InsertRefuse, InsertSkip, PinTx, Respond, TxFails
  <1>7. CASE InsertCommit(c) \/ DeleteTx(c)
    <2>1. CASE Finish(c, "idle")
      BY <1>1, <2>1
    <2>2. CASE ~Finish(c, "idle")
      <3>1. /\ \E l \in {"index", "deindex"} : Goto(c, l)
            /\ rec' = rec /\ victims' = victims /\ num' = num
        BY <1>7, <2>2 DEF InsertCommit, DeleteTx
      <3> QED
        BY <1>0, <1>00, <3>1, GotoEvict
    <2> QED
      BY <2>1, <2>2
  <1>8. CASE IndexTx(c) \/ DeindexTx(c)
    <2>1. CASE \E o \in {"idle", "panicked"} : Finish(c, o)
      BY <1>1, <2>1
    <2>2. CASE ~\E o \in {"idle", "panicked"} : Finish(c, o)
      <3>1. pc' = pc /\ rec' = rec /\ victims' = victims /\ num' = num
        BY <1>8, <2>2 DEF IndexTx, DeindexTx, NextTag
      <3> QED
        BY <1>0, <3>1 DEF EvictInv, SetSize, BytesOf
    <2> QED
      BY <2>1, <2>2
  <1>9. ASSUME NEW i \in Id, DeleteBegin(c, i) \/ Pin(c, i)
        PROVE  EvictInv'
    <2>1. /\ victims' = victims /\ num' = num /\ \E l \in {"deleteRead", "pinTx"} : Goto(c, l)
          /\ rec' = rec \/ rec' = [rec EXCEPT ![c] = records[i]]
      BY <1>9 DEF DeleteBegin, Pin
    <2>2. \A q \in Proc \ {c} : rec'[q] = rec[q]
      BY <1>00, <2>1
    <2> QED
      BY <1>0, <1>00, <2>1, <2>2, GotoEvict
  <1>10. ASSUME NEW i \in Id, Unpin(c, i)
         PROVE  EvictInv'
    BY <1>0, <1>10 DEF Unpin, locals, EvictInv, SetSize, BytesOf
  <1>11. CASE DeleteRead(c)
    <2>1. CASE Finish(c, "idle")
      BY <1>1, <2>1
    <2>2. CASE ~Finish(c, "idle")
      <3>1. /\ Goto(c, "deleteTx") /\ num' = num /\ rec' = rec
            /\ victims' = [victims EXCEPT ![c] = {records[target[c]]}]
        BY <1>11, <2>2 DEF DeleteRead
      <3>2. \A q \in Proc \ {c} : victims'[q] = victims[q]
        BY <1>00, <3>1
      <3> QED
        BY <1>0, <1>00, <3>1, <3>2, GotoEvict
    <2> QED
      BY <2>1, <2>2
  <1> QED
    BY <1>2, <1>3, <1>4, <1>5, <1>6, <1>7, <1>8, <1>9, <1>10, <1>11 DEF ClientStep

\* Every step keeps QuotaInv.
LEMMA QuotaStep == QuotaInv /\ [Next]_vars => QuotaInv'
  <1> SUFFICES ASSUME QuotaInv, [Next]_vars
               PROVE  QuotaInv'
    OBVIOUS
  <1>1. TypeInv /\ BytesInv /\ EvictInv
    BY DEF QuotaInv
  <1>2. TypeInv' /\ BytesInv'
    BY <1>1, TypeStep, BytesStep
  <1>3. ASSUME NEW c \in Client, ClientStep(c)
        PROVE  EvictInv'
    BY <1>3, ClientEvict
  <1>4. ASSUME NEW p \in Proc, SweepStep(p)
        PROVE  EvictInv'
    <2>1. CASE Finish(p, "idle")
      BY <1>1, <2>1, FinishEvict
    <2>2. CASE ~Finish(p, "idle")
      <3>1. /\ \E l \in {"sweepCollect", "sweepTx"} : Goto(p, l)
            /\ num' = num \/ num' = [num EXCEPT ![p] = now]
            /\ victims' = victims \/ \E V : victims' = [victims EXCEPT ![p] = V]
            /\ rec' = rec
        BY <1>4, <2>2 DEF SweepStep, SweepStart, SweepCollect, SweepTx
      <3>2. DOMAIN num = Proc /\ DOMAIN victims = Proc
        BY <1>1 DEF EvictInv, TypeInv, TypeOK
      <3>3. DOMAIN num' = Proc /\ \A q \in Proc \ {p} : victims'[q] = victims[q] /\ num'[q] = num[q]
        BY <3>1, <3>2
      <3> QED
        BY <1>1, <3>1, <3>3, GotoEvict DEF PcValues
    <2> QED
      BY <2>1, <2>2
  <1>5. ASSUME Tick \/ UNCHANGED vars
        PROVE  EvictInv'
    <2>1. pc' = pc /\ rec' = rec /\ victims' = victims /\ num' = num
      BY <1>5 DEF Tick, vars, locals
    <2> QED
      BY <1>1, <2>1 DEF EvictInv, SetSize, BytesOf
  <1>6. ASSUME Crash
        PROVE  EvictInv'
    <2>1. DOMAIN num' = Proc /\ \A c \in Client : pc'[c] = "idle" /\ victims'[c] = {}
      BY <1>6 DEF Crash, Proc
    <2> QED
      BY <2>1 DEF EvictInv
  <1>7. EvictInv'
    BY <1>3, <1>4, <1>5, <1>6 DEF Next, QuotaInv
  <1> QED
    BY <1>2, <1>7 DEF QuotaInv

\* QuotaInv holds in the empty store.
LEMMA QuotaInit == Init => QuotaInv
  <1> SUFFICES ASSUME Init
               PROVE  QuotaInv
    OBVIOUS
  <1>1. LiveIds = {} /\ StoredBytes = {}
    BY DEF Init, LiveIds, Live, StoredBytes
  <1>2. IsFiniteSet(StoredBytes) /\ TotalSize = 0
    BY <1>1, FS_EmptySet DEF TotalSize
  <1>3. BytesInv
    BY <1>2, BoundAssumption DEF BytesInv, Init, Live
  <1>4. EvictInv
    BY DEF Init, EvictInv, Proc
  <1> QED
    BY <1>3, <1>4, TypeInit DEF QuotaInv

\* The records never exceed quota_mb, and an eviction never sets out to free
\* more than the body it makes room for nor collects so much that the
\* subtraction of check_quota could underflow: for any number of inserts and
\* evictions racing with each other, with deletes, sweeps and crashes.
THEOREM QuotaCorrect == Spec => []QuotaRespected
  <1>1. QuotaInv => QuotaRespected
    BY DEF QuotaInv, BytesInv, EvictInv, QuotaRespected
  <1> QED
    BY <1>1, QuotaInit, QuotaStep, PTL DEF Spec
-----------------------------------------------------------------------------
(* The inverted index. *)

\* The index keys a sequence of tags holds.
Keys(s) == {s[k] : k \in DOMAIN s}

\* No tag occurs twice.
Distinct(s) == \A k, l \in DOMAIN s : s[k] = s[l] => k = l

\* A record lists no tag twice, and the records of an id have the same tags.
TagsPerId ==
    /\ \A r \in Rec : Distinct(r.tags)
    /\ \A r, s \in Rec : r.id = s.id => Keys(r.tags) = Keys(s.tags)

\* The first key and the remaining ones of an indexing loop.
LEMMA KeysHeadTail ==
  ASSUME NEW s \in Seq(Tag), s # <<>>, Distinct(s)
  PROVE  /\ Head(s) \in Keys(s)
         /\ Len(s) = 1 => Keys(s) = {Head(s)}
         /\ Keys(Tail(s)) = Keys(s) \ {Head(s)}
         /\ Distinct(Tail(s))
  <1>1. DOMAIN s = 1..Len(s) /\ Len(s) \in Nat /\ Len(s) >= 1 /\ Head(s) = s[1]
    <2>1. Len(s) \in Nat /\ Len(s) # 0
      BY EmptySeq
    <2> QED
      BY <2>1
  <1>2. /\ Tail(s) \in Seq(Tag) /\ DOMAIN Tail(s) = 1..(Len(s) - 1)
        /\ \A k \in 1..(Len(s) - 1) : Tail(s)[k] = s[k + 1]
    BY <1>1, HeadTailProperties
  <1>3. Head(s) \in Keys(s)
    BY <1>1 DEF Keys
  <1>4. Len(s) = 1 => Keys(s) = {Head(s)}
    <2> SUFFICES ASSUME Len(s) = 1
                 PROVE  Keys(s) = {Head(s)}
      OBVIOUS
    <2>1. DOMAIN s = {1}
      BY <1>1
    <2> QED
      BY <1>1, <2>1 DEF Keys
  <1>5. Keys(Tail(s)) \subseteq Keys(s) \ {Head(s)}
    <2> SUFFICES ASSUME NEW k \in 1..(Len(s) - 1)
                 PROVE  s[k + 1] \in Keys(s) /\ s[k + 1] # Head(s)
      BY <1>2 DEF Keys
    <2>1. k + 1 \in DOMAIN s /\ 1 \in DOMAIN s /\ k + 1 # 1
      BY <1>1
    <2> QED
      BY <1>1, <2>1 DEF Keys, Distinct
  <1>6. Keys(s) \ {Head(s)} \subseteq Keys(Tail(s))
    <2> SUFFICES ASSUME NEW k \in DOMAIN s, s[k] # Head(s)
                 PROVE  s[k] \in Keys(Tail(s))
      BY DEF Keys
    <2>1. k # 1 /\ k \in 1..Len(s)
      BY <1>1
    <2>2. k - 1 \in 1..(Len(s) - 1) /\ (k - 1) + 1 = k
      BY <1>1, <2>1
    <2>3. k - 1 \in DOMAIN Tail(s) /\ Tail(s)[k - 1] = s[k]
      BY <1>2, <2>2
    <2> QED
      BY <2>3 DEF Keys
  <1>7. Distinct(Tail(s))
    <2> SUFFICES ASSUME NEW k \in 1..(Len(s) - 1), NEW l \in 1..(Len(s) - 1), s[k + 1] = s[l + 1]
                 PROVE  k = l
      BY <1>2 DEF Distinct
    <2>1. k + 1 \in DOMAIN s /\ l + 1 \in DOMAIN s
      BY <1>1
    <2>2. k + 1 = l + 1
      BY <2>1 DEF Distinct
    <2> QED
      BY <1>1, <2>2
  <1> QED
    BY <1>3, <1>4, <1>5, <1>6, <1>7

\* All the tags of r lead to it in the index ix, or none does.
Full(ix, r)  == \A x \in Keys(r.tags) : <<x, r.id>> \in ix
Blank(ix, r) == \A x \in Keys(r.tags) : <<x, r.id>> \notin ix

\* Two loops over the keys of one id leave it torn.
Alone == \A c, d \in Client, i \in Id : c # d /\ Indexing(c, i) /\ Indexing(d, i) => i \in torn

\* A record that no loop is at work on is indexed completely or not at all,
\* unless its id is torn, and completely if it is live.
Whole ==
    \A r \in Rec : \/ r.id \in torn \/ \E c \in Client : Indexing(c, r.id)
                   \/ Full(inverted, r) \/ Blank(inverted, r)

LiveFull ==
    \A i \in Id : records[i] # NoRec =>
        i \in torn \/ (\E c \in Client : Indexing(c, i)) \/ Full(inverted, records[i])

\* An indexing loop has written the keys it is done with and finds the others
\* absent, or it has written nothing and finds them all present; a deindexing
\* loop works on a record that is gone.  Both only while the id is not torn.
LoopInv(c) ==
    pc[c] \in {"index", "deindex"} =>
        /\ rec[c] \in Rec /\ Distinct(todo[c]) /\ Keys(todo[c]) \subseteq Keys(rec[c].tags)
        /\ \/ rec[c].id \in torn
           \/ /\ pc[c] = "index"
              /\ \A x \in Keys(rec[c].tags) \ Keys(todo[c]) : <<x, rec[c].id>> \in inverted
              /\ \A x \in Keys(todo[c]) : <<x, rec[c].id>> \notin inverted
           \/ pc[c] = "index" /\ Full(inverted, rec[c])
           \/ /\ pc[c] = "deindex"
              /\ records[rec[c].id] = NoRec
              /\ \A x \in Keys(rec[c].tags) \ Keys(todo[c]) : <<x, rec[c].id>> \notin inverted

\* What a delete holds is the record of the id it deletes.
HeldInv(c) ==
    /\ pc[c] \in {"deleteRead", "deleteTx"} => rec[c] = NoRec \/ rec[c].id = target[c]
    /\ pc[c] = "deleteTx" => \E v \in victims[c] : v.id = target[c]

IndexInv == Alone /\ Whole /\ LiveFull /\ \A c \in Client : LoopInv(c) /\ HeldInv(c)

\* The step leaves the task d where it is.
Rests(d) == /\ pc'[d] = pc[d] /\ rec'[d] = rec[d] /\ todo'[d] = todo[d]
            /\ target'[d] = target[d] /\ victims'[d] = victims[d]

\* A step of one task leaves the others where they are.
LEMMA OthersRest ==
  ASSUME TypeInv, NEW p \in Proc, NEW d \in Proc, d # p,
         \/ p \in Client /\ ClientStep(p)
         \/ SweepStep(p)
  PROVE  Rests(d)
  <1> USE DEF TypeInv, TypeOK
  <1>1. ASSUME NEW o, Finish(p, o) PROVE Rests(d)
    BY <1>1 DEF Finish, Rests
  <1>2. ASSUME NEW l, Goto(p, l), UNCHANGED <<rec, target, victims, todo>> PROVE Rests(d)
    BY <1>2 DEF Goto, Rests
  <1>3. ASSUME NextTag(p) PROVE Rests(d)
    BY <1>1, <1>3 DEF NextTag, Rests
  <1>4. CASE SweepStep(p)
    BY <1>1, <1>2, <1>4 DEF SweepStep, SweepStart, SweepCollect, SweepTx, Goto, Rests
  <1>5. ASSUME NEW r \in Rec, ApiInsert(p, r) \/ DirectInsert(p, r) PROVE Rests(d)
    BY <1>5 DEF ApiInsert, DirectInsert, Goto, Rests
  <1>6. CASE CheckQuota(p) \/ EvictCollect(p)
    BY <1>1, <1>6 DEF CheckQuota, EvictCollect, Goto, Rests
  <1>7. CASE EvictTx(p)
    BY <1>1, <1>7 DEF EvictTx, Goto, Rests
  <1>8. CASE InsertRefuse(p) \/ InsertSkip(p) \/ PinTx(p) \/ TxFails(p) \/ Respond(p)
    BY <1>1, <1>8 DEF InsertRefuse, InsertSkip, PinTx, TxFails, Respond
  <1>9. CASE InsertCommit(p) \/ DeleteTx(p)
    BY <1>1, <1>9 DEF InsertCommit, DeleteTx, Goto, Rests
  <1>10. CASE IndexTx(p) \/ DeindexTx(p)
    BY <1>1, <1>3, <1>10 DEF IndexTx, DeindexTx
  <1>11. ASSUME NEW i \in Id, DeleteBegin(p, i) \/ Pin(p, i) \/ Unpin(p, i) PROVE Rests(d)
    BY <1>11 DEF DeleteBegin, Pin, Unpin, Goto, Rests, locals
  <1>12. CASE DeleteRead(p)
    BY <1>1, <1>12 DEF DeleteRead, Goto, Rests
  <1> QED
    BY <1>4, <1>5, <1>6, <1>7, <1>8, <1>9, <1>10, <1>11, <1>12 DEF ClientStep

\* A step that leaves the index alone and adds no record keeps IndexInv when
\* every client stays where it is or ends up outside the loops, its id being
\* torn if it leaves one.
LEMMA IndexQuiet ==
  ASSUME TypeInv, IndexInv, inverted' = inverted, torn \subseteq torn',
         \A i \in Id : records'[i] = records[i] \/ records'[i] = NoRec,
         \A d \in Client : \/ Rests(d)
                           \/ /\ pc'[d] \notin {"index", "deindex"} /\ HeldInv(d)'
                              /\ \A i \in Id : Indexing(d, i) => i \in torn'
  PROVE  IndexInv'
  <1>0. \A r \in Rec : r.id \in Id
    BY RecAssumption DEF ContentRecord
  <1>1. \A d \in Client, i \in Id : Indexing(d, i)' => Indexing(d, i)
    BY DEF Indexing, Rests
  <1>2. \A d \in Client, i \in Id : Indexing(d, i) => Indexing(d, i)' \/ i \in torn'
    BY DEF Indexing, Rests
  <1>3. Alone'
    BY <1>1 DEF IndexInv, Alone
  <1>4. Whole'
    BY <1>0, <1>2 DEF IndexInv, Whole
  <1>5. LiveFull'
    BY <1>2 DEF IndexInv, LiveFull
  <1>6. ASSUME NEW d \in Client
        PROVE  LoopInv(d)'
    <2> SUFFICES ASSUME pc'[d] \in {"index", "deindex"}
                 PROVE  LoopInv(d)'
      BY DEF LoopInv
    <2>1. Rests(d)
      OBVIOUS
    <2>2. LoopInv(d) /\ (rec[d] \in Rec => rec[d].id \in Id)
      BY <1>0 DEF IndexInv
    <2> QED
      BY <2>1, <2>2 DEF Rests, LoopInv
  <1>7. ASSUME NEW d \in Client
        PROVE  HeldInv(d)'
    BY DEF IndexInv, HeldInv, Rests
  <1> QED
    BY <1>3, <1>4, <1>5, <1>6, <1>7 DEF IndexInv

\* Such a step of the task p.
LEMMA TaskQuiet ==
  ASSUME TypeInv, IndexInv, inverted' = inverted, torn \subseteq torn',
         \A i \in Id : records'[i] = records[i] \/ records'[i] = NoRec,
         NEW p \in Proc, \/ p \in Client /\ ClientStep(p)
                         \/ SweepStep(p),
         pc'[p] \notin {"index", "deindex"}, HeldInv(p)',
         \A i \in Id : Indexing(p, i) => i \in torn'
  PROVE  IndexInv'
  <1>1. \A d \in Client : d \in Proc
    BY DEF Proc
  <1>2. \A d \in Client : d # p => Rests(d)
    BY <1>1, OthersRest
  <1> QED
    BY <1>2, IndexQuiet

\* Two indexes that differ in the entries of the id n only.
Differ(ix, jx, n) == \A x, i : i # n => (<<x, i>> \in jx <=> <<x, i>> \in ix)

\* The entries of another id do not matter to a record.
LEMMA OtherEntries ==
  ASSUME NEW ix, NEW jx, NEW r, NEW n, r.id # n, Differ(ix, jx, n)
  PROVE  (Full(jx, r) <=> Full(ix, r)) /\ (Blank(jx, r) <=> Blank(ix, r))
  BY DEF Full, Blank, Differ

\* A step of a loop that goes on, or ends and leaves the record it worked on
\* indexed or not, keeps IndexInv: other loops work on other ids, or the id is
\* torn.
LEMMA LoopStep ==
  ASSUME TypeInv, BytesInv, TagsPerId, IndexInv, NEW c \in Client, ClientStep(c),
         pc[c] \in {"index", "deindex"}, records' = records, torn' = torn,
         Differ(inverted, inverted', rec[c].id),
         \/ pc'[c] = pc[c] /\ rec'[c] = rec[c] /\ LoopInv(c)'
         \/ /\ pc'[c] \in {"idle", "panicked"}
            /\ \/ rec[c].id \in torn
               \/ Full(inverted', rec[c])
               \/ pc[c] = "deindex" /\ Blank(inverted', rec[c])
  PROVE  IndexInv'
  <1>1. rec[c] \in Rec
    BY DEF IndexInv, LoopInv
  <1>2. rec[c].id \in Id /\ \A r \in Rec : r.id \in Id
    BY <1>1, RecAssumption DEF ContentRecord
  <1>0. PICK n \in Id : n = rec[c].id
    BY <1>2
  <1>3. \A d \in Client : d # c => Rests(d)
    BY OthersRest DEF Proc
  <1>4. \A i \in Id : records[i] # NoRec => records[i] \in Rec /\ records[i].id = i
    BY LiveType DEF BytesInv, Live
  <1>5. \A d \in Client, i \in Id : d # c \/ i # n => (Indexing(d, i)' <=> Indexing(d, i))
    BY <1>0, <1>3 DEF Indexing, Rests
  <1>6. Indexing(c, n) /\ (Indexing(c, n)' \/ pc'[c] \in {"idle", "panicked"})
    BY <1>0 DEF Indexing
  <1>12. Differ(inverted, inverted', n)
    BY <1>0
  <1>7. Alone'
    BY <1>0, <1>5, <1>6 DEF IndexInv, Alone
  <1>8. ASSUME NEW r \in Rec
        PROVE  \/ r.id \in torn' \/ \E d \in Client : Indexing(d, r.id)'
               \/ Full(inverted', r) \/ Blank(inverted', r)
    <2>1. CASE r.id = n
      BY <1>0, <1>1, <1>6, <2>1 DEF TagsPerId, Full, Blank, Indexing
    <2>2. CASE r.id # n
      <3>1. \/ r.id \in torn \/ \E d \in Client : Indexing(d, r.id)
            \/ Full(inverted, r) \/ Blank(inverted, r)
        BY DEF IndexInv, Whole
      <3> QED
        BY <1>2, <1>5, <1>12, <2>2, <3>1, OtherEntries
    <2> QED
      BY <2>1, <2>2
  <1>9. ASSUME NEW i \in Id, records[i] # NoRec
        PROVE  i \in torn' \/ (\E d \in Client : Indexing(d, i)') \/ Full(inverted', records[i])
    <2>0. records[i] \in Rec /\ records[i].id = i
      BY <1>4, <1>9
    <2>1. CASE i # n
      <3>1. i \in torn \/ (\E d \in Client : Indexing(d, i)) \/ Full(inverted, records[i])
        BY <1>9 DEF IndexInv, LiveFull
      <3>2. Full(inverted', records[i]) <=> Full(inverted, records[i])
        BY <1>12, <2>0, <2>1, OtherEntries
      <3>3. (\E d \in Client : Indexing(d, i)) => \E d \in Client : Indexing(d, i)'
        BY <1>5, <2>1
      <3>4. i \in torn => i \in torn'
        OBVIOUS
      <3> QED
        BY <3>1, <3>2, <3>3, <3>4
    <2>2. CASE i = n
      <3>1. CASE Indexing(c, n)' \/ n \in torn
        BY <2>2, <3>1
      <3>2. CASE ~Indexing(c, n)' /\ n \notin torn
        <4>1. pc[c] # "deindex"
          BY <1>0, <1>9, <2>2, <3>2 DEF IndexInv, LoopInv
        <4>2. Full(inverted', rec[c])
          BY <1>0, <1>6, <3>2, <4>1 DEF Indexing
        <4> QED
          BY <1>0, <1>1, <2>0, <2>2, <4>2 DEF TagsPerId, Full
      <3> QED
        BY <3>1, <3>2
    <2> QED
      BY <2>1, <2>2
  <1>10. ASSUME NEW d \in Client
         PROVE  LoopInv(d)'
    <2>1. CASE d = c
      BY <2>1 DEF LoopInv
    <2>2. CASE d # c
      <3>1. Rests(d) /\ LoopInv(d)
        BY <1>3, <2>2 DEF IndexInv
      <3> SUFFICES ASSUME pc[d] \in {"index", "deindex"}
                   PROVE  LoopInv(d)'
        BY <3>1 DEF LoopInv, Rests
      <3>2. rec[d].id = n => rec[d].id \in torn
        BY <1>0, <1>2, <1>6, <2>2 DEF IndexInv, Alone, Indexing
      <3>4. CASE rec[d].id = n
        BY <3>1, <3>2, <3>4 DEF Rests, LoopInv
      <3>5. CASE rec[d].id # n
        <4>1. Full(inverted', rec[d]) <=> Full(inverted, rec[d])
          BY <1>12, <3>5, OtherEntries
        <4>2. \A x : <<x, rec[d].id>> \in inverted' <=> <<x, rec[d].id>> \in inverted
          BY <1>12, <3>5 DEF Differ
        <4> QED
          BY <3>1, <4>1, <4>2 DEF Rests, LoopInv
      <3> QED
        BY <3>4, <3>5
    <2> QED
      BY <2>1, <2>2
  <1>11. \A d \in Client : HeldInv(d)'
    BY <1>3 DEF IndexInv, HeldInv, Rests
  <1> QED
    BY <1>7, <1>8, <1>9, <1>10, <1>11 DEF IndexInv, Whole, LiveFull

\* Indexing a record: one key is written, or the first one is there already.
LEMMA IndexTxInv ==
  ASSUME TypeInv, BytesInv, TagsPerId, NEW c \in Client, IndexInv, IndexTx(c)
  PROVE  IndexInv'
  <1> DEFINE r == rec[c]
             s == todo[c]
             h == Head(s)
  <1>0. c \in Proc /\ DOMAIN pc = Proc /\ DOMAIN todo = Proc /\ pc[c] = "index" /\ LoopInv(c)
    BY DEF Proc, TypeInv, TypeOK, IndexTx, IndexInv
  <1>1. s \in Seq(Tag) /\ s # <<>> /\ Distinct(s) /\ r \in Rec /\ Keys(s) \subseteq Keys(r.tags)
    BY <1>0 DEF TypeInv, TypeOK, LocalsOK, LoopInv
  <1>2. /\ h \in Keys(s)
        /\ Len(s) = 1 => Keys(s) = {h}
        /\ Keys(Tail(s)) = Keys(s) \ {h} /\ Distinct(Tail(s))
    BY <1>1, KeysHeadTail
  <1>3. records' = records /\ torn' = torn /\ ClientStep(c)
    BY DEF IndexTx, ClientStep
  <1>4. CASE <<h, r.id>> \in inverted
    <2>1. Finish(c, "panicked") /\ inverted' = inverted /\ Differ(inverted, inverted', r.id)
      BY <1>4 DEF IndexTx, Differ
    <2>2. r.id \in torn \/ Full(inverted', r)
      BY <1>0, <1>2, <1>4, <2>1 DEF LoopInv
    <2>3. pc'[c] = "panicked"
      BY <1>0, <2>1 DEF Finish
    <2> QED
      BY <1>0, <1>3, <2>1, <2>2, <2>3, LoopStep
  <1>5. CASE <<h, r.id>> \notin inverted
    <2>1. inverted' = inverted \cup {<<h, r.id>>} /\ NextTag(c)
      BY <1>5 DEF IndexTx
    <2>2. Differ(inverted, inverted', r.id)
      BY <2>1 DEF Differ
    <2>3. \/ r.id \in torn
          \/ /\ \A x \in Keys(r.tags) \ Keys(s) : <<x, r.id>> \in inverted
             /\ \A x \in Keys(s) : <<x, r.id>> \notin inverted
      <3>1. ~Full(inverted, r)
        BY <1>1, <1>2, <1>5 DEF Full
      <3> QED
        BY <1>0, <3>1 DEF LoopInv
    <2>4. CASE Len(s) = 1
      <3>1. Finish(c, "idle")
        BY <2>1, <2>4 DEF NextTag
      <3>2. r.id \in torn \/ Full(inverted', r)
        BY <1>2, <2>1, <2>3, <2>4 DEF Full
      <3>3. pc'[c] = "idle"
        BY <1>0, <3>1 DEF Finish
      <3> QED
        BY <1>0, <1>3, <2>2, <3>2, <3>3, LoopStep
    <2>5. CASE Len(s) # 1
      <3>1. pc' = pc /\ rec' = rec /\ todo'[c] = Tail(s)
        BY <1>0, <2>1, <2>5 DEF NextTag
      <3>2. \/ r.id \in torn
            \/ /\ \A x \in Keys(r.tags) \ Keys(Tail(s)) : <<x, r.id>> \in inverted'
               /\ \A x \in Keys(Tail(s)) : <<x, r.id>> \notin inverted'
        BY <1>2, <2>1, <2>3
      <3>3. Distinct(todo'[c]) /\ Keys(todo'[c]) \subseteq Keys(r.tags)
        BY <1>1, <1>2, <3>1
      <3>4. LoopInv(c)'
        BY <1>0, <1>1, <1>3, <3>1, <3>2, <3>3 DEF LoopInv
      <3> QED
        BY <1>0, <1>3, <2>2, <3>1, <3>4, LoopStep
    <2> QED
      BY <2>4, <2>5
  <1> QED
    BY <1>4, <1>5

\* Deindexing a record that is gone: one key is removed.
LEMMA DeindexTxInv ==
  ASSUME TypeInv, BytesInv, TagsPerId, NEW c \in Client, IndexInv, DeindexTx(c)
  PROVE  IndexInv'
  <1> DEFINE r == rec[c]
             s == todo[c]
             h == Head(s)
  <1>0. c \in Proc /\ DOMAIN pc = Proc /\ DOMAIN todo = Proc /\ pc[c] = "deindex" /\ LoopInv(c)
    BY DEF Proc, TypeInv, TypeOK, DeindexTx, IndexInv
  <1>1. s \in Seq(Tag) /\ s # <<>> /\ Distinct(s) /\ r \in Rec /\ Keys(s) \subseteq Keys(r.tags)
    BY <1>0 DEF TypeInv, TypeOK, LocalsOK, LoopInv
  <1>2. /\ h \in Keys(s)
        /\ Len(s) = 1 => Keys(s) = {h}
        /\ Keys(Tail(s)) = Keys(s) \ {h} /\ Distinct(Tail(s))
    BY <1>1, KeysHeadTail
  <1>3. /\ records' = records /\ torn' = torn /\ ClientStep(c)
        /\ inverted' = inverted \ {<<h, r.id>>} /\ NextTag(c)
    BY DEF DeindexTx, ClientStep
  <1>4. Differ(inverted, inverted', r.id)
    BY <1>3 DEF Differ
  <1>5. \/ r.id \in torn
        \/ /\ records[r.id] = NoRec
           /\ \A x \in Keys(r.tags) \ Keys(s) : <<x, r.id>> \notin inverted
    BY <1>0 DEF LoopInv
  <1>6. CASE Len(s) = 1
    <2>1. Finish(c, "idle")
      BY <1>3, <1>6 DEF NextTag
    <2>2. r.id \in torn \/ Blank(inverted', r)
      BY <1>2, <1>3, <1>5, <1>6 DEF Blank
    <2>3. pc'[c] = "idle"
      BY <1>0, <2>1 DEF Finish
    <2> QED
      BY <1>0, <1>3, <1>4, <2>2, <2>3, LoopStep
  <1>7. CASE Len(s) # 1
    <2>1. pc' = pc /\ rec' = rec /\ todo'[c] = Tail(s)
      BY <1>0, <1>3, <1>7 DEF NextTag
    <2>2. \/ r.id \in torn
          \/ /\ records[r.id] = NoRec
             /\ \A x \in Keys(r.tags) \ Keys(Tail(s)) : <<x, r.id>> \notin inverted'
      BY <1>2, <1>3, <1>5
    <2>3. Distinct(todo'[c]) /\ Keys(todo'[c]) \subseteq Keys(r.tags)
      BY <1>1, <1>2, <2>1
    <2>4. LoopInv(c)'
      BY <1>0, <1>1, <1>3, <2>1, <2>2, <2>3 DEF LoopInv
    <2> QED
      BY <1>0, <1>3, <1>4, <2>1, <2>4, LoopStep
  <1> QED
    BY <1>6, <1>7

\* A client that enters a loop on the id n, where torn is kept for the other ids
\* and holds for n if another loop is at it, keeps IndexInv, provided that its
\* own loop starts well, and that no other record appears.
LEMMA LoopStarts ==
  ASSUME TypeInv, BytesInv, TagsPerId, IndexInv, NEW c \in Client, NEW n \in Id, ClientStep(c),
         pc[c] \notin {"index", "deindex"}, Indexing(c, n)', LoopInv(c)', HeldInv(c)',
         inverted' = inverted,
         \A i \in Id : i # n => /\ records'[i] = records[i] \/ records'[i] = NoRec
                                /\ i \in torn' <=> i \in torn,
         Overlaps(c, n) => n \in torn'
  PROVE  IndexInv'
  <1>1. \A d \in Client : d # c => Rests(d)
    BY OthersRest DEF Proc
  <1>2. \A r \in Rec : r.id \in Id
    BY RecAssumption DEF ContentRecord
  <1>3. \A d \in Client, i \in Id : d # c => (Indexing(d, i)' <=> Indexing(d, i))
    BY <1>1 DEF Indexing, Rests
  <1>4. \A i \in Id : ~Indexing(c, i) /\ (Indexing(c, i)' => i = n)
    BY DEF Indexing
  <1>5. Alone'
    <2> SUFFICES ASSUME NEW d \in Client, NEW e \in Client, NEW i \in Id, d # e,
                        Indexing(d, i)', Indexing(e, i)'
                 PROVE  i \in torn'
      BY DEF Alone
    <2>1. CASE i = n
      <3>1. \E f \in Client \ {c} : Indexing(f, n)
        BY <1>3, <2>1
      <3> QED
        BY <2>1, <3>1 DEF Overlaps
    <2>2. CASE i # n
      BY <1>3, <1>4, <2>2 DEF IndexInv, Alone
    <2> QED
      BY <2>1, <2>2
  <1>6. Whole'
    <2> SUFFICES ASSUME NEW r \in Rec, r.id # n
                 PROVE  \/ r.id \in torn' \/ \E d \in Client : Indexing(d, r.id)'
                        \/ Full(inverted', r) \/ Blank(inverted', r)
      BY DEF Whole
    <2>1. \/ r.id \in torn \/ \E d \in Client : Indexing(d, r.id)
          \/ Full(inverted, r) \/ Blank(inverted, r)
      BY DEF IndexInv, Whole
    <2> QED
      BY <1>2, <1>3, <1>4, <2>1
  <1>7. LiveFull'
    <2> SUFFICES ASSUME NEW i \in Id, i # n, records'[i] # NoRec
                 PROVE  \/ i \in torn' \/ \E d \in Client : Indexing(d, i)'
                        \/ Full(inverted', records'[i])
      BY DEF LiveFull
    <2>0. records'[i] = records[i]
      OBVIOUS
    <2>1. \/ i \in torn \/ \E d \in Client : Indexing(d, i)
          \/ Full(inverted, records[i])
      BY <2>0 DEF IndexInv, LiveFull
    <2> QED
      BY <1>3, <1>4, <2>0, <2>1
  <1>8. ASSUME NEW d \in Client, d # c
        PROVE  LoopInv(d)'
    <2>1. Rests(d) /\ LoopInv(d)
      BY <1>1, <1>8 DEF IndexInv
    <2> SUFFICES ASSUME pc[d] \in {"index", "deindex"}
                 PROVE  LoopInv(d)'
      BY <2>1 DEF LoopInv, Rests
    <2>2. rec[d] \in Rec /\ rec[d].id \in Id
      BY <1>2, <2>1 DEF LoopInv
    <2>3. rec[d].id = n => rec[d].id \in torn'
      BY <1>8 DEF Overlaps, Indexing
    <2>4. CASE rec[d].id = n
      BY <2>1, <2>3, <2>4 DEF Rests, LoopInv
    <2>5. CASE rec[d].id # n
      BY <2>1, <2>2, <2>5 DEF Rests, LoopInv
    <2> QED
      BY <2>4, <2>5
  <1>9. \A d \in Client : HeldInv(d)'
    BY <1>1 DEF IndexInv, HeldInv, Rests
  <1> QED
    BY <1>5, <1>6, <1>7, <1>8, <1>9 DEF IndexInv

\* The insert of a record starts its indexing loop.
LEMMA InsertCommitInv ==
  ASSUME TypeInv, BytesInv, TagsPerId, NEW c \in Client, IndexInv, InsertCommit(c)
  PROVE  IndexInv'
  <1> DEFINE r == rec[c]
             n == rec[c].id
  <1>0. /\ c \in Proc /\ DOMAIN pc = Proc /\ DOMAIN todo = Proc /\ pc[c] = "insert"
        /\ r \in Rec /\ inverted' = inverted /\ PutRecord(r) /\ ClientStep(c)
        /\ torn' = torn \cup {i \in {n} : r.tags # <<>> /\ Overlaps(c, i)}
    BY DEF Proc, TypeInv, TypeOK, LocalsOK, InsertCommit, ClientStep
  <1>1. n \in Id /\ r.tags \in Seq(Tag) /\ \A q \in Rec : q.id \in Id
    BY <1>0, RecAssumption DEF ContentRecord
  <1>2. /\ records'[n] = r
        /\ \A i \in Id : i # n => records'[i] = records[i] \/ records'[i] = NoRec
    BY <1>0, <1>1 DEF PutRecord
  <1>5. CASE r.tags = <<>>
    <2>1. Finish(c, "idle") /\ torn' = torn
      BY <1>0, <1>5 DEF InsertCommit
    <2>2. pc'[c] = "idle"
      BY <1>0, <2>1 DEF Finish
    <2>3. Full(inverted, r)
      BY <1>5 DEF Full, Keys
    <2>4. \A d \in Client : d # c => Rests(d)
      BY <1>0, OthersRest DEF Proc
    <2>5. \A d \in Client, i \in Id : Indexing(d, i)' <=> Indexing(d, i)
      BY <1>0, <2>2, <2>4 DEF Indexing, Rests
    <2>6. Alone' /\ Whole'
      BY <1>0, <1>1, <2>1, <2>5 DEF IndexInv, Alone, Whole
    <2>7. LiveFull'
      <3> SUFFICES ASSUME NEW i \in Id, i # n, records'[i] # NoRec
                   PROVE  \/ i \in torn' \/ \E d \in Client : Indexing(d, i)'
                          \/ Full(inverted', records'[i])
        BY <1>0, <1>2, <2>3 DEF LiveFull
      <3>1. records'[i] = records[i]
        BY <1>2
      <3> QED
        BY <1>0, <2>1, <2>5, <3>1 DEF IndexInv, LiveFull
    <2>8. ASSUME NEW d \in Client
          PROVE  LoopInv(d)'
      <3> SUFFICES ASSUME pc'[d] \in {"index", "deindex"}
                   PROVE  LoopInv(d)'
        BY DEF LoopInv
      <3>1. d # c /\ Rests(d) /\ LoopInv(d) /\ d \in Proc
        BY <2>2, <2>4 DEF IndexInv, Proc
      <3>2. rec[d] \in Rec /\ Keys(todo[d]) \subseteq Keys(rec[d].tags) /\ todo[d] # <<>>
        BY <3>1 DEF LoopInv, Rests, TypeInv, LocalsOK
      <3>3. todo[d] \in Seq(Tag) /\ Distinct(todo[d])
        BY <3>1 DEF LoopInv, Rests, TypeInv, TypeOK
      <3>4. Head(todo[d]) \in Keys(rec[d].tags)
        BY <3>2, <3>3, KeysHeadTail
      <3>5. Keys(r.tags) = {}
        BY <1>5 DEF Keys
      <3>6. rec[d].id # n /\ rec[d].id \in Id
        BY <1>0, <1>1, <3>2, <3>4, <3>5 DEF TagsPerId
      <3> QED
        BY <1>0, <1>2, <2>1, <3>1, <3>6 DEF LoopInv, Rests
    <2>9. \A d \in Client : HeldInv(d)'
      BY <2>2, <2>4 DEF IndexInv, HeldInv, Rests
    <2> QED
      BY <2>6, <2>7, <2>8, <2>9 DEF IndexInv
  <1>6. CASE r.tags # <<>>
    <2>1. Goto(c, "index") /\ todo' = [todo EXCEPT ![c] = r.tags] /\ rec' = rec
      BY <1>6 DEF InsertCommit
    <2>2. pc'[c] = "index" /\ todo'[c] = r.tags
      BY <1>0, <2>1 DEF Goto
    <2>3. Distinct(r.tags)
      BY <1>0 DEF TagsPerId
    <2>4. n \in torn' \/ Full(inverted, r) \/ Blank(inverted, r)
      <3> SUFFICES ASSUME n \notin torn'
                   PROVE  Full(inverted, r) \/ Blank(inverted, r)
        OBVIOUS
      <3>1. n \notin torn /\ ~Overlaps(c, n)
        BY <1>0, <1>6
      <3>2. ~\E d \in Client : Indexing(d, n)
        BY <1>0, <3>1 DEF Overlaps, Indexing
      <3> QED
        BY <1>0, <3>1, <3>2 DEF IndexInv, Whole
    <2>5. LoopInv(c)'
      BY <1>0, <2>1, <2>2, <2>3, <2>4 DEF LoopInv, Blank
    <2>6. PICK m \in Id : m = n
      BY <1>1
    <2>7. HeldInv(c)' /\ Indexing(c, m)'
      BY <2>1, <2>2, <2>6 DEF HeldInv, Indexing
    <2>8. /\ Overlaps(c, m) => m \in torn'
          /\ \A i \in Id : i # m => (records'[i] = records[i] \/ records'[i] = NoRec)
                                   /\ (i \in torn' <=> i \in torn)
      BY <1>0, <1>2, <1>6, <2>6
    <2>9. pc[c] \notin {"index", "deindex"} /\ inverted' = inverted /\ ClientStep(c)
      BY <1>0
    <2> QED
      BY <2>5, <2>7, <2>8, <2>9, LoopStarts
  <1> QED
    BY <1>5, <1>6

\* Deleting a record: what is deindexed is the record that was deleted.
LEMMA DeleteInv ==
  ASSUME TypeInv, BytesInv, TagsPerId, NEW c \in Client, IndexInv,
         (\E i \in Id : DeleteBegin(c, i)) \/ DeleteRead(c) \/ DeleteTx(c)
  PROVE  IndexInv'
  <1>0. /\ c \in Proc /\ DOMAIN pc = Proc /\ DOMAIN todo = Proc /\ DOMAIN victims = Proc
        /\ DOMAIN rec = Proc /\ DOMAIN target = Proc /\ ClientStep(c) /\ HeldInv(c)
        /\ \A r \in Rec : r.id \in Id
        /\ \A i \in Id : records[i] # NoRec => records[i].id = i /\ records[i] \in Rec
    BY RecAssumption, LiveType
    DEF Proc, TypeInv, TypeOK, BytesInv, Live, ContentRecord, ClientStep, IndexInv
  <1>1. ASSUME NEW i \in Id, DeleteBegin(c, i)
        PROVE  IndexInv'
    <2>1. /\ pc[c] = "idle" /\ pc'[c] = "deleteRead" /\ target'[c] = i /\ rec'[c] = records[i]
          /\ inverted' = inverted /\ records' = records /\ torn' = torn
      BY <1>0, <1>1 DEF DeleteBegin, Goto, tables, index
    <2>2. rec'[c] = NoRec \/ rec'[c].id = target'[c]
      BY <1>0, <2>1
    <2>3. HeldInv(c)'
      BY <2>1, <2>2 DEF HeldInv
    <2>4. \A j \in Id : ~Indexing(c, j)
      BY <2>1 DEF Indexing
    <2> QED
      BY <1>0, <2>1, <2>3, <2>4, TaskQuiet
  <1>2. CASE DeleteRead(c)
    <2>0. /\ pc[c] = "deleteRead" /\ inverted' = inverted /\ records' = records /\ torn' = torn
          /\ \A j \in Id : ~Indexing(c, j)
      BY <1>2 DEF DeleteRead, tables, index, Indexing
    <2>1. CASE Finish(c, "idle")
      <3>1. pc'[c] = "idle"
        BY <1>0, <2>1 DEF Finish
      <3>2. HeldInv(c)'
        BY <3>1 DEF HeldInv
      <3> QED
        BY <1>0, <2>0, <3>1, <3>2, TaskQuiet
    <2>2. CASE ~Finish(c, "idle")
      <3>1. /\ Live(target[c]) /\ Goto(c, "deleteTx") /\ rec' = rec /\ target' = target
            /\ victims' = [victims EXCEPT ![c] = {records[target[c]]}]
        BY <1>2, <2>2 DEF DeleteRead
      <3>2. pc'[c] = "deleteTx" /\ victims'[c] = {records[target[c]]}
        BY <1>0, <3>1 DEF Goto
      <3>3. records[target[c]].id = target[c]
        BY <1>0, <2>0, <3>1 DEF Live, TypeInv, LocalsOK
      <3>4. HeldInv(c)'
        BY <1>0, <2>0, <3>1, <3>2, <3>3 DEF HeldInv
      <3> QED
        BY <1>0, <2>0, <3>2, <3>4, TaskQuiet
    <2> QED
      BY <2>1, <2>2
  <1>3. CASE DeleteTx(c)
    <2>0. /\ pc[c] = "deleteTx" /\ inverted' = inverted
          /\ \A i \in Id : records'[i] = records[i] \/ records'[i] = NoRec
          /\ DropRecords(victims[c])
          /\ \A j \in Id : ~Indexing(c, j)
      BY <1>3 DEF DeleteTx, DropRecords, Indexing
    <2>1. CASE TagsHeld(c) = <<>>
      <3>0. Finish(c, "idle") /\ torn' = torn
        BY <1>3, <2>1 DEF DeleteTx
      <3>1. pc'[c] = "idle"
        BY <1>0, <3>0 DEF Finish
      <3>2. HeldInv(c)'
        BY <3>1 DEF HeldInv
      <3> QED
        BY <1>0, <2>0, <3>0, <3>1, <3>2, TaskQuiet
    <2>2. CASE TagsHeld(c) # <<>>
      <3> DEFINE n == target[c]
      <3>1. /\ Goto(c, "deindex") /\ rec' = rec
            /\ todo' = [todo EXCEPT ![c] = TagsHeld(c)]
            /\ torn' = IF Overlaps(c, n) THEN torn \cup {n} ELSE torn \ {n}
        BY <1>3, <2>2 DEF DeleteTx
      <3>2. rec[c] # NoRec /\ TagsHeld(c) = rec[c].tags
        BY <2>2 DEF TagsHeld
      <3>3. rec[c] \in Rec
        BY <1>0, <3>2 DEF TypeInv, TypeOK
      <3>4. pc'[c] = "deindex" /\ todo'[c] = rec[c].tags
        BY <1>0, <3>1, <3>2 DEF Goto
      <3>5. Distinct(rec[c].tags)
        BY <3>3 DEF TagsPerId
      <3>6. rec[c].id = n /\ n \in Id /\ \E v \in victims[c] : v.id = n
        BY <1>0, <2>0, <3>2, <3>3 DEF HeldInv
      <3>7. records'[n] = NoRec
        BY <2>0, <3>6 DEF DropRecords
      <3>8. LoopInv(c)'
        BY <3>1, <3>3, <3>4, <3>5, <3>6, <3>7 DEF LoopInv
      <3>9. PICK m \in Id : m = n
        BY <3>6
      <3>10. HeldInv(c)' /\ Indexing(c, m)'
        BY <3>1, <3>4, <3>6, <3>9 DEF HeldInv, Indexing
      <3>11. /\ Overlaps(c, m) => m \in torn'
             /\ \A i \in Id : i # m => (records'[i] = records[i] \/ records'[i] = NoRec)
                                     /\ (i \in torn' <=> i \in torn)
        BY <2>0, <3>1, <3>9
      <3> QED
        BY <1>0, <2>0, <3>8, <3>10, <3>11, LoopStarts
    <2> QED
      BY <2>1, <2>2
  <1> QED
    BY <1>1, <1>2, <1>3

\* A task that ends outside the loops, or fails in one, and leaves the index alone.
LEMMA FinishIndex ==
  ASSUME TypeInv, IndexInv, NEW p \in Proc, \/ p \in Client /\ ClientStep(p)
                                            \/ SweepStep(p),
         inverted' = inverted, torn \subseteq torn',
         \A i \in Id : records'[i] = records[i] \/ records'[i] = NoRec,
         \A i \in Id : Indexing(p, i) => i \in torn',
         NEW o \in {"idle", "refused", "panicked"}, Finish(p, o)
  PROVE  IndexInv'
  <1>1. pc'[p] = o
    BY DEF Finish, TypeInv, TypeOK
  <1>2. HeldInv(p)'
    BY <1>1 DEF HeldInv
  <1> QED
    BY <1>1, <1>2, TaskQuiet

\* Every step keeps IndexInv, whatever the number of clients, with failing
\* transactions and crashes.
LEMMA IndexStep ==
  ASSUME QuotaInv, TagsPerId, IndexInv, [Next]_vars
  PROVE  IndexInv'
  <1> USE DEF tables, index
  <1>0. /\ TypeInv /\ BytesInv /\ Client \subseteq Proc
        /\ DOMAIN pc = Proc /\ DOMAIN rec = Proc /\ DOMAIN victims = Proc /\ DOMAIN todo = Proc
        /\ DOMAIN target = Proc
    BY DEF QuotaInv, TypeInv, TypeOK, Proc
  <1>1. ASSUME NEW c \in Client, ClientStep(c)
        PROVE  IndexInv'
    <2>0. c \in Proc
      BY <1>0
    <2>1. CASE IndexTx(c)
      BY <1>0, <2>1, IndexTxInv
    <2>2. CASE DeindexTx(c)
      BY <1>0, <2>2, DeindexTxInv
    <2>3. CASE InsertCommit(c)
      BY <1>0, <2>3, InsertCommitInv
    <2>4. CASE (\E i \in Id : DeleteBegin(c, i)) \/ DeleteRead(c) \/ DeleteTx(c)
      BY <1>0, <2>4, DeleteInv
    <2>5. ASSUME NEW r \in Rec, ApiInsert(c, r) \/ DirectInsert(c, r)
          PROVE  IndexInv'
      <3>1. /\ pc[c] = "idle" /\ pc'[c] \in {"checkQuota", "insert"}
            /\ inverted' = inverted /\ records' = records /\ torn' = torn
        BY <1>0, <2>0, <2>5 DEF ApiInsert, DirectInsert, Goto
      <3>2. HeldInv(c)' /\ \A i \in Id : ~Indexing(c, i)
        BY <3>1 DEF HeldInv, Indexing
      <3> QED
        BY <1>0, <1>1, <2>0, <3>1, <3>2, TaskQuiet
    <2>6. CASE CheckQuota(c) \/ EvictCollect(c) \/ EvictTx(c)
      <3>1. /\ pc[c] \in {"checkQuota", "evictCollect", "evictTx"} /\ inverted' = inverted
            /\ torn' = torn
            /\ \A i \in Id : records'[i] = records[i] \/ records'[i] = NoRec
        BY <2>6 DEF CheckQuota, EvictCollect, EvictTx, DropRecords
      <3>2. \A i \in Id : ~Indexing(c, i)
        BY <3>1 DEF Indexing
      <3>3. CASE Finish(c, "refused")
        BY <1>0, <1>1, <2>0, <3>1, <3>2, <3>3, FinishIndex
      <3>4. CASE ~Finish(c, "refused")
        <4>1. \E l \in {"insert", "evictCollect", "evictTx"} : Goto(c, l)
          BY <2>6, <3>4 DEF CheckQuota, EvictCollect, EvictTx
        <4>2. pc'[c] \in {"insert", "evictCollect", "evictTx"}
          BY <1>0, <2>0, <4>1 DEF Goto
        <4>3. HeldInv(c)'
          BY <4>2 DEF HeldInv
        <4> QED
          BY <1>0, <1>1, <2>0, <3>1, <3>2, <4>2, <4>3, TaskQuiet
      <3> QED
        BY <3>3, <3>4
    <2>7. CASE InsertRefuse(c) \/ InsertSkip(c) \/ PinTx(c) \/ Respond(c)
      <3>1. /\ pc[c] \in {"insert", "pinTx", "refused", "panicked"}
            /\ inverted' = inverted /\ records' = records /\ torn' = torn
            /\ \E o \in {"idle", "refused"} : Finish(c, o)
        BY <2>7 DEF InsertRefuse, InsertSkip, PinTx, Respond
      <3>2. \A i \in Id : ~Indexing(c, i)
        BY <3>1 DEF Indexing
      <3> QED
        BY <1>0, <1>1, <2>0, <3>1, <3>2, FinishIndex
    <2>8. CASE TxFails(c)
      <3>1. /\ inverted' = inverted /\ records' = records /\ Finish(c, "refused")
            /\ torn' = torn \cup {i \in Id : Indexing(c, i)}
        BY <2>8 DEF TxFails
      <3> QED
        BY <1>0, <1>1, <2>0, <3>1, FinishIndex
    <2>9. ASSUME NEW i \in Id, Pin(c, i) \/ Unpin(c, i)
          PROVE  IndexInv'
      <3>1. /\ pc[c] = "idle" /\ pc'[c] \in {"idle", "pinTx"}
            /\ inverted' = inverted /\ records' = records /\ torn' = torn
        BY <1>0, <2>0, <2>9 DEF Pin, Unpin, Goto, locals
      <3>2. HeldInv(c)' /\ \A j \in Id : ~Indexing(c, j)
        BY <3>1 DEF HeldInv, Indexing
      <3> QED
        BY <1>0, <1>1, <2>0, <3>1, <3>2, TaskQuiet
    <2> QED
      BY <1>1, <2>1, <2>2, <2>3, <2>4, <2>5, <2>6, <2>7, <2>8, <2>9 DEF ClientStep
  <1>2. ASSUME NEW p \in Proc, SweepStep(p)
        PROVE  IndexInv'
    <2>1. /\ inverted' = inverted /\ torn' = torn
          /\ \A i \in Id : records'[i] = records[i] \/ records'[i] = NoRec
          /\ pc[p] \in {"idle", "sweepCollect", "sweepTx"}
      BY <1>2 DEF SweepStep, SweepStart, SweepCollect, SweepTx, DropRecords
    <2>2. pc'[p] \in {"idle", "sweepCollect", "sweepTx"}
      BY <1>0, <1>2 DEF SweepStep, SweepStart, SweepCollect, SweepTx, Goto, Finish
    <2>3. HeldInv(p)' /\ \A i \in Id : ~Indexing(p, i)
      BY <2>1, <2>2 DEF HeldInv, Indexing
    <2> QED
      BY <1>0, <1>2, <2>1, <2>2, <2>3, TaskQuiet
  <1>3. CASE Tick \/ UNCHANGED vars
    <2>1. /\ inverted' = inverted /\ records' = records /\ torn' = torn
          /\ \A d \in Client : Rests(d)
      BY <1>3 DEF Tick, vars, locals, Rests
    <2> QED
      BY <1>0, <2>1, IndexQuiet
  <1>4. CASE Crash
    <2>1. /\ inverted' = inverted /\ records' = records
          /\ torn' = torn \cup {i \in Id : \E c \in Client : Indexing(c, i)}
          /\ \A d \in Client : pc'[d] = "idle"
      BY <1>0, <1>4 DEF Crash
    <2>2. \A d \in Client : HeldInv(d)'
      BY <2>1 DEF HeldInv
    <2> QED
      BY <1>0, <2>1, <2>2, IndexQuiet
  <1> QED
    BY <1>1, <1>2, <1>3, <1>4 DEF Next

\* For any number of clients, with transactions that fail, crashes, panics and
\* whatever the sweeper removes: a stored record that no task is indexing lacks
\* an entry of the inverted index only if a loop over its keys was cut short or
\* overlapped another one since they were last cleared (Store::insert_record,
\* index_record, Store::delete_record, deindex_record), provided that the
\* records of an id have the same tags and no record lists a tag twice.
THEOREM IndexCorrect ==
  ASSUME TagsPerId
  PROVE  Spec => []IndexComplete
  <1> DEFINE Inv == QuotaInv /\ IndexInv
  <1>1. Init => Inv
    <2>1. Init => QuotaInv
      BY QuotaInit
    <2>2. Init => IndexInv
      BY DEF Init, IndexInv, Alone, Whole, LiveFull, LoopInv, HeldInv, Indexing, Proc, Full, Blank
    <2> QED
      BY <2>1, <2>2
  <1>2. Inv /\ [Next]_vars => Inv'
    BY QuotaStep, IndexStep
  <1>3. Inv => IndexComplete
    <2> SUFFICES ASSUME Inv, NEW i \in LiveIds \ torn, ~\E c \in Client : Indexing(c, i),
                        NEW k \in DOMAIN records[i].tags
                 PROVE  <<records[i].tags[k], i>> \in inverted
      BY DEF IndexComplete
    <2>1. i \in Id /\ records[i] # NoRec /\ records[i].id = i
      BY DEF LiveIds, Live, QuotaInv, BytesInv
    <2>2. Full(inverted, records[i])
      BY <2>1 DEF IndexInv, LiveFull
    <2> QED
      BY <2>1, <2>2 DEF Full, Keys
  <1> QED
    BY <1>1, <1>2, <1>3, PTL DEF Spec
-----------------------------------------------------------------------------
(* SearchCache. *)

USE DEF Versions, Bound

\* A search that is about to insert knows the key its result is for.
CacheInv ==
    /\ CacheTypeOK
    /\ IsFiniteSet(entries)
    /\ \A s \in Searcher : spc[s] \in {"scan", "insert"} => query[s] \in Query

\* What is kept of the cache has its types.
LEMMA KeepType ==
  ASSUME CacheInv, NEW K \in SUBSET entries, Keep(K)
  PROVE  /\ entries' = K /\ entries' \subseteq Query /\ IsFiniteSet(entries')
         /\ result' \in [Query -> Versions]
         /\ inserted' \in [Query -> 0..Ttl]
  <1>1. IsFiniteSet(K)
    BY FS_Subset DEF CacheInv
  <1> QED
    BY <1>1, CacheBounds DEF CacheInv, CacheTypeOK, Keep

\* A search that returns leaves the locals of the others alone.
LEMMA ReturnType ==
  ASSUME CacheInv, NEW s \in Searcher, Return(s)
  PROVE  /\ spc' \in [Searcher -> {"idle", "scan", "insert", "hit"}]
         /\ query' \in [Searcher -> Query \cup {NoQuery}]
         /\ found' \in [Searcher -> Versions]
         /\ busy' \in [Searcher -> 0..MaxScan]
         /\ \A t \in Searcher : spc'[t] \in {"scan", "insert"} => query'[t] \in Query
  BY CacheBounds DEF CacheInv, CacheTypeOK, Return

\* An insert puts a result under a known key into what was kept.
LEMMA InsertType ==
  ASSUME CacheInv, NEW s \in Searcher, Insert(s)
  PROVE  CacheInv'
  <1>1. PICK K \in SUBSET entries :
          /\ Evicted(K)
          /\ entries' = K \cup {query[s]}
          /\ result' = [k \in Query |-> IF k = query[s] THEN found[s]
                                        ELSE IF k \in K THEN result[k] ELSE 0]
          /\ inserted' = [k \in Query |-> IF k \in K \ {query[s]} THEN inserted[k] ELSE 0]
    BY DEF Insert
  <1>2. query[s] \in Query
    BY DEF Insert, CacheInv
  <1>3. IsFiniteSet(entries') /\ entries' \subseteq Query
    <2>1. IsFiniteSet(K)
      BY FS_Subset DEF CacheInv
    <2> QED
      BY <1>1, <1>2, <2>1, FS_AddElement DEF CacheInv, CacheTypeOK
  <1>4. result' \in [Query -> Versions] /\ inserted' \in [Query -> 0..Ttl]
    BY <1>1, CacheBounds DEF CacheInv, CacheTypeOK
  <1>5. Return(s) /\ UNCHANGED <<version, outdated>>
    BY DEF Insert
  <1> QED
    BY <1>3, <1>4, <1>5, ReturnType DEF CacheInv, CacheTypeOK

\* Every operation keeps the types.
LEMMA CacheInvKept == CacheInv /\ [CacheNext]_cacheVars => CacheInv'
  <1> SUFFICES ASSUME CacheInv, [CacheNext]_cacheVars
               PROVE  CacheInv'
    OBVIOUS
  <1> USE DEF cache, searches
  <1>1. ASSUME NEW s \in Searcher, NEW q \in Query, Lookup(s, q)
        PROVE  CacheInv'
    <2>1. CASE q \in entries /\ Fresh(q)
      BY <1>1, <2>1 DEF Lookup, CacheInv, CacheTypeOK
    <2>2. CASE ~(q \in entries /\ Fresh(q))
      <3>1. Keep(entries \ {q}) /\ entries \ {q} \in SUBSET entries
        BY <1>1, <2>2 DEF Lookup
      <3> QED
        BY <1>1, <2>2, <3>1, KeepType DEF Lookup, CacheInv, CacheTypeOK
    <2> QED
      BY <2>1, <2>2
  <1>2. ASSUME NEW s \in Searcher, Scan(s)
        PROVE  CacheInv'
    BY <1>2 DEF Scan, CacheInv, CacheTypeOK
  <1>3. ASSUME NEW s \in Searcher, Insert(s)
        PROVE  CacheInv'
    BY <1>3, InsertType
  <1>4. ASSUME NEW s \in Searcher, ReturnHit(s)
        PROVE  CacheInv'
    BY <1>4, ReturnType DEF ReturnHit, CacheInv, CacheTypeOK
  <1>5. CASE Clear
    <2>1. Keep({}) /\ {} \in SUBSET entries
      BY <1>5 DEF Clear
    <2> QED
      BY <1>5, <2>1, KeepType DEF Clear, CacheInv, CacheTypeOK
  <1>6. CASE Write
    BY <1>6, CacheBounds DEF Write, CacheInv, CacheTypeOK
  <1>7. CASE CacheTick
    <2>1. busy' \in [Searcher -> 0..MaxScan]
      BY <1>7, CacheBounds DEF CacheTick, CacheInv, CacheTypeOK
    <2>2. inserted' \in [Query -> 0..Ttl]
      BY <1>7, CacheBounds DEF CacheTick, AtMost, CacheInv, CacheTypeOK
    <2>3. outdated' \in [Versions -> 0..Bound]
      BY <1>7, CacheBounds DEF CacheTick, AtMost, CacheInv, CacheTypeOK
    <2> QED
      BY <1>7, <2>1, <2>2, <2>3 DEF CacheTick, CacheInv, CacheTypeOK
  <1>8. CASE UNCHANGED cacheVars
    BY <1>8 DEF cacheVars, CacheInv, CacheTypeOK
  <1> QED
    BY <1>1, <1>2, <1>3, <1>4, <1>5, <1>6, <1>7, <1>8 DEF CacheNext

\* The cache starts empty, with its types.
LEMMA CacheInvInit == CacheInit => CacheInv
  BY CacheBounds, FS_EmptySet DEF CacheInit, CacheInv, CacheTypeOK

\* The cache and the locals of every search keep their types.
THEOREM CacheTypeCorrect == CacheSpec => []CacheInv
  BY CacheInvInit, CacheInvKept, PTL DEF CacheSpec
-----------------------------------------------------------------------------
(* The capacity. *)

\* Only an insert adds an entry, and it makes room for it first.
LEMMA CapacityNext ==
  ASSUME CacheInv, CapacityHeld, [CacheNext]_cacheVars
  PROVE  CapacityHeld'
  <1> USE DEF cache, searches
  <1>1. ASSUME entries' \subseteq entries
        PROVE  CapacityHeld'
    <2>1. /\ IsFiniteSet(entries')
          /\ Cardinality(entries') <= Cardinality(entries)
          /\ Cardinality(entries') \in Nat /\ Cardinality(entries) \in Nat
      BY <1>1, FS_Subset, FS_CardinalityType DEF CacheInv
    <2> QED
      BY <2>1, CacheBounds DEF CapacityHeld
  <1>2. ASSUME NEW s \in Searcher, Insert(s)
        PROVE  CapacityHeld'
    <2> DEFINE good == {k \in entries : Fresh(k)}
    <2>1. PICK K \in SUBSET entries : Evicted(K) /\ entries' = K \cup {query[s]}
      BY <1>2 DEF Insert
    <2>2. IsFiniteSet(K) /\ IsFiniteSet(good)
      BY FS_Subset DEF CacheInv
    <2>3. Cardinality(K) \in Nat /\ Cardinality(good) \in Nat
      BY <2>2, FS_CardinalityType
    <2>4. Cardinality(K) <= MaxEntries - 1
      <3>1. IF Cardinality(good) < MaxEntries THEN K = good ELSE Cardinality(K) = MaxEntries - 1
        BY <2>1 DEF Evicted
      <3>2. MaxEntries \in Nat
        BY CacheBounds
      <3> HIDE DEF good
      <3> QED
        BY <2>3, <3>1, <3>2
    <2>5. /\ Cardinality(entries') = Cardinality(K)
          \/ Cardinality(entries') = Cardinality(K) + 1
      BY <2>1, <2>2, FS_AddElement
    <2> QED
      BY <2>3, <2>4, <2>5, CacheBounds DEF CapacityHeld
  <1>3. CacheNext => entries' \subseteq entries \/ \E s \in Searcher : Insert(s)
    BY DEF CacheNext, Lookup, Scan, ReturnHit, Clear, Write, CacheTick, Keep
  <1>4. UNCHANGED cacheVars => entries' \subseteq entries
    BY DEF cacheVars
  <1> QED
    BY <1>1, <1>2, <1>3, <1>4

\* The cache never holds more than max_entries results.
THEOREM CapacityCorrect == CacheSpec => []CapacityHeld
  <1>1. CacheInit => CapacityHeld
    BY FS_EmptySet, CacheBounds DEF CacheInit, CapacityHeld
  <1>2. CacheInv /\ CapacityHeld /\ [CacheNext]_cacheVars => CapacityHeld'
    BY CapacityNext
  <1> QED
    BY <1>1, <1>2, CacheTypeCorrect, PTL DEF CacheSpec
-----------------------------------------------------------------------------
(* Staleness. *)

\* A result was current when its scan read the records: it has been outdated for
\* at most the time since then, which is what the search took from there to its
\* insert, and the age of the entry.  A version that is current is not outdated.
AgeInv ==
    /\ \A v \in Versions : v >= version => outdated[v] = 0
    /\ \A s \in Searcher : spc[s] = "insert" => outdated[found[s]] <= busy[s]
    /\ \A q \in entries : outdated[result[q]] <= inserted[q] + MaxScan
    /\ \A s \in Searcher : spc[s] \in {"idle", "scan"} => busy[s] = 0

\* No operation lets a result grow older than its entry and its search say.
LEMMA AgeNext ==
  ASSUME CacheInv, AgeInv, [CacheNext]_cacheVars
  PROVE  AgeInv'
  <1> USE CacheBounds DEF cache, searches
  <1> CacheTypeOK
    BY DEF CacheInv
  <1>1. ASSUME NEW s \in Searcher, NEW q \in Query, Lookup(s, q)
        PROVE  AgeInv'
    <2>1. CASE q \in entries /\ Fresh(q)
      BY <1>1, <2>1 DEF Lookup, AgeInv, CacheTypeOK
    <2>2. CASE ~(q \in entries /\ Fresh(q))
      BY <1>1, <2>2 DEF Lookup, Keep, AgeInv, CacheTypeOK
    <2> QED
      BY <2>1, <2>2
  <1>2. ASSUME NEW s \in Searcher, Scan(s)
        PROVE  AgeInv'
    BY <1>2 DEF Scan, AgeInv, CacheTypeOK
  <1>3. ASSUME NEW s \in Searcher, Insert(s)
        PROVE  AgeInv'
    <2>1. PICK K \in SUBSET entries :
            /\ entries' = K \cup {query[s]}
            /\ result' = [k \in Query |-> IF k = query[s] THEN found[s]
                                          ELSE IF k \in K THEN result[k] ELSE 0]
            /\ inserted' = [k \in Query |-> IF k \in K \ {query[s]} THEN inserted[k] ELSE 0]
      BY <1>3 DEF Insert
    <2>2. /\ spc[s] = "insert" /\ query[s] \in Query
          /\ Return(s) /\ UNCHANGED <<version, outdated>>
      BY <1>3 DEF Insert, CacheInv
    <2>3. \A q \in entries' : outdated'[result'[q]] <= inserted'[q] + MaxScan
      <3>1. outdated[found[s]] <= 0 + MaxScan
        BY <2>2 DEF AgeInv, CacheTypeOK
      <3> QED
        BY <2>1, <2>2, <3>1 DEF AgeInv, CacheTypeOK
    <2> QED
      BY <2>2, <2>3 DEF AgeInv, CacheTypeOK, Return
  <1>4. ASSUME NEW s \in Searcher, ReturnHit(s)
        PROVE  AgeInv'
    BY <1>4 DEF ReturnHit, Return, AgeInv, CacheTypeOK
  <1>5. CASE Clear
    BY <1>5 DEF Clear, Keep, AgeInv, CacheTypeOK
  <1>6. CASE Write
    BY <1>6 DEF Write, AgeInv, CacheTypeOK
  <1>7. CASE CacheTick
    <2>1. \A v \in Versions : /\ outdated'[v] <= outdated[v] + 1
                              /\ outdated'[v] \in 0..Bound
                              /\ v >= version => outdated'[v] = 0
      BY <1>7 DEF CacheTick, AtMost, CacheTypeOK
    <2>2. \A q \in entries : outdated'[result[q]] <= inserted'[q] + MaxScan
      <3> SUFFICES ASSUME NEW q \in entries
                   PROVE  outdated'[result[q]] <= inserted'[q] + MaxScan
        OBVIOUS
      <3>1. q \in Query /\ result[q] \in Versions /\ inserted[q] \in 0..Ttl
        BY DEF CacheTypeOK
      <3>2. inserted'[q] = IF inserted[q] + 1 > Ttl THEN Ttl ELSE inserted[q] + 1
        BY <1>7, <3>1 DEF CacheTick, AtMost
      <3>3. outdated[result[q]] <= inserted[q] + MaxScan /\ outdated[result[q]] \in 0..Bound
        BY <3>1 DEF AgeInv, CacheTypeOK
      <3> QED
        BY <2>1, <3>1, <3>2, <3>3
    <2>3. \A s \in Searcher : spc[s] = "insert" => outdated'[found[s]] <= busy'[s]
      <3> SUFFICES ASSUME NEW s \in Searcher, spc[s] = "insert"
                   PROVE  outdated'[found[s]] <= busy'[s]
        OBVIOUS
      <3>1. found[s] \in Versions /\ busy[s] \in Nat /\ busy'[s] = busy[s] + 1
        BY <1>7 DEF CacheTick, CacheTypeOK
      <3>2. outdated[found[s]] <= busy[s] /\ outdated[found[s]] \in 0..Bound
        BY <3>1 DEF AgeInv, CacheTypeOK
      <3> QED
        BY <2>1, <3>1, <3>2
    <2> QED
      BY <1>7, <2>1, <2>2, <2>3 DEF CacheTick, AgeInv, CacheTypeOK
  <1>8. CASE UNCHANGED cacheVars
    BY <1>8 DEF cacheVars, AgeInv, CacheTypeOK
  <1> QED
    BY <1>1, <1>2, <1>3, <1>4, <1>5, <1>6, <1>7, <1>8 DEF CacheNext

\* The age an entry may have keeps the result of a hit below the bound.
LEMMA HitIsRecent ==
  ASSUME CacheInv, AgeInv, [CacheNext]_cacheVars,
         NEW s \in Searcher, spc[s] = "idle", spc'[s] = "hit"
  PROVE  outdated[found'[s]] < Bound
  <1> USE CacheBounds
  <1>1. PICK q \in Query : Lookup(s, q) /\ q \in entries /\ Fresh(q)
    BY DEF CacheNext, cacheVars, searches, cache, Lookup, Scan, Insert, Return, ReturnHit, Clear, Write, CacheTick,
           CacheInv, CacheTypeOK
  <1>2. found'[s] = result[q]
    BY <1>1 DEF Lookup, CacheInv, CacheTypeOK
  <1> QED
    BY <1>1, <1>2 DEF AgeInv, Fresh, CacheInv, CacheTypeOK

\* A hit's result was the current one less than the ttl and the time of one search ago.
THEOREM StalenessCorrect == CacheSpec => StalenessBound
  <1>1. CacheInit => AgeInv
    BY CacheBounds DEF CacheInit, AgeInv
  <1>2. CacheInv /\ AgeInv /\ [CacheNext]_cacheVars => AgeInv'
    BY AgeNext
  <1>3. CacheInv /\ AgeInv /\ [CacheNext]_cacheVars =>
          [\A s \in Searcher : spc[s] = "idle" /\ spc'[s] = "hit" =>
             found'[s] = version \/ outdated[found'[s]] < Bound]_cacheVars
    BY HitIsRecent
  <1> QED
    BY <1>1, <1>2, <1>3, CacheTypeCorrect, PTL DEF CacheSpec, StalenessBound
=============================================================================
