----------------------------- MODULE SourceMap -----------------------------
(***************************************************************************)
(* What the record store promises about deduplication, stated without      *)
(* tables, transactions or concurrency: for every source there is at most  *)
(* one live record, a write replaces it only by a strictly newer one, and  *)
(* removals make a source empty.                                           *)
(***************************************************************************)
EXTENDS Naturals

CONSTANTS Rec,    \* the records that can be written
          Hash,   \* the source hashes
          NoRec   \* "no record"

VARIABLE live     \* live[h]: the record held for source h, or NoRec

Init == live = [h \in Hash |-> NoRec]

\* A write of r: its source is empty or holds a strictly older record.
Put(r) ==
    /\ \/ live[r.source_hash] = NoRec
       \/ live[r.source_hash].created_at < r.created_at
    /\ live' = [live EXCEPT ![r.source_hash] = r]

\* A removal empties a set of sources (a delete, a sweep or an eviction).
Drop(H) == live' = [h \in Hash |-> IF h \in H THEN NoRec ELSE live[h]]

Next ==
    \/ \E r \in Rec : Put(r)
    \/ \E H \in SUBSET Hash : Drop(H)

Spec == Init /\ [][Next]_live
=============================================================================
