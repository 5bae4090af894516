------------------------------ MODULE MCStore ------------------------------
(***************************************************************************)
(* Small instances of Store for TLC: two sources, two versions of the      *)
(* first one, expiring and permanent records, with and without tags.       *)
(***************************************************************************)
EXTENDS Store, TLC

CONSTANTS A1, A2, B1, X1,   \* record ids
          ha, hb,           \* source hashes
          t, u              \* index keys

Record(id, h, created, expires, tags, body, size) ==
    [id |-> id, source_hash |-> h, created_at |-> created, expires_at |-> expires,
     tags |-> tags, body |-> body, size |-> size]

\* Two versions of source ha and one record of source hb, of different sizes,
\* the first one with tags.
Versions == { Record(A1, ha, 1, 1, <<t, u>>, 1, 2),
              Record(A2, ha, 2, 0, <<>>, 2, 3),
              Record(B1, hb, 1, 1, <<>>, 2, 3) }

\* Tagged records; expires_at is not part of the id, so the same record comes
\* with two lifetimes; one record is over MaxRecordSize.
Lifetimes == { Record(A1, ha, 1, 1, <<t>>, 1, 2),
               Record(A1, ha, 1, 3, <<t>>, 1, 2),
               Record(A2, ha, 2, 1, <<t, u>>, 1, 2),
               Record(B1, hb, 1, 1, <<u>>, 1, 2),
               Record(X1, hb, 2, 0, <<>>, 8, 9) }

Symmetry == Permutations(Client)
=============================================================================
