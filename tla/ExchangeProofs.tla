--------------------------- MODULE ExchangeProofs ---------------------------
(***************************************************************************)
(* Proofs about Exchange, for any records, sizes, limits and clocks: the   *)
(* messages are handled in the order they were written, what has been      *)
(* handled has been delivered, and a signature is kept.                    *)
(***************************************************************************)
EXTENDS Exchange, FiniteSetTheorems, TLAPS

(* Listing the first records of a store. *)

\* The place of r in the table of the records S.
Rank(S, r) == Cardinality({q \in S : q < r})

\* A rank is a number below the size of the table.
LEMMA RankType ==
  ASSUME NEW S \in SUBSET Nat, IsFiniteSet(S), NEW r \in S
  PROVE  Rank(S, r) \in 0..(Cardinality(S) - 1) /\ Cardinality(S) \in Nat
  <1> DEFINE below == {q \in S : q < r}
  <1>1. below \in SUBSET S /\ below # S
    OBVIOUS
  <1>2. /\ Cardinality(below) <= Cardinality(S) /\ Cardinality(below) # Cardinality(S)
        /\ Cardinality(below) \in Nat /\ Cardinality(S) \in Nat
    BY <1>1, FS_Subset, FS_CardinalityType
  <1> QED
    BY <1>2 DEF Rank

\* Records of smaller ids have smaller ranks.
LEMMA RankOrder ==
  ASSUME NEW S \in SUBSET Nat, IsFiniteSet(S), NEW q \in S, NEW r \in S, q < r
  PROVE  Rank(S, q) < Rank(S, r)
  <1> DEFINE A == {p \in S : p < q}
             B == {p \in S : p < r}
  <1>1. A \in SUBSET B /\ A # B /\ B \in SUBSET S
    <2>1. q \in B /\ q \notin A
      OBVIOUS
    <2>2. ASSUME NEW p \in A
          PROVE  p \in B
      <3>1. p \in Nat /\ q \in Nat /\ r \in Nat /\ p < q
        OBVIOUS
      <3> QED
        BY <3>1
    <2> QED
      BY <2>1, <2>2
  <1>2. IsFiniteSet(B)
    BY <1>1, FS_Subset
  <1>3. /\ Cardinality(A) <= Cardinality(B) /\ Cardinality(A) # Cardinality(B)
        /\ Cardinality(A) \in Nat /\ Cardinality(B) \in Nat
    BY <1>1, <1>2, FS_Subset, FS_CardinalityType
  <1> QED
    BY <1>3 DEF Rank

\* Every place is taken.
LEMMA RankOnto ==
  ASSUME NEW S \in SUBSET Nat, IsFiniteSet(S), NEW k \in 0..(Cardinality(S) - 1)
  PROVE  \E r \in S : Rank(S, r) = k
  <1> DEFINE T == 0..(Cardinality(S) - 1)
             f == [r \in S |-> Rank(S, r)]
  <1>1. Cardinality(S) \in Nat
    BY FS_CardinalityType
  <1>2. IsFiniteSet(T) /\ Cardinality(T) = Cardinality(S)
    BY <1>1, FS_Interval
  <1>3. f \in [S -> T]
    BY RankType
  <1>4. \A q, r \in S : f[q] = f[r] => q = r
    <2> SUFFICES ASSUME NEW q \in S, NEW r \in S, q # r
                 PROVE  f[q] # f[r]
      OBVIOUS
    <2>1. Rank(S, q) \in Nat /\ Rank(S, r) \in Nat
      BY <1>1, RankType
    <2>2. q < r \/ r < q
      OBVIOUS
    <2> QED
      BY <2>1, <2>2, RankOrder
  <1>5. f \in Injection(S, T)
    BY <1>3, <1>4 DEF Injection, IsInjective
  <1>6. f \in Surjection(S, T)
    BY <1>2, <1>5, FS_Injection
  <1> QED
    BY <1>6 DEF Surjection

\* The records below a limit are the ones with the first places, each place once.
LEMMA ListedRanks ==
  ASSUME NEW S \in SUBSET Nat, IsFiniteSet(S), NEW limit \in Nat,
         NEW L, L = {r \in S : Rank(S, r) < limit}
  PROVE  /\ Cardinality(L) \in Nat
         /\ \A i \in 1..Cardinality(L) : \E r \in L : Rank(S, r) = i - 1
         /\ \A r \in L : Rank(S, r) + 1 \in 1..Cardinality(L)
  <1>1. /\ L \in SUBSET S /\ IsFiniteSet(L) /\ Cardinality(L) <= Cardinality(S)
        /\ Cardinality(L) \in Nat /\ Cardinality(S) \in Nat
    <2>1. L \in SUBSET S
      OBVIOUS
    <2> QED
      BY <2>1, FS_Subset, FS_CardinalityType
  <1>2. Cardinality(L) <= limit
    <2>1. CASE Cardinality(S) <= limit
      BY <1>1, <2>1
    <2>2. CASE limit < Cardinality(S)
      <3>1. PICK r \in S : Rank(S, r) = limit
        BY <1>1, <2>2, RankOnto
      <3> DEFINE B == {q \in S : q < r}
      <3>2. L \in SUBSET B
        <4> SUFFICES ASSUME NEW q \in L
                     PROVE  q < r
          OBVIOUS
        <4>1. Rank(S, q) < limit /\ q \in S /\ Rank(S, q) \in Nat
          BY RankType
        <4>2. q = r \/ r < q \/ q < r
          BY <4>1
        <4> QED
          BY <3>1, <4>1, <4>2, RankOrder
      <3>3. IsFiniteSet(B)
        BY FS_Subset
      <3>4. Cardinality(L) <= Cardinality(B)
        BY <3>2, <3>3, FS_Subset
      <3> QED
        BY <3>1, <3>4 DEF Rank
    <2> QED
      BY <1>1, <2>1, <2>2
  <1>3. ASSUME NEW i \in 1..Cardinality(L)
        PROVE  \E r \in L : Rank(S, r) = i - 1
    <2>1. i - 1 \in 0..(Cardinality(S) - 1) /\ i - 1 < limit
      BY <1>1, <1>2
    <2>2. PICK r \in S : Rank(S, r) = i - 1
      BY <2>1, RankOnto
    <2> QED
      BY <2>1, <2>2
  <1>4. ASSUME NEW r \in L
        PROVE  Rank(S, r) + 1 \in 1..Cardinality(L)
    <2> DEFINE B == {q \in S : q < r}
    <2>1. r \in S /\ Rank(S, r) \in Nat /\ Rank(S, r) < limit
      BY <1>1, RankType
    <2>2. B \cup {r} \in SUBSET L
      <3> SUFFICES ASSUME NEW q \in B
                   PROVE  q \in L
        OBVIOUS
      <3>1. Rank(S, q) < Rank(S, r) /\ Rank(S, q) \in Nat /\ q \in S
        BY <2>1, <1>1, RankOrder, RankType
      <3> QED
        BY <2>1, <3>1
    <2>3. IsFiniteSet(B) /\ r \notin B
      BY <2>1, FS_Subset
    <2>4. Cardinality(B \cup {r}) = Cardinality(B) + 1
      BY <2>3, FS_AddElement
    <2>5. Cardinality(B \cup {r}) <= Cardinality(L)
      BY <1>1, <2>2, FS_Subset
    <2> QED
      BY <1>1, <2>1, <2>4, <2>5 DEF Rank
  <1> QED
    BY <1>1, <1>3, <1>4
-----------------------------------------------------------------------------
(* The types. *)

USE DEF Clock, Tables, Link, History, Unread

\* The bounds one by one.
LEMMA Bounds ==
  /\ SigSize \in Nat /\ MaxAnnSize \in Nat /\ AnnounceLimit \in Nat /\ PushLimit \in Nat /\ Day \in Nat
  /\ MaxTime \in Nat /\ MaxRequests \in Nat
  BY BoundAssumption

\* What is left of a session when there is none.
SessionInv ==
    /\ stage = "none" <=> ~Connected
    /\ ~Connected => /\ out = <<>> /\ wire = <<>> /\ sent = <<>> /\ handled = <<>>
                     /\ reader = "header" /\ interrupted = FALSE /\ pushed = {}

\* There is somebody at the other end.
LEMMA AcceptorIs ==
  ASSUME TypeOK, Connected
  PROVE  dialer \in Node /\ acceptor \in Node /\ acceptor # dialer
  <1>1. dialer \in Node
    BY DEF TypeOK, Connected
  <1>2. Node # {dialer}
    BY FS_Singleton, NodeAssumption
  <1>3. \E n \in Node : n # dialer
    BY <1>1, <1>2
  <1> QED
    BY <1>1, <1>3 DEF acceptor

\* The messages of a session are about the records listed, each once.
LEMMA MessagesAre ==
  ASSUME TypeOK, NEW n \in Node, NEW type \in {"announce", "push"}, NEW limit \in Nat,
         NEW M, M = Messages(n, type, limit)
  PROVE  /\ M \in Seq(Msg)
         /\ \A i \in 1..Len(M) : /\ M[i].type = type /\ M[i].record \in held[n]
                                /\ M[i].sig = signer[n][M[i].record]
         /\ \A r \in Listed(n, limit) : \E i \in 1..Len(M) : M[i].type = type /\ M[i].record = r
  <1> DEFINE S == held[n]
             L == Listed(n, limit)
             At(i) == CHOOSE r \in L : Rank(S, r) = i - 1
  <1>1. S \in SUBSET Rec /\ S \in SUBSET Nat /\ IsFiniteSet(S)
    BY RecAssumption, FS_Subset DEF TypeOK
  <1>2. L = {r \in S : Rank(S, r) < limit}
    BY DEF Listed, Rank
  <1>3. M = [i \in 1..Cardinality(L) |-> [type |-> type, record |-> At(i), sig |-> signer[n][At(i)]]]
    BY DEF Messages, Rank
  <1> HIDE DEF S, L
  <1>4. /\ Cardinality(L) \in Nat
        /\ \A i \in 1..Cardinality(L) : \E r \in L : Rank(S, r) = i - 1
        /\ \A r \in L : Rank(S, r) + 1 \in 1..Cardinality(L)
    BY <1>1, <1>2, ListedRanks
  <1>5. \A i \in 1..Cardinality(L) : At(i) \in L /\ Rank(S, At(i)) = i - 1
    BY <1>4
  <1>6. L \subseteq S
    BY <1>2
  <1> HIDE DEF At
  <1>7. \A i \in 1..Cardinality(L) : At(i) \in Rec /\ signer[n][At(i)] \in Node \cup {NoNode}
    <2>1. \A i \in 1..Cardinality(L) : At(i) \in Rec
      BY <1>1, <1>5, <1>6
    <2>2. \A r \in Rec : signer[n][r] \in Node \cup {NoNode}
      BY DEF TypeOK
    <2> QED
      BY <2>1, <2>2
  <1>8. M \in [1..Cardinality(L) -> Msg]
    BY <1>3, <1>7 DEF Msg
  <1>9. M \in Seq(Msg) /\ Len(M) = Cardinality(L)
    BY <1>3, <1>4, <1>8
  <1>10. \A i \in 1..Len(M) : /\ M[i].type = type /\ M[i].record \in held[n]
                              /\ M[i].sig = signer[n][M[i].record]
    <2> SUFFICES ASSUME NEW i \in 1..Len(M)
                 PROVE  /\ M[i].type = type /\ M[i].record \in held[n]
                        /\ M[i].sig = signer[n][M[i].record]
      OBVIOUS
    <2>1. M[i] = [type |-> type, record |-> At(i), sig |-> signer[n][At(i)]]
      BY <1>3, <1>9
    <2>2. At(i) \in held[n]
      BY <1>5, <1>6, <1>9 DEF S
    <2> QED
      BY <2>1, <2>2
  <1>11. ASSUME NEW r \in L
         PROVE  \E i \in 1..Len(M) : M[i].type = type /\ M[i].record = r
    <2> DEFINE i == Rank(S, r) + 1
    <2>1. i \in 1..Cardinality(L)
      BY <1>4
    <2>2. r \in S /\ Rank(S, r) \in Nat
      BY <1>1, <1>6, RankType
    <2>3. At(i) \in S /\ Rank(S, At(i)) = Rank(S, r)
      BY <1>5, <1>6, <2>1, <2>2
    <2>4. At(i) = r
      <3>1. ~(At(i) < r) /\ ~(r < At(i))
        <4>1. PICK x \in S : x = At(i) /\ Rank(S, x) = Rank(S, r)
          BY <2>3
        <4>2. ~(x < r)
          BY <1>1, <2>2, <4>1, RankOrder
        <4>3. ~(r < x)
          BY <1>1, <2>2, <4>1, RankOrder
        <4> QED
          BY <4>1, <4>2, <4>3
      <3>2. At(i) \in Nat /\ r \in Nat
        BY <1>1, <2>2, <2>3
      <3> QED
        BY <3>1, <3>2
    <2>5. M[i].type = type /\ M[i].record = At(i)
      BY <1>3, <2>1
    <2> QED
      BY <1>9, <2>1, <2>4, <2>5
  <1> QED
    BY <1>9, <1>10, <1>11 DEF L

\* What an insert does to the table of a node, to its signatures and to the makers.
LEMMA InsertRecordDoes ==
  ASSUME TypeOK, NEW n \in Node, NEW r \in Rec, NEW sig \in Node \cup {NoNode},
         InsertRecord(n, r, sig)
  PROVE  /\ held' \in [Node -> SUBSET Rec]
         /\ signer' \in [Node -> [Rec -> Node \cup {NoNode}]]
         /\ makers' \in [Rec -> SUBSET Node]
         /\ \A q \in Rec : makers[q] \subseteq makers'[q]
         /\ \A m \in Node \ {n} : held'[m] = held[m] /\ signer'[m] = signer[m]
         /\ \A q \in held'[n] :
              \/ q \in held[n] /\ signer'[n][q] = signer[n][q]
              \/ q = r /\ signer'[n][q] = Signature(n, sig) /\ (sig = NoNode => n \in makers'[r])
         /\ \E q \in held'[n] : SourceOf[q] = SourceOf[r] /\ CreatedAt[q] >= CreatedAt[r]
         /\ \A q \in held[n] : q \in held'[n] \/ (/\ r \in held'[n] /\ SourceOf[q] = SourceOf[r]
                                               /\ CreatedAt[r] >= CreatedAt[q])
  <1> USE RecAssumption
  <1>1. CASE Skipped(n, r)
    BY <1>1 DEF InsertRecord, Skipped, SameSource, TypeOK
  <1>2. CASE ~Skipped(n, r)
    <2>1. /\ held' = [held EXCEPT ![n] = (held[n] \ SameSource(n, r)) \cup {r}]
          /\ signer' = [signer EXCEPT ![n] =
                          [q \in Rec |-> IF q = r THEN Signature(n, sig)
                                         ELSE IF q \in SameSource(n, r) THEN NoNode ELSE signer[n][q]]]
          /\ makers' = [makers EXCEPT ![r] = IF sig = NoNode THEN makers[r] \cup {n} ELSE makers[r]]
      BY <1>2 DEF InsertRecord
    <2>2. Signature(n, sig) \in Node \cup {NoNode}
      BY DEF Signature
    <2>3. held' \in [Node -> SUBSET Rec] /\ held'[n] = (held[n] \ SameSource(n, r)) \cup {r}
      BY <2>1 DEF TypeOK
    <2>4. /\ signer' \in [Node -> [Rec -> Node \cup {NoNode}]]
          /\ signer'[n] = [q \in Rec |-> IF q = r THEN Signature(n, sig)
                                         ELSE IF q \in SameSource(n, r) THEN NoNode ELSE signer[n][q]]
      BY <2>1, <2>2 DEF TypeOK
    <2>5. /\ makers' \in [Rec -> SUBSET Node]
          /\ \A q \in Rec : makers[q] \subseteq makers'[q]
          /\ sig = NoNode => n \in makers'[r]
      BY <2>1 DEF TypeOK
    <2>6. \A m \in Node \ {n} : held'[m] = held[m] /\ signer'[m] = signer[m]
      BY <2>1 DEF TypeOK
    <2>7. \A q \in held'[n] :
              \/ q \in held[n] /\ signer'[n][q] = signer[n][q]
              \/ q = r /\ signer'[n][q] = Signature(n, sig) /\ (sig = NoNode => n \in makers'[r])
      BY <2>3, <2>4, <2>5 DEF TypeOK
    <2>8. \E q \in held'[n] : SourceOf[q] = SourceOf[r] /\ CreatedAt[q] >= CreatedAt[r]
      BY <2>3
    <2>9. \A q \in held[n] : q \in held'[n] \/ (/\ r \in held'[n] /\ SourceOf[q] = SourceOf[r]
                                               /\ CreatedAt[r] >= CreatedAt[q])
      <3> SUFFICES ASSUME NEW q \in held[n], q \notin held'[n]
                   PROVE  SourceOf[q] = SourceOf[r] /\ CreatedAt[r] >= CreatedAt[q]
        BY <2>3
      <3>1. q \in SameSource(n, r)
        BY <2>3
      <3>2. q \in Rec
        BY DEF TypeOK
      <3>3. CreatedAt[q] \in Nat /\ CreatedAt[r] \in Nat
        BY <3>2, RecAssumption
      <3>4. SourceOf[q] = SourceOf[r]
        BY <3>1 DEF SameSource
      <3>5. ~(CreatedAt[q] >= CreatedAt[r])
        BY <1>2, <3>1 DEF Skipped
      <3> QED
        BY <3>3, <3>4, <3>5
    <2> QED
      BY <2>3, <2>4, <2>5, <2>6, <2>7, <2>8, <2>9
  <1> QED
    BY <1>1, <1>2

\* What storing an announcement does to the table of a node.
LEMMA InsertAnnouncementDoes ==
  ASSUME TypeOK, NEW n \in Node, NEW r \in Rec, NEW h \in Node \cup {Local}, NEW e \in Nat,
         NEW sig \in Node \cup {NoNode}, InsertAnnouncement(n, <<r, h>>, e, sig)
  PROVE  /\ anns' \in [Node -> SUBSET Ann]
         /\ \A m \in Node : \A a \in anns'[m] : a \in anns[m] \/ (a.key = <<r, h>> /\ a.expires_at = e)
         /\ \A m \in Node : \A a \in anns[m] : \E b \in anns'[m] : b.key = a.key
         /\ Base[r] + SigSize <= MaxAnnSize => \E a \in anns'[n] : a.key = <<r, h>>
  <1> DEFINE new == [key |-> <<r, h>>, expires_at |-> e, sig |-> Signature(n, sig)]
  <1>1. Signature(n, sig) \in Node
    BY DEF Signature
  <1>2. new \in Ann /\ new.key = <<r, h>> /\ new.expires_at = e
    BY <1>1 DEF Ann, Key
  <1> HIDE DEF new
  <1>3. Fits(r, Signature(n, sig)) <=> Base[r] + SigSize <= MaxAnnSize
    BY <1>1, NodeAssumption DEF Fits
  <1>4. CASE Fits(r, Signature(n, sig))
    <2>1. anns' = [anns EXCEPT ![n] = {a \in anns[n] : a.key # <<r, h>>} \cup {new}]
      BY <1>4 DEF InsertAnnouncement, new
    <2>2. anns' \in [Node -> SUBSET Ann]
      BY <1>2, <2>1 DEF TypeOK
    <2>3. /\ anns'[n] = {a \in anns[n] : a.key # <<r, h>>} \cup {new}
          /\ \A m \in Node \ {n} : anns'[m] = anns[m]
      BY <2>1 DEF TypeOK
    <2> QED
      BY <1>2, <2>2, <2>3
  <1>5. CASE ~Fits(r, Signature(n, sig))
    <2>1. anns' = anns
      BY <1>5 DEF InsertAnnouncement
    <2> QED
      BY <1>3, <1>5, <2>1 DEF TypeOK
  <1> QED
    BY <1>4, <1>5

\* The sources a node loses are sources of records.
LEMMA MissingType ==
  ASSUME TypeOK, NEW n \in Node, NEW S \in SUBSET Rec, NEW T,
         T = {SourceOf[r] : r \in S}, Missing(n, T)
  PROVE  missed' \subseteq {SourceOf[r] : r \in Rec} /\ missed \subseteq missed'
  BY DEF TypeOK, Missing

\* A session that ends leaves nothing behind.
LEMMA HangupType ==
  ASSUME Hangup
  PROVE  /\ dialer' \in Node \cup {NoNode} /\ stage' \in {"none", "announcing", "pushing"}
         /\ out' \in Seq(Msg) /\ wire' \in Seq(Frame) /\ interrupted' \in BOOLEAN
         /\ reader' \in {"header", "body", "stray"}
         /\ sent' \in Seq(Msg) /\ handled' \in Seq(Msg) /\ pushed' \subseteq Rec
         /\ missed' \subseteq {SourceOf[r] : r \in Rec}
  <1>1. dialer' \in Node \cup {NoNode} /\ stage' \in {"none", "announcing", "pushing"}
    BY DEF Hangup
  <1>2. out' \in Seq(Msg) /\ sent' \in Seq(Msg) /\ handled' \in Seq(Msg)
    BY DEF Hangup
  <1>3. wire' \in Seq(Frame)
    BY DEF Hangup
  <1>4. interrupted' \in BOOLEAN /\ reader' \in {"header", "body", "stray"}
    BY DEF Hangup
  <1>5. pushed' \subseteq Rec /\ missed' \subseteq {SourceOf[r] : r \in Rec}
    BY DEF Hangup
  <1> QED
    BY <1>1, <1>2, <1>3, <1>4, <1>5

\* What reading a body does.
LEMMA ReadBodyDoes ==
  ASSUME TypeOK, NEW type, ReadBody(type)
  PROVE  /\ Connected /\ dialer \in Node /\ acceptor \in Node /\ acceptor' = acceptor
         /\ Len(wire) \in Nat \ {0} /\ Head(wire) = wire[1] /\ wire[1] \in Frame
         /\ wire[1].msg \in Msg /\ wire[1].msg.type = type
         /\ wire[1].msg.record \in Rec /\ wire[1].msg.sig \in Node \cup {NoNode}
         /\ wire' = Tail(wire) /\ wire' \in Seq(Frame)
         /\ handled' = Append(handled, wire[1].msg) /\ handled' \in Seq(Msg)
         /\ reader = "body" /\ reader' = "header"
         /\ UNCHANGED <<Clock, sweep, dialer, stage, out, sent, interrupted, pushed, requests>>
  <1>1. Connected /\ wire # <<>> /\ wire \in Seq(Frame) /\ handled \in Seq(Msg)
    BY DEF ReadBody, TypeOK
  <1>2. dialer \in Node /\ acceptor \in Node /\ dialer' = dialer
    BY <1>1, AcceptorIs DEF ReadBody
  <1>3. acceptor' = acceptor
    BY <1>2 DEF acceptor
  <1>4. Len(wire) \in Nat \ {0} /\ Head(wire) = wire[1] /\ wire[1] \in Frame
    BY <1>1
  <1>5. wire[1].msg \in Msg
    BY <1>4 DEF Frame
  <1>6. wire[1].msg.record \in Rec /\ wire[1].msg.sig \in Node \cup {NoNode}
    BY <1>5 DEF Msg
  <1>7. wire' = Tail(wire) /\ wire' \in Seq(Frame)
    BY <1>1 DEF ReadBody
  <1>8. handled' = Append(handled, wire[1].msg) /\ handled' \in Seq(Msg)
    BY <1>1, <1>4, <1>5 DEF ReadBody
  <1> QED
    BY <1>1, <1>2, <1>3, <1>4, <1>5, <1>6, <1>7, <1>8 DEF ReadBody

\* The steps of the reader that handle no message.
ReaderStep == ReadHeader \/ ReadStray \/ ReadStrayBody \/ TimerFires

\* Either they end the session, or they leave the first frame, consume a part
\* of it or all of it; a whole frame is consumed only by its handler, after a
\* read that was interrupted, or in the place of a body that was not one.
LEMMA ReaderDoes ==
  ASSUME TypeOK, ReaderStep
  PROVE  /\ Connected /\ UNCHANGED Unread
         /\ \/ Hangup
            \/ /\ UNCHANGED <<Kept, handled>>
               /\ reader' \in {"header", "body", "stray"} /\ interrupted' \in BOOLEAN
               /\ \/ wire' = wire
                  \/ wire # <<>> /\ wire' = Tail(wire)
                  \/ wire # <<>> /\ \E from \in {"header", "body"} : wire' = Cut(from)
               /\ \/ interrupted' = TRUE
                  \/ interrupted' = interrupted /\ reader = "stray"
                  \/ interrupted' = interrupted /\ wire # <<>> /\ wire[1].from # "start"
                  \/ interrupted' = interrupted /\ wire' = wire /\ reader' = "body"
  <1> USE DEF Kept
  <1>0. wire # <<>> => Head(wire) = wire[1]
    BY DEF TypeOK
  <1>1. CASE ReadHeader
    BY <1>1 DEF ReadHeader, TypeOK
  <1>2. CASE ReadStray
    BY <1>0, <1>2 DEF ReadStray, TypeOK
  <1>3. CASE ReadStrayBody
    BY <1>3 DEF ReadStrayBody, TypeOK
  <1>4. CASE TimerFires
    <2>1. Connected /\ UNCHANGED <<Unread, Kept, handled>> /\ reader' = "header" /\ interrupted' = TRUE
      BY <1>4 DEF TimerFires
    <2>2. CASE DropHeader
      <3>1. wire # <<>> /\ Head(wire).from \in {"start", "header", "body"}
        <4>1. wire # <<>> /\ wire \in Seq(Frame)
          BY <2>2 DEF DropHeader, TypeOK
        <4>2. wire[1] \in Frame
          BY <4>1
        <4> QED
          BY <1>0, <4>1, <4>2 DEF Frame
      <3>2. \/ wire' = Tail(wire)
            \/ \E from \in {"header", "body"} : wire' = Cut(from)
        BY <2>2, <3>1 DEF DropHeader
      <3> QED
        BY <2>1, <3>1, <3>2
    <2>3. CASE DropBody
      <3>1. wire' = wire \/ (wire # <<>> /\ wire' = Cut("body"))
        BY <2>3 DEF DropBody
      <3> QED
        BY <2>1, <3>1
    <2> QED
      BY <1>4, <2>2, <2>3 DEF TimerFires
  <1> QED
    BY <1>1, <1>2, <1>3, <1>4 DEF ReaderStep

\* A part of the first frame is consumed.
LEMMA CutWire ==
  ASSUME TypeOK, wire # <<>>, NEW from \in {"header", "body"}, wire' = Cut(from)
  PROVE  /\ wire' \in Seq(Frame) /\ Len(wire') = Len(wire)
         /\ \A i \in 1..Len(wire) : wire'[i].msg = wire[i].msg
  <1> DEFINE first == [Head(wire) EXCEPT !.from = from]
  <1>1. wire \in Seq(Frame) /\ Len(wire) \in Nat \ {0} /\ Head(wire) = wire[1] /\ wire[1] \in Frame
    BY DEF TypeOK
  <1>2. first \in Frame /\ first.msg = wire[1].msg
    BY <1>1 DEF Frame
  <1>3. wire' = << first >> \o Tail(wire)
    BY DEF Cut
  <1> HIDE DEF first
  <1>4. /\ Tail(wire) \in Seq(Frame) /\ Len(Tail(wire)) = Len(wire) - 1
        /\ \A i \in 1..(Len(wire) - 1) : Tail(wire)[i] = wire[i + 1]
    BY <1>1
  <1>5. wire' \in Seq(Frame) /\ Len(wire') = Len(wire) /\ wire'[1] = first
    BY <1>1, <1>2, <1>3, <1>4
  <1>6. ASSUME NEW i \in 1..Len(wire), i # 1
        PROVE  wire'[i] = wire[i]
    <2>1. i - 1 \in 1..(Len(wire) - 1) /\ wire'[i] = Tail(wire)[i - 1] /\ (i - 1) + 1 = i
      BY <1>1, <1>2, <1>3, <1>4, <1>6
    <2> QED
      BY <1>4, <2>1
  <1> QED
    BY <1>2, <1>5, <1>6

\* A frame is consumed to its end.
LEMMA TailWire ==
  ASSUME TypeOK, wire # <<>>, wire' = Tail(wire)
  PROVE  /\ wire' \in Seq(Frame) /\ Len(wire) \in Nat \ {0} /\ Len(wire') = Len(wire) - 1
         /\ \A i \in 1..Len(wire') : i + 1 \in 1..Len(wire) /\ wire'[i] = wire[i + 1]
  BY DEF TypeOK

\* Requests to a node, its sweeps and the clock keep the types.
LEMMA StoreTypes ==
  ASSUME TypeOK,
         \/ \E n \in Node, r \in Rec : Insert(n, r) \/ Delete(n, r) \/ AnnounceLocal(n, r)
         \/ \E n \in Node : SweepCollect(n) \/ SweepDelete(n)
         \/ Tick
  PROVE  TypeOK'
  <1> USE Bounds, RecAssumption, NodeAssumption
  <1>1. ASSUME NEW n \in Node, NEW r \in Rec, Insert(n, r)
        PROVE  TypeOK'
    <2>1. /\ held' \in [Node -> SUBSET Rec] /\ makers' \in [Rec -> SUBSET Node]
          /\ signer' \in [Node -> [Rec -> Node \cup {NoNode}]]
      BY <1>1, InsertRecordDoes DEF Insert
    <2>2. requests' \in 0..MaxRequests
      BY <1>1 DEF Insert, TypeOK
    <2> QED
      BY <1>1, <2>1, <2>2 DEF Insert, TypeOK
  <1>2. ASSUME NEW n \in Node, NEW r \in Rec, Delete(n, r)
        PROVE  TypeOK'
    <2>1. missed' \subseteq {SourceOf[q] : q \in Rec}
      <3>1. {SourceOf[r]} = {SourceOf[q] : q \in {r}}
        OBVIOUS
      <3> QED
        BY <1>2, <3>1, MissingType DEF Delete
    <2>2. held' \in [Node -> SUBSET Rec] /\ requests' \in 0..MaxRequests
      <3>1. held' \in [Node -> SUBSET Rec]
        BY <1>2 DEF Delete, TypeOK
      <3>2. requests' \in 0..MaxRequests
        BY <1>2 DEF Delete, TypeOK
      <3> QED
        BY <3>1, <3>2
    <2>3. signer' \in [Node -> [Rec -> Node \cup {NoNode}]]
      BY <1>2 DEF Delete, TypeOK
    <2> QED
      BY <1>2, <2>1, <2>2, <2>3 DEF Delete, TypeOK
  <1>3. ASSUME NEW n \in Node, NEW r \in Rec, AnnounceLocal(n, r)
        PROVE  TypeOK'
    <2>1. AnnouncedUntil(r) \in Nat
      BY DEF AnnouncedUntil, TypeOK
    <2>2. anns' \in [Node -> SUBSET Ann]
      BY <1>3, <2>1, InsertAnnouncementDoes DEF AnnounceLocal
    <2>3. requests' \in 0..MaxRequests
      BY <1>3 DEF AnnounceLocal, TypeOK
    <2> QED
      BY <1>3, <2>2, <2>3 DEF AnnounceLocal, TypeOK
  <1>4. ASSUME NEW n \in Node, SweepCollect(n)
        PROVE  TypeOK'
    <2> DEFINE gone == {r \in held[n] : ExpiresAt[r] > 0 /\ ExpiresAt[r] < now}
    <2>1. gone \in SUBSET Rec
      BY DEF TypeOK
    <2>2. missed' \subseteq {SourceOf[q] : q \in Rec}
      BY <1>4, <2>1, MissingType DEF SweepCollect
    <2>3. Stale(n) \subseteq Key
      <3> SUFFICES ASSUME NEW b \in anns[n]
                   PROVE  b.key \in Key
        BY DEF Stale
      <3>1. b \in Ann
        BY DEF TypeOK
      <3> QED
        BY <3>1 DEF Ann
    <2>4. /\ held' \in [Node -> SUBSET Rec]
          /\ signer' \in [Node -> [Rec -> Node \cup {NoNode}]]
          /\ sweep' \in [Node -> SUBSET Key]
      BY <1>4, <2>3 DEF SweepCollect, TypeOK
    <2> QED
      BY <1>4, <2>2, <2>4 DEF SweepCollect, TypeOK
  <1>5. ASSUME NEW n \in Node, SweepDelete(n)
        PROVE  TypeOK'
    BY <1>5 DEF SweepDelete, TypeOK
  <1>6. CASE Tick
    BY <1>6 DEF Tick, TypeOK
  <1> QED
    BY <1>1, <1>2, <1>3, <1>4, <1>5, <1>6

\* The steps of a session keep the types.
LEMMA LinkTypes ==
  ASSUME TypeOK, SessionInv,
         \/ \E n \in Node : Dial(n)
         \/ Send \/ ListPushes \/ Disconnect \/ Read \/ TimerFires
  PROVE  TypeOK'
  <1> USE Bounds, RecAssumption, NodeAssumption
  <1>1. ASSUME NEW n \in Node, Dial(n)
        PROVE  TypeOK'
    <2>1. out' \in Seq(Msg)
      BY <1>1, MessagesAre DEF Dial
    <2>2. requests' \in 0..MaxRequests
      BY <1>1 DEF Dial, TypeOK
    <2> QED
      BY <1>1, <2>1, <2>2 DEF Dial, TypeOK
  <1>2. CASE Send
    <2>1. out # <<>> /\ out \in Seq(Msg) /\ wire \in Seq(Frame) /\ sent \in Seq(Msg)
      BY <1>2 DEF Send, TypeOK
    <2>2. Head(out) \in Msg /\ out' \in Seq(Msg)
      BY <1>2, <2>1 DEF Send
    <2>3. [from |-> "start", msg |-> Head(out)] \in Frame
      BY <2>2 DEF Frame
    <2>4. wire' \in Seq(Frame) /\ sent' \in Seq(Msg)
      BY <1>2, <2>1, <2>2, <2>3 DEF Send
    <2> QED
      BY <1>2, <2>2, <2>4 DEF Send, TypeOK
  <1>3. CASE ListPushes
    <2>1. stage = "announcing"
      BY <1>3 DEF ListPushes
    <2>2. out' \in Seq(Msg) /\ pushed' \subseteq Rec
      <3>1. dialer \in Node
        BY <2>1, AcceptorIs DEF SessionInv
      <3>2. Listed(dialer, PushLimit) \subseteq Rec
        BY <3>1 DEF Listed, TypeOK
      <3> QED
        BY <1>3, <3>1, <3>2, MessagesAre DEF ListPushes
    <2> QED
      BY <1>3, <2>2 DEF ListPushes, TypeOK
  <1>4. CASE Disconnect
    BY <1>4, HangupType DEF Disconnect, TypeOK
  <1>5. CASE ReaderStep
    <2>1. CASE Hangup
      BY <1>5, <2>1, ReaderDoes, HangupType DEF TypeOK
    <2>2. CASE ~Hangup
      <3>1. /\ UNCHANGED <<Unread, Kept, handled>>
            /\ reader' \in {"header", "body", "stray"} /\ interrupted' \in BOOLEAN
        BY <1>5, <2>2, ReaderDoes
      <3>2. wire' \in Seq(Frame)
        BY <1>5, <2>2, ReaderDoes, CutWire, TailWire DEF TypeOK
      <3> QED
        BY <3>1, <3>2 DEF TypeOK, Kept
    <2> QED
      BY <2>1, <2>2
  <1>7. CASE HandleAnnounce
    <2> DEFINE m == wire[1].msg
    <2>1. ReadBody("announce")
      BY <1>7 DEF HandleAnnounce
    <2>2. InsertAnnouncement(acceptor, <<m.record, dialer>>, ExpiresAt[m.record], m.sig)
      BY <1>7, <2>1, ReadBodyDoes DEF HandleAnnounce
    <2>3. anns' \in [Node -> SUBSET Ann]
      BY <2>1, <2>2, ReadBodyDoes, InsertAnnouncementDoes
    <2> QED
      BY <1>7, <2>1, <2>3, ReadBodyDoes DEF HandleAnnounce, TypeOK
  <1>8. CASE HandlePush
    <2> DEFINE m == wire[1].msg
    <2>1. ReadBody("push") /\ UNCHANGED anns
      BY <1>8 DEF HandlePush
    <2>2. CASE InsertRecord(acceptor, m.record, m.sig) /\ UNCHANGED missed
      <3>1. /\ held' \in [Node -> SUBSET Rec] /\ makers' \in [Rec -> SUBSET Node]
            /\ signer' \in [Node -> [Rec -> Node \cup {NoNode}]]
        BY <2>1, <2>2, ReadBodyDoes, InsertRecordDoes
      <3> QED
        BY <2>1, <2>2, <3>1, ReadBodyDoes DEF TypeOK
    <2>3. CASE Missing(acceptor, {SourceOf[m.record]}) /\ UNCHANGED <<held, signer, makers>>
      <3>1. {SourceOf[m.record]} = {SourceOf[q] : q \in {m.record}}
        OBVIOUS
      <3>2. missed' \subseteq {SourceOf[q] : q \in Rec}
        BY <2>1, <2>3, <3>1, ReadBodyDoes, MissingType
      <3> QED
        BY <2>1, <2>3, <3>2, ReadBodyDoes DEF TypeOK
    <2> QED
      BY <1>8, <2>1, <2>2, <2>3, ReadBodyDoes DEF HandlePush
  <1> QED
    BY <1>1, <1>2, <1>3, <1>4, <1>5, <1>7, <1>8 DEF Read, ReaderStep
-----------------------------------------------------------------------------
(* The frames. *)

\* How many frames the reader has got past.
Passed == Len(sent) - Len(wire)

\* The frames on the wire are the last ones of what was written, the messages
\* handled are some of the ones before, in their order; they are all of them
\* until a read is interrupted in mid-frame.
InOrder ==
    \E place \in [1..Len(handled) -> 1..Passed] :
        /\ \A i \in 1..Len(handled) : handled[i] = sent[place[i]]
        /\ \A i, j \in 1..Len(handled) : i < j => place[i] < place[j]

StreamInv ==
    /\ Len(wire) <= Len(sent)
    /\ \A i \in 1..Len(wire) : wire[i].msg = sent[Passed + i]
    /\ InOrder
    /\ ~interrupted => /\ reader # "stray"
                       /\ \A i \in 1..Len(wire) : wire[i].from = "start"
                       /\ Len(handled) = Passed
                       /\ \A i \in 1..Len(handled) : handled[i] = sent[i]

\* The places of the messages handled are places among more messages.
LEMMA InOrderStays ==
  ASSUME TypeOK, InOrder, Passed \in Nat, Passed' \in Nat, Passed <= Passed', handled' = handled,
         \A i \in 1..Passed : sent'[i] = sent[i]
  PROVE  InOrder'
  <1>1. PICK place \in [1..Len(handled) -> 1..Passed] :
           /\ \A i \in 1..Len(handled) : handled[i] = sent[place[i]]
           /\ \A i, j \in 1..Len(handled) : i < j => place[i] < place[j]
    BY DEF InOrder
  <1>2. place \in [1..Len(handled') -> 1..Passed']
    BY <1>1
  <1>3. \A i \in 1..Len(handled') : handled'[i] = sent'[place[i]]
    BY <1>1
  <1> HIDE DEF Passed
  <1> QED
    BY <1>1, <1>2, <1>3 DEF InOrder

\* What is on the wire and what has passed.
LEMMA PassedType ==
  ASSUME TypeOK, StreamInv
  PROVE  Passed \in Nat /\ Len(wire) \in Nat /\ Len(sent) \in Nat /\ Len(handled) \in Nat
  BY DEF TypeOK, StreamInv, Passed

\* A session that ends leaves an empty stream.
LEMMA HangupStream ==
  ASSUME Hangup
  PROVE  StreamInv' /\ SessionInv'
  <1>1. Len(wire') = 0 /\ Len(sent') = 0 /\ Len(handled') = 0 /\ reader' = "header"
    BY DEF Hangup
  <1>2. InOrder'
    <2> DEFINE none == [i \in 1..Len(handled') |-> 1]
    <2>1. none \in [1..Len(handled') -> 1..Passed'] /\ \A i \in 1..Len(handled') : FALSE
      BY <1>1
    <2> HIDE DEF none
    <2> QED
      BY <2>1 DEF InOrder
  <1> QED
    BY <1>1, <1>2 DEF Hangup, StreamInv, Passed, SessionInv, Connected

\* A frame that is written goes to the end of the stream.
LEMMA SendStream ==
  ASSUME TypeOK, StreamInv, Send
  PROVE  StreamInv'
  <1> DEFINE m == Head(out)
             f == [from |-> "start", msg |-> m]
             W == Len(wire)
             L == Len(sent)
  <1>1. out \in Seq(Msg) /\ out # <<>> /\ wire \in Seq(Frame) /\ sent \in Seq(Msg) /\ handled \in Seq(Msg)
    BY DEF Send, TypeOK
  <1>2. m \in Msg /\ f \in Frame /\ f.msg = m /\ f.from = "start"
    BY <1>1 DEF Frame
  <1>3. W \in Nat /\ L \in Nat /\ Passed \in Nat /\ W <= L /\ Passed = L - W
    BY PassedType DEF StreamInv, Passed
  <1>4. wire' = Append(wire, f) /\ sent' = Append(sent, m) /\ UNCHANGED <<handled, reader, interrupted>>
    BY DEF Send
  <1> HIDE DEF m, f
  <1>5. Len(wire') = W + 1 /\ wire'[W + 1] = f /\ \A i \in 1..W : wire'[i] = wire[i]
    BY <1>1, <1>2, <1>4
  <1>6. Len(sent') = L + 1 /\ sent'[L + 1] = m /\ \A i \in 1..L : sent'[i] = sent[i]
    BY <1>1, <1>2, <1>4
  <1>7. Passed' = Passed
    BY <1>3, <1>5, <1>6 DEF Passed
  <1>8. InOrder'
    <2>1. InOrder /\ \A i \in 1..Passed : sent'[i] = sent[i]
      BY <1>3, <1>6 DEF StreamInv
    <2> QED
      BY <1>3, <1>4, <1>7, <2>1, InOrderStays
  <1> HIDE DEF W, L
  <1>9. ASSUME NEW i \in 1..Len(wire')
        PROVE  wire'[i].msg = sent'[Passed' + i] /\ (~interrupted => wire'[i].from = "start")
    <2>1. CASE i = W + 1
      <3>1. Passed' + i = L + 1
        BY <1>3, <1>7, <2>1
      <3> QED
        BY <1>2, <1>5, <1>6, <2>1, <3>1
    <2>2. CASE i # W + 1
      <3>1. i \in 1..W /\ Passed + i \in 1..L
        BY <1>3, <1>5, <2>2
      <3>2. wire'[i] = wire[i] /\ wire[i].msg = sent[Passed + i] /\ sent'[Passed + i] = sent[Passed + i]
        BY <1>5, <1>6, <3>1 DEF StreamInv, W
      <3>3. ~interrupted => wire[i].from = "start"
        BY <3>1 DEF StreamInv, W
      <3> QED
        BY <1>7, <3>2, <3>3
    <2> QED
      BY <2>1, <2>2
  <1>10. ASSUME ~interrupted, NEW i \in 1..Len(handled)
         PROVE  handled'[i] = sent'[i]
    <2>1. i \in 1..L /\ handled[i] = sent[i]
      BY <1>3, <1>10 DEF StreamInv
    <2> QED
      BY <1>4, <1>6, <2>1
  <1>11. Len(wire') <= Len(sent')
    BY <1>3, <1>5, <1>6
  <1>12. ~interrupted => reader' # "stray" /\ Len(handled') = Passed'
    BY <1>4, <1>7 DEF StreamInv
  <1> QED
    BY <1>4, <1>8, <1>9, <1>10, <1>11, <1>12 DEF StreamInv

\* A body that is read belongs to the next message.
LEMMA BodyStream ==
  ASSUME TypeOK, StreamInv, NEW type, ReadBody(type)
  PROVE  StreamInv'
  <1>1. /\ wire # <<>> /\ wire' = Tail(wire) /\ sent' = sent /\ interrupted' = interrupted
        /\ reader' = "header"
    BY DEF ReadBody
  <1>2. /\ handled \in Seq(Msg) /\ sent \in Seq(Msg) /\ wire[1].msg \in Msg
        /\ handled' = Append(handled, wire[1].msg)
    BY ReadBodyDoes DEF TypeOK
  <1>3. /\ Passed \in Nat /\ Len(wire) \in Nat \ {0} /\ Len(sent) \in Nat /\ Len(handled) \in Nat
        /\ Len(wire') = Len(wire) - 1
        /\ \A i \in 1..Len(wire') : i + 1 \in 1..Len(wire) /\ wire'[i] = wire[i + 1]
    BY <1>1, PassedType, TailWire
  <1>4. Passed' = Passed + 1 /\ Passed + 1 \in 1..Len(sent) /\ wire[1].msg = sent[Passed + 1]
    BY <1>1, <1>3 DEF Passed, StreamInv
  <1> DEFINE H == Len(handled)
  <1>5. /\ Len(handled') = H + 1 /\ handled'[H + 1] = sent[Passed + 1]
        /\ \A i \in 1..H : handled'[i] = handled[i]
    BY <1>2, <1>3, <1>4
  <1> HIDE DEF H, Passed
  <1>6. InOrder'
    <2>1. PICK place \in [1..H -> 1..Passed] :
             /\ \A i \in 1..H : handled[i] = sent[place[i]]
             /\ \A i, j \in 1..H : i < j => place[i] < place[j]
      BY DEF StreamInv, InOrder, H
    <2> DEFINE next == [i \in 1..(H + 1) |-> IF i = H + 1 THEN Passed + 1 ELSE place[i]]
    <2>2. H \in Nat /\ \A i \in 1..(H + 1) : i = H + 1 \/ i \in 1..H
      BY <1>3 DEF H
    <2>3. next[H + 1] = Passed + 1 /\ \A i \in 1..H : next[i] = place[i] /\ place[i] \in 1..Passed
      BY <2>1, <2>2
    <2>4. next \in [1..(H + 1) -> 1..(Passed + 1)]
      BY <1>3, <2>1, <2>2
    <2> HIDE DEF next
    <2>5. ASSUME NEW i \in 1..(H + 1)
          PROVE  handled'[i] = sent'[next[i]]
      BY <1>1, <1>5, <2>1, <2>2, <2>3
    <2>6. ASSUME NEW i \in 1..(H + 1), NEW j \in 1..(H + 1), i < j
          PROVE  next[i] < next[j]
      <3>1. i \in 1..H
        BY <2>2, <2>6
      <3>2. CASE j = H + 1
        BY <1>3, <2>3, <3>1, <3>2
      <3>3. CASE j \in 1..H
        BY <2>1, <2>3, <2>6, <3>1, <3>3
      <3> QED
        BY <2>2, <3>2, <3>3
    <2> QED
      BY <1>4, <1>5, <2>4, <2>5, <2>6 DEF InOrder
  <1>7. ASSUME NEW i \in 1..Len(wire')
        PROVE  wire'[i].msg = sent'[Passed' + i] /\ (~interrupted => wire'[i].from = "start")
    <2>0. i \in Nat
      BY <1>3
    <2>1. i + 1 \in 1..Len(wire) /\ wire'[i] = wire[i + 1]
      BY <1>3
    <2>2. Passed' + i = Passed + (i + 1)
      <3>1. \A p, k \in Nat : (p + 1) + k = p + (k + 1)
        OBVIOUS
      <3> QED
        BY <1>3, <1>4, <2>0, <3>1
    <2> QED
      BY <1>1, <2>1, <2>2 DEF StreamInv
  <1>8. ASSUME ~interrupted
        PROVE  Len(handled') = Passed' /\ \A i \in 1..Len(handled') : handled'[i] = sent'[i]
    <2>1. H = Passed /\ \A i \in 1..H : handled[i] = sent[i]
      BY <1>8 DEF StreamInv, H
    <2>2. \A i \in 1..(H + 1) : i = H + 1 \/ i \in 1..H
      BY <1>3 DEF H
    <2> QED
      BY <1>1, <1>4, <1>5, <2>1, <2>2
  <1>9. Len(wire') <= Len(sent')
    BY <1>1, <1>3 DEF StreamInv
  <1> QED
    BY <1>1, <1>6, <1>7, <1>8, <1>9 DEF StreamInv

\* The other steps of the reader keep the order; once they have consumed a part
\* of a frame a read has been interrupted.
LEMMA ReaderStream ==
  ASSUME TypeOK, StreamInv, ReaderStep, ~Hangup
  PROVE  StreamInv'
  <1>1. UNCHANGED <<sent, handled>>
    BY ReaderDoes DEF Kept
  <1>2. \/ wire' = wire
        \/ wire # <<>> /\ wire' = Tail(wire)
        \/ wire # <<>> /\ \E from \in {"header", "body"} : wire' = Cut(from)
    BY ReaderDoes
  <1>3. Passed \in Nat /\ Len(wire) \in Nat /\ Len(sent) \in Nat
    BY PassedType
  <1>4. /\ Len(wire') \in Nat /\ Len(wire') <= Len(wire)
        /\ \A i \in 1..Len(wire') : i + (Len(wire) - Len(wire')) \in 1..Len(wire)
                                    /\ wire'[i].msg = wire[i + (Len(wire) - Len(wire'))].msg
    <2>1. CASE wire' = wire
      BY <1>3, <2>1
    <2>2. CASE wire # <<>> /\ wire' = Tail(wire)
      <3>1. Len(wire) - Len(wire') = 1
        BY <1>3, <2>2, TailWire
      <3> QED
        BY <1>3, <2>2, <3>1, TailWire
    <2>3. ASSUME wire # <<>>, NEW from \in {"header", "body"}, wire' = Cut(from)
          PROVE  /\ Len(wire') = Len(wire)
                 /\ \A i \in 1..Len(wire) : wire'[i].msg = wire[i].msg
      BY <2>3, CutWire
    <2>4. CASE \E from \in {"header", "body"} : wire # <<>> /\ wire' = Cut(from)
      BY <1>3, <2>3, <2>4
    <2> QED
      BY <1>2, <2>1, <2>2, <2>4
  <1>5. Passed' \in Nat /\ Passed' = Passed + (Len(wire) - Len(wire'))
    BY <1>1, <1>3, <1>4 DEF Passed
  <1>6. InOrder'
    <2>1. Passed <= Passed'
      BY <1>3, <1>4, <1>5
    <2> QED
      BY <1>1, <1>3, <1>5, <2>1, InOrderStays DEF StreamInv
  <1>7. ASSUME NEW i \in 1..Len(wire')
        PROVE  wire'[i].msg = sent'[Passed' + i]
    <2> DEFINE k == i + (Len(wire) - Len(wire'))
    <2>1. k \in 1..Len(wire) /\ wire'[i].msg = wire[k].msg
      BY <1>4
    <2>2. Passed' + i = Passed + k
      BY <1>3, <1>4, <1>5
    <2> HIDE DEF k
    <2> QED
      BY <1>1, <2>1, <2>2 DEF StreamInv
  <1>8. CASE interrupted'
    BY <1>1, <1>3, <1>4, <1>6, <1>7, <1>8 DEF StreamInv
  <1>9. CASE ~interrupted'
    <2>1. ~interrupted /\ wire' = wire /\ reader' = "body"
      <3>1. \/ interrupted' = interrupted /\ reader = "stray"
            \/ interrupted' = interrupted /\ wire # <<>> /\ wire[1].from # "start"
            \/ interrupted' = interrupted /\ wire' = wire /\ reader' = "body"
        BY <1>9, ReaderDoes
      <3>2. ~interrupted => reader # "stray" /\ (wire # <<>> => wire[1].from = "start")
        <4>1. wire # <<>> => 1 \in 1..Len(wire)
          BY DEF TypeOK
        <4> QED
          BY <4>1 DEF StreamInv
      <3> QED
        BY <1>9, <3>1, <3>2
    <2>2. Passed' = Passed
      BY <1>1, <2>1 DEF Passed
    <2> QED
      BY <1>1, <1>6, <1>7, <2>1, <2>2 DEF StreamInv
  <1> QED
    BY <1>8, <1>9

\* Steps that leave the connection alone.
StoreStep ==
    \/ \E n \in Node, r \in Rec : Insert(n, r) \/ Delete(n, r) \/ AnnounceLocal(n, r)
    \/ \E n \in Node : SweepCollect(n) \/ SweepDelete(n)
    \/ Tick

\* They do.
LEMMA StoreStepLeaves ==
  ASSUME StoreStep \/ UNCHANGED vars
  PROVE  UNCHANGED <<dialer, stage, out, wire, reader, interrupted, sent, handled, pushed>>
  BY DEF StoreStep, Insert, Delete, AnnounceLocal, SweepCollect, SweepDelete, Tick, vars

\* A stream that nobody writes to or reads from stays in order.
LEMMA StreamSame ==
  ASSUME StreamInv, wire' = wire, sent' = sent, handled' = handled, reader' = reader,
         interrupted' = interrupted
  PROVE  StreamInv'
  BY DEF StreamInv, InOrder, Passed

\* Every step keeps the stream and the session in order.
LEMMA StreamNext ==
  ASSUME TypeOK, SessionInv, StreamInv, [Next]_vars
  PROVE  StreamInv' /\ SessionInv'
  <1> USE NodeAssumption
  <1>1. UNCHANGED <<wire, sent, handled, reader, interrupted>> => StreamInv'
    BY StreamSame
  <1>2. CASE StoreStep \/ UNCHANGED vars
    BY <1>1, <1>2, StoreStepLeaves DEF SessionInv, Connected
  <1>3. ASSUME NEW n \in Node, Dial(n)
        PROVE  StreamInv' /\ SessionInv'
    BY <1>1, <1>3 DEF Dial, SessionInv, Connected
  <1>4. CASE Send
    BY <1>4, SendStream DEF Send, SessionInv, Connected
  <1>5. CASE ListPushes
    BY <1>1, <1>5 DEF ListPushes, SessionInv, Connected
  <1>6. CASE Disconnect
    BY <1>6, HangupStream DEF Disconnect
  <1>7. CASE ReaderStep
    <2>1. CASE Hangup
      BY <2>1, HangupStream
    <2>2. CASE ~Hangup
      <3>1. UNCHANGED Kept /\ Connected
        BY <1>7, <2>2, ReaderDoes
      <3> QED
        BY <1>7, <2>2, <3>1, ReaderStream DEF Kept, SessionInv, Connected
    <2> QED
      BY <2>1, <2>2
  <1>8. ASSUME NEW type, ReadBody(type)
        PROVE  StreamInv' /\ SessionInv'
    BY <1>8, BodyStream DEF ReadBody, SessionInv, Connected
  <1> QED
    BY <1>2, <1>3, <1>4, <1>5, <1>6, <1>7, <1>8
    DEF Next, StoreStep, Read, ReaderStep, HandleAnnounce, HandlePush

LinkInv == TypeOK /\ SessionInv /\ StreamInv

\* The state starts with its types, without a session.
LEMMA LinkInit == Init => LinkInv
  <1> SUFFICES ASSUME Init
               PROVE  LinkInv
    OBVIOUS
  <1> USE Bounds, RecAssumption, NodeAssumption
  <1>1. SessionInv /\ StreamInv
    <2>1. Len(wire) = 0 /\ Len(sent) = 0 /\ Len(handled) = 0
      BY DEF Init
    <2>2. InOrder
      <3> DEFINE none == [i \in 1..Len(handled) |-> 1]
      <3>1. none \in [1..Len(handled) -> 1..Passed] /\ \A i \in 1..Len(handled) : FALSE
        BY <2>1
      <3> HIDE DEF none
      <3> QED
        BY <3>1 DEF InOrder
    <2> QED
      BY <2>1, <2>2 DEF Init, SessionInv, Connected, StreamInv, Passed
  <1>2. held \in [Node -> SUBSET Rec]
    BY DEF Init
  <1>3. signer \in [Node -> [Rec -> Node \cup {NoNode}]]
    BY DEF Init
  <1>4. anns \in [Node -> SUBSET Ann]
    <2>1. \A r \in Rec : AnnouncedUntil(r) \in Nat
      BY DEF AnnouncedUntil, Init
    <2>2. \A r \in Rec : [key |-> <<r, Local>>, expires_at |-> AnnouncedUntil(r), sig |-> NoNode] \in Ann
      BY <2>1 DEF Ann, Key
    <2>3. \A n \in Node : {[key |-> <<r, Local>>, expires_at |-> AnnouncedUntil(r), sig |-> NoNode] :
                                r \in held[n] \cap CliRecs} \in SUBSET Ann
      BY <1>2, <2>2
    <2> QED
      BY <2>3 DEF Init
  <1>5. makers \in [Rec -> SUBSET Node] /\ sweep \in [Node -> SUBSET Key]
    BY DEF Init
  <1>6. out \in Seq(Msg) /\ wire \in Seq(Frame) /\ sent \in Seq(Msg) /\ handled \in Seq(Msg)
    BY DEF Init
  <1>7. now \in 0..MaxTime /\ requests \in 0..MaxRequests
    BY DEF Init
  <1>8. reader \in {"header", "body", "stray"} /\ interrupted \in BOOLEAN /\ pushed \subseteq Rec /\ missed \subseteq {SourceOf[r] : r \in Rec}
    BY DEF Init
  <1> QED
    BY <1>1, <1>2, <1>3, <1>4, <1>5, <1>6, <1>7, <1>8 DEF Init, TypeOK, LinkInv

\* Every step keeps the types, the session and the stream.
LEMMA LinkNext == LinkInv /\ [Next]_vars => LinkInv'
  <1> SUFFICES ASSUME LinkInv, [Next]_vars
               PROVE  LinkInv'
    OBVIOUS
  <1>1. CASE UNCHANGED vars
    BY <1>1, StreamNext DEF vars, LinkInv, TypeOK
  <1>2. CASE Next
    BY <1>2, StoreTypes, LinkTypes, StreamNext DEF Next, LinkInv
  <1> QED
    BY <1>1, <1>2

\* The stores, the connection and the frames on it are in order.
THEOREM TypeCorrect == Spec => []LinkInv
  BY LinkInit, LinkNext, PTL DEF Spec

\* The accepting side handles messages that were written, in their order and
\* each at most once, whatever reads its timer drops; and none is skipped as
\* long as it drops none in mid-frame.
THEOREM OrderCorrect == Spec => []HandledInOrder
  <1>1. LinkInv => HandledInOrder
    <2> SUFFICES ASSUME LinkInv
                 PROVE  HandledInOrder
      OBVIOUS
    <2>1. /\ handled \in Seq(Msg) /\ sent \in Seq(Msg) /\ wire \in Seq(Frame) /\ Len(wire) <= Len(sent)
      BY DEF LinkInv, TypeOK, StreamInv
    <2>2. DOMAIN handled = 1..Len(handled) /\ DOMAIN sent = 1..Len(sent) /\ Passed <= Len(sent)
      BY <2>1 DEF Passed
    <2>3. PICK place \in [1..Len(handled) -> 1..Passed] :
             /\ \A i \in 1..Len(handled) : handled[i] = sent[place[i]]
             /\ \A i, j \in 1..Len(handled) : i < j => place[i] < place[j]
      BY DEF LinkInv, StreamInv, InOrder
    <2>4. place \in [DOMAIN handled -> DOMAIN sent]
      <3>1. 1..Passed \subseteq 1..Len(sent)
        BY <2>1, <2>2 DEF Passed
      <3> QED
        BY <2>2, <2>3, <3>1
    <2>5. ASSUME ~interrupted
          PROVE  IsPrefix(handled, sent)
      <3>1. Len(handled) = Passed /\ \A i \in 1..Len(handled) : handled[i] = sent[i]
        BY <2>5 DEF LinkInv, StreamInv
      <3>2. Len(handled) <= Len(sent) /\ SubSeq(handled, 1, Len(handled)) = SubSeq(sent, 1, Len(handled))
        BY <2>1, <2>2, <3>1
      <3> QED
        BY <2>1, <3>2 DEF IsPrefix
    <2> QED
      BY <2>2, <2>3, <2>4, <2>5 DEF HandledInOrder
  <1> QED
    BY <1>1, TypeCorrect, PTL
-----------------------------------------------------------------------------
(* The signatures. *)

\* A message carries the signature of a maker of its record, or none.
Signed(m) == m.sig \in makers[m.record] \cup {NoNode}

SigInv ==
    /\ SignedByMaker
    /\ \A i \in 1..Len(out) : Signed(out[i])
    /\ \A i \in 1..Len(wire) : Signed(wire[i].msg)

\* An insert of a record with such a signature keeps it so.
LEMMA InsertSigned ==
  ASSUME TypeOK, SigInv, NEW n \in Node, NEW r \in Rec, NEW sig \in Node \cup {NoNode},
         sig \in makers[r] \cup {NoNode}, InsertRecord(n, r, sig)
  PROVE  SignedByMaker' /\ \A q \in Rec : makers[q] \subseteq makers'[q]
  <1>1. \A q \in Rec : makers[q] \subseteq makers'[q]
    BY InsertRecordDoes
  <1>2. ASSUME NEW m \in Node, NEW q \in held'[m]
        PROVE  signer'[m][q] \in makers'[q] \cup {NoNode}
    <2>1. q \in Rec
      BY InsertRecordDoes
    <2>2. CASE q \in held[m] /\ signer'[m][q] = signer[m][q]
      BY <1>1, <2>1, <2>2 DEF SigInv, SignedByMaker
    <2>3. CASE m = n /\ q = r /\ signer'[m][q] = Signature(n, sig) /\ (sig = NoNode => n \in makers'[r])
      BY <1>1, <2>3 DEF Signature
    <2> QED
      BY <2>2, <2>3, InsertRecordDoes
  <1> QED
    BY <1>1, <1>2 DEF SignedByMaker

\* The messages keep their makers when there are more makers.
LEMMA MessagesSigned ==
  ASSUME TypeOK, SigInv, \A q \in Rec : makers[q] \subseteq makers'[q]
  PROVE  /\ \A i \in 1..Len(out) : Signed(out[i]) /\ out[i].sig \in makers'[out[i].record] \cup {NoNode}
         /\ \A i \in 1..Len(wire) : wire[i].msg.sig \in makers'[wire[i].msg.record] \cup {NoNode}
  <1>1. \A i \in 1..Len(out) : out[i].record \in Rec
    <2>1. \A i \in 1..Len(out) : out[i] \in Msg
      BY DEF TypeOK
    <2> QED
      BY <2>1 DEF Msg
  <1>2. \A i \in 1..Len(wire) : wire[i].msg.record \in Rec
    <2>1. \A i \in 1..Len(wire) : wire[i] \in Frame
      BY DEF TypeOK
    <2>2. \A i \in 1..Len(wire) : wire[i].msg \in Msg
      BY <2>1 DEF Frame
    <2> QED
      BY <2>2 DEF Msg
  <1> QED
    BY <1>1, <1>2 DEF SigInv, Signed

\* Every step keeps the signatures.
LEMMA SigNext ==
  ASSUME LinkInv, SigInv, [Next]_vars
  PROVE  SigInv'
  <1> USE NodeAssumption, Bounds
  <1> TypeOK
    BY DEF LinkInv
  <1>1. ASSUME NEW n \in Node, NEW r \in Rec, Insert(n, r)
        PROVE  SigInv'
    <2>1. SignedByMaker' /\ \A q \in Rec : makers[q] \subseteq makers'[q]
      BY <1>1, InsertSigned DEF Insert
    <2>2. out' = out /\ wire' = wire
      BY <1>1 DEF Insert
    <2> QED
      BY <2>1, <2>2, MessagesSigned DEF SigInv, Signed
  <1>2. ASSUME UNCHANGED <<makers, out, wire>>,
               \A n \in Node : \A r \in held'[n] : r \in held[n] /\ signer'[n][r] = signer[n][r]
        PROVE  SigInv'
    BY <1>2 DEF SigInv, SignedByMaker, Signed
  <1>3. ASSUME NEW n \in Node, NEW r \in Rec, Delete(n, r)
        PROVE  SigInv'
    BY <1>2, <1>3 DEF Delete, TypeOK
  <1>4. ASSUME NEW n \in Node, SweepCollect(n)
        PROVE  SigInv'
    <2>1. UNCHANGED <<makers, out, wire>>
      BY <1>4 DEF SweepCollect
    <2>2. ASSUME NEW m \in Node, NEW r \in held'[m]
          PROVE  r \in held[m] /\ signer'[m][r] = signer[m][r]
      BY <1>4, <2>2 DEF SweepCollect, TypeOK
    <2> QED
      BY <1>2, <2>1, <2>2
  <1>5. ASSUME UNCHANGED <<held, signer, makers>>,
               \A i \in 1..Len(out') : Signed(out'[i]), \A i \in 1..Len(wire') : Signed(wire'[i].msg)
        PROVE  SigInv'
    BY <1>5 DEF SigInv, SignedByMaker, Signed
  <1>6. CASE \/ \E n \in Node, r \in Rec : AnnounceLocal(n, r)
             \/ \E n \in Node : SweepDelete(n)
             \/ Tick \/ UNCHANGED vars
    BY <1>5, <1>6 DEF AnnounceLocal, SweepDelete, Tick, vars, SigInv
  <1>7. ASSUME NEW n \in Node, NEW limit \in Nat, NEW type \in {"announce", "push"},
               out' = Messages(n, type, limit), UNCHANGED <<held, signer, makers, wire>>
        PROVE  SigInv'
    <2>1. \A i \in 1..Len(out') : Signed(out'[i])
      BY <1>7, MessagesAre DEF SigInv, SignedByMaker, Signed
    <2> QED
      BY <1>5, <1>7, <2>1 DEF SigInv
  <1>8. ASSUME NEW n \in Node, Dial(n)
        PROVE  SigInv'
    BY <1>7, <1>8 DEF Dial
  <1>9. CASE ListPushes
    <2>1. dialer \in Node
      BY <1>9, AcceptorIs DEF ListPushes, LinkInv, SessionInv
    <2> QED
      BY <1>7, <1>9, <2>1 DEF ListPushes
  <1>10. CASE Send
    <2> DEFINE f == [from |-> "start", msg |-> Head(out)]
    <2>1. out \in Seq(Msg) /\ out # <<>> /\ wire \in Seq(Frame)
      BY <1>10 DEF Send, TypeOK
    <2>2. Head(out) = out[1] /\ Head(out) \in Msg /\ 1 \in 1..Len(out) /\ f \in Frame
      BY <2>1 DEF Frame
    <2>3. Signed(f.msg)
      BY <2>2 DEF SigInv
    <2>4. out' = Tail(out) /\ wire' = Append(wire, f) /\ UNCHANGED <<held, signer, makers>>
      BY <1>10 DEF Send
    <2> HIDE DEF f
    <2>5. \A i \in 1..Len(out') : Signed(out'[i])
      BY <2>1, <2>4 DEF SigInv
    <2>6. \A i \in 1..Len(wire') : (i \in 1..Len(wire) /\ wire'[i] = wire[i]) \/ wire'[i] = f
      BY <2>1, <2>2, <2>4
    <2>7. \A i \in 1..Len(wire') : Signed(wire'[i].msg)
      BY <2>3, <2>6 DEF SigInv
    <2> QED
      BY <1>5, <2>4, <2>5, <2>7
  <1>11. ASSUME Hangup, UNCHANGED <<held, signer, makers>>
         PROVE  SigInv'
    <2>1. Len(out') = 0 /\ Len(wire') = 0
      BY <1>11 DEF Hangup
    <2> QED
      BY <1>5, <1>11, <2>1
  <1>12. wire # <<>> /\ wire' = Tail(wire) => \A i \in 1..Len(wire') : Signed(wire'[i].msg)
    BY DEF TypeOK, SigInv
  <1>13. CASE ReaderStep
    <2>1. CASE Hangup
      BY <1>11, <1>13, <2>1, ReaderDoes
    <2>2. CASE ~Hangup
      <3>1. UNCHANGED <<held, signer, makers, out>>
        BY <1>13, <2>2, ReaderDoes DEF Kept
      <3>2. ASSUME wire # <<>>, NEW from \in {"header", "body"}, wire' = Cut(from)
            PROVE  \A i \in 1..Len(wire') : Signed(wire'[i].msg)
        BY <3>2, CutWire DEF SigInv
      <3>3. \A i \in 1..Len(wire') : Signed(wire'[i].msg)
        BY <1>12, <1>13, <2>2, <3>2, ReaderDoes DEF SigInv
      <3> QED
        BY <1>5, <3>1, <3>3 DEF SigInv
    <2> QED
      BY <2>1, <2>2
  <1>14. CASE HandleAnnounce
    BY <1>5, <1>12, <1>14 DEF HandleAnnounce, ReadBody, SigInv
  <1>15. CASE HandlePush
    <2> DEFINE m == wire[1].msg
    <2>1. ReadBody("push") /\ wire' = Tail(wire) /\ wire # <<>> /\ out' = out
      BY <1>15 DEF HandlePush, ReadBody
    <2>2. m.sig \in makers[m.record] \cup {NoNode}
      BY <2>1, ReadBodyDoes DEF SigInv, Signed
    <2>3. CASE InsertRecord(acceptor, m.record, m.sig)
      <3>1. SignedByMaker' /\ \A q \in Rec : makers[q] \subseteq makers'[q]
        BY <2>1, <2>2, <2>3, ReadBodyDoes, InsertSigned
      <3>2. \A i \in 1..Len(wire') : i + 1 \in 1..Len(wire) /\ wire'[i] = wire[i + 1]
        BY <2>1 DEF TypeOK
      <3> QED
        BY <2>1, <3>1, <3>2, MessagesSigned DEF SigInv, Signed
    <2>4. CASE UNCHANGED <<held, signer, makers>>
      BY <1>5, <1>12, <2>1, <2>4 DEF SigInv
    <2> QED
      BY <1>15, <2>1, <2>3, <2>4, ReadBodyDoes DEF HandlePush
  <1>16. CASE Disconnect
    BY <1>11, <1>16 DEF Disconnect
  <1> QED
    BY <1>1, <1>3, <1>4, <1>6, <1>8, <1>9, <1>10, <1>13, <1>14, <1>15, <1>16 DEF Next, Read, ReaderStep

\* However often a record is pushed on, its signature is a maker's.
THEOREM SignatureCorrect == Spec => []SignedByMaker
  <1>1. Init => SigInv
    BY DEF Init, SigInv, SignedByMaker
  <1>2. LinkInv /\ SigInv /\ [Next]_vars => SigInv'
    BY SigNext
  <1>3. SigInv => SignedByMaker
    BY DEF SigInv
  <1> QED
    BY <1>1, <1>2, <1>3, TypeCorrect, PTL DEF Spec
-----------------------------------------------------------------------------
(* The delivery. *)

\* What a message is for has been done, and has not been undone.
Done(m) == (m.type = "push" => Covered(m.record)) /\ (m.type = "announce" => Known(m.record))

\* A record to push is a message to send or one that was sent.
Listing ==
    stage = "pushing" => \A r \in pushed :
        \/ \E i \in 1..Len(out) : out[i].type = "push" /\ out[i].record = r
        \/ \E i \in 1..Len(sent) : sent[i].type = "push" /\ sent[i].record = r

\* No announcement expires before its record, so that a sweep collects only keys
\* of records that have expired, also when the announcement is new by the time
\* it is removed.
AnnInv ==
    /\ \A n \in Node : \A a \in anns[n] : a.expires_at >= ExpiresAt[a.key[1]]
    /\ \A n \in Node : \A k \in sweep[n] : ExpiresAt[k[1]] < now

HandledDone ==
    Connected => \A m \in Msg : (\E i \in 1..Len(handled) : handled[i] = m) => Done(m)

DeliverInv == AnnInv /\ HandledDone /\ Listing

\* While the session lasts, the acceptor is the same node.
LEMMA SameAcceptor ==
  ASSUME dialer' = dialer
  PROVE  acceptor' = acceptor
  BY DEF acceptor

\* A record that is covered stays covered.
LEMMA CoveredStays ==
  ASSUME LinkInv, Connected, Next, dialer' = dialer, NEW r \in Rec, Covered(r)
  PROVE  Covered(r)'
  <1> USE RecAssumption, NodeAssumption
  <1>0. TypeOK /\ acceptor \in Node /\ acceptor' = acceptor /\ dialer # NoNode
    BY AcceptorIs, SameAcceptor DEF LinkInv, Connected
  <1>1. ASSUME missed \subseteq missed',
               \A q \in held[acceptor] :
                  \/ q \in held'[acceptor] \/ SourceOf[q] \in missed'
                  \/ \E p \in held'[acceptor] : SourceOf[q] = SourceOf[p] /\ CreatedAt[p] >= CreatedAt[q],
               held' \in [Node -> SUBSET Rec]
        PROVE  Covered(r)'
    <2>1. CASE SourceOf[r] \in missed
      BY <1>1, <2>1 DEF Covered, SameSource
    <2>2. CASE SourceOf[r] \notin missed
      <3>1. PICK q \in held[acceptor] : SourceOf[q] = SourceOf[r] /\ CreatedAt[q] >= CreatedAt[r]
        BY <2>2 DEF Covered, SameSource
      <3>2. q \in Rec
        BY <1>0 DEF TypeOK
      <3>3. CASE q \in held'[acceptor] \/ SourceOf[q] \in missed'
        BY <1>0, <3>1, <3>3 DEF Covered, SameSource
      <3>4. ASSUME NEW p \in held'[acceptor], SourceOf[q] = SourceOf[p], CreatedAt[p] >= CreatedAt[q]
            PROVE  Covered(r)'
        <4>1. p \in Rec
          BY <1>0, <1>1
        <4>2. CreatedAt[p] \in Nat /\ CreatedAt[q] \in Nat /\ CreatedAt[r] \in Nat
          BY <3>2, <4>1
        <4>3. CreatedAt[p] >= CreatedAt[r]
          BY <3>1, <3>4, <4>2
        <4> QED
          BY <1>0, <3>1, <3>4, <4>3 DEF Covered, SameSource
      <3> QED
        BY <1>1, <3>3, <3>4
    <2> QED
      BY <2>1, <2>2
  <1>2. UNCHANGED <<held, missed>> => Covered(r)'
    BY <1>0 DEF Covered, SameSource
  <1>3. ASSUME NEW n \in Node, NEW x \in Rec, NEW sig \in Node \cup {NoNode},
               InsertRecord(n, x, sig), UNCHANGED missed
        PROVE  Covered(r)'
    <2>1. held' \in [Node -> SUBSET Rec]
      BY <1>0, <1>3, InsertRecordDoes
    <2>2. CASE n = acceptor
      <3>1. \A q \in held[acceptor] : q \in held'[acceptor] \/ (/\ x \in held'[acceptor]
                                   /\ SourceOf[q] = SourceOf[x] /\ CreatedAt[x] >= CreatedAt[q])
        BY <1>0, <1>3, <2>2, InsertRecordDoes
      <3> QED
        BY <1>1, <1>3, <2>1, <3>1
    <2>3. CASE n # acceptor
      <3>1. held'[acceptor] = held[acceptor]
        BY <1>0, <1>3, <2>3, InsertRecordDoes
      <3> QED
        BY <1>1, <1>3, <2>1, <3>1
    <2> QED
      BY <2>2, <2>3
  <1>4. ASSUME NEW n \in Node, NEW x \in Rec, Insert(n, x)
        PROVE  Covered(r)'
    BY <1>3, <1>4 DEF Insert
  <1>5. ASSUME NEW n \in Node, NEW gone \in SUBSET Rec, NEW T, T = {SourceOf[q] : q \in gone},
               held' = [held EXCEPT ![n] = held[n] \ gone], Missing(n, T)
        PROVE  Covered(r)'
    <2>1. held' \in [Node -> SUBSET Rec] /\ missed \subseteq missed'
      BY <1>0, <1>5 DEF TypeOK, Missing
    <2>2. ASSUME NEW q \in held[acceptor]
          PROVE  q \in held'[acceptor] \/ SourceOf[q] \in missed'
      BY <1>0, <1>5, <2>2 DEF TypeOK, Missing
    <2> QED
      BY <1>1, <2>1, <2>2
  <1>6. ASSUME NEW n \in Node, NEW x \in Rec, Delete(n, x)
        PROVE  Covered(r)'
    <2>1. {SourceOf[x]} = {SourceOf[q] : q \in {x}}
      OBVIOUS
    <2> QED
      BY <1>5, <1>6, <2>1 DEF Delete
  <1>7. ASSUME NEW n \in Node, SweepCollect(n)
        PROVE  Covered(r)'
    <2> DEFINE gone == {q \in held[n] : ExpiresAt[q] > 0 /\ ExpiresAt[q] < now}
    <2>1. gone \in SUBSET Rec
      BY <1>0 DEF TypeOK
    <2>2. held' = [held EXCEPT ![n] = held[n] \ gone] /\ Missing(n, {SourceOf[q] : q \in gone})
      BY <1>7 DEF SweepCollect
    <2> QED
      BY <1>5, <2>1, <2>2
  <1>8. CASE HandlePush
    <2> DEFINE m == wire[1].msg
    <2>1. ReadBody("push") /\ Head(wire) = wire[1]
      BY <1>0, <1>8, ReadBodyDoes DEF HandlePush
    <2>2. CASE InsertRecord(acceptor, m.record, m.sig) /\ UNCHANGED missed
      BY <1>0, <1>3, <2>1, <2>2, ReadBodyDoes
    <2>3. CASE Missing(acceptor, {SourceOf[m.record]}) /\ UNCHANGED held
      <3>1. missed \subseteq missed'
        BY <2>3 DEF Missing
      <3> QED
        BY <1>0, <2>3, <3>1 DEF Covered, SameSource
    <2> QED
      BY <1>8, <2>1, <2>2, <2>3 DEF HandlePush
  <1>9. CASE \/ \E n \in Node, x \in Rec : AnnounceLocal(n, x)
             \/ \E n \in Node : SweepDelete(n) \/ Dial(n)
             \/ Tick \/ Send \/ ListPushes \/ HandleAnnounce
    BY <1>2, <1>9 DEF AnnounceLocal, SweepDelete, Dial, Tick, Send, ListPushes, HandleAnnounce
  <1>10. CASE ReaderStep \/ Disconnect
    BY <1>0, <1>2, <1>10, ReaderDoes DEF Disconnect, Hangup, Kept
  <1> QED
    BY <1>4, <1>6, <1>7, <1>8, <1>9, <1>10 DEF Next, Read, ReaderStep

\* Every step keeps announcements as long as their records.
LEMMA AnnNext ==
  ASSUME LinkInv, AnnInv, [Next]_vars
  PROVE  AnnInv'
  <1>0. TypeOK /\ now \in Nat
    <2>1. TypeOK
      BY DEF LinkInv
    <2> QED
      BY <2>1 DEF TypeOK
  <1>1. ASSUME NEW n \in Node, NEW r \in Rec, NEW h \in Node \cup {Local}, NEW e \in Nat,
               NEW sig \in Node \cup {NoNode}, InsertAnnouncement(n, <<r, h>>, e, sig),
               e >= ExpiresAt[r], UNCHANGED <<now, sweep>>
        PROVE  AnnInv'
    <2>1. \A m \in Node : \A a \in anns'[m] : a \in anns[m] \/ (a.key = <<r, h>> /\ a.expires_at = e)
      <3>1. InsertAnnouncement(n, <<r, h>>, e, sig)
        BY <1>1
      <3> QED
        BY <1>0, <3>1, InsertAnnouncementDoes
    <2> QED
      BY <1>1, <2>1 DEF AnnInv
  <1> USE RecAssumption, Bounds
  <1>2. UNCHANGED <<anns, sweep, now>> => AnnInv'
    BY DEF AnnInv
  <1>3. ASSUME NEW n \in Node, NEW r \in Rec, AnnounceLocal(n, r)
        PROVE  AnnInv'
    <2>1. AnnouncedUntil(r) \in Nat /\ AnnouncedUntil(r) >= ExpiresAt[r]
      BY <1>0 DEF AnnouncedUntil
    <2> QED
      BY <1>1, <1>3, <2>1 DEF AnnounceLocal
  <1>4. CASE HandleAnnounce
    <2> DEFINE m == wire[1].msg
    <2>1. ReadBody("announce") /\ Head(wire) = wire[1]
      BY <1>0, <1>4, ReadBodyDoes DEF HandleAnnounce
    <2>2. InsertAnnouncement(acceptor, <<m.record, dialer>>, ExpiresAt[m.record], m.sig)
      BY <1>4, <2>1 DEF HandleAnnounce
    <2>3. /\ acceptor \in Node /\ dialer \in Node /\ m.record \in Rec /\ m.sig \in Node \cup {NoNode}
          /\ UNCHANGED <<now, sweep>>
      BY <1>0, <2>1, ReadBodyDoes
    <2>4. \A r \in Rec : ExpiresAt[r] \in Nat /\ ExpiresAt[r] >= ExpiresAt[r]
      OBVIOUS
    <2> QED
      BY <1>1, <2>2, <2>3, <2>4
  <1>5. ASSUME NEW n \in Node, SweepCollect(n)
        PROVE  AnnInv'
    <2>1. UNCHANGED <<anns, now>> /\ sweep' = [sweep EXCEPT ![n] = Stale(n)]
      BY <1>5 DEF SweepCollect
    <2>2. ASSUME NEW b \in anns[n], b.expires_at < now
          PROVE  ExpiresAt[b.key[1]] < now
      <3>1. b \in Ann /\ b.expires_at >= ExpiresAt[b.key[1]]
        BY <1>0 DEF TypeOK, AnnInv
      <3>2. b.key \in Key /\ b.expires_at \in Nat
        BY <3>1 DEF Ann
      <3>3. b.key[1] \in Rec
        BY <3>2 DEF Key
      <3>4. ExpiresAt[b.key[1]] \in Nat
        BY <3>3
      <3> QED
        BY <1>0, <2>2, <3>1, <3>2, <3>4
    <2>3. \A k \in Stale(n) : ExpiresAt[k[1]] < now
      BY <2>2 DEF Stale
    <2>4. \A m \in Node : \A k \in sweep'[m] : ExpiresAt[k[1]] < now
      BY <1>0, <2>1, <2>3 DEF AnnInv, TypeOK
    <2> QED
      BY <2>1, <2>4 DEF AnnInv
  <1>6. ASSUME NEW n \in Node, SweepDelete(n)
        PROVE  AnnInv'
    BY <1>0, <1>6 DEF SweepDelete, AnnInv, TypeOK
  <1>7. CASE Tick
    <2>1. \A n \in Node : \A k \in sweep[n] : k[1] \in Rec
      BY <1>0 DEF TypeOK, Key
    <2>2. \A n \in Node : \A k \in sweep[n] : ExpiresAt[k[1]] \in Nat /\ ExpiresAt[k[1]] < now
      BY <2>1 DEF AnnInv
    <2>3. now' = now + 1 /\ UNCHANGED <<anns, sweep>>
      BY <1>7 DEF Tick
    <2> QED
      BY <1>0, <2>2, <2>3 DEF AnnInv
  <1>8. CASE \/ \E n \in Node, r \in Rec : Insert(n, r) \/ Delete(n, r)
             \/ \E n \in Node : Dial(n)
             \/ Send \/ ListPushes \/ Disconnect \/ HandlePush \/ UNCHANGED vars
    BY <1>2, <1>8 DEF Insert, Delete, Dial, Send, ListPushes, Disconnect, HandlePush, ReadBody, vars
  <1>9. CASE ReaderStep
    BY <1>0, <1>2, <1>9, ReaderDoes
  <1> QED
    BY <1>3, <1>4, <1>5, <1>6, <1>7, <1>8, <1>9 DEF Next, Read, ReaderStep

\* An announcement that is known stays known until its record expires, whatever
\* a sweep collected earlier.
LEMMA KnownStays ==
  ASSUME LinkInv, AnnInv, Connected, Next, dialer' = dialer, NEW r \in Rec, Known(r)
  PROVE  Known(r)'
  <1>0. /\ TypeOK /\ now \in Nat /\ ExpiresAt[r] \in Nat
        /\ acceptor \in Node /\ dialer \in Node /\ acceptor' = acceptor
    <2>1. TypeOK
      BY DEF LinkInv
    <2>2. now \in Nat
      BY <2>1 DEF TypeOK
    <2> QED
      BY <2>1, <2>2, AcceptorIs, SameAcceptor, RecAssumption
  <1> USE RecAssumption, Bounds
  <1>1. ASSUME now' = now \/ now' = now + 1,
               ExpiresAt[r] >= now => \A a \in anns[acceptor] : a.key = <<r, dialer>> =>
                   \E b \in anns'[acceptor] : b.key = a.key
        PROVE  Known(r)'
    <2>1. ExpiresAt[r] >= now' => ExpiresAt[r] >= now
      BY <1>0, <1>1
    <2> QED
      BY <1>0, <1>1, <2>1 DEF Known
  <1>2. UNCHANGED <<anns, now>> => Known(r)'
    BY <1>0 DEF Known
  <1>3. ASSUME NEW n \in Node, NEW x \in Rec, NEW h \in Node \cup {Local}, NEW e \in Nat,
               NEW sig \in Node \cup {NoNode}, InsertAnnouncement(n, <<x, h>>, e, sig), UNCHANGED now
        PROVE  Known(r)'
    <2>1. \A m \in Node : \A a \in anns[m] : \E b \in anns'[m] : b.key = a.key
      <3>1. InsertAnnouncement(n, <<x, h>>, e, sig)
        BY <1>3
      <3> QED
        BY <1>0, <3>1, InsertAnnouncementDoes
    <2> QED
      BY <1>0, <1>1, <1>3, <2>1
  <1>4. ASSUME NEW n \in Node, NEW x \in Rec, AnnounceLocal(n, x)
        PROVE  Known(r)'
    <2>1. AnnouncedUntil(x) \in Nat
      BY <1>0 DEF AnnouncedUntil
    <2> QED
      BY <1>3, <1>4, <2>1 DEF AnnounceLocal
  <1>5. CASE HandleAnnounce
    <2> DEFINE m == wire[1].msg
    <2>1. ReadBody("announce") /\ Head(wire) = wire[1]
      BY <1>0, <1>5, ReadBodyDoes DEF HandleAnnounce
    <2>2. InsertAnnouncement(acceptor, <<m.record, dialer>>, ExpiresAt[m.record], m.sig)
      BY <1>5, <2>1 DEF HandleAnnounce
    <2>3. m.record \in Rec /\ m.sig \in Node \cup {NoNode} /\ UNCHANGED now
      BY <1>0, <2>1, ReadBodyDoes
    <2>4. ExpiresAt[m.record] \in Nat
      BY <2>3
    <2> QED
      BY <1>0, <1>3, <2>2, <2>3, <2>4
  <1>6. ASSUME NEW n \in Node, SweepDelete(n)
        PROVE  Known(r)'
    <2>1. now' = now /\ anns' = [anns EXCEPT ![n] = {a \in anns[n] : a.key \notin sweep[n]}]
      BY <1>6 DEF SweepDelete
    <2>2. ASSUME ExpiresAt[r] >= now, NEW a \in anns[acceptor], a.key = <<r, dialer>>
          PROVE  a \in anns'[acceptor]
      <3>1. \A k \in sweep[n] : ExpiresAt[k[1]] < now
        BY DEF AnnInv
      <3>2. a.key \notin sweep[n]
        BY <1>0, <2>2, <3>1
      <3> QED
        BY <1>0, <2>1, <3>2 DEF TypeOK
    <2> QED
      BY <1>1, <2>1, <2>2
  <1>7. CASE Tick
    BY <1>1, <1>7 DEF Tick
  <1>8. CASE \/ \E n \in Node, x \in Rec : Insert(n, x) \/ Delete(n, x)
             \/ \E n \in Node : Dial(n) \/ SweepCollect(n)
             \/ Send \/ ListPushes \/ Disconnect \/ HandlePush
    BY <1>2, <1>8 DEF Insert, Delete, Dial, SweepCollect, Send, ListPushes, Disconnect, HandlePush, ReadBody
  <1>9. CASE ReaderStep
    BY <1>0, <1>2, <1>9, ReaderDoes
  <1> QED
    BY <1>4, <1>5, <1>6, <1>7, <1>8, <1>9 DEF Next, Read, ReaderStep

\* What the handler of a message does is done.
LEMMA HandlerDone ==
  ASSUME LinkInv, NEW m \in Msg, m = wire[1].msg, HandleAnnounce \/ HandlePush
  PROVE  Done(m)'
  <1>0. TypeOK
    BY DEF LinkInv
  <1>1. CASE HandlePush
    <2>1. ReadBody("push") /\ Head(wire) = wire[1]
      BY <1>0, <1>1, ReadBodyDoes DEF HandlePush
    <2>2. /\ m.type = "push" /\ m.record \in Rec /\ m.sig \in Node \cup {NoNode}
          /\ acceptor \in Node /\ acceptor' = acceptor /\ Connected
      BY <1>0, <2>1, ReadBodyDoes
    <2>3. CASE InsertRecord(acceptor, m.record, m.sig)
      <3>1. \E q \in held'[acceptor] : SourceOf[q] = SourceOf[m.record] /\ CreatedAt[q] >= CreatedAt[m.record]
        <4> DEFINE r == m.record
                   x == m.sig
        <4>1. r \in Rec /\ x \in Node \cup {NoNode} /\ InsertRecord(acceptor, r, x) /\ acceptor \in Node
          BY <2>2, <2>3
        <4> HIDE DEF r, x
        <4>2. \E q \in held'[acceptor] : SourceOf[q] = SourceOf[r] /\ CreatedAt[q] >= CreatedAt[r]
          BY <1>0, <4>1, InsertRecordDoes
        <4> QED
          BY <4>2 DEF r
      <3> QED
        BY <2>2, <3>1 DEF Done, Covered, SameSource
    <2>4. CASE Missing(acceptor, {SourceOf[m.record]})
      BY <2>2, <2>4 DEF Missing, Done, Covered
    <2> QED
      BY <1>1, <2>1, <2>3, <2>4 DEF HandlePush
  <1>2. CASE HandleAnnounce
    <2>1. ReadBody("announce") /\ Head(wire) = wire[1]
      BY <1>0, <1>2, ReadBodyDoes DEF HandleAnnounce
    <2>2. /\ m.type = "announce" /\ m.record \in Rec /\ m.sig \in Node \cup {NoNode}
          /\ acceptor \in Node /\ dialer \in Node /\ acceptor' = acceptor /\ dialer' = dialer
      BY <1>0, <2>1, ReadBodyDoes
    <2>3. InsertAnnouncement(acceptor, <<m.record, dialer>>, ExpiresAt[m.record], m.sig)
      BY <1>2, <2>1 DEF HandleAnnounce
    <2>4. PICK n \in Node, h \in Node \cup {Local}, r \in Rec, sig \in Node \cup {NoNode}, e \in Nat :
             n = acceptor /\ h = dialer /\ r = m.record /\ sig = m.sig /\ e = ExpiresAt[m.record]
      BY <2>2, RecAssumption
    <2>5. InsertAnnouncement(n, <<r, h>>, e, sig)
      BY <2>3, <2>4
    <2>6. Base[r] + SigSize <= MaxAnnSize => \E a \in anns'[n] : a.key = <<r, h>>
      <3> DEFINE new == [key |-> <<r, h>>, expires_at |-> e, sig |-> Signature(n, sig)]
      <3>1. Fits(r, Signature(n, sig)) <=> Base[r] + SigSize <= MaxAnnSize
        BY NodeAssumption DEF Fits, Signature
      <3>2. Base[r] + SigSize <= MaxAnnSize =>
              anns' = [anns EXCEPT ![n] = {a \in anns[n] : a.key # <<r, h>>} \cup {new}]
        BY <2>5, <3>1 DEF InsertAnnouncement
      <3>3. new.key = <<r, h>>
        OBVIOUS
      <3> QED
        BY <1>0, <3>2, <3>3 DEF TypeOK
    <2> QED
      BY <2>2, <2>4, <2>6 DEF Done, Known
  <1> QED
    BY <1>1, <1>2

\* What has been handled is done and stays done.
LEMMA HandledNext ==
  ASSUME LinkInv, AnnInv, HandledDone, [Next]_vars
  PROVE  HandledDone'
  <1>0. TypeOK /\ SessionInv
    BY DEF LinkInv
  <1>1. CASE UNCHANGED vars
    <2>1. UNCHANGED <<dialer, handled, missed, held, anns, now>>
      BY <1>1 DEF vars
    <2>2. acceptor' = acceptor
      BY <2>1, SameAcceptor
    <2> QED
      BY <2>1, <2>2 DEF HandledDone, Connected, Done, Covered, SameSource, Known
  <1>2. ASSUME Next, Connected, dialer' = dialer
        PROVE  HandledDone'
    <2>1. ASSUME NEW m \in Msg, Done(m)
          PROVE  Done(m)'
      <3>1. m.record \in Rec
        BY DEF Msg
      <3>2. Covered(m.record) => Covered(m.record)'
        BY <1>2, <3>1, CoveredStays
      <3>3. Known(m.record) => Known(m.record)'
        BY <1>2, <3>1, KnownStays
      <3> QED
        BY <2>1, <3>2, <3>3 DEF Done
    <2>2. CASE handled' = handled
      BY <1>2, <2>1, <2>2 DEF HandledDone
    <2>3. CASE HandleAnnounce \/ HandlePush
      <3>1. PICK m \in Msg : m = wire[1].msg
        BY <1>0, <2>3, ReadBodyDoes DEF HandleAnnounce, HandlePush
      <3>2. handled' = Append(handled, m) /\ handled \in Seq(Msg)
        BY <1>0, <2>3, <3>1, ReadBodyDoes DEF HandleAnnounce, HandlePush, TypeOK
      <3>3. Done(m)'
        BY <2>3, <3>1, HandlerDone
      <3>4. \A i \in 1..Len(handled') : (i \in 1..Len(handled) /\ handled'[i] = handled[i]) \/ handled'[i] = m
        BY <3>2
      <3> QED
        BY <1>2, <2>1, <3>3, <3>4 DEF HandledDone
    <2>4. handled' = handled \/ dialer' = NoNode \/ HandleAnnounce \/ HandlePush
      <3>1. ReaderStep => handled' = handled \/ dialer' = NoNode
        BY <1>0, ReaderDoes DEF Hangup
      <3> QED
        BY <1>2, <3>1 DEF Next, Insert, Delete, AnnounceLocal, SweepCollect, SweepDelete, Dial, Tick, Send,
                          ListPushes, Disconnect, Hangup, Read, ReaderStep
    <2> QED
      BY <1>2, <2>2, <2>3, <2>4 DEF Connected
  <1>3. ASSUME Next, ~Connected
        PROVE  HandledDone'
    <2>1. handled = <<>>
      BY <1>0, <1>3 DEF SessionInv
    <2>2. handled' = <<>>
      <3>1. ~ReaderStep
        BY <1>0, <1>3, ReaderDoes
      <3> QED
        BY <1>3, <2>1, <3>1 DEF Next, Insert, Delete, AnnounceLocal, SweepCollect, SweepDelete, Dial, Tick, Send,
                  ListPushes, Disconnect, Hangup, Read, ReaderStep, HandleAnnounce, HandlePush, ReadBody
    <2> QED
      BY <2>2 DEF HandledDone
  <1>4. Next => dialer' = dialer \/ ~Connected \/ ~Connected'
    <2>1. ReaderStep => dialer' = dialer \/ ~Connected'
      BY <1>0, ReaderDoes DEF Hangup, Connected, Kept
    <2> QED
      BY <2>1 DEF Next, Insert, Delete, AnnounceLocal, SweepCollect, SweepDelete, Dial, Tick, Send, ListPushes,
             Connected, Disconnect, Hangup, Read, ReaderStep, HandleAnnounce, HandlePush, ReadBody
  <1> QED
    BY <1>1, <1>2, <1>3, <1>4 DEF HandledDone

\* A record to push is not forgotten.
LEMMA ListingNext ==
  ASSUME LinkInv, Listing, [Next]_vars
  PROVE  Listing'
  <1> USE Bounds
  <1>0. TypeOK
    BY DEF LinkInv
  <1>1. UNCHANGED <<stage, pushed, out, sent>> => Listing'
    BY DEF Listing
  <1>2. stage' # "pushing" => Listing'
    BY DEF Listing
  <1>3. CASE ListPushes
    <2>1. dialer \in Node
      BY <1>0, <1>3, AcceptorIs DEF ListPushes, LinkInv, SessionInv
    <2>2. \A r \in pushed' : \E i \in 1..Len(out') : out'[i].type = "push" /\ out'[i].record = r
      BY <1>0, <1>3, <2>1, MessagesAre DEF ListPushes
    <2> QED
      BY <2>2 DEF Listing
  <1>4. CASE Send
    <2>1. /\ out \in Seq(Msg) /\ out # <<>> /\ sent \in Seq(Msg)
          /\ out' = Tail(out) /\ sent' = Append(sent, out[1])
          /\ UNCHANGED <<stage, pushed>>
      BY <1>0, <1>4 DEF Send, TypeOK
    <2>2. /\ Len(sent) + 1 \in 1..Len(sent') /\ sent'[Len(sent) + 1] = out[1]
          /\ \A i \in 1..Len(sent) : i \in 1..Len(sent') /\ sent'[i] = sent[i]
      BY <2>1
    <2>3. \A i \in 1..Len(out) : i = 1 \/ (i - 1 \in 1..Len(out') /\ out'[i - 1] = out[i])
      BY <2>1
    <2>4. ASSUME NEW r \in pushed, stage = "pushing"
          PROVE  \/ \E i \in 1..Len(out') : out'[i].type = "push" /\ out'[i].record = r
                 \/ \E i \in 1..Len(sent') : sent'[i].type = "push" /\ sent'[i].record = r
      <3>1. CASE \E i \in 1..Len(sent) : sent[i].type = "push" /\ sent[i].record = r
        BY <2>2, <3>1
      <3>2. CASE \E i \in 1..Len(out) : out[i].type = "push" /\ out[i].record = r
        <4>1. PICK i \in 1..Len(out) : out[i].type = "push" /\ out[i].record = r
          BY <3>2
        <4>2. CASE i = 1
          BY <2>2, <4>1, <4>2
        <4>3. CASE i # 1
          <5>1. i - 1 \in 1..Len(out') /\ out'[i - 1] = out[i]
            BY <2>3, <4>3
          <5> QED
            BY <4>1, <5>1
        <4> QED
          BY <4>2, <4>3
      <3> QED
        BY <2>4, <3>1, <3>2 DEF Listing
    <2> QED
      BY <2>1, <2>4 DEF Listing
  <1>5. CASE ReaderStep \/ Disconnect
    BY <1>0, <1>1, <1>2, <1>5, ReaderDoes DEF Disconnect, Hangup, Kept
  <1>6. ASSUME NEW n \in Node, Dial(n)
        PROVE  Listing'
    BY <1>2, <1>6 DEF Dial
  <1>7. CASE \/ \E n \in Node, r \in Rec : Insert(n, r) \/ Delete(n, r) \/ AnnounceLocal(n, r)
             \/ \E n \in Node : SweepCollect(n) \/ SweepDelete(n)
             \/ Tick \/ HandleAnnounce \/ HandlePush \/ UNCHANGED vars
    BY <1>1, <1>7 DEF Insert, Delete, AnnounceLocal, SweepCollect, SweepDelete, Tick, HandleAnnounce, HandlePush,
                      ReadBody, vars
  <1> QED
    BY <1>3, <1>4, <1>5, <1>6, <1>7 DEF Next, Read, ReaderStep

\* When everything written has been read and no read was interrupted, everything
\* written has been handled.
LEMMA DrainedHandled ==
  ASSUME LinkInv, Drained, ~interrupted
  PROVE  handled = sent /\ Len(sent) \in Nat /\ \A i \in 1..Len(sent) : sent[i] \in Msg
  <1>1. wire = <<>> /\ handled \in Seq(Msg) /\ sent \in Seq(Msg)
    BY DEF Drained, LinkInv, TypeOK
  <1>2. Len(handled) = Len(sent) /\ \A i \in 1..Len(handled) : handled[i] = sent[i]
    BY <1>1 DEF LinkInv, StreamInv, Passed
  <1>3. handled = [i \in 1..Len(sent) |-> handled[i]] /\ sent = [i \in 1..Len(sent) |-> sent[i]]
    BY <1>1, <1>2
  <1> QED
    BY <1>1, <1>2, <1>3

\* What a handled message brought is there, whatever either store did meanwhile;
\* when a session through which no read was interrupted is drained, that is all
\* that was announced and all that was listed to be pushed.
THEOREM DeliveryCorrect == Spec => []Delivered
  <1>1. Init => DeliverInv
    <2> SUFFICES ASSUME Init
                 PROVE  DeliverInv
      OBVIOUS
    <2>1. ASSUME NEW n \in Node, NEW a \in anns[n]
          PROVE  a.expires_at >= ExpiresAt[a.key[1]]
      <3>1. PICK r \in held[n] \cap CliRecs :
              a = [key |-> <<r, Local>>, expires_at |-> AnnouncedUntil(r), sig |-> NoNode]
        BY DEF Init
      <3>2. r \in Rec
        BY NodeAssumption
      <3>3. AnnouncedUntil(r) >= ExpiresAt[r]
        BY <3>2, RecAssumption, Bounds DEF Init, AnnouncedUntil
      <3> QED
        BY <3>1, <3>3
    <2>2. AnnInv
      BY <2>1 DEF Init, AnnInv
    <2>3. HandledDone /\ Listing
      BY DEF Init, HandledDone, Connected, Listing
    <2> QED
      BY <2>2, <2>3 DEF DeliverInv
  <1>2. LinkInv /\ DeliverInv /\ [Next]_vars => DeliverInv'
    BY AnnNext, HandledNext, ListingNext DEF DeliverInv
  <1>3. LinkInv /\ DeliverInv => Delivered
    <2> SUFFICES ASSUME LinkInv, DeliverInv
                 PROVE  Delivered
      OBVIOUS
    <2>1. handled \in Seq(Msg) /\ DOMAIN handled = 1..Len(handled) /\ \A i \in 1..Len(handled) : handled[i] \in Msg
      BY DEF LinkInv, TypeOK
    <2>2. \A i \in 1..Len(handled) : Done(handled[i])
      <3>1. CASE Connected
        BY <2>1, <3>1 DEF DeliverInv, HandledDone
      <3>2. CASE ~Connected
        <4>1. Len(handled) = 0
          BY <3>2 DEF LinkInv, SessionInv
        <4> QED
          BY <4>1
      <3> QED
        BY <3>1, <3>2
    <2>3. \A i \in 1..Len(handled) : handled[i].type \in {"announce", "push"}
      BY <2>1 DEF Msg
    <2>4. ASSUME Drained, ~interrupted
          PROVE  handled = sent /\ \A r \in pushed : Covered(r)
      <3>1. handled = sent
        BY <2>4, DrainedHandled
      <3>2. ASSUME NEW r \in pushed
            PROVE  Covered(r)
        <4>1. PICK i \in 1..Len(sent) : sent[i].type = "push" /\ sent[i].record = r
          BY <2>4 DEF Drained, DeliverInv, Listing
        <4> QED
          BY <2>2, <3>1, <4>1 DEF Done
      <3> QED
        BY <3>1, <3>2
    <2> QED
      BY <2>1, <2>2, <2>3, <2>4 DEF Delivered, Done
  <1> QED
    BY <1>1, <1>2, <1>3, TypeCorrect, PTL DEF Spec
=============================================================================
