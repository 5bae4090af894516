-------------------------- MODULE SchedulerProofs --------------------------
(***************************************************************************)
(* Proofs about Scheduler, for any job lists, also with jobs of one name,  *)
(* any intervals and any number of edits: after a reload the scheduler's   *)
(* list has the names and parameters of the configuration, and a "once"    *)
(* job that ran does not start again.                                      *)
(***************************************************************************)
EXTENDS Scheduler, FiniteSetTheorems, TLAPS

(* Subsequences. *)

\* How many positions of K come before r.
Rank(K, r) == Cardinality({q \in K : q < r})

\* A rank is a number below the size of the set.
LEMMA RankType ==
  ASSUME NEW S \in SUBSET Nat, IsFiniteSet(S), NEW r \in S
  PROVE  Rank(S, r) \in 0..(Cardinality(S) - 1) /\ Cardinality(S) \in Nat
  <1> DEFINE below == {q \in S : q < r}
  <1>1. below \in SUBSET S /\ below # S
    OBVIOUS
  <1>2. /\ Cardinality(below) <= Cardinality(S) /\ Cardinality(below) # Cardinality(S)
        /\ Cardinality(below) \in Nat /\ Cardinality(S) \in Nat
    BY <1>1, FS_Subset, FS_CardinalityType
  <1> QED
    BY <1>2 DEF Rank

\* Smaller positions have smaller ranks.
LEMMA RankOrder ==
  ASSUME NEW S \in SUBSET Nat, IsFiniteSet(S), NEW q \in S, NEW r \in S, q < r
  PROVE  Rank(S, q) < Rank(S, r)
  <1> DEFINE A == {p \in S : p < q}
             B == {p \in S : p < r}
  <1>1. A \in SUBSET B /\ A # B /\ B \in SUBSET S
    <2>1. q \in B /\ q \notin A
      OBVIOUS
    <2>2. ASSUME NEW p \in A
          PROVE  p \in B
      <3>1. p \in Nat /\ q \in Nat /\ r \in Nat /\ p < q
        OBVIOUS
      <3> QED
        BY <3>1
    <2> QED
      BY <2>1, <2>2
  <1>2. IsFiniteSet(B)
    BY <1>1, FS_Subset
  <1>3. /\ Cardinality(A) <= Cardinality(B) /\ Cardinality(A) # Cardinality(B)
        /\ Cardinality(A) \in Nat /\ Cardinality(B) \in Nat
    BY <1>1, <1>2, FS_Subset, FS_CardinalityType
  <1> QED
    BY <1>3 DEF Rank

\* Every rank is taken.
LEMMA RankOnto ==
  ASSUME NEW S \in SUBSET Nat, IsFiniteSet(S), NEW k \in 0..(Cardinality(S) - 1)
  PROVE  \E r \in S : Rank(S, r) = k
  <1> DEFINE T == 0..(Cardinality(S) - 1)
             f == [r \in S |-> Rank(S, r)]
  <1>1. Cardinality(S) \in Nat
    BY FS_CardinalityType
  <1>2. IsFiniteSet(T) /\ Cardinality(T) = Cardinality(S)
    BY <1>1, FS_Interval
  <1>3. f \in [S -> T]
    BY RankType
  <1>4. \A q, r \in S : f[q] = f[r] => q = r
    <2> SUFFICES ASSUME NEW q \in S, NEW r \in S, q # r
                 PROVE  f[q] # f[r]
      OBVIOUS
    <2>1. Rank(S, q) \in Nat /\ Rank(S, r) \in Nat
      BY <1>1, RankType
    <2>2. q < r \/ r < q
      OBVIOUS
    <2> QED
      BY <2>1, <2>2, RankOrder
  <1>5. f \in Injection(S, T)
    BY <1>3, <1>4 DEF Injection, IsInjective
  <1>6. f \in Surjection(S, T)
    BY <1>2, <1>5, FS_Injection
  <1> QED
    BY <1>6 DEF Surjection

\* A subsequence has one element for each of its positions.
LEMMA SubsequenceIs ==
  ASSUME NEW X, NEW s \in Seq(X), NEW K \in SUBSET DOMAIN s, NEW t, t = Subsequence(s, K)
  PROVE  /\ t \in Seq(X)
         /\ \A i \in DOMAIN t : \E k \in K : t[i] = s[k]
         /\ \A k \in K : \E i \in DOMAIN t : t[i] = s[k]
         /\ \A i, j \in DOMAIN t : i # j => \E k, l \in K : k # l /\ t[i] = s[k] /\ t[j] = s[l]
         /\ \A k, l \in K : k # l => \E i, j \in DOMAIN t : i # j /\ t[i] = s[k] /\ t[j] = s[l]
  <1>1. /\ DOMAIN s = 1..Len(s) /\ Len(s) \in Nat
        /\ K \in SUBSET Nat /\ IsFiniteSet(K) /\ Cardinality(K) \in Nat
    <2>1. DOMAIN s = 1..Len(s) /\ Len(s) \in Nat
      OBVIOUS
    <2>2. IsFiniteSet(DOMAIN s)
      BY <2>1, FS_Interval
    <2>3. IsFiniteSet(K) /\ Cardinality(K) \in Nat
      BY <2>2, FS_Subset, FS_CardinalityType
    <2> QED
      BY <2>1, <2>3
  <1> DEFINE n    == Cardinality(K)
             h(i) == CHOOSE k \in K : Rank(K, k) = i - 1
  <1>2. t = [i \in 1..n |-> s[h(i)]]
    BY DEF Subsequence, Rank
  <1>3. \A i \in 1..n : h(i) \in K /\ Rank(K, h(i)) = i - 1
    <2> SUFFICES ASSUME NEW i \in 1..n
                 PROVE  \E k \in K : Rank(K, k) = i - 1
      OBVIOUS
    <2>1. i - 1 \in 0..(n - 1)
      BY <1>1
    <2> QED
      BY <1>1, <2>1, RankOnto
  <1> HIDE DEF h, n
  <1>4. DOMAIN t = 1..n /\ \A i \in 1..n : t[i] = s[h(i)]
    BY <1>2
  <1>5. t \in Seq(X)
    <2>1. \A i \in 1..n : s[h(i)] \in X
      BY <1>1, <1>3
    <2>2. n \in Nat
      BY <1>1 DEF n
    <2> QED
      BY <1>2, <2>1, <2>2
  <1>6. ASSUME NEW k \in K
        PROVE  \E i \in DOMAIN t : h(i) = k
    <2> DEFINE i == Rank(K, k) + 1
    <2>1. i \in 1..n /\ Rank(K, k) = i - 1 /\ Rank(K, k) \in Nat
      BY <1>1, RankType DEF n
    <2>2. h(i) \in K /\ Rank(K, h(i)) = Rank(K, k) /\ Rank(K, h(i)) \in Nat
      BY <1>3, <2>1
    <2>3. h(i) \in Nat /\ k \in Nat
      BY <1>1, <2>2
    <2>4. ~(h(i) < k) /\ ~(k < h(i))
      BY <1>1, <2>2, RankOrder
    <2>5. h(i) = k
      BY <2>3, <2>4
    <2> QED
      BY <1>4, <2>1, <2>5
  <1>7. ASSUME NEW i \in DOMAIN t, NEW j \in DOMAIN t, i # j
        PROVE  \E k, l \in K : k # l /\ t[i] = s[k] /\ t[j] = s[l]
    <2>1. i \in 1..n /\ j \in 1..n /\ i - 1 # j - 1
      <3>1. i \in 1..n /\ j \in 1..n /\ n \in Nat
        BY <1>1, <1>4 DEF n
      <3> QED
        BY <1>7, <3>1
    <2>2. h(i) \in K /\ h(j) \in K /\ h(i) # h(j)
      BY <1>3, <2>1
    <2> QED
      BY <1>4, <2>1, <2>2
  <1>8. ASSUME NEW k \in K, NEW l \in K, k # l
        PROVE  \E i, j \in DOMAIN t : i # j /\ t[i] = s[k] /\ t[j] = s[l]
    <2>1. PICK i \in DOMAIN t : h(i) = k
      BY <1>6
    <2>2. PICK j \in DOMAIN t : h(j) = l
      BY <1>6
    <2> QED
      BY <1>4, <1>8, <2>1, <2>2
  <1>9. \A i \in DOMAIN t : t[i] = s[h(i)] /\ h(i) \in K
    BY <1>3, <1>4
  <1>10. \A k \in K : \E i \in DOMAIN t : t[i] = s[k]
    BY <1>6, <1>9
  <1> QED
    BY <1>5, <1>7, <1>8, <1>9, <1>10
-----------------------------------------------------------------------------
(* Reloading the configuration. *)

\* A nonempty set of numbers has a smallest.
LEMMA LeastExists ==
  ASSUME NEW S \in SUBSET Nat, S # {}
  PROVE  \E k \in S : \A i \in S : k <= i
  <1> DEFINE below(n) == {q \in S : q <= n}
  <1>1. PICK m \in S : TRUE
    OBVIOUS
  <1>2. IsFiniteSet(below(m)) /\ m \in below(m) /\ below(m) \in SUBSET Nat
    <2>1. ASSUME NEW q \in below(m) PROVE q \in 0..m
      <3>1. q \in Nat /\ m \in Nat /\ q <= m
        OBVIOUS
      <3> QED
        BY <3>1
    <2>2. IsFiniteSet(0..m)
      BY FS_Interval
    <2>3. IsFiniteSet(below(m))
      <3> HIDE DEF below
      <3> QED
        BY <2>1, <2>2, FS_Subset
    <2>4. m \in below(m)
      <3>1. m \in Nat
        OBVIOUS
      <3>2. m <= m
        BY <3>1
      <3> QED
        BY <3>2
    <2>5. below(m) \in SUBSET Nat
      OBVIOUS
    <2> QED
      BY <2>3, <2>4, <2>5
  <1>3. Cardinality(below(m)) \in Nat /\ Cardinality(below(m)) # 0
    BY <1>2, FS_CardinalityType, FS_EmptySet
  <1>4. PICK k \in below(m) : Rank(below(m), k) = 0
    <2>1. 0 \in 0..(Cardinality(below(m)) - 1)
      BY <1>3
    <2> HIDE DEF below
    <2> QED
      BY <1>2, <2>1, RankOnto
  <1>5. {q \in below(m) : q < k} = {}
    <2>1. IsFiniteSet({q \in below(m) : q < k})
      BY <1>2, FS_Subset
    <2> QED
      BY <1>4, <2>1, FS_EmptySet DEF Rank
  <1>6. \A i \in S : k <= i
    <2> SUFFICES ASSUME NEW i \in S, i < k
                 PROVE  FALSE
      OBVIOUS
    <2>1. i \in below(m)
      OBVIOUS
    <2> QED
      BY <1>5, <2>1
  <1> QED
    BY <1>4, <1>6

\* No name occurs twice.
Unique(s) == \A k, l \in DOMAIN s : s[k].name = s[l].name => k = l

\* There is a first job of every name.
LEMMA FirstExists ==
  ASSUME config \in Configs, NEW n \in Names(config)
  PROVE  \E k \in DOMAIN config : config[k].name = n /\ FirstOf(k)
  <1>1. DOMAIN config \subseteq Nat /\ \A m \in DOMAIN config : 1..(m - 1) \subseteq DOMAIN config
    <2>1. config \in Seq(ScrapeJob)
      BY ConfigAssumption
    <2>2. DOMAIN config = 1..Len(config) /\ Len(config) \in Nat
      BY <2>1
    <2> QED
      BY <2>2
  <1>2. PICK m \in DOMAIN config : config[m].name = n
    BY DEF Names
  <1> DEFINE S == {k \in DOMAIN config : config[k].name = n}
  <1>3. S \subseteq Nat /\ S # {}
    BY <1>1, <1>2
  <1>4. PICK k \in S : \A i \in S : k <= i
    BY <1>3, LeastExists
  <1>5. \A i \in 1..(k - 1) : i \notin S
    BY <1>1, <1>4
  <1>6. \A i \in 1..(k - 1) : config[i].name # n
    BY <1>1, <1>4, <1>5
  <1> QED
    BY <1>4, <1>6 DEF FirstOf

\* Two first jobs of one name are one.
LEMMA FirstUnique ==
  ASSUME config \in Configs, NEW k \in DOMAIN config, NEW l \in DOMAIN config,
         FirstOf(k), FirstOf(l), config[k].name = config[l].name
  PROVE  k = l
  <1>1. k \in Nat /\ l \in Nat /\ k >= 1 /\ l >= 1
    <2>1. config \in Seq(ScrapeJob)
      BY ConfigAssumption
    <2> QED
      BY <2>1
  <1>2. ~(k < l) /\ ~(l < k)
    BY <1>1 DEF FirstOf
  <1> QED
    BY <1>1, <1>2

\* New jobs have not run.
LEMMA NewStatesAre ==
  ASSUME NEW s \in Seq(ScrapeJob)
  PROVE  /\ NewStates(s) \in Seq(JobState)
         /\ DOMAIN NewStates(s) = DOMAIN s
         /\ \A k \in DOMAIN s : /\ NewStates(s)[k].name = s[k].name
                               /\ NewStates(s)[k].run_count = 0
  <1>1. ASSUME NEW j \in ScrapeJob
        PROVE  NewState(j) \in JobState /\ NewState(j).name = j.name /\ NewState(j).run_count = 0
    BY BoundAssumption DEF NewState, JobState, ScrapeJob
  <1>2. DOMAIN s = 1..Len(s) /\ Len(s) \in Nat /\ \A k \in DOMAIN s : s[k] \in ScrapeJob
    OBVIOUS
  <1>3. NewStates(s) = [k \in 1..Len(s) |-> NewState(s[k])]
    BY <1>2 DEF NewStates
  <1>4. \A k \in 1..Len(s) : NewState(s[k]) \in JobState
    BY <1>1, <1>2
  <1>5. NewStates(s) \in Seq(JobState)
    BY <1>2, <1>3, <1>4
  <1> QED
    BY <1>1, <1>2, <1>3, <1>5

\* After sync_job_states has added and dropped jobs the list has the names of
\* the configuration, and one twice only if it had it twice; a job is an old one
\* or has not run.
LEMMA SyncNamesIs ==
  ASSUME config \in Configs, job_states \in Seq(JobState),
         NEW t, t = SyncNames(job_states)
  PROVE  /\ t \in Seq(JobState)
         /\ Names(t) = Names(config)
         /\ \A n \in Names(config) : Twice(t, n) <=> Twice(job_states, n)
         /\ \A i \in DOMAIN t :
               \/ \E k \in DOMAIN job_states : t[i] = job_states[k]
               \/ t[i].run_count = 0 /\ t[i].name \notin Names(job_states)
  <1> DEFINE unknown == {k \in DOMAIN config : config[k].name \notin Names(job_states) /\ FirstOf(k)}
             add     == Subsequence(config, unknown)
             new     == NewStates(add)
             all     == job_states \o new
             K       == {k \in DOMAIN all : all[k].name \in Names(config)}
  <1>1. t = Subsequence(all, K)
    BY DEF SyncNames
  <1>2. config \in Seq(ScrapeJob)
    BY ConfigAssumption
  <1>3. unknown \in SUBSET DOMAIN config
    OBVIOUS
  <1>4. /\ add \in Seq(ScrapeJob)
        /\ \A i \in DOMAIN add : \E k \in unknown : add[i] = config[k]
        /\ \A k \in unknown : \E i \in DOMAIN add : add[i] = config[k]
        /\ \A i, j \in DOMAIN add : i # j =>
              \E k, l \in unknown : k # l /\ add[i] = config[k] /\ add[j] = config[l]
    <2> HIDE DEF unknown
    <2> QED
      BY <1>2, <1>3, SubsequenceIs
  <1> HIDE DEF add
  <1>5. /\ new \in Seq(JobState) /\ DOMAIN new = DOMAIN add
        /\ \A k \in DOMAIN add : new[k].name = add[k].name /\ new[k].run_count = 0
    BY <1>4, NewStatesAre
  <1> HIDE DEF new
  <1>6. Unique(new)
    <2> SUFFICES ASSUME NEW i \in DOMAIN new, NEW j \in DOMAIN new, i # j
                 PROVE  new[i].name # new[j].name
      BY DEF Unique
    <2>1. PICK k \in unknown, l \in unknown : k # l /\ add[i] = config[k] /\ add[j] = config[l]
      BY <1>4, <1>5
    <2>2. config[k].name # config[l].name
      BY <2>1, FirstUnique
    <2> QED
      BY <1>5, <2>1, <2>2
  <1>7. \A i \in DOMAIN new : /\ new[i].run_count = 0
                              /\ new[i].name \notin Names(job_states)
                              /\ new[i].name \in Names(config)
    <2> SUFFICES ASSUME NEW i \in DOMAIN new
                 PROVE  /\ new[i].run_count = 0
                        /\ new[i].name \notin Names(job_states)
                        /\ new[i].name \in Names(config)
      OBVIOUS
    <2>1. PICK k \in unknown : add[i] = config[k]
      BY <1>4, <1>5
    <2>2. config[k].name \notin Names(job_states) /\ config[k].name \in Names(config)
      BY DEF Names
    <2> QED
      BY <1>5, <2>1, <2>2
  <1>8. \A n \in Names(config) \ Names(job_states) : \E i \in DOMAIN new : new[i].name = n
    <2> SUFFICES ASSUME NEW n \in Names(config), n \notin Names(job_states)
                 PROVE  \E i \in DOMAIN new : new[i].name = n
      OBVIOUS
    <2>1. PICK k \in DOMAIN config : config[k].name = n /\ FirstOf(k)
      BY FirstExists
    <2>2. PICK i \in DOMAIN add : add[i] = config[k]
      BY <1>4, <2>1
    <2> QED
      BY <1>5, <2>1, <2>2
  <1> HIDE DEF unknown
  <1>9. /\ all \in Seq(JobState)
        /\ DOMAIN all = 1..(Len(job_states) + Len(new))
        /\ DOMAIN job_states = 1..Len(job_states) /\ Len(job_states) \in Nat
        /\ DOMAIN new = 1..Len(new) /\ Len(new) \in Nat
        /\ \A i \in DOMAIN all :
              \/ i \in DOMAIN job_states /\ all[i] = job_states[i]
              \/ i - Len(job_states) \in DOMAIN new /\ all[i] = new[i - Len(job_states)]
        /\ \A i \in DOMAIN job_states : i \in DOMAIN all /\ all[i] = job_states[i]
        /\ \A i \in DOMAIN new : /\ i + Len(job_states) \in DOMAIN all
                                 /\ all[i + Len(job_states)] = new[i]
    <2>1. /\ DOMAIN job_states = 1..Len(job_states) /\ Len(job_states) \in Nat
          /\ DOMAIN new = 1..Len(new) /\ Len(new) \in Nat
      BY <1>5
    <2>2. /\ all \in Seq(JobState) /\ Len(all) = Len(job_states) + Len(new)
          /\ DOMAIN all = 1..(Len(job_states) + Len(new))
      BY <1>5
    <2>3. \A i \in 1..(Len(job_states) + Len(new)) :
             all[i] = IF i <= Len(job_states) THEN job_states[i] ELSE new[i - Len(job_states)]
      BY <1>5
    <2> HIDE DEF all
    <2> QED
      BY <2>1, <2>2, <2>3
  <1>10. \A n : Twice(all, n) <=> Twice(job_states, n)
    <2> SUFFICES ASSUME NEW n
                 PROVE  Twice(all, n) <=> Twice(job_states, n)
      OBVIOUS
    <2>1. ASSUME Twice(job_states, n) PROVE Twice(all, n)
      BY <1>9, <2>1 DEF Twice
    <2>2. ASSUME Twice(all, n) PROVE Twice(job_states, n)
      <3> DEFINE m == Len(job_states)
      <3>1. PICK i \in DOMAIN all, j \in DOMAIN all : i # j /\ all[i].name = n /\ all[j].name = n
        BY <2>2 DEF Twice
      <3>2. CASE n \in Names(job_states)
        <4>1. i \in DOMAIN job_states /\ all[i] = job_states[i]
          BY <1>7, <1>9, <3>1, <3>2
        <4>2. j \in DOMAIN job_states /\ all[j] = job_states[j]
          BY <1>7, <1>9, <3>1, <3>2
        <4> QED
          BY <3>1, <4>1, <4>2 DEF Twice
      <3>3. CASE n \notin Names(job_states)
        <4>1. i - m \in DOMAIN new /\ all[i] = new[i - m]
          BY <1>9, <3>1, <3>3 DEF Names
        <4>2. j - m \in DOMAIN new /\ all[j] = new[j - m]
          BY <1>9, <3>1, <3>3 DEF Names
        <4>3. i - m = j - m
          BY <1>6, <3>1, <4>1, <4>2 DEF Unique
        <4>4. i \in Int /\ j \in Int /\ m \in Int
          BY <1>9
        <4> QED
          BY <3>1, <4>3, <4>4
      <3> QED
        BY <3>2, <3>3
    <2> QED
      BY <2>1, <2>2
  <1> HIDE DEF all
  <1>11. K \in SUBSET DOMAIN all
    OBVIOUS
  <1>12. /\ t \in Seq(JobState)
         /\ \A i \in DOMAIN t : \E k \in K : t[i] = all[k]
         /\ \A k \in K : \E i \in DOMAIN t : t[i] = all[k]
         /\ \A i, j \in DOMAIN t : i # j =>
               \E k, l \in K : k # l /\ t[i] = all[k] /\ t[j] = all[l]
         /\ \A k, l \in K : k # l =>
               \E i, j \in DOMAIN t : i # j /\ t[i] = all[k] /\ t[j] = all[l]
    <2>1. all \in Seq(JobState)
      BY <1>9
    <2> HIDE DEF K
    <2> QED
      BY <1>1, <1>11, <2>1, SubsequenceIs
  <1>13. ASSUME NEW n \in Names(config)
         PROVE  Twice(t, n) <=> Twice(job_states, n)
    <2>1. ASSUME Twice(t, n) PROVE Twice(all, n)
      <3>1. PICK i \in DOMAIN t, j \in DOMAIN t : i # j /\ t[i].name = n /\ t[j].name = n
        BY <2>1 DEF Twice
      <3>2. PICK k \in K, l \in K : k # l /\ t[i] = all[k] /\ t[j] = all[l]
        BY <1>12, <3>1
      <3> QED
        BY <3>1, <3>2 DEF Twice
    <2>2. ASSUME Twice(all, n) PROVE Twice(t, n)
      <3>1. PICK k \in DOMAIN all, l \in DOMAIN all : k # l /\ all[k].name = n /\ all[l].name = n
        BY <2>2 DEF Twice
      <3>2. k \in K /\ l \in K
        BY <3>1
      <3>3. PICK i \in DOMAIN t, j \in DOMAIN t : i # j /\ t[i] = all[k] /\ t[j] = all[l]
        BY <1>12, <3>1, <3>2
      <3> QED
        BY <3>1, <3>3 DEF Twice
    <2> QED
      BY <1>10, <2>1, <2>2
  <1>14. Names(t) = Names(config)
    <2>1. ASSUME NEW i \in DOMAIN t
          PROVE  t[i].name \in Names(config)
      BY <1>12
    <2>2. ASSUME NEW n \in Names(config)
          PROVE  n \in Names(t)
      <3>1. PICK k \in DOMAIN all : all[k].name = n
        <4>1. CASE n \in Names(job_states)
          BY <1>9, <4>1 DEF Names
        <4>2. CASE n \notin Names(job_states)
          <5>1. PICK i \in DOMAIN new : new[i].name = n
            BY <1>8, <4>2
          <5> QED
            BY <1>9, <5>1
        <4> QED
          BY <4>1, <4>2
      <3>2. k \in K
        BY <3>1
      <3>3. PICK i \in DOMAIN t : t[i] = all[k]
        BY <1>12, <3>2
      <3> QED
        BY <3>1, <3>3 DEF Names
    <2> QED
      BY <2>1, <2>2 DEF Names
  <1>15. ASSUME NEW i \in DOMAIN t
         PROVE  \/ \E k \in DOMAIN job_states : t[i] = job_states[k]
                \/ t[i].run_count = 0 /\ t[i].name \notin Names(job_states)
    <2>1. PICK k \in K : t[i] = all[k]
      BY <1>12
    <2>2. \/ k \in DOMAIN job_states /\ all[k] = job_states[k]
          \/ k - Len(job_states) \in DOMAIN new /\ all[k] = new[k - Len(job_states)]
      BY <1>9, <2>1
    <2> QED
      BY <1>7, <2>1, <2>2
  <1> QED
    BY <1>12, <1>13, <1>14, <1>15

\* A job the configuration names gets its parameters and keeps the rest.
LEMMA UpdateIs ==
  ASSUME config \in Configs, NEW s \in JobState, s.name \in Names(config)
  PROVE  /\ Update(s) \in JobState
         /\ Update(s).name = s.name
         /\ Update(s).run_count = s.run_count
         /\ Update(s).refresh = ConfigOf(s.name).refresh
         /\ Update(s).interval_secs = ConfigOf(s.name).interval_secs
  <1> DEFINE c == ConfigOf(s.name)
  <1>1. c \in ScrapeJob
    <2>1. \E k \in DOMAIN config : config[k].name = s.name /\ FirstOf(k)
      BY FirstExists
    <2>2. PICK k \in DOMAIN config : c = config[k]
      BY <2>1 DEF ConfigOf
    <2>3. config \in Seq(ScrapeJob)
      BY ConfigAssumption
    <2> QED
      BY <2>2, <2>3
  <1>2. c.refresh \in {"once", "interval", "on-change"} /\ c.interval_secs \in 0..MaxInterval
    BY <1>1 DEF ScrapeJob
  <1>3. Update(s) = [s EXCEPT !.interval_secs = c.interval_secs, !.refresh = c.refresh]
    BY DEF Update
  <1> HIDE DEF c
  <1>4. /\ Update(s) \in JobState
        /\ Update(s).name = s.name
        /\ Update(s).run_count = s.run_count
        /\ Update(s).refresh = c.refresh
        /\ Update(s).interval_secs = c.interval_secs
    BY <1>2, <1>3 DEF JobState
  <1> QED
    BY <1>4 DEF c

\* sync_job_states: the jobs and parameters are the configuration's, and a job
\* keeps its run_count or has not run.
LEMMA SyncedIs ==
  ASSUME config \in Configs, job_states \in Seq(JobState),
         NEW t, t = Synced
  PROVE  /\ t \in Seq(JobState)
         /\ Names(t) = Names(config)
         /\ \A n \in Names(config) : Twice(t, n) <=> Twice(job_states, n)
         /\ \A i \in DOMAIN t :
               /\ t[i].refresh = ConfigOf(t[i].name).refresh
               /\ t[i].interval_secs = ConfigOf(t[i].name).interval_secs
               /\ \/ \E k \in DOMAIN job_states :
                        /\ t[i].name = job_states[k].name
                        /\ t[i].run_count = job_states[k].run_count
                  \/ t[i].run_count = 0 /\ t[i].name \notin Names(job_states)
  <1> DEFINE u == SyncNames(job_states)
  <1>1. /\ u \in Seq(JobState) /\ Names(u) = Names(config)
        /\ \A n \in Names(config) : Twice(u, n) <=> Twice(job_states, n)
        /\ \A i \in DOMAIN u :
               \/ \E k \in DOMAIN job_states : u[i] = job_states[k]
               \/ u[i].run_count = 0 /\ u[i].name \notin Names(job_states)
    BY SyncNamesIs
  <1>2. t = [i \in DOMAIN u |-> Update(u[i])]
    BY DEF Synced
  <1> HIDE DEF u
  <1>3. DOMAIN u = 1..Len(u) /\ Len(u) \in Nat /\ \A i \in DOMAIN u : u[i] \in JobState
    BY <1>1
  <1>4. \A i \in DOMAIN u : u[i].name \in Names(config)
    BY <1>1 DEF Names
  <1>5. \A i \in DOMAIN u :
          /\ Update(u[i]) \in JobState
          /\ Update(u[i]).name = u[i].name
          /\ Update(u[i]).run_count = u[i].run_count
          /\ Update(u[i]).refresh = ConfigOf(u[i].name).refresh
          /\ Update(u[i]).interval_secs = ConfigOf(u[i].name).interval_secs
    BY <1>3, <1>4, UpdateIs
  <1>6. t \in Seq(JobState)
    <2>1. t = [i \in 1..Len(u) |-> Update(u[i])]
      BY <1>2, <1>3
    <2>2. \A i \in 1..Len(u) : Update(u[i]) \in JobState
      BY <1>3, <1>5
    <2> QED
      BY <1>3, <2>1, <2>2
  <1>7. DOMAIN t = DOMAIN u /\ \A i \in DOMAIN u : t[i] = Update(u[i])
    BY <1>2
  <1>8. Names(t) = Names(u)
    BY <1>5, <1>7 DEF Names
  <1>9. \A n \in Names(config) : Twice(t, n) <=> Twice(job_states, n)
    <2>1. \A n : Twice(t, n) <=> Twice(u, n)
      BY <1>5, <1>7 DEF Twice
    <2> QED
      BY <1>1, <2>1
  <1>10. ASSUME NEW i \in DOMAIN t
         PROVE  /\ t[i].refresh = ConfigOf(t[i].name).refresh
                /\ t[i].interval_secs = ConfigOf(t[i].name).interval_secs
                /\ \/ \E k \in DOMAIN job_states :
                         /\ t[i].name = job_states[k].name
                         /\ t[i].run_count = job_states[k].run_count
                   \/ t[i].run_count = 0 /\ t[i].name \notin Names(job_states)
    <2>1. i \in DOMAIN u /\ t[i].name = u[i].name /\ t[i].run_count = u[i].run_count
      BY <1>5, <1>7
    <2>2. /\ t[i].refresh = ConfigOf(t[i].name).refresh
          /\ t[i].interval_secs = ConfigOf(t[i].name).interval_secs
      BY <1>5, <1>7
    <2> QED
      BY <1>1, <2>1, <2>2
  <1> QED
    BY <1>1, <1>6, <1>8, <1>9, <1>10

\* The clock moves on, and nothing else about the jobs changes.
LEMMA AgedIs ==
  ASSUME NEW s \in Seq(JobState), gap \in 0..MaxInterval
  PROVE  /\ Aged(s) \in Seq(JobState)
         /\ DOMAIN Aged(s) = DOMAIN s /\ Len(Aged(s)) = Len(s)
         /\ \A i \in DOMAIN s :
               /\ Aged(s)[i].name = s[i].name
               /\ Aged(s)[i].run_count = s[i].run_count
               /\ Aged(s)[i].refresh = s[i].refresh
               /\ Aged(s)[i].interval_secs = s[i].interval_secs
  <1> DEFINE Later(j) == [j EXCEPT !.elapsed = AtMost(j.elapsed + gap)]
  <1>1. ASSUME NEW j \in JobState
        PROVE  /\ Later(j) \in JobState
               /\ Later(j).name = j.name
               /\ Later(j).run_count = j.run_count
               /\ Later(j).refresh = j.refresh
               /\ Later(j).interval_secs = j.interval_secs
    <2>1. AtMost(j.elapsed + gap) \in 0..MaxInterval
      <3>1. j.elapsed \in 0..MaxInterval
        BY DEF JobState
      <3> QED
        BY <3>1, BoundAssumption DEF AtMost
    <2> QED
      BY <2>1 DEF JobState
  <1>2. DOMAIN s = 1..Len(s) /\ Len(s) \in Nat /\ \A i \in DOMAIN s : s[i] \in JobState
    OBVIOUS
  <1>3. Aged(s) = [i \in 1..Len(s) |-> Later(s[i])]
    BY <1>2 DEF Aged
  <1> HIDE DEF Later
  <1>4. \A i \in 1..Len(s) : Later(s[i]) \in JobState
    BY <1>1, <1>2
  <1>5. Aged(s) \in Seq(JobState) /\ Len(Aged(s)) = Len(s)
    BY <1>2, <1>3, <1>4
  <1> QED
    BY <1>1, <1>2, <1>3, <1>5
-----------------------------------------------------------------------------
(* The invariant. *)

\* A job that finished is on the list and, if no other has its name, counts its
\* run.
FinishedCounted ==
  /\ finished \subseteq Names(job_states)
  /\ \A k \in DOMAIN job_states :
        job_states[k].name \in finished =>
           job_states[k].run_count = 1 \/ Twice(job_states, job_states[k].name)

\* The job that runs is one of the list's, and was due.
RunningDue == phase = "running" => at \in DOMAIN job_states /\ ShouldRun(Current)

SchedulerInv == TypeOK /\ FinishedCounted /\ RunningDue

\* The invariant holds when the scheduler starts.
LEMMA InitInv == Init => SchedulerInv
  <1> SUFFICES ASSUME Init
               PROVE  SchedulerInv
    OBVIOUS
  <1>1. config \in Seq(ScrapeJob)
    BY ConfigAssumption DEF Init
  <1>2. job_states \in Seq(JobState)
    BY <1>1, NewStatesAre DEF Init
  <1>3. TypeOK
    <2>1. at \in 1..(Len(job_states) + 1)
      BY <1>2 DEF Init
    <2> QED
      BY <1>2, <2>1, BoundAssumption DEF Init, TypeOK
  <1> QED
    BY <1>3 DEF SchedulerInv, FinishedCounted, RunningDue, Init

\* A reload, whether the configuration can be read or not.
LEMMA WakeInv ==
  ASSUME SchedulerInv, Wake
  PROVE  SchedulerInv'
  <1> USE DEF SchedulerInv, TypeOK
  <1> DEFINE u == IF readable THEN Synced ELSE job_states
  <1>1. /\ u \in Seq(JobState)
        /\ \A n \in Names(u) : Twice(u, n) <=> Twice(job_states, n)
        /\ \A i \in DOMAIN u :
              \/ \E k \in DOMAIN job_states : /\ u[i].name = job_states[k].name
                                             /\ u[i].run_count = job_states[k].run_count
              \/ u[i].run_count = 0 /\ u[i].name \notin Names(job_states)
    <2>1. CASE readable
      <3>1. u = Synced
        BY <2>1
      <3> HIDE DEF u
      <3> QED
        BY <3>1, SyncedIs
    <2>2. CASE ~readable
      BY <2>2
    <2> QED
      BY <2>1, <2>2
  <1>2. job_states' = Aged(u) /\ finished' = finished \cap Names(u)
    BY DEF Wake
  <1> HIDE DEF u
  <1>3. /\ Aged(u) \in Seq(JobState) /\ DOMAIN Aged(u) = DOMAIN u
        /\ \A i \in DOMAIN u : Aged(u)[i].name = u[i].name /\ Aged(u)[i].run_count = u[i].run_count
    BY <1>1, AgedIs
  <1>4. TypeOK'
    <2>1. at' \in 1..(Len(job_states') + 1)
      BY <1>2, <1>3 DEF Wake
    <2> QED
      BY <1>2, <1>3, <2>1, BoundAssumption DEF Wake
  <1>5. \A n : Twice(job_states', n) <=> Twice(u, n)
    BY <1>2, <1>3 DEF Twice
  <1>6. FinishedCounted'
    <2>1. Names(job_states') = Names(u)
      BY <1>2, <1>3 DEF Names
    <2>2. ASSUME NEW i \in DOMAIN u, u[i].name \in finished
          PROVE  u[i].run_count = 1 \/ Twice(u, u[i].name)
      <3>1. u[i].name \in Names(u) /\ u[i].name \in Names(job_states)
        BY <2>2 DEF FinishedCounted, Names
      <3>2. PICK k \in DOMAIN job_states : /\ u[i].name = job_states[k].name
                                           /\ u[i].run_count = job_states[k].run_count
        BY <1>1, <3>1
      <3>3. job_states[k].run_count = 1 \/ Twice(job_states, job_states[k].name)
        BY <2>2, <3>2 DEF FinishedCounted
      <3> QED
        BY <1>1, <3>1, <3>2, <3>3
    <2> QED
      BY <1>2, <1>3, <1>5, <2>1, <2>2 DEF FinishedCounted
  <1> QED
    BY <1>4, <1>6 DEF RunningDue, Wake

\* Changing one job of the list, but not its name.
LEMMA OneJobChanged ==
  ASSUME SchedulerInv, NEW j \in JobState, at \in DOMAIN job_states,
         j.name = job_states[at].name,
         job_states' = [job_states EXCEPT ![at] = j]
  PROVE  /\ job_states' \in Seq(JobState) /\ Len(job_states') = Len(job_states)
         /\ DOMAIN job_states' = DOMAIN job_states
         /\ Names(job_states') = Names(job_states)
         /\ \A n : Twice(job_states', n) <=> Twice(job_states, n)
         /\ \A k \in DOMAIN job_states :
               job_states'[k] = IF k = at THEN j ELSE job_states[k]
  <1>1. job_states \in Seq(JobState)
    BY DEF SchedulerInv, TypeOK
  <1>2. /\ job_states' \in Seq(JobState) /\ Len(job_states') = Len(job_states)
        /\ DOMAIN job_states' = DOMAIN job_states
        /\ \A k \in DOMAIN job_states :
               job_states'[k] = IF k = at THEN j ELSE job_states[k]
    BY <1>1
  <1>3. \A k \in DOMAIN job_states : job_states'[k].name = job_states[k].name
    BY <1>2
  <1>4. \A n : Twice(job_states', n) <=> Twice(job_states, n)
    BY <1>2, <1>3 DEF Twice
  <1> QED
    BY <1>2, <1>3, <1>4 DEF Names

\* A run that succeeds keeps the invariant: the job it counts is the one that
\* finished.
LEMMA RunOkInv ==
  ASSUME SchedulerInv, RunOk
  PROVE  SchedulerInv'
  <1> DEFINE c == job_states[at]
             j == [c EXCEPT !.elapsed = 0, !.run_count = 1,
                            !.completed = c.completed \/ c.refresh = "once"]
  <1>1. /\ at \in DOMAIN job_states /\ at \in Nat /\ Len(job_states) \in Nat
        /\ DOMAIN job_states = 1..Len(job_states)
        /\ c \in JobState
    BY DEF SchedulerInv, TypeOK, RunningDue, RunOk
  <1>2. j \in JobState /\ j.name = c.name /\ j.run_count = 1
    <2>1. 0 \in 0..MaxInterval /\ 1 \in 0..1 /\ (c.completed \/ c.refresh = "once") \in BOOLEAN
      BY BoundAssumption
    <2> HIDE DEF c
    <2> QED
      BY <1>1, <2>1 DEF JobState
  <1>3. job_states' = [job_states EXCEPT ![at] = j]
    BY <1>1 DEF RunOk, Current, SchedulerInv, TypeOK, JobState
  <1> HIDE DEF j
  <1>4. /\ job_states' \in Seq(JobState) /\ Len(job_states') = Len(job_states)
        /\ DOMAIN job_states' = DOMAIN job_states
        /\ Names(job_states') = Names(job_states)
        /\ \A n : Twice(job_states', n) <=> Twice(job_states, n)
        /\ \A k \in DOMAIN job_states :
               job_states'[k] = IF k = at THEN j ELSE job_states[k]
    BY <1>1, <1>2, <1>3, OneJobChanged
  <1>5. TypeOK'
    <2>1. at' \in 1..(Len(job_states') + 1)
      BY <1>1, <1>4 DEF RunOk
    <2>2. finished' \subseteq Name
      BY <1>1 DEF RunOk, Current, SchedulerInv, TypeOK, JobState
    <2> QED
      BY <1>4, <2>1, <2>2 DEF RunOk, SchedulerInv, TypeOK
  <1>6. FinishedCounted'
    <2>1. finished' = finished \cup {c.name} /\ c.name \in Names(job_states)
      BY <1>1 DEF RunOk, Current, Names
    <2>2. ASSUME NEW k \in DOMAIN job_states, job_states'[k].name \in finished'
          PROVE  job_states'[k].run_count = 1 \/ Twice(job_states', job_states'[k].name)
      <3>1. CASE k = at
        BY <1>2, <1>4, <3>1
      <3>2. CASE k # at
        <4>1. job_states'[k] = job_states[k]
          BY <1>4, <3>2
        <4>2. CASE job_states[k].name = c.name
          BY <1>1, <1>4, <3>2, <4>1, <4>2 DEF Twice
        <4>3. CASE job_states[k].name # c.name
          BY <1>4, <2>1, <2>2, <4>1, <4>3 DEF SchedulerInv, FinishedCounted
        <4> QED
          BY <4>2, <4>3
      <3> QED
        BY <3>1, <3>2
    <2> QED
      BY <1>4, <2>1, <2>2 DEF SchedulerInv, FinishedCounted
  <1> QED
    BY <1>4, <1>5, <1>6 DEF SchedulerInv, RunningDue, RunOk

\* So does a run that fails, which counts nothing.
LEMMA RunErrInv ==
  ASSUME SchedulerInv, RunErr
  PROVE  SchedulerInv'
  <1> DEFINE c == job_states[at]
             j == [c EXCEPT !.elapsed = 0]
  <1>1. /\ at \in DOMAIN job_states /\ at \in Nat /\ Len(job_states) \in Nat
        /\ DOMAIN job_states = 1..Len(job_states)
        /\ c \in JobState
    BY DEF SchedulerInv, TypeOK, RunningDue, RunErr
  <1>2. j \in JobState /\ j.name = c.name /\ j.run_count = c.run_count
    <2>1. 0 \in 0..MaxInterval
      BY BoundAssumption
    <2> HIDE DEF c
    <2> QED
      BY <1>1, <2>1 DEF JobState
  <1>3. job_states' = [job_states EXCEPT ![at] = j]
    BY <1>1 DEF RunErr, SchedulerInv, TypeOK
  <1> HIDE DEF j
  <1>4. /\ job_states' \in Seq(JobState) /\ Len(job_states') = Len(job_states)
        /\ DOMAIN job_states' = DOMAIN job_states
        /\ Names(job_states') = Names(job_states)
        /\ \A n : Twice(job_states', n) <=> Twice(job_states, n)
        /\ \A k \in DOMAIN job_states :
               job_states'[k] = IF k = at THEN j ELSE job_states[k]
    BY <1>1, <1>2, <1>3, OneJobChanged
  <1>5. TypeOK'
    <2>1. at' \in 1..(Len(job_states') + 1)
      BY <1>1, <1>4 DEF RunErr
    <2> QED
      BY <1>4, <2>1 DEF RunErr, SchedulerInv, TypeOK
  <1>6. FinishedCounted'
    <2>1. finished' = finished
      BY DEF RunErr
    <2>2. \A k \in DOMAIN job_states : /\ job_states'[k].name = job_states[k].name
                                      /\ job_states'[k].run_count = job_states[k].run_count
      BY <1>2, <1>4
    <2> QED
      BY <1>4, <2>1, <2>2 DEF SchedulerInv, FinishedCounted
  <1> QED
    BY <1>4, <1>5, <1>6 DEF SchedulerInv, RunningDue, RunErr

\* Every step keeps the invariant.
LEMMA NextInv == SchedulerInv /\ [Next]_vars => SchedulerInv'
  <1> SUFFICES ASSUME SchedulerInv, [Next]_vars
               PROVE  SchedulerInv'
    OBVIOUS
  <1>1. Len(job_states) \in Nat /\ DOMAIN job_states = 1..Len(job_states)
    BY DEF SchedulerInv, TypeOK
  <1>2. CASE Wake
    BY <1>2, WakeInv
  <1>3. CASE Start
    <2>1. at \in DOMAIN job_states
      BY <1>1, <1>3 DEF Start, SchedulerInv, TypeOK
    <2> QED
      BY <1>3, <2>1 DEF Start, SchedulerInv, TypeOK, FinishedCounted, RunningDue, Current, ShouldRun
  <1>4. CASE Skip
    <2>1. at' \in 1..(Len(job_states') + 1)
      BY <1>1, <1>4 DEF Skip, SchedulerInv, TypeOK
    <2> QED
      BY <1>4, <2>1 DEF Skip, SchedulerInv, TypeOK, FinishedCounted, RunningDue
  <1>5. CASE EndPass
    <2>1. at' \in 1..(Len(job_states') + 1)
      BY <1>1, <1>5 DEF EndPass
    <2> QED
      BY <1>5, <2>1 DEF EndPass, SchedulerInv, TypeOK, FinishedCounted, RunningDue
  <1>6. CASE RunOk
    BY <1>6, RunOkInv
  <1>7. CASE RunErr
    BY <1>7, RunErrInv
  <1>8. CASE RunPanic
    BY <1>8 DEF RunPanic, SchedulerInv, TypeOK, FinishedCounted, RunningDue
  <1>9. CASE Edit
    <2>1. config' \in Configs /\ readable' \in BOOLEAN
      BY <1>9, Zenon DEF Edit, SchedulerInv, TypeOK
    <2>2. edits' \in 0..MaxEdits
      BY <1>9, BoundAssumption DEF Edit, SchedulerInv, TypeOK
    <2> QED
      BY <1>9, <2>1, <2>2 DEF Edit, SchedulerInv, TypeOK, FinishedCounted, RunningDue, Current, ShouldRun
  <1>10. CASE Tick
    <2>1. gap' \in 0..MaxInterval
      BY <1>10, BoundAssumption DEF Tick, AtMost, SchedulerInv, TypeOK
    <2> QED
      BY <1>10, <2>1 DEF Tick, SchedulerInv, TypeOK, FinishedCounted, RunningDue, Current, ShouldRun
  <1>11. CASE UNCHANGED vars
    BY <1>11 DEF vars, SchedulerInv, TypeOK, FinishedCounted, RunningDue, Current, ShouldRun
  <1> QED
    BY <1>2, <1>3, <1>4, <1>5, <1>6, <1>7, <1>8, <1>9, <1>10, <1>11 DEF Next

\* The scheduler's state keeps its type, a job that finished is still on the
\* list, with its run counted unless another has its name, and the job that
\* runs was due.
THEOREM InvCorrect == Spec => []SchedulerInv
  BY InitInv, NextInv, PTL DEF Spec

\* A "once" job that ran successfully since it was added does not start again,
\* however the configuration was edited meanwhile, unless its name is listed
\* twice.
THEOREM OnceCorrect == Spec => []OnceStaysDone
  <1>1. SchedulerInv => OnceStaysDone
    <2> SUFFICES ASSUME SchedulerInv, phase = "running", Current.refresh = "once",
                        Current.name \in finished, ~Twice(job_states, Current.name)
                 PROVE  FALSE
      BY DEF OnceStaysDone
    <2>1. Current.run_count = 0
      BY DEF SchedulerInv, RunningDue, ShouldRun
    <2>2. Current.run_count = 1
      BY DEF SchedulerInv, RunningDue, FinishedCounted, Current
    <2> QED
      BY <2>1, <2>2
  <1> QED
    BY <1>1, InvCorrect, PTL

\* After a reload the scheduler's list has the names of the configuration, none
\* twice that it did not have twice before, and the refresh and interval of the
\* first job of each name.
THEOREM ConfigFollowed == Spec => JobsFollowConfig
  <1> DEFINE Followed ==
        phase = "sleep" /\ phase' = "pass" /\ readable =>
          /\ Names(job_states') = Names(config)
          /\ \A n \in Name : Twice(job_states', n) => Twice(job_states, n)
          /\ \A k \in DOMAIN job_states' :
                LET s == job_states'[k] IN
                /\ s.refresh = ConfigOf(s.name).refresh
                /\ s.interval_secs = ConfigOf(s.name).interval_secs
  <1>1. SchedulerInv /\ [Next]_vars => [Followed]_vars
    <2> SUFFICES ASSUME SchedulerInv, [Next]_vars, phase = "sleep", phase' = "pass", readable
                 PROVE  /\ Names(job_states') = Names(config)
                        /\ \A n \in Name : Twice(job_states', n) => Twice(job_states, n)
                        /\ \A k \in DOMAIN job_states' :
                              /\ job_states'[k].refresh = ConfigOf(job_states'[k].name).refresh
                              /\ job_states'[k].interval_secs
                                   = ConfigOf(job_states'[k].name).interval_secs
      OBVIOUS
    <2>1. Wake
      BY DEF Next, Start, Skip, EndPass, RunOk, RunErr, RunPanic, Edit, Tick, vars
    <2> DEFINE u == Synced
    <2>2. /\ u \in Seq(JobState) /\ Names(u) = Names(config)
          /\ \A n \in Names(config) : Twice(u, n) <=> Twice(job_states, n)
          /\ \A i \in DOMAIN u :
                /\ u[i].refresh = ConfigOf(u[i].name).refresh
                /\ u[i].interval_secs = ConfigOf(u[i].name).interval_secs
      BY SyncedIs DEF SchedulerInv, TypeOK
    <2>3. job_states' = Aged(u)
      BY <2>1 DEF Wake
    <2> HIDE DEF u
    <2>4. /\ DOMAIN Aged(u) = DOMAIN u /\ Len(Aged(u)) = Len(u)
          /\ \A i \in DOMAIN u :
                /\ Aged(u)[i].name = u[i].name
                /\ Aged(u)[i].refresh = u[i].refresh
                /\ Aged(u)[i].interval_secs = u[i].interval_secs
      BY <2>2, AgedIs DEF SchedulerInv, TypeOK
    <2>5. \A n \in Name : Twice(Aged(u), n) => Twice(job_states, n)
      <3> SUFFICES ASSUME NEW n \in Name, Twice(Aged(u), n)
                   PROVE  Twice(job_states, n)
        OBVIOUS
      <3>1. Twice(u, n) /\ n \in Names(u)
        BY <2>4 DEF Twice, Names
      <3> QED
        BY <2>2, <3>1
    <2>6. Names(Aged(u)) = Names(u)
      BY <2>4 DEF Names
    <2> QED
      BY <2>2, <2>3, <2>4, <2>5, <2>6
  <1>2. Spec => [][Followed]_vars
    <2> HIDE DEF Followed
    <2> QED
      BY <1>1, InvCorrect, PTL DEF Spec
  <1> QED
    BY <1>2 DEF JobsFollowConfig
=============================================================================
