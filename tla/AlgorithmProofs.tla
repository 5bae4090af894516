-------------------------- MODULE AlgorithmProofs --------------------------
(***************************************************************************)
(* Proofs about Algorithms, for inputs of any size.                        *)
(***************************************************************************)
EXTENDS Algorithms, SequenceTheorems, FiniteSetTheorems, WellFoundedInduction, TLAPS

(* Induction.  The numbers or sequences for which a claim holds are a set,   *)
(* so that the lemmas take sets and can be cited for any claim.              *)

\* A set of naturals with 0 and every successor is all of them: a smallest
\* number outside it would have a predecessor outside it.
LEMMA SetInduction ==
  ASSUME NEW S \in SUBSET Nat, 0 \in S, \A n \in S : n + 1 \in S
  PROVE  S = Nat
  <1> DEFINE R == {ss \in Nat \X Nat : ss[1] < ss[2]}
             T == Nat \ S
  <1> SUFFICES ASSUME T # {} PROVE FALSE
    OBVIOUS
  <1>1. IsWellFoundedOn(R, Nat)
    BY NatLessThanWellFounded DEF OpToRel
  <1>2. \E x \in T : \A y \in T : ~(<<y, x>> \in R)
    <2> HIDE DEF R, T
    <2>1. T \subseteq Nat
      BY DEF T
    <2> QED
      BY <1>1, <2>1, WFMin
  <1>3. PICK x \in T : \A y \in T : ~(<<y, x>> \in R)
    BY <1>2
  <1>4. x # 0 /\ x \in Nat
    OBVIOUS
  <1>5. x - 1 \in Nat /\ x - 1 < x
    BY <1>4
  <1>6. <<x - 1, x>> \in R
    BY <1>4, <1>5
  <1>7. x - 1 \in S
    BY <1>3, <1>5, <1>6
  <1>8. (x - 1) + 1 \in S
    BY <1>7
  <1> QED
    BY <1>4, <1>8

\* The same up to a bound.
LEMMA BoundedInduction ==
  ASSUME NEW n \in Nat, NEW S \in SUBSET (0..n), 0 \in S,
         \A i \in 1..n : i - 1 \in S => i \in S
  PROVE  S = 0..n
  <1> DEFINE U == {i \in Nat : i <= n => i \in S}
  <1>1. 0 \in U
    OBVIOUS
  <1>2. ASSUME NEW i \in U PROVE i + 1 \in U
    <2> SUFFICES ASSUME i + 1 <= n PROVE i + 1 \in S
      OBVIOUS
    <2>1. i \in S /\ i + 1 \in 1..n
      OBVIOUS
    <2>2. (i + 1) - 1 = i
      OBVIOUS
    <2> QED
      BY <2>1, <2>2
  <1>3. U = Nat
    <2> HIDE DEF U
    <2>1. U \in SUBSET Nat
      BY DEF U
    <2> QED
      BY <1>1, <1>2, <2>1, SetInduction
  <1>4. ASSUME NEW i \in 0..n PROVE i \in S
    <2>1. i \in Nat /\ i <= n
      OBVIOUS
    <2> QED
      BY <1>3, <2>1
  <1> QED
    BY <1>4

\* A set of sequences with the empty one, and with each all that are one
\* element longer, is all of them.
LEMMA SeqInduction ==
  ASSUME NEW X, NEW P \in SUBSET Seq(X), <<>> \in P,
         \A s \in P, x \in X : Append(s, x) \in P
  PROVE  P = Seq(X)
  <1> DEFINE U == {n \in Nat : \A s \in Seq(X) : Len(s) = n => s \in P}
  <1>1. 0 \in U
    BY EmptySeq
  <1>2. ASSUME NEW n \in U PROVE n + 1 \in U
    <2> SUFFICES ASSUME NEW s \in Seq(X), Len(s) = n + 1 PROVE s \in P
      OBVIOUS
    <2> DEFINE t == SubSeq(s, 1, n)
    <2>1. t \in Seq(X) /\ Len(t) = n
      OBVIOUS
    <2>2. t \in P
      BY <2>1
    <2>3. s = Append(t, s[n + 1]) /\ s[n + 1] \in X
      <3>1. Len(s) # 0 /\ n + 1 \in 1..Len(s)
        OBVIOUS
      <3>2. Append(t, s[n + 1]) \in Seq(X) /\ Len(Append(t, s[n + 1])) = n + 1
        BY SMTT(30), <2>1, <3>1
      <3>3. \A i \in 1..(n + 1) : s[i] = Append(t, s[n + 1])[i]
        BY <2>1, <3>1
      <3>4. Len(s) = Len(Append(t, s[n + 1])) /\ \A i \in 1..Len(s) : s[i] = Append(t, s[n + 1])[i]
        BY <3>2, <3>3
      <3>5. s = Append(t, s[n + 1])
        <4> HIDE DEF t
        <4> QED
          BY <3>2, <3>4, SeqEqual
      <3> QED
        BY <3>1, <3>5
    <2> QED
      BY <2>2, <2>3
  <1>3. U = Nat
    <2> HIDE DEF U
    <2>1. U \in SUBSET Nat
      BY DEF U
    <2> QED
      BY <1>1, <1>2, <2>1, SetInduction
  <1> QED
    BY <1>3, LenProperties
-----------------------------------------------------------------------------
(* Folds.  FoldLeft is a recursive function of the sets of indices; Run, of  *)
(* a function rather than an operator, is the loop it stands for.            *)

\* A loop over a sequence of elements of X, with states of T.
Loop(step, base, s, T, X) ==
    base \in T /\ step \in [T -> [X -> T]] /\ s \in Seq(X)

IsRun(r, step, base, s) ==
    /\ r[0] = base
    /\ \A i \in 1..Len(s) : r[i] = step[r[i - 1]][s[i]]

Run(step, base, s) == (CHOOSE r : IsRun(r, step, base, s))[Len(s)]

\* A loop runs to its end, and its states have the type that each round keeps.
LEMMA RunExists ==
  ASSUME NEW X, NEW T, NEW base, NEW step, NEW s, Loop(step, base, s, T, X)
  PROVE  \E r \in [0..Len(s) -> T] : IsRun(r, step, base, s)
  <1>0. base \in T /\ step \in [T -> [X -> T]] /\ s \in Seq(X)
    BY DEF Loop
  <1> DEFINE P == {t \in Seq(X) : \E r \in [0..Len(t) -> T] : IsRun(r, step, base, t)}
  <1>1. <<>> \in P
    <2> DEFINE r == [i \in 0..0 |-> base]
    <2>1. r \in [0..Len(<<>>) -> T] /\ r[0] = base /\ Len(<<>>) = 0
      BY <1>0
    <2>2. IsRun(r, step, base, <<>>)
      BY <2>1 DEF IsRun
    <2> QED
      BY <2>1, <2>2, EmptySeq
  <1>2. ASSUME NEW t \in P, NEW x \in X PROVE Append(t, x) \in P
    <2> DEFINE n == Len(t)
               u == Append(t, x)
    <2>1. n \in Nat /\ u \in Seq(X) /\ Len(u) = n + 1 /\ u[n + 1] = x
          /\ \A i \in 1..n : u[i] = t[i]
      BY AppendProperties
    <2>2. PICK r \in [0..n -> T] : IsRun(r, step, base, t)
      OBVIOUS
    <2> HIDE DEF n, u
    <2> DEFINE q == [i \in 0..(n + 1) |-> IF i <= n THEN r[i] ELSE step[r[n]][x]]
    <2>3. r[n] \in T /\ step[r[n]] \in [X -> T]
      BY <1>0, <2>1, <2>2
    <2>4. step[r[n]][x] \in T
      BY <2>3
    <2>5. /\ q \in [0..(n + 1) -> T]
          /\ \A i \in 0..n : q[i] = r[i]
          /\ q[n + 1] = step[r[n]][x]
      BY <2>1, <2>2, <2>4
    <2> HIDE DEF q
    <2>6. q[0] = base
      BY <2>1, <2>2, <2>5 DEF IsRun
    <2>7. ASSUME NEW i \in 1..(n + 1) PROVE q[i] = step[q[i - 1]][u[i]]
      <3>1. CASE i <= n
        <4>1. i \in 1..n /\ i \in 0..n /\ i - 1 \in 0..n
          BY <3>1, <2>1
        <4>2. r[i] = step[r[i - 1]][t[i]]
          BY <4>1, <2>2 DEF IsRun, n
        <4> QED
          BY <4>1, <4>2, <2>1, <2>5
      <3>2. CASE i = n + 1
        <4>1. n \in 0..n /\ i - 1 = n
          BY <3>2, <2>1
        <4> QED
          BY <3>2, <2>1, <2>5, <4>1
      <3> QED
        BY <3>1, <3>2, <2>1
    <2>8. IsRun(q, step, base, u)
      BY <2>1, <2>6, <2>7 DEF IsRun
    <2> QED
      BY <2>1, <2>5, <2>8 DEF u
  <1>3. P = Seq(X)
    <2> HIDE DEF P
    <2>1. P \in SUBSET Seq(X)
      BY DEF P
    <2> QED
      BY <1>1, <1>2, <2>1, SeqInduction
  <1> QED
    BY <1>0, <1>3

\* A loop has one way to run.
LEMMA RunUnique ==
  ASSUME NEW s, NEW step, NEW base, NEW r, NEW q, Len(s) \in Nat,
         IsRun(r, step, base, s), IsRun(q, step, base, s)
  PROVE  \A i \in 0..Len(s) : r[i] = q[i]
  <1> DEFINE n == Len(s)
             S == {i \in 0..n : r[i] = q[i]}
  <1>1. n \in Nat
    OBVIOUS
  <1>2. 0 \in S
    BY <1>1 DEF IsRun
  <1>3. ASSUME NEW i \in 1..n, i - 1 \in S PROVE i \in S
    <2>1. r[i] = step[r[i - 1]][s[i]] /\ q[i] = step[q[i - 1]][s[i]]
      BY DEF IsRun
    <2>2. i \in 0..n /\ r[i - 1] = q[i - 1]
      BY <1>3
    <2> QED
      BY <2>1, <2>2
  <1>4. S = 0..n
    <2>1. S \in SUBSET (0..n)
      OBVIOUS
    <2> HIDE DEF S, n
    <2> QED
      BY <1>1, <1>2, <1>3, <2>1, BoundedInduction
  <1> QED
    BY <1>4

\* The run that Run chooses is one, and its last state has the type.
LEMMA RunChosen ==
  ASSUME NEW X, NEW T, NEW base, NEW step, NEW s, Loop(step, base, s, T, X)
  PROVE  \E r : /\ IsRun(r, step, base, s)
                /\ Run(step, base, s) = r[Len(s)]
                /\ Run(step, base, s) \in T
  <1> DEFINE r == CHOOSE q : IsRun(q, step, base, s)
  <1>1. PICK q \in [0..Len(s) -> T] : IsRun(q, step, base, s)
    BY RunExists
  <1>2. IsRun(r, step, base, s)
    BY <1>1
  <1>3. Run(step, base, s) = r[Len(s)]
    BY DEF Run
  <1>4. Len(s) \in Nat /\ Len(s) \in 0..Len(s)
    BY DEF Loop
  <1> HIDE DEF r
  <1>5. r[Len(s)] = q[Len(s)]
    BY <1>1, <1>2, <1>4, RunUnique
  <1> QED
    BY <1>1, <1>2, <1>3, <1>4, <1>5

\* A loop over nothing stays where it starts.
LEMMA RunEmpty ==
  ASSUME NEW X, NEW T, NEW base, NEW step, Loop(step, base, <<>>, T, X)
  PROVE  Run(step, base, <<>>) = base
  <1>1. PICK r : IsRun(r, step, base, <<>>) /\ Run(step, base, <<>>) = r[Len(<<>>)]
    BY RunChosen
  <1>2. Len(<<>>) = 0
    OBVIOUS
  <1> QED
    BY <1>1, <1>2 DEF IsRun

\* One element more is one round more.
LEMMA RunAppend ==
  ASSUME NEW X, NEW T, NEW base, NEW step, NEW s, Loop(step, base, s, T, X)
  PROVE  \A x \in X : Run(step, base, Append(s, x)) = step[Run(step, base, s)][x]
  <1> SUFFICES ASSUME NEW x \in X
               PROVE  Run(step, base, Append(s, x)) = step[Run(step, base, s)][x]
    OBVIOUS
  <1> DEFINE u == Append(s, x)
             n == Len(s)
  <1>1. s \in Seq(X)
    BY DEF Loop
  <1>2. n \in Nat /\ u \in Seq(X) /\ Len(u) = n + 1 /\ u[n + 1] = x
        /\ \A i \in 1..n : u[i] = s[i]
    BY <1>1, AppendProperties
  <1>3. Loop(step, base, u, T, X)
    BY <1>2 DEF Loop
  <1> HIDE DEF u
  <1>4. PICK r : IsRun(r, step, base, u) /\ Run(step, base, u) = r[Len(u)]
    BY <1>3, RunChosen
  <1>5. PICK q : IsRun(q, step, base, s) /\ Run(step, base, s) = q[n] /\ Run(step, base, s) \in T
    BY RunChosen
  <1>6. IsRun(r, step, base, s)
    <2>1. \A i \in 1..n : i \in 1..Len(u)
      BY <1>2
    <2>2. r[0] = base /\ \A i \in 1..n : r[i] = step[r[i - 1]][s[i]]
      BY <1>2, <1>4, <2>1 DEF IsRun
    <2> QED
      BY <2>2 DEF IsRun
  <1>7. r[n] = q[n]
    <2>1. n \in 0..n
      BY <1>2
    <2> QED
      BY <1>2, <1>5, <1>6, <2>1, RunUnique
  <1>8. r[n + 1] = step[r[n]][x]
    <2>1. n + 1 \in 1..Len(u) /\ (n + 1) - 1 = n
      BY <1>2
    <2> HIDE DEF n
    <2> QED
      BY <1>2, <1>4, <2>1 DEF IsRun
  <1> QED
    BY <1>2, <1>3, <1>4, <1>5, <1>7, <1>8 DEF u

\* The greatest of some indices.
LEMMA MaxIndex ==
  ASSUME NEW n \in Nat, NEW t \in SUBSET (1..n), n \in t
  PROVE  Max(t) = n
  <1>1. \A y \in t : n >= y
    OBVIOUS
  <1>2. \A x \in t : (\A y \in t : x >= y) => x = n
    OBVIOUS
  <1> QED
    BY <1>1, <1>2 DEF Max

\* Some indices have a greatest one: otherwise each could be raised for ever.
LEMMA MaxIn ==
  ASSUME NEW n \in Nat, NEW t \in SUBSET (1..n), t # {}
  PROVE  Max(t) \in t /\ \A i \in t : Max(t) >= i
  <1>1. \E m \in t : \A y \in t : m >= y
    <2> SUFFICES ASSUME \A m \in t : \E y \in t : ~(m >= y) PROVE FALSE
      OBVIOUS
    <2> DEFINE C == {k \in Nat : \A i \in t : i + k <= n}
    <2>1. 0 \in C
      OBVIOUS
    <2>2. ASSUME NEW k \in C PROVE k + 1 \in C
      OBVIOUS
    <2>3. C = Nat
      <3> HIDE DEF C
      <3>1. C \in SUBSET Nat
        BY DEF C
      <3> QED
        BY <2>1, <2>2, <3>1, SetInduction
    <2>4. \A i \in t : i + n <= n
      BY <2>3
    <2>5. PICK i \in t : TRUE
      OBVIOUS
    <2> QED
      BY <2>4, <2>5
  <1> QED
    BY <1>1 DEF Max

\* The first i indices.
LEMMA Prefix ==
  ASSUME NEW n \in Nat, NEW i \in 1..n
  PROVE  /\ (1..i) \in SUBSET (1..n)
         /\ (1..i) # {}
         /\ (1..i) \ {i} = 1..(i - 1)
         /\ Max(1..i) = i
  <1>1. /\ (1..i) \in SUBSET (1..n)
        /\ (1..i) # {}
        /\ (1..i) \ {i} = 1..(i - 1)
    OBVIOUS
  <1>2. Max(1..i) = i
    BY MaxIndex
  <1> QED
    BY <1>1, <1>2

\* A solution of the recursion in FoldLeft.
IsFold(g, step, base, s, T) ==
    /\ g \in [SUBSET (1..Len(s)) -> T]
    /\ \A t \in SUBSET (1..Len(s)) :
          g[t] = IF t = {} THEN base ELSE step[g[t \ {Max(t)}]][s[Max(t)]]

\* The recursive function in FoldLeft exists.
LEMMA FoldExists ==
  ASSUME NEW X, NEW T, NEW base, NEW step, NEW s, Loop(step, base, s, T, X)
  PROVE  \E g : IsFold(g, step, base, s, T)
  <1>0. base \in T /\ step \in [T -> [X -> T]] /\ s \in Seq(X)
    BY DEF Loop
  <1> DEFINE Sol(g, q) == \A t \in SUBSET (1..Len(q)) :
                 g[t] = IF t = {} THEN base ELSE step[g[t \ {Max(t)}]][q[Max(t)]]
             P == {q \in Seq(X) : \E g \in [SUBSET (1..Len(q)) -> T] : Sol(g, q)}
  <1>1. <<>> \in P
    <2> DEFINE g == [t \in SUBSET (1..0) |-> base]
    <2>1. Len(<<>>) = 0 /\ <<>> \in Seq(X) /\ g \in [SUBSET (1..0) -> T]
      BY <1>0
    <2>2. \A t \in SUBSET (1..0) : t = {} /\ g[t] = base
      OBVIOUS
    <2>3. Sol(g, <<>>)
      <3> HIDE DEF g
      <3> QED
        BY <2>1, <2>2
    <2> QED
      BY <2>1, <2>3
  <1>2. ASSUME NEW q \in P, NEW x \in X PROVE Append(q, x) \in P
    <2> DEFINE n == Len(q)
               u == Append(q, x)
    <2>1. n \in Nat /\ u \in Seq(X) /\ Len(u) = n + 1 /\ u[n + 1] = x
          /\ \A i \in 1..n : u[i] = q[i]
      BY AppendProperties
    <2>2. PICK g \in [SUBSET (1..n) -> T] : Sol(g, q)
      OBVIOUS
    <2> HIDE DEF u
    <2> DEFINE h == [t \in SUBSET (1..(n + 1)) |->
                        IF n + 1 \in t THEN step[g[t \ {n + 1}]][x] ELSE g[t]]
    <2>3. ASSUME NEW t \in SUBSET (1..(n + 1)), n + 1 \in t
          PROVE  t \ {n + 1} \in SUBSET (1..n) /\ Max(t) = n + 1 /\ h[t] = step[g[t \ {n + 1}]][x]
      <3>1. t \ {n + 1} \in SUBSET (1..n)
        <4> HIDE DEF n
        <4>1. \A i \in 1..(n + 1) : i # n + 1 => i \in 1..n
          BY <2>1
        <4> QED
          BY <4>1
      <3>2. n + 1 \in Nat
        BY <2>1
      <3>3. Max(t) = n + 1
        <4> HIDE DEF n
        <4> QED
          BY <2>3, <3>2, MaxIndex
      <3> QED
        BY <2>3, <3>1, <3>3
    <2>4. ASSUME NEW t \in SUBSET (1..(n + 1)), n + 1 \notin t
          PROVE  t \in SUBSET (1..n) /\ h[t] = g[t]
      BY <2>1, <2>4
    <2>5. ASSUME NEW t \in SUBSET (1..n) PROVE h[t] = g[t] /\ t \in SUBSET (1..(n + 1))
      BY <2>1
    <2>6. ASSUME NEW t \in SUBSET (1..n), t # {} PROVE Max(t) \in t
      BY <2>1, <2>6, MaxIn
    <2>7. h \in [SUBSET (1..(n + 1)) -> T]
      <3> SUFFICES ASSUME NEW t \in SUBSET (1..(n + 1)) PROVE h[t] \in T
        OBVIOUS
      <3>1. CASE n + 1 \in t
        <4>1. g[t \ {n + 1}] \in T /\ step[g[t \ {n + 1}]] \in [X -> T]
          BY <3>1, <1>0, <2>2, <2>3
        <4> HIDE DEF h
        <4> QED
          BY <3>1, <4>1, <2>3
      <3>2. CASE n + 1 \notin t
        <4> HIDE DEF h
        <4> QED
          BY <3>2, <2>2, <2>4
      <3> QED
        BY <3>1, <3>2
    <2> HIDE DEF h, n
    <2>8. Sol(h, u)
      <3> SUFFICES ASSUME NEW t \in SUBSET (1..(n + 1))
                   PROVE  h[t] = IF t = {} THEN base ELSE step[h[t \ {Max(t)}]][u[Max(t)]]
        BY <2>1
      <3>1. CASE n + 1 \in t
        <4>1. h[t \ {n + 1}] = g[t \ {n + 1}]
          BY <3>1, <2>3, <2>5
        <4>2. Max(t) = n + 1 /\ h[t] = step[g[t \ {n + 1}]][x] /\ t # {}
          BY <3>1, <2>3
        <4>3. h[t \ {Max(t)}] = g[t \ {n + 1}] /\ u[Max(t)] = x
          BY <4>1, <4>2, <2>1
        <4> QED
          BY <4>2, <4>3
      <3>2. CASE n + 1 \notin t /\ t # {}
        <4>1. t \in SUBSET (1..n) /\ h[t] = g[t] /\ Max(t) \in t
          BY <3>2, <2>4, <2>6
        <4>2. t \ {Max(t)} \in SUBSET (1..n) /\ Max(t) \in 1..n
          BY <4>1
        <4>3. h[t \ {Max(t)}] = g[t \ {Max(t)}] /\ u[Max(t)] = q[Max(t)]
          BY <4>2, <2>1, <2>5
        <4>4. g[t] = step[g[t \ {Max(t)}]][q[Max(t)]]
          BY <3>2, <4>1, <2>2 DEF n
        <4> QED
          BY <3>2, <4>1, <4>3, <4>4
      <3>3. CASE t = {}
        <4>1. t \in SUBSET (1..n) /\ n + 1 \notin t
          BY <3>3
        <4>2. g[t] = base
          BY <3>3, <4>1, <2>2 DEF n
        <4> QED
          BY <3>3, <4>1, <4>2, <2>4
      <3> QED
        BY <3>1, <3>2, <3>3
    <2> QED
      BY <2>1, <2>7, <2>8 DEF u
  <1>3. P = Seq(X)
    <2> HIDE DEF P
    <2>1. P \in SUBSET Seq(X)
      BY DEF P
    <2> QED
      BY <1>1, <1>2, <2>1, SeqInduction
  <1> QED
    BY <1>0, <1>3 DEF IsFold

\* Any solution of that recursion is the loop, at the set of all indices.
LEMMA FoldIsRun ==
  ASSUME NEW X, NEW T, NEW base, NEW step, NEW s, Loop(step, base, s, T, X),
         NEW f, f[{}] = base,
         \A i \in 1..Len(s) : f[1..(i - 1)] \in T => f[1..i] = step[f[1..(i - 1)]][s[i]]
  PROVE  f[1..Len(s)] = Run(step, base, s)
  <1> DEFINE n == Len(s)
  <1>1. n \in Nat
    BY DEF Loop
  <1>2. PICK r \in [0..n -> T] : IsRun(r, step, base, s)
    BY RunExists
  <1> DEFINE S == {i \in 0..n : f[1..i] = r[i]}
  <1>3. 0 \in S
    <2>1. 1..0 = {} /\ 0 \in 0..n
      BY <1>1
    <2> QED
      BY <1>2, <2>1 DEF IsRun
  <1>4. ASSUME NEW i \in 1..n, i - 1 \in S PROVE i \in S
    <2>1. i - 1 \in 0..n /\ i \in 0..n /\ f[1..(i - 1)] = r[i - 1]
      BY <1>4, <1>1
    <2>2. f[1..i] = step[f[1..(i - 1)]][s[i]]
      BY <1>2, <2>1
    <2>3. r[i] = step[r[i - 1]][s[i]]
      BY <1>2 DEF IsRun
    <2> QED
      BY <2>1, <2>2, <2>3
  <1>5. S = 0..n
    <2>1. S \in SUBSET (0..n)
      OBVIOUS
    <2> HIDE DEF S, n
    <2> QED
      BY <1>1, <1>3, <1>4, <2>1, BoundedInduction
  <1>6. f[1..n] = r[n]
    <2>1. n \in 0..n
      BY <1>1
    <2>2. n \in S
      BY <1>5, <2>1
    <2> QED
      BY <2>2
  <1>7. PICK q : IsRun(q, step, base, s) /\ Run(step, base, s) = q[n]
    BY RunChosen
  <1>8. r[n] = q[n]
    <2>1. n \in 0..n
      BY <1>1
    <2> QED
      BY <1>1, <1>2, <1>7, <2>1, RunUnique
  <1> QED
    BY <1>6, <1>7, <1>8
-----------------------------------------------------------------------------
\* Quotient and remainder.
LEMMA DivMod ==
  ASSUME NEW a \in Nat, NEW w \in Nat \ {0}
  PROVE  a \div w \in Nat /\ a % w \in 0..(w - 1) /\ a = w * (a \div w) + (a % w)
  <1>1. a \div w \in Nat
    OBVIOUS
  <1>2. a % w \in 0..(w - 1)
    OBVIOUS
  <1>3. w > 0
    OBVIOUS
  <1>4. a = w * (a \div w) + (a % w)
    BY <1>3
  <1> QED
    BY <1>1, <1>2, <1>4

LEMMA DivModOf ==
  ASSUME NEW q \in Nat, NEW w \in Nat \ {0}, NEW r \in 0..(w - 1)
  PROVE  (w * q + r) \div w = q /\ (w * q + r) % w = r
  OBVIOUS
-----------------------------------------------------------------------------
(* find_closest. *)

\* The bytes of pairs, pair by pair.
Pairs == Bytes \cup {NoByte}
BytesOf(s) == FoldLeft(KeepByte, <<>>, s)

LEMMA PairSteps ==
  ASSUME NEW s \in Seq(Pairs)
  PROVE  /\ BytesOf(<<>>) = <<>>
         /\ BytesOf(s) \in Seq(Bytes)
         /\ \A x \in Pairs : BytesOf(Append(s, x)) = KeepByte(BytesOf(s), x)
  <1> DEFINE T == Seq(Bytes)
             X == Pairs
             b == <<>>
             step == [a \in T |-> [x \in X |-> KeepByte(a, x)]]
  <1>1. b \in T /\ s \in Seq(X) /\ \A a \in T, x \in X : KeepByte(a, x) \in T
    BY DEF KeepByte, Pairs
  <1>2. BytesOf(<<>>) = b /\ BytesOf(s) \in T
        /\ \A x \in X : BytesOf(Append(s, x)) = KeepByte(BytesOf(s), x)
    <2> HIDE DEF T, X
    <2>1. ASSUME NEW t \in Seq(X)
          PROVE  BytesOf(t) = Run(step, b, t) /\ Loop(step, b, t, T, X)
      <3> DEFINE n == Len(t)
                 body(g) == [q \in SUBSET (1..n) |->
                                IF q = {} THEN b ELSE KeepByte(g[q \ {Max(q)}], t[Max(q)])]
                 f == CHOOSE g : g = body(g)
      <3>1. DOMAIN t = 1..n /\ n \in Nat /\ \A i \in 1..n : t[i] \in X
        OBVIOUS
      <3>2. BytesOf(t) = f[1..n]
        BY <3>1 DEF BytesOf, FoldLeft, MapThenFoldSet
      <3> HIDE DEF b
      <3>3. /\ \A a \in T, x \in X : step[a][x] = KeepByte(a, x)
            /\ step \in [T -> [X -> T]]
        BY <1>1
      <3> HIDE DEF step
      <3>4. Loop(step, b, t, T, X)
        BY <1>1, <3>3 DEF Loop
      <3>5. PICK g : IsFold(g, step, b, t, T)
        BY <3>4, FoldExists
      <3>6. g = body(g)
        <4>1. ASSUME NEW q \in SUBSET (1..n), q # {}
              PROVE  g[q] = KeepByte(g[q \ {Max(q)}], t[Max(q)])
          <5>1. Max(q) \in 1..n
            BY <3>1, <4>1, MaxIn
          <5>2. t[Max(q)] \in X /\ g[q \ {Max(q)}] \in T
            BY <3>1, <3>5, <5>1 DEF IsFold
          <5>3. g[q] = step[g[q \ {Max(q)}]][t[Max(q)]]
            BY <3>5, <4>1 DEF IsFold
          <5> QED
            BY <3>3, <5>2, <5>3
        <4> QED
          BY <3>5, <4>1 DEF IsFold
      <3>7. f = body(f)
        <4> HIDE DEF body
        <4> QED
          BY <3>6
      <3>8. f[{}] = b
        BY <3>7
      <3>9. ASSUME NEW i \in 1..n, f[1..(i - 1)] \in T
            PROVE  f[1..i] = step[f[1..(i - 1)]][t[i]]
        <4>1. /\ (1..i) \in SUBSET (1..n) /\ (1..i) # {}
              /\ (1..i) \ {i} = 1..(i - 1) /\ Max(1..i) = i
          BY <3>1, Prefix
        <4>2. f[1..i] = KeepByte(f[1..(i - 1)], t[i])
          <5> HIDE DEF f
          <5> QED
            BY <3>7, <4>1
        <4> QED
          BY <3>1, <3>3, <3>9, <4>2
      <3> HIDE DEF f, body
      <3> QED
        BY <3>2, <3>4, <3>8, <3>9, FoldIsRun
    <2>2. <<>> \in Seq(X) /\ \A x \in X : Append(s, x) \in Seq(X)
      BY <1>1
    <2>3. \A a \in T, x \in X : step[a][x] = KeepByte(a, x)
      BY <1>1
    <2> HIDE DEF b, step
    <2>4. BytesOf(<<>>) = b
      BY <2>1, <2>2, RunEmpty
    <2>5. BytesOf(s) \in T
      BY <1>1, <2>1, RunChosen
    <2>6. ASSUME NEW x \in X
          PROVE  BytesOf(Append(s, x)) = KeepByte(BytesOf(s), x)
      <3>1. Run(step, b, Append(s, x)) = step[Run(step, b, s)][x]
        BY <1>1, <2>1, RunAppend
      <3>2. BytesOf(Append(s, x)) = Run(step, b, Append(s, x)) /\ BytesOf(s) = Run(step, b, s)
        BY <1>1, <2>1, <2>2
      <3> QED
        BY <2>3, <2>5, <3>1, <3>2
    <2> QED
      BY <2>4, <2>5, <2>6
  <1> QED
    BY <1>2

\* The number of a sequence of bits, bit by bit.
LEMMA NumberSteps ==
  ASSUME NEW s \in Seq(Nat)
  PROVE  /\ Number(<<>>) = 0
         /\ Number(s) \in Nat
         /\ \A x \in Nat : Number(Append(s, x)) = AddBit(Number(s), x)
  <1> DEFINE T == Nat
             X == Nat
             b == 0
             step == [a \in T |-> [x \in X |-> AddBit(a, x)]]
  <1>1. b \in T /\ s \in Seq(X) /\ \A a \in T, x \in X : AddBit(a, x) \in T
    BY DEF AddBit
  <1>2. Number(<<>>) = b /\ Number(s) \in T
        /\ \A x \in X : Number(Append(s, x)) = AddBit(Number(s), x)
    <2> HIDE DEF T, X
    <2>1. ASSUME NEW t \in Seq(X)
          PROVE  Number(t) = Run(step, b, t) /\ Loop(step, b, t, T, X)
      <3> DEFINE n == Len(t)
                 body(g) == [q \in SUBSET (1..n) |->
                                IF q = {} THEN b ELSE AddBit(g[q \ {Max(q)}], t[Max(q)])]
                 f == CHOOSE g : g = body(g)
      <3>1. DOMAIN t = 1..n /\ n \in Nat /\ \A i \in 1..n : t[i] \in X
        OBVIOUS
      <3>2. Number(t) = f[1..n]
        BY <3>1 DEF Number, FoldLeft, MapThenFoldSet
      <3> HIDE DEF b
      <3>3. /\ \A a \in T, x \in X : step[a][x] = AddBit(a, x)
            /\ step \in [T -> [X -> T]]
        BY <1>1
      <3> HIDE DEF step
      <3>4. Loop(step, b, t, T, X)
        BY <1>1, <3>3 DEF Loop
      <3>5. PICK g : IsFold(g, step, b, t, T)
        BY <3>4, FoldExists
      <3>6. g = body(g)
        <4>1. ASSUME NEW q \in SUBSET (1..n), q # {}
              PROVE  g[q] = AddBit(g[q \ {Max(q)}], t[Max(q)])
          <5>1. Max(q) \in 1..n
            BY <3>1, <4>1, MaxIn
          <5>2. t[Max(q)] \in X /\ g[q \ {Max(q)}] \in T
            BY <3>1, <3>5, <5>1 DEF IsFold
          <5>3. g[q] = step[g[q \ {Max(q)}]][t[Max(q)]]
            BY <3>5, <4>1 DEF IsFold
          <5> QED
            BY <3>3, <5>2, <5>3
        <4> QED
          BY <3>5, <4>1 DEF IsFold
      <3>7. f = body(f)
        <4> HIDE DEF body
        <4> QED
          BY <3>6
      <3>8. f[{}] = b
        BY <3>7
      <3>9. ASSUME NEW i \in 1..n, f[1..(i - 1)] \in T
            PROVE  f[1..i] = step[f[1..(i - 1)]][t[i]]
        <4>1. /\ (1..i) \in SUBSET (1..n) /\ (1..i) # {}
              /\ (1..i) \ {i} = 1..(i - 1) /\ Max(1..i) = i
          BY <3>1, Prefix
        <4>2. f[1..i] = AddBit(f[1..(i - 1)], t[i])
          <5> HIDE DEF f
          <5> QED
            BY <3>7, <4>1
        <4> QED
          BY <3>1, <3>3, <3>9, <4>2
      <3> HIDE DEF f, body
      <3> QED
        BY <3>2, <3>4, <3>8, <3>9, FoldIsRun
    <2>2. <<>> \in Seq(X) /\ \A x \in X : Append(s, x) \in Seq(X)
      BY <1>1
    <2>3. \A a \in T, x \in X : step[a][x] = AddBit(a, x)
      BY <1>1
    <2> HIDE DEF b, step
    <2>4. Number(<<>>) = b
      BY <2>1, <2>2, RunEmpty
    <2>5. Number(s) \in T
      BY <1>1, <2>1, RunChosen
    <2>6. ASSUME NEW x \in X
          PROVE  Number(Append(s, x)) = AddBit(Number(s), x)
      <3>1. Run(step, b, Append(s, x)) = step[Run(step, b, s)][x]
        BY <1>1, <2>1, RunAppend
      <3>2. Number(Append(s, x)) = Run(step, b, Append(s, x)) /\ Number(s) = Run(step, b, s)
        BY <1>1, <2>1, <2>2
      <3> QED
        BY <2>3, <2>5, <3>1, <3>2
    <2> QED
      BY <2>4, <2>5, <2>6
  <1> QED
    BY <1>2

\* A longer one is nearer if its beginning is, or at its last bit.
LEMMA NearerAppend ==
  ASSUME NEW a \in Seq(0..1), NEW b \in Seq(0..1), Len(a) = Len(b), NEW x \in 0..1, NEW y \in 0..1
  PROVE  Nearer(Append(a, x), Append(b, y)) <=> Nearer(a, b) \/ (a = b /\ x < y)
  <1> DEFINE n == Len(a)
             c == Append(a, x)
             d == Append(b, y)
  <1>1. /\ n \in Nat /\ DOMAIN a = 1..n /\ DOMAIN b = 1..n
        /\ DOMAIN c = 1..(n + 1) /\ c[n + 1] = x /\ d[n + 1] = y
        /\ \A i \in 1..n : c[i] = a[i] /\ d[i] = b[i]
    OBVIOUS
  <1>2. (\A j \in 1..n : a[j] = b[j]) <=> a = b
    BY <1>1, SeqEqual
  <1> HIDE DEF c, d, n
  <1>3. ASSUME Nearer(c, d) PROVE Nearer(a, b) \/ (a = b /\ x < y)
    <2>1. PICK i \in 1..(n + 1) : c[i] < d[i] /\ \A j \in 1..(i - 1) : c[j] = d[j]
      BY <1>1, <1>3 DEF Nearer
    <2>2. CASE i = n + 1
      <3>1. \A j \in 1..n : j \in 1..(i - 1)
        BY <1>1, <2>2
      <3>2. \A j \in 1..n : a[j] = b[j]
        BY <1>1, <2>1, <3>1
      <3> QED
        BY <1>1, <1>2, <2>1, <2>2, <3>2
    <2>3. CASE i # n + 1
      <3>1. i \in 1..n /\ \A j \in 1..(i - 1) : j \in 1..n
        BY <1>1, <2>3
      <3>2. a[i] < b[i] /\ \A j \in 1..(i - 1) : a[j] = b[j]
        BY <1>1, <2>1, <3>1
      <3> QED
        BY <1>1, <3>1, <3>2 DEF Nearer
    <2> QED
      BY <2>2, <2>3
  <1>4. ASSUME Nearer(a, b) PROVE Nearer(c, d)
    <2>1. PICK i \in 1..n : a[i] < b[i] /\ \A j \in 1..(i - 1) : a[j] = b[j]
      BY <1>1, <1>4 DEF Nearer
    <2>2. i \in 1..(n + 1) /\ \A j \in 1..(i - 1) : j \in 1..n
      BY <1>1
    <2>3. c[i] < d[i] /\ \A j \in 1..(i - 1) : c[j] = d[j]
      BY <1>1, <2>1, <2>2
    <2> QED
      BY <1>1, <2>2, <2>3 DEF Nearer
  <1>5. ASSUME a = b, x < y PROVE Nearer(c, d)
    <2>1. n + 1 \in 1..(n + 1) /\ \A j \in 1..((n + 1) - 1) : j \in 1..n
      BY <1>1
    <2>2. c[n + 1] < d[n + 1] /\ \A j \in 1..((n + 1) - 1) : c[j] = d[j]
      BY <1>1, <1>5, <2>1
    <2> QED
      BY <1>1, <2>1, <2>2 DEF Nearer
  <1> QED
    BY <1>3, <1>4, <1>5 DEF c, d

\* Comparing bits one by one is comparing the numbers they are.
LEMMA NearerIsLess ==
  ASSUME NEW a \in Seq(0..1), NEW b \in Seq(0..1), Len(a) = Len(b)
  PROVE  /\ Nearer(a, b) <=> Number(a) < Number(b)
         /\ a = b <=> Number(a) = Number(b)
         /\ Number(a) \in Nat /\ Number(b) \in Nat
  <1> DEFINE Agree(s, t) == /\ Nearer(s, t) <=> Number(s) < Number(t)
                            /\ s = t <=> Number(s) = Number(t)
             P == {s \in Seq(0..1) : \A t \in Seq(0..1) : Len(s) = Len(t) => Agree(s, t)}
  <1>0. ASSUME NEW s \in Seq(0..1) PROVE s \in Seq(Nat)
    <2>1. (0..1) \subseteq Nat
      OBVIOUS
    <2> QED
      BY <2>1, SeqMonotonic
  <1>1. <<>> \in P
    <2> SUFFICES ASSUME NEW t \in Seq(0..1), Len(<<>>) = Len(t) PROVE Agree(<<>>, t)
      BY EmptySeq
    <2>1. t = <<>>
      BY EmptySeq
    <2>2. ~Nearer(<<>>, <<>>)
      BY DEF Nearer
    <2>3. Number(<<>>) \in Nat
      BY EmptySeq, NumberSteps
    <2> QED
      BY <2>1, <2>2, <2>3
  <1>2. ASSUME NEW s \in P, NEW x \in 0..1 PROVE Append(s, x) \in P
    <2> SUFFICES ASSUME NEW t \in Seq(0..1), Len(Append(s, x)) = Len(t) PROVE Agree(Append(s, x), t)
      BY AppendProperties
    <2>1. s \in Seq(0..1) /\ Len(Append(s, x)) = Len(s) + 1 /\ Len(s) \in Nat
      BY AppendProperties
    <2>2. t # <<>>
      <3>1. Len(t) # 0
        BY <2>1
      <3> QED
        BY <3>1, EmptySeq
    <2>3. PICK u \in Seq(0..1), y \in 0..1 : t = Append(u, y)
      BY <2>2, SequenceEmptyOrAppend
    <2>4. Len(u) = Len(s)
      <3>1. Len(t) = Len(u) + 1 /\ Len(u) \in Nat
        BY <2>3, AppendProperties
      <3>2. Len(t) = Len(s) + 1
        BY <2>1
      <3> QED
        BY <2>1, <3>1, <3>2
    <2>5. Agree(s, u)
      BY <2>4
    <2> HIDE DEF P
    <2>6. Number(Append(s, x)) = 2 * Number(s) + x /\ Number(s) \in Nat
      <3>1. s \in Seq(Nat) /\ x \in Nat
        BY <1>0, <2>1
      <3>2. Number(Append(s, x)) = AddBit(Number(s), x) /\ Number(s) \in Nat
        BY <3>1, NumberSteps
      <3> QED
        BY <3>2 DEF AddBit
    <2>7. Number(t) = 2 * Number(u) + y /\ Number(u) \in Nat
      <3>1. u \in Seq(Nat) /\ y \in Nat
        BY <1>0, <2>3
      <3>2. Number(Append(u, y)) = AddBit(Number(u), y) /\ Number(u) \in Nat
        BY <3>1, NumberSteps
      <3> QED
        BY <2>3, <3>2 DEF AddBit
    <2>8. Nearer(Append(s, x), t) <=> Nearer(s, u) \/ (s = u /\ x < y)
      BY <2>1, <2>3, <2>4, NearerAppend
    <2>9. Append(s, x) = t <=> s = u /\ x = y
      BY <2>1, <2>3, AppendInjective
    <2>10. x \in {0, 1} /\ y \in {0, 1}
      OBVIOUS
    <2>11. 2 * Number(s) + x < 2 * Number(u) + y <=>
              Number(s) < Number(u) \/ (Number(s) = Number(u) /\ x < y)
      BY <2>6, <2>7, <2>10
    <2>12. 2 * Number(s) + x = 2 * Number(u) + y <=> Number(s) = Number(u) /\ x = y
      BY <2>6, <2>7, <2>10
    <2> QED
      BY <2>5, <2>6, <2>7, <2>8, <2>9, <2>11, <2>12
  <1>3. P = Seq(0..1)
    <2> HIDE DEF P
    <2>1. P \in SUBSET Seq(0..1)
      BY DEF P
    <2> QED
      BY <1>1, <1>2, <2>1, SeqInduction
  <1>4. Agree(a, b)
    BY <1>3
  <1> QED
    BY <1>0, <1>4, NumberSteps

\* Distances to a target are numbers, and Nearer compares them.
LEMMA DistanceOrder ==
  ASSUME IdLen \in Nat, ByteBits \in Nat, NEW a, NEW b, NEW t
  PROVE  /\ Distance(a, t) \in Nat
         /\ XorDistance(a, t) = XorDistance(b, t) <=> Distance(a, t) = Distance(b, t)
         /\ Nearer(XorDistance(a, t), XorDistance(b, t)) <=> Distance(a, t) < Distance(b, t)
  <1> DEFINE n == IdLen * ByteBits
             c == XorDistance(a, t)
             d == XorDistance(b, t)
  <1>1. n \in Nat
    OBVIOUS
  <1> HIDE DEF n
  <1>2. \A x, y : XorBytes(x, y) \in Seq(0..1) /\ Len(XorBytes(x, y)) = n
    BY <1>1 DEF XorBytes, n
  <1>3. c \in Seq(0..1) /\ d \in Seq(0..1) /\ Len(c) = n /\ Len(d) = n
    BY <1>2 DEF XorDistance
  <1> HIDE DEF c, d
  <1>4. /\ Nearer(c, d) <=> Number(c) < Number(d)
        /\ c = d <=> Number(c) = Number(d)
        /\ Number(c) \in Nat
    BY <1>3, NearerIsLess
  <1> QED
    BY <1>4 DEF Distance, c, d

\* Pairs that are all bytes are the bytes decoded.
LEMMA AllBytes ==
  ASSUME ByteBits \in Nat \ {0}, NEW s \in Seq(Bytes)
  PROVE  BytesOf(s) = s
  <1> DEFINE P == {t \in Seq(Bytes) : BytesOf(t) = t}
  <1>1. \A t \in Seq(Bytes) : t \in Seq(Pairs)
    <2>1. Bytes \subseteq Pairs
      BY DEF Pairs
    <2> QED
      BY <2>1, SeqMonotonic
  <1>2. <<>> \in P
    BY <1>1, EmptySeq, PairSteps
  <1>3. ASSUME NEW t \in P, NEW x \in Bytes PROVE Append(t, x) \in P
    <2>1. t \in Seq(Bytes) /\ BytesOf(t) = t /\ Append(t, x) \in Seq(Bytes)
      BY AppendProperties
    <2>2. x # NoByte
      <3>1. DOMAIN x = 1..ByteBits /\ 1 \in 1..ByteBits
        BY DEF Bytes
      <3>2. DOMAIN NoByte = {}
        BY DEF NoByte
      <3> QED
        BY <3>1, <3>2
    <2>3. BytesOf(Append(t, x)) = KeepByte(t, x)
      BY <1>1, <2>1, PairSteps DEF Pairs
    <2> QED
      BY <2>1, <2>2, <2>3 DEF KeepByte
  <1>4. P = Seq(Bytes)
    <2> HIDE DEF P
    <2>1. P \in SUBSET Seq(Bytes)
      BY DEF P
    <2> QED
      BY <1>2, <1>3, <2>1, SeqInduction
  <1> QED
    BY <1>4

\* Ids as nodes make them are at one distance only if they are the same.
LEMMA OwnDistances ==
  ASSUME IdLen \in Nat, ByteBits \in Nat \ {0}, NEW a \in OwnIds, NEW b \in OwnIds, NEW t \in OwnIds,
         XorDistance(a, t) = XorDistance(b, t)
  PROVE  a = b
  <1>1. ASSUME NEW id \in OwnIds
        PROVE  HexToBytes(id) = id.pairs /\ id.pairs \in [1..IdLen -> Bytes] /\ Len(id.pairs) = IdLen
    <2>1. id.pairs \in [1..IdLen -> Bytes]
      BY DEF OwnIds
    <2>2. id.pairs \in Seq(Bytes) /\ Len(id.pairs) = IdLen
      <3> HIDE DEF Bytes
      <3> QED
        BY <2>1
    <2>3. BytesOf(id.pairs) = id.pairs
      BY <2>2, AllBytes
    <2> QED
      BY <2>1, <2>2, <2>3 DEF HexToBytes, BytesOf
  <1> DEFINE p == a.pairs
             q == b.pairs
             u == t.pairs
  <1>2. XorBytes(p, u) = XorBytes(q, u)
    BY <1>1 DEF XorDistance
  <1>3. /\ p \in [1..IdLen -> Bytes] /\ q \in [1..IdLen -> Bytes] /\ u \in [1..IdLen -> Bytes]
        /\ Len(p) = IdLen /\ Len(q) = IdLen /\ Len(u) = IdLen
    BY <1>1
  <1> HIDE DEF p, q, u
  <1>4. ASSUME NEW m \in 1..IdLen, NEW l \in 1..ByteBits PROVE p[m][l] = q[m][l]
    <2> DEFINE i == ByteBits * (m - 1) + (l - 1) + 1
    <2>1. m - 1 \in Nat /\ l - 1 \in 0..(ByteBits - 1)
      OBVIOUS
    <2>2. i - 1 = ByteBits * (m - 1) + (l - 1)
      BY <2>1
    <2>3. ByteOf(i) = m /\ BitOf(i) = l
      <3> DEFINE x == m - 1
                 y == l - 1
      <3>0. x \in Nat /\ y \in 0..(ByteBits - 1) /\ i - 1 = ByteBits * x + y
        BY <2>1, <2>2
      <3> HIDE DEF x, y, i
      <3>1. (i - 1) \div ByteBits = x /\ (i - 1) % ByteBits = y
        <4> DEFINE z == i - 1
                   w == ByteBits
        <4>1. z = w * x + y /\ w \in Nat \ {0} /\ x \in Nat /\ y \in 0..(w - 1)
          BY <3>0
        <4> HIDE DEF z, w
        <4>2. (w * x + y) \div w = x /\ (w * x + y) % w = y
          BY <4>1, DivModOf
        <4>3. z \div w = x /\ z % w = y
          BY Zenon, <4>1, <4>2
        <4> QED
          BY <4>3 DEF z, w
      <3> QED
        BY <2>1, <3>1 DEF ByteOf, BitOf, x, y
    <2>4. i \in 1..(IdLen * ByteBits)
      <3> DEFINE e == IdLen - m
      <3>1. e \in Nat /\ IdLen = (m - 1) + e + 1
        OBVIOUS
      <3> HIDE DEF e
      <3>2. IdLen * ByteBits = ByteBits * (m - 1) + ByteBits * e + ByteBits
        BY <2>1, <3>1
      <3>3. ByteBits * e \in Nat /\ ByteBits * (m - 1) \in Nat
        BY <2>1, <3>1
      <3> DEFINE x == ByteBits * (m - 1)
                 y == ByteBits * e
      <3> HIDE DEF x, y
      <3>4. x \in Nat /\ y \in Nat /\ i = x + (l - 1) + 1 /\ IdLen * ByteBits = x + y + ByteBits
        BY <3>2, <3>3 DEF x, y
      <3> HIDE DEF i
      <3> QED
        BY <2>1, <3>4
    <2> HIDE DEF i
    <2>5. /\ XorBytes(p, u)[i] = IF p[m][l] # u[m][l] THEN 1 ELSE 0
          /\ XorBytes(q, u)[i] = IF q[m][l] # u[m][l] THEN 1 ELSE 0
      BY <1>3, <2>3, <2>4 DEF XorBytes
    <2>6. p[m][l] \in {0, 1} /\ q[m][l] \in {0, 1} /\ u[m][l] \in {0, 1}
      BY <1>3 DEF Bytes
    <2> QED
      BY <1>2, <2>5, <2>6
  <1>5. \A m \in 1..IdLen : p[m] = q[m]
    <2> SUFFICES ASSUME NEW m \in 1..IdLen PROVE p[m] = q[m]
      OBVIOUS
    <2>1. p[m] \in [1..ByteBits -> 0..1] /\ q[m] \in [1..ByteBits -> 0..1]
      BY <1>3 DEF Bytes
    <2> QED
      BY <1>4, <2>1
  <1>6. p = q
    <2> HIDE DEF Bytes
    <2> QED
      BY <1>3, <1>5
  <1>7. \A id \in OwnIds : id = [pairs |-> id.pairs, respelled |-> FALSE]
    BY DEF OwnIds, Ids
  <1> QED
    BY <1>6, <1>7 DEF p, q

Below(S, d, a) == {b \in S : d[b] < d[a]}
Rank(S, d, a) == Cardinality(Below(S, d, a))

\* An order in which no two are equal numbers a finite set from 0 on.
LEMMA Ranking ==
  ASSUME NEW S, IsFiniteSet(S), NEW d \in [S -> Nat], \A a, b \in S : d[a] = d[b] => a = b
  PROVE  /\ Cardinality(S) \in Nat
         /\ \A a \in S : Rank(S, d, a) \in 0..(Cardinality(S) - 1)
         /\ \A a, b \in S : d[a] < d[b] <=> Rank(S, d, a) < Rank(S, d, b)
         /\ \A i \in 0..(Cardinality(S) - 1) : \E a \in S : Rank(S, d, a) = i
  <1> DEFINE n == Cardinality(S)
             R(a) == Rank(S, d, a)
  <1>1. n \in Nat
    BY FS_CardinalityType
  <1>2. ASSUME NEW a \in S
        PROVE  IsFiniteSet(Below(S, d, a)) /\ R(a) \in Nat /\ R(a) < n
    <2>1. Below(S, d, a) \in SUBSET S /\ a \notin Below(S, d, a)
      BY DEF Below
    <2>2. /\ IsFiniteSet(Below(S, d, a))
          /\ R(a) <= n
          /\ n = R(a) => S = Below(S, d, a)
      BY <2>1, FS_Subset DEF Rank
    <2>3. R(a) \in Nat
      BY <2>2, FS_CardinalityType DEF Rank
    <2> QED
      BY <1>1, <2>1, <2>2, <2>3
  <1>3. ASSUME NEW a \in S, NEW b \in S, d[a] < d[b] PROVE R(a) < R(b)
    <2>1. Below(S, d, a) \in SUBSET Below(S, d, b)
      BY <1>3 DEF Below
    <2>2. a \in Below(S, d, b) /\ a \notin Below(S, d, a)
      BY <1>3 DEF Below
    <2>3. R(a) <= R(b) /\ (R(b) = R(a) => Below(S, d, b) = Below(S, d, a))
      BY <1>2, <2>1, FS_Subset DEF Rank
    <2> HIDE DEF R
    <2> QED
      BY <1>2, <2>2, <2>3
  <1> HIDE DEF R
  <1>4. ASSUME NEW a \in S, NEW b \in S, R(a) < R(b) PROVE d[a] < d[b]
    <2>1. d[a] \in Nat /\ d[b] \in Nat
      OBVIOUS
    <2>2. CASE d[b] < d[a]
      BY <1>2, <1>3, <1>4, <2>2
    <2>3. CASE d[a] = d[b]
      BY <1>2, <1>4, <2>3
    <2> QED
      BY <2>1, <2>2, <2>3
  <1>5. ASSUME NEW i \in 0..(n - 1) PROVE \E a \in S : R(a) = i
    <2> DEFINE f == [a \in S |-> R(a)]
               N == 0..(n - 1)
    <2>1. \A a \in S : R(a) \in N
      BY <1>1, <1>2
    <2>2. \A a, b \in S : R(a) = R(b) => a = b
      <3> SUFFICES ASSUME NEW a \in S, NEW b \in S, R(a) = R(b) PROVE a = b
        OBVIOUS
      <3>1. ~(d[a] < d[b]) /\ ~(d[b] < d[a])
        BY <1>2, <1>3
      <3>2. d[a] \in Nat /\ d[b] \in Nat
        OBVIOUS
      <3> QED
        BY <3>1, <3>2
    <2>3. IsFiniteSet(N) /\ Cardinality(N) = n
      <3>1. 0 \in Int /\ n - 1 \in Int
        BY <1>1
      <3>2. IsFiniteSet(N) /\ Cardinality(N) = IF 0 > n - 1 THEN 0 ELSE (n - 1) - 0 + 1
        <4> HIDE DEF n
        <4> QED
          BY <3>1, FS_Interval
      <3> QED
        BY <1>1, <3>2
    <2>4. f \in Injection(S, N)
      BY <2>1, <2>2 DEF Injection, IsInjective
    <2>5. f \in Surjection(S, N)
      <3> HIDE DEF f, N
      <3> QED
        BY <2>3, <2>4, FS_Injection
    <2> QED
      BY <2>5 DEF Surjection
  <1> QED
    BY <1>1, <1>2, <1>3, <1>4, <1>5 DEF R

\* The peers returned: those of the smallest distances, in their order, and in
\* the order of the table where the distances are the same.
Ahead(table, target, a, b) ==
    \/ Distance(a, target) < Distance(b, target)
    \/ /\ Distance(a, target) = Distance(b, target)
       /\ \E i, j \in DOMAIN table : i < j /\ table[i] = a /\ table[j] = b

LEMMA ClosestRanked ==
  ASSUME IdLen \in Nat, ByteBits \in Nat, NEW table \in Seq(Ids),
         \A i, j \in DOMAIN table : table[i] = table[j] => i = j,
         NEW target, NEW k \in Nat
  PROVE  LET found == FindClosest(table, target, k)
         IN  /\ ToSet(found) \subseteq ToSet(table)
             /\ Len(found) = IF k < Len(table) THEN k ELSE Len(table)
             /\ \A i, j \in DOMAIN found : i < j => /\ Ahead(table, target, found[i], found[j])
                                                    /\ found[i] # found[j]
             /\ \A id \in ToSet(table) \ ToSet(found), i \in DOMAIN found : Ahead(table, target, found[i], id)
  <1> DEFINE size == Len(table)
             S == 1..size
             n == IF k < size THEN k ELSE size
             dist(i) == Distance(table[i], target)
             d == [i \in S |-> dist(i) * (size + 1) + i]
             R(i) == Rank(S, d, i)
             found == FindClosest(table, target, k)
  <1>1. size \in Nat /\ DOMAIN table = S /\ \A i \in S : dist(i) \in Nat
    BY DistanceOrder
  <1>2. ASSUME NEW i \in S, NEW j \in S
        PROVE  /\ d[i] \in Nat
               /\ d[j] < d[i] <=> dist(j) < dist(i) \/ (dist(j) = dist(i) /\ j < i)
               /\ d[j] = d[i] => j = i
    <2> DEFINE x == dist(i)
               y == dist(j)
    <2>1. x \in Nat /\ y \in Nat
      BY <1>1
    <2>2. d[i] = x * (size + 1) + i /\ d[j] = y * (size + 1) + j
      OBVIOUS
    <2> HIDE DEF x, y, d, dist
    <2>3. i \in Nat /\ j \in Nat /\ i < size + 1 /\ j < size + 1 /\ i > 0 /\ j > 0
      BY <1>1
    <2>4. x * (size + 1) \in Nat /\ y * (size + 1) \in Nat
      BY <1>1, <2>1
    <2>5. CASE y < x
      <3> DEFINE e == x - y - 1
      <3>1. e \in Nat /\ x = y + e + 1
        BY <2>1, <2>5
      <3> HIDE DEF e
      <3>2. x * (size + 1) = y * (size + 1) + e * (size + 1) + (size + 1) /\ e * (size + 1) \in Nat
        BY <1>1, <2>1, <3>1
      <3> DEFINE f == e * (size + 1)
                 g == y * (size + 1)
                 h == x * (size + 1)
      <3> HIDE DEF f, g, h, size
      <3>3. d[j] < d[i]
        <4>1. h = g + f + (size + 1) /\ f \in Nat /\ g \in Nat /\ d[i] = h + i /\ d[j] = g + j
          BY <2>2, <2>4, <3>2 DEF f, g, h
        <4> QED
          BY <1>1, <2>3, <4>1
      <3> QED
        BY <2>1, <2>2, <2>3, <2>4, <2>5, <3>3 DEF x, y
    <2>6. CASE x < y
      <3> DEFINE e == y - x - 1
      <3>1. e \in Nat /\ y = x + e + 1
        BY <2>1, <2>6
      <3> HIDE DEF e
      <3>2. y * (size + 1) = x * (size + 1) + e * (size + 1) + (size + 1) /\ e * (size + 1) \in Nat
        BY <1>1, <2>1, <3>1
      <3> DEFINE f == e * (size + 1)
                 g == x * (size + 1)
                 h == y * (size + 1)
      <3> HIDE DEF f, g, h, size
      <3>3. d[i] < d[j]
        <4>1. h = g + f + (size + 1) /\ f \in Nat /\ g \in Nat /\ d[j] = h + j /\ d[i] = g + i
          BY <2>2, <2>4, <3>2 DEF f, g, h
        <4> QED
          BY <1>1, <2>3, <4>1
      <3>4. d[i] \in Nat /\ d[j] \in Nat
        BY <2>2, <2>3, <2>4
      <3> QED
        BY <2>1, <2>6, <3>3, <3>4 DEF x, y
    <2>7. CASE x = y
      <3> DEFINE h == x * (size + 1)
      <3>1. h \in Nat /\ d[i] = h + i /\ d[j] = h + j
        BY <2>2, <2>4, <2>7
      <3> HIDE DEF h
      <3> QED
        BY <2>1, <2>3, <2>7, <3>1 DEF x, y
    <2> QED
      BY <2>1, <2>5, <2>6, <2>7
  <1>3. d \in [S -> Nat] /\ \A a, b \in S : d[a] = d[b] => a = b
    BY <1>2
  <1>4. ASSUME NEW i \in S
        PROVE  {j \in DOMAIN table : \/ Nearer(XorDistance(table[j], target), XorDistance(table[i], target))
                                     \/ XorDistance(table[j], target) = XorDistance(table[i], target) /\ j < i}
                 = Below(S, d, i)
    <2>1. \A j \in S : /\ Nearer(XorDistance(table[j], target), XorDistance(table[i], target)) <=> dist(j) < dist(i)
                       /\ XorDistance(table[j], target) = XorDistance(table[i], target) <=> dist(j) = dist(i)
      BY DistanceOrder
    <2> HIDE DEF d, dist
    <2> QED
      BY <1>1, <1>2, <2>1 DEF Below
  <1>5. IsFiniteSet(S) /\ Cardinality(S) = size
    <2>1. 1 \in Int /\ size \in Int
      BY <1>1
    <2>2. IsFiniteSet(S) /\ Cardinality(S) = IF 1 > size THEN 0 ELSE size - 1 + 1
      <3> HIDE DEF size
      <3> QED
        BY <2>1, FS_Interval
    <2> QED
      BY <1>1, <2>2
  <1> HIDE DEF d
  <1>6. /\ \A a, b \in S : d[a] < d[b] <=> R(a) < R(b)
        /\ \A a \in S : R(a) \in 0..(size - 1)
        /\ \A i \in 0..(size - 1) : \E a \in S : R(a) = i
    <2> HIDE DEF S
    <2>1. /\ \A a \in S : Rank(S, d, a) \in 0..(Cardinality(S) - 1)
          /\ \A a, b \in S : d[a] < d[b] <=> Rank(S, d, a) < Rank(S, d, b)
          /\ \A i \in 0..(Cardinality(S) - 1) : \E a \in S : Rank(S, d, a) = i
      BY <1>3, <1>5, Ranking
    <2> QED
      BY <1>5, <2>1
  <1> DEFINE at == [m \in 1..n |-> CHOOSE i \in S : R(i) = m - 1]
  <1>7. found = [m \in 1..n |-> table[at[m]]]
    <2> DEFINE C(m) == CHOOSE i \in DOMAIN table :
                  Cardinality({j \in DOMAIN table :
                     \/ Nearer(XorDistance(table[j], target), XorDistance(table[i], target))
                     \/ XorDistance(table[j], target) = XorDistance(table[i], target) /\ j < i}) = m - 1
    <2>1. \A m \in 1..n : C(m) = CHOOSE i \in S : R(i) = m - 1
      BY <1>1, <1>4 DEF Rank
    <2>2. found = [m \in 1..n |-> table[C(m)]]
      BY DEF FindClosest
    <2> HIDE DEF C, found, n, R, S
    <2> QED
      BY <2>1, <2>2
  <1>8. n \in Nat /\ n <= size /\ (n < size => n = k)
    <2> HIDE DEF size
    <2> QED
      BY <1>1
  <1>9. ASSUME NEW m \in 1..n PROVE at[m] \in S /\ R(at[m]) = m - 1
    <2>1. m - 1 \in 0..(size - 1)
      <3> HIDE DEF n, size
      <3> QED
        BY <1>1, <1>8
    <2>2. \E a \in S : R(a) = m - 1
      BY <1>6, <2>1
    <2> QED
      BY <2>2
  <1> HIDE DEF at
  <1>10. DOMAIN found = 1..n /\ Len(found) = n /\ \A m \in 1..n : found[m] = table[at[m]]
    BY <1>7, <1>8
  <1> HIDE DEF found, n, R
  <1>11. ToSet(found) \subseteq ToSet(table)
    BY <1>1, <1>9, <1>10 DEF ToSet
  <1>12. ASSUME NEW i \in S, NEW j \in S, d[i] < d[j]
         PROVE  Ahead(table, target, table[i], table[j]) /\ table[i] # table[j]
    <2>1. dist(i) < dist(j) \/ (dist(i) = dist(j) /\ i < j)
      BY <1>2, <1>12
    <2>2. i # j
      BY <1>3, <1>12
    <2> QED
      BY <1>1, <2>1, <2>2 DEF Ahead
  <1>13. ASSUME NEW i \in 1..n, NEW j \in 1..n, i < j PROVE d[at[i]] < d[at[j]]
    <2>1. at[i] \in S /\ at[j] \in S /\ R(at[i]) = i - 1 /\ R(at[j]) = j - 1
      BY <1>9
    <2>2. R(at[i]) < R(at[j])
      BY <1>8, <1>13, <2>1
    <2> QED
      BY <1>6, <2>1, <2>2
  <1>14. ASSUME NEW id \in ToSet(table) \ ToSet(found), NEW i \in 1..n
         PROVE  Ahead(table, target, found[i], id)
    <2>1. PICK l \in S : table[l] = id
      BY <1>1 DEF ToSet
    <2>2. R(l) \in Nat /\ R(l) \in 0..(size - 1)
      BY <1>1, <1>6
    <2>3. ASSUME R(l) < n PROVE FALSE
      <3> DEFINE j == R(l) + 1
      <3>1. j \in 1..n /\ j - 1 = R(l)
        BY <1>8, <2>2, <2>3
      <3>2. at[j] \in S /\ R(at[j]) = R(l)
        BY <1>9, <3>1
      <3>3. at[j] = l
        <4>1. ~(d[at[j]] < d[l]) /\ ~(d[l] < d[at[j]])
          BY <1>6, <2>2, <3>2
        <4>2. d[at[j]] \in Nat /\ d[l] \in Nat
          BY <1>3, <3>2
        <4>3. d[at[j]] = d[l]
          BY <4>1, <4>2
        <4> QED
          BY <1>3, <3>2, <4>3
      <3> QED
        BY <1>10, <2>1, <3>1, <3>3 DEF ToSet
    <2>4. R(at[i]) < R(l)
      BY <1>8, <1>9, <2>2, <2>3
    <2>5. d[at[i]] < d[l]
      BY <1>6, <1>9, <2>4
    <2> QED
      BY <1>9, <1>10, <1>12, <2>1, <2>5
  <1>15. ASSUME NEW i \in 1..n, NEW j \in 1..n, i < j
         PROVE  Ahead(table, target, found[i], found[j]) /\ found[i] # found[j]
    <2>1. at[i] \in S /\ at[j] \in S /\ d[at[i]] < d[at[j]]
      BY <1>9, <1>13, <1>15
    <2>2. found[i] = table[at[i]] /\ found[j] = table[at[j]]
      BY <1>10
    <2>3. Ahead(table, target, table[at[i]], table[at[j]]) /\ table[at[i]] # table[at[j]]
      BY <1>12, <2>1
    <2> QED
      BY Zenon, <2>2, <2>3
  <1>16. /\ ToSet(found) \subseteq ToSet(table)
         /\ Len(found) = n
         /\ \A i, j \in DOMAIN found : i < j => Ahead(table, target, found[i], found[j]) /\ found[i] # found[j]
         /\ \A id \in ToSet(table) \ ToSet(found), i \in DOMAIN found : Ahead(table, target, found[i], id)
    BY <1>10, <1>11, <1>14, <1>15
  <1> QED
    BY Zenon, <1>16 DEF found, n, size
-----------------------------------------------------------------------------
(* verify_pow. *)

\* The least of some indices.
LEMMA LeastIndex ==
  ASSUME NEW n \in Nat, NEW t \in SUBSET (1..n), t # {}
  PROVE  \E m \in t : \A y \in t : m <= y
  <1> SUFFICES ASSUME \A m \in t : \E y \in t : ~(m <= y) PROVE FALSE
    OBVIOUS
  <1> DEFINE C == {k \in Nat : \A i \in t : i > k}
  <1>1. 0 \in C
    OBVIOUS
  <1>2. ASSUME NEW k \in C PROVE k + 1 \in C
    OBVIOUS
  <1>3. C = Nat
    <2> HIDE DEF C
    <2>1. C \in SUBSET Nat
      BY DEF C
    <2> QED
      BY <1>1, <1>2, <2>1, SetInduction
  <1>4. \A i \in t : i > n
    BY <1>3
  <1>5. PICK i \in t : TRUE
    OBVIOUS
  <1> QED
    BY <1>4, <1>5

\* Powers of two: a set with one element more has twice as many subsets.
LEMMA Power ==
  ASSUME NEW n \in Nat
  PROVE  2^n \in Nat /\ 2^(n + 1) = 2 * 2^n
  <1> DEFINE S == SUBSET (1..n)
             U == {t \cup {n + 1} : t \in S}
             V == SUBSET (1..(n + 1))
  <1>1. /\ IsFiniteSet(1..n) /\ Cardinality(1..n) = n
        /\ IsFiniteSet(1..(n + 1)) /\ Cardinality(1..(n + 1)) = n + 1
    <2>1. 1 \in Int /\ n \in Int /\ n + 1 \in Int
      OBVIOUS
    <2>2. /\ IsFiniteSet(1..n) /\ Cardinality(1..n) = IF 1 > n THEN 0 ELSE n - 1 + 1
          /\ IsFiniteSet(1..(n + 1)) /\ Cardinality(1..(n + 1)) = IF 1 > n + 1 THEN 0 ELSE (n + 1) - 1 + 1
      BY <2>1, FS_Interval
    <2> QED
      BY <2>2
  <1>2. /\ IsFiniteSet(S) /\ Cardinality(S) = 2^n
        /\ IsFiniteSet(V) /\ Cardinality(V) = 2^(n + 1)
    BY <1>1, FS_SUBSET
  <1>3. Cardinality(S) \in Nat
    BY <1>2, FS_CardinalityType
  <1>4. IsFiniteSet(U) /\ Cardinality(U) = Cardinality(S)
    <2> DEFINE f == [t \in S |-> t \cup {n + 1}]
    <2>1. n + 1 \notin 1..n
      OBVIOUS
    <2>2. \A t, u \in S : t \cup {n + 1} = u \cup {n + 1} => t = u
      <3> SUFFICES ASSUME NEW t \in S, NEW u \in S, t \cup {n + 1} = u \cup {n + 1} PROVE t = u
        OBVIOUS
      <3>1. n + 1 \notin t /\ n + 1 \notin u
        BY <2>1
      <3> QED
        BY <3>1
    <2>3. f \in Bijection(S, U)
      <3>6. f \in [S -> U] /\ \A t \in S : f[t] = t \cup {n + 1}
        OBVIOUS
      <3>1. f \in [S -> U] /\ \A t, u \in S : f[t] = f[u] => t = u
        <4> HIDE DEF f, S, U
        <4> QED
          BY <2>2, <3>6
      <3>2. \A u \in U : \E t \in S : f[t] = u
        OBVIOUS
      <3> HIDE DEF f, S, U
      <3>3. DOMAIN f = S
        BY <3>1
      <3>4. f \in Injection(S, U)
        BY <3>1, <3>3 DEF Injection, IsInjective
      <3>5. f \in Surjection(S, U)
        BY <3>1, <3>2 DEF Surjection
      <3> QED
        BY <3>4, <3>5 DEF Bijection
    <2> HIDE DEF f, S, U
    <2> QED
      BY <1>2, <2>3, FS_Bijection DEF ExistsBijection
  <1>5. V = S \cup U /\ S \cap U = {}
    <2>1. \A i : i \in 1..(n + 1) <=> i \in 1..n \/ i = n + 1
      OBVIOUS
    <2>2. n + 1 \notin 1..n
      OBVIOUS
    <2>3. ASSUME NEW t \in V PROVE t \in S \cup U
      <3>1. CASE n + 1 \notin t
        BY <2>1, <3>1
      <3>2. CASE n + 1 \in t
        <4>1. t \ {n + 1} \in S /\ t = (t \ {n + 1}) \cup {n + 1}
          BY <2>1, <3>2
        <4> QED
          BY <4>1
      <3> QED
        BY <3>1, <3>2
    <2>4. S \cup U \subseteq V
      BY <2>1
    <2> QED
      BY <2>2, <2>3, <2>4
  <1>6. Cardinality(V) = Cardinality(S) + Cardinality(U) - Cardinality(S \cap U)
    <2> HIDE DEF S, U, V
    <2> QED
      BY <1>2, <1>4, <1>5, FS_Union
  <1>7. Cardinality(S \cap U) = 0
    BY <1>5, FS_EmptySet
  <1> DEFINE p == 2^n
             q == 2^(n + 1)
  <1>8. Cardinality(S) = p /\ Cardinality(V) = q
    BY <1>2
  <1> HIDE DEF S, U, V, p, q
  <1>9. p \in Nat /\ q = 2 * p
    BY <1>3, <1>4, <1>6, <1>7, <1>8
  <1> QED
    BY <1>9 DEF p, q

LEMMA PowerZero == 2^0 = 1
  BY SMTT(30)

LEMMA PowerPositive ==
  ASSUME NEW n \in Nat
  PROVE  2^n \in Nat \ {0}
  <1> DEFINE U == {i \in Nat : 2^i > 0}
  <1>1. 0 \in U
    BY PowerZero
  <1>2. ASSUME NEW i \in U PROVE i + 1 \in U
    <2> DEFINE p == 2^i
               q == 2^(i + 1)
    <2>1. p \in Nat /\ q = 2 * p /\ p > 0
      BY Power
    <2> HIDE DEF p, q
    <2>2. q > 0
      BY <2>1
    <2> QED
      BY <2>2 DEF q
  <1>3. U = Nat
    <2> HIDE DEF U
    <2>1. U \in SUBSET Nat
      BY DEF U
    <2> QED
      BY <1>1, <1>2, <2>1, SetInduction
  <1>4. 2^n > 0 /\ 2^n \in Nat
    BY <1>3, Power
  <1> DEFINE p == 2^n
  <1> HIDE DEF p
  <1>5. p > 0 /\ p \in Nat
    BY <1>4 DEF p
  <1>6. p \in Nat \ {0}
    BY <1>5
  <1> QED
    BY <1>6 DEF p

LEMMA PowerSum ==
  ASSUME NEW n \in Nat, NEW m \in Nat
  PROVE  2^(n + m) = 2^n * 2^m
  <1> DEFINE U == {i \in Nat : 2^(n + i) = 2^n * 2^i}
  <1>1. 0 \in U
    <2>1. n + 0 = n /\ 2^0 = 1 /\ 2^n \in Nat
      BY PowerZero, Power
    <2> DEFINE p == 2^n
    <2>2. p * 1 = p
      BY <2>1
    <2> QED
      BY <2>1, <2>2
  <1>2. ASSUME NEW i \in U PROVE i + 1 \in U
    <2> DEFINE p == 2^n
               q == 2^i
               r == 2^(n + i)
    <2>1. p \in Nat /\ q \in Nat /\ 2^(i + 1) = 2 * q
      BY Power
    <2>2. n + i \in Nat /\ n + (i + 1) = (n + i) + 1
      OBVIOUS
    <2>3. 2^(n + (i + 1)) = 2 * r /\ r = p * q
      BY <2>2, Power
    <2> HIDE DEF p, q, r
    <2>4. 2 * (p * q) = p * (2 * q)
      BY <2>1
    <2>5. 2^(n + (i + 1)) = p * 2^(i + 1)
      BY <2>1, <2>3, <2>4
    <2> QED
      BY <2>5 DEF p
  <1>3. U = Nat
    <2> HIDE DEF U
    <2>1. U \in SUBSET Nat
      BY DEF U
    <2> QED
      BY <1>1, <1>2, <2>1, SetInduction
  <1> QED
    BY <1>3

ByteBit(v, p) == (v \div 2^(ByteBits - 1 - p)) % 2

\* A byte begins with m zero bits when it is below the power of two of the rest.
LEMMA ZeroBits ==
  ASSUME ByteBits \in Nat \ {0}, NEW v \in 0..MaxByte, NEW m \in 0..ByteBits
  PROVE  (\A p \in 0..(m - 1) : ByteBit(v, p) = 0) <=> v < 2^(ByteBits - m)
  <1> DEFINE Zeros(i) == \A p \in 0..(i - 1) : ByteBit(v, p) = 0
             Low(i) == v < 2^(ByteBits - i)
             S == {i \in 0..ByteBits : Zeros(i) <=> Low(i)}
  <1>0. v \in Nat /\ v < 2^ByteBits /\ 2^ByteBits \in Nat
    <2> DEFINE b == 2^ByteBits
    <2>1. b \in Nat /\ v \in 0..(b - 1)
      BY Power DEF MaxByte
    <2> HIDE DEF b
    <2>2. v \in Nat /\ v < b
      BY <2>1
    <2> QED
      BY <2>1, <2>2 DEF b
  <1>1. 0 \in S
    <2>1. ByteBits - 0 = ByteBits /\ 0..(0 - 1) = {}
      OBVIOUS
    <2>2. Low(0) /\ Zeros(0)
      BY <1>0, <2>1
    <2> QED
      BY <2>2
  <1>2. ASSUME NEW i \in 1..ByteBits, i - 1 \in S PROVE i \in S
    <2> DEFINE k == ByteBits - i
               w == 2^k
               u == 2^(k + 1)
    <2>1. k \in Nat /\ ByteBits - (i - 1) = k + 1 /\ ByteBits - 1 - (i - 1) = k
      OBVIOUS
    <2>2. w \in Nat \ {0} /\ u = 2 * w
      BY <2>1, Power, PowerPositive
    <2>3. Low(i - 1) <=> v < u
      BY <2>1
    <2>4. ByteBit(v, i - 1) = (v \div w) % 2
      BY <2>1 DEF ByteBit
    <2>5. Zeros(i) <=> Zeros(i - 1) /\ ByteBit(v, i - 1) = 0
      <3>1. \A p : p \in 0..(i - 1) <=> p \in 0..((i - 1) - 1) \/ p = i - 1
        OBVIOUS
      <3> QED
        BY <3>1
    <2>6. Low(i) <=> v < w
      OBVIOUS
    <2>7. Zeros(i - 1) <=> Low(i - 1)
      BY <1>2
    <2> HIDE DEF Zeros, Low, w, u
    <2>8. v < 2 * w => ((v \div w) % 2 = 0 <=> v < w)
      <3>1. CASE v < w
        <4>1. v = w * 0 + v /\ v \in 0..(w - 1)
          BY <1>0, <2>2, <3>1
        <4>2. (w * 0 + v) \div w = 0
          BY <2>2, <4>1, DivModOf
        <4>3. v \div w = 0
          BY <4>1, <4>2
        <4> QED
          BY <3>1, <4>3
      <3>2. CASE ~(v < w) /\ v < 2 * w
        <4> DEFINE r == v - w
        <4>1. v = w * 1 + r /\ r \in 0..(w - 1)
          BY <1>0, <2>2, <3>2
        <4>2. (w * 1 + r) \div w = 1
          BY <2>2, <4>1, DivModOf
        <4>3. v \div w = 1
          BY <4>1, <4>2
        <4> QED
          BY <3>2, <4>3
      <3> QED
        BY <3>1, <3>2
    <2>9. v < w => v < 2 * w
      BY <1>0, <2>2
    <2>10. Zeros(i) <=> Low(i)
      BY <2>2, <2>3, <2>4, <2>5, <2>6, <2>7, <2>8, <2>9
    <2> QED
      BY <2>10
  <1>3. S = 0..ByteBits
    <2>1. S \in SUBSET (0..ByteBits)
      OBVIOUS
    <2> HIDE DEF S
    <2> QED
      BY <1>1, <1>2, <2>1, BoundedInduction
  <1> QED
    BY <1>3

\* What the threshold of a byte is.
LEMMA PartialIsPower ==
  ASSUME ByteBits \in Nat \ {0}, NEW m \in 0..ByteBits
  PROVE  PartialByte(m) = 2^(ByteBits - m) - 1
  <1> DEFINE a == 2^(ByteBits - m)
             b == 2^m
             c == 2^ByteBits
  <1>1. ByteBits - m \in Nat /\ m \in Nat /\ (ByteBits - m) + m = ByteBits
    OBVIOUS
  <1>2. c = a * b
    BY <1>1, PowerSum
  <1>3. a \in Nat \ {0} /\ b \in Nat \ {0}
    BY <1>1, PowerPositive
  <1>4. PartialByte(m) = (c - 1) \div b
    BY DEF PartialByte, MaxByte
  <1> HIDE DEF a, b, c
  <1>5. c - 1 = b * (a - 1) + (b - 1)
    BY <1>2, <1>3
  <1>6. a - 1 \in Nat /\ b - 1 \in 0..(b - 1)
    BY <1>3
  <1>7. (b * (a - 1) + (b - 1)) \div b = a - 1
    BY <1>3, <1>6, DivModOf
  <1>8. PartialByte(m) = a - 1
    BY <1>4, <1>5, <1>7
  <1> QED
    BY <1>8 DEF a

\* A hash is at most the threshold when its full bytes are zero and the next is
\* at most the partial one: what follows is at most the largest byte anyway.
LEMMA MeetsIsLeading ==
  ASSUME HashLen \in Nat \ {0}, MaxByte \in Nat, NEW hash \in [1..HashLen -> 0..MaxByte],
         NEW d \in Nat, NEW f \in Nat, NEW r, f < HashLen, f = d \div ByteBits, r = d % ByteBits,
         PartialByte(r) \in 0..MaxByte
  PROVE  MeetsDifficulty(hash, Threshold(d)) <=>
            (\A j \in 1..f : hash[j] = 0) /\ hash[f + 1] <= PartialByte(r)
  <1> DEFINE t == Threshold(d)
             q == PartialByte(r)
             Leading == (\A j \in 1..f : hash[j] = 0) /\ hash[f + 1] <= q
  <1>1. /\ t \in [1..HashLen -> 0..MaxByte]
        /\ \A j \in 1..f : j \in 1..HashLen /\ t[j] = 0
        /\ f + 1 \in 1..HashLen /\ t[f + 1] = q
        /\ \A j \in (f + 2)..HashLen : j \in 1..HashLen /\ t[j] = MaxByte
    BY SMTT(30) DEF Threshold
  <1> HIDE DEF t, q
  <1>2. \A j \in 1..HashLen : hash[j] \in Nat /\ hash[j] <= MaxByte /\ t[j] \in Nat
    BY SMTT(30), <1>1
  <1>3. q \in Nat
    BY DEF q
  <1>4. ASSUME hash = t PROVE Leading
    BY SMTT(30), <1>1, <1>3, <1>4
  <1>5. ASSUME NEW i \in 1..HashLen, hash[i] < t[i], \A j \in 1..(i - 1) : hash[j] = t[j]
        PROVE  Leading
    <2>1. i > f
      <3> SUFFICES ASSUME ~(i > f) PROVE FALSE
        OBVIOUS
      <3>1. i \in 1..f
        OBVIOUS
      <3>2. t[i] = 0 /\ hash[i] \in Nat
        BY <1>1, <1>2, <3>1
      <3> QED
        BY <1>5, <3>2
    <2>2. \A j \in 1..f : hash[j] = 0
      BY <1>1, <1>5, <2>1
    <2>3. CASE i = f + 1
      <3>1. hash[f + 1] < q /\ hash[f + 1] \in Nat
        BY <1>1, <1>2, <1>5, <2>3
      <3>2. hash[f + 1] <= q
        BY <1>3, <3>1
      <3> QED
        BY <2>2, <3>2
    <2>4. CASE i # f + 1
      <3>1. f + 1 \in 1..(i - 1)
        BY SMTT(30), <2>1, <2>4
      <3>2. hash[f + 1] = q
        BY <1>1, <1>5, <3>1
      <3> QED
        BY <1>3, <2>2, <3>2
    <2> QED
      BY <2>3, <2>4
  <1>6. ASSUME Leading PROVE MeetsDifficulty(hash, t)
    <2>1. CASE hash[f + 1] < q
      <3>1. \A j \in 1..((f + 1) - 1) : hash[j] = t[j]
        BY <1>1, <1>6
      <3> QED
        BY <1>1, <2>1, <3>1 DEF MeetsDifficulty
    <2>2. CASE hash[f + 1] = q
      <3> DEFINE D == {j \in 1..HashLen : hash[j] # t[j]}
      <3>1. CASE D = {}
        <4>1. \A j \in 1..HashLen : hash[j] = t[j]
          BY <3>1
        <4>2. hash = t
          BY <1>1, <4>1
        <4> QED
          BY <4>2 DEF MeetsDifficulty
      <3>2. CASE D # {}
        <4>1. PICK i \in D : \A j \in D : i <= j
          <5>1. HashLen \in Nat /\ D \in SUBSET (1..HashLen)
            OBVIOUS
          <5> HIDE DEF D
          <5> QED
            BY <3>2, <5>1, LeastIndex
        <4>2. i \in 1..HashLen /\ \A j \in 1..(i - 1) : hash[j] = t[j]
          <5> SUFFICES ASSUME NEW j \in 1..(i - 1) PROVE hash[j] = t[j]
            OBVIOUS
          <5>1. j \in 1..HashLen /\ ~(i <= j)
            OBVIOUS
          <5> QED
            BY <4>1, <5>1
        <4>3. i \in (f + 2)..HashLen
          <5>1. i \notin 1..f
            BY <1>1, <1>6
          <5>2. i # f + 1
            BY <1>1, <2>2
          <5> QED
            BY SMTT(30), <5>1, <5>2
        <4>4. hash[i] < t[i]
          <5>1. t[i] = MaxByte /\ hash[i] # t[i]
            BY <1>1, <4>3
          <5>2. hash[i] \in Nat /\ hash[i] <= MaxByte
            BY <1>2
          <5> QED
            BY <5>1, <5>2
        <4> QED
          BY <4>2, <4>4 DEF MeetsDifficulty
      <3> QED
        BY <3>1, <3>2
    <2>3. hash[f + 1] \in Nat
      BY <1>1, <1>2
    <2> QED
      BY <1>3, <1>6, <2>1, <2>2, <2>3
  <1>7. MeetsDifficulty(hash, t) => Leading
    BY <1>4, <1>5 DEF MeetsDifficulty
  <1> QED
    BY <1>6, <1>7 DEF t, q

\* The bits of a hash, byte by byte.
LEMMA LeadingBits ==
  ASSUME ByteBits \in Nat \ {0}, NEW hash, NEW f \in Nat, NEW r \in 0..(ByteBits - 1)
  PROVE  (\A i \in 0..(ByteBits * f + r - 1) : Bit(hash, i) = 0) <=>
            /\ \A j \in 1..f, p \in 0..(ByteBits - 1) : ByteBit(hash[j], p) = 0
            /\ \A p \in 0..(r - 1) : ByteBit(hash[f + 1], p) = 0
  <1> DEFINE B == ByteBits
             d == ByteBits * f + r
  <1>1. ASSUME NEW j \in Nat, NEW p \in 0..(B - 1)
        PROVE  Bit(hash, B * j + p) = ByteBit(hash[j + 1], p)
    <2>1. (B * j + p) \div B = j /\ (B * j + p) % B = p
      BY DivModOf
    <2> QED
      BY <2>1 DEF Bit, ByteBit
  <1>2. ASSUME NEW j \in Nat, NEW k \in Nat, j < k PROVE B * j + B <= B * k
    <2> DEFINE e == k - j - 1
    <2>1. e \in Nat /\ k = j + 1 + e
      BY <1>2
    <2> HIDE DEF e
    <2>2. B * k = B * j + B + B * e /\ B * e \in Nat /\ B * j \in Nat
      BY <2>1
    <2> HIDE DEF B
    <2>3. B \in Nat
      BY DEF B
    <2> QED
      BY <2>2, <2>3
  <1>3. ASSUME \A i \in 0..(d - 1) : Bit(hash, i) = 0
        PROVE  /\ \A j \in 1..f, p \in 0..(B - 1) : ByteBit(hash[j], p) = 0
               /\ \A p \in 0..(r - 1) : ByteBit(hash[f + 1], p) = 0
    <2>1. ASSUME NEW j \in 1..f, NEW p \in 0..(B - 1) PROVE ByteBit(hash[j], p) = 0
      <3> DEFINE k == j - 1
      <3>1. k \in Nat /\ k < f /\ k + 1 = j
        OBVIOUS
      <3> HIDE DEF k
      <3>2. B * k + B <= B * f /\ B * k \in Nat /\ B * f \in Nat
        BY <1>2, <3>1
      <3>3. B * k + p \in 0..(d - 1)
        BY <3>2
      <3> QED
        BY <1>1, <1>3, <3>1, <3>3
    <2>2. ASSUME NEW p \in 0..(r - 1) PROVE ByteBit(hash[f + 1], p) = 0
      <3>1. B * f \in Nat /\ p \in 0..(B - 1)
        OBVIOUS
      <3>2. B * f + p \in 0..(d - 1)
        BY <3>1
      <3> QED
        BY <1>1, <1>3, <3>1, <3>2
    <2> QED
      BY <2>1, <2>2
  <1>4. ASSUME \A j \in 1..f, p \in 0..(B - 1) : ByteBit(hash[j], p) = 0,
               \A p \in 0..(r - 1) : ByteBit(hash[f + 1], p) = 0,
               NEW i \in 0..(d - 1)
        PROVE  Bit(hash, i) = 0
    <2> DEFINE j == i \div B
               p == i % B
    <2>1. j \in Nat /\ p \in 0..(B - 1) /\ i = B * j + p
      <3>1. i \in Nat
        OBVIOUS
      <3> QED
        BY <3>1, DivMod
    <2> HIDE DEF j, p
    <2>2. Bit(hash, i) = ByteBit(hash[j + 1], p)
      BY <1>1, <2>1
    <2>3. B * j \in Nat /\ B * f \in Nat
      BY <2>1
    <2>4. CASE j < f
      <3>1. j + 1 \in 1..f
        BY <2>1, <2>4
      <3> QED
        BY <1>4, <2>1, <2>2, <3>1
    <2>5. CASE j = f
      <3>1. p \in 0..(r - 1)
        BY <2>1, <2>3, <2>5
      <3> QED
        BY <1>4, <2>2, <2>5, <3>1
    <2>6. CASE f < j
      <3>1. B * f + B <= B * j
        BY <1>2, <2>1, <2>6
      <3> QED
        BY <2>1, <2>3, <3>1
    <2> QED
      BY <2>1, <2>4, <2>5, <2>6
  <1> HIDE DEF B, d
  <1>5. (\A i \in 0..(d - 1) : Bit(hash, i) = 0) <=>
            /\ \A j \in 1..f, p \in 0..(B - 1) : ByteBit(hash[j], p) = 0
            /\ \A p \in 0..(r - 1) : ByteBit(hash[f + 1], p) = 0
    BY <1>3, <1>4
  <1> QED
    BY <1>5 DEF B, d

\* meets_difficulty counts leading zero bits.
LEMMA PowResult ==
  ASSUME ByteBits \in Nat \ {0}, HashLen \in Nat \ {0}, NEW hash \in [1..HashLen -> 0..MaxByte],
         NEW d \in 0..NoThreshold, d # NoThreshold
  PROVE  MeetsDifficulty(hash, Threshold(d)) <=> \A i \in 0..(d - 1) : Bit(hash, i) = 0
  <1> DEFINE f == d \div ByteBits
             r == d % ByteBits
  <1>0. ByteBits * HashLen \in Nat /\ d \in Nat /\ d < ByteBits * HashLen
    BY DEF NoThreshold
  <1>1. f \in Nat /\ r \in 0..(ByteBits - 1) /\ d = ByteBits * f + r
    BY <1>0, DivMod
  <1>2. f = d \div ByteBits /\ r = d % ByteBits
    OBVIOUS
  <1> HIDE DEF f, r
  <1>3. f < HashLen
    <2> SUFFICES ASSUME ~(f < HashLen) PROVE FALSE
      OBVIOUS
    <2> DEFINE e == f - HashLen
    <2>1. e \in Nat /\ f = HashLen + e
      BY <1>1
    <2> HIDE DEF e
    <2>2. ByteBits * f = ByteBits * HashLen + ByteBits * e /\ ByteBits * e \in Nat
      BY <2>1
    <2> QED
      BY <1>0, <1>1, <2>2
  <1>4. MaxByte \in Nat
    <2>1. 2^ByteBits \in Nat \ {0}
      BY PowerPositive
    <2> DEFINE b == 2^ByteBits
    <2> HIDE DEF b
    <2>2. b \in Nat \ {0} /\ MaxByte = b - 1
      BY <2>1 DEF b, MaxByte
    <2> QED
      BY <2>2
  <1>5. ASSUME NEW v \in 0..MaxByte, NEW m \in 0..ByteBits
        PROVE  /\ (\A p \in 0..(m - 1) : ByteBit(v, p) = 0) <=> v <= PartialByte(m)
               /\ PartialByte(m) \in Nat
    <2> DEFINE w == 2^(ByteBits - m)
    <2>1. w \in Nat \ {0}
      BY PowerPositive
    <2>2. PartialByte(m) = w - 1
      BY PartialIsPower
    <2>3. (\A p \in 0..(m - 1) : ByteBit(v, p) = 0) <=> v < w
      BY ZeroBits
    <2> HIDE DEF w
    <2>4. v < w <=> v <= w - 1
      BY <1>4, <2>1
    <2> QED
      BY <2>1, <2>2, <2>3, <2>4
  <1>6. PartialByte(ByteBits) = 0
    <2>1. ByteBits - ByteBits = 0 /\ ByteBits \in 0..ByteBits
      OBVIOUS
    <2>2. PartialByte(ByteBits) = 2^0 - 1
      BY <2>1, PartialIsPower
    <2> QED
      BY <2>2, PowerZero
  <1>7. ASSUME NEW j \in 1..HashLen
        PROVE  (\A p \in 0..(ByteBits - 1) : ByteBit(hash[j], p) = 0) <=> hash[j] = 0
    <2>1. ByteBits \in 0..ByteBits /\ hash[j] \in 0..MaxByte
      OBVIOUS
    <2>2. (\A p \in 0..(ByteBits - 1) : ByteBit(hash[j], p) = 0) <=> hash[j] <= 0
      BY <1>5, <1>6, <2>1
    <2>3. hash[j] \in Nat
      BY <1>4, <2>1
    <2> QED
      BY <2>2, <2>3
  <1>8. r \in 0..ByteBits /\ f + 1 \in 1..HashLen /\ hash[f + 1] \in 0..MaxByte
    BY <1>1, <1>3
  <1>9. (\A p \in 0..(r - 1) : ByteBit(hash[f + 1], p) = 0) <=> hash[f + 1] <= PartialByte(r)
    BY <1>5, <1>8
  <1>10. PartialByte(r) \in 0..MaxByte
    <2>1. PartialByte(r) \in Nat
      BY <1>5, <1>8
    <2> DEFINE a == 2^(ByteBits - r)
               b == 2^r
               c == 2^ByteBits
    <2>2. (ByteBits - r) + r = ByteBits /\ ByteBits - r \in Nat /\ r \in Nat
      BY <1>8
    <2>3. c = a * b /\ a \in Nat \ {0} /\ b \in Nat \ {0}
      BY <2>2, PowerSum, PowerPositive
    <2>4. PartialByte(r) = a - 1 /\ MaxByte = c - 1
      BY <1>8, PartialIsPower DEF MaxByte
    <2> HIDE DEF a, b, c
    <2>5. a * b = a + a * (b - 1) /\ a * (b - 1) \in Nat
      BY <2>3
    <2> QED
      BY <2>1, <2>3, <2>4, <2>5
  <1>11. MeetsDifficulty(hash, Threshold(d)) <=>
            (\A j \in 1..f : hash[j] = 0) /\ hash[f + 1] <= PartialByte(r)
    BY <1>0, <1>1, <1>2, <1>3, <1>4, <1>10, MeetsIsLeading
  <1>12. (\A i \in 0..(d - 1) : Bit(hash, i) = 0) <=>
            /\ \A j \in 1..f, p \in 0..(ByteBits - 1) : ByteBit(hash[j], p) = 0
            /\ \A p \in 0..(r - 1) : ByteBit(hash[f + 1], p) = 0
    <2>1. (\A i \in 0..(ByteBits * f + r - 1) : Bit(hash, i) = 0) <=>
            /\ \A j \in 1..f, p \in 0..(ByteBits - 1) : ByteBit(hash[j], p) = 0
            /\ \A p \in 0..(r - 1) : ByteBit(hash[f + 1], p) = 0
      BY <1>1, LeadingBits
    <2>2. ByteBits * f + r - 1 = d - 1
      BY <1>1
    <2> QED
      BY <2>1, <2>2
  <1>13. \A j \in 1..f : j \in 1..HashLen
    BY <1>1, <1>3
  <1> QED
    BY <1>7, <1>9, <1>11, <1>12, <1>13
-----------------------------------------------------------------------------
(* parse_date_value. *)

\* The days of some months, month by month.
LEMMA MonthSteps ==
  ASSUME NEW y \in Int, NEW s \in Seq(Nat)
  PROVE  /\ DaysOf(y, <<>>) = 0
         /\ DaysOf(y, s) \in Nat
         /\ \A x \in Nat : DaysOf(y, Append(s, x)) = DaysOf(y, s) + MonthDays(y, x)
  <1> DEFINE T == Nat
             X == Nat
             b == 0
             step == [a \in T |-> [x \in X |-> a + MonthDays(y, x)]]
  <1>1. b \in T /\ s \in Seq(X) /\ \A a \in T, x \in X : a + MonthDays(y, x) \in T
    BY SMTT(30) DEF MonthDays
  <1>2. DaysOf(y, <<>>) = b /\ DaysOf(y, s) \in T
        /\ \A x \in X : DaysOf(y, Append(s, x)) = DaysOf(y, s) + MonthDays(y, x)
    <2> HIDE DEF T, X
    <2>1. ASSUME NEW t \in Seq(X)
          PROVE  DaysOf(y, t) = Run(step, b, t) /\ Loop(step, b, t, T, X)
      <3> DEFINE n == Len(t)
                 body(g) == [q \in SUBSET (1..n) |->
                                IF q = {} THEN b ELSE g[q \ {Max(q)}] + MonthDays(y, t[Max(q)])]
                 f == CHOOSE g : g = body(g)
      <3>1. DOMAIN t = 1..n /\ n \in Nat /\ \A i \in 1..n : t[i] \in X
        OBVIOUS
      <3>2. DaysOf(y, t) = f[1..n]
        BY <3>1 DEF DaysOf, FoldLeft, MapThenFoldSet
      <3> HIDE DEF b
      <3>3. /\ \A a \in T, x \in X : step[a][x] = a + MonthDays(y, x)
            /\ step \in [T -> [X -> T]]
        BY <1>1
      <3> HIDE DEF step
      <3>4. Loop(step, b, t, T, X)
        BY <1>1, <3>3 DEF Loop
      <3>5. PICK g : IsFold(g, step, b, t, T)
        BY <3>4, FoldExists
      <3>6. g = body(g)
        <4>1. ASSUME NEW q \in SUBSET (1..n), q # {}
              PROVE  g[q] = g[q \ {Max(q)}] + MonthDays(y, t[Max(q)])
          <5>1. Max(q) \in 1..n
            BY <3>1, <4>1, MaxIn
          <5>2. t[Max(q)] \in X /\ g[q \ {Max(q)}] \in T
            BY <3>1, <3>5, <5>1 DEF IsFold
          <5>3. g[q] = step[g[q \ {Max(q)}]][t[Max(q)]]
            BY <3>5, <4>1 DEF IsFold
          <5> QED
            BY <3>3, <5>2, <5>3
        <4> QED
          BY <3>5, <4>1 DEF IsFold
      <3>7. f = body(f)
        <4> HIDE DEF body
        <4> QED
          BY <3>6
      <3>8. f[{}] = b
        BY <3>7
      <3>9. ASSUME NEW i \in 1..n, f[1..(i - 1)] \in T
            PROVE  f[1..i] = step[f[1..(i - 1)]][t[i]]
        <4>1. /\ (1..i) \in SUBSET (1..n) /\ (1..i) # {}
              /\ (1..i) \ {i} = 1..(i - 1) /\ Max(1..i) = i
          BY <3>1, Prefix
        <4>2. f[1..i] = f[1..(i - 1)] + MonthDays(y, t[i])
          <5> HIDE DEF f
          <5> QED
            BY <3>7, <4>1
        <4> QED
          BY <3>1, <3>3, <3>9, <4>2
      <3> HIDE DEF f, body
      <3> QED
        BY <3>2, <3>4, <3>8, <3>9, FoldIsRun
    <2>2. <<>> \in Seq(X) /\ \A x \in X : Append(s, x) \in Seq(X)
      BY <1>1
    <2>3. \A a \in T, x \in X : step[a][x] = a + MonthDays(y, x)
      BY <1>1
    <2> HIDE DEF b, step
    <2>4. DaysOf(y, <<>>) = b
      BY <2>1, <2>2, RunEmpty
    <2>5. DaysOf(y, s) \in T
      BY <1>1, <2>1, RunChosen
    <2>6. ASSUME NEW x \in X
          PROVE  DaysOf(y, Append(s, x)) = DaysOf(y, s) + MonthDays(y, x)
      <3>1. Run(step, b, Append(s, x)) = step[Run(step, b, s)][x]
        BY <1>1, <2>1, RunAppend
      <3>2. DaysOf(y, Append(s, x)) = Run(step, b, Append(s, x)) /\ DaysOf(y, s) = Run(step, b, s)
        BY <1>1, <2>1, <2>2
      <3> QED
        BY <2>3, <2>5, <3>1, <3>2
    <2> QED
      BY <2>4, <2>5, <2>6
  <1> QED
    BY <1>2

MonthsTo(n) == [k \in 1..n |-> k]

\* The days before a month of a year whose February has 28 or 29.
LEMMA DaysBeforeMonth ==
  ASSUME NEW y \in Int, NEW m \in 1..12
  PROVE  DaysOf(y, MonthsTo(m - 1)) =
            CASE m = 1 -> 0 [] m = 2 -> 31
              [] OTHER -> 31 + MonthDays(y, 2) + (153 * (m - 3) + 2) \div 5
  <1> DEFINE D(n) == DaysOf(y, MonthsTo(n))
  <1>1. D(0) = 0
    <2>1. MonthsTo(0) = <<>>
      BY DEF MonthsTo
    <2> QED
      BY <2>1, EmptySeq, MonthSteps
  <1>2. ASSUME NEW n \in 1..11 PROVE D(n) = D(n - 1) + MonthDays(y, n)
    <2>1. MonthsTo(n - 1) \in Seq(Nat) /\ MonthsTo(n) = Append(MonthsTo(n - 1), n) /\ n \in Nat
      BY DEF MonthsTo
    <2> QED
      BY <2>1, MonthSteps
  <1>3. ASSUME NEW n \in 1..11, n # 2 PROVE MonthDays(y, n) = IF n \in {4, 6, 9, 11} THEN 30 ELSE 31
    BY <1>3 DEF MonthDays
  <1>4. MonthDays(y, 2) \in Nat
    BY DEF MonthDays
  <1> HIDE DEF D
  <1>5. D(1) = 31 /\ D(2) = 31 + MonthDays(y, 2)
    <2>1. D(1) = D(0) + MonthDays(y, 1) /\ MonthDays(y, 1) = 31
      <3>1. 1 \in 1..11 /\ 1 - 1 = 0
        OBVIOUS
      <3> QED
        BY <1>2, <1>3, <3>1
    <2>2. D(2) = D(1) + MonthDays(y, 2)
      <3>1. 2 \in 1..11 /\ 2 - 1 = 1
        OBVIOUS
      <3> QED
        BY <1>2, <3>1
    <2> QED
      BY <1>1, <2>1, <2>2
  <1>6. D(3) = 62 + MonthDays(y, 2)
    <2>1. 3 \in 1..11 /\ 3 - 1 = 2 /\ 3 # 2
      OBVIOUS
    <2>2. D(3) = D(2) + MonthDays(y, 3) /\ MonthDays(y, 3) = 31
      BY <1>2, <1>3, <2>1
    <2> QED
      BY <1>4, <1>5, <2>2
  <1>7. D(4) = 92 + MonthDays(y, 2)
    <2>1. 4 \in 1..11 /\ 4 - 1 = 3 /\ 4 # 2
      OBVIOUS
    <2>2. D(4) = D(3) + MonthDays(y, 4) /\ MonthDays(y, 4) = 30
      BY <1>2, <1>3, <2>1
    <2> QED
      BY <1>4, <1>6, <2>2
  <1>8. D(5) = 123 + MonthDays(y, 2)
    <2>1. 5 \in 1..11 /\ 5 - 1 = 4 /\ 5 # 2
      OBVIOUS
    <2>2. D(5) = D(4) + MonthDays(y, 5) /\ MonthDays(y, 5) = 31
      BY <1>2, <1>3, <2>1
    <2> QED
      BY <1>4, <1>7, <2>2
  <1>9. D(6) = 153 + MonthDays(y, 2)
    <2>1. 6 \in 1..11 /\ 6 - 1 = 5 /\ 6 # 2
      OBVIOUS
    <2>2. D(6) = D(5) + MonthDays(y, 6) /\ MonthDays(y, 6) = 30
      BY <1>2, <1>3, <2>1
    <2> QED
      BY <1>4, <1>8, <2>2
  <1>10. D(7) = 184 + MonthDays(y, 2)
    <2>1. 7 \in 1..11 /\ 7 - 1 = 6 /\ 7 # 2
      OBVIOUS
    <2>2. D(7) = D(6) + MonthDays(y, 7) /\ MonthDays(y, 7) = 31
      BY <1>2, <1>3, <2>1
    <2> QED
      BY <1>4, <1>9, <2>2
  <1>11. D(8) = 215 + MonthDays(y, 2)
    <2>1. 8 \in 1..11 /\ 8 - 1 = 7 /\ 8 # 2
      OBVIOUS
    <2>2. D(8) = D(7) + MonthDays(y, 8) /\ MonthDays(y, 8) = 31
      BY <1>2, <1>3, <2>1
    <2> QED
      BY <1>4, <1>10, <2>2
  <1>12. D(9) = 245 + MonthDays(y, 2)
    <2>1. 9 \in 1..11 /\ 9 - 1 = 8 /\ 9 # 2
      OBVIOUS
    <2>2. D(9) = D(8) + MonthDays(y, 9) /\ MonthDays(y, 9) = 30
      BY <1>2, <1>3, <2>1
    <2> QED
      BY <1>4, <1>11, <2>2
  <1>13. D(10) = 276 + MonthDays(y, 2)
    <2>1. 10 \in 1..11 /\ 10 - 1 = 9 /\ 10 # 2
      OBVIOUS
    <2>2. D(10) = D(9) + MonthDays(y, 10) /\ MonthDays(y, 10) = 31
      BY <1>2, <1>3, <2>1
    <2> QED
      BY <1>4, <1>12, <2>2
  <1>14. D(11) = 306 + MonthDays(y, 2)
    <2>1. 11 \in 1..11 /\ 11 - 1 = 10 /\ 11 # 2
      OBVIOUS
    <2>2. D(11) = D(10) + MonthDays(y, 11) /\ MonthDays(y, 11) = 30
      BY <1>2, <1>3, <2>1
    <2> QED
      BY <1>4, <1>13, <2>2
  <1>15. D(m - 1) = CASE m = 1 -> 0 [] m = 2 -> 31
              [] OTHER -> 31 + MonthDays(y, 2) + (153 * (m - 3) + 2) \div 5
    <2>1. CASE m = 1
      BY <1>1, <1>4, <1>5, <2>1
    <2>2. CASE m = 2
      BY <1>1, <1>4, <1>5, <2>2
    <2>3. CASE m = 3
      BY <1>1, <1>4, <1>5, <2>3
    <2>4. CASE m = 4
      BY <1>1, <1>4, <1>6, <2>4
    <2>5. CASE m = 5
      BY <1>1, <1>4, <1>7, <2>5
    <2>6. CASE m = 6
      BY <1>1, <1>4, <1>8, <2>6
    <2>7. CASE m = 7
      BY <1>1, <1>4, <1>9, <2>7
    <2>8. CASE m = 8
      BY <1>1, <1>4, <1>10, <2>8
    <2>9. CASE m = 9
      BY <1>1, <1>4, <1>11, <2>9
    <2>10. CASE m = 10
      BY <1>1, <1>4, <1>12, <2>10
    <2>11. CASE m = 11
      BY <1>1, <1>4, <1>13, <2>11
    <2>12. CASE m = 12
      BY <1>1, <1>4, <1>14, <2>12
    <2> QED
      BY <2>1, <2>2, <2>3, <2>4, <2>5, <2>6, <2>7, <2>8, <2>9, <2>10, <2>11, <2>12
  <1> QED
    BY <1>15 DEF D

\* The leap days before a year, counted by divisions.
LeapDays(y) == y \div 4 - y \div 100 + y \div 400

LEMMA LeapStep ==
  ASSUME NEW y \in Int
  PROVE  LeapDays(y) = LeapDays(y - 1) + (IF Leap(y) THEN 1 ELSE 0)
  <1>1. y \div 4 = (y - 1) \div 4 + (IF y % 4 = 0 THEN 1 ELSE 0)
    OBVIOUS
  <1>2. y \div 100 = (y - 1) \div 100 + (IF y % 100 = 0 THEN 1 ELSE 0)
    OBVIOUS
  <1>3. y \div 400 = (y - 1) \div 400 + (IF y % 400 = 0 THEN 1 ELSE 0)
    OBVIOUS
  <1>4. (y % 100 = 0 => y % 4 = 0) /\ (y % 400 = 0 => y % 100 = 0)
    OBVIOUS
  <1> QED
    BY <1>1, <1>2, <1>3, <1>4 DEF LeapDays, Leap

LEMMA LeapYears ==
  ASSUME NEW y \in Nat, y >= 1970
  PROVE  Cardinality({x \in 1970..(y - 1) : Leap(x)}) = LeapDays(y - 1) - LeapDays(1969)
  <1> DEFINE A(n) == {x \in 1970..(n + 1969) : Leap(x)}
             U == {n \in Nat : IsFiniteSet(A(n)) /\ Cardinality(A(n)) = LeapDays(n + 1969) - LeapDays(1969)}
  <1>1. 0 \in U
    <2>1. A(0) = {}
      OBVIOUS
    <2>2. LeapDays(0 + 1969) - LeapDays(1969) = 0
      BY DEF LeapDays
    <2> QED
      BY <2>1, <2>2, FS_EmptySet
  <1>2. ASSUME NEW n \in U PROVE n + 1 \in U
    <2> DEFINE z == n + 1970
    <2>1. z \notin A(n) /\ A(n + 1) = IF Leap(z) THEN A(n) \cup {z} ELSE A(n)
      <3>1. \A x : x \in 1970..((n + 1) + 1969) <=> x \in 1970..(n + 1969) \/ x = z
        OBVIOUS
      <3>2. z \notin 1970..(n + 1969)
        OBVIOUS
      <3> HIDE DEF z
      <3> QED
        BY <3>1, <3>2
    <2>2. IsFiniteSet(A(n)) /\ Cardinality(A(n)) = LeapDays(n + 1969) - LeapDays(1969)
      OBVIOUS
    <2>3. LeapDays(n + 1969) \in Int /\ LeapDays(1969) \in Int
      BY DEF LeapDays
    <2>4. LeapDays((n + 1) + 1969) = LeapDays(n + 1969) + (IF Leap(z) THEN 1 ELSE 0)
      <3>1. z \in Int /\ z - 1 = n + 1969 /\ (n + 1) + 1969 = z
        OBVIOUS
      <3> HIDE DEF z
      <3> QED
        BY <3>1, LeapStep
    <2> HIDE DEF A
    <2>5. IsFiniteSet(A(n + 1)) /\ Cardinality(A(n + 1)) = Cardinality(A(n)) + (IF Leap(z) THEN 1 ELSE 0)
      <3>1. CASE Leap(z)
        <4>1. IsFiniteSet(A(n) \cup {z}) /\ Cardinality(A(n) \cup {z}) = Cardinality(A(n)) + 1
          BY <2>1, <2>2, FS_AddElement
        <4> QED
          <5>1. A(n + 1) = A(n) \cup {z}
            BY <2>1, <3>1
          <5> QED
            BY <3>1, <4>1, <5>1
      <3>2. CASE ~Leap(z)
        BY <2>1, <2>2, <2>3, <3>2
      <3> QED
        BY <3>1, <3>2
    <2>6. Cardinality(A(n + 1)) = LeapDays((n + 1) + 1969) - LeapDays(1969)
      BY <2>2, <2>3, <2>4, <2>5
    <2> QED
      BY <2>5, <2>6
  <1>3. U = Nat
    <2> HIDE DEF U
    <2>1. U \in SUBSET Nat
      BY DEF U
    <2> QED
      BY <1>1, <1>2, <2>1, SetInduction
  <1> DEFINE n == y - 1970
  <1>4. n \in Nat /\ n + 1969 = y - 1
    OBVIOUS
  <1>5. \A i \in Nat : Cardinality(A(i)) = LeapDays(i + 1969) - LeapDays(1969)
    <2> HIDE DEF A
    <2> QED
      BY <1>3
  <1> HIDE DEF n
  <1> QED
    BY <1>4, <1>5

\* days_from_civil without eras.
ShiftedYear(y, m) == IF m <= 2 THEN y - 1 ELSE y
CivilOf(z, m, d) == 365 * z + LeapDays(z) + (153 * ShiftedMonth(m) + 2) \div 5 + d - 1 - 719468

LEMMA CivilDays ==
  ASSUME NEW y \in Nat, NEW m \in 1..12, NEW d \in 1..31
  PROVE  DaysFromCivil(y, m, d) = CivilOf(ShiftedYear(y, m), m, d)
  <1> DEFINE z == ShiftedYear(y, m)
             era == z \div 400
             yoe == z - era * 400
  <1>1. z \in Int /\ era \in Int /\ yoe \in Int
    BY SMT DEF ShiftedYear
  <1>2. DaysFromCivil(y, m, d) =
          era * 146097 + yoe * 365 + yoe \div 4 - yoe \div 100
            + ((153 * ShiftedMonth(m) + 2) \div 5 + d - 1) - 719468
    BY SMT DEF DaysFromCivil, ShiftedYear
  <1>3. yoe \div 4 = z \div 4 - 100 * era /\ yoe \div 100 = z \div 100 - 4 * era
    BY SMT, <1>1
  <1>4. (153 * ShiftedMonth(m) + 2) \div 5 \in Int
    BY SMT DEF ShiftedMonth
  <1>5. yoe = z - era * 400 /\ LeapDays(z) = z \div 4 - z \div 100 + era
    BY SMT DEF LeapDays
  <1>6. z \div 4 \in Int /\ z \div 100 \in Int
    BY SMT, <1>1
  <1> HIDE DEF z, era, yoe
  <1>7. DaysFromCivil(y, m, d) =
          365 * z + LeapDays(z) + (153 * ShiftedMonth(m) + 2) \div 5 + d - 1 - 719468
    BY SMT, <1>1, <1>2, <1>3, <1>4, <1>5, <1>6
  <1> QED
    BY SMT, <1>7 DEF z, CivilOf

\* The day count is the calendar's from 1970 on, and negative before.
LEMMA CivilIsCalendar ==
  ASSUME NEW y \in Nat, NEW m \in 1..12, NEW d \in 1..31
  PROVE  LET days == DaysFromCivil(y, m, d) - DaysFromCivil(1970, 1, 1)
         IN  /\ y >= 1970 => days = CalendarDays(y, m, d) /\ days >= 0
             /\ y < 1970 => days < 0
  <1> DEFINE z == IF m <= 2 THEN y - 1 ELSE y
             s == (153 * ShiftedMonth(m) + 2) \div 5
  <1>1. DaysFromCivil(1970, 1, 1) = 0
    <2>1. 1970 \in Nat /\ 1 \in 1..12 /\ 1 \in 1..31
      BY SMT
    <2>2. DaysFromCivil(1970, 1, 1) = 365 * 1969 + LeapDays(1969) + (153 * 10 + 2) \div 5 + 1 - 1 - 719468
      BY SMT DEF DaysFromCivil, ShiftedMonth, LeapDays
    <2> QED
      BY SMT, <2>2 DEF LeapDays
  <1>2. DaysFromCivil(y, m, d) = 365 * z + LeapDays(z) + s + d - 1 - 719468
    <2>1. DaysFromCivil(y, m, d) = CivilOf(ShiftedYear(y, m), m, d)
      BY CivilDays
    <2> QED
      BY SMT, <2>1 DEF CivilOf, ShiftedYear
  <1>3. /\ m = 1 => s = 306
        /\ m = 2 => s = 337
        /\ m > 2 => s = (153 * (m - 3) + 2) \div 5 /\ s >= 0 /\ s <= 275
        /\ s \in Int
    BY SMT DEF ShiftedMonth
  <1>4. LeapDays(1969) = 477 /\ LeapDays(y) \in Int /\ LeapDays(y - 1) \in Int /\ LeapDays(z) \in Int
    BY SMT DEF LeapDays
  <1>5. LeapDays(y) = LeapDays(y - 1) + (IF Leap(y) THEN 1 ELSE 0)
    BY SMT, LeapStep
  <1>6. MonthDays(y, 2) = IF Leap(y) THEN 29 ELSE 28
    BY SMT DEF MonthDays
  <1>7. ASSUME y >= 1970 PROVE DaysFromCivil(y, m, d) = CalendarDays(y, m, d)
    <2> DEFINE b == DaysOf(y, MonthsTo(m - 1))
               c == Cardinality({x \in 1970..(y - 1) : Leap(x)})
    <2>1. CalendarDays(y, m, d) = 365 * (y - 1970) + c + b + d - 1
      BY SMT DEF CalendarDays, MonthsTo
    <2>2. c = LeapDays(y - 1) - 477
      BY SMT, <1>4, <1>7, LeapYears
    <2>3. b = CASE m = 1 -> 0 [] m = 2 -> 31
                [] OTHER -> 31 + MonthDays(y, 2) + (153 * (m - 3) + 2) \div 5
      BY SMT, DaysBeforeMonth
    <2> HIDE DEF b, c, s
    <2>4. CASE m = 1
      <3>1. b = 0 /\ s = 306 /\ z = y - 1
        BY SMT, <1>3, <2>3, <2>4
      <3> HIDE DEF z
      <3> QED
        BY SMT, <1>2, <1>4, <2>1, <2>2, <3>1
    <2>5. CASE m = 2
      <3>1. b = 31 /\ s = 337 /\ z = y - 1
        BY SMT, <1>3, <2>3, <2>5
      <3> HIDE DEF z
      <3> QED
        BY SMT, <1>2, <1>4, <2>1, <2>2, <3>1
    <2>6. CASE m > 2
      <3>1. b = 31 + MonthDays(y, 2) + s /\ z = y
        BY SMT, <1>3, <2>3, <2>6
      <3> HIDE DEF z
      <3> QED
        BY SMT, <1>2, <1>3, <1>4, <1>5, <1>6, <2>1, <2>2, <3>1
    <2> QED
      BY SMT, <2>4, <2>5, <2>6
  <1>8. ASSUME y >= 1970 PROVE DaysFromCivil(y, m, d) >= 0
    <2>1. z >= 1969 /\ (m > 2 => z >= 1970)
      BY SMT, <1>7, <1>8
    <2>2. LeapDays(z) >= 477
      BY SMT, <1>8, <2>1 DEF LeapDays
    <2>3. m <= 2 => s >= 306
      BY SMT, <1>3
    <2> HIDE DEF s, z
    <2>4. z \in Int
      BY SMT DEF z
    <2>5. CASE m <= 2
      BY SMT, <1>2, <1>3, <1>4, <2>1, <2>2, <2>3, <2>4, <2>5
    <2>6. CASE m > 2
      BY SMT, <1>2, <1>3, <1>4, <2>1, <2>2, <2>4, <2>6
    <2> QED
      BY SMT, <2>5, <2>6
  <1>9. ASSUME y < 1970 PROVE DaysFromCivil(y, m, d) < 0
    <2>1. z <= 1969 /\ (m <= 2 => z <= 1968) /\ z \in Int
      BY SMT, <1>9
    <2>2. LeapDays(z) <= 477
      BY SMT, <2>1 DEF LeapDays
    <2>3. m <= 2 => s <= 337
      BY SMT, <1>3
    <2> HIDE DEF s, z
    <2>4. CASE m <= 2
      BY SMT, <1>2, <1>3, <1>4, <2>1, <2>2, <2>3, <2>4
    <2>5. CASE m > 2
      BY SMT, <1>2, <1>3, <1>4, <2>1, <2>2, <2>5
    <2> QED
      BY SMT, <2>4, <2>5
  <1>10. DaysFromCivil(y, m, d) \in Int
    <2> HIDE DEF s
    <2>1. z \in Int
      BY SMT
    <2> HIDE DEF z
    <2> QED
      BY SMT, <1>2, <1>3, <1>4, <2>1
  <1> QED
    BY SMT, <1>1, <1>7, <1>8, <1>9, <1>10

\* What a date filter is.
LEMMA DateResult ==
  ASSUME DaySeconds \in Nat, NEW y \in Nat, NEW m \in Nat, NEW d \in Nat
  PROVE  ParseDate(y, m, d) = IF y >= 1970 /\ m \in 1..12 /\ d \in 1..31
                              THEN CalendarDays(y, m, d) * DaySeconds ELSE NoDate
  <1> DEFINE days == DaysFromCivil(y, m, d) - DaysFromCivil(1970, 1, 1)
  <1>1. ParseDate(y, m, d) = IF m \in 1..12 /\ d \in 1..31 /\ days >= 0 THEN days * DaySeconds ELSE NoDate
    BY DEF ParseDate
  <1>2. CASE m \in 1..12 /\ d \in 1..31
    <2>1. /\ y >= 1970 => days = CalendarDays(y, m, d) /\ days >= 0
          /\ y < 1970 => days < 0
      BY SMTT(30), <1>2, CivilIsCalendar
    <2>2. days < 0 => ~(days >= 0)
      <3>1. DaysFromCivil(y, m, d) \in Int /\ DaysFromCivil(1970, 1, 1) \in Int
        BY DEF DaysFromCivil, ShiftedMonth
      <3> QED
        BY <3>1
    <2> HIDE DEF days
    <2> QED
      BY <1>1, <1>2, <2>1, <2>2
  <1>3. CASE ~(m \in 1..12 /\ d \in 1..31)
    BY <1>1, <1>3
  <1> QED
    BY <1>2, <1>3
-----------------------------------------------------------------------------
(* search_records. *)

\* How many indices there are of some.
LEMMA CountIndices ==
  ASSUME NEW n \in Nat, NEW t \in SUBSET (1..n)
  PROVE  IsFiniteSet(t) /\ Cardinality(t) \in 0..n /\ Cardinality(t) + 1 \in 1..(n + 1)
  <1>1. IsFiniteSet(1..n) /\ Cardinality(1..n) = n
    <2>1. 1 \in Int /\ n \in Int
      OBVIOUS
    <2>2. IsFiniteSet(1..n) /\ Cardinality(1..n) = IF 1 > n THEN 0 ELSE n - 1 + 1
      BY <2>1, FS_Interval
    <2> QED
      BY <2>2
  <1>2. IsFiniteSet(t) /\ Cardinality(t) <= n
    BY <1>1, FS_Subset
  <1>3. Cardinality(t) \in Nat
    BY <1>2, FS_CardinalityType
  <1> QED
    BY <1>2, <1>3

\* Indices that come with all smaller ones are the first so many.
LEMMA FirstIndices ==
  ASSUME NEW n \in Nat, NEW t \in SUBSET (1..n), \A i \in t, j \in 1..n : j <= i => j \in t
  PROVE  t = 1..Cardinality(t)
  <1>1. CASE t = {}
    <2>1. Cardinality(t) = 0
      BY <1>1, FS_EmptySet
    <2> QED
      BY <1>1, <2>1
  <1>2. CASE t # {}
    <2> DEFINE m == Max(t)
    <2>1. m \in t /\ \A i \in t : m >= i
      BY <1>2, MaxIn
    <2> HIDE DEF m
    <2>2. t = 1..m
      <3>1. m \in 1..n
        BY <2>1
      <3>2. \A j \in 1..m : j \in t
        BY <2>1, <3>1
      <3>3. \A j \in t : j \in 1..m
        BY <2>1
      <3> QED
        BY <3>2, <3>3
    <2>3. Cardinality(1..m) = m
      <3>1. 1 \in Int /\ m \in Int /\ m >= 1
        BY <2>1
      <3>2. Cardinality(1..m) = IF 1 > m THEN 0 ELSE m - 1 + 1
        BY <3>1, FS_Interval
      <3> QED
        BY <3>1, <3>2
    <2> QED
      BY <2>2, <2>3
  <1> QED
    BY <1>1, <1>2

\* What an insertion leaves where.
LEMMA InsertProperties ==
  ASSUME NEW X, NEW s \in Seq(X), NEW k \in 1..(Len(s) + 1), NEW e \in X
  PROVE  /\ InsertAt(s, k, e) \in Seq(X)
         /\ Len(InsertAt(s, k, e)) = Len(s) + 1
         /\ InsertAt(s, k, e)[k] = e
         /\ \A i \in 1..Len(s) : /\ i < k => InsertAt(s, k, e)[i] = s[i]
                                 /\ i >= k => InsertAt(s, k, e)[i + 1] = s[i]
  <1> DEFINE n == Len(s)
             a == SubSeq(s, 1, k - 1)
             c == SubSeq(s, k, n)
             b == <<e>>
  <1>1. n \in Nat /\ DOMAIN s = 1..n /\ \A i \in 1..n : s[i] \in X
    OBVIOUS
  <1>2. /\ a \in Seq(X) /\ Len(a) = k - 1 /\ \A i \in 1..(k - 1) : a[i] = s[i]
    OBVIOUS
  <1>3. /\ c \in Seq(X) /\ Len(c) = n - k + 1 /\ \A i \in 1..(n - k + 1) : c[i] = s[k + i - 1]
    OBVIOUS
  <1>4. b \in Seq(X) /\ Len(b) = 1 /\ b[1] = e
    OBVIOUS
  <1>5. InsertAt(s, k, e) = (a \o b) \o c
    BY DEF InsertAt
  <1> HIDE DEF a, b, c, n
  <1>6. /\ a \o b \in Seq(X) /\ Len(a \o b) = k /\ (a \o b)[k] = e
        /\ \A i \in 1..(k - 1) : (a \o b)[i] = s[i]
    <2>1. /\ a \o b \in Seq(X)
          /\ Len(a \o b) = Len(a) + Len(b)
          /\ \A i \in 1..(Len(a) + Len(b)) : (a \o b)[i] = IF i <= Len(a) THEN a[i] ELSE b[i - Len(a)]
      BY <1>2, <1>4, ConcatProperties
    <2> QED
      BY <1>2, <1>4, <2>1
  <1> DEFINE d == a \o b
  <1>7. /\ d \in Seq(X) /\ Len(d) = k /\ d[k] = e
        /\ \A i \in 1..(k - 1) : d[i] = s[i]
    BY <1>6
  <1> HIDE DEF d
  <1>8. /\ d \o c \in Seq(X)
        /\ Len(d \o c) = Len(d) + Len(c)
        /\ \A i \in 1..(Len(d) + Len(c)) : (d \o c)[i] = IF i <= Len(d) THEN d[i] ELSE c[i - Len(d)]
    BY <1>3, <1>7, ConcatProperties
  <1> DEFINE r == d \o c
  <1>9. /\ r \in Seq(X) /\ Len(r) = n + 1
        /\ \A i \in 1..(n + 1) : r[i] = IF i <= k THEN d[i] ELSE c[i - k]
    <2>1. Len(d) + Len(c) = n + 1
      BY <1>1, <1>3, <1>7
    <2> QED
      BY <1>7, <1>8, <2>1
  <1>10. InsertAt(s, k, e) = r
    BY <1>5 DEF d
  <1> HIDE DEF r
  <1>11. k \in 1..(n + 1)
    BY DEF n
  <1>12. r[k] = e
    BY <1>7, <1>9, <1>11
  <1>13. ASSUME NEW i \in 1..n, i < k PROVE r[i] = s[i]
    BY <1>1, <1>7, <1>9, <1>11, <1>13
  <1>14. ASSUME NEW i \in 1..n, i >= k PROVE r[i + 1] = s[i]
    <2>1. i + 1 \in 1..(n + 1) /\ ~(i + 1 <= k) /\ (i + 1) - k \in 1..(n - k + 1)
          /\ k + ((i + 1) - k) - 1 = i
      BY <1>1, <1>11, <1>14
    <2> QED
      BY <1>3, <1>9, <2>1
  <1> QED
    BY <1>9, <1>10, <1>12, <1>13, <1>14 DEF n

\* The matches found so far, record by record.
Inserted(M, s) == FoldLeft(LAMBDA a, x : PlaceMatch(M, a, x), <<>>, s)

LEMMA SearchSteps ==
  ASSUME NEW M, NEW s \in Seq(Candidates)
  PROVE  /\ Inserted(M, <<>>) = <<>>
         /\ Inserted(M, s) \in Seq(Candidates)
         /\ \A x \in Candidates : Inserted(M, Append(s, x)) = PlaceMatch(M, Inserted(M, s), x)
  <1> DEFINE T == Seq(Candidates)
             X == Candidates
             b == <<>>
             step == [a \in T |-> [x \in X |-> PlaceMatch(M, a, x)]]
  <1>1. b \in T /\ s \in Seq(X) /\ \A a \in T, x \in X : PlaceMatch(M, a, x) \in T
    <2>1. ASSUME NEW a \in T, NEW x \in X PROVE PlaceMatch(M, a, x) \in T
      <3>1. CASE x \in M
        <4> DEFINE t == {i \in 1..Len(a) : ~Better(x, a[i])}
        <4>1. a \in Seq(X) /\ DOMAIN a = 1..Len(a) /\ Len(a) \in Nat
          OBVIOUS
        <4>2. t \in SUBSET (1..Len(a))
          OBVIOUS
        <4> HIDE DEF t, X
        <4>3. Cardinality(t) + 1 \in 1..(Len(a) + 1)
          BY <4>1, <4>2, CountIndices
        <4>4. InsertAt(a, Cardinality(t) + 1, x) \in Seq(X)
          BY <4>1, <4>3, InsertProperties
        <4>5. {i \in DOMAIN a : ~Better(x, a[i])} = t
          BY <4>1 DEF t
        <4>6. PlaceMatch(M, a, x) = InsertAt(a, Cardinality(t) + 1, x)
          BY <3>1, <4>5 DEF PlaceMatch, Place
        <4> QED
          BY <4>4, <4>6 DEF X
      <3> QED
        BY <3>1 DEF PlaceMatch
    <2> QED
      BY <2>1
  <1>2. Inserted(M, <<>>) = b /\ Inserted(M, s) \in T
        /\ \A x \in X : Inserted(M, Append(s, x)) = PlaceMatch(M, Inserted(M, s), x)
    <2> HIDE DEF T, X
    <2>1. ASSUME NEW t \in Seq(X)
          PROVE  Inserted(M, t) = Run(step, b, t) /\ Loop(step, b, t, T, X)
      <3> DEFINE n == Len(t)
                 body(g) == [q \in SUBSET (1..n) |->
                                IF q = {} THEN b ELSE PlaceMatch(M, g[q \ {Max(q)}], t[Max(q)])]
                 f == CHOOSE g : g = body(g)
      <3>1. DOMAIN t = 1..n /\ n \in Nat /\ \A i \in 1..n : t[i] \in X
        OBVIOUS
      <3>2. Inserted(M, t) = f[1..n]
        BY <3>1 DEF Inserted, FoldLeft, MapThenFoldSet
      <3> HIDE DEF b
      <3>3. /\ \A a \in T, x \in X : step[a][x] = PlaceMatch(M, a, x)
            /\ step \in [T -> [X -> T]]
        BY <1>1
      <3> HIDE DEF step
      <3>4. Loop(step, b, t, T, X)
        BY <1>1, <3>3 DEF Loop
      <3>5. PICK g : IsFold(g, step, b, t, T)
        BY <3>4, FoldExists
      <3>6. g = body(g)
        <4>1. ASSUME NEW q \in SUBSET (1..n), q # {}
              PROVE  g[q] = PlaceMatch(M, g[q \ {Max(q)}], t[Max(q)])
          <5>1. Max(q) \in 1..n
            BY <3>1, <4>1, MaxIn
          <5>2. t[Max(q)] \in X /\ g[q \ {Max(q)}] \in T
            BY <3>1, <3>5, <5>1 DEF IsFold
          <5>3. g[q] = step[g[q \ {Max(q)}]][t[Max(q)]]
            BY <3>5, <4>1 DEF IsFold
          <5> QED
            BY <3>3, <5>2, <5>3
        <4> QED
          BY <3>5, <4>1 DEF IsFold
      <3>7. f = body(f)
        <4> HIDE DEF body
        <4> QED
          BY <3>6
      <3>8. f[{}] = b
        BY <3>7
      <3>9. ASSUME NEW i \in 1..n, f[1..(i - 1)] \in T
            PROVE  f[1..i] = step[f[1..(i - 1)]][t[i]]
        <4>1. /\ (1..i) \in SUBSET (1..n) /\ (1..i) # {}
              /\ (1..i) \ {i} = 1..(i - 1) /\ Max(1..i) = i
          BY <3>1, Prefix
        <4>2. f[1..i] = PlaceMatch(M, f[1..(i - 1)], t[i])
          <5> HIDE DEF f
          <5> QED
            BY <3>7, <4>1
        <4> QED
          BY <3>1, <3>3, <3>9, <4>2
      <3> HIDE DEF f, body
      <3> QED
        BY <3>2, <3>4, <3>8, <3>9, FoldIsRun
    <2>2. <<>> \in Seq(X) /\ \A x \in X : Append(s, x) \in Seq(X)
      BY <1>1
    <2>3. \A a \in T, x \in X : step[a][x] = PlaceMatch(M, a, x)
      BY <1>1
    <2> HIDE DEF b, step
    <2>4. Inserted(M, <<>>) = b
      BY <2>1, <2>2, RunEmpty
    <2>5. Inserted(M, s) \in T
      BY <1>1, <2>1, RunChosen
    <2>6. ASSUME NEW x \in X
          PROVE  Inserted(M, Append(s, x)) = PlaceMatch(M, Inserted(M, s), x)
      <3>1. Run(step, b, Append(s, x)) = step[Run(step, b, s)][x]
        BY <1>1, <2>1, RunAppend
      <3>2. Inserted(M, Append(s, x)) = Run(step, b, Append(s, x)) /\ Inserted(M, s) = Run(step, b, s)
        BY <1>1, <2>1, <2>2
      <3> QED
        BY <2>3, <2>5, <3>1, <3>2
    <2> QED
      BY <2>4, <2>5, <2>6
  <1> QED
    BY <1>2

\* Records of s, by their ids.
Numbered(s) == \A i \in 1..Len(s) : s[i].id = i

\* The records of s that are in M, best first.
Best(M, found, s) ==
    /\ found \in Seq(Candidates)
    /\ \A i \in 1..Len(found) : found[i] \in M /\ found[i].id \in 1..Len(s) /\ found[i] = s[found[i].id]
    /\ \A i, j \in 1..Len(found) : i < j => Before(found[i], found[j])
    /\ \A i \in 1..Len(s) : s[i] \in M => \E j \in 1..Len(found) : found[j] = s[i]

\* Placing a match with a greater id than the others keeps them in order.
LEMMA PlaceBest ==
  ASSUME NEW M, NEW s \in Seq(Candidates), NEW x \in Candidates, Numbered(Append(s, x)),
         NEW found, Best(M, found, s)
  PROVE  Best(M, PlaceMatch(M, found, x), Append(s, x))
  <1> DEFINE n == Len(s)
             m == Len(found)
             u == Append(s, x)
  <1>1. /\ n \in Nat /\ u \in Seq(Candidates) /\ Len(u) = n + 1 /\ u[n + 1] = x
        /\ \A i \in 1..n : u[i] = s[i] /\ s[i] \in Candidates
    BY AppendProperties
  <1>2. x.id = n + 1
    BY <1>1 DEF Numbered
  <1>3. /\ found \in Seq(Candidates) /\ m \in Nat /\ DOMAIN found = 1..m
        /\ \A i \in 1..m : found[i] \in Candidates
    BY DEF Best
  <1>4. \A i \in 1..m : found[i] \in M /\ found[i].id \in 1..n /\ found[i] = s[found[i].id]
    BY DEF Best
  <1>5. \A i, j \in 1..m : i < j => Before(found[i], found[j])
    BY DEF Best
  <1>6. \A i \in 1..n : s[i] \in M => \E j \in 1..m : found[j] = s[i]
    BY DEF Best
  <1>7. x.id \in Nat /\ x.score \in Int /\ \A i \in 1..m : found[i].id \in Nat /\ found[i].score \in Int
    BY <1>3 DEF Candidates
  <1> HIDE DEF n, m, u
  <1>8. CASE x \notin M
    <2>1. PlaceMatch(M, found, x) = found
      BY <1>8 DEF PlaceMatch
    <2>2. \A i \in 1..m : found[i].id \in 1..(n + 1) /\ found[i] = u[found[i].id]
      BY <1>1, <1>4
    <2>3. \A i \in 1..(n + 1) : u[i] \in M => \E j \in 1..m : found[j] = u[i]
      <3>1. \A i \in 1..(n + 1) : i \in 1..n \/ i = n + 1
        BY <1>1
      <3> QED
        BY <1>1, <1>6, <1>8, <3>1
    <2>4. Best(M, found, u)
      BY <1>1, <1>3, <1>4, <1>5, <2>2, <2>3 DEF Best, m
    <2> QED
      BY <2>1, <2>4 DEF u
  <1>9. CASE x \in M
    <2> DEFINE t == {i \in 1..m : ~Better(x, found[i])}
               k == Cardinality(t)
               r == InsertAt(found, k + 1, x)
    <2>1. t \in SUBSET (1..m)
      OBVIOUS
    <2>2. \A i \in 1..m : i \in t <=> found[i].score >= x.score
      BY <1>7 DEF Better
    <2>3. \A i \in t, j \in 1..m : j <= i => j \in t
      <3> SUFFICES ASSUME NEW i \in t, NEW j \in 1..m, j <= i PROVE j \in t
        OBVIOUS
      <3> HIDE DEF t
      <3>1. i \in 1..m /\ found[i].score >= x.score
        BY <2>1, <2>2
      <3>2. CASE j = i
        BY <3>2
      <3>3. CASE j < i
        <4>1. Before(found[j], found[i])
          BY <1>5, <3>1, <3>3
        <4>2. found[j].score >= found[i].score
          BY <1>7, <3>1, <4>1 DEF Before
        <4>3. found[j].score >= x.score
          BY <1>7, <3>1, <4>2
        <4> QED
          BY <2>2, <4>3
      <3> QED
        BY <1>3, <3>1, <3>2, <3>3
    <2> HIDE DEF t
    <2>4. t = 1..k /\ k \in 0..m /\ k + 1 \in 1..(m + 1)
      BY <1>3, <2>1, <2>3, FirstIndices, CountIndices
    <2>5. {i \in DOMAIN found : ~Better(x, found[i])} = t
      BY <1>3 DEF t
    <2>6. PlaceMatch(M, found, x) = r
      BY <1>9, <2>5 DEF PlaceMatch, Place
    <2> HIDE DEF k
    <2>7. /\ r \in Seq(Candidates) /\ Len(r) = m + 1 /\ r[k + 1] = x
          /\ \A i \in 1..m : (i < k + 1 => r[i] = found[i]) /\ (i >= k + 1 => r[i + 1] = found[i])
      <3>1. k + 1 \in 1..(Len(found) + 1)
        BY <2>4 DEF m
      <3> QED
        <4> DEFINE p == k + 1
        <4>1. p \in 1..(Len(found) + 1) /\ r = InsertAt(found, p, x)
          BY <3>1
        <4> HIDE DEF p, r
        <4>2. /\ r \in Seq(Candidates) /\ Len(r) = Len(found) + 1 /\ r[p] = x
              /\ \A i \in 1..Len(found) : (i < p => r[i] = found[i]) /\ (i >= p => r[i + 1] = found[i])
          <5> DEFINE w == InsertAt(found, p, x)
          <5>1. found \in Seq(Candidates) /\ p \in 1..(Len(found) + 1) /\ x \in Candidates
            BY <1>3, <4>1
          <5>2. /\ w \in Seq(Candidates) /\ Len(w) = Len(found) + 1 /\ w[p] = x
                /\ \A i \in 1..Len(found) : (i < p => w[i] = found[i]) /\ (i >= p => w[i + 1] = found[i])
            <6> SUFFICES ASSUME NEW X, X = Candidates, NEW f \in Seq(X), f = found, NEW l \in 1..(Len(f) + 1), l = p,
                                NEW e \in X, e = x
                         PROVE  /\ w \in Seq(X) /\ Len(w) = Len(f) + 1 /\ w[l] = e
                                /\ \A i \in 1..Len(f) : (i < l => w[i] = f[i]) /\ (i >= l => w[i + 1] = f[i])
              BY <5>1
            <6>1. w = InsertAt(f, l, e)
              OBVIOUS
            <6> HIDE DEF w
            <6>2. /\ InsertAt(f, l, e) \in Seq(X)
                  /\ Len(InsertAt(f, l, e)) = Len(f) + 1
                  /\ InsertAt(f, l, e)[l] = e
                  /\ \A i \in 1..Len(f) : /\ i < l => InsertAt(f, l, e)[i] = f[i]
                                          /\ i >= l => InsertAt(f, l, e)[i + 1] = f[i]
              BY InsertProperties
            <6> QED
              BY <6>1, <6>2
          <5>3. r = w
            BY <4>1
          <5> HIDE DEF w
          <5> QED
            BY <5>2, <5>3
        <4> QED
          BY <4>2 DEF m, p
    <2> HIDE DEF r
    <2>8. ASSUME NEW i \in 1..m
          PROVE  /\ i <= k => Before(found[i], x) /\ r[i] = found[i]
                 /\ i > k => Before(x, found[i]) /\ r[i + 1] = found[i]
      <3>1. CASE i <= k
        <4>1. i \in t /\ i < k + 1 /\ ~(i > k)
          BY <2>4, <3>1
        <4>2. found[i].score >= x.score /\ found[i].id < x.id
          BY <1>1, <1>2, <1>4, <2>2, <4>1
        <4>3. Before(found[i], x)
          BY <1>7, <4>2 DEF Before
        <4> QED
          BY <2>7, <4>1, <4>3
      <3>2. CASE i > k
        <4>1. i \notin t /\ i >= k + 1 /\ ~(i <= k)
          BY <2>4, <3>2
        <4>2. x.score > found[i].score
          BY <1>7, <2>2, <4>1
        <4>3. Before(x, found[i])
          BY <4>2 DEF Before
        <4> QED
          BY <2>7, <4>1, <4>3
      <3> QED
        BY <2>4, <3>1, <3>2
    <2>9. ASSUME NEW i \in 1..(m + 1)
          PROVE  \/ i = k + 1 /\ r[i] = x
                 \/ i <= k /\ i \in 1..m /\ r[i] = found[i]
                 \/ i > k + 1 /\ i - 1 \in 1..m /\ r[i] = found[i - 1]
      <3>1. CASE i <= k
        BY <1>3, <2>4, <2>8, <3>1
      <3>2. CASE i > k + 1
        <4>1. i - 1 \in 1..m /\ i - 1 > k /\ (i - 1) + 1 = i
          BY <1>3, <2>4, <3>2
        <4> QED
          BY <2>8, <3>2, <4>1
      <3> QED
        BY <2>4, <2>7, <3>1, <3>2
    <2>10. \A i \in 1..(m + 1) : r[i] \in M /\ r[i].id \in 1..(n + 1) /\ r[i] = u[r[i].id]
      <3>1. x.id \in 1..(n + 1) /\ x = u[x.id]
        BY <1>1, <1>2
      <3>2. \A i \in 1..m : found[i].id \in 1..(n + 1) /\ found[i] = u[found[i].id]
        BY <1>1, <1>4
      <3> QED
        BY <1>4, <1>9, <2>9, <3>1, <3>2
    <2>11. ASSUME NEW i \in 1..(m + 1), NEW j \in 1..(m + 1), i < j PROVE Before(r[i], r[j])
      <3>1. CASE j <= k
        <4>1. r[i] = found[i] /\ r[j] = found[j] /\ i \in 1..m /\ j \in 1..m
          BY <1>3, <2>4, <2>9, <2>11, <3>1
        <4> QED
          BY <1>5, <2>11, <4>1
      <3>2. CASE j = k + 1
        <4>1. i \in 1..m /\ i <= k /\ r[i] = found[i] /\ r[j] = x
          BY <1>3, <2>4, <2>9, <2>11, <3>2
        <4> QED
          BY <2>8, <4>1
      <3>3. CASE j > k + 1 /\ i <= k
        <4>1. r[i] = found[i] /\ r[j] = found[j - 1] /\ i \in 1..m /\ j - 1 \in 1..m /\ i < j - 1
          BY <1>3, <2>4, <2>9, <2>11, <3>3
        <4> QED
          BY <1>5, <4>1
      <3>4. CASE j > k + 1 /\ i = k + 1
        <4>1. r[i] = x /\ r[j] = found[j - 1] /\ j - 1 \in 1..m /\ j - 1 > k
          BY <1>3, <2>4, <2>9, <2>11, <3>4
        <4> QED
          BY <2>8, <4>1
      <3>5. CASE j > k + 1 /\ i > k + 1
        <4>1. r[i] = found[i - 1] /\ r[j] = found[j - 1] /\ i - 1 \in 1..m /\ j - 1 \in 1..m /\ i - 1 < j - 1
          BY <1>3, <2>4, <2>9, <2>11, <3>5
        <4> QED
          BY <1>5, <4>1
      <3> QED
        BY <2>4, <3>1, <3>2, <3>3, <3>4, <3>5
    <2>12. ASSUME NEW i \in 1..(n + 1), u[i] \in M PROVE \E j \in 1..(m + 1) : r[j] = u[i]
      <3>1. CASE i = n + 1
        <4>1. k + 1 \in 1..(m + 1)
          BY <2>4
        <4> QED
          BY <1>1, <2>7, <3>1, <4>1
      <3>2. CASE i # n + 1
        <4>1. i \in 1..n /\ u[i] = s[i]
          BY <1>1, <3>2
        <4>2. PICK j \in 1..m : found[j] = s[i]
          BY <1>6, <2>12, <4>1
        <4>3. j \in 1..(m + 1) /\ j + 1 \in 1..(m + 1) /\ (j <= k \/ j > k)
          BY <1>3, <2>4
        <4> QED
          BY <2>8, <4>1, <4>2, <4>3
      <3> QED
        BY <3>1, <3>2
    <2>13. Best(M, r, u)
      BY <1>1, <2>7, <2>10, <2>11, <2>12 DEF Best
    <2> QED
      BY <2>6, <2>13 DEF u
  <1> QED
    BY <1>8, <1>9

\* All matches among the records, best first.
LEMMA SortedBest ==
  ASSUME NEW M, NEW s \in Seq(Candidates), Numbered(s)
  PROVE  Best(M, Inserted(M, s), s)
  <1> DEFINE F(t) == Inserted(M, t)
             P == {t \in Seq(Candidates) : Numbered(t) => Best(M, F(t), t)}
  <1>1. <<>> \in P
    <2>1. <<>> \in Seq(Candidates) /\ Len(<<>>) = 0 /\ F(<<>>) = <<>>
      BY EmptySeq, SearchSteps
    <2> HIDE DEF F
    <2>2. Best(M, <<>>, <<>>)
      BY <2>1 DEF Best
    <2> QED
      BY <2>1, <2>2
  <1>2. ASSUME NEW t \in P, NEW x \in Candidates PROVE Append(t, x) \in P
    <2>1. t \in Seq(Candidates) /\ Append(t, x) \in Seq(Candidates)
      BY AppendProperties
    <2>2. F(Append(t, x)) = PlaceMatch(M, F(t), x)
      BY <2>1, SearchSteps
    <2> HIDE DEF F
    <2>3. ASSUME Numbered(Append(t, x)) PROVE Best(M, F(Append(t, x)), Append(t, x))
      <3>1. Numbered(t)
        <4>1. Len(Append(t, x)) = Len(t) + 1 /\ Len(t) \in Nat
              /\ \A i \in 1..Len(t) : Append(t, x)[i] = t[i]
          BY <2>1, AppendProperties
        <4> QED
          BY <2>3, <4>1 DEF Numbered
      <3>2. Best(M, F(t), t)
        BY <3>1
      <3> QED
        BY <2>1, <2>2, <2>3, <3>2, PlaceBest
    <2> QED
      BY <2>1, <2>3
  <1>3. P = Seq(Candidates)
    <2> HIDE DEF P
    <2>1. P \in SUBSET Seq(Candidates)
      BY DEF P
    <2> QED
      BY <1>1, <1>2, <2>1, SeqInduction
  <1> QED
    BY <1>3

\* The records a search takes that match, by their places.
Eligible(records, q, limit) ==
    LET list == {i \in DOMAIN records : Listed(records[i], q)}
    IN  {i \in list : Cardinality({j \in list : j < i}) < ScanLimit(limit) /\ records[i].matches}

\* What a search returns.
LEMMA SearchResult ==
  ASSUME NEW records \in Seq(Candidates), NEW q, NEW callers,
         Numbered(records), NEW limit \in Nat, limit = EffectiveLimit(q, callers)
  PROVE  LET found == Search(records, q, callers)
             eligible == Eligible(records, q, limit)
         IN  /\ ToSet(found) \subseteq {records[i] : i \in eligible}
             /\ \A i, j \in DOMAIN found : i < j => Before(found[i], found[j])
             /\ \A i \in eligible :
                   \/ records[i] \in ToSet(found)
                   \/ Len(found) = limit /\ \A j \in DOMAIN found : Before(found[j], records[i])
  <1> DEFINE M == {r \in Scanned(records, q, limit) : r.matches}
             E == Eligible(records, q, limit)
             sorted == Inserted(M, records)
             m == Len(sorted)
             n == IF limit < m THEN limit ELSE m
             found == Search(records, q, callers)
  <1>1. Len(records) \in Nat /\ DOMAIN records = 1..Len(records)
    OBVIOUS
  <1>2. M = {records[i] : i \in E} /\ E \in SUBSET DOMAIN records
    <2> DEFINE list == {i \in DOMAIN records : Listed(records[i], q)}
               taken == {i \in list : Cardinality({j \in list : j < i}) < ScanLimit(limit)}
    <2>1. Scanned(records, q, limit) = {records[i] : i \in taken}
      BY DEF Scanned
    <2>2. E = {i \in taken : records[i].matches}
      BY DEF Eligible
    <2>3. taken \in SUBSET DOMAIN records
      OBVIOUS
    <2> HIDE DEF taken, E
    <2> QED
      BY <2>1, <2>2, <2>3
  <1>3. found = SubSeq(sorted, 1, n)
    BY DEF Search, Inserted
  <1> HIDE DEF M, E
  <1>4. Best(M, sorted, records)
    BY SortedBest
  <1> HIDE DEF sorted, found
  <1>5. sorted \in Seq(Candidates) /\ m \in Nat
    BY <1>4 DEF Best
  <1>6. n \in Nat /\ n <= m /\ n <= limit /\ (n = m \/ n = limit)
    BY <1>5
  <1> HIDE DEF m, n
  <1>7. DOMAIN found = 1..n /\ Len(found) = n /\ \A i \in 1..n : i \in 1..m /\ found[i] = sorted[i]
    BY <1>3, <1>5, <1>6 DEF m
  <1>8. ToSet(found) \subseteq {records[i] : i \in E}
    <2>1. \A i \in 1..n : found[i] \in M
      BY <1>4, <1>7 DEF Best, m
    <2> QED
      BY <1>2, <1>7, <2>1 DEF ToSet
  <1>9. \A i, j \in DOMAIN found : i < j => Before(found[i], found[j])
    BY <1>4, <1>7 DEF Best, m
  <1>10. ASSUME NEW i \in E
         PROVE  \/ records[i] \in ToSet(found)
                \/ Len(found) = limit /\ \A j \in DOMAIN found : Before(found[j], records[i])
    <2>0. i \in 1..Len(records) /\ records[i] \in M
      BY <1>1, <1>2
    <2>1. PICK k \in 1..m : sorted[k] = records[i]
      BY <1>4, <2>0 DEF Best, m
    <2>2. CASE k <= n
      <3>1. k \in 1..n /\ found[k] = records[i]
        BY <1>6, <1>7, <2>1, <2>2
      <3> QED
        BY <1>7, <3>1 DEF ToSet
    <2>3. CASE k > n
      <3>1. n = limit
        BY <1>5, <1>6, <2>3
      <3>2. \A j \in 1..n : j \in 1..m /\ j < k
        BY <1>6, <1>7, <2>3
      <3>3. \A j \in 1..n : Before(sorted[j], sorted[k])
        BY <1>4, <3>2 DEF Best, m
      <3> QED
        BY <1>7, <2>1, <3>1, <3>3
    <2> QED
      BY <1>6, <2>2, <2>3
  <1> QED
    BY <1>8, <1>9, <1>10 DEF found, E
-----------------------------------------------------------------------------
(* compute_record_id. *)

Texts == Seq(Nat)

JoinedTags(h, rest) == FoldLeft(LAMBDA j, t : j \o <<0>> \o t, h, rest)

\* Joining tags, tag by tag.
LEMMA JoinSteps ==
  ASSUME NEW h \in Texts, NEW s \in Seq(Texts)
  PROVE  /\ JoinedTags(h, <<>>) = h
         /\ JoinedTags(h, s) \in Texts
         /\ \A x \in Texts : JoinedTags(h, Append(s, x)) = (JoinedTags(h, s) \o <<0>> \o x)
  <1> DEFINE T == Texts
             X == Texts
             b == h
             step == [a \in T |-> [x \in X |-> (a \o <<0>> \o x)]]
  <1>1. b \in T /\ s \in Seq(X) /\ \A a \in T, x \in X : (a \o <<0>> \o x) \in T
    <2>1. ASSUME NEW a \in Seq(Nat), NEW x \in Seq(Nat) PROVE (a \o <<0>> \o x) \in Seq(Nat)
      <3>1. <<0>> \in Seq(Nat)
        OBVIOUS
      <3>2. a \o <<0>> \in Seq(Nat)
        BY <3>1, ConcatProperties
      <3> QED
        BY <3>2, ConcatProperties
    <2> QED
      BY <2>1 DEF Texts
  <1>2. JoinedTags(h, <<>>) = b /\ JoinedTags(h, s) \in T
        /\ \A x \in X : JoinedTags(h, Append(s, x)) = (JoinedTags(h, s) \o <<0>> \o x)
    <2> HIDE DEF T, X
    <2>1. ASSUME NEW t \in Seq(X)
          PROVE  JoinedTags(h, t) = Run(step, b, t) /\ Loop(step, b, t, T, X)
      <3> DEFINE n == Len(t)
                 body(g) == [q \in SUBSET (1..n) |->
                                IF q = {} THEN b ELSE (g[q \ {Max(q)}] \o <<0>> \o t[Max(q)])]
                 f == CHOOSE g : g = body(g)
      <3>1. DOMAIN t = 1..n /\ n \in Nat /\ \A i \in 1..n : t[i] \in X
        OBVIOUS
      <3>2. JoinedTags(h, t) = f[1..n]
        BY <3>1 DEF JoinedTags, FoldLeft, MapThenFoldSet
      <3> HIDE DEF b
      <3>3. /\ \A a \in T, x \in X : step[a][x] = (a \o <<0>> \o x)
            /\ step \in [T -> [X -> T]]
        BY <1>1
      <3> HIDE DEF step
      <3>4. Loop(step, b, t, T, X)
        BY <1>1, <3>3 DEF Loop
      <3>5. PICK g : IsFold(g, step, b, t, T)
        BY <3>4, FoldExists
      <3>6. g = body(g)
        <4>1. ASSUME NEW q \in SUBSET (1..n), q # {}
              PROVE  g[q] = (g[q \ {Max(q)}] \o <<0>> \o t[Max(q)])
          <5>1. Max(q) \in 1..n
            BY <3>1, <4>1, MaxIn
          <5>2. t[Max(q)] \in X /\ g[q \ {Max(q)}] \in T
            BY <3>1, <3>5, <5>1 DEF IsFold
          <5>3. g[q] = step[g[q \ {Max(q)}]][t[Max(q)]]
            BY <3>5, <4>1 DEF IsFold
          <5> QED
            BY <3>3, <5>2, <5>3
        <4> QED
          BY <3>5, <4>1 DEF IsFold
      <3>7. f = body(f)
        <4> HIDE DEF body
        <4> QED
          BY <3>6
      <3>8. f[{}] = b
        BY <3>7
      <3>9. ASSUME NEW i \in 1..n, f[1..(i - 1)] \in T
            PROVE  f[1..i] = step[f[1..(i - 1)]][t[i]]
        <4>1. /\ (1..i) \in SUBSET (1..n) /\ (1..i) # {}
              /\ (1..i) \ {i} = 1..(i - 1) /\ Max(1..i) = i
          BY <3>1, Prefix
        <4>2. f[1..i] = (f[1..(i - 1)] \o <<0>> \o t[i])
          <5> HIDE DEF f
          <5> QED
            BY <3>7, <4>1
        <4> QED
          BY <3>1, <3>3, <3>9, <4>2
      <3> HIDE DEF f, body
      <3> QED
        BY <3>2, <3>4, <3>8, <3>9, FoldIsRun
    <2>2. <<>> \in Seq(X) /\ \A x \in X : Append(s, x) \in Seq(X)
      BY <1>1
    <2>3. \A a \in T, x \in X : step[a][x] = (a \o <<0>> \o x)
      BY <1>1
    <2> HIDE DEF b, step
    <2>4. JoinedTags(h, <<>>) = b
      BY <2>1, <2>2, RunEmpty
    <2>5. JoinedTags(h, s) \in T
      BY <1>1, <2>1, RunChosen
    <2>6. ASSUME NEW x \in X
          PROVE  JoinedTags(h, Append(s, x)) = (JoinedTags(h, s) \o <<0>> \o x)
      <3>1. Run(step, b, Append(s, x)) = step[Run(step, b, s)][x]
        <4>1. Loop(step, b, s, T, X)
          BY <1>1, <2>1
        <4> QED
          BY <4>1, RunAppend
      <3>2. JoinedTags(h, Append(s, x)) = Run(step, b, Append(s, x)) /\ JoinedTags(h, s) = Run(step, b, s)
        BY <1>1, <2>1, <2>2
      <3> QED
        BY <2>3, <2>5, <3>1, <3>2
    <2> QED
      BY <2>4, <2>5, <2>6
  <1> QED
    BY <1>2

\* What a text with a comma in the middle is made of.
LEMMA CommaParts ==
  ASSUME NEW p \in Seq(Nat), NEW t \in Seq(Nat)
  PROVE  /\ p \o <<0>> \o t \in Seq(Nat)
         /\ Len(p \o <<0>> \o t) = Len(p) + 1 + Len(t)
         /\ \A i \in 1..Len(p) : (p \o <<0>> \o t)[i] = p[i]
         /\ (p \o <<0>> \o t)[Len(p) + 1] = 0
         /\ \A i \in 1..Len(t) : (p \o <<0>> \o t)[Len(p) + 1 + i] = t[i]
  <1> DEFINE c == <<0>>
             a == p \o c
             r == a \o t
  <1>1. c \in Seq(Nat) /\ Len(c) = 1 /\ c[1] = 0
    OBVIOUS
  <1>2. Len(p) \in Nat /\ Len(t) \in Nat
    OBVIOUS
  <1> HIDE DEF c
  <1>3. /\ a \in Seq(Nat) /\ Len(a) = Len(p) + 1 /\ a[Len(p) + 1] = 0
        /\ \A i \in 1..Len(p) : a[i] = p[i]
    <2>1. /\ a \in Seq(Nat) /\ Len(a) = Len(p) + Len(c)
          /\ \A i \in 1..(Len(p) + Len(c)) : a[i] = IF i <= Len(p) THEN p[i] ELSE c[i - Len(p)]
      BY <1>1, ConcatProperties
    <2> HIDE DEF a
    <2>2. Len(p) + 1 \in 1..(Len(p) + Len(c)) /\ ~(Len(p) + 1 <= Len(p)) /\ (Len(p) + 1) - Len(p) = 1
      BY <1>1, <1>2
    <2>3. a[Len(p) + 1] = c[(Len(p) + 1) - Len(p)]
      BY <2>1, <2>2
    <2>4. \A i \in 1..Len(p) : i \in 1..(Len(p) + Len(c)) /\ i <= Len(p)
      BY <1>1, <1>2
    <2> QED
      BY <1>1, <2>1, <2>2, <2>3, <2>4
  <1> HIDE DEF a
  <1>4. /\ r \in Seq(Nat) /\ Len(r) = Len(a) + Len(t)
        /\ \A i \in 1..(Len(a) + Len(t)) : r[i] = IF i <= Len(a) THEN a[i] ELSE t[i - Len(a)]
    BY <1>3, ConcatProperties
  <1> HIDE DEF r
  <1>5. /\ r \in Seq(Nat) /\ Len(r) = Len(p) + 1 + Len(t)
        /\ \A i \in 1..Len(p) : r[i] = p[i]
        /\ r[Len(p) + 1] = 0
    BY <1>2, <1>3, <1>4
  <1>6. ASSUME NEW i \in 1..Len(t) PROVE r[Len(p) + 1 + i] = t[i]
    <2> DEFINE j == Len(p) + 1 + i
    <2>1. j \in 1..(Len(a) + Len(t)) /\ ~(j <= Len(a)) /\ j - Len(a) = i
      BY <1>2, <1>3
    <2> QED
      BY <1>4, <2>1
  <1> QED
    BY <1>5, <1>6 DEF r, a, c

TextAndTag(p, t) == p \o <<0>> \o t
TwoFields(a, b) == EncodeField(a) \o EncodeField(b)

\* The last comma tells where the last tag begins.
LEMMA LastComma ==
  ASSUME NEW p \in Seq(Nat), NEW q \in Seq(Nat), NEW t \in Seq(Nat \ {0}), NEW u \in Seq(Nat \ {0}),
         TextAndTag(p, t) = TextAndTag(q, u)
  PROVE  p = q /\ t = u
  <1> DEFINE r == p \o <<0>> \o t
  <1>1. t \in Seq(Nat) /\ u \in Seq(Nat)
    <2>1. (Nat \ {0}) \subseteq Nat
      OBVIOUS
    <2> QED
      BY <2>1, SeqMonotonic
  <1>2. /\ Len(r) = Len(p) + 1 + Len(t)
        /\ \A i \in 1..Len(p) : r[i] = p[i]
        /\ r[Len(p) + 1] = 0
        /\ \A i \in 1..Len(t) : r[Len(p) + 1 + i] = t[i]
    BY <1>1, CommaParts
  <1>3. /\ Len(r) = Len(q) + 1 + Len(u)
        /\ \A i \in 1..Len(q) : r[i] = q[i]
        /\ r[Len(q) + 1] = 0
        /\ \A i \in 1..Len(u) : r[Len(q) + 1 + i] = u[i]
    <2>1. r = q \o <<0>> \o u
      BY DEF TextAndTag
    <2> HIDE DEF r
    <2> QED
      BY <1>1, <2>1, CommaParts
  <1>4. /\ Len(p) \in Nat /\ Len(q) \in Nat /\ Len(t) \in Nat /\ Len(u) \in Nat
        /\ \A i \in 1..Len(t) : t[i] # 0
        /\ \A i \in 1..Len(u) : u[i] # 0
    OBVIOUS
  <1> HIDE DEF r
  <1>5. ~(Len(p) < Len(q))
    <2> SUFFICES ASSUME Len(p) < Len(q) PROVE FALSE
      OBVIOUS
    <2> DEFINE i == Len(q) - Len(p)
    <2>1. i \in 1..Len(t) /\ Len(p) + 1 + i = Len(q) + 1
      BY <1>2, <1>3, <1>4
    <2>2. r[Len(p) + 1 + i] = t[i] /\ t[i] # 0
      BY <1>2, <1>4, <2>1
    <2> QED
      BY <1>3, <2>1, <2>2
  <1>6. ~(Len(q) < Len(p))
    <2> SUFFICES ASSUME Len(q) < Len(p) PROVE FALSE
      OBVIOUS
    <2> DEFINE i == Len(p) - Len(q)
    <2>1. i \in 1..Len(u) /\ Len(q) + 1 + i = Len(p) + 1
      BY <1>2, <1>3, <1>4
    <2>2. r[Len(q) + 1 + i] = u[i] /\ u[i] # 0
      BY <1>3, <1>4, <2>1
    <2> QED
      BY <1>2, <2>1, <2>2
  <1>7. Len(p) = Len(q) /\ Len(t) = Len(u)
    BY <1>2, <1>3, <1>4, <1>5, <1>6
  <1>8. (\A i \in 1..Len(p) : p[i] = q[i]) /\ (\A i \in 1..Len(t) : t[i] = u[i])
    BY <1>2, <1>3, <1>7
  <1> QED
    BY <1>1, <1>7, <1>8, SeqEqual

\* A list of tags with one tag more.
LEMMA JoinAppend ==
  ASSUME NEW ts \in Seq(Tags), NEW t \in Tags
  PROVE  /\ JoinTags(<<>>) = <<>>
         /\ JoinTags(ts) \in Texts
         /\ JoinTags(Append(ts, t)) = IF ts = <<>> THEN t ELSE JoinTags(ts) \o <<0>> \o t
  <1>1. Tags \subseteq Texts
    <2>1. \A x \in Seq(Nat \ {0}) : x \in Seq(Nat)
      <3>1. (Nat \ {0}) \subseteq Nat
        OBVIOUS
      <3> QED
        BY <3>1, SeqMonotonic
    <2> QED
      BY <2>1 DEF Tags, Texts
  <1>2. \A us \in Seq(Tags) : us # <<>> =>
           /\ Head(us) \in Texts /\ Tail(us) \in Seq(Texts)
           /\ JoinTags(us) = JoinedTags(Head(us), Tail(us))
    <2> SUFFICES ASSUME NEW us \in Seq(Tags), us # <<>>
                 PROVE  /\ Head(us) \in Texts /\ Tail(us) \in Seq(Texts)
                        /\ JoinTags(us) = JoinedTags(Head(us), Tail(us))
      OBVIOUS
    <2>1. Head(us) \in Tags /\ Tail(us) \in Seq(Tags)
      BY HeadTailProperties
    <2>2. Tail(us) \in Seq(Texts)
      BY <1>1, <2>1, SeqMonotonic
    <2> QED
      BY <1>1, <2>1, <2>2 DEF JoinTags, JoinedTags
  <1>3. JoinTags(<<>>) = <<>>
    BY DEF JoinTags
  <1>4. JoinTags(ts) \in Texts
    <2>1. CASE ts = <<>>
      BY <1>3, <2>1, EmptySeq DEF Texts
    <2>2. CASE ts # <<>>
      BY <1>2, <2>2, JoinSteps
    <2> QED
      BY <2>1, <2>2
  <1> DEFINE us == Append(ts, t)
  <1>5. us \in Seq(Tags) /\ us # <<>>
    BY AppendProperties
  <1>6. /\ Head(us) = IF ts = <<>> THEN t ELSE Head(ts)
        /\ Tail(us) = IF ts = <<>> THEN <<>> ELSE Append(Tail(ts), t)
    BY HeadTailAppend
  <1>7. JoinTags(us) = JoinedTags(Head(us), Tail(us))
    BY <1>2, <1>5
  <1> HIDE DEF us
  <1>8. CASE ts = <<>>
    <2>1. t \in Texts /\ <<>> \in Seq(Texts)
      BY <1>1, EmptySeq
    <2>2. JoinedTags(t, <<>>) = t
      BY <2>1, JoinSteps
    <2> QED
      BY <1>3, <1>4, <1>6, <1>7, <1>8, <2>2 DEF us
  <1>9. CASE ts # <<>>
    <2>1. Head(ts) \in Texts /\ Tail(ts) \in Seq(Texts) /\ t \in Texts
      BY <1>1, <1>2, <1>9
    <2>2. JoinedTags(Head(ts), Append(Tail(ts), t)) = (JoinedTags(Head(ts), Tail(ts)) \o <<0>> \o t)
      BY <2>1, JoinSteps
    <2>3. JoinTags(ts) = JoinedTags(Head(ts), Tail(ts))
      BY <1>2, <1>9
    <2> QED
      BY <1>3, <1>4, <1>6, <1>7, <1>9, <2>2, <2>3 DEF us
  <1> QED
    BY <1>8, <1>9

\* What a joined list ends with: its last tag, after a comma if there are others.
LEMMA JoinEnd ==
  ASSUME NEW ts \in Seq(Tags), NEW t \in Tags, NEW us \in Seq(Tags), NEW u \in Tags,
         JoinTags(Append(ts, t)) = JoinTags(Append(us, u))
  PROVE  t = u /\ JoinTags(ts) = JoinTags(us) /\ (ts = <<>> <=> us = <<>>)
  <1> DEFINE a == JoinTags(ts)
             b == JoinTags(us)
  <1>1. /\ a \in Texts /\ JoinTags(Append(ts, t)) = IF ts = <<>> THEN t ELSE a \o <<0>> \o t
        /\ b \in Texts /\ JoinTags(Append(us, u)) = IF us = <<>> THEN u ELSE b \o <<0>> \o u
        /\ JoinTags(<<>>) = <<>>
    BY JoinAppend
  <1>2. t \in Seq(Nat \ {0}) /\ u \in Seq(Nat \ {0})
    BY DEF Tags
  <1>3. t \in Seq(Nat) /\ u \in Seq(Nat)
    <2>1. (Nat \ {0}) \subseteq Nat
      OBVIOUS
    <2> QED
      BY <1>2, <2>1, SeqMonotonic
  <1> HIDE DEF a, b
  <1>4. ASSUME NEW p \in Seq(Nat), NEW v \in Seq(Nat), NEW w \in Seq(Nat \ {0}), w = p \o << 0 >> \o v
        PROVE  FALSE
    <2>1. Len(w) = Len(p) + 1 + Len(v) /\ w[Len(p) + 1] = 0
      BY <1>4, CommaParts
    <2>2. Len(p) \in Nat /\ Len(v) \in Nat /\ \A i \in 1..Len(w) : w[i] # 0
      OBVIOUS
    <2>3. Len(p) + 1 \in 1..Len(w)
      BY <2>1, <2>2
    <2> QED
      BY <2>1, <2>2, <2>3
  <1>5. CASE ts = <<>> /\ us = <<>>
    BY <1>1, <1>5
  <1>6. CASE ts = <<>> /\ us # <<>>
    <2>1. t = b \o <<0>> \o u /\ b \in Seq(Nat)
      BY <1>1, <1>6 DEF Texts
    <2> QED
      BY <1>2, <1>3, <1>4, <2>1
  <1>7. CASE ts # <<>> /\ us = <<>>
    <2>1. u = a \o <<0>> \o t /\ a \in Seq(Nat)
      BY <1>1, <1>7 DEF Texts
    <2> QED
      BY <1>2, <1>3, <1>4, <2>1
  <1>8. CASE ts # <<>> /\ us # <<>>
    <2>1. TextAndTag(a, t) = TextAndTag(b, u) /\ a \in Seq(Nat) /\ b \in Seq(Nat)
      BY <1>1, <1>8 DEF Texts, TextAndTag
    <2>2. a = b /\ t = u
      BY <1>2, <2>1, LastComma
    <2> QED
      BY <1>8, <2>2 DEF a, b
  <1> QED
    BY <1>5, <1>6, <1>7, <1>8

\* Joining loses nothing.
LEMMA JoinInjective ==
  ASSUME NEW ts \in Seq(Tags), NEW us \in Seq(Tags), JoinTags(ts) = JoinTags(us)
  PROVE  ts = us
  <1> DEFINE P == {vs \in Seq(Tags) : \A ws \in Seq(Tags) : JoinTags(vs) = JoinTags(ws) => vs = ws}
  <1>1. ASSUME NEW vs \in Seq(Tags), NEW v \in Tags PROVE JoinTags(Append(vs, v)) # JoinTags(<<>>)
    <2>1. /\ JoinTags(<<>>) = <<>>
          /\ JoinTags(vs) \in Texts
          /\ JoinTags(Append(vs, v)) = IF vs = <<>> THEN v ELSE JoinTags(vs) \o <<0>> \o v
      BY JoinAppend
    <2>2. v # <<>> /\ v \in Seq(Nat \ {0})
      BY DEF Tags
    <2>3. v \in Seq(Nat)
      <3>1. (Nat \ {0}) \subseteq Nat
        OBVIOUS
      <3> QED
        BY <2>2, <3>1, SeqMonotonic
    <2>4. CASE vs = <<>>
      BY <2>1, <2>2, <2>4
    <2>5. CASE vs # <<>>
      <3> DEFINE a == JoinTags(vs)
      <3>1. a \in Seq(Nat)
        BY <2>1 DEF Texts
      <3> HIDE DEF a
      <3>2. Len(a \o <<0>> \o v) = Len(a) + 1 + Len(v)
        BY <2>3, <3>1, CommaParts
      <3>3. Len(a) \in Nat /\ Len(v) \in Nat /\ Len(<<>>) = 0
        BY <2>3, <3>1
      <3>4. a \o <<0>> \o v # <<>>
        BY <3>2, <3>3
      <3> QED
        BY <2>1, <2>5, <3>4 DEF a
    <2> QED
      BY <2>4, <2>5
  <1>2. <<>> \in P
    <2> SUFFICES ASSUME NEW ws \in Seq(Tags), JoinTags(<<>>) = JoinTags(ws) PROVE <<>> = ws
      BY EmptySeq
    <2> SUFFICES ASSUME ws # <<>> PROVE FALSE
      OBVIOUS
    <2>1. PICK vs \in Seq(Tags), v \in Tags : ws = Append(vs, v)
      BY SequenceEmptyOrAppend
    <2> QED
      BY <1>1, <2>1
  <1>3. ASSUME NEW vs \in P, NEW v \in Tags PROVE Append(vs, v) \in P
    <2>1. vs \in Seq(Tags) /\ \A ws \in Seq(Tags) : JoinTags(vs) = JoinTags(ws) => vs = ws
      OBVIOUS
    <2> SUFFICES ASSUME NEW ws \in Seq(Tags), JoinTags(Append(vs, v)) = JoinTags(ws)
                 PROVE  Append(vs, v) = ws
      BY <2>1, AppendProperties
    <2> HIDE DEF P
    <2>2. ws # <<>>
      BY <1>1, <2>1
    <2>3. PICK xs \in Seq(Tags), x \in Tags : ws = Append(xs, x)
      BY <2>2, SequenceEmptyOrAppend
    <2>4. v = x /\ JoinTags(vs) = JoinTags(xs)
      BY <2>1, <2>3, JoinEnd
    <2> QED
      BY <2>1, <2>3, <2>4
  <1>4. P = Seq(Tags)
    <2> HIDE DEF P
    <2>1. P \in SUBSET Seq(Tags)
      BY DEF P
    <2> QED
      BY <1>2, <1>3, <2>1, SeqInduction
  <1> QED
    BY <1>4

\* Lengths before the fields tell where each ends.
LEMMA IdFields ==
  ASSUME NEW a \in Seq(Nat), NEW b \in Seq(Nat), NEW c \in Seq(Nat), NEW d \in Seq(Nat),
         TwoFields(a, b) = TwoFields(c, d)
  PROVE  a = c /\ b = d
  <1>1. ASSUME NEW x \in Seq(Nat)
        PROVE  /\ EncodeField(x) \in Seq(Nat) /\ Len(EncodeField(x)) = Len(x) + 1
               /\ EncodeField(x)[1] = Len(x)
               /\ \A i \in 1..Len(x) : EncodeField(x)[i + 1] = x[i]
    <2> DEFINE l == <<Len(x)>>
    <2>1. l \in Seq(Nat) /\ Len(l) = 1 /\ l[1] = Len(x) /\ Len(x) \in Nat
      OBVIOUS
    <2>2. EncodeField(x) = l \o x
      BY DEF EncodeField
    <2> HIDE DEF l
    <2>3. /\ l \o x \in Seq(Nat) /\ Len(l \o x) = Len(l) + Len(x)
          /\ \A i \in 1..(Len(l) + Len(x)) : (l \o x)[i] = IF i <= Len(l) THEN l[i] ELSE x[i - Len(l)]
      BY <2>1, ConcatProperties
    <2>4. (l \o x)[1] = Len(x)
      BY <2>1, <2>3
    <2>5. ASSUME NEW i \in 1..Len(x) PROVE (l \o x)[i + 1] = x[i]
      <3>1. i + 1 \in 1..(Len(l) + Len(x)) /\ ~(i + 1 <= Len(l)) /\ (i + 1) - Len(l) = i
        BY <2>1
      <3> QED
        BY <2>3, <3>1
    <2> QED
      BY <2>1, <2>2, <2>3, <2>4, <2>5
  <1> DEFINE ea == EncodeField(a)
             eb == EncodeField(b)
             ec == EncodeField(c)
             ed == EncodeField(d)
             r == ea \o eb
  <1>2. /\ ea \in Seq(Nat) /\ Len(ea) = Len(a) + 1 /\ ea[1] = Len(a)
        /\ \A i \in 1..Len(a) : ea[i + 1] = a[i]
    BY <1>1
  <1>3. /\ eb \in Seq(Nat) /\ Len(eb) = Len(b) + 1 /\ eb[1] = Len(b)
        /\ \A i \in 1..Len(b) : eb[i + 1] = b[i]
    BY <1>1
  <1>4. /\ ec \in Seq(Nat) /\ Len(ec) = Len(c) + 1 /\ ec[1] = Len(c)
        /\ \A i \in 1..Len(c) : ec[i + 1] = c[i]
    BY <1>1
  <1>5. /\ ed \in Seq(Nat) /\ Len(ed) = Len(d) + 1 /\ ed[1] = Len(d)
        /\ \A i \in 1..Len(d) : ed[i + 1] = d[i]
    BY <1>1
  <1>6. r = ec \o ed
    BY DEF TwoFields
  <1> HIDE DEF ea, eb, ec, ed
  <1>7. /\ Len(r) = Len(ea) + Len(eb)
        /\ \A i \in 1..(Len(ea) + Len(eb)) : r[i] = IF i <= Len(ea) THEN ea[i] ELSE eb[i - Len(ea)]
    <2>1. ea \in Seq(Nat) /\ eb \in Seq(Nat)
      BY <1>2, <1>3
    <2> QED
      BY <2>1, ConcatProperties
  <1> HIDE DEF r
  <1>8. /\ Len(r) = Len(ec) + Len(ed)
        /\ \A i \in 1..(Len(ec) + Len(ed)) : r[i] = IF i <= Len(ec) THEN ec[i] ELSE ed[i - Len(ec)]
    <2>1. ec \in Seq(Nat) /\ ed \in Seq(Nat)
      BY <1>4, <1>5
    <2> QED
      BY <1>6, <2>1, ConcatProperties
  <1>9. /\ Len(ea) = Len(a) + 1 /\ Len(eb) = Len(b) + 1 /\ Len(a) \in Nat /\ Len(b) \in Nat
        /\ Len(ec) = Len(c) + 1 /\ Len(ed) = Len(d) + 1 /\ Len(c) \in Nat /\ Len(d) \in Nat
    <2>1. Len(a) \in Nat /\ Len(b) \in Nat /\ Len(c) \in Nat /\ Len(d) \in Nat
      OBVIOUS
    <2> QED
      BY <1>2, <1>3, <1>4, <1>5, <2>1, Zenon
  <1>10. Len(a) = Len(c)
    <2>1. /\ 1 \in 1..(Len(ea) + Len(eb)) /\ 1 <= Len(ea)
          /\ 1 \in 1..(Len(ec) + Len(ed)) /\ 1 <= Len(ec)
      BY <1>9
    <2>2. r[1] = ea[1] /\ r[1] = ec[1]
      BY <1>7, <1>8, <2>1
    <2> QED
      BY <1>2, <1>4, <2>2
  <1>11. Len(b) = Len(d)
    BY <1>7, <1>8, <1>9, <1>10
  <1>12. \A i \in 1..Len(a) : a[i] = c[i]
    <2> SUFFICES ASSUME NEW i \in 1..Len(a) PROVE a[i] = c[i]
      OBVIOUS
    <2>1. i + 1 \in 1..(Len(ea) + Len(eb)) /\ i + 1 <= Len(ea)
      BY <1>9
    <2>2. i + 1 \in 1..(Len(ec) + Len(ed)) /\ i + 1 <= Len(ec)
      BY <1>9, <1>10
    <2>3. ea[i + 1] = ec[i + 1]
      BY <1>7, <1>8, <2>1, <2>2
    <2> QED
      BY <1>2, <1>4, <1>10, <2>3
  <1>13. \A i \in 1..Len(b) : b[i] = d[i]
    <2> SUFFICES ASSUME NEW i \in 1..Len(b) PROVE b[i] = d[i]
      OBVIOUS
    <2> DEFINE j == Len(a) + 2 + i
    <2>1. j \in 1..(Len(ea) + Len(eb)) /\ ~(j <= Len(ea)) /\ j - Len(ea) = i + 1
      BY <1>9
    <2>2. j \in 1..(Len(ec) + Len(ed)) /\ ~(j <= Len(ec)) /\ j - Len(ec) = i + 1
      BY <1>9, <1>10, <1>11
    <2> HIDE DEF j
    <2>3. eb[i + 1] = ed[i + 1]
      BY <1>7, <1>8, <2>1, <2>2
    <2> QED
      BY <1>3, <1>5, <1>11, <2>3
  <1> QED
    BY <1>10, <1>11, <1>12, <1>13, SeqEqual

\* Records with one id have the same tags and body.
LEMMA IdResult ==
  ASSUME NEW c \in [tags : Seq(Tags), body : Seq(Nat)], NEW d \in [tags : Seq(Tags), body : Seq(Nat)],
         RecordId(c.tags, c.body) = RecordId(d.tags, d.body)
  PROVE  c = d
  <1>1. JoinTags(c.tags) \in Seq(Nat) /\ JoinTags(d.tags) \in Seq(Nat)
    <2>1. c.tags \in Seq(Tags) /\ d.tags \in Seq(Tags) /\ <<1>> \in Tags
      BY DEF Tags
    <2> QED
      BY <2>1, JoinAppend DEF Texts
  <1>2. JoinTags(c.tags) = JoinTags(d.tags) /\ c.body = d.body
    <2> DEFINE p == JoinTags(c.tags)
               q == JoinTags(d.tags)
    <2>1. TwoFields(p, c.body) = TwoFields(q, d.body)
      BY DEF RecordId, TwoFields
    <2>2. p \in Seq(Nat) /\ q \in Seq(Nat) /\ c.body \in Seq(Nat) /\ d.body \in Seq(Nat)
      BY <1>1
    <2> HIDE DEF p, q
    <2>3. p = q /\ c.body = d.body
      BY <2>1, <2>2, IdFields
    <2> QED
      BY <2>3 DEF p, q
  <1>3. c.tags = d.tags
    BY <1>2, JoinInjective
  <1> QED
    BY <1>2, <1>3
-----------------------------------------------------------------------------
(* normalize_source_url. *)

\* The values of a key, parameter by parameter.
LEMMA ValuesSteps ==
  ASSUME NEW k \in Nat, NEW s \in Seq(UrlParams)
  PROVE  /\ Values(<<>>, k) = <<>>
         /\ Values(s, k) \in Seq(STRING)
         /\ \A x \in UrlParams : Values(Append(s, x), k) = (IF x.key = k THEN Append(Values(s, k), x.value) ELSE Values(s, k))
  <1> DEFINE T == Seq(STRING)
             X == UrlParams
             b == <<>>
             step == [a \in T |-> [x \in X |-> (IF x.key = k THEN Append(a, x.value) ELSE a)]]
  <1>1. b \in T /\ s \in Seq(X) /\ \A a \in T, x \in X : (IF x.key = k THEN Append(a, x.value) ELSE a) \in T
    <2>1. \A x \in UrlParams : x.value \in STRING
      BY DEF UrlParams
    <2>2. ASSUME NEW a \in T, NEW x \in X PROVE (IF x.key = k THEN Append(a, x.value) ELSE a) \in T
      <3>1. Append(a, x.value) \in T
        BY <2>1, AppendProperties
      <3> QED
        BY <3>1
    <2>3. b \in T
      BY EmptySeq
    <2> QED
      BY <2>2, <2>3
  <1>2. Values(<<>>, k) = b /\ Values(s, k) \in T
        /\ \A x \in X : Values(Append(s, x), k) = (IF x.key = k THEN Append(Values(s, k), x.value) ELSE Values(s, k))
    <2> HIDE DEF T, X
    <2>1. ASSUME NEW t \in Seq(X)
          PROVE  Values(t, k) = Run(step, b, t) /\ Loop(step, b, t, T, X)
      <3> DEFINE n == Len(t)
                 body(g) == [q \in SUBSET (1..n) |->
                                IF q = {} THEN b ELSE (IF t[Max(q)].key = k THEN Append(g[q \ {Max(q)}], t[Max(q)].value) ELSE g[q \ {Max(q)}])]
                 f == CHOOSE g : g = body(g)
      <3>1. DOMAIN t = 1..n /\ n \in Nat /\ \A i \in 1..n : t[i] \in X
        OBVIOUS
      <3>2. Values(t, k) = f[1..n]
        BY <3>1 DEF Values, FoldLeft, MapThenFoldSet
      <3> HIDE DEF b
      <3>3. /\ \A a \in T, x \in X : step[a][x] = (IF x.key = k THEN Append(a, x.value) ELSE a)
            /\ step \in [T -> [X -> T]]
        BY <1>1
      <3> HIDE DEF step
      <3>4. Loop(step, b, t, T, X)
        BY <1>1, <3>3 DEF Loop
      <3>5. PICK g : IsFold(g, step, b, t, T)
        BY <3>4, FoldExists
      <3>6. g = body(g)
        <4>1. ASSUME NEW q \in SUBSET (1..n), q # {}
              PROVE  g[q] = (IF t[Max(q)].key = k THEN Append(g[q \ {Max(q)}], t[Max(q)].value) ELSE g[q \ {Max(q)}])
          <5>1. Max(q) \in 1..n
            BY <3>1, <4>1, MaxIn
          <5>2. t[Max(q)] \in X /\ g[q \ {Max(q)}] \in T
            BY <3>1, <3>5, <5>1 DEF IsFold
          <5>3. g[q] = step[g[q \ {Max(q)}]][t[Max(q)]]
            BY <3>5, <4>1 DEF IsFold
          <5> QED
            BY <3>3, <5>2, <5>3
        <4> QED
          BY <3>5, <4>1 DEF IsFold
      <3>7. f = body(f)
        <4> HIDE DEF body
        <4> QED
          BY <3>6
      <3>8. f[{}] = b
        BY <3>7
      <3>9. ASSUME NEW i \in 1..n, f[1..(i - 1)] \in T
            PROVE  f[1..i] = step[f[1..(i - 1)]][t[i]]
        <4>1. /\ (1..i) \in SUBSET (1..n) /\ (1..i) # {}
              /\ (1..i) \ {i} = 1..(i - 1) /\ Max(1..i) = i
          BY <3>1, Prefix
        <4>2. f[1..i] = (IF t[i].key = k THEN Append(f[1..(i - 1)], t[i].value) ELSE f[1..(i - 1)])
          <5> HIDE DEF f
          <5> QED
            BY <3>7, <4>1
        <4> QED
          BY <3>1, <3>3, <3>9, <4>2
      <3> HIDE DEF f, body
      <3> QED
        BY <3>2, <3>4, <3>8, <3>9, FoldIsRun
    <2>2. <<>> \in Seq(X) /\ \A x \in X : Append(s, x) \in Seq(X)
      BY <1>1
    <2>3. \A a \in T, x \in X : step[a][x] = (IF x.key = k THEN Append(a, x.value) ELSE a)
      BY <1>1
    <2> HIDE DEF b, step
    <2>4. Values(<<>>, k) = b
      BY <2>1, <2>2, RunEmpty
    <2>5. Values(s, k) \in T
      BY <1>1, <2>1, RunChosen
    <2>6. ASSUME NEW x \in X
          PROVE  Values(Append(s, x), k) = (IF x.key = k THEN Append(Values(s, k), x.value) ELSE Values(s, k))
      <3>1. Run(step, b, Append(s, x)) = step[Run(step, b, s)][x]
        <4>1. Loop(step, b, s, T, X)
          BY <1>1, <2>1
        <4> QED
          BY <4>1, RunAppend
      <3>2. Values(Append(s, x), k) = Run(step, b, Append(s, x)) /\ Values(s, k) = Run(step, b, s)
        BY <1>1, <2>1, <2>2
      <3> QED
        BY <2>3, <2>5, <3>1, <3>2
    <2> QED
      BY <2>4, <2>5, <2>6
  <1> QED
    BY <1>2

\* Normalizing a query, parameter by parameter.
LEMMA QuerySteps ==
  ASSUME NEW s \in Seq(UrlParams)
  PROVE  /\ QueryNormal(<<>>) = <<>>
         /\ QueryNormal(s) \in Seq(UrlParams)
         /\ \A x \in UrlParams : QueryNormal(Append(s, x)) = KeepParam(QueryNormal(s), x)
  <1> DEFINE T == Seq(UrlParams)
             X == UrlParams
             b == <<>>
             step == [a \in T |-> [x \in X |-> KeepParam(a, x)]]
  <1>1. b \in T /\ s \in Seq(X) /\ \A a \in T, x \in X : KeepParam(a, x) \in T
    <2>1. ASSUME NEW a \in T, NEW x \in X PROVE KeepParam(a, x) \in T
      <3> DEFINE t == {i \in 1..Len(a) : a[i].key <= x.key}
      <3>1. a \in Seq(X) /\ DOMAIN a = 1..Len(a) /\ Len(a) \in Nat
        OBVIOUS
      <3>2. t \in SUBSET (1..Len(a))
        OBVIOUS
      <3> HIDE DEF t, X
      <3>3. Cardinality(t) + 1 \in 1..(Len(a) + 1)
        BY <3>1, <3>2, CountIndices
      <3>4. InsertAt(a, Cardinality(t) + 1, x) \in Seq(X)
        BY <3>1, <3>3, InsertProperties
      <3>5. {i \in DOMAIN a : a[i].key <= x.key} = t
        BY <3>1 DEF t
      <3>6. PlaceParam(a, x) = InsertAt(a, Cardinality(t) + 1, x)
        BY <3>5 DEF PlaceParam
      <3> QED
        BY <3>4, <3>6 DEF X, KeepParam
    <2> QED
      BY <2>1
  <1>2. QueryNormal(<<>>) = b /\ QueryNormal(s) \in T
        /\ \A x \in X : QueryNormal(Append(s, x)) = KeepParam(QueryNormal(s), x)
    <2> HIDE DEF T, X
    <2>1. ASSUME NEW t \in Seq(X)
          PROVE  QueryNormal(t) = Run(step, b, t) /\ Loop(step, b, t, T, X)
      <3> DEFINE n == Len(t)
                 body(g) == [q \in SUBSET (1..n) |->
                                IF q = {} THEN b ELSE KeepParam(g[q \ {Max(q)}], t[Max(q)])]
                 f == CHOOSE g : g = body(g)
      <3>1. DOMAIN t = 1..n /\ n \in Nat /\ \A i \in 1..n : t[i] \in X
        OBVIOUS
      <3>2. QueryNormal(t) = f[1..n]
        BY <3>1 DEF QueryNormal, FoldLeft, MapThenFoldSet
      <3> HIDE DEF b
      <3>3. /\ \A a \in T, x \in X : step[a][x] = KeepParam(a, x)
            /\ step \in [T -> [X -> T]]
        BY <1>1
      <3> HIDE DEF step
      <3>4. Loop(step, b, t, T, X)
        BY <1>1, <3>3 DEF Loop
      <3>5. PICK g : IsFold(g, step, b, t, T)
        BY <3>4, FoldExists
      <3>6. g = body(g)
        <4>1. ASSUME NEW q \in SUBSET (1..n), q # {}
              PROVE  g[q] = KeepParam(g[q \ {Max(q)}], t[Max(q)])
          <5>1. Max(q) \in 1..n
            BY <3>1, <4>1, MaxIn
          <5>2. t[Max(q)] \in X /\ g[q \ {Max(q)}] \in T
            BY <3>1, <3>5, <5>1 DEF IsFold
          <5>3. g[q] = step[g[q \ {Max(q)}]][t[Max(q)]]
            BY <3>5, <4>1 DEF IsFold
          <5> QED
            BY <3>3, <5>2, <5>3
        <4> QED
          BY <3>5, <4>1 DEF IsFold
      <3>7. f = body(f)
        <4> HIDE DEF body
        <4> QED
          BY <3>6
      <3>8. f[{}] = b
        BY <3>7
      <3>9. ASSUME NEW i \in 1..n, f[1..(i - 1)] \in T
            PROVE  f[1..i] = step[f[1..(i - 1)]][t[i]]
        <4>1. /\ (1..i) \in SUBSET (1..n) /\ (1..i) # {}
              /\ (1..i) \ {i} = 1..(i - 1) /\ Max(1..i) = i
          BY <3>1, Prefix
        <4>2. f[1..i] = KeepParam(f[1..(i - 1)], t[i])
          <5> HIDE DEF f
          <5> QED
            BY <3>7, <4>1
        <4> QED
          BY <3>1, <3>3, <3>9, <4>2
      <3> HIDE DEF f, body
      <3> QED
        BY <3>2, <3>4, <3>8, <3>9, FoldIsRun
    <2>2. <<>> \in Seq(X) /\ \A x \in X : Append(s, x) \in Seq(X)
      BY <1>1
    <2>3. \A a \in T, x \in X : step[a][x] = KeepParam(a, x)
      BY <1>1
    <2> HIDE DEF b, step
    <2>4. QueryNormal(<<>>) = b
      BY <2>1, <2>2, RunEmpty
    <2>5. QueryNormal(s) \in T
      BY <1>1, <2>1, RunChosen
    <2>6. ASSUME NEW x \in X
          PROVE  QueryNormal(Append(s, x)) = KeepParam(QueryNormal(s), x)
      <3>1. Run(step, b, Append(s, x)) = step[Run(step, b, s)][x]
        <4>1. Loop(step, b, s, T, X)
          BY <1>1, <2>1
        <4> QED
          BY <4>1, RunAppend
      <3>2. QueryNormal(Append(s, x)) = Run(step, b, Append(s, x)) /\ QueryNormal(s) = Run(step, b, s)
        BY <1>1, <2>1, <2>2
      <3> QED
        BY <2>3, <2>5, <3>1, <3>2
    <2> QED
      BY <2>4, <2>5, <2>6
  <1> QED
    BY <1>2

\* A key has no values exactly when no parameter has it.
LEMMA ValuesEmpty ==
  ASSUME NEW k \in Nat, NEW s \in Seq(UrlParams)
  PROVE  Values(s, k) = <<>> <=> \A i \in 1..Len(s) : s[i].key # k
  <1> DEFINE P == {t \in Seq(UrlParams) : Values(t, k) = <<>> <=> \A i \in 1..Len(t) : t[i].key # k}
  <1>1. <<>> \in P
    <2>1. <<>> \in Seq(UrlParams) /\ Len(<<>>) = 0
      BY EmptySeq
    <2>2. Values(<<>>, k) = <<>>
      BY <2>1, ValuesSteps
    <2> QED
      BY <2>1, <2>2
  <1>2. ASSUME NEW t \in P, NEW x \in UrlParams PROVE Append(t, x) \in P
    <2>1. /\ t \in Seq(UrlParams) /\ Append(t, x) \in Seq(UrlParams) /\ Len(t) \in Nat
          /\ Len(Append(t, x)) = Len(t) + 1 /\ Append(t, x)[Len(t) + 1] = x
          /\ \A i \in 1..Len(t) : Append(t, x)[i] = t[i]
      BY AppendProperties
    <2>2. /\ Values(t, k) \in Seq(STRING)
          /\ Values(Append(t, x), k) = IF x.key = k THEN Append(Values(t, k), x.value) ELSE Values(t, k)
      BY <2>1, ValuesSteps
    <2>3. Append(Values(t, k), x.value) # <<>>
      <3>1. x.value \in STRING
        BY DEF UrlParams
      <3> QED
        BY <2>2, <3>1, AppendProperties
    <2>4. \A i : i \in 1..(Len(t) + 1) <=> i \in 1..Len(t) \/ i = Len(t) + 1
      BY <2>1
    <2>5. (\A i \in 1..Len(Append(t, x)) : Append(t, x)[i].key # k) <=>
             (\A i \in 1..Len(t) : t[i].key # k) /\ x.key # k
      BY <2>1, <2>4
    <2>6. Values(t, k) = <<>> <=> \A i \in 1..Len(t) : t[i].key # k
      OBVIOUS
    <2>7. Values(Append(t, x), k) = <<>> <=> Values(t, k) = <<>> /\ x.key # k
      BY <2>2, <2>3
    <2>8. Values(Append(t, x), k) = <<>> <=> \A i \in 1..Len(Append(t, x)) : Append(t, x)[i].key # k
      BY <2>5, <2>6, <2>7
    <2> QED
      BY <2>1, <2>8
  <1>3. P = Seq(UrlParams)
    <2> HIDE DEF P
    <2>1. P \in SUBSET Seq(UrlParams)
      BY DEF P
    <2> QED
      BY <1>1, <1>2, <2>1, SeqInduction
  <1> QED
    BY <1>3

KeysUpTo(s, m) == \A i \in 1..Len(s) : s[i].key <= m
Sorted(s) == \A i, j \in 1..Len(s) : i < j => s[i].key <= s[j].key

LEMMA SortedAppend ==
  ASSUME NEW s \in Seq(UrlParams), NEW x \in UrlParams
  PROVE  /\ Sorted(Append(s, x)) <=> Sorted(s) /\ KeysUpTo(s, x.key)
         /\ \A m \in Nat : KeysUpTo(Append(s, x), m) <=> KeysUpTo(s, m) /\ x.key <= m
  <1> DEFINE n == Len(s)
             u == Append(s, x)
  <1>1. /\ n \in Nat /\ Len(u) = n + 1 /\ u[n + 1] = x
        /\ \A i \in 1..n : u[i] = s[i]
    BY AppendProperties
  <1>2. \A i : i \in 1..(n + 1) <=> i \in 1..n \/ i = n + 1
    BY <1>1
  <1>3. n + 1 \in 1..(n + 1) /\ \A i \in 1..n : i < n + 1 /\ ~(n + 1 < i)
    BY <1>1
  <1> HIDE DEF n, u
  <1>4. \A m \in Nat : KeysUpTo(u, m) <=> KeysUpTo(s, m) /\ x.key <= m
    BY <1>1, <1>2 DEF KeysUpTo, n
  <1>5. Sorted(u) => Sorted(s) /\ KeysUpTo(s, x.key)
    BY <1>1, <1>2, <1>3 DEF Sorted, KeysUpTo, n
  <1>6. ASSUME Sorted(s), KeysUpTo(s, x.key) PROVE Sorted(u)
    <2> SUFFICES ASSUME NEW i \in 1..(n + 1), NEW j \in 1..(n + 1), i < j PROVE u[i].key <= u[j].key
      BY <1>1 DEF Sorted
    <2>1. i \in 1..n
      BY <1>1
    <2>2. CASE j = n + 1
      BY <1>1, <1>6, <2>1, <2>2 DEF KeysUpTo, n
    <2>3. CASE j # n + 1
      <3>1. j \in 1..n
        BY <1>2, <2>3
      <3> QED
        BY <1>1, <1>6, <2>1, <3>1 DEF Sorted, n
    <2> QED
      BY <2>2, <2>3
  <1> QED
    BY <1>4, <1>5, <1>6 DEF u

\* Where a parameter goes: to the end of those with keys up to its own, and
\* before the last one otherwise.
LEMMA PlaceEnd ==
  ASSUME NEW s \in Seq(UrlParams), NEW x \in UrlParams, KeysUpTo(s, x.key)
  PROVE  PlaceParam(s, x) = Append(s, x)
  <1> DEFINE n == Len(s)
             t == {i \in DOMAIN s : s[i].key <= x.key}
             r == InsertAt(s, n + 1, x)
             u == Append(s, x)
  <1>1. n \in Nat /\ DOMAIN s = 1..n
    OBVIOUS
  <1>2. t = 1..n
    BY <1>1 DEF KeysUpTo
  <1>3. Cardinality(1..n) = n
    <2>1. 1 \in Int /\ n \in Int
      BY <1>1
    <2> HIDE DEF n
    <2>2. Cardinality(1..n) = IF 1 > n THEN 0 ELSE n - 1 + 1
      BY <2>1, FS_Interval
    <2> QED
      BY <1>1, <2>2
  <1>4. PlaceParam(s, x) = r
    <2>1. PlaceParam(s, x) = InsertAt(s, Cardinality(t) + 1, x)
      BY DEF PlaceParam
    <2> HIDE DEF t, n
    <2> QED
      BY <1>2, <1>3, <2>1
  <1>5. n + 1 \in 1..(n + 1)
    BY <1>1
  <1>6. /\ r \in Seq(UrlParams) /\ Len(r) = n + 1 /\ r[n + 1] = x
        /\ \A i \in 1..n : i < n + 1 => r[i] = s[i]
    <2> DEFINE k == n + 1
    <2>1. k \in 1..(Len(s) + 1)
      BY <1>5
    <2>2. r = InsertAt(s, k, x)
      OBVIOUS
    <2> HIDE DEF k, r
    <2>3. /\ r \in Seq(UrlParams) /\ Len(r) = Len(s) + 1 /\ r[k] = x
          /\ \A i \in 1..Len(s) : i < k => r[i] = s[i]
      BY <2>1, <2>2, InsertProperties
    <2> QED
      BY <2>3 DEF k
  <1>7. /\ u \in Seq(UrlParams) /\ Len(u) = n + 1 /\ u[n + 1] = x
        /\ \A i \in 1..n : u[i] = s[i]
    BY AppendProperties
  <1> HIDE DEF r, u, n
  <1>8. ASSUME NEW i \in 1..(n + 1) PROVE r[i] = u[i]
    <2>1. CASE i = n + 1
      BY <1>6, <1>7, <2>1
    <2>2. CASE i # n + 1
      <3>1. i \in 1..n /\ i < n + 1
        BY <1>1, <2>2
      <3> QED
        BY <1>6, <1>7, <3>1
    <2> QED
      BY <2>1, <2>2
  <1>9. r = u
    BY <1>6, <1>7, <1>8, SeqEqual
  <1> QED
    BY <1>4, <1>9 DEF u

LEMMA PlaceBeforeLast ==
  ASSUME NEW s \in Seq(UrlParams), NEW y \in UrlParams, NEW x \in UrlParams, ~(y.key <= x.key)
  PROVE  /\ PlaceParam(Append(s, y), x) = Append(PlaceParam(s, x), y)
         /\ PlaceParam(s, x) \in Seq(UrlParams)
  <1> DEFINE n == Len(s)
             t == {i \in 1..n : s[i].key <= x.key}
             k == Cardinality(t) + 1
             a == Append(s, y)
             r == InsertAt(s, k, x)
             q == InsertAt(a, k, x)
             u == Append(r, y)
  <1>1. n \in Nat /\ DOMAIN s = 1..n
    OBVIOUS
  <1>2. /\ a \in Seq(UrlParams) /\ Len(a) = n + 1 /\ a[n + 1] = y /\ DOMAIN a = 1..(n + 1)
        /\ \A i \in 1..n : a[i] = s[i]
    BY AppendProperties
  <1>3. k \in 1..(n + 1) /\ k \in 1..((n + 1) + 1)
    <2>1. t \in SUBSET (1..n)
      OBVIOUS
    <2> HIDE DEF t, n
    <2>2. Cardinality(t) + 1 \in 1..(n + 1)
      BY <1>1, <2>1, CountIndices
    <2> QED
      BY <1>1, <2>2
  <1>4. PlaceParam(s, x) = r
    <2>1. {i \in DOMAIN s : s[i].key <= x.key} = t
      BY <1>1
    <2> HIDE DEF t
    <2> QED
      BY <2>1 DEF PlaceParam
  <1> HIDE DEF a
  <1>5. PlaceParam(a, x) = q
    <2>1. {i \in DOMAIN a : a[i].key <= x.key} = t
      <3>1. \A i : i \in 1..(n + 1) <=> i \in 1..n \/ i = n + 1
        BY <1>1
      <3> HIDE DEF n
      <3> QED
        BY <1>2, <3>1
    <2> HIDE DEF t
    <2> QED
      BY <2>1 DEF PlaceParam
  <1> HIDE DEF k
  <1>6. /\ r \in Seq(UrlParams) /\ Len(r) = n + 1 /\ r[k] = x
        /\ \A i \in 1..n : (i < k => r[i] = s[i]) /\ (i >= k => r[i + 1] = s[i])
    BY <1>3, InsertProperties
  <1>7. /\ q \in Seq(UrlParams) /\ Len(q) = n + 2 /\ q[k] = x
        /\ \A i \in 1..(n + 1) : (i < k => q[i] = a[i]) /\ (i >= k => q[i + 1] = a[i])
    <2>1. k \in 1..(Len(a) + 1)
      BY <1>2, <1>3
    <2>2. /\ q \in Seq(UrlParams) /\ Len(q) = Len(a) + 1 /\ q[k] = x
          /\ \A i \in 1..Len(a) : (i < k => q[i] = a[i]) /\ (i >= k => q[i + 1] = a[i])
      <3>1. a \in Seq(UrlParams) /\ q = InsertAt(a, k, x)
        BY <1>2
      <3> HIDE DEF q, r
      <3> QED
        BY <2>1, <3>1, InsertProperties
    <2>3. Len(a) + 1 = n + 2
      BY <1>1, <1>2
    <2> HIDE DEF q, n
    <2> QED
      BY <1>2, <2>2, <2>3
  <1> HIDE DEF r, q
  <1>8. /\ u \in Seq(UrlParams) /\ Len(u) = n + 2 /\ u[n + 2] = y
        /\ \A i \in 1..(n + 1) : u[i] = r[i]
    <2>1. /\ u \in Seq(UrlParams) /\ Len(u) = Len(r) + 1 /\ u[Len(r) + 1] = y
          /\ \A i \in 1..Len(r) : u[i] = r[i]
      BY <1>6, AppendProperties
    <2>2. Len(r) + 1 = n + 2
      BY <1>1, <1>6
    <2> HIDE DEF u, n
    <2> QED
      BY <1>6, <2>1, <2>2
  <1> HIDE DEF u, n
  <1>9. ASSUME NEW i \in 1..(n + 2) PROVE q[i] = u[i]
    <2>1. CASE i < k
      <3>1. i \in 1..n /\ i \in 1..(n + 1)
        BY <1>1, <1>3, <2>1
      <3> QED
        BY <1>2, <1>6, <1>7, <1>8, <2>1, <3>1
    <2>2. CASE i = k
      BY <1>3, <1>6, <1>7, <1>8, <2>2
    <2>3. CASE i > k /\ i # n + 2
      <3> DEFINE j == i - 1
      <3>1. j \in 1..n /\ j >= k /\ j + 1 = i /\ j \in 1..(n + 1) /\ i \in 1..(n + 1)
        BY <1>1, <1>3, <2>3
      <3> HIDE DEF j
      <3> QED
        BY <1>2, <1>6, <1>7, <1>8, <3>1
    <2>4. CASE i = n + 2
      <3>1. n + 1 \in 1..(n + 1) /\ n + 1 >= k /\ (n + 1) + 1 = n + 2
        BY <1>1, <1>3
      <3> QED
        BY <1>2, <1>7, <1>8, <2>4, <3>1
    <2> QED
      BY <1>1, <1>3, <2>1, <2>2, <2>3, <2>4
  <1>10. q = u
    BY <1>7, <1>8, <1>9, SeqEqual
  <1> QED
    BY <1>4, <1>5, <1>6, <1>10 DEF a, u

\* Placing keeps the parameters sorted and adds a value to those of its key.
LEMMA PlaceSorted ==
  ASSUME NEW s \in Seq(UrlParams), NEW x \in UrlParams, Sorted(s)
  PROVE  /\ PlaceParam(s, x) \in Seq(UrlParams)
         /\ Sorted(PlaceParam(s, x))
         /\ \A k \in Nat : Values(PlaceParam(s, x), k) = Values(Append(s, x), k)
  <1> DEFINE Placed(t) == /\ PlaceParam(t, x) \in Seq(UrlParams)
                          /\ Sorted(PlaceParam(t, x))
                          /\ \A m \in Nat : KeysUpTo(t, m) /\ x.key <= m => KeysUpTo(PlaceParam(t, x), m)
                          /\ \A k \in Nat : Values(PlaceParam(t, x), k) = Values(Append(t, x), k)
             P == {t \in Seq(UrlParams) : Sorted(t) => Placed(t)}
  <1>0. \A y \in UrlParams : y.key \in Nat
    BY DEF UrlParams
  <1>1. ASSUME NEW t \in Seq(UrlParams), Sorted(t), KeysUpTo(t, x.key) PROVE Placed(t)
    <2>1. PlaceParam(t, x) = Append(t, x)
      BY <1>1, PlaceEnd
    <2>2. Append(t, x) \in Seq(UrlParams)
      BY AppendProperties
    <2>3. Sorted(Append(t, x)) /\ \A m \in Nat : KeysUpTo(t, m) /\ x.key <= m => KeysUpTo(Append(t, x), m)
      BY <1>1, SortedAppend
    <2> QED
      BY <2>1, <2>2, <2>3
  <1>2. <<>> \in P
    <2>1. <<>> \in Seq(UrlParams) /\ Len(<<>>) = 0
      BY EmptySeq
    <2>2. Sorted(<<>>) /\ KeysUpTo(<<>>, x.key)
      BY <2>1 DEF Sorted, KeysUpTo
    <2>3. Placed(<<>>)
      BY <1>1, <2>1, <2>2
    <2> HIDE DEF Placed
    <2> QED
      BY <2>1, <2>3
  <1>3. ASSUME NEW t \in P, NEW y \in UrlParams PROVE Append(t, y) \in P
    <2> DEFINE a == Append(t, y)
    <2>1. t \in Seq(UrlParams) /\ a \in Seq(UrlParams) /\ (Sorted(t) => Placed(t))
      BY AppendProperties
    <2> SUFFICES ASSUME Sorted(a) PROVE Placed(a)
      BY <2>1
    <2>2. Sorted(t) /\ KeysUpTo(t, y.key)
      BY <2>1, SortedAppend
    <2>3. x.key \in Nat /\ y.key \in Nat
      BY <1>0
    <2>4. CASE y.key <= x.key
      <3>1. \A i \in 1..Len(t) : t[i].key \in Nat
        BY <1>0, <2>1
      <3>2. KeysUpTo(t, x.key)
        BY <2>2, <2>3, <2>4, <3>1 DEF KeysUpTo
      <3>3. KeysUpTo(a, x.key)
        BY <2>1, <2>3, <2>4, <3>2, SortedAppend
      <3> HIDE DEF a, Placed
      <3> QED
        BY <1>1, <2>1, <3>3
    <2>5. CASE ~(y.key <= x.key)
      <3> DEFINE p == PlaceParam(t, x)
      <3>1. PlaceParam(a, x) = Append(p, y) /\ p \in Seq(UrlParams)
        BY <2>1, <2>5, PlaceBeforeLast
      <3>2. /\ Sorted(p)
            /\ \A m \in Nat : KeysUpTo(t, m) /\ x.key <= m => KeysUpTo(p, m)
            /\ \A k \in Nat : Values(p, k) = Values(Append(t, x), k)
        BY <2>1, <2>2
      <3> HIDE DEF p, Placed, P
      <3>3. x.key <= y.key
        BY <2>3, <2>5
      <3>4. Sorted(Append(p, y)) /\ Append(p, y) \in Seq(UrlParams)
        <4>1. KeysUpTo(p, y.key)
          BY <2>2, <2>3, <3>2, <3>3
        <4> QED
          BY <3>1, <3>2, <4>1, SortedAppend, AppendProperties
      <3>5. ASSUME NEW m \in Nat, KeysUpTo(a, m), x.key <= m PROVE KeysUpTo(Append(p, y), m)
        <4>1. KeysUpTo(t, m) /\ y.key <= m
          BY <2>1, <3>5, SortedAppend
        <4>2. KeysUpTo(p, m)
          BY <3>2, <3>5, <4>1
        <4> QED
          BY <3>1, <4>1, <4>2, SortedAppend
      <3>6. ASSUME NEW k \in Nat PROVE Values(Append(p, y), k) = Values(Append(a, x), k)
        <4>1. Values(Append(p, y), k) = IF y.key = k THEN Append(Values(p, k), y.value) ELSE Values(p, k)
          BY <3>1, ValuesSteps
        <4>2. Values(p, k) = IF x.key = k THEN Append(Values(t, k), x.value) ELSE Values(t, k)
          <5>1. Values(Append(t, x), k) = IF x.key = k THEN Append(Values(t, k), x.value) ELSE Values(t, k)
            BY <2>1, ValuesSteps
          <5> QED
            BY <3>2, <5>1
        <4>3. Values(a, k) = IF y.key = k THEN Append(Values(t, k), y.value) ELSE Values(t, k)
          BY <2>1, ValuesSteps
        <4>4. Values(Append(a, x), k) = IF x.key = k THEN Append(Values(a, k), x.value) ELSE Values(a, k)
          BY <2>1, ValuesSteps
        <4>5. ~(x.key = k /\ y.key = k)
          BY <2>3, <2>5
        <4> QED
          BY <4>1, <4>2, <4>3, <4>4, <4>5
      <3> HIDE DEF a
      <3> QED
        BY <3>1, <3>4, <3>5, <3>6 DEF Placed
    <2> QED
      BY <2>4, <2>5
  <1>4. P = Seq(UrlParams)
    <2> HIDE DEF P
    <2>1. P \in SUBSET Seq(UrlParams)
      BY DEF P
    <2> QED
      BY <1>2, <1>3, <2>1, SeqInduction
  <1>5. Placed(s)
    <2> HIDE DEF Placed
    <2> QED
      BY <1>4
  <1> QED
    BY <1>5

\* A normalized query is sorted, and keeps the values of what is not tracking.
LEMMA QueryNormalValues ==
  ASSUME NEW s \in Seq(UrlParams)
  PROVE  /\ QueryNormal(s) \in Seq(UrlParams)
         /\ Sorted(QueryNormal(s))
         /\ \A k \in Nat : Values(QueryNormal(s), k) = IF k \in Tracking THEN <<>> ELSE Values(s, k)
  <1> DEFINE Normal(t) == /\ Sorted(QueryNormal(t))
                          /\ \A k \in Nat :
                               Values(QueryNormal(t), k) = IF k \in Tracking THEN <<>> ELSE Values(t, k)
             P == {t \in Seq(UrlParams) : Normal(t)}
  <1>1. <<>> \in P
    <2>1. <<>> \in Seq(UrlParams) /\ Len(<<>>) = 0 /\ QueryNormal(<<>>) = <<>>
      BY EmptySeq, QuerySteps
    <2>2. Sorted(<<>>)
      BY <2>1 DEF Sorted
    <2>3. \A k \in Nat : Values(<<>>, k) = <<>>
      BY <2>1, ValuesSteps
    <2> QED
      BY <2>1, <2>2, <2>3
  <1>2. ASSUME NEW t \in P, NEW x \in UrlParams PROVE Append(t, x) \in P
    <2> DEFINE n == QueryNormal(t)
    <2>1. t \in Seq(UrlParams) /\ Append(t, x) \in Seq(UrlParams)
      BY AppendProperties
    <2>2. n \in Seq(UrlParams) /\ QueryNormal(Append(t, x)) = KeepParam(n, x)
      BY <2>1, QuerySteps
    <2>3. Sorted(n) /\ \A k \in Nat : Values(n, k) = IF k \in Tracking THEN <<>> ELSE Values(t, k)
      OBVIOUS
    <2>4. \A k \in Nat : Values(Append(t, x), k) = IF x.key = k THEN Append(Values(t, k), x.value) ELSE Values(t, k)
      BY <2>1, ValuesSteps
    <2> HIDE DEF n, P
    <2>5. CASE x.key \in Tracking
      <3>1. KeepParam(n, x) = n
        BY <2>5 DEF KeepParam, Tracked
      <3>2. \A k \in Nat : k \notin Tracking => Values(Append(t, x), k) = Values(t, k)
        BY <2>4, <2>5
      <3>3. Normal(Append(t, x))
        BY <2>2, <2>3, <3>1, <3>2
      <3> HIDE DEF Normal
      <3> QED
        BY <2>1, <3>3 DEF P
    <2>6. CASE x.key \notin Tracking
      <3>1. KeepParam(n, x) = PlaceParam(n, x)
        BY <2>6 DEF KeepParam, Tracked
      <3>2. /\ Sorted(PlaceParam(n, x))
            /\ \A k \in Nat : Values(PlaceParam(n, x), k) = Values(Append(n, x), k)
        BY <2>2, <2>3, PlaceSorted
      <3>3. \A k \in Nat : Values(Append(n, x), k) = IF x.key = k THEN Append(Values(n, k), x.value) ELSE Values(n, k)
        BY <2>2, ValuesSteps
      <3>4. ASSUME NEW k \in Nat
            PROVE  Values(PlaceParam(n, x), k) = IF k \in Tracking THEN <<>> ELSE Values(Append(t, x), k)
        <4>1. CASE x.key = k
          BY <2>3, <2>4, <2>6, <3>2, <3>3, <4>1
        <4>2. CASE x.key # k
          BY <2>3, <2>4, <3>2, <3>3, <4>2
        <4> QED
          BY <4>1, <4>2
      <3>5. Normal(Append(t, x))
        BY <2>2, <3>1, <3>2, <3>4
      <3> HIDE DEF Normal
      <3> QED
        BY <2>1, <3>5 DEF P
    <2> QED
      BY <2>5, <2>6
  <1>3. P = Seq(UrlParams)
    <2> HIDE DEF P
    <2>1. P \in SUBSET Seq(UrlParams)
      BY DEF P
    <2> QED
      BY <1>1, <1>2, <2>1, SeqInduction
  <1>4. Normal(s)
    <2> HIDE DEF Normal
    <2> QED
      BY <1>3
  <1> QED
    BY <1>4, QuerySteps

\* The last parameter of a sorted query has a largest key.
LEMMA LastKey ==
  ASSUME NEW s \in Seq(UrlParams), NEW x \in UrlParams, Sorted(Append(s, x)), NEW k \in Nat,
         Values(Append(s, x), k) # <<>>
  PROVE  k <= x.key
  <1>1. Append(s, x) \in Seq(UrlParams)
    BY AppendProperties
  <1>2. x.key \in Nat
    BY DEF UrlParams
  <1>3. KeysUpTo(Append(s, x), x.key)
    <2>1. KeysUpTo(s, x.key)
      BY SortedAppend
    <2>2. x.key <= x.key
      BY <1>2
    <2> QED
      BY <1>2, <2>1, <2>2, SortedAppend
  <1>4. ~ \A i \in 1..Len(Append(s, x)) : Append(s, x)[i].key # k
    BY <1>1, ValuesEmpty
  <1> QED
    BY <1>3, <1>4 DEF KeysUpTo

\* Sorted queries with the same values of every key are the same.
LEMMA SortedUnique ==
  ASSUME NEW s \in Seq(UrlParams), NEW t \in Seq(UrlParams), Sorted(s), Sorted(t),
         \A k \in Nat : Values(s, k) = Values(t, k)
  PROVE  s = t
  <1> DEFINE Same(a, b) == \A k \in Nat : Values(a, k) = Values(b, k)
             P == {a \in Seq(UrlParams) : \A b \in Seq(UrlParams) : Sorted(a) /\ Sorted(b) /\ Same(a, b) => a = b}
  <1>0. \A x \in UrlParams : x.key \in Nat /\ x.value \in STRING
    BY DEF UrlParams
  <1>1. ASSUME NEW a \in Seq(UrlParams), NEW x \in UrlParams PROVE Values(Append(a, x), x.key) # <<>>
    <2>1. Values(a, x.key) \in Seq(STRING) /\ Values(Append(a, x), x.key) = Append(Values(a, x.key), x.value)
      BY <1>0, ValuesSteps
    <2> QED
      BY <1>0, <2>1, AppendProperties
  <1>2. \A k \in Nat : Values(<<>>, k) = <<>>
    BY EmptySeq, ValuesSteps
  <1>3. <<>> \in P
    <2> SUFFICES ASSUME NEW b \in Seq(UrlParams), Same(<<>>, b), b # <<>> PROVE FALSE
      BY EmptySeq
    <2>1. PICK c \in Seq(UrlParams), y \in UrlParams : b = Append(c, y)
      BY SequenceEmptyOrAppend
    <2>2. y.key \in Nat
      BY <1>0
    <2> QED
      BY <1>1, <1>2, <2>1, <2>2
  <1>4. ASSUME NEW a \in P, NEW x \in UrlParams PROVE Append(a, x) \in P
    <2>1. a \in Seq(UrlParams) /\ Append(a, x) \in Seq(UrlParams)
      BY AppendProperties
    <2>2. \A b \in Seq(UrlParams) : Sorted(a) /\ Sorted(b) /\ Same(a, b) => a = b
      OBVIOUS
    <2> SUFFICES ASSUME NEW b \in Seq(UrlParams), Sorted(Append(a, x)), Sorted(b), Same(Append(a, x), b)
                 PROVE  Append(a, x) = b
      BY <2>1
    <2> HIDE DEF P
    <2>3. x.key \in Nat /\ Values(b, x.key) # <<>>
      BY <1>0, <1>1, <2>1
    <2>4. b # <<>>
      BY <1>2, <2>3
    <2>5. PICK c \in Seq(UrlParams), y \in UrlParams : b = Append(c, y)
      BY <2>4, SequenceEmptyOrAppend
    <2>6. y.key \in Nat /\ Values(Append(a, x), y.key) # <<>>
      BY <1>0, <1>1, <2>5
    <2>7. x.key <= y.key
      BY <2>3, <2>5, LastKey
    <2>8. y.key <= x.key
      BY <2>1, <2>6, LastKey
    <2>9. x.key = y.key
      BY <2>3, <2>6, <2>7, <2>8
    <2>10. \A k \in Nat :
             /\ Values(a, k) \in Seq(STRING) /\ Values(c, k) \in Seq(STRING)
             /\ Values(Append(a, x), k) = IF x.key = k THEN Append(Values(a, k), x.value) ELSE Values(a, k)
             /\ Values(Append(c, y), k) = IF y.key = k THEN Append(Values(c, k), y.value) ELSE Values(c, k)
      BY <2>1, ValuesSteps
    <2>11. Values(a, x.key) = Values(c, x.key) /\ x.value = y.value
      <3>1. Append(Values(a, x.key), x.value) = Append(Values(c, x.key), y.value)
        BY <2>3, <2>5, <2>9, <2>10
      <3>2. Values(a, x.key) \in Seq(STRING) /\ Values(c, x.key) \in Seq(STRING)
        BY <2>3, <2>10
      <3> QED
        BY <1>0, <3>1, <3>2, AppendInjective
    <2>12. Same(a, c)
      <3> SUFFICES ASSUME NEW k \in Nat PROVE Values(a, k) = Values(c, k)
        OBVIOUS
      <3>1. CASE k = x.key
        BY <2>11, <3>1
      <3>2. CASE k # x.key
        BY <2>5, <2>9, <2>10, <3>2
      <3> QED
        BY <3>1, <3>2
    <2>13. Sorted(a) /\ Sorted(c)
      BY <2>1, <2>5, SortedAppend
    <2>14. a = c
      BY <2>2, <2>12, <2>13
    <2>15. x = y
      <3>1. x = [key |-> x.key, value |-> x.value] /\ y = [key |-> y.key, value |-> y.value]
        BY DEF UrlParams
      <3> QED
        BY <2>9, <2>11, <3>1
    <2> QED
      BY <2>5, <2>14, <2>15
  <1>5. P = Seq(UrlParams)
    <2> HIDE DEF P
    <2>1. P \in SUBSET Seq(UrlParams)
      BY DEF P
    <2> QED
      BY <1>3, <1>4, <2>1, SeqInduction
  <1> QED
    BY <1>5

\* Normalized paths are equal when the paths are but for a trailing slash.
LEMMA PathResult ==
  ASSUME NEW u, u.path \in Seq(STRING), Regular(u)
  PROVE  /\ Segments(u) # <<NoText>>
         /\ (IF u.path = <<>> THEN <<NoText>> ELSE PathNormal(u.path)) =
               IF Segments(u) = <<>> THEN <<NoText>> ELSE Segments(u)
  <1> DEFINE p == u.path
             n == Len(p)
             f == SubSeq(p, 1, n - 1)
  <1>1. n \in Nat /\ p \in Seq(STRING) /\ \A i \in 1..(n - 1) : p[i] # NoText
    BY DEF Regular
  <1>2. Segments(u) = IF p # <<>> /\ p[n] = NoText THEN f ELSE p
    BY DEF Segments, Last, Front
  <1>3. PathNormal(p) = IF n > 1 /\ p[n] = NoText THEN f ELSE p
    BY DEF PathNormal, Front
  <1> HIDE DEF p
  <1>4. CASE p = <<>>
    <2>1. <<>> # <<NoText>> /\ Segments(u) = <<>>
      BY <1>2, <1>4
    <2> QED
      BY <1>4, <2>1 DEF p
  <1>5. CASE p # <<>> /\ p[n] # NoText
    <2>1. ASSUME p = <<NoText>> PROVE FALSE
      <3>1. n = 1 /\ p[1] = NoText
        BY <2>1
      <3> QED
        BY <1>5, <3>1
    <2> QED
      BY <1>2, <1>3, <1>5, <2>1 DEF p
  <1>6. CASE p # <<>> /\ p[n] = NoText /\ n > 1
    <2>1. f \in Seq(STRING) /\ Len(f) = n - 1 /\ f[1] = p[1] /\ p[1] # NoText /\ Len(f) # 0
      BY <1>1, <1>6
    <2> HIDE DEF f
    <2>2. f # <<>> /\ f # <<NoText>>
      BY <2>1
    <2> QED
      BY <1>2, <1>3, <1>6, <2>2 DEF p
  <1>7. CASE p # <<>> /\ p[n] = NoText /\ n = 1
    <2>1. f = <<>> /\ p = <<NoText>>
      BY <1>1, <1>7
    <2> HIDE DEF f
    <2> QED
      BY <1>2, <1>3, <1>7, <2>1 DEF p
  <1>8. p # <<>> => n >= 1
    BY <1>1, EmptySeq
  <1> QED
    BY <1>1, <1>4, <1>5, <1>6, <1>7, <1>8

\* Two regular URLs have one normal form exactly when they name one resource.
LEMMA SourceResult ==
  ASSUME UrlAssumption, NEW u \in Urls, NEW v \in Urls, Regular(u), Regular(v)
  PROVE  NormalizeUrl(u) = NormalizeUrl(v) <=>
            /\ u.host = v.host
            /\ Segments(u) = Segments(v)
            /\ \A k \in ParamKeys \ Tracking : Values(u.query, k) = Values(v.query, k)
  <1> DEFINE P(w) == IF w.path = <<>> THEN <<NoText>> ELSE PathNormal(w.path)
             N(w) == QueryNormal(w.query)
  <1>1. \A w \in {u, v} : /\ w \in Urls /\ w.path \in Seq(STRING) /\ w.query \in Seq(UrlParams)
                          /\ Regular(w)
    BY DEF UrlAssumption
  <1>2. ASSUME NEW w \in {u, v}
        PROVE  NormalizeUrl(w) = [host |-> <<w.host, <<>>>>, path |-> P(w), query |-> N(w)]
    <2>1. QueryNormal(<<>>) = <<>>
      BY EmptySeq, QuerySteps
    <2>2. w.path = <<>> => w.query = <<>>
      BY <1>1 DEF Regular
    <2>3. CASE w.path = <<>>
      BY <2>1, <2>2, <2>3 DEF NormalizeUrl
    <2>4. CASE w.path # <<>>
      BY <2>4 DEF NormalizeUrl
    <2> QED
      BY <2>3, <2>4
  <1>3. P(u) = P(v) <=> Segments(u) = Segments(v)
    <2>1. \A w \in {u, v} : /\ Segments(w) # <<NoText>>
                            /\ P(w) = IF Segments(w) = <<>> THEN <<NoText>> ELSE Segments(w)
      BY <1>1, PathResult
    <2> HIDE DEF P
    <2> QED
      BY <2>1
  <1>4. \A w \in {u, v} :
          /\ N(w) \in Seq(UrlParams) /\ Sorted(N(w))
          /\ \A k \in Nat : Values(N(w), k) = IF k \in Tracking THEN <<>> ELSE Values(w.query, k)
    BY <1>1, QueryNormalValues
  <1>5. \A k \in ParamKeys : k \in Nat
    <2> SUFFICES ASSUME NEW k \in ParamKeys PROVE k \in Nat
      OBVIOUS
    <2>1. PICK w \in Urls : k \in {w.query[i].key : i \in DOMAIN w.query}
      BY DEF ParamKeys
    <2>2. PICK i \in DOMAIN w.query : k = w.query[i].key
      BY <2>1
    <2>3. w.query \in Seq(UrlParams)
      BY DEF UrlAssumption
    <2>4. w.query[i] \in UrlParams
      BY <2>3
    <2> QED
      BY <2>2, <2>4 DEF UrlParams
  <1>6. ASSUME NEW w \in {u, v}, NEW k \in Nat, k \notin ParamKeys PROVE Values(w.query, k) = <<>>
    <2> DEFINE q == w.query
    <2>1. w \in Urls /\ q \in Seq(UrlParams)
      BY <1>1
    <2>2. \A i \in DOMAIN w.query : w.query[i].key \in ParamKeys
      BY <2>1 DEF ParamKeys
    <2>3. \A i \in 1..Len(q) : q[i].key # k
      BY <1>6, <2>1, <2>2
    <2> HIDE DEF q
    <2>4. Values(q, k) = <<>>
      BY <2>1, <2>3, ValuesEmpty
    <2> QED
      BY <2>4 DEF q
  <1>7. u \in {u, v} /\ v \in {u, v}
    OBVIOUS
  <1> HIDE DEF N, P
  <1>8. N(u) = N(v) <=> \A k \in ParamKeys \ Tracking : Values(u.query, k) = Values(v.query, k)
    <2>1. ASSUME N(u) = N(v), NEW k \in ParamKeys \ Tracking PROVE Values(u.query, k) = Values(v.query, k)
      <3>1. k \in Nat
        BY <1>5
      <3>2. Values(N(u), k) = Values(u.query, k) /\ Values(N(v), k) = Values(v.query, k)
        BY <1>4, <1>7, <3>1
      <3> QED
        BY <2>1, <3>2
    <2>2. ASSUME \A k \in ParamKeys \ Tracking : Values(u.query, k) = Values(v.query, k) PROVE N(u) = N(v)
      <3>1. ASSUME NEW k \in Nat PROVE Values(N(u), k) = Values(N(v), k)
        <4>1. /\ Values(N(u), k) = IF k \in Tracking THEN <<>> ELSE Values(u.query, k)
              /\ Values(N(v), k) = IF k \in Tracking THEN <<>> ELSE Values(v.query, k)
          BY <1>4, <1>7
        <4>2. CASE k \in ParamKeys
          BY <2>2, <4>1, <4>2
        <4>3. CASE k \notin ParamKeys
          BY <1>6, <1>7, <4>1, <4>3
        <4> QED
          BY <4>2, <4>3
      <3>2. /\ N(u) \in Seq(UrlParams) /\ N(v) \in Seq(UrlParams)
            /\ Sorted(N(u)) /\ Sorted(N(v))
        BY <1>4, <1>7
      <3> QED
        BY <3>1, <3>2, SortedUnique
    <2> QED
      BY <2>1, <2>2
  <1>9. NormalizeUrl(u) = NormalizeUrl(v) <=> u.host = v.host /\ P(u) = P(v) /\ N(u) = N(v)
    <2>1. /\ NormalizeUrl(u) = [host |-> <<u.host, <<>>>>, path |-> P(u), query |-> N(u)]
          /\ NormalizeUrl(v) = [host |-> <<v.host, <<>>>>, path |-> P(v), query |-> N(v)]
      BY <1>2, <1>7
    <2>2. <<u.host, <<>>>> = <<v.host, <<>>>> <=> u.host = v.host
      OBVIOUS
    <2> DEFINE a == <<u.host, <<>>>>
               b == <<v.host, <<>>>>
    <2>3. a = b <=> u.host = v.host
      BY <2>2
    <2>4. /\ NormalizeUrl(u) = [host |-> a, path |-> P(u), query |-> N(u)]
          /\ NormalizeUrl(v) = [host |-> b, path |-> P(v), query |-> N(v)]
      BY <2>1
    <2> HIDE DEF a, b
    <2>5. NormalizeUrl(u) = NormalizeUrl(v) <=> a = b /\ P(u) = P(v) /\ N(u) = N(v)
      BY <2>4
    <2> QED
      BY <2>3, <2>5
  <1> QED
    BY <1>3, <1>8, <1>9
-----------------------------------------------------------------------------
(* url_encode, percent_decode and parse_query_string. *)

Chars == Unreserved \cup Reserved
Letters == Chars \cup HexDigits \cup {"?", "q", "s"}

\* What an encoded text is made of.
Plain == Letters \ {"&", "="}

\* The two digits of a character, and back.
LEMMA HexDigit ==
  ASSUME NEW c \in {"%", "+", "&", "="}
  PROVE  Hex[c] \in Plain \X Plain /\ IsByte(Hex[c]) /\ CharOf(Hex[c]) = c
  <1> DEFINE H == {"%", "+", "&", "="}
  <1>1. DOMAIN Hex = H
    BY DEF Hex
  <1>2. /\ Hex["%"] = <<"2", "5">> /\ Hex["+"] = <<"2", "B">>
        /\ Hex["&"] = <<"2", "6">> /\ Hex["="] = <<"3", "D">>
    BY DEF Hex
  <1>3. \A a, b \in H : Hex[a] = Hex[b] => a = b
    BY <1>2
  <1>4. Hex[c] \in Plain \X Plain
    <2>1. {"2", "5", "B", "6", "3", "D"} \subseteq Plain
      BY DEF Plain, Letters, HexDigits
    <2> HIDE DEF Plain
    <2> QED
      BY <1>2, <2>1
  <1>5. Len(Hex[c]) = 2 /\ Hex[c][1] \in HexDigits /\ Hex[c][2] \in HexDigits
    BY <1>2 DEF HexDigits
  <1>6. CharOf(Hex[c]) = c
    <2> DEFINE C == CHOOSE a \in DOMAIN Hex : Hex[a] = Hex[c]
    <2>1. C \in H /\ Hex[C] = Hex[c]
      BY <1>1
    <2>2. C = c
      BY <1>3, <2>1
    <2> QED
      BY <1>1, <2>2 DEF CharOf
  <1> QED
    BY <1>4, <1>5, <1>6 DEF IsByte

\* What comes after a "%" is read as some characters.
LEMMA Unescaped ==
  ASSUME NEW digits \in Seq(Letters)
  PROVE  Unescape(digits) \in Seq(Letters)
  <1>1. CharOf(digits) \in Letters
    <2> DEFINE C == CHOOSE c \in DOMAIN Hex : Hex[c] = digits
    <2>1. DOMAIN Hex \subseteq Letters /\ "?" \in Letters
      BY DEF Hex, Letters, Chars, Reserved
    <2>2. (\E c \in DOMAIN Hex : Hex[c] = digits) => C \in DOMAIN Hex
      OBVIOUS
    <2> QED
      BY <2>1, <2>2 DEF CharOf
  <1>2. "%" \in Letters /\ "?" \in Letters
    BY DEF Letters, Chars, Reserved
  <1> DEFINE p == "%"
  <1>3. <<p>> \o digits \in Seq(Letters)
    <2>1. p \in Letters
      BY <1>2
    <2> HIDE DEF p
    <2> QED
      BY <2>1
  <1> QED
    BY <1>1, <1>3 DEF Unescape

\* Three characters, one by one.
LEMMA ThreeChars ==
  ASSUME NEW S, NEW x \in S, NEW y \in S, NEW z \in S
  PROVE  <<x>> \o <<y, z>> = <<x, y, z>> /\ <<x, y, z>> \in Seq(S)
  <1>1. /\ <<x>> \in Seq(S) /\ <<y, z>> \in Seq(S) /\ <<x, y, z>> \in Seq(S)
        /\ Len(<<x>>) = 1 /\ Len(<<y, z>>) = 2 /\ Len(<<x, y, z>>) = 3
    OBVIOUS
  <1> DEFINE a == <<x>> \o <<y, z>>
  <1>2. a \in Seq(S) /\ Len(a) = 3 /\ a[1] = x /\ a[2] = y /\ a[3] = z
    BY <1>1, ConcatProperties
  <1> HIDE DEF a
  <1>3. \A i \in 1..Len(a) : a[i] = <<x, y, z>>[i]
    BY <1>2
  <1>4. a = <<x, y, z>>
    BY <1>1, <1>2, <1>3, SeqEqual
  <1> QED
    BY <1>1, <1>4 DEF a

LEMMA TwoChars ==
  ASSUME NEW S, NEW x \in S, NEW y \in S
  PROVE  Append(<<x>>, y) = <<x, y>>
  <1> DEFINE a == Append(<<x>>, y)
  <1>1. <<x>> \in Seq(S) /\ <<x, y>> \in Seq(S) /\ Len(<<x>>) = 1 /\ Len(<<x, y>>) = 2
    OBVIOUS
  <1>2. a \in Seq(S) /\ Len(a) = 2 /\ a[1] = x /\ a[2] = y
    BY <1>1, AppendProperties
  <1> HIDE DEF a
  <1>3. \A i \in 1..Len(a) : a[i] = <<x, y>>[i]
    BY <1>2
  <1>4. a = <<x, y>>
    BY <1>1, <1>2, <1>3, SeqEqual
  <1> QED
    BY <1>4 DEF a

\* A character and its encoding.
LEMMA EncodedChar ==
  ASSUME NEW c \in Chars
  PROVE  /\ EncodeChar(c) \in Seq(Plain)
         /\ \/ c \in Unreserved /\ EncodeChar(c) = <<c>>
            \/ c = " " /\ EncodeChar(c) = <<"+">>
            \/ c \in DOMAIN Hex /\ EncodeChar(c) = <<"%", Hex[c][1], Hex[c][2]>>
  <1>1. Unreserved \cap Reserved = {}
    BY ParamAssumption
  <1>2. CASE c \in Unreserved
    <2>1. EncodeChar(c) = <<c>>
      BY <1>2 DEF EncodeChar
    <2>2. c \in Plain
      BY <1>1, <1>2 DEF Plain, Letters, Chars, Reserved
    <2> HIDE DEF Plain
    <2>3. <<c>> \in Seq(Plain)
      BY <2>2
    <2> QED
      BY <1>2, <2>1, <2>3
  <1>3. CASE c = " "
    <2>1. c \notin Unreserved
      BY <1>1, <1>3 DEF Reserved
    <2> DEFINE p == "+"
    <2>2. EncodeChar(c) = <<p>>
      BY <1>3, <2>1 DEF EncodeChar, Escape
    <2>3. p \in Plain
      BY DEF Plain, Letters, Chars, Reserved, HexDigits
    <2>4. <<p>> \in Seq(Plain)
      <3> HIDE DEF p, Plain
      <3> QED
        BY <2>3
    <2> QED
      BY <1>3, <2>2, <2>4
  <1>4. CASE c \in {"%", "+", "&", "="}
    <2>1. c \notin Unreserved /\ c # " "
      BY <1>1, <1>4 DEF Reserved
    <2>2. EncodeChar(c) = <<"%">> \o Hex[c]
      BY <2>1 DEF EncodeChar, Escape
    <2>3. DOMAIN Hex = {"%", "+", "&", "="}
      BY DEF Hex
    <2>4. Hex[c] \in Plain \X Plain
      BY <1>4, HexDigit
    <2>5. "%" \in Plain
      BY DEF Plain, Letters, Chars, Reserved, HexDigits
    <2> DEFINE h == Hex[c]
    <2> HIDE DEF Plain, h
    <2>6. PICK x \in Plain, y \in Plain : h = <<x, y>>
      BY <2>4 DEF h
    <2> DEFINE p == "%"
    <2>7. <<p>> \o <<x, y>> = <<p, x, y>> /\ <<p, x, y>> \in Seq(Plain)
      <3>1. p \in Plain
        BY <2>5
      <3> HIDE DEF p
      <3> QED
        BY <2>6, <3>1, ThreeChars
    <2>8. EncodeChar(c) = <<p, h[1], h[2]>>
      BY <2>2, <2>6, <2>7 DEF h
    <2> QED
      BY <1>4, <2>3, <2>6, <2>7, <2>8 DEF h
  <1> QED
    BY <1>2, <1>3, <1>4 DEF Chars, Reserved

\* Encoding, character by character.
LEMMA EncodeSteps ==
  ASSUME NEW s \in Seq(Chars)
  PROVE  /\ UrlEncode(<<>>) = <<>>
         /\ UrlEncode(s) \in Seq(Plain)
         /\ \A x \in Chars : UrlEncode(Append(s, x)) = (UrlEncode(s) \o EncodeChar(x))
  <1> DEFINE T == Seq(Plain)
             X == Chars
             b == <<>>
             step == [a \in T |-> [x \in X |-> (a \o EncodeChar(x))]]
  <1>1. b \in T /\ s \in Seq(X) /\ \A a \in T, x \in X : (a \o EncodeChar(x)) \in T
    <2>1. \A x \in Chars : EncodeChar(x) \in Seq(Plain)
      BY EncodedChar
    <2> HIDE DEF Chars, Plain
    <2> QED
      BY <2>1, EmptySeq, ConcatProperties
  <1>2. UrlEncode(<<>>) = b /\ UrlEncode(s) \in T
        /\ \A x \in X : UrlEncode(Append(s, x)) = (UrlEncode(s) \o EncodeChar(x))
    <2> HIDE DEF T, X
    <2>1. ASSUME NEW t \in Seq(X)
          PROVE  UrlEncode(t) = Run(step, b, t) /\ Loop(step, b, t, T, X)
      <3> DEFINE n == Len(t)
                 body(g) == [q \in SUBSET (1..n) |->
                                IF q = {} THEN b ELSE (g[q \ {Max(q)}] \o EncodeChar(t[Max(q)]))]
                 f == CHOOSE g : g = body(g)
      <3>1. DOMAIN t = 1..n /\ n \in Nat /\ \A i \in 1..n : t[i] \in X
        OBVIOUS
      <3>2. UrlEncode(t) = f[1..n]
        BY <3>1 DEF UrlEncode, FoldLeft, MapThenFoldSet
      <3> HIDE DEF b
      <3>3. /\ \A a \in T, x \in X : step[a][x] = (a \o EncodeChar(x))
            /\ step \in [T -> [X -> T]]
        BY <1>1
      <3> HIDE DEF step
      <3>4. Loop(step, b, t, T, X)
        BY <1>1, <3>3 DEF Loop
      <3>5. PICK g : IsFold(g, step, b, t, T)
        BY <3>4, FoldExists
      <3>6. g = body(g)
        <4>1. ASSUME NEW q \in SUBSET (1..n), q # {}
              PROVE  g[q] = (g[q \ {Max(q)}] \o EncodeChar(t[Max(q)]))
          <5>1. Max(q) \in 1..n
            BY <3>1, <4>1, MaxIn
          <5>2. t[Max(q)] \in X /\ g[q \ {Max(q)}] \in T
            BY <3>1, <3>5, <5>1 DEF IsFold
          <5>3. g[q] = step[g[q \ {Max(q)}]][t[Max(q)]]
            BY <3>5, <4>1 DEF IsFold
          <5> QED
            BY <3>3, <5>2, <5>3
        <4> QED
          BY <3>5, <4>1 DEF IsFold
      <3>7. f = body(f)
        <4> HIDE DEF body
        <4> QED
          BY <3>6
      <3>8. f[{}] = b
        BY <3>7
      <3>9. ASSUME NEW i \in 1..n, f[1..(i - 1)] \in T
            PROVE  f[1..i] = step[f[1..(i - 1)]][t[i]]
        <4>1. /\ (1..i) \in SUBSET (1..n) /\ (1..i) # {}
              /\ (1..i) \ {i} = 1..(i - 1) /\ Max(1..i) = i
          BY <3>1, Prefix
        <4>2. f[1..i] = (f[1..(i - 1)] \o EncodeChar(t[i]))
          <5> HIDE DEF f
          <5> QED
            BY <3>7, <4>1
        <4> QED
          BY <3>1, <3>3, <3>9, <4>2
      <3> HIDE DEF f, body
      <3> QED
        BY <3>2, <3>4, <3>8, <3>9, FoldIsRun
    <2>2. <<>> \in Seq(X) /\ \A x \in X : Append(s, x) \in Seq(X)
      BY <1>1
    <2>3. \A a \in T, x \in X : step[a][x] = (a \o EncodeChar(x))
      BY <1>1
    <2> HIDE DEF b, step
    <2>4. UrlEncode(<<>>) = b
      BY <2>1, <2>2, RunEmpty
    <2>5. UrlEncode(s) \in T
      BY <1>1, <2>1, RunChosen
    <2>6. ASSUME NEW x \in X
          PROVE  UrlEncode(Append(s, x)) = (UrlEncode(s) \o EncodeChar(x))
      <3>1. Run(step, b, Append(s, x)) = step[Run(step, b, s)][x]
        <4>1. Loop(step, b, s, T, X)
          BY <1>1, <2>1
        <4> QED
          BY <4>1, RunAppend
      <3>2. UrlEncode(Append(s, x)) = Run(step, b, Append(s, x)) /\ UrlEncode(s) = Run(step, b, s)
        BY <1>1, <2>1, <2>2
      <3> QED
        BY <2>3, <2>5, <3>1, <3>2
    <2> QED
      BY <2>4, <2>5, <2>6
  <1> QED
    BY <1>2

Decoders == [out : Seq(Letters), open : BOOLEAN, taken : Seq(Letters)]
NoneDecoded == [out |-> <<>>, open |-> FALSE, taken |-> <<>>]

\* A character keeps the state of the decoder well-formed.
LEMMA DecodedChar ==
  ASSUME NEW s \in Decoders, NEW c \in Letters
  PROVE  DecodeChar(s, c) \in Decoders
  <1>1. s.out \in Seq(Letters) /\ s.open \in BOOLEAN /\ s.taken \in Seq(Letters)
    BY DEF Decoders
  <1>2. <<c>> \in Seq(Letters) /\ Append(s.out, c) \in Seq(Letters)
    BY <1>1
  <1>3. Append(s.out, " ") \in Seq(Letters)
    <2> DEFINE p == " "
    <2>1. p \in Letters
      BY DEF Letters, Chars, Reserved
    <2>2. Append(s.out, p) \in Seq(Letters)
      <3> HIDE DEF p
      <3> QED
        BY <1>1, <2>1
    <2> QED
      BY <2>2
  <1>4. s.out \o Unescape(Append(s.taken, c)) \in Seq(Letters)
    <2> DEFINE d == Append(s.taken, c)
    <2>0. d \in Seq(Letters)
      BY <1>1
    <2> HIDE DEF d
    <2>1. Unescape(d) \in Seq(Letters)
      BY <2>0, Unescaped
    <2>2. s.out \o Unescape(d) \in Seq(Letters)
      BY <1>1, <2>1
    <2> QED
      BY <2>2 DEF d
  <1>5. \/ DecodeChar(s, c) = [s EXCEPT !.taken = <<c>>]
        \/ DecodeChar(s, c) = [out |-> s.out \o Unescape(Append(s.taken, c)), open |-> FALSE, taken |-> <<>>]
        \/ DecodeChar(s, c) = [s EXCEPT !.open = TRUE]
        \/ DecodeChar(s, c) = [s EXCEPT !.out = Append(@, " ")]
        \/ DecodeChar(s, c) = [s EXCEPT !.out = Append(@, c)]
    <2>1. CASE s.open /\ Len(s.taken) = 0
      BY <2>1 DEF DecodeChar
    <2>2. CASE s.open /\ Len(s.taken) = 1
      BY <2>2 DEF DecodeChar
    <2>3. CASE s.open /\ Len(s.taken) \notin {0, 1}
      BY <2>3 DEF DecodeChar
    <2>4. CASE ~s.open /\ c = "%"
      BY <2>4 DEF DecodeChar
    <2>5. CASE ~s.open /\ c = "+"
      BY <2>5 DEF DecodeChar
    <2>6. CASE ~s.open /\ c \notin {"%", "+"}
      BY <2>6 DEF DecodeChar
    <2> QED
      BY <2>1, <2>2, <2>3, <2>4, <2>5, <2>6
  <1>6. <<>> \in Seq(Letters)
    OBVIOUS
  <1> DEFINE t == Append(s.out, " ")
             u == s.out \o Unescape(Append(s.taken, c))
  <1>7. s = [out |-> s.out, open |-> s.open, taken |-> s.taken]
    BY DEF Decoders
  <1>8. t \in Seq(Letters) /\ u \in Seq(Letters)
    BY <1>3, <1>4
  <1>9. \/ DecodeChar(s, c) = [out |-> s.out, open |-> s.open, taken |-> <<c>>]
        \/ DecodeChar(s, c) = [out |-> u, open |-> FALSE, taken |-> <<>>]
        \/ DecodeChar(s, c) = [out |-> s.out, open |-> TRUE, taken |-> s.taken]
        \/ DecodeChar(s, c) = [out |-> t, open |-> s.open, taken |-> s.taken]
        \/ DecodeChar(s, c) = [out |-> Append(s.out, c), open |-> s.open, taken |-> s.taken]
    BY <1>5, <1>7
  <1> HIDE DEF t, u
  <1>10. \A a, b \in Seq(Letters), o \in BOOLEAN : [out |-> a, open |-> o, taken |-> b] \in Decoders
    BY DEF Decoders
  <1>11. <<c>> \in Seq(Letters) /\ Append(s.out, c) \in Seq(Letters) /\ FALSE \in BOOLEAN /\ TRUE \in BOOLEAN
    BY <1>2
  <1> QED
    BY Zenon, <1>1, <1>6, <1>8, <1>9, <1>10, <1>11

\* Decoding, character by character.
LEMMA DecodeSteps ==
  ASSUME NEW s \in Seq(Letters)
  PROVE  /\ Decoding(<<>>) = NoneDecoded
         /\ Decoding(s) \in Decoders
         /\ \A x \in Letters : Decoding(Append(s, x)) = DecodeChar(Decoding(s), x)
  <1> DEFINE T == Decoders
             X == Letters
             b == NoneDecoded
             step == [a \in T |-> [x \in X |-> DecodeChar(a, x)]]
  <1>1. b \in T /\ s \in Seq(X) /\ \A a \in T, x \in X : DecodeChar(a, x) \in T
    <2>1. NoneDecoded \in Decoders
      BY EmptySeq DEF NoneDecoded, Decoders
    <2>2. \A a \in Decoders, x \in Letters : DecodeChar(a, x) \in Decoders
      BY DecodedChar
    <2> QED
      BY <2>1, <2>2
  <1>2. Decoding(<<>>) = b /\ Decoding(s) \in T
        /\ \A x \in X : Decoding(Append(s, x)) = DecodeChar(Decoding(s), x)
    <2> HIDE DEF T, X
    <2>1. ASSUME NEW t \in Seq(X)
          PROVE  Decoding(t) = Run(step, b, t) /\ Loop(step, b, t, T, X)
      <3> DEFINE n == Len(t)
                 body(g) == [q \in SUBSET (1..n) |->
                                IF q = {} THEN b ELSE DecodeChar(g[q \ {Max(q)}], t[Max(q)])]
                 f == CHOOSE g : g = body(g)
      <3>1. DOMAIN t = 1..n /\ n \in Nat /\ \A i \in 1..n : t[i] \in X
        OBVIOUS
      <3>2. Decoding(t) = f[1..n]
        BY <3>1 DEF Decoding, FoldLeft, MapThenFoldSet, NoneDecoded
      <3> HIDE DEF b
      <3>3. /\ \A a \in T, x \in X : step[a][x] = DecodeChar(a, x)
            /\ step \in [T -> [X -> T]]
        BY <1>1
      <3> HIDE DEF step
      <3>4. Loop(step, b, t, T, X)
        BY <1>1, <3>3 DEF Loop
      <3>5. PICK g : IsFold(g, step, b, t, T)
        BY <3>4, FoldExists
      <3>6. g = body(g)
        <4>1. ASSUME NEW q \in SUBSET (1..n), q # {}
              PROVE  g[q] = DecodeChar(g[q \ {Max(q)}], t[Max(q)])
          <5>1. Max(q) \in 1..n
            BY <3>1, <4>1, MaxIn
          <5>2. t[Max(q)] \in X /\ g[q \ {Max(q)}] \in T
            BY <3>1, <3>5, <5>1 DEF IsFold
          <5>3. g[q] = step[g[q \ {Max(q)}]][t[Max(q)]]
            BY <3>5, <4>1 DEF IsFold
          <5> QED
            BY <3>3, <5>2, <5>3
        <4> QED
          BY <3>5, <4>1 DEF IsFold
      <3>7. f = body(f)
        <4> HIDE DEF body
        <4> QED
          BY <3>6
      <3>8. f[{}] = b
        BY <3>7
      <3>9. ASSUME NEW i \in 1..n, f[1..(i - 1)] \in T
            PROVE  f[1..i] = step[f[1..(i - 1)]][t[i]]
        <4>1. /\ (1..i) \in SUBSET (1..n) /\ (1..i) # {}
              /\ (1..i) \ {i} = 1..(i - 1) /\ Max(1..i) = i
          BY <3>1, Prefix
        <4>2. f[1..i] = DecodeChar(f[1..(i - 1)], t[i])
          <5> HIDE DEF f
          <5> QED
            BY <3>7, <4>1
        <4> QED
          BY <3>1, <3>3, <3>9, <4>2
      <3> HIDE DEF f, body
      <3> QED
        BY <3>2, <3>4, <3>8, <3>9, FoldIsRun
    <2>2. <<>> \in Seq(X) /\ \A x \in X : Append(s, x) \in Seq(X)
      BY <1>1
    <2>3. \A a \in T, x \in X : step[a][x] = DecodeChar(a, x)
      BY <1>1
    <2> HIDE DEF b, step
    <2>4. Decoding(<<>>) = b
      BY <2>1, <2>2, RunEmpty
    <2>5. Decoding(s) \in T
      BY <1>1, <2>1, RunChosen
    <2>6. ASSUME NEW x \in X
          PROVE  Decoding(Append(s, x)) = DecodeChar(Decoding(s), x)
      <3>1. Run(step, b, Append(s, x)) = step[Run(step, b, s)][x]
        <4>1. Loop(step, b, s, T, X)
          BY <1>1, <2>1
        <4> QED
          BY <4>1, RunAppend
      <3>2. Decoding(Append(s, x)) = Run(step, b, Append(s, x)) /\ Decoding(s) = Run(step, b, s)
        BY <1>1, <2>1, <2>2
      <3> QED
        BY <2>3, <2>5, <3>1, <3>2
    <2> QED
      BY <2>4, <2>5, <2>6
  <1> QED
    BY <1>2

\* The first digit of a character is kept.
LEMMA FirstDigit ==
  ASSUME NEW text \in Seq(Chars), NEW c \in Letters
  PROVE  DecodeChar([out |-> text, open |-> TRUE, taken |-> <<>>], c)
           = [out |-> text, open |-> TRUE, taken |-> <<c>>]
  <1> SUFFICES ASSUME NEW s \in Decoders, s = [out |-> text, open |-> TRUE, taken |-> <<>>]
               PROVE  DecodeChar(s, c) = [out |-> text, open |-> TRUE, taken |-> <<c>>]
    <2>1. text \in Seq(Letters)
      <3>1. Chars \subseteq Letters
        BY DEF Letters
      <3> HIDE DEF Letters, Chars
      <3> QED
        BY <3>1
    <2>2. [out |-> text, open |-> TRUE, taken |-> <<>>] \in Decoders
      BY <2>1 DEF Decoders
    <2> QED
      BY <2>2
  <1>1. s.open /\ s.open = TRUE /\ Len(s.taken) = 0 /\ s.out = text
    <2>1. s.open /\ s.open = TRUE /\ s.out = text /\ s.taken = <<>>
      OBVIOUS
    <2> QED
      BY <2>1, EmptySeq
  <1>2. DecodeChar(s, c) = [s EXCEPT !.taken = <<c>>]
    BY <1>1 DEF DecodeChar
  <1>3. s = [out |-> s.out, open |-> s.open, taken |-> s.taken]
    BY DEF Decoders
  <1>4. <<c>> \in Seq(Letters)
    OBVIOUS
  <1>5. DecodeChar(s, c) = [out |-> s.out, open |-> s.open, taken |-> <<c>>]
    BY <1>2, <1>3, <1>4 DEF Decoders
  <1> QED
    BY <1>1, <1>5

\* A decoder that has read all of an encoding.
Decoded(text) == [out |-> text, open |-> FALSE, taken |-> <<>>]

\* Decoding gives back what was encoded.
LEMMA DecodeEncoded ==
  ASSUME NEW text \in Seq(Chars)
  PROVE  UrlEncode(text) \in Seq(Plain) /\ PercentDecode(UrlEncode(text)) = text
  <1> DEFINE P == {t \in Seq(Chars) : Decoding(UrlEncode(t)) = Decoded(t)}
  <1>0. /\ \A t \in Seq(Chars) : UrlEncode(t) \in Seq(Plain)
        /\ \A t \in Seq(Plain) : t \in Seq(Letters)
        /\ Plain \subseteq Letters /\ Chars \subseteq Letters /\ "%" \in Letters
    <2>1. Plain \subseteq Letters /\ Chars \subseteq Letters /\ "%" \in Letters
      BY DEF Plain, Letters, Chars, Reserved
    <2> HIDE DEF Plain, Letters, Chars
    <2>2. \A t \in Seq(Plain) : t \in Seq(Letters)
      BY <2>1
    <2> QED
      BY <2>1, <2>2, EncodeSteps
  <1>1. <<>> \in P
    <2>1. <<>> \in Seq(Chars) /\ <<>> \in Seq(Letters)
      OBVIOUS
    <2>2. UrlEncode(<<>>) = <<>> /\ Decoding(<<>>) = NoneDecoded
      BY <2>1, EncodeSteps, DecodeSteps
    <2> QED
      BY <2>1, <2>2 DEF Decoded, NoneDecoded
  <1>2. ASSUME NEW t \in P, NEW x \in Chars PROVE Append(t, x) \in P
    <2> DEFINE e == UrlEncode(t)
    <2>1. t \in Seq(Chars) /\ e \in Seq(Letters) /\ Decoding(e) = Decoded(t)
      BY <1>0
    <2>2. UrlEncode(Append(t, x)) = e \o EncodeChar(x)
      BY <2>1, EncodeSteps
    <2>3. Append(t, x) \in Seq(Chars)
      BY <2>1
    <2> HIDE DEF e
    <2>4. Decoding(e \o EncodeChar(x)) = Decoded(Append(t, x))
      <3>1. ASSUME NEW y \in Letters, EncodeChar(x) = <<y>>
            PROVE  Decoding(e \o EncodeChar(x)) = DecodeChar(Decoded(t), y)
        <4> HIDE DEF Letters
        <4>1. e \o <<y>> = Append(e, y)
          BY <2>1
        <4>2. Decoding(Append(e, y)) = DecodeChar(Decoding(e), y)
          BY <2>1, DecodeSteps
        <4> QED
          BY <2>1, <3>1, <4>1, <4>2
      <3>2. CASE x \in Unreserved /\ EncodeChar(x) = <<x>>
        <4>1. Decoding(e \o EncodeChar(x)) = DecodeChar(Decoded(t), x)
          BY <1>0, <3>1, <3>2
        <4>2. x # "%" /\ x # "+"
          BY <3>2, ParamAssumption DEF Reserved
        <4>3. DecodeChar(Decoded(t), x) = Decoded(Append(t, x))
          BY <4>2 DEF DecodeChar, Decoded
        <4> QED
          BY <4>1, <4>3
      <3>3. CASE x = " " /\ EncodeChar(x) = <<"+">>
        <4>1. "+" \in Letters
          BY DEF Letters, Chars, Reserved
        <4>2. Decoding(e \o EncodeChar(x)) = DecodeChar(Decoded(t), "+")
          BY <3>1, <3>3, <4>1
        <4>3. DecodeChar(Decoded(t), "+") = Decoded(Append(t, x))
          BY <3>3 DEF DecodeChar, Decoded
        <4> QED
          BY <4>2, <4>3
      <3>4. CASE x \in DOMAIN Hex /\ EncodeChar(x) = <<"%", Hex[x][1], Hex[x][2]>>
        <4> DEFINE h == Hex[x]
                   y == h[1]
                   z == h[2]
                   p == "%"
        <4>1. h \in Plain \X Plain /\ IsByte(h) /\ CharOf(h) = x
          <5>1. x \in {"%", "+", "&", "="}
            BY <3>4 DEF Hex
          <5> QED
            BY <5>1, HexDigit
        <4> HIDE DEF h
        <4>2. y \in Letters /\ z \in Letters /\ p \in Letters /\ h = <<y, z>>
          BY <1>0, <4>1
        <4>3. EncodeChar(x) = <<p, y, z>>
          BY <3>4 DEF h
        <4> DEFINE d1 == [out |-> t, open |-> TRUE, taken |-> <<>>]
                   d2 == [out |-> t, open |-> TRUE, taken |-> <<y>>]
        <4>4. DecodeChar(Decoded(t), p) = d1
          BY DEF DecodeChar, Decoded
        <4> HIDE DEF y, z, p, Letters
        <4>5. e \o <<p, y, z>> = Append(Append(Append(e, p), y), z)
          <5> DEFINE s == e \o <<p, y, z>>
                     r == Append(Append(Append(e, p), y), z)
          <5>1. <<p, y, z>> \in Seq(Letters) /\ Len(<<p, y, z>>) = 3
            BY <4>2
          <5>2. /\ s \in Seq(Letters) /\ Len(s) = Len(e) + 3
                /\ \A i \in 1..Len(e) : s[i] = e[i]
                /\ s[Len(e) + 1] = p /\ s[Len(e) + 2] = y /\ s[Len(e) + 3] = z
            BY <2>1, <5>1, ConcatProperties
          <5>3. /\ r \in Seq(Letters) /\ Len(r) = Len(e) + 3
                /\ \A i \in 1..Len(e) : r[i] = e[i]
                /\ r[Len(e) + 1] = p /\ r[Len(e) + 2] = y /\ r[Len(e) + 3] = z
            BY <2>1, <4>2, AppendProperties
          <5>4. Len(e) \in Nat
            BY <2>1
          <5> HIDE DEF s, r
          <5>5. \A i \in 1..Len(s) : s[i] = r[i]
            <6> SUFFICES ASSUME NEW i \in 1..(Len(e) + 3) PROVE s[i] = r[i]
              BY <5>2
            <6>1. i \in 1..Len(e) \/ i = Len(e) + 1 \/ i = Len(e) + 2 \/ i = Len(e) + 3
              BY <5>4
            <6> QED
              BY <5>2, <5>3, <6>1
          <5>6. s = r
            BY <5>2, <5>3, <5>5, SeqEqual
          <5> QED
            BY <5>6 DEF s, r
        <4>6. Decoding(Append(e, p)) = d1
          BY <2>1, <4>2, <4>4, DecodeSteps
        <4>7. Append(e, p) \in Seq(Letters) /\ Append(Append(e, p), y) \in Seq(Letters)
          BY <2>1, <4>2
        <4>8. Decoding(Append(Append(e, p), y)) = d2
          <5>1. DecodeChar(d1, y) = d2
            BY <1>0, <2>1, <4>2, FirstDigit
          <5> QED
            BY <4>2, <4>6, <4>7, <5>1, DecodeSteps
        <4>9. DecodeChar(d2, z) = Decoded(Append(t, x))
          <5>1. Append(<<y>>, z) = <<y, z>>
            BY <4>2, TwoChars
          <5>2. Unescape(Append(<<y>>, z)) = <<x>>
            BY <4>1, <4>2, <5>1 DEF Unescape
          <5>3. t \o <<x>> = Append(t, x)
            BY <2>1
          <5>4. DecodeChar(d2, z) = [out |-> t \o Unescape(Append(<<y>>, z)), open |-> FALSE, taken |-> <<>>]
            BY DEF DecodeChar
          <5> QED
            BY <5>2, <5>3, <5>4 DEF Decoded
        <4>10. Decoding(Append(Append(Append(e, p), y), z)) = DecodeChar(d2, z)
          BY <4>2, <4>7, <4>8, DecodeSteps
        <4> QED
          BY <4>3, <4>5, <4>9, <4>10
      <3> QED
        BY <3>2, <3>3, <3>4, EncodedChar
    <2> QED
      BY <2>2, <2>3, <2>4
  <1>3. P = Seq(Chars)
    <2> HIDE DEF P
    <2>1. P \in SUBSET Seq(Chars)
      BY DEF P
    <2> QED
      BY <1>1, <1>2, <2>1, SeqInduction
  <1>4. Decoding(UrlEncode(text)) = Decoded(text)
    BY <1>3
  <1> QED
    BY <1>0, <1>4 DEF PercentDecode, Decoded

\* The pairs of a text, of which there is always one.
Parts == Seq(Seq(Letters)) \ {<<>>}

\* A character is added to the last pair.
LEMMA LastPart ==
  ASSUME NEW pairs \in Seq(Seq(Letters)), NEW pair \in Seq(Letters), NEW c \in Letters, c # "&"
  PROVE  SplitChar(Append(pairs, pair), c) = Append(pairs, Append(pair, c))
  <1> DEFINE S == Seq(Letters)
             a == Append(pairs, pair)
             q == Append(pair, c)
             b == Append(pairs, q)
             s == [a EXCEPT ![Len(a)] = q]
  <1>1. q \in S
    OBVIOUS
  <1>2. a[Len(a)] = pair
    BY AppendProperties
  <1>3. SplitChar(a, c) = s
    BY <1>2 DEF SplitChar
  <1>4. pairs \in Seq(S) /\ pair \in S
    OBVIOUS
  <1> HIDE DEF S, q
  <1>5. /\ a \in Seq(S) /\ Len(a) = Len(pairs) + 1 /\ Len(pairs) \in Nat
        /\ \A i \in 1..Len(pairs) : a[i] = pairs[i]
    BY <1>4, AppendProperties
  <1>6. /\ b \in Seq(S) /\ Len(b) = Len(pairs) + 1
        /\ \A i \in 1..Len(pairs) : b[i] = pairs[i]
        /\ b[Len(pairs) + 1] = q
    BY <1>1, <1>4, AppendProperties
  <1>7. /\ s \in Seq(S) /\ Len(s) = Len(a)
        /\ \A i \in 1..Len(a) : s[i] = IF i = Len(a) THEN q ELSE a[i]
    <2>1. Len(a) \in 1..Len(a)
      BY <1>5
    <2> HIDE DEF a
    <2> QED
      BY <1>1, <1>5, <2>1, ExceptSeq
  <1> HIDE DEF a, b, s
  <1>8. \A i \in 1..Len(s) : s[i] = b[i]
    <2> SUFFICES ASSUME NEW i \in 1..(Len(pairs) + 1) PROVE s[i] = b[i]
      BY <1>5, <1>7
    <2>1. i \in 1..Len(pairs) \/ i = Len(pairs) + 1
      BY <1>5
    <2> QED
      BY <1>5, <1>6, <1>7, <2>1
  <1>9. s = b
    BY <1>5, <1>6, <1>7, <1>8, SeqEqual
  <1> QED
    BY <1>3, <1>9 DEF a, b, q

\* A character keeps the pairs well-formed.
LEMMA SplitPart ==
  ASSUME NEW parts \in Parts, NEW c \in Letters
  PROVE  SplitChar(parts, c) \in Parts
  <1> DEFINE S == Seq(Letters)
             n == Len(parts)
  <1>1. parts \in Seq(S) /\ n \in Nat /\ n >= 1
    BY EmptySeq DEF Parts
  <1>2. <<>> \in S
    OBVIOUS
  <1>3. CASE c = "&"
    <2>1. SplitChar(parts, c) = Append(parts, <<>>)
      BY <1>3 DEF SplitChar
    <2>2. Append(parts, <<>>) \in Seq(S) /\ Append(parts, <<>>) # <<>>
      <3> HIDE DEF S
      <3> QED
        BY <1>1, <1>2, AppendProperties
    <2> QED
      BY <2>1, <2>2 DEF Parts
  <1>4. CASE c # "&"
    <2> DEFINE q == Append(parts[n], c)
    <2>1. parts[n] \in S
      <3> HIDE DEF S
      <3> QED
        BY <1>1
    <2>2. q \in S
      BY <2>1
    <2>3. SplitChar(parts, c) = [parts EXCEPT ![n] = q]
      BY <1>4 DEF SplitChar
    <2>4. [parts EXCEPT ![n] = q] \in Seq(S) /\ Len([parts EXCEPT ![n] = q]) = n
      <3> HIDE DEF S, q
      <3> QED
        BY <1>1, <2>2, ExceptSeq
    <2>5. [parts EXCEPT ![n] = q] # <<>>
      BY <1>1, <2>4, EmptySeq
    <2> QED
      BY <2>3, <2>4, <2>5 DEF Parts
  <1> QED
    BY <1>3, <1>4

\* Splitting, character by character.
LEMMA SplitSteps ==
  ASSUME NEW s \in Seq(Letters)
  PROVE  /\ SplitPairs(<<>>) = Append(<<>>, <<>>)
         /\ SplitPairs(s) \in Parts
         /\ \A x \in Letters : SplitPairs(Append(s, x)) = SplitChar(SplitPairs(s), x)
  <1> DEFINE T == Parts
             X == Letters
             b == Append(<<>>, <<>>)
             step == [a \in T |-> [x \in X |-> SplitChar(a, x)]]
  <1>1. b \in T /\ s \in Seq(X) /\ \A a \in T, x \in X : SplitChar(a, x) \in T
    <2>1. <<>> \in Seq(Letters)
      OBVIOUS
    <2>2. Append(<<>>, <<>>) \in Parts
      BY <2>1 DEF Parts
    <2>3. \A a \in Parts, x \in Letters : SplitChar(a, x) \in Parts
      BY SplitPart
    <2> QED
      BY <2>2, <2>3
  <1>2. SplitPairs(<<>>) = b /\ SplitPairs(s) \in T
        /\ \A x \in X : SplitPairs(Append(s, x)) = SplitChar(SplitPairs(s), x)
    <2> HIDE DEF T, X
    <2>1. ASSUME NEW t \in Seq(X)
          PROVE  SplitPairs(t) = Run(step, b, t) /\ Loop(step, b, t, T, X)
      <3> DEFINE n == Len(t)
                 body(g) == [q \in SUBSET (1..n) |->
                                IF q = {} THEN b ELSE SplitChar(g[q \ {Max(q)}], t[Max(q)])]
                 f == CHOOSE g : g = body(g)
      <3>1. DOMAIN t = 1..n /\ n \in Nat /\ \A i \in 1..n : t[i] \in X
        OBVIOUS
      <3>2. SplitPairs(t) = f[1..n]
        BY <3>1 DEF SplitPairs, FoldLeft, MapThenFoldSet
      <3> HIDE DEF b
      <3>3. /\ \A a \in T, x \in X : step[a][x] = SplitChar(a, x)
            /\ step \in [T -> [X -> T]]
        BY <1>1
      <3> HIDE DEF step
      <3>4. Loop(step, b, t, T, X)
        BY <1>1, <3>3 DEF Loop
      <3>5. PICK g : IsFold(g, step, b, t, T)
        BY <3>4, FoldExists
      <3>6. g = body(g)
        <4>1. ASSUME NEW q \in SUBSET (1..n), q # {}
              PROVE  g[q] = SplitChar(g[q \ {Max(q)}], t[Max(q)])
          <5>1. Max(q) \in 1..n
            BY <3>1, <4>1, MaxIn
          <5>2. t[Max(q)] \in X /\ g[q \ {Max(q)}] \in T
            BY <3>1, <3>5, <5>1 DEF IsFold
          <5>3. g[q] = step[g[q \ {Max(q)}]][t[Max(q)]]
            BY <3>5, <4>1 DEF IsFold
          <5> QED
            BY <3>3, <5>2, <5>3
        <4> QED
          BY <3>5, <4>1 DEF IsFold
      <3>7. f = body(f)
        <4> HIDE DEF body
        <4> QED
          BY <3>6
      <3>8. f[{}] = b
        BY <3>7
      <3>9. ASSUME NEW i \in 1..n, f[1..(i - 1)] \in T
            PROVE  f[1..i] = step[f[1..(i - 1)]][t[i]]
        <4>1. /\ (1..i) \in SUBSET (1..n) /\ (1..i) # {}
              /\ (1..i) \ {i} = 1..(i - 1) /\ Max(1..i) = i
          BY <3>1, Prefix
        <4>2. f[1..i] = SplitChar(f[1..(i - 1)], t[i])
          <5> HIDE DEF f
          <5> QED
            BY <3>7, <4>1
        <4> QED
          BY <3>1, <3>3, <3>9, <4>2
      <3> HIDE DEF f, body
      <3> QED
        BY <3>2, <3>4, <3>8, <3>9, FoldIsRun
    <2>2. <<>> \in Seq(X) /\ \A x \in X : Append(s, x) \in Seq(X)
      BY <1>1
    <2>3. \A a \in T, x \in X : step[a][x] = SplitChar(a, x)
      BY <1>1
    <2> HIDE DEF b, step
    <2>4. SplitPairs(<<>>) = b
      BY <2>1, <2>2, RunEmpty
    <2>5. SplitPairs(s) \in T
      BY <1>1, <2>1, RunChosen
    <2>6. ASSUME NEW x \in X
          PROVE  SplitPairs(Append(s, x)) = SplitChar(SplitPairs(s), x)
      <3>1. Run(step, b, Append(s, x)) = step[Run(step, b, s)][x]
        <4>1. Loop(step, b, s, T, X)
          BY <1>1, <2>1
        <4> QED
          BY <4>1, RunAppend
      <3>2. SplitPairs(Append(s, x)) = Run(step, b, Append(s, x)) /\ SplitPairs(s) = Run(step, b, s)
        BY <1>1, <2>1, <2>2
      <3> QED
        BY <2>3, <2>5, <3>1, <3>2
    <2> QED
      BY <2>4, <2>5, <2>6
  <1> QED
    BY <1>2

LEMMA SeqWiden ==
  ASSUME NEW A, NEW B, A \subseteq B, NEW s \in Seq(A)
  PROVE  s \in Seq(B)
  OBVIOUS

LEMMA ConcatAppend ==
  ASSUME NEW S, NEW s \in Seq(S), NEW t \in Seq(S), NEW x \in S
  PROVE  s \o Append(t, x) = Append(s \o t, x)
  <1> DEFINE u == s \o t
             v == <<x>>
  <1>1. u \in Seq(S) /\ v \in Seq(S)
    OBVIOUS
  <1>2. Append(t, x) = t \o v
    BY AppendIsConcat
  <1>3. Append(u, x) = u \o v
    BY <1>1, AppendIsConcat
  <1> HIDE DEF v
  <1>4. u \o v = s \o (t \o v)
    BY <1>1, ConcatAssociative
  <1> QED
    BY <1>2, <1>3, <1>4

\* Two elements and a sequence.
LEMMA TwoConcat ==
  ASSUME NEW S, NEW x \in S, NEW y \in S, NEW t \in Seq(S)
  PROVE  LET s == <<x, y>> \o t
         IN  /\ s \in Seq(S) /\ Len(s) = Len(t) + 2 /\ s[1] = x /\ s[2] = y
             /\ \A i \in 1..Len(t) : s[i + 2] = t[i]
  <1> DEFINE h == <<x, y>>
             s == h \o t
  <1>1. h \in Seq(S) /\ Len(h) = 2 /\ h[1] = x /\ h[2] = y /\ Len(t) \in Nat
    OBVIOUS
  <1> HIDE DEF h
  <1>2. /\ s \in Seq(S) /\ Len(s) = Len(t) + 2
        /\ \A i \in 1..(Len(t) + 2) : s[i] = IF i <= 2 THEN h[i] ELSE t[i - 2]
    <2>1. /\ s \in Seq(S) /\ Len(s) = Len(h) + Len(t)
          /\ \A i \in 1..(Len(h) + Len(t)) : s[i] = IF i <= Len(h) THEN h[i] ELSE t[i - Len(h)]
      BY <1>1, ConcatProperties
    <2>2. Len(h) + Len(t) = Len(t) + 2
      BY <1>1
    <2> HIDE DEF s
    <2> QED
      BY <1>1, <2>1, <2>2
  <1> HIDE DEF s
  <1>3. 1 \in 1..(Len(t) + 2) /\ 2 \in 1..(Len(t) + 2)
    BY <1>1
  <1>4. s[1] = x /\ s[2] = y
    BY <1>1, <1>2, <1>3
  <1>5. ASSUME NEW i \in 1..Len(t) PROVE s[i + 2] = t[i]
    <2>1. i + 2 \in 1..(Len(t) + 2) /\ ~(i + 2 <= 2) /\ (i + 2) - 2 = i
      BY <1>1
    <2> QED
      BY <1>2, <2>1
  <1>6. /\ s \in Seq(S) /\ Len(s) = Len(t) + 2 /\ s[1] = x /\ s[2] = y
        /\ \A i \in 1..Len(t) : s[i + 2] = t[i]
    BY <1>2, <1>4, <1>5
  <1> QED
    BY <1>6 DEF s, h
\* A text without "&" goes to the last pair.
LEMMA SplitPlain ==
  ASSUME NEW s \in Seq(Letters), NEW pairs \in Seq(Seq(Letters)), NEW pair \in Seq(Letters),
         SplitPairs(s) = Append(pairs, pair), NEW text \in Seq(Letters \ {"&"})
  PROVE  SplitPairs(s \o text) = Append(pairs, pair \o text)
  <1> DEFINE X == Letters \ {"&"}
             P == {t \in Seq(X) : SplitPairs(s \o t) = Append(pairs, pair \o t)}
  <1>1. <<>> \in P
    <2>1. <<>> \in Seq(X)
      OBVIOUS
    <2>2. s \o <<>> = s /\ pair \o <<>> = pair
      OBVIOUS
    <2> QED
      BY <2>1, <2>2
  <1>2. ASSUME NEW t \in P, NEW x \in X PROVE Append(t, x) \in P
    <2>0. X \subseteq Letters /\ "&" \notin X
      OBVIOUS
    <2> HIDE DEF X
    <2>1. t \in Seq(X) /\ t \in Seq(Letters) /\ Append(t, x) \in Seq(X) /\ x \in Letters /\ x # "&"
      BY <2>0
    <2> HIDE DEF Letters
    <2> DEFINE u == s \o t
               q == pair \o t
    <2>2. u \in Seq(Letters) /\ q \in Seq(Letters)
      BY <2>1
    <2>3. s \o Append(t, x) = Append(u, x) /\ pair \o Append(t, x) = Append(q, x)
      <3>1. \A a, b \in Seq(Letters), c \in Letters : a \o Append(b, c) = Append(a \o b, c)
        BY SMTT(30), ConcatAppend
      <3> QED
        BY <2>1, <3>1
    <2>4. SplitPairs(u) = Append(pairs, q)
      OBVIOUS
    <2> HIDE DEF u, q
    <2>5. SplitPairs(Append(u, x)) = SplitChar(Append(pairs, q), x)
      BY <2>1, <2>2, <2>4, SplitSteps
    <2>6. SplitChar(Append(pairs, q), x) = Append(pairs, Append(q, x))
      BY <2>1, <2>2, LastPart
    <2> QED
      BY <2>1, <2>3, <2>5, <2>6
  <1>3. P = Seq(X)
    <2> HIDE DEF P, X
    <2>1. P \in SUBSET Seq(X)
      BY DEF P
    <2> QED
      BY <1>1, <1>2, <2>1, SeqInduction
  <1> QED
    BY <1>3

\* A parameter: its name, "=" and its text.
Pair(name, text) == <<name, "=">> \o text

\* What a parameter is made of, character by character.
LEMMA PairParts ==
  ASSUME NEW name \in {"q", "s"}, NEW text \in Seq(Plain)
  PROVE  /\ Pair(name, text) \in Seq(Letters \ {"&"}) /\ Pair(name, text) \in Seq(Letters)
         /\ Len(Pair(name, text)) = Len(text) + 2
         /\ Pair(name, text)[1] = name /\ Pair(name, text)[2] = "="
         /\ \A i \in 1..Len(text) : Pair(name, text)[i + 2] = text[i]
  <1> DEFINE X == Letters \ {"&"}
             e == "="
  <1>1. name \in X /\ e \in X /\ Plain \subseteq X /\ X \subseteq Letters
    BY DEF Letters, Chars, Reserved, Plain
  <1> HIDE DEF X, Letters, Plain, e
  <1>2. text \in Seq(X)
    BY <1>1, SeqWiden
  <1> DEFINE s == <<name, e>> \o text
  <1>3. /\ s \in Seq(X) /\ Len(s) = Len(text) + 2 /\ s[1] = name /\ s[2] = e
        /\ \A i \in 1..Len(text) : s[i + 2] = text[i]
    BY <1>1, <1>2, TwoConcat
  <1>4. s = Pair(name, text)
    BY DEF e, Pair
  <1> HIDE DEF s
  <1>5. s \in Seq(Letters)
    BY <1>1, <1>3, SeqWiden
  <1> QED
    BY <1>3, <1>4, <1>5 DEF X, e

\* The first "=" is the one after the name.
LEMMA PairValue ==
  ASSUME NEW name \in {"q", "s"}, NEW text \in Seq(Plain)
  PROVE  KeyAndValue(Pair(name, text)) = [key |-> <<name>>, value |-> PercentDecode(text)]
  <1> DEFINE p == Pair(name, text)
             n == Len(text)
             equals == {i \in DOMAIN p : p[i] = "="}
             pos == CHOOSE i \in equals : \A j \in equals : i <= j
  <1>1. /\ p \in Seq(Letters) /\ Len(p) = n + 2 /\ n \in Nat
        /\ p[1] = name /\ p[2] = "=" /\ \A i \in 1..n : p[i + 2] = text[i]
    BY PairParts
  <1> HIDE DEF p
  <1>2. name # "=" /\ name # "%" /\ name # "+" /\ name \in Letters
    BY DEF Letters
  <1>3. equals = {2}
    <2>1. \A i \in 1..n : text[i] # "="
      <3>1. \A i \in 1..n : text[i] \in Plain
        <4> HIDE DEF Plain
        <4> QED
          OBVIOUS
      <3> QED
        BY <3>1 DEF Plain
    <2>2. ASSUME NEW i \in 1..(n + 2), p[i] = "=" PROVE i = 2
      <3>1. i # 1
        BY <1>1, <1>2, <2>2
      <3>2. ASSUME i > 2 PROVE FALSE
        <4>1. i - 2 \in 1..n /\ (i - 2) + 2 = i
          BY <1>1, <3>2
        <4> QED
          BY <1>1, <2>1, <2>2, <4>1
      <3> QED
        BY <3>1, <3>2
    <2>3. DOMAIN p = 1..(n + 2)
      BY <1>1
    <2>4. 2 \in 1..(n + 2)
      BY <1>1
    <2> QED
      BY <1>1, <2>2, <2>3, <2>4
  <1>4. pos = 2
    BY <1>3
  <1>5. KeyAndValue(p) = [key   |-> PercentDecode(SubSeq(p, 1, 1)),
                          value |-> PercentDecode(SubSeq(p, 3, Len(p)))]
    <2>1. equals # {}
      BY <1>3
    <2>2. KeyAndValue(p) = [key   |-> PercentDecode(SubSeq(p, 1, pos - 1)),
                            value |-> PercentDecode(SubSeq(p, pos + 1, Len(p)))]
      BY <2>1 DEF KeyAndValue
    <2> HIDE DEF pos
    <2>3. pos - 1 = 1 /\ pos + 1 = 3
      BY <1>4
    <2> QED
      BY <2>2, <2>3
  <1>6. SubSeq(p, 1, 1) = <<name>>
    <2> DEFINE a == SubSeq(p, 1, 1)
    <2> HIDE DEF Letters
    <2>1. a \in Seq(Letters) /\ Len(a) = 1 /\ a[1] = name
      BY <1>1, SubSeqProperties
    <2>2. <<name>> \in Seq(Letters) /\ Len(<<name>>) = 1 /\ <<name>>[1] = name
      BY <1>2
    <2> HIDE DEF a
    <2>3. a = <<name>>
      BY <2>1, <2>2, SeqEqual
    <2> QED
      BY <2>3 DEF a
  <1>7. SubSeq(p, 3, Len(p)) = text
    <2> DEFINE a == SubSeq(p, 3, Len(p))
    <2>0. text \in Seq(Letters)
      <3>1. Plain \subseteq Letters
        BY DEF Plain
      <3> HIDE DEF Plain, Letters
      <3> QED
        BY <3>1
    <2> HIDE DEF Letters
    <2>1. 3 \in 1..(Len(p) + 1) /\ Len(p) \in 0..Len(p) /\ Len(p) - 3 + 1 = n
      BY <1>1
    <2>2. a \in Seq(Letters) /\ Len(a) = n /\ \A i \in 1..n : a[i] = p[3 + i - 1]
      BY <1>1, <2>1, SubSeqProperties
    <2>3. \A i \in 1..n : a[i] = text[i]
      <3> SUFFICES ASSUME NEW i \in 1..n PROVE a[i] = text[i]
        OBVIOUS
      <3>1. 3 + i - 1 = i + 2
        BY <1>1
      <3>2. a[i] = p[i + 2]
        BY <2>2, <3>1
      <3> QED
        BY <1>1, <3>2
    <2> HIDE DEF a
    <2>4. a = text
      BY <2>0, <2>2, <2>3, SeqEqual
    <2> QED
      BY <2>4 DEF a
  <1>8. PercentDecode(<<name>>) = <<name>>
    <2>1. <<>> \in Seq(Letters) /\ Append(<<>>, name) = <<name>>
      OBVIOUS
    <2>2. Decoding(<<name>>) = DecodeChar(NoneDecoded, name)
      BY <1>2, <2>1, DecodeSteps
    <2>3. DecodeChar(NoneDecoded, name) = [NoneDecoded EXCEPT !.out = Append(@, name)]
      BY <1>2 DEF DecodeChar, NoneDecoded
    <2>4. /\ [NoneDecoded EXCEPT !.out = Append(@, name)].open = FALSE
          /\ [NoneDecoded EXCEPT !.out = Append(@, name)].out = <<name>>
      BY <2>1 DEF NoneDecoded
    <2> QED
      BY <2>2, <2>3, <2>4 DEF PercentDecode
  <1>9. KeyAndValue(p) = [key |-> <<name>>, value |-> PercentDecode(text)]
    BY <1>5, <1>6, <1>7, <1>8
  <1> QED
    BY <1>9 DEF p

\* The maps from names to texts.
Maps == UNION {[D -> Seq(Letters)] : D \in SUBSET Seq(Letters)}

LEMMA EmptyMap == <<>> \in Maps
  <1>1. <<>> \in [{} -> Seq(Letters)]
    OBVIOUS
  <1> QED
    BY <1>1 DEF Maps

\* Decoding gives a text.
LEMMA DecodeText ==
  ASSUME NEW text \in Seq(Letters)
  PROVE  PercentDecode(text) \in Seq(Letters)
  <1> DEFINE end == Decoding(text)
  <1>1. end \in Decoders
    BY DecodeSteps
  <1> HIDE DEF end
  <1>2. end.out \in Seq(Letters) /\ end.taken \in Seq(Letters)
    BY <1>1 DEF Decoders
  <1>3. Unescape(end.taken) \in Seq(Letters)
    BY <1>2, Unescaped
  <1> DEFINE u == Unescape(end.taken)
  <1>4. u \in Seq(Letters)
    BY <1>3
  <1> HIDE DEF u
  <1>5. end.out \o u \in Seq(Letters)
    <2> HIDE DEF Letters
    <2> QED
      BY <1>2, <1>4
  <1>6. PercentDecode(text) = IF end.open THEN end.out \o u ELSE end.out
    BY DEF PercentDecode, end, u
  <1> QED
    BY <1>2, <1>5, <1>6

\* A pair is added to a map.
LEMMA AddedPair ==
  ASSUME NEW map \in Maps, NEW pair \in Seq(Letters)
  PROVE  AddPair(map, pair) \in Maps
  <1> DEFINE S == Seq(Letters)
             kv == KeyAndValue(pair)
             m == Insert(map, kv)
  <1>1. PICK D \in SUBSET S : map \in [D -> S]
    BY DEF Maps
  <1>2. kv.key \in S /\ kv.value \in S
    <2> DEFINE equals == {i \in DOMAIN pair : pair[i] = "="}
               pos == CHOOSE i \in equals : \A j \in equals : i <= j
               a == SubSeq(pair, 1, pos - 1)
               c == SubSeq(pair, pos + 1, Len(pair))
    <2>1. ASSUME equals # {} PROVE a \in S /\ c \in S
      <3>1. pos \in Nat
        <4>1. Len(pair) \in Nat /\ equals \in SUBSET (1..Len(pair))
          OBVIOUS
        <4> HIDE DEF equals
        <4>2. \E i \in equals : \A j \in equals : i <= j
          BY <2>1, <4>1, LeastIndex
        <4>3. pos \in equals
          BY <4>2
        <4> HIDE DEF pos
        <4> QED
          BY <4>1, <4>3
      <3> HIDE DEF Letters, pos
      <3>2. /\ \A i \in 1..(pos - 1) : i < pos
            /\ Len(pair) \in Nat
        BY <3>1
      <3>3. pos - 1 <= Len(pair)
        <4>1. pos \in equals
          <5>1. Len(pair) \in Nat /\ equals \in SUBSET (1..Len(pair))
            OBVIOUS
          <5> HIDE DEF equals
          <5>2. \E i \in equals : \A j \in equals : i <= j
            BY <2>1, <5>1, LeastIndex
          <5> QED
            BY <5>2 DEF pos
        <4> QED
          BY <3>1, <3>2, <4>1
      <3>4. pos - 1 \in Int /\ pos + 1 \in Int /\ Len(pair) \in Int
        BY <3>1, <3>2
      <3>5. /\ \A i \in 1..(pos - 1) : pair[i] \in Letters
            /\ \A i \in (pos + 1)..Len(pair) : pair[i] \in Letters
        BY <3>1, <3>2, <3>3
      <3> QED
        BY <3>4, <3>5, SubSeqProperties
    <2>2. <<>> \in S
      OBVIOUS
    <2>3. kv = IF equals = {} THEN [key |-> PercentDecode(pair), value |-> <<>>]
               ELSE [key |-> PercentDecode(a), value |-> PercentDecode(c)]
      BY DEF KeyAndValue
    <2> HIDE DEF a, c, kv, equals
    <2>4. equals # {} => PercentDecode(a) \in S /\ PercentDecode(c) \in S
      BY <2>1, DecodeText
    <2>5. PercentDecode(pair) \in S
      BY DecodeText
    <2> HIDE DEF S
    <2> QED
      BY <2>2, <2>3, <2>4, <2>5
  <1> HIDE DEF S, kv
  <1>3. m \in [{kv.key} \cup D -> S]
    BY <1>1, <1>2 DEF Insert
  <1>4. m \in Maps
    <2>1. ({kv.key} \cup D) \in SUBSET S
      BY <1>1, <1>2
    <2> QED
      BY <1>3, <2>1 DEF Maps, S
  <1>5. AddPair(map, pair) = IF pair = <<>> THEN map ELSE m
    BY DEF AddPair, kv
  <1> HIDE DEF m
  <1> QED
    BY <1>4, <1>5

\* Reading a query string, pair by pair.
LEMMA AddSteps ==
  ASSUME NEW s \in Seq(Seq(Letters))
  PROVE  /\ FoldLeft(AddPair, <<>>, <<>>) = <<>>
         /\ FoldLeft(AddPair, <<>>, s) \in Maps
         /\ \A x \in Seq(Letters) : FoldLeft(AddPair, <<>>, Append(s, x)) = AddPair(FoldLeft(AddPair, <<>>, s), x)
  <1> DEFINE T == Maps
             X == Seq(Letters)
             b == <<>>
             step == [a \in T |-> [x \in X |-> AddPair(a, x)]]
  <1>1. b \in T /\ s \in Seq(X) /\ \A a \in T, x \in X : AddPair(a, x) \in T
    <2>1. \A a \in Maps, x \in Seq(Letters) : AddPair(a, x) \in Maps
      BY AddedPair
    <2> HIDE DEF Maps, Letters
    <2> QED
      BY <2>1, EmptyMap
  <1>2. FoldLeft(AddPair, <<>>, <<>>) = b /\ FoldLeft(AddPair, <<>>, s) \in T
        /\ \A x \in X : FoldLeft(AddPair, <<>>, Append(s, x)) = AddPair(FoldLeft(AddPair, <<>>, s), x)
    <2> HIDE DEF T, X
    <2>1. ASSUME NEW t \in Seq(X)
          PROVE  FoldLeft(AddPair, <<>>, t) = Run(step, b, t) /\ Loop(step, b, t, T, X)
      <3> DEFINE n == Len(t)
                 body(g) == [q \in SUBSET (1..n) |->
                                IF q = {} THEN b ELSE AddPair(g[q \ {Max(q)}], t[Max(q)])]
                 f == CHOOSE g : g = body(g)
      <3>1. DOMAIN t = 1..n /\ n \in Nat /\ \A i \in 1..n : t[i] \in X
        OBVIOUS
      <3>2. FoldLeft(AddPair, <<>>, t) = f[1..n]
        BY <3>1 DEF FoldLeft, MapThenFoldSet
      <3> HIDE DEF b
      <3>3. /\ \A a \in T, x \in X : step[a][x] = AddPair(a, x)
            /\ step \in [T -> [X -> T]]
        BY <1>1
      <3> HIDE DEF step
      <3>4. Loop(step, b, t, T, X)
        BY <1>1, <3>3 DEF Loop
      <3>5. PICK g : IsFold(g, step, b, t, T)
        BY <3>4, FoldExists
      <3>6. g = body(g)
        <4>1. ASSUME NEW q \in SUBSET (1..n), q # {}
              PROVE  g[q] = AddPair(g[q \ {Max(q)}], t[Max(q)])
          <5>1. Max(q) \in 1..n
            BY <3>1, <4>1, MaxIn
          <5>2. t[Max(q)] \in X /\ g[q \ {Max(q)}] \in T
            BY <3>1, <3>5, <5>1 DEF IsFold
          <5>3. g[q] = step[g[q \ {Max(q)}]][t[Max(q)]]
            BY <3>5, <4>1 DEF IsFold
          <5> QED
            BY <3>3, <5>2, <5>3
        <4> QED
          BY <3>5, <4>1 DEF IsFold
      <3>7. f = body(f)
        <4> HIDE DEF body
        <4> QED
          BY <3>6
      <3>8. f[{}] = b
        BY <3>7
      <3>9. ASSUME NEW i \in 1..n, f[1..(i - 1)] \in T
            PROVE  f[1..i] = step[f[1..(i - 1)]][t[i]]
        <4>1. /\ (1..i) \in SUBSET (1..n) /\ (1..i) # {}
              /\ (1..i) \ {i} = 1..(i - 1) /\ Max(1..i) = i
          BY <3>1, Prefix
        <4>2. f[1..i] = AddPair(f[1..(i - 1)], t[i])
          <5> HIDE DEF f
          <5> QED
            BY <3>7, <4>1
        <4> QED
          BY <3>1, <3>3, <3>9, <4>2
      <3> HIDE DEF f, body
      <3> QED
        BY <3>2, <3>4, <3>8, <3>9, FoldIsRun
    <2>2. <<>> \in Seq(X) /\ \A x \in X : Append(s, x) \in Seq(X)
      BY <1>1
    <2>3. \A a \in T, x \in X : step[a][x] = AddPair(a, x)
      BY <1>1
    <2> HIDE DEF b, step
    <2>4. FoldLeft(AddPair, <<>>, <<>>) = b
      BY <2>1, <2>2, RunEmpty
    <2>5. FoldLeft(AddPair, <<>>, s) \in T
      BY <1>1, <2>1, RunChosen
    <2>6. ASSUME NEW x \in X
          PROVE  FoldLeft(AddPair, <<>>, Append(s, x)) = AddPair(FoldLeft(AddPair, <<>>, s), x)
      <3>1. Run(step, b, Append(s, x)) = step[Run(step, b, s)][x]
        <4>1. Loop(step, b, s, T, X)
          BY <1>1, <2>1
        <4> QED
          BY <4>1, RunAppend
      <3>2. FoldLeft(AddPair, <<>>, Append(s, x)) = Run(step, b, Append(s, x)) /\ FoldLeft(AddPair, <<>>, s) = Run(step, b, s)
        BY <1>1, <2>1, <2>2
      <3> QED
        BY <2>3, <2>5, <3>1, <3>2
    <2> QED
      BY <2>4, <2>5, <2>6
  <1> QED
    BY <1>2

\* The query string of a search is two parameters.
LEMMA QueryParts ==
  ASSUME NEW a \in Seq(Plain), NEW b \in Seq(Plain)
  PROVE  SplitPairs(<<"q", "=">> \o a \o <<"&", "s", "=">> \o b) = <<Pair("q", a), Pair("s", b)>>
  <1> DEFINE X == Letters \ {"&"}
             p == Pair("q", a)
             r == Pair("s", b)
             m == <<"&", "s", "=">>
             h == <<"s", "=">>
             c == "&"
             text == (p \o m) \o b
  <1>1. /\ p \in Seq(X) /\ p \in Seq(Letters)
        /\ r \in Seq(X) /\ r \in Seq(Letters)
    BY PairParts
  <1>2. c \in Letters /\ "s" \in X /\ "=" \in X /\ X \subseteq Letters /\ Plain \subseteq X
    BY DEF Letters, Chars, Reserved, Plain
  <1>3. p = <<"q", "=">> \o a /\ r = h \o b
    BY DEF Pair
  <1>4. h \in Seq(X) /\ h \in Seq(Letters) /\ m = <<c>> \o h
    <2> DEFINE x == "s"
               y == "="
    <2>1. x \in X /\ y \in X /\ x \in Letters /\ y \in Letters
      BY <1>2
    <2> HIDE DEF x, y, X, Letters
    <2>2. <<x, y>> \in Seq(X) /\ <<x, y>> \in Seq(Letters)
      BY <2>1
    <2> HIDE DEF c
    <2>3. <<c>> \o <<x, y>> = <<c, x, y>>
      BY <1>2, <2>1, ThreeChars
    <2>4. <<x, y>> = h /\ <<c, x, y>> = m
      BY DEF x, y, c
    <2> QED
      BY <2>2, <2>3, <2>4
  <1>5. a \in Seq(X) /\ b \in Seq(X) /\ a \in Seq(Letters) /\ b \in Seq(Letters)
    <2> HIDE DEF X, Letters, Plain
    <2>1. a \in Seq(X) /\ b \in Seq(X)
      BY <1>2, SeqWiden
    <2> QED
      BY <1>2, <2>1, SeqWiden
  <1>6. c = "&"
    OBVIOUS
  <1> HIDE DEF p, r, m, h, c, Letters
  <1>7. text = Append(p, c) \o r
    <2> DEFINE v == <<c>>
    <2>1. v \in Seq(Letters)
      BY <1>2
    <2>2. Append(p, c) = p \o v
      BY <1>1, <1>2, AppendIsConcat
    <2> HIDE DEF v, X
    <2>3. m = v \o h
      BY <1>4 DEF v
    <2>4. v \o h \in Seq(Letters) /\ p \o v \in Seq(Letters)
      BY <1>1, <1>4, <2>1, ConcatProperties
    <2>5. (p \o (v \o h)) \o b = p \o ((v \o h) \o b)
      <3> DEFINE w == v \o h
      <3>1. p \in Seq(Letters) /\ w \in Seq(Letters) /\ b \in Seq(Letters)
        BY <1>1, <1>5, <2>4
      <3>2. (p \o w) \o b = p \o (w \o b)
        <4> HIDE DEF w
        <4> QED
          BY <3>1, ConcatAssociative, SMTT(30)
      <3> QED
        BY <3>2
    <2>6. (v \o h) \o b = v \o (h \o b)
      BY <1>4, <1>5, <2>1, ConcatAssociative, SMTT(30)
    <2>7. (p \o v) \o r = p \o (v \o r)
      BY <1>1, <2>1, ConcatAssociative
    <2> QED
      BY <1>3, <2>2, <2>3, <2>5, <2>6, <2>7
  <1>8. SplitPairs(p) = Append(<<>>, p)
    <2> DEFINE e == <<>>
    <2>1. e \in Seq(Letters) /\ e \in Seq(Seq(Letters)) /\ e \o p = p
      BY <1>1
    <2>2. SplitPairs(e) = Append(e, e)
      BY <2>1, SplitSteps
    <2>3. p \in Seq(Letters \ {"&"})
      BY <1>1
    <2> HIDE DEF e
    <2>4. SplitPairs(e \o p) = Append(e, e \o p)
      BY <2>1, <2>2, <2>3, SplitPlain
    <2> QED
      BY <2>1, <2>4 DEF e
  <1>9. SplitPairs(Append(p, c)) = Append(<<p>>, <<>>)
    <2>1. SplitPairs(Append(p, c)) = SplitChar(SplitPairs(p), c)
      BY <1>1, <1>2, SplitSteps
    <2>2. Append(<<>>, p) = <<p>>
      OBVIOUS
    <2>3. SplitChar(<<p>>, c) = Append(<<p>>, <<>>)
      BY <1>6 DEF SplitChar
    <2> QED
      BY <1>8, <2>1, <2>2, <2>3
  <1>10. SplitPairs(Append(p, c) \o r) = Append(<<p>>, r)
    <2> DEFINE e == <<>>
               s == Append(p, c)
               pairs == <<p>>
    <2>1. /\ s \in Seq(Letters) /\ pairs \in Seq(Seq(Letters))
          /\ e \in Seq(Letters) /\ e \o r = r /\ r \in Seq(Letters \ {"&"})
      BY <1>1, <1>2
    <2>2. SplitPairs(s) = Append(pairs, e)
      BY <1>9
    <2> HIDE DEF e, s, pairs
    <2>3. SplitPairs(s \o r) = Append(pairs, e \o r)
      BY <2>1, <2>2, SplitPlain
    <2> QED
      BY <2>1, <2>3 DEF s, pairs
  <1>11. Append(<<p>>, r) = <<p, r>>
    <2> DEFINE S == Seq(Letters)
    <2>1. p \in S /\ r \in S
      BY <1>1
    <2> HIDE DEF S
    <2> QED
      BY <2>1, TwoChars
  <1>12. SplitPairs(text) = <<p, r>>
    BY <1>7, <1>10, <1>11
  <1> QED
    BY <1>3, <1>12 DEF p, r, m

\* A search of the CLI arrives as it was given.
LEMMA ParamsResult ==
  ASSUME NEW query \in Seq(Chars), NEW schema \in Seq(Chars)
  PROVE  ParseQueryString(SearchQuery(query, schema))
           = [k \in {<<"q">>, <<"s">>} |-> IF k = <<"q">> THEN query ELSE schema]
  <1> DEFINE a == UrlEncode(query)
             b == UrlEncode(schema)
             p == Pair("q", a)
             r == Pair("s", b)
             K == <<"q">>
             L == <<"s">>
             e == <<>>
             m == [k \in {K} |-> query]
  <1>1. /\ a \in Seq(Plain) /\ PercentDecode(a) = query
        /\ b \in Seq(Plain) /\ PercentDecode(b) = schema
    BY DecodeEncoded
  <1> HIDE DEF a, b
  <1>2. SplitPairs(SearchQuery(query, schema)) = <<p, r>>
    BY <1>1, QueryParts DEF SearchQuery, a, b
  <1>3. KeyAndValue(p) = [key |-> K, value |-> query] /\ KeyAndValue(r) = [key |-> L, value |-> schema]
    BY <1>1, PairValue
  <1>4. p \in Seq(Letters) /\ r \in Seq(Letters) /\ p # <<>> /\ r # <<>>
    <2>1. /\ p \in Seq(Letters) /\ Len(p) = Len(a) + 2 /\ Len(a) \in Nat
          /\ r \in Seq(Letters) /\ Len(r) = Len(b) + 2 /\ Len(b) \in Nat
      BY <1>1, PairParts
    <2> HIDE DEF p, r
    <2>2. Len(p) # 0 /\ Len(r) # 0
      BY <2>1
    <2> QED
      BY <2>1, <2>2, EmptySeq
  <1>5. K # L
    OBVIOUS
  <1> HIDE DEF p, r, K, L
  <1>6. AddPair(e, p) = m
    <2>1. DOMAIN e = {}
      OBVIOUS
    <2>2. AddPair(e, p) = Insert(e, [key |-> K, value |-> query])
      BY <1>3, <1>4 DEF AddPair
    <2>3. Insert(e, [key |-> K, value |-> query])
            = [k \in DOMAIN e \cup {K} |-> IF k = K THEN query ELSE e[k]]
      BY DEF Insert
    <2>4. [k \in DOMAIN e \cup {K} |-> IF k = K THEN query ELSE e[k]] = m
      BY <2>1
    <2> QED
      BY <2>2, <2>3, <2>4
  <1>7. AddPair(m, r) = [k \in {K, L} |-> IF k = K THEN query ELSE schema]
    <2>1. AddPair(m, r) = Insert(m, [key |-> L, value |-> schema])
      BY <1>3, <1>4 DEF AddPair
    <2>2. Insert(m, [key |-> L, value |-> schema])
            = [k \in DOMAIN m \cup {L} |-> IF k = L THEN schema ELSE m[k]]
      BY DEF Insert
    <2>3. [k \in DOMAIN m \cup {L} |-> IF k = L THEN schema ELSE m[k]]
            = [k \in {K, L} |-> IF k = K THEN query ELSE schema]
      BY <1>5
    <2> QED
      BY <2>1, <2>2, <2>3
  <1>8. FoldLeft(AddPair, <<>>, <<p, r>>) = AddPair(AddPair(e, p), r)
    <2> DEFINE S == Seq(Letters)
               t == <<p>>
    <2>1. e \in Seq(S) /\ t = Append(e, p) /\ t \in Seq(S) /\ <<p, r>> = Append(t, r)
      <3>1. p \in S /\ r \in S
        BY <1>4
      <3> HIDE DEF S
      <3>2. Append(<<p>>, r) = <<p, r>>
        BY <3>1, TwoChars
      <3> QED
        BY <3>1, <3>2
    <2> HIDE DEF t
    <2>2. FoldLeft(AddPair, <<>>, e) = e
      BY <2>1, AddSteps
    <2>3. FoldLeft(AddPair, <<>>, Append(e, p)) = AddPair(FoldLeft(AddPair, <<>>, e), p)
      BY <1>4, <2>1, AddSteps
    <2>4. FoldLeft(AddPair, <<>>, Append(t, r)) = AddPair(FoldLeft(AddPair, <<>>, t), r)
      BY <1>4, <2>1, AddSteps
    <2> QED
      BY <2>1, <2>2, <2>3, <2>4
  <1>9. ParseQueryString(SearchQuery(query, schema)) = FoldLeft(AddPair, <<>>, <<p, r>>)
    BY <1>2 DEF ParseQueryString
  <1> QED
    BY <1>6, <1>7, <1>8, <1>9 DEF K, L

-----------------------------------------------------------------------------
(* parse_query and matches_query. *)

TokenWords == {t.word : t \in QueryTokens}
Typed == [kind : Kinds, word : TokenWords, upper : BOOLEAN]
Terms == [token : Typed, prefixes : Nat]
Filters == TokenWords \cup {"none", NoDate, NoLimit}

\* The states of the parser.
Parsed == [terms : Seq(Terms), excludes : SUBSET TokenWords, phrases : SUBSET TokenWords,
           tag : Filters, schema : Filters, since : Filters, before : Filters, limit : Filters, afterOr : BOOLEAN]

LEMMA NoQueryParsed == NoQuery \in Parsed
  <1> DEFINE e == <<>>
  <1>1. e \in Seq(Terms) /\ {} \in SUBSET TokenWords
    OBVIOUS
  <1>2. "none" \in Filters /\ NoDate \in Filters /\ NoLimit \in Filters
    BY DEF Filters
  <1>3. NoQuery = [terms |-> e, excludes |-> {}, phrases |-> {}, tag |-> "none",
                   schema |-> "none", since |-> NoDate, before |-> NoDate, limit |-> NoLimit, afterOr |-> FALSE]
    BY DEF NoQuery
  <1> HIDE DEF e
  <1> QED
    BY <1>1, <1>2, <1>3 DEF Parsed

\* The fields of a token, and the terms made of one.
LEMMA TokenTerms ==
  ASSUME NEW x \in QueryTokens
  PROVE  /\ x \in Typed /\ Lower(x) \in Typed
         /\ Lower(x).kind = x.kind /\ Lower(x).word = x.word /\ Lower(x).upper = FALSE
         /\ Term(x, 1) \in Terms /\ PlainTerm(x) \in Terms /\ Term(Lower(x), 1) \in Terms
         /\ x.word \in TokenWords
  <1>1. x.kind \in Kinds /\ x.word \in TokenWords /\ x.upper \in BOOLEAN
    BY QueryAssumption DEF TokenWords
  <1>2. x = [kind |-> x.kind, word |-> x.word, upper |-> x.upper]
    BY QueryAssumption DEF Token
  <1>3. x \in Typed
    BY <1>1, <1>2 DEF Typed
  <1>4. /\ Lower(x) \in Typed
        /\ Lower(x).kind = x.kind /\ Lower(x).word = x.word /\ Lower(x).upper = FALSE
    BY <1>3 DEF Typed, Lower
  <1>5. \A y \in Typed, n \in Nat : Term(y, n) \in Terms
    BY DEF Terms, Term
  <1>6. PlainTerm(x) = Term(Lower(x), 0)
    BY DEF PlainTerm
  <1> QED
    BY <1>1, <1>3, <1>4, <1>5, <1>6

\* What one round of the loop does to the parser.
LEMMA ParsedToken ==
  ASSUME NEW q \in Parsed, NEW x \in QueryTokens
  PROVE  LET p == ParseToken(q, x)
         IN  /\ p \in Parsed
             /\ q.afterOr =>
                  /\ p.terms = Append(q.terms, Term(x, 1)) /\ ~p.afterOr
                  /\ p.excludes = q.excludes /\ p.phrases = q.phrases
                  /\ p.tag = q.tag /\ p.schema = q.schema /\ p.since = q.since /\ p.before = q.before
             /\ ~q.afterOr /\ x.kind = "or" /\ q.terms # <<>> =>
                  /\ p.terms = [q.terms EXCEPT ![Len(q.terms)].prefixes = @ + 1] /\ p.afterOr
                  /\ p.excludes = q.excludes /\ p.phrases = q.phrases
                  /\ p.tag = q.tag /\ p.schema = q.schema /\ p.since = q.since /\ p.before = q.before
             /\ ~q.afterOr /\ (x.kind = "term" \/ (x.kind = "or" /\ q.terms = <<>>)) =>
                  /\ p.terms = Append(q.terms, PlainTerm(x)) /\ ~p.afterOr
                  /\ p.excludes = q.excludes /\ p.phrases = q.phrases
                  /\ p.tag = q.tag /\ p.schema = q.schema /\ p.since = q.since /\ p.before = q.before
             /\ ~q.afterOr /\ x.kind \notin {"or", "term"} =>
                  /\ p.terms = q.terms /\ ~p.afterOr
                  /\ p.excludes = IF x.kind = "exclude" THEN q.excludes \cup {x.word} ELSE q.excludes
                  /\ p.phrases = IF x.kind = "phrase" THEN q.phrases \cup {x.word} ELSE q.phrases
                  /\ p.tag = IF x.kind = "tag" THEN x.word ELSE q.tag
                  /\ p.schema = IF x.kind = "schema" THEN x.word ELSE q.schema
                  /\ p.since = IF x.kind = "since" THEN x.word ELSE q.since
                  /\ p.before = IF x.kind = "before" THEN x.word ELSE q.before
  <1> DEFINE p == ParseToken(q, x)
  <1>1. /\ q.terms \in Seq(Terms) /\ q.excludes \in SUBSET TokenWords /\ q.phrases \in SUBSET TokenWords
        /\ q.tag \in Filters /\ q.schema \in Filters /\ q.since \in Filters /\ q.before \in Filters /\ q.limit \in Filters
        /\ q.afterOr \in BOOLEAN
    BY DEF Parsed
  <1>2. /\ Term(x, 1) \in Terms /\ PlainTerm(x) \in Terms /\ x.word \in TokenWords /\ x.word \in Filters
        /\ x.kind \in Kinds
    BY TokenTerms, QueryAssumption DEF Filters
  <1> DEFINE a == Append(q.terms, Term(x, 1))
             b == Append(q.terms, PlainTerm(x))
             m == [q.terms EXCEPT ![Len(q.terms)].prefixes = @ + 1]
             l == IF x.word = NoLimit THEN q.limit ELSE x.word
  <1>3. a \in Seq(Terms) /\ b \in Seq(Terms) /\ l \in Filters
    BY <1>1, <1>2
  <1>4. q.terms # <<>> => m \in Seq(Terms)
    <2> SUFFICES ASSUME q.terms # <<>> PROVE m \in Seq(Terms)
      OBVIOUS
    <2> DEFINE t == q.terms
               n == Len(t)
               u == [t[n] EXCEPT !.prefixes = @ + 1]
    <2>1. n \in 1..n
      BY <1>1, EmptySeq
    <2>2. t[n] \in Terms
      <3> HIDE DEF Terms
      <3> QED
        BY <1>1, <2>1
    <2>3. u \in Terms
      <3> HIDE DEF Typed
      <3> QED
        BY <2>2 DEF Terms
    <2>4. m = [t EXCEPT ![n] = u]
      OBVIOUS
    <2> HIDE DEF m, u, Terms
    <2> QED
      BY <1>1, <2>1, <2>3, <2>4, ExceptSeq
  <1> HIDE DEF a, b, m, l
  <1>5. CASE q.afterOr
    <2>1. p = [q EXCEPT !.terms = a, !.afterOr = FALSE]
      BY <1>5 DEF ParseToken, a
    <2>2. p \in Parsed
      BY <1>3, <2>1 DEF Parsed
    <2>3. /\ p.terms = a /\ p.afterOr = FALSE
          /\ p.excludes = q.excludes /\ p.phrases = q.phrases
          /\ p.tag = q.tag /\ p.schema = q.schema /\ p.since = q.since /\ p.before = q.before
      BY <2>1 DEF Parsed
    <2> HIDE DEF p
    <2> QED
      BY <1>5, <2>2, <2>3 DEF a, p
  <1>6. CASE ~q.afterOr /\ x.kind = "or" /\ q.terms # <<>>
    <2>1. p = [q EXCEPT !.terms = m, !.afterOr = TRUE]
      BY <1>6 DEF ParseToken, m
    <2>2. p \in Parsed
      BY <1>4, <1>6, <2>1 DEF Parsed
    <2>3. /\ p.terms = m /\ p.afterOr = TRUE
          /\ p.excludes = q.excludes /\ p.phrases = q.phrases
          /\ p.tag = q.tag /\ p.schema = q.schema /\ p.since = q.since /\ p.before = q.before
      BY <2>1 DEF Parsed
    <2> HIDE DEF p
    <2> QED
      BY <1>6, <2>2, <2>3 DEF m, p
  <1>7. CASE ~q.afterOr /\ (x.kind = "term" \/ (x.kind = "or" /\ q.terms = <<>>))
    <2>1. p = [q EXCEPT !.terms = b]
      BY <1>7 DEF ParseToken, b
    <2>2. p \in Parsed
      BY <1>3, <2>1 DEF Parsed
    <2>3. /\ p.terms = b /\ p.afterOr = q.afterOr
          /\ p.excludes = q.excludes /\ p.phrases = q.phrases
          /\ p.tag = q.tag /\ p.schema = q.schema /\ p.since = q.since /\ p.before = q.before
      BY <2>1 DEF Parsed
    <2> HIDE DEF p
    <2> QED
      BY <1>7, <2>2, <2>3 DEF b, p
  <1>8. CASE ~q.afterOr /\ x.kind = "exclude"
    <2> DEFINE w == q.excludes \cup {x.word}
    <2>1. p = [q EXCEPT !.excludes = w]
      BY <1>8 DEF ParseToken
    <2>2. w \in SUBSET TokenWords
      BY <1>1, <1>2
    <2> HIDE DEF w
    <2>3. p \in Parsed
      BY <2>1, <2>2 DEF Parsed
    <2>4. /\ p.terms = q.terms /\ p.afterOr = q.afterOr
          /\ p.excludes = w /\ p.phrases = q.phrases
          /\ p.tag = q.tag /\ p.schema = q.schema /\ p.since = q.since /\ p.before = q.before
      BY <2>1 DEF Parsed
    <2> HIDE DEF p
    <2> QED
      BY <1>8, <2>3, <2>4 DEF w, p
  <1>9. CASE ~q.afterOr /\ x.kind = "phrase"
    <2> DEFINE w == q.phrases \cup {x.word}
    <2>1. p = [q EXCEPT !.phrases = w]
      BY <1>9 DEF ParseToken
    <2>2. w \in SUBSET TokenWords
      BY <1>1, <1>2
    <2> HIDE DEF w
    <2>3. p \in Parsed
      BY <2>1, <2>2 DEF Parsed
    <2>4. /\ p.terms = q.terms /\ p.afterOr = q.afterOr
          /\ p.excludes = q.excludes /\ p.phrases = w
          /\ p.tag = q.tag /\ p.schema = q.schema /\ p.since = q.since /\ p.before = q.before
      BY <2>1 DEF Parsed
    <2> HIDE DEF p
    <2> QED
      BY <1>9, <2>3, <2>4 DEF w, p
  <1>10. CASE ~q.afterOr /\ x.kind = "tag"
    <2>1. p = [q EXCEPT !.tag = x.word]
      BY <1>10 DEF ParseToken
    <2>2. p \in Parsed
      BY <1>2, <1>3, <2>1 DEF Parsed
    <2>3. /\ p.terms = q.terms /\ p.afterOr = q.afterOr
          /\ p.excludes = q.excludes /\ p.phrases = q.phrases
          /\ p.tag = x.word /\ p.schema = q.schema /\ p.since = q.since /\ p.before = q.before
      BY <2>1 DEF Parsed
    <2> HIDE DEF p
    <2> QED
      BY <1>10, <2>2, <2>3 DEF p
  <1>11. CASE ~q.afterOr /\ x.kind = "since"
    <2>1. p = [q EXCEPT !.since = x.word]
      BY <1>11 DEF ParseToken
    <2>2. p \in Parsed
      BY <1>2, <1>3, <2>1 DEF Parsed
    <2>3. /\ p.terms = q.terms /\ p.afterOr = q.afterOr
          /\ p.excludes = q.excludes /\ p.phrases = q.phrases
          /\ p.tag = q.tag /\ p.schema = q.schema /\ p.since = x.word /\ p.before = q.before
      BY <2>1 DEF Parsed
    <2> HIDE DEF p
    <2> QED
      BY <1>11, <2>2, <2>3 DEF p
  <1>12. CASE ~q.afterOr /\ x.kind = "before"
    <2>1. p = [q EXCEPT !.before = x.word]
      BY <1>12 DEF ParseToken
    <2>2. p \in Parsed
      BY <1>2, <1>3, <2>1 DEF Parsed
    <2>3. /\ p.terms = q.terms /\ p.afterOr = q.afterOr
          /\ p.excludes = q.excludes /\ p.phrases = q.phrases
          /\ p.tag = q.tag /\ p.schema = q.schema /\ p.since = q.since /\ p.before = x.word
      BY <2>1 DEF Parsed
    <2> HIDE DEF p
    <2> QED
      BY <1>12, <2>2, <2>3 DEF p
  <1>13. CASE ~q.afterOr /\ x.kind = "limit"
    <2>1. p = [q EXCEPT !.limit = l]
      BY <1>13 DEF ParseToken, l
    <2>2. p \in Parsed
      BY <1>2, <1>3, <2>1 DEF Parsed
    <2>3. /\ p.terms = q.terms /\ p.afterOr = q.afterOr
          /\ p.excludes = q.excludes /\ p.phrases = q.phrases
          /\ p.tag = q.tag /\ p.schema = q.schema /\ p.since = q.since /\ p.before = q.before
      BY <2>1 DEF Parsed
    <2> HIDE DEF p
    <2> QED
      BY <1>13, <2>2, <2>3 DEF p
  <1>14. CASE ~q.afterOr /\ x.kind = "schema"
    <2>1. p = [q EXCEPT !.schema = x.word]
      BY <1>14 DEF ParseToken
    <2>2. p \in Parsed
      BY <1>2, <1>3, <2>1 DEF Parsed
    <2>3. /\ p.terms = q.terms /\ p.afterOr = q.afterOr
          /\ p.excludes = q.excludes /\ p.phrases = q.phrases
          /\ p.tag = q.tag /\ p.schema = x.word /\ p.since = q.since /\ p.before = q.before
      BY <2>1 DEF Parsed
    <2> HIDE DEF p
    <2> QED
      BY <1>14, <2>2, <2>3 DEF p
  <1> QED
    BY <1>1, <1>2, <1>5, <1>6, <1>7, <1>8, <1>9, <1>10, <1>11, <1>12, <1>13, <1>14 DEF Kinds

\* Parsing a query, token by token.
LEMMA ParseSteps ==
  ASSUME NEW s \in Seq(QueryTokens)
  PROVE  /\ ParseQuery(<<>>) = NoQuery
         /\ ParseQuery(s) \in Parsed
         /\ \A x \in QueryTokens : ParseQuery(Append(s, x)) = ParseToken(ParseQuery(s), x)
  <1> DEFINE T == Parsed
             X == QueryTokens
             b == NoQuery
             step == [a \in T |-> [x \in X |-> ParseToken(a, x)]]
  <1>1. b \in T /\ s \in Seq(X) /\ \A a \in T, x \in X : ParseToken(a, x) \in T
    <2>1. \A a \in Parsed, x \in QueryTokens : ParseToken(a, x) \in Parsed
      BY ParsedToken
    <2> HIDE DEF QueryTokens, Parsed
    <2> QED
      BY <2>1, NoQueryParsed
  <1>2. ParseQuery(<<>>) = b /\ ParseQuery(s) \in T
        /\ \A x \in X : ParseQuery(Append(s, x)) = ParseToken(ParseQuery(s), x)
    <2> HIDE DEF T, X
    <2>1. ASSUME NEW t \in Seq(X)
          PROVE  ParseQuery(t) = Run(step, b, t) /\ Loop(step, b, t, T, X)
      <3> DEFINE n == Len(t)
                 body(g) == [q \in SUBSET (1..n) |->
                                IF q = {} THEN b ELSE ParseToken(g[q \ {Max(q)}], t[Max(q)])]
                 f == CHOOSE g : g = body(g)
      <3>1. DOMAIN t = 1..n /\ n \in Nat /\ \A i \in 1..n : t[i] \in X
        OBVIOUS
      <3>2. ParseQuery(t) = f[1..n]
        BY <3>1 DEF ParseQuery, FoldLeft, MapThenFoldSet
      <3> HIDE DEF b
      <3>3. /\ \A a \in T, x \in X : step[a][x] = ParseToken(a, x)
            /\ step \in [T -> [X -> T]]
        BY <1>1
      <3> HIDE DEF step
      <3>4. Loop(step, b, t, T, X)
        BY <1>1, <3>3 DEF Loop
      <3>5. PICK g : IsFold(g, step, b, t, T)
        BY <3>4, FoldExists
      <3>6. g = body(g)
        <4>1. ASSUME NEW q \in SUBSET (1..n), q # {}
              PROVE  g[q] = ParseToken(g[q \ {Max(q)}], t[Max(q)])
          <5>1. Max(q) \in 1..n
            BY <3>1, <4>1, MaxIn
          <5>2. t[Max(q)] \in X /\ g[q \ {Max(q)}] \in T
            BY <3>1, <3>5, <5>1 DEF IsFold
          <5>3. g[q] = step[g[q \ {Max(q)}]][t[Max(q)]]
            BY <3>5, <4>1 DEF IsFold
          <5> QED
            BY <3>3, <5>2, <5>3
        <4> QED
          BY <3>5, <4>1 DEF IsFold
      <3>7. f = body(f)
        <4> HIDE DEF body
        <4> QED
          BY <3>6
      <3>8. f[{}] = b
        BY <3>7
      <3>9. ASSUME NEW i \in 1..n, f[1..(i - 1)] \in T
            PROVE  f[1..i] = step[f[1..(i - 1)]][t[i]]
        <4>1. /\ (1..i) \in SUBSET (1..n) /\ (1..i) # {}
              /\ (1..i) \ {i} = 1..(i - 1) /\ Max(1..i) = i
          BY <3>1, Prefix
        <4>2. f[1..i] = ParseToken(f[1..(i - 1)], t[i])
          <5> HIDE DEF f
          <5> QED
            BY <3>7, <4>1
        <4> QED
          BY <3>1, <3>3, <3>9, <4>2
      <3> HIDE DEF f, body
      <3> QED
        BY <3>2, <3>4, <3>8, <3>9, FoldIsRun
    <2>2. <<>> \in Seq(X) /\ \A x \in X : Append(s, x) \in Seq(X)
      BY <1>1
    <2>3. \A a \in T, x \in X : step[a][x] = ParseToken(a, x)
      BY <1>1
    <2> HIDE DEF b, step
    <2>4. ParseQuery(<<>>) = b
      BY <2>1, <2>2, RunEmpty
    <2>5. ParseQuery(s) \in T
      BY <1>1, <2>1, RunChosen
    <2>6. ASSUME NEW x \in X
          PROVE  ParseQuery(Append(s, x)) = ParseToken(ParseQuery(s), x)
      <3>1. Run(step, b, Append(s, x)) = step[Run(step, b, s)][x]
        <4>1. Loop(step, b, s, T, X)
          BY <1>1, <2>1
        <4> QED
          BY <4>1, RunAppend
      <3>2. ParseQuery(Append(s, x)) = Run(step, b, Append(s, x)) /\ ParseQuery(s) = Run(step, b, s)
        BY <1>1, <2>1, <2>2
      <3> QED
        BY <2>3, <2>5, <3>1, <3>2
    <2> QED
      BY <2>4, <2>5, <2>6
  <1> QED
    BY <1>2

\* A term starts a group or joins the last one.
LEMMA GroupedTerm ==
  ASSUME NEW groups \in Seq(SUBSET Terms), NEW x \in Terms
  PROVE  GroupTerm(groups, x) \in Seq(SUBSET Terms)
  <1> DEFINE S == SUBSET Terms
             n == Len(groups)
  <1> HIDE DEF Terms
  <1>1. CASE x.prefixes > 0 /\ groups # <<>>
    <2> DEFINE g == groups[n] \cup {x}
    <2>1. n \in 1..n
      BY <1>1, EmptySeq
    <2>2. g \in S
      BY <2>1
    <2>3. GroupTerm(groups, x) = [groups EXCEPT ![n] = g]
      BY <1>1 DEF GroupTerm
    <2> HIDE DEF S, g
    <2>4. groups \in Seq(S)
      BY DEF S
    <2>5. [groups EXCEPT ![n] = g] \in Seq(S)
      BY <2>1, <2>2, <2>4, ExceptSeq
    <2> QED
      BY <2>3, <2>5 DEF S
  <1>2. CASE ~(x.prefixes > 0 /\ groups # <<>>)
    <2>1. GroupTerm(groups, x) = Append(groups, {x})
      BY <1>2 DEF GroupTerm
    <2>2. {x} \in S
      OBVIOUS
    <2> QED
      BY <2>1, <2>2
  <1> QED
    BY <1>1, <1>2

\* Grouping terms, one by one.
LEMMA GroupSteps ==
  ASSUME NEW s \in Seq(Terms)
  PROVE  /\ Groups(<<>>) = <<>>
         /\ Groups(s) \in Seq(SUBSET Terms)
         /\ \A x \in Terms : Groups(Append(s, x)) = GroupTerm(Groups(s), x)
  <1> DEFINE T == Seq(SUBSET Terms)
             X == Terms
             b == <<>>
             step == [a \in T |-> [x \in X |-> GroupTerm(a, x)]]
  <1>1. b \in T /\ s \in Seq(X) /\ \A a \in T, x \in X : GroupTerm(a, x) \in T
    <2>1. \A a \in Seq(SUBSET Terms), x \in Terms : GroupTerm(a, x) \in Seq(SUBSET Terms)
      BY GroupedTerm
    <2> HIDE DEF Terms
    <2> QED
      BY <2>1, EmptySeq
  <1>2. Groups(<<>>) = b /\ Groups(s) \in T
        /\ \A x \in X : Groups(Append(s, x)) = GroupTerm(Groups(s), x)
    <2> HIDE DEF T, X
    <2>1. ASSUME NEW t \in Seq(X)
          PROVE  Groups(t) = Run(step, b, t) /\ Loop(step, b, t, T, X)
      <3> DEFINE n == Len(t)
                 body(g) == [q \in SUBSET (1..n) |->
                                IF q = {} THEN b ELSE GroupTerm(g[q \ {Max(q)}], t[Max(q)])]
                 f == CHOOSE g : g = body(g)
      <3>1. DOMAIN t = 1..n /\ n \in Nat /\ \A i \in 1..n : t[i] \in X
        OBVIOUS
      <3>2. Groups(t) = f[1..n]
        BY <3>1 DEF Groups, FoldLeft, MapThenFoldSet
      <3> HIDE DEF b
      <3>3. /\ \A a \in T, x \in X : step[a][x] = GroupTerm(a, x)
            /\ step \in [T -> [X -> T]]
        BY <1>1
      <3> HIDE DEF step
      <3>4. Loop(step, b, t, T, X)
        BY <1>1, <3>3 DEF Loop
      <3>5. PICK g : IsFold(g, step, b, t, T)
        BY <3>4, FoldExists
      <3>6. g = body(g)
        <4>1. ASSUME NEW q \in SUBSET (1..n), q # {}
              PROVE  g[q] = GroupTerm(g[q \ {Max(q)}], t[Max(q)])
          <5>1. Max(q) \in 1..n
            BY <3>1, <4>1, MaxIn
          <5>2. t[Max(q)] \in X /\ g[q \ {Max(q)}] \in T
            BY <3>1, <3>5, <5>1 DEF IsFold
          <5>3. g[q] = step[g[q \ {Max(q)}]][t[Max(q)]]
            BY <3>5, <4>1 DEF IsFold
          <5> QED
            BY <3>3, <5>2, <5>3
        <4> QED
          BY <3>5, <4>1 DEF IsFold
      <3>7. f = body(f)
        <4> HIDE DEF body
        <4> QED
          BY <3>6
      <3>8. f[{}] = b
        BY <3>7
      <3>9. ASSUME NEW i \in 1..n, f[1..(i - 1)] \in T
            PROVE  f[1..i] = step[f[1..(i - 1)]][t[i]]
        <4>1. /\ (1..i) \in SUBSET (1..n) /\ (1..i) # {}
              /\ (1..i) \ {i} = 1..(i - 1) /\ Max(1..i) = i
          BY <3>1, Prefix
        <4>2. f[1..i] = GroupTerm(f[1..(i - 1)], t[i])
          <5> HIDE DEF f
          <5> QED
            BY <3>7, <4>1
        <4> QED
          BY <3>1, <3>3, <3>9, <4>2
      <3> HIDE DEF f, body
      <3> QED
        BY <3>2, <3>4, <3>8, <3>9, FoldIsRun
    <2>2. <<>> \in Seq(X) /\ \A x \in X : Append(s, x) \in Seq(X)
      BY <1>1
    <2>3. \A a \in T, x \in X : step[a][x] = GroupTerm(a, x)
      BY <1>1
    <2> HIDE DEF b, step
    <2>4. Groups(<<>>) = b
      BY <2>1, <2>2, RunEmpty
    <2>5. Groups(s) \in T
      BY <1>1, <2>1, RunChosen
    <2>6. ASSUME NEW x \in X
          PROVE  Groups(Append(s, x)) = GroupTerm(Groups(s), x)
      <3>1. Run(step, b, Append(s, x)) = step[Run(step, b, s)][x]
        <4>1. Loop(step, b, s, T, X)
          BY <1>1, <2>1
        <4> QED
          BY <4>1, RunAppend
      <3>2. Groups(Append(s, x)) = Run(step, b, Append(s, x)) /\ Groups(s) = Run(step, b, s)
        BY <1>1, <2>1, <2>2
      <3> QED
        BY <2>3, <2>5, <3>1, <3>2
    <2> QED
      BY <2>4, <2>5, <2>6
  <1> QED
    BY <1>2
\* Every group of terms has one that a record holds.
AllHold(r, terms) == \A g \in ToSet(Groups(terms)) : \E t \in g : Holds(r, t)

LEMMA NoneHold ==
  ASSUME NEW r
  PROVE  AllHold(r, <<>>)
  <1> DEFINE e == <<>>
  <1>1. e \in Seq(Terms) /\ DOMAIN e = {}
    OBVIOUS
  <1>2. Groups(e) = e
    BY <1>1, GroupSteps
  <1>3. ToSet(e) = {}
    BY <1>1 DEF ToSet
  <1> QED
    BY <1>2, <1>3 DEF AllHold

\* The last group is a condition of its own.
LEMMA LastGroup ==
  ASSUME NEW r, NEW z \in Seq(Terms), NEW w \in Seq(Terms), NEW h \in SUBSET Terms,
         Groups(w) = Append(Groups(z), h)
  PROVE  AllHold(r, w) <=> AllHold(r, z) /\ \E t \in h : Holds(r, t)
  <1> DEFINE S == SUBSET Terms
             G == Groups(z)
             H == Append(G, h)
  <1>1. G \in Seq(S) /\ h \in S
    BY GroupSteps
  <1> HIDE DEF S, G
  <1>2. /\ Len(G) \in Nat /\ DOMAIN G = 1..Len(G) /\ DOMAIN H = 1..(Len(G) + 1)
        /\ H[Len(G) + 1] = h /\ \A i \in 1..Len(G) : H[i] = G[i]
    BY <1>1, AppendProperties
  <1> HIDE DEF H
  <1>3. ToSet(H) = ToSet(G) \cup {h}
    <2>1. ASSUME NEW g \in ToSet(H) PROVE g \in ToSet(G) \cup {h}
      <3>1. PICK i \in 1..(Len(G) + 1) : g = H[i]
        BY <1>2 DEF ToSet
      <3>2. i \in 1..Len(G) \/ i = Len(G) + 1
        BY <1>2
      <3> QED
        BY <1>2, <3>1, <3>2 DEF ToSet
    <2>2. ASSUME NEW g \in ToSet(G) PROVE g \in ToSet(H)
      <3>1. PICK i \in 1..Len(G) : g = G[i]
        BY <1>2 DEF ToSet
      <3>2. i \in 1..(Len(G) + 1)
        BY <1>2
      <3> QED
        BY <1>2, <3>1, <3>2 DEF ToSet
    <2>3. h \in ToSet(H)
      <3>1. Len(G) + 1 \in 1..(Len(G) + 1)
        BY <1>2
      <3> QED
        BY <1>2, <3>1 DEF ToSet
    <2> QED
      BY <2>1, <2>2, <2>3
  <1>4. AllHold(r, w) <=> \A g \in ToSet(H) : \E t \in g : Holds(r, t)
    BY DEF AllHold, G, H
  <1>5. AllHold(r, z) <=> \A g \in ToSet(G) : \E t \in g : Holds(r, t)
    BY DEF AllHold, G
  <1> QED
    BY Zenon, <1>3, <1>4, <1>5

\* A term of its own is a group of its own.
LEMMA PlainGroup ==
  ASSUME NEW z \in Seq(Terms), NEW u \in Terms, u.prefixes = 0
  PROVE  Groups(Append(z, u)) = Append(Groups(z), {u})
  <1> DEFINE G == Groups(z)
  <1>1. Groups(Append(z, u)) = GroupTerm(G, u)
    BY GroupSteps
  <1> HIDE DEF G
  <1>2. GroupTerm(G, u) = Append(G, {u})
    BY DEF GroupTerm
  <1> QED
    BY <1>1, <1>2 DEF G

LEMMA PlainHolds ==
  ASSUME NEW r, NEW z \in Seq(Terms), NEW u \in Terms, u.prefixes = 0
  PROVE  AllHold(r, Append(z, u)) <=> AllHold(r, z) /\ Holds(r, u)
  <1>1. Groups(Append(z, u)) = Append(Groups(z), {u})
    BY PlainGroup
  <1>2. Append(z, u) \in Seq(Terms) /\ {u} \in SUBSET Terms
    <2> HIDE DEF Terms
    <2> QED
      BY AppendProperties
  <1>3. AllHold(r, Append(z, u)) <=> AllHold(r, z) /\ \E t \in {u} : Holds(r, t)
    BY <1>1, <1>2, LastGroup
  <1> QED
    BY <1>3

\* A marked term joins the last group.
LEMMA MarkedGroup ==
  ASSUME NEW z \in Seq(Terms), NEW w \in Seq(Terms), NEW g \in SUBSET Terms,
         Groups(w) = Append(Groups(z), g), NEW u \in Terms, u.prefixes > 0
  PROVE  Groups(Append(w, u)) = Append(Groups(z), g \cup {u})
  <1> DEFINE S == SUBSET Terms
             G == Groups(z)
             H == Append(G, g)
             h == g \cup {u}
             n == Len(G) + 1
             E == [H EXCEPT ![n] = h]
             F == Append(G, h)
  <1>1. G \in Seq(S) /\ g \in S /\ h \in S
    BY GroupSteps
  <1> HIDE DEF S, h, G
  <1>2. /\ H \in Seq(S) /\ H # <<>> /\ Len(H) = n /\ H[n] = g /\ n \in 1..n
        /\ \A i \in 1..Len(G) : H[i] = G[i]
    BY <1>1, AppendProperties
  <1>3. /\ F \in Seq(S) /\ Len(F) = n /\ F[n] = h /\ \A i \in 1..Len(G) : F[i] = G[i]
    BY <1>1, AppendProperties
  <1>4. Groups(Append(w, u)) = E
    <2>1. Groups(Append(w, u)) = GroupTerm(H, u)
      BY GroupSteps DEF G
    <2> HIDE DEF H, n
    <2>2. GroupTerm(H, u) = [H EXCEPT ![n] = H[n] \cup {u}]
      BY <1>2 DEF GroupTerm
    <2> QED
      BY <1>2, <2>1, <2>2 DEF h
  <1> HIDE DEF H, F
  <1>5. E \in Seq(S) /\ Len(E) = n /\ \A i \in 1..n : E[i] = IF i = n THEN h ELSE H[i]
    BY <1>1, <1>2, ExceptSeq
  <1> HIDE DEF E
  <1>6. \A i \in 1..n : E[i] = F[i]
    <2>1. \A i \in 1..n : i = n \/ i \in 1..Len(G)
      BY <1>1
    <2> HIDE DEF n
    <2> QED
      BY <1>2, <1>3, <1>5, <2>1
  <1>7. E = F
    <2> HIDE DEF n
    <2> QED
      BY <1>3, <1>5, <1>6, SeqEqual
  <1> QED
    BY <1>4, <1>7 DEF F, h, G

\* Marking the last term.
LEMMA MarkLast ==
  ASSUME NEW z \in Seq(Terms), NEW x \in QueryTokens
  PROVE  LET w == Append(z, PlainTerm(x))
         IN  [w EXCEPT ![Len(w)].prefixes = @ + 1] = Append(z, Term(Lower(x), 1))
  <1> DEFINE u == PlainTerm(x)
             v == Term(Lower(x), 1)
             w == Append(z, u)
             a == Append(z, v)
             n == Len(z) + 1
             E == [w EXCEPT ![n] = v]
  <1>1. u \in Terms /\ v \in Terms /\ [u EXCEPT !.prefixes = @ + 1] = v
    <2>1. u \in Terms /\ v \in Terms
      BY TokenTerms
    <2>2. [Term(Lower(x), 0) EXCEPT !.prefixes = @ + 1] = Term(Lower(x), 1)
      BY DEF Term
    <2> QED
      BY <2>1, <2>2 DEF PlainTerm
  <1> HIDE DEF u, v, Terms
  <1>2. /\ w \in Seq(Terms) /\ Len(w) = n /\ w[n] = u /\ n \in 1..n
        /\ \A i \in 1..Len(z) : w[i] = z[i]
    BY <1>1, AppendProperties
  <1>3. /\ a \in Seq(Terms) /\ Len(a) = n /\ a[n] = v /\ \A i \in 1..Len(z) : a[i] = z[i]
    BY <1>1, AppendProperties
  <1> HIDE DEF w, a
  <1>4. [w EXCEPT ![Len(w)].prefixes = @ + 1] = E
    <2>1. [w EXCEPT ![n].prefixes = @ + 1] = [w EXCEPT ![n] = [w[n] EXCEPT !.prefixes = @ + 1]]
      OBVIOUS
    <2> HIDE DEF n
    <2> QED
      BY <1>1, <1>2, <2>1
  <1>5. E \in Seq(Terms) /\ Len(E) = n /\ \A i \in 1..n : E[i] = IF i = n THEN v ELSE w[i]
    BY <1>1, <1>2, ExceptSeq
  <1> HIDE DEF E
  <1>6. \A i \in 1..n : E[i] = a[i]
    <2>1. \A i \in 1..n : i = n \/ i \in 1..Len(z)
      OBVIOUS
    <2> HIDE DEF n
    <2> QED
      BY <1>2, <1>3, <1>5, <2>1
  <1>7. E = a
    <2> HIDE DEF n
    <2> QED
      BY <1>3, <1>5, <1>6, SeqEqual
  <1> QED
    BY <1>4, <1>7 DEF w, a, u, v

\* A token holds when its word is there; after OR, when it is found as typed.
LEMMA WordHolds ==
  ASSUME NEW x \in QueryTokens, NEW r
  PROVE  /\ x.kind \in {"term", "or"} => /\ Holds(r, PlainTerm(x)) <=> x.word \in r.words
                                         /\ Holds(r, Term(Lower(x), 1)) <=> x.word \in r.words
         /\ Holds(r, Term(x, 1)) <=> Found(r, x, TRUE)
  <1> DEFINE y == Lower(x)
  <1>1. y.kind = x.kind /\ y.word = x.word /\ ~y.upper
    BY TokenTerms
  <1> HIDE DEF y
  <1>2. x.kind \in {"term", "or"} => (Holds(r, Term(y, 0)) <=> y.word \in r.words)
    BY <1>1 DEF Holds, Term
  <1>3. x.kind \in {"term", "or"} => (Holds(r, Term(y, 1)) <=> y.word \in r.words)
    BY <1>1 DEF Holds, Term
  <1>4. Holds(r, Term(x, 1)) <=> Found(r, x, TRUE)
    BY DEF Holds, Term, Found
  <1> QED
    BY <1>1, <1>2, <1>3, <1>4 DEF PlainTerm, y

\* Where an OR joins, and what, the tokens before it decide.
Latest(t) ==
    {i \in 1..Len(t) :
        /\ t[i].kind = "term"
        /\ \A j, l \in (i + 1)..Len(t) : t[j].kind = "term" /\ t[l].kind = "term" => j = l}

LEMMA JoinsAppend ==
  ASSUME NEW t \in Seq(QueryTokens), NEW x \in QueryTokens
  PROVE  LET s == Append(t, x)
             n == Len(t)
         IN  /\ n \in Nat /\ s \in Seq(QueryTokens) /\ Len(s) = n + 1 /\ s[n + 1] = x
             /\ \A i \in 1..n : s[i] = t[i] /\ t[i] \in QueryTokens
             /\ \A i \in 1..n : (Joins(s, i) <=> Joins(t, i)) /\ LastTwo(s, i) = LastTwo(t, i)
             /\ Joins(s, n + 1) <=> x.kind = "or" /\ \E i \in 1..n : t[i].kind = "term"
             /\ LastTwo(s, n + 1) = Latest(t)
  <1> DEFINE s == Append(t, x)
             n == Len(t)
  <1>1. /\ n \in Nat /\ s \in Seq(QueryTokens) /\ Len(s) = n + 1 /\ s[n + 1] = x
        /\ \A i \in 1..n : s[i] = t[i] /\ t[i] \in QueryTokens
    <2> HIDE DEF QueryTokens
    <2> QED
      BY AppendProperties
  <1> HIDE DEF s, n
  <1>2. (n + 1) - 1 = n
    BY <1>1
  <1>3. ASSUME NEW i \in 1..n PROVE Joins(s, i) <=> Joins(t, i)
    <2>1. \A j \in 1..(i - 1) : j \in 1..n
      BY <1>1
    <2> QED
      BY <1>1, <2>1 DEF Joins
  <1>4. ASSUME NEW i \in 1..n PROVE LastTwo(s, i) = LastTwo(t, i)
    <2>1. \A k \in 1..(i - 1) : k \in 1..n /\ \A j \in (k + 1)..(i - 1) : j \in 1..n
      BY <1>1
    <2>2. \A k \in 1..(i - 1) : s[k] = t[k] /\ \A j \in (k + 1)..(i - 1) : s[j] = t[j]
      BY <1>1, <2>1
    <2> QED
      BY <2>2 DEF LastTwo
  <1>5. Joins(s, n + 1) <=> x.kind = "or" /\ \E i \in 1..n : t[i].kind = "term"
    BY <1>1, <1>2 DEF Joins
  <1>6. LastTwo(s, n + 1) = Latest(t)
    <2>1. \A k \in 1..n : \A j \in (k + 1)..n : j \in 1..n
      BY <1>1
    <2>2. \A k \in 1..n : s[k] = t[k] /\ \A j \in (k + 1)..n : s[j] = t[j]
      BY <1>1, <2>1
    <2> DEFINE C(a, i) == /\ a[i].kind = "term"
                          /\ \A j, l \in (i + 1)..n : a[j].kind = "term" /\ a[l].kind = "term" => j = l
    <2>3. LastTwo(s, n + 1) = {i \in 1..n : C(s, i)}
      BY <1>2 DEF LastTwo
    <2>4. Latest(t) = {i \in 1..n : C(t, i)}
      BY DEF Latest, n
    <2>5. ASSUME NEW i \in 1..n PROVE C(s, i) <=> C(t, i)
      <3>1. s[i] = t[i] /\ \A j \in (i + 1)..n : s[j] = t[j]
        BY <2>2
      <3> QED
        BY <3>1
    <2> HIDE DEF C
    <2> QED
      BY <2>3, <2>4, <2>5
  <1> QED
    BY <1>1, <1>3, <1>4, <1>5, <1>6 DEF s, n

\* The token after an OR that joins is no filter.
AfterOr(tokens, i) == i - 1 \in 1..Len(tokens) /\ Joins(tokens, i - 1)

\* The words of the tokens of a kind that are not after OR.
Words(tokens, kind) ==
    {tokens[i].word : i \in {j \in 1..Len(tokens) : tokens[j].kind = kind /\ ~AfterOr(tokens, j)}}

LEMMA WordsAppend ==
  ASSUME NEW t \in Seq(QueryTokens), NEW x \in QueryTokens, NEW kind
  PROVE  Words(Append(t, x), kind) =
           IF x.kind = kind /\ ~(t # <<>> /\ Joins(t, Len(t))) THEN Words(t, kind) \cup {x.word} ELSE Words(t, kind)
  <1> DEFINE s == Append(t, x)
             n == Len(t)
             after == t # <<>> /\ Joins(t, Len(t))
  <1>1. /\ n \in Nat /\ Len(s) = n + 1 /\ s[n + 1] = x
        /\ \A i \in 1..n : s[i] = t[i] /\ (Joins(s, i) <=> Joins(t, i))
    BY JoinsAppend
  <1>2. t # <<>> <=> n \in 1..n
    <2>1. t # <<>> <=> n # 0
      BY EmptySeq
    <2> HIDE DEF n
    <2> QED
      BY <1>1, <2>1
  <1>3. after <=> n \in 1..n /\ Joins(t, n)
    BY <1>2
  <1> HIDE DEF s, n, after
  <1>4. AfterOr(s, n + 1) <=> after
    <2>1. (n + 1) - 1 = n /\ (n \in 1..(n + 1) <=> n \in 1..n)
      BY <1>1
    <2>2. AfterOr(s, n + 1) <=> n \in 1..(n + 1) /\ Joins(s, n)
      BY <1>1, <2>1 DEF AfterOr
    <2> QED
      BY <1>1, <1>3, <2>1, <2>2
  <1>5. ASSUME NEW i \in 1..n PROVE AfterOr(s, i) <=> AfterOr(t, i)
    <2>1. (i - 1 \in 1..(n + 1)) <=> (i - 1 \in 1..n)
      BY <1>1
    <2>2. AfterOr(s, i) <=> i - 1 \in 1..(n + 1) /\ Joins(s, i - 1)
      BY <1>1 DEF AfterOr
    <2>3. AfterOr(t, i) <=> i - 1 \in 1..n /\ Joins(t, i - 1)
      BY DEF AfterOr, n
    <2> QED
      BY <1>1, <2>1, <2>2, <2>3
  <1>6. ASSUME NEW w \in Words(s, kind) PROVE w \in Words(t, kind) \/ (x.kind = kind /\ ~after /\ w = x.word)
    <2>1. PICK i \in 1..(n + 1) : s[i].kind = kind /\ ~AfterOr(s, i) /\ w = s[i].word
      BY <1>1 DEF Words
    <2>2. i \in 1..n \/ i = n + 1
      BY <1>1
    <2> QED
      BY <1>1, <1>4, <1>5, <2>1, <2>2 DEF Words, n
  <1>7. ASSUME NEW w \in Words(t, kind) PROVE w \in Words(s, kind)
    <2>1. PICK i \in 1..n : t[i].kind = kind /\ ~AfterOr(t, i) /\ w = t[i].word
      BY DEF Words, n
    <2>2. i \in 1..(n + 1)
      BY <1>1
    <2> QED
      BY <1>1, <1>5, <2>1, <2>2 DEF Words
  <1>8. x.kind = kind /\ ~after => x.word \in Words(s, kind)
    <2>1. n + 1 \in 1..(n + 1)
      BY <1>1
    <2> QED
      BY <1>1, <1>4, <2>1 DEF Words
  <1>9. Words(s, kind) = IF x.kind = kind /\ ~after THEN Words(t, kind) \cup {x.word} ELSE Words(t, kind)
    BY <1>6, <1>7, <1>8
  <1> QED
    BY <1>9 DEF s, after

\* What Clear says, also of the first tokens of a query.
Single(tokens, kind) ==
    \A i, j \in 1..Len(tokens) : tokens[i].kind = kind /\ tokens[j].kind = kind => i = j

SingleKinds == {"or", "tag", "schema", "since", "before"}
Singles(tokens) == \A kind \in SingleKinds : Single(tokens, kind)

LEMMA ClearIsSingle ==
  ASSUME NEW t \in Seq(QueryTokens), Clear(t)
  PROVE  Singles(t)
  <1> HIDE DEF QueryTokens
  <1>1. Len(t) \in Nat /\ DOMAIN t = 1..Len(t)
    OBVIOUS
  <1>2. ASSUME NEW kind \in SingleKinds PROVE Single(t, kind)
    <2> SUFFICES ASSUME NEW i \in 1..Len(t), NEW j \in 1..Len(t), t[i].kind = kind, t[j].kind = kind, i # j
                 PROVE  FALSE
      BY DEF Single
    <2> DEFINE K == {k \in 1..Len(t) : t[k].kind = kind}
    <2>1. Cardinality(K) <= 1
      BY <1>1 DEF Clear, SingleKinds
    <2>2. i \in K /\ j \in K
      OBVIOUS
    <2>3. IsFiniteSet(K)
      <3>1. IsFiniteSet(1..Len(t)) /\ K \subseteq 1..Len(t)
        BY <1>1, FS_Interval
      <3> QED
        BY <3>1, FS_Subset
    <2> HIDE DEF K
    <2>4. Cardinality({i, j}) <= Cardinality(K)
      <3>1. {i, j} \subseteq K
        BY <2>2
      <3> QED
        BY <2>3, <3>1, FS_Subset
    <2>5. Cardinality({i, j}) = 2
      <3>1. IsFiniteSet({i}) /\ Cardinality({i}) = 1 /\ j \notin {i} /\ {i} \cup {j} = {i, j}
        BY FS_Singleton
      <3>2. Cardinality({i} \cup {j}) = Cardinality({i}) + 1
        BY <3>1, FS_AddElement
      <3>3. Cardinality({i, j}) = Cardinality({i}) + 1
        BY <3>1, <3>2, Zenon
      <3> QED
        BY <3>1, <3>3
    <2>6. Cardinality(K) \in Nat
      BY <2>3, FS_CardinalityType
    <2> QED
      BY <2>1, <2>4, <2>5, <2>6
  <1> QED
    BY <1>2 DEF Singles

LEMMA SingleAppend ==
  ASSUME NEW t \in Seq(QueryTokens), NEW x \in QueryTokens, Singles(Append(t, x))
  PROVE  /\ Singles(t)
         /\ x.kind \in SingleKinds => \A i \in 1..Len(t) : t[i].kind # x.kind
         /\ x.kind \in SingleKinds => Words(t, x.kind) = {}
  <1> DEFINE s == Append(t, x)
             n == Len(t)
  <1>1. n \in Nat /\ Len(s) = n + 1 /\ s[n + 1] = x /\ \A i \in 1..n : s[i] = t[i]
    BY JoinsAppend
  <1> HIDE DEF s, n
  <1>2. n + 1 \in 1..(n + 1) /\ \A i \in 1..n : i \in 1..(n + 1) /\ i # n + 1
    BY <1>1
  <1>3. ASSUME NEW kind \in SingleKinds PROVE \A i, j \in 1..(n + 1) : s[i].kind = kind /\ s[j].kind = kind => i = j
    BY <1>1 DEF Singles, Single, s
  <1>4. Singles(t)
    BY <1>1, <1>2, <1>3 DEF Singles, Single, n
  <1>5. x.kind \in SingleKinds => \A i \in 1..n : t[i].kind # x.kind
    BY <1>1, <1>2, <1>3
  <1>6. x.kind \in SingleKinds => Words(t, x.kind) = {}
    BY <1>5 DEF Words, n
  <1> QED
    BY <1>4, <1>5, <1>6 DEF n

-----------------------------------------------------------------------------
\* The tokens that are terms while no OR joins any.
TermsOf(t) == {i \in 1..Len(t) : t[i].kind \in {"term", "or"}}

\* So far the terms of a query are plain; its last two can be told apart.
Begun(terms, t) ==
    \/ terms = <<>> /\ TermsOf(t) = {}
    \/ \E i \in TermsOf(t) : terms = Append(<<>>, PlainTerm(t[i])) /\ TermsOf(t) = {i}
    \/ \E z \in Seq(Terms), i, j \in TermsOf(t) :
         /\ i < j /\ terms = Append(Append(z, PlainTerm(t[i])), PlainTerm(t[j]))
         /\ \A k \in TermsOf(t) : k < i \/ k = i \/ k = j
         /\ \A r \in Records : AllHold(r, z) <=> \A k \in TermsOf(t) : k < i => t[k].word \in r.words

\* What is left of it when an OR joins the last two terms.
Others(t, m) == {k \in 1..Len(t) : t[k].kind = "term" /\ k \notin LastTwo(t, m) /\ k # m + 1}

Halfway(terms, t, m) ==
    \E z \in Seq(Terms), g \in SUBSET Terms :
       /\ Groups(terms) = Append(Groups(z), g)
       /\ \A r \in Records : /\ AllHold(r, z) <=> \A k \in Others(t, m) : t[k].word \in r.words
                             /\ (\E y \in g : Holds(r, y)) <=> \E k \in LastTwo(t, m) : t[k].word \in r.words

\* What an OR at m makes of the terms.
JoinedMean(r, t, m) ==
    /\ \/ \E k \in LastTwo(t, m) : t[k].word \in r.words
       \/ m < Len(t) /\ Found(r, t[m + 1], TRUE)
    /\ \A k \in Others(t, m) : t[k].word \in r.words

TermsRead(q, t) ==
    \/ ~q.afterOr /\ (\A m \in 1..Len(t) : ~Joins(t, m)) /\ Begun(q.terms, t)
    \/ \E m \in 1..Len(t) :
         /\ Joins(t, m)
         /\ q.afterOr <=> m = Len(t)
         /\ q.afterOr => Halfway(q.terms, t, m)
         /\ \A r \in Records : AllHold(r, q.terms) <=> JoinedMean(r, t, m)

LEMMA TermsOfAppend ==
  ASSUME NEW t \in Seq(QueryTokens), NEW x \in QueryTokens
  PROVE  TermsOf(Append(t, x)) = IF x.kind \in {"term", "or"} THEN TermsOf(t) \cup {Len(t) + 1} ELSE TermsOf(t)
  <1> DEFINE s == Append(t, x)
             n == Len(t)
  <1>1. n \in Nat /\ Len(s) = n + 1 /\ s[n + 1] = x /\ \A i \in 1..n : s[i] = t[i]
    BY JoinsAppend
  <1> HIDE DEF s, n
  <1>2. \A i : i \in 1..(n + 1) <=> i \in 1..n \/ i = n + 1
    BY <1>1
  <1> QED
    BY <1>1, <1>2 DEF TermsOf, s, n

\* A plain term is added.
LEMMA BegunTerm ==
  ASSUME NEW t \in Seq(QueryTokens), NEW x \in QueryTokens, x.kind \in {"term", "or"},
         NEW terms, Begun(terms, t)
  PROVE  Begun(Append(terms, PlainTerm(x)), Append(t, x))
  <1> DEFINE s == Append(t, x)
             n == Len(t)
             T == TermsOf(t)
             U == TermsOf(s)
             u == PlainTerm(x)
  <1>1. /\ n \in Nat /\ Len(s) = n + 1 /\ s[n + 1] = x
        /\ \A i \in 1..n : s[i] = t[i] /\ t[i] \in QueryTokens
    BY JoinsAppend
  <1>2. U = T \cup {n + 1} /\ n + 1 \in U
    BY TermsOfAppend
  <1>3. T \subseteq 1..n /\ \A i \in T : t[i] \in QueryTokens /\ s[i] = t[i] /\ i \in Nat /\ i < n + 1 /\ i \in U
    BY <1>1, <1>2 DEF TermsOf
  <1> HIDE DEF s, n, T, U
  <1>4. CASE terms = <<>> /\ T = {}
    <2>1. Append(terms, u) = Append(<<>>, PlainTerm(s[n + 1])) /\ U = {n + 1}
      BY <1>1, <1>2, <1>4
    <2> QED
      BY <1>2, <2>1 DEF Begun, s, U
  <1>5. ASSUME NEW i \in T, terms = Append(<<>>, PlainTerm(t[i])), T = {i}
        PROVE  Begun(Append(terms, u), s)
    <2> DEFINE e == <<>>
    <2>1. e \in Seq(Terms)
      OBVIOUS
    <2>2. Append(terms, u) = Append(Append(e, PlainTerm(s[i])), PlainTerm(s[n + 1]))
      BY <1>1, <1>3, <1>5
    <2>3. i \in U /\ n + 1 \in U /\ i < n + 1
      BY <1>2, <1>3
    <2>4. \A k \in U : k < i \/ k = i \/ k = n + 1
      BY <1>2, <1>5
    <2>5. \A r \in Records : AllHold(r, e)
      BY NoneHold
    <2>6. \A k \in U : ~(k < i)
      BY <1>1, <1>2, <1>3, <1>5
    <2> HIDE DEF e, u
    <2>7. \A r \in Records : AllHold(r, e) <=> \A k \in U : k < i => s[k].word \in r.words
      BY <2>5, <2>6
    <2> QED
      BY <2>1, <2>2, <2>3, <2>4, <2>7 DEF Begun, U
  <1>6. ASSUME NEW z \in Seq(Terms), NEW i \in T, NEW j \in T, i < j,
               terms = Append(Append(z, PlainTerm(t[i])), PlainTerm(t[j])),
               \A k \in T : k < i \/ k = i \/ k = j,
               \A r \in Records : AllHold(r, z) <=> \A k \in T : k < i => t[k].word \in r.words
        PROVE  Begun(Append(terms, u), s)
    <2> DEFINE v == PlainTerm(t[i])
               y == Append(z, v)
    <2>1. v \in Terms /\ v.prefixes = 0 /\ t[i] \in QueryTokens /\ t[i].kind \in {"term", "or"}
      <3>1. t[i] \in QueryTokens /\ t[i].kind \in {"term", "or"}
        BY <1>3 DEF TermsOf, T
      <3> QED
        BY <3>1, TokenTerms DEF PlainTerm, Term
    <2>2. y \in Seq(Terms)
      <3> HIDE DEF Terms, v
      <3> QED
        BY <2>1, AppendProperties
    <2>3. Append(terms, u) = Append(Append(y, PlainTerm(s[j])), PlainTerm(s[n + 1]))
      BY <1>1, <1>3, <1>6
    <2>4. j \in U /\ n + 1 \in U /\ j < n + 1 /\ \A k \in U : k < j \/ k = j \/ k = n + 1
      BY <1>2, <1>3, <1>6
    <2>5. ASSUME NEW r \in Records
          PROVE  AllHold(r, y) <=> \A k \in U : k < j => s[k].word \in r.words
      <3>1. AllHold(r, y) <=> AllHold(r, z) /\ Holds(r, v)
        BY <2>1, PlainHolds
      <3>2. Holds(r, v) <=> t[i].word \in r.words
        BY <2>1, WordHolds
      <3>3. \A k \in U : k < j <=> k \in T /\ (k < i \/ k = i)
        BY <1>1, <1>2, <1>3, <1>6
      <3>4. \A k \in T : s[k] = t[k] /\ k \in U
        BY <1>3
      <3> HIDE DEF v, y
      <3> QED
        BY <1>6, <3>1, <3>2, <3>3, <3>4
    <2> HIDE DEF y, u
    <2> QED
      BY <2>2, <2>3, <2>4, <2>5 DEF Begun, U
  <1>7. Begun(Append(terms, u), s)
    BY <1>4, <1>5, <1>6 DEF Begun, T, s
  <1> QED
    BY <1>7 DEF s

\* Another token is added.
LEMMA BegunOther ==
  ASSUME NEW t \in Seq(QueryTokens), NEW x \in QueryTokens, x.kind \notin {"term", "or"},
         NEW terms, Begun(terms, t)
  PROVE  Begun(terms, Append(t, x))
  <1> DEFINE s == Append(t, x)
             T == TermsOf(t)
  <1>1. TermsOf(s) = T /\ \A i \in T : s[i] = t[i]
    BY JoinsAppend, TermsOfAppend DEF TermsOf
  <1> HIDE DEF s, T
  <1>2. Begun(terms, s)
    BY <1>1 DEF Begun, T
  <1> QED
    BY <1>2 DEF s

\* While no OR joins any, the terms ask for all their words.
LEMMA BegunHolds ==
  ASSUME NEW t \in Seq(QueryTokens), NEW terms, Begun(terms, t), NEW r \in Records
  PROVE  AllHold(r, terms) <=> \A k \in TermsOf(t) : t[k].word \in r.words
  <1> DEFINE T == TermsOf(t)
             e == <<>>
  <1>1. \A i \in T : t[i] \in QueryTokens /\ t[i].kind \in {"term", "or"} /\ i \in Nat
    <2> HIDE DEF QueryTokens
    <2> QED
      BY DEF TermsOf
  <1>2. \A i \in T : /\ PlainTerm(t[i]) \in Terms /\ PlainTerm(t[i]).prefixes = 0
                     /\ Holds(r, PlainTerm(t[i])) <=> t[i].word \in r.words
    BY <1>1, TokenTerms, WordHolds DEF PlainTerm, Term
  <1>3. e \in Seq(Terms) /\ e = <<>> /\ AllHold(r, e)
    BY NoneHold
  <1> HIDE DEF T, e
  <1>4. CASE terms = <<>> /\ T = {}
    <2>1. AllHold(r, terms)
      BY <1>3, <1>4, Zenon
    <2> QED
      BY <1>4, <2>1 DEF T
  <1>5. ASSUME NEW i \in T, terms = Append(<<>>, PlainTerm(t[i])), T = {i}
        PROVE  AllHold(r, terms) <=> \A k \in T : t[k].word \in r.words
    <2>1. AllHold(r, Append(e, PlainTerm(t[i]))) <=> AllHold(r, e) /\ Holds(r, PlainTerm(t[i]))
      BY <1>2, <1>3, PlainHolds
    <2> QED
      BY <1>2, <1>3, <1>5, <2>1
  <1>6. ASSUME NEW z \in Seq(Terms), NEW i \in T, NEW j \in T, i < j,
               terms = Append(Append(z, PlainTerm(t[i])), PlainTerm(t[j])),
               \A k \in T : k < i \/ k = i \/ k = j,
               AllHold(r, z) <=> \A k \in T : k < i => t[k].word \in r.words
        PROVE  AllHold(r, terms) <=> \A k \in T : t[k].word \in r.words
    <2> DEFINE u == PlainTerm(t[i])
               v == PlainTerm(t[j])
               y == Append(z, u)
    <2>1. u \in Terms /\ v \in Terms /\ u.prefixes = 0 /\ v.prefixes = 0
      BY <1>2
    <2>2. y \in Seq(Terms)
      <3> HIDE DEF Terms, u
      <3> QED
        BY <2>1, AppendProperties
    <2>3. AllHold(r, y) <=> AllHold(r, z) /\ Holds(r, u)
      BY <2>1, PlainHolds
    <2> HIDE DEF y
    <2>4. AllHold(r, Append(y, v)) <=> AllHold(r, y) /\ Holds(r, v)
      BY <2>1, <2>2, PlainHolds
    <2>5. (Holds(r, u) <=> t[i].word \in r.words) /\ (Holds(r, v) <=> t[j].word \in r.words)
      BY <1>2
    <2>6. terms = Append(y, v)
      BY <1>6 DEF y
    <2> HIDE DEF u, v
    <2> QED
      BY <1>1, <1>6, <2>3, <2>4, <2>5, <2>6
  <1> QED
    BY <1>4, <1>5, <1>6 DEF Begun, T

\* OR joins the last term, and the one before it if there is one.
LEMMA BegunJoined ==
  ASSUME NEW t \in Seq(QueryTokens), NEW x \in QueryTokens, x.kind = "or", NEW terms, Begun(terms, t),
         \A i \in 1..Len(t) : t[i].kind # "or", \E i \in 1..Len(t) : t[i].kind = "term"
  PROVE  /\ terms # <<>>
         /\ Halfway([terms EXCEPT ![Len(terms)].prefixes = @ + 1], Append(t, x), Len(t) + 1)
  <1> DEFINE s == Append(t, x)
             n == Len(t)
             T == TermsOf(t)
             L == LastTwo(s, n + 1)
             O == Others(s, n + 1)
             w == [terms EXCEPT ![Len(terms)].prefixes = @ + 1]
             e == <<>>
  <1>1. /\ n \in Nat /\ Len(s) = n + 1 /\ s[n + 1] = x
        /\ \A i \in 1..n : s[i] = t[i] /\ t[i] \in QueryTokens
        /\ L = Latest(t)
    BY JoinsAppend
  <1>2. T = {i \in 1..n : t[i].kind = "term"} /\ T # {} /\ \A i \in T : i \in 1..n /\ s[i] = t[i]
    BY <1>1 DEF TermsOf
  <1>3. L = {i \in T : \A j, l \in T : i < j /\ i < l => j = l}
    <2>1. \A i \in 1..n : \A j : j \in (i + 1)..n <=> j \in 1..n /\ i < j
      BY <1>1
    <2>2. \A i \in 1..n : (\A j, l \in (i + 1)..n : t[j].kind = "term" /\ t[l].kind = "term" => j = l)
                          <=> \A j, l \in T : i < j /\ i < l => j = l
      BY <1>2, <2>1
    <2>3. Latest(t) = {i \in 1..n : /\ t[i].kind = "term"
                                    /\ \A j, l \in (i + 1)..n :
                                          t[j].kind = "term" /\ t[l].kind = "term" => j = l}
      BY DEF Latest
    <2> HIDE DEF n, T, L
    <2>4. \A i : i \in L <=> i \in T /\ \A j, l \in T : i < j /\ i < l => j = l
      BY <1>1, <1>2, <2>2, <2>3
    <2> QED
      BY <2>4
  <1> HIDE DEF s, n, T, L
  <1>4. \A i \in T : /\ t[i] \in QueryTokens
                     /\ PlainTerm(t[i]) \in Terms /\ PlainTerm(t[i]).prefixes = 0
                     /\ Term(Lower(t[i]), 1) \in Terms /\ Term(Lower(t[i]), 1).prefixes > 0
                     /\ \A r \in Records : /\ Holds(r, PlainTerm(t[i])) <=> t[i].word \in r.words
                                           /\ Holds(r, Term(Lower(t[i]), 1)) <=> t[i].word \in r.words
    <2> SUFFICES ASSUME NEW i \in T
                 PROVE  /\ t[i] \in QueryTokens
                        /\ PlainTerm(t[i]) \in Terms /\ PlainTerm(t[i]).prefixes = 0
                        /\ Term(Lower(t[i]), 1) \in Terms /\ Term(Lower(t[i]), 1).prefixes > 0
                        /\ \A r \in Records : /\ Holds(r, PlainTerm(t[i])) <=> t[i].word \in r.words
                                              /\ Holds(r, Term(Lower(t[i]), 1)) <=> t[i].word \in r.words
      OBVIOUS
    <2>1. t[i] \in QueryTokens /\ t[i].kind \in {"term", "or"}
      BY <1>1, <1>2
    <2>2. PlainTerm(t[i]) \in Terms /\ Term(Lower(t[i]), 1) \in Terms
      BY <2>1, TokenTerms
    <2>3. PlainTerm(t[i]).prefixes = 0 /\ Term(Lower(t[i]), 1).prefixes > 0
      BY DEF PlainTerm, Term
    <2> QED
      BY <2>1, <2>2, <2>3, WordHolds
  <1>5. O = T \ L
    <2>1. \A k : k \in 1..(n + 1) /\ k # (n + 1) + 1 /\ s[k].kind = "term" /\ k \notin L <=> k \in T \ L
      <3>1. \A k : k \in 1..(n + 1) <=> k \in 1..n \/ k = n + 1
        BY <1>1
      <3>2. \A k \in 1..(n + 1) : k # (n + 1) + 1
        BY <1>1
      <3>3. s[n + 1].kind # "term"
        BY <1>1
      <3> QED
        BY <1>1, <1>2, <3>1, <3>2, <3>3
    <2> QED
      BY <1>1, <2>1 DEF Others, L
  <1> HIDE DEF O
  <1>6. e \in Seq(Terms) /\ e = <<>> /\ (\A r \in Records : AllHold(r, e)) /\ Groups(e) = e
    <2>1. e \in Seq(Terms) /\ e = <<>>
      OBVIOUS
    <2>2. Groups(e) = e
      BY <2>1, GroupSteps
    <2>3. \A r \in Records : AllHold(r, e)
      BY NoneHold
    <2> QED
      BY <2>1, <2>2, <2>3
  <1> HIDE DEF e
  <1>7. ASSUME NEW i \in T, terms = Append(<<>>, PlainTerm(t[i])), T = {i}
        PROVE  terms # <<>> /\ Halfway(w, s, n + 1)
    <2> DEFINE u == Term(Lower(t[i]), 1)
    <2>1. terms # <<>>
      BY <1>7
    <2>2. w = Append(e, u)
      BY <1>4, <1>6, <1>7, MarkLast
    <2>3. Groups(Append(e, u)) = Append(e, {u})
      <3>1. Groups(Append(e, u)) = GroupTerm(e, u)
        BY <1>4, <1>6, GroupSteps
      <3> HIDE DEF u
      <3> QED
        BY <1>6, <3>1 DEF GroupTerm
    <2>4. L = {i} /\ O = {}
      BY <1>3, <1>5, <1>7
    <2>5. {u} \in SUBSET Terms /\ \A r \in Records : (\E y \in {u} : Holds(r, y)) <=> s[i].word \in r.words
      BY <1>2, <1>4
    <2> HIDE DEF u, w
    <2>6. \A r \in Records : /\ AllHold(r, e) <=> \A k \in O : s[k].word \in r.words
                             /\ (\E y \in {u} : Holds(r, y)) <=> \E k \in L : s[k].word \in r.words
      BY <1>6, <2>4, <2>5
    <2>7. Groups(w) = Append(Groups(e), {u})
      BY <1>6, <2>2, <2>3
    <2> QED
      BY <1>6, <2>1, <2>5, <2>6, <2>7 DEF Halfway, O, L
  <1>8. ASSUME NEW z \in Seq(Terms), NEW i \in T, NEW j \in T, i < j,
               terms = Append(Append(z, PlainTerm(t[i])), PlainTerm(t[j])),
               \A k \in T : k < i \/ k = i \/ k = j,
               \A r \in Records : AllHold(r, z) <=> \A k \in T : k < i => t[k].word \in r.words
        PROVE  terms # <<>> /\ Halfway(w, s, n + 1)
    <2> DEFINE u == PlainTerm(t[i])
               v == Term(Lower(t[j]), 1)
               y == Append(z, u)
               g == {u} \cup {v}
    <2>1. u \in Terms /\ v \in Terms /\ u.prefixes = 0 /\ v.prefixes > 0 /\ {u} \in SUBSET Terms
      BY <1>4
    <2>2. y \in Seq(Terms)
      <3> HIDE DEF Terms, u
      <3> QED
        BY <2>1, AppendProperties
    <2>3. Groups(y) = Append(Groups(z), {u})
      BY <2>1, PlainGroup
    <2> HIDE DEF y
    <2>4. terms = Append(y, PlainTerm(t[j]))
      BY <1>8 DEF y
    <2>5. terms # <<>>
      BY <2>2, <2>4
    <2>6. w = Append(y, v)
      BY <1>4, <2>2, <2>4, MarkLast
    <2>7. Groups(Append(y, v)) = Append(Groups(z), g)
      <3> DEFINE a == {u}
      <3>1. a \in SUBSET Terms /\ Groups(y) = Append(Groups(z), a) /\ y \in Seq(Terms)
        BY <2>1, <2>2, <2>3
      <3> HIDE DEF u, v, a
      <3>2. Groups(Append(y, v)) = Append(Groups(z), a \cup {v})
        BY <2>1, <3>1, MarkedGroup
      <3> QED
        BY <3>2 DEF a
    <2>8. L = {i, j} /\ \A k : k \in O <=> k \in T /\ k < i
      <3>1. i \in Int /\ j \in Int /\ (\A k \in T : k \in Int) /\ i # j /\ ~(j < i)
        BY <1>1, <1>2, <1>8
      <3>2. i \in L
        <4>1. \A k \in T : i < k => k = j
          BY <1>8, <3>1
        <4> QED
          BY <1>3, <4>1
      <3>3. j \in L
        <4>1. \A k \in T : ~(j < k)
          BY <1>8, <3>1
        <4> QED
          BY <1>3, <4>1
      <3>4. \A k \in L : k = i \/ k = j
        <4> SUFFICES ASSUME NEW k \in L, k < i PROVE FALSE
          BY <1>3, <1>8
        <4>1. k \in T /\ k < j
          BY <1>3, <1>8, <3>1
        <4> QED
          BY <1>3, <3>1, <4>1
      <3>5. L = {i, j}
        BY <3>2, <3>3, <3>4
      <3>6. \A k \in T : k < i <=> k # i /\ k # j
        BY <1>8, <3>1
      <3> QED
        BY <1>5, <3>5, <3>6
    <2>9. ASSUME NEW r \in Records
          PROVE  /\ AllHold(r, z) <=> \A k \in O : s[k].word \in r.words
                 /\ (\E b \in g : Holds(r, b)) <=> \E k \in L : s[k].word \in r.words
      <3>1. (Holds(r, u) <=> s[i].word \in r.words) /\ (Holds(r, v) <=> s[j].word \in r.words)
        BY <1>2, <1>4
      <3>2. \A k \in T : s[k] = t[k]
        BY <1>2
      <3> HIDE DEF u, v
      <3>3. (\E b \in g : Holds(r, b)) <=> Holds(r, u) \/ Holds(r, v)
        OBVIOUS
      <3>4. AllHold(r, z) <=> \A k \in O : s[k].word \in r.words
        BY <1>8, <2>8, <3>2
      <3> QED
        BY <2>8, <3>1, <3>3, <3>4
    <2>10. g \in SUBSET Terms
      BY <2>1
    <2> HIDE DEF g, v, w
    <2>11. Groups(w) = Append(Groups(z), g)
      BY <2>6, <2>7
    <2> QED
      BY <2>5, <2>9, <2>10, <2>11 DEF Halfway, O, L
  <1>9. terms # <<>> /\ Halfway(w, s, n + 1)
    BY <1>2, <1>7, <1>8 DEF Begun, T
  <1> QED
    BY <1>9 DEF s, n

\* What a further token makes of an OR that joins.
LEMMA JoinedAppend ==
  ASSUME NEW t \in Seq(QueryTokens), NEW x \in QueryTokens, NEW m \in 1..Len(t), NEW r
  PROVE  /\ m < Len(t) => (JoinedMean(r, Append(t, x), m) <=>
                             JoinedMean(r, t, m) /\ (x.kind = "term" => x.word \in r.words))
         /\ m = Len(t) => (JoinedMean(r, Append(t, x), m) <=>
                             /\ (\E k \in LastTwo(t, m) : t[k].word \in r.words) \/ Found(r, x, TRUE)
                             /\ \A k \in Others(t, m) : t[k].word \in r.words)
  <1> DEFINE s == Append(t, x)
             n == Len(t)
  <1>1. /\ n \in Nat /\ Len(s) = n + 1 /\ s[n + 1] = x /\ \A i \in 1..n : s[i] = t[i]
        /\ LastTwo(s, m) = LastTwo(t, m)
    BY JoinsAppend
  <1>2. LastTwo(t, m) \subseteq 1..n /\ n + 1 \notin LastTwo(t, m)
    BY <1>1 DEF LastTwo
  <1> HIDE DEF s, n
  <1>3. \A i : i \in 1..(n + 1) <=> i \in 1..n \/ i = n + 1
    BY <1>1
  <1>4. m \in 1..n
    BY DEF n
  <1>5. (\E k \in LastTwo(s, m) : s[k].word \in r.words) <=> \E k \in LastTwo(t, m) : t[k].word \in r.words
    BY <1>1, <1>2
  <1>6. \A k : k \in Others(s, m) <=> k \in Others(t, m) \/ (k = n + 1 /\ x.kind = "term" /\ n # m)
    <2>1. n + 1 = m + 1 <=> n = m
      BY <1>1, <1>4
    <2>2. \A k : k \in Others(s, m) <=> k \in 1..(n + 1) /\ s[k].kind = "term" /\ k \notin LastTwo(t, m) /\ k # m + 1
      BY <1>1 DEF Others
    <2>3. \A k : k \in Others(t, m) <=> k \in 1..n /\ t[k].kind = "term" /\ k \notin LastTwo(t, m) /\ k # m + 1
      BY DEF Others, n
    <2> QED
      BY <1>1, <1>2, <1>3, <2>1, <2>2, <2>3
  <1>7. \A k \in Others(t, m) : s[k] = t[k]
    BY <1>1 DEF Others, n
  <1>8. (\A k \in Others(s, m) : s[k].word \in r.words) <=>
          /\ \A k \in Others(t, m) : t[k].word \in r.words
          /\ x.kind = "term" /\ n # m => x.word \in r.words
    BY <1>1, <1>6, <1>7
  <1>9. CASE m < n
    <2>1. m + 1 \in 1..n /\ m < n + 1 /\ n # m
      BY <1>1, <1>4, <1>9
    <2>2. s[m + 1] = t[m + 1]
      BY <1>1, <2>1
    <2>3. JoinedMean(r, s, m) <=> JoinedMean(r, t, m) /\ (x.kind = "term" => x.word \in r.words)
      BY <1>1, <1>5, <1>8, <1>9, <2>1, <2>2 DEF JoinedMean, n
    <2> QED
      BY <1>9, <2>1, <2>3 DEF s, n
  <1>10. CASE m = n
    <2>1. m < n + 1 /\ m + 1 = n + 1 /\ ~(m < n)
      BY <1>1, <1>10
    <2>2. JoinedMean(r, s, m) <=>
            /\ (\E k \in LastTwo(t, m) : t[k].word \in r.words) \/ Found(r, x, TRUE)
            /\ \A k \in Others(t, m) : t[k].word \in r.words
      BY <1>1, <1>5, <1>8, <1>10, <2>1 DEF JoinedMean
    <2> QED
      BY <1>10, <2>1, <2>2 DEF s, n
  <1>11. m < n \/ m = n
    BY <1>1, <1>4
  <1> QED
    BY <1>9, <1>10, <1>11

-----------------------------------------------------------------------------
\* A filter is the one word, or none.
One(filter, none, words) == (words = {} /\ filter = none) \/ words = {filter}

\* The parser has read the tokens.
HasRead(q, tokens) ==
    /\ q.excludes = Words(tokens, "exclude") /\ q.phrases = Words(tokens, "phrase")
    /\ One(q.tag, "none", Words(tokens, "tag"))
    /\ One(q.schema, "none", Words(tokens, "schema"))
    /\ One(q.since, NoDate, Words(tokens, "since"))
    /\ One(q.before, NoDate, Words(tokens, "before"))

\* The parser stands after an OR exactly when that joins.
LEMMA AfterRead ==
  ASSUME NEW t \in Seq(QueryTokens), Singles(t), NEW q, TermsRead(q, t)
  PROVE  q.afterOr <=> t # <<>> /\ Joins(t, Len(t))
  <1> DEFINE n == Len(t)
  <1>1. n \in Nat /\ (t # <<>> <=> n \in 1..n)
    <2>1. n \in Nat /\ (t # <<>> <=> n # 0)
      <3> HIDE DEF QueryTokens
      <3> QED
        BY EmptySeq
    <2> HIDE DEF n
    <2> QED
      BY <2>1
  <1> HIDE DEF n
  <1>2. CASE ~q.afterOr /\ \A m \in 1..n : ~Joins(t, m)
    BY <1>1, <1>2 DEF n
  <1>3. ASSUME NEW m \in 1..n, Joins(t, m), q.afterOr <=> m = n
        PROVE  q.afterOr <=> t # <<>> /\ Joins(t, n)
    <2>1. n \in 1..n
      BY <1>1
    <2>2. Joins(t, n) => n = m
      BY <1>3, <2>1 DEF Joins, Singles, Single, SingleKinds, n
    <2> QED
      BY <1>1, <1>3, <2>1, <2>2
  <1> QED
    BY <1>2, <1>3 DEF TermsRead, n

\* A token is read.
LEMMA ReadToken ==
  ASSUME NEW t \in Seq(QueryTokens), NEW x \in QueryTokens, Singles(Append(t, x)),
         NEW q \in Parsed, HasRead(q, t), TermsRead(q, t)
  PROVE  HasRead(ParseToken(q, x), Append(t, x))
  <1> DEFINE p == ParseToken(q, x)
             s == Append(t, x)
  <1>1. /\ \A kind : Words(s, kind) = IF x.kind = kind /\ ~q.afterOr
                                      THEN Words(t, kind) \cup {x.word} ELSE Words(t, kind)
        /\ x.kind \in {"tag", "schema", "since", "before"} => Words(t, x.kind) = {}
    <2>1. Singles(t) /\ (x.kind \in SingleKinds => Words(t, x.kind) = {})
      BY SingleAppend
    <2>2. q.afterOr <=> t # <<>> /\ Joins(t, Len(t))
      BY <2>1, AfterRead
    <2>3. \A kind : Words(s, kind) = IF x.kind = kind /\ ~(t # <<>> /\ Joins(t, Len(t)))
                                     THEN Words(t, kind) \cup {x.word} ELSE Words(t, kind)
      BY WordsAppend
    <2> HIDE DEF s
    <2> QED
      BY <2>1, <2>2, <2>3 DEF SingleKinds
  <1>2. ASSUME q.afterOr \/ x.kind \in {"or", "term"}
        PROVE  /\ p.excludes = q.excludes /\ p.phrases = q.phrases
               /\ p.tag = q.tag /\ p.schema = q.schema /\ p.since = q.since /\ p.before = q.before
    <2> DEFINE Same == /\ p.excludes = q.excludes /\ p.phrases = q.phrases
                       /\ p.tag = q.tag /\ p.schema = q.schema /\ p.since = q.since /\ p.before = q.before
    <2>1. /\ q.afterOr => Same
          /\ ~q.afterOr /\ x.kind = "or" /\ q.terms # <<>> => Same
          /\ ~q.afterOr /\ (x.kind = "term" \/ (x.kind = "or" /\ q.terms = <<>>)) => Same
      BY ParsedToken
    <2>2. q.afterOr \/ x.kind = "or" \/ x.kind = "term"
      BY <1>2
    <2>3. Same
      <3> HIDE DEF Same
      <3> QED
        BY <2>1, <2>2
    <2> QED
      BY <2>3
  <1>3. ASSUME ~q.afterOr, x.kind \notin {"or", "term"}
        PROVE  /\ p.excludes = IF x.kind = "exclude" THEN q.excludes \cup {x.word} ELSE q.excludes
               /\ p.phrases = IF x.kind = "phrase" THEN q.phrases \cup {x.word} ELSE q.phrases
               /\ p.tag = IF x.kind = "tag" THEN x.word ELSE q.tag
               /\ p.schema = IF x.kind = "schema" THEN x.word ELSE q.schema
               /\ p.since = IF x.kind = "since" THEN x.word ELSE q.since
               /\ p.before = IF x.kind = "before" THEN x.word ELSE q.before
    BY <1>3, ParsedToken
  <1> HIDE DEF p, s
  <1>4. p.excludes = Words(s, "exclude") /\ p.phrases = Words(s, "phrase")
    BY <1>1, <1>2, <1>3 DEF HasRead
  <1>5. One(p.tag, "none", Words(s, "tag"))
    BY <1>1, <1>2, <1>3 DEF HasRead, One
  <1>6. One(p.schema, "none", Words(s, "schema"))
    BY <1>1, <1>2, <1>3 DEF HasRead, One
  <1>7. One(p.since, NoDate, Words(s, "since"))
    BY <1>1, <1>2, <1>3 DEF HasRead, One
  <1>8. One(p.before, NoDate, Words(s, "before"))
    BY <1>1, <1>2, <1>3 DEF HasRead, One
  <1> QED
    BY <1>4, <1>5, <1>6, <1>7, <1>8 DEF HasRead, p, s

\* The terms are read.
LEMMA ReadTerms ==
  ASSUME NEW t \in Seq(QueryTokens), NEW x \in QueryTokens, Singles(Append(t, x)),
         NEW q \in Parsed, TermsRead(q, t)
  PROVE  TermsRead(ParseToken(q, x), Append(t, x))
  <1> DEFINE p == ParseToken(q, x)
             s == Append(t, x)
             n == Len(t)
  <1>1. /\ n \in Nat /\ Len(s) = n + 1 /\ s[n + 1] = x
        /\ \A i \in 1..n : s[i] = t[i] /\ (Joins(s, i) <=> Joins(t, i)) /\ LastTwo(s, i) = LastTwo(t, i)
        /\ Joins(s, n + 1) <=> x.kind = "or" /\ \E i \in 1..n : t[i].kind = "term"
    BY JoinsAppend
  <1>2. x.kind = "or" => \A i \in 1..n : t[i].kind # "or"
    BY SingleAppend DEF SingleKinds
  <1>3. \A i : i \in 1..(n + 1) <=> i \in 1..n \/ i = n + 1
    BY <1>1
  <1>4. q.terms \in Seq(Terms) /\ q.afterOr \in BOOLEAN
    BY DEF Parsed
  <1>5. ASSUME ~q.afterOr, \A m \in 1..n : ~Joins(t, m), Begun(q.terms, t)
        PROVE  TermsRead(p, s)
    <2>1. ASSUME x.kind \in {"term", "or"}, ~Joins(s, n + 1) PROVE TermsRead(p, s)
      <3>1. x.kind = "or" => q.terms = <<>>
        <4> SUFFICES ASSUME x.kind = "or" PROVE q.terms = <<>>
          OBVIOUS
        <4>1. TermsOf(t) = {}
          BY <1>1, <1>2, <2>1 DEF TermsOf
        <4> QED
          BY <1>5, <4>1 DEF Begun
      <3>2. p.terms = Append(q.terms, PlainTerm(x)) /\ ~p.afterOr
        BY <1>5, <2>1, <3>1, ParsedToken
      <3>3. Begun(p.terms, s)
        BY <1>5, <2>1, <3>2, BegunTerm
      <3>4. \A m \in 1..Len(s) : ~Joins(s, m)
        BY <1>1, <1>3, <1>5, <2>1
      <3> HIDE DEF p, s
      <3> QED
        BY <3>2, <3>3, <3>4 DEF TermsRead
    <2>2. ASSUME x.kind \notin {"term", "or"} PROVE TermsRead(p, s)
      <3>1. p.terms = q.terms /\ ~p.afterOr
        BY <1>5, <2>2, ParsedToken
      <3>2. Begun(p.terms, s)
        BY <1>5, <2>2, <3>1, BegunOther
      <3>3. \A m \in 1..Len(s) : ~Joins(s, m)
        BY <1>1, <1>3, <1>5, <2>2
      <3> HIDE DEF p, s
      <3> QED
        BY <3>1, <3>2, <3>3 DEF TermsRead
    <2>3. ASSUME Joins(s, n + 1) PROVE TermsRead(p, s)
      <3> DEFINE m == n + 1
                 w == [q.terms EXCEPT ![Len(q.terms)].prefixes = @ + 1]
      <3>1. x.kind = "or" /\ (\A i \in 1..n : t[i].kind # "or") /\ \E i \in 1..n : t[i].kind = "term"
        BY <1>1, <1>2, <2>3
      <3>2. q.terms # <<>> /\ Halfway(w, s, m)
        BY <1>5, <3>1, BegunJoined
      <3>3. p.terms = w /\ p.afterOr
        BY <1>5, <3>1, <3>2, ParsedToken
      <3>4. p \in Parsed
        BY ParsedToken
      <3> HIDE DEF p, s, w, m
      <3>5. m = Len(s) /\ m \in 1..Len(s)
        BY <1>1 DEF m
      <3>6. ASSUME NEW r \in Records PROVE AllHold(r, w) <=> JoinedMean(r, s, m)
        <4>1. PICK z \in Seq(Terms), g \in SUBSET Terms :
                 /\ Groups(w) = Append(Groups(z), g)
                 /\ AllHold(r, z) <=> \A k \in Others(s, m) : s[k].word \in r.words
                 /\ (\E y \in g : Holds(r, y)) <=> \E k \in LastTwo(s, m) : s[k].word \in r.words
          BY <3>2 DEF Halfway
        <4>2. w \in Seq(Terms)
          <5>1. p.terms \in Seq(Terms)
            BY <3>4 DEF Parsed
          <5> QED
            BY <3>3, <5>1
        <4>3. AllHold(r, w) <=> AllHold(r, z) /\ \E y \in g : Holds(r, y)
          BY <4>1, <4>2, LastGroup
        <4>4. ~(m < Len(s))
          BY <1>1, <3>5
        <4> QED
          BY <4>1, <4>3, <4>4 DEF JoinedMean
      <3>7. Joins(s, m)
        BY <2>3 DEF m
      <3> QED
        BY <3>2, <3>3, <3>5, <3>6, <3>7 DEF TermsRead
    <2> QED
      BY <1>1, <2>1, <2>2, <2>3
  <1>6. ASSUME NEW m \in 1..n, Joins(t, m), q.afterOr <=> m = n, q.afterOr => Halfway(q.terms, t, m),
               \A r \in Records : AllHold(r, q.terms) <=> JoinedMean(r, t, m)
        PROVE  TermsRead(p, s)
    <2>1. x.kind # "or" /\ Joins(s, m) /\ m \in 1..Len(s) /\ m # Len(s)
      <3>1. t[m].kind = "or"
        BY <1>6 DEF Joins
      <3> QED
        BY <1>1, <1>2, <1>3, <1>6, <3>1
    <2>2. CASE q.afterOr
      <3> DEFINE u == Term(x, 1)
      <3>1. p.terms = Append(q.terms, u) /\ ~p.afterOr
        BY <2>2, ParsedToken
      <3>2. m = n
        BY <1>6, <2>2
      <3>3. u \in Terms /\ u.prefixes > 0
        <4>1. u \in Terms
          BY TokenTerms
        <4>2. u.prefixes = 1
          BY DEF Term
        <4> QED
          BY <4>1, <4>2
      <3>4. ASSUME NEW r \in Records PROVE AllHold(r, p.terms) <=> JoinedMean(r, s, m)
        <4>1. PICK z \in Seq(Terms), g \in SUBSET Terms :
                 /\ Groups(q.terms) = Append(Groups(z), g)
                 /\ AllHold(r, z) <=> \A k \in Others(t, m) : t[k].word \in r.words
                 /\ (\E y \in g : Holds(r, y)) <=> \E k \in LastTwo(t, m) : t[k].word \in r.words
          BY <1>6, <2>2 DEF Halfway
        <4> DEFINE a == Append(q.terms, u)
                   h == g \cup {u}
        <4>2. Groups(a) = Append(Groups(z), h)
          <5> HIDE DEF u
          <5> QED
            BY <1>4, <3>3, <4>1, MarkedGroup
        <4>3. a \in Seq(Terms) /\ h \in SUBSET Terms
          <5>1. h \in SUBSET Terms
            BY <3>3
          <5> HIDE DEF Terms, u, h
          <5> QED
            BY <1>4, <3>3, <5>1, AppendProperties
        <4> HIDE DEF a, h
        <4>4. AllHold(r, a) <=> AllHold(r, z) /\ \E y \in h : Holds(r, y)
          BY <4>2, <4>3, LastGroup
        <4>5. Holds(r, u) <=> Found(r, x, TRUE)
          BY WordHolds
        <4> HIDE DEF u
        <4>6. (\E y \in h : Holds(r, y)) <=> (\E y \in g : Holds(r, y)) \/ Found(r, x, TRUE)
          BY <4>5 DEF h
        <4>7. JoinedMean(r, s, m) <=>
                /\ (\E k \in LastTwo(t, m) : t[k].word \in r.words) \/ Found(r, x, TRUE)
                /\ \A k \in Others(t, m) : t[k].word \in r.words
          BY <3>2, JoinedAppend
        <4>8. p.terms = a
          BY <3>1 DEF a
        <4> HIDE DEF p, s
        <4> QED
          BY <4>1, <4>4, <4>6, <4>7, <4>8
      <3> HIDE DEF p, s
      <3> QED
        BY <2>1, <3>1, <3>4 DEF TermsRead
    <2>3. CASE ~q.afterOr
      <3>1. m < n
        BY <1>1, <1>6, <2>3
      <3>2. CASE x.kind = "term"
        <4> DEFINE u == PlainTerm(x)
        <4>1. p.terms = Append(q.terms, u) /\ ~p.afterOr
          BY <2>3, <3>2, ParsedToken
        <4>2. u \in Terms /\ u.prefixes = 0
          BY TokenTerms DEF PlainTerm, Term
        <4>3. ASSUME NEW r \in Records PROVE AllHold(r, p.terms) <=> JoinedMean(r, s, m)
          <5>1. AllHold(r, Append(q.terms, u)) <=> AllHold(r, q.terms) /\ Holds(r, u)
            BY <1>4, <4>2, PlainHolds
          <5>2. Holds(r, u) <=> x.word \in r.words
            BY <3>2, WordHolds
          <5>3. JoinedMean(r, s, m) <=> JoinedMean(r, t, m) /\ x.word \in r.words
            BY <3>1, <3>2, JoinedAppend
          <5> HIDE DEF p, s, u
          <5> QED
            BY <1>6, <4>1, <5>1, <5>2, <5>3
        <4> HIDE DEF p, s
        <4> QED
          BY <2>1, <4>1, <4>3 DEF TermsRead
      <3>3. CASE x.kind # "term"
        <4>1. p.terms = q.terms /\ ~p.afterOr
          BY <2>1, <2>3, <3>3, ParsedToken
        <4>2. ASSUME NEW r \in Records PROVE AllHold(r, p.terms) <=> JoinedMean(r, s, m)
          <5>1. JoinedMean(r, s, m) <=> JoinedMean(r, t, m)
            BY <3>1, <3>3, JoinedAppend
          <5> HIDE DEF p, s
          <5> QED
            BY <1>6, <4>1, <5>1
        <4> HIDE DEF p, s
        <4> QED
          BY <2>1, <4>1, <4>2 DEF TermsRead
      <3> QED
        BY <3>2, <3>3
    <2> QED
      BY <1>4, <2>2, <2>3
  <1>7. TermsRead(p, s)
    <2> HIDE DEF p, s
    <2> QED
      BY <1>5, <1>6 DEF TermsRead
  <1> QED
    BY <1>7

\* The parser reads all tokens.
LEMMA ReadQuery ==
  ASSUME NEW tokens \in Seq(QueryTokens), Singles(tokens)
  PROVE  HasRead(ParseQuery(tokens), tokens) /\ TermsRead(ParseQuery(tokens), tokens)
  <1> DEFINE J(t) == HasRead(ParseQuery(t), t) /\ TermsRead(ParseQuery(t), t)
             P == {t \in Seq(QueryTokens) : Singles(t) => J(t)}
  <1>1. <<>> \in P
    <2> DEFINE e == <<>>
    <2>1. e \in Seq(QueryTokens) /\ Len(e) = 0 /\ e = <<>>
      OBVIOUS
    <2>2. ParseQuery(e) = NoQuery
      BY <2>1, ParseSteps
    <2>3. /\ NoQuery.terms = <<>> /\ NoQuery.excludes = {} /\ NoQuery.phrases = {}
          /\ NoQuery.tag = "none" /\ NoQuery.schema = "none"
          /\ NoQuery.since = NoDate /\ NoQuery.before = NoDate
          /\ NoQuery.afterOr = FALSE
      BY DEF NoQuery
    <2> HIDE DEF e
    <2>4. \A kind : Words(e, kind) = {}
      BY <2>1 DEF Words
    <2>5. HasRead(NoQuery, e)
      BY <2>3, <2>4 DEF HasRead, One
    <2>6. TermsRead(NoQuery, e)
      BY <2>1, <2>3 DEF TermsRead, Begun, TermsOf
    <2> QED
      BY <2>1, <2>2, <2>5, <2>6
  <1>2. ASSUME NEW t \in P, NEW x \in QueryTokens PROVE Append(t, x) \in P
    <2> HIDE DEF QueryTokens
    <2>1. t \in Seq(QueryTokens) /\ Append(t, x) \in Seq(QueryTokens)
      BY AppendProperties
    <2>2. ASSUME Singles(Append(t, x)) PROVE J(Append(t, x))
      <3> DEFINE q == ParseQuery(t)
      <3>1. q \in Parsed /\ ParseQuery(Append(t, x)) = ParseToken(q, x)
        BY <2>1, ParseSteps
      <3>2. HasRead(q, t) /\ TermsRead(q, t)
        BY <2>1, <2>2, SingleAppend
      <3> HIDE DEF q
      <3>3. HasRead(ParseToken(q, x), Append(t, x))
        BY <2>1, <2>2, <3>1, <3>2, ReadToken
      <3>4. TermsRead(ParseToken(q, x), Append(t, x))
        BY <2>1, <2>2, <3>1, <3>2, ReadTerms
      <3> QED
        BY <3>1, <3>3, <3>4
    <2> QED
      BY <2>1, <2>2
  <1>3. P = Seq(QueryTokens)
    <2> HIDE DEF P
    <2>1. P \in SUBSET Seq(QueryTokens)
      BY DEF P
    <2> QED
      BY <1>1, <1>2, <2>1, SeqInduction
  <1> QED
    BY <1>3

\* What the terms of a query ask for.
OutOf(t, k) == \E o \in 1..Len(t) : Joins(t, o) /\ k \in Joined(t, o)

TermAsks(r, t, k) ==
    IF Joins(t, k)
    THEN \E i \in Joined(t, k) : Found(r, t[i], i = k + 1)
    ELSE OutOf(t, k) \/ t[k].word \in r.words

LEMMA TermsMeant ==
  ASSUME NEW t \in Seq(QueryTokens), Singles(t), NEW q, TermsRead(q, t), NEW r \in Records
  PROVE  AllHold(r, q.terms) <=> \A k \in TermsOf(t) : TermAsks(r, t, k)
  <1> DEFINE n == Len(t)
             T == TermsOf(t)
  <1>1. n \in Nat /\ DOMAIN t = 1..n
    <2> HIDE DEF QueryTokens
    <2> QED
      OBVIOUS
  <1>2. T = {k \in 1..n : t[k].kind \in {"term", "or"}}
    BY DEF TermsOf
  <1>3. \A k, l \in 1..n : t[k].kind = "or" /\ t[l].kind = "or" => k = l
    BY DEF Singles, Single, SingleKinds
  <1> HIDE DEF n, T
  <1>4. ASSUME \A m \in 1..n : ~Joins(t, m), Begun(q.terms, t)
        PROVE  AllHold(r, q.terms) <=> \A k \in T : TermAsks(r, t, k)
    <2>1. \A k \in T : ~Joins(t, k) /\ ~OutOf(t, k)
      BY <1>2, <1>4 DEF OutOf, n
    <2>2. \A k \in T : TermAsks(r, t, k) <=> t[k].word \in r.words
      BY <2>1 DEF TermAsks
    <2>3. AllHold(r, q.terms) <=> \A k \in T : t[k].word \in r.words
      BY <1>4, BegunHolds DEF T
    <2> QED
      BY <2>2, <2>3
  <1>5. ASSUME NEW m \in 1..n, Joins(t, m), AllHold(r, q.terms) <=> JoinedMean(r, t, m)
        PROVE  AllHold(r, q.terms) <=> \A k \in T : TermAsks(r, t, k)
    <2> DEFINE L == LastTwo(t, m)
    <2>1. t[m].kind = "or" /\ m \in T
      BY <1>2, <1>5 DEF Joins
    <2>2. \A k \in 1..n : Joins(t, k) <=> k = m
      BY <1>3, <1>5, <2>1 DEF Joins
    <2>3. \A k \in T : k = m \/ t[k].kind = "term"
      BY <1>2, <1>3, <2>1
    <2>4. L \subseteq T /\ \A k \in L : k \in 1..n /\ k < m /\ k # m + 1 /\ k # m /\ t[k].kind = "term"
      BY <1>1, <1>2 DEF LastTwo
    <2>5. m + 1 \in 1..n <=> m < n
      BY <1>1
    <2> HIDE DEF L
    <2>6. Joined(t, m) = L \cup ({m + 1} \cap 1..n)
      BY <1>1 DEF Joined, L
    <2>7. \A k \in T : OutOf(t, k) <=> k \in L \/ k = m + 1
      <3>1. \A k \in T : OutOf(t, k) <=> k \in Joined(t, m)
        BY <1>5, <2>2 DEF OutOf, n
      <3> QED
        BY <1>2, <2>6, <3>1
    <2>8. TermAsks(r, t, m) <=> (\E k \in L : t[k].word \in r.words) \/ (m < n /\ Found(r, t[m + 1], TRUE))
      <3>1. \A k \in L : Found(r, t[k], k = m + 1) <=> t[k].word \in r.words
        BY <2>4 DEF Found
      <3>2. Found(r, t[m + 1], m + 1 = m + 1) <=> Found(r, t[m + 1], TRUE)
        BY DEF Found
      <3>3. TermAsks(r, t, m) <=> \E k \in Joined(t, m) : Found(r, t[k], k = m + 1)
        BY <1>5 DEF TermAsks
      <3>4. (\E k \in Joined(t, m) : Found(r, t[k], k = m + 1)) <=>
              (\E k \in L : Found(r, t[k], k = m + 1)) \/ (m < n /\ Found(r, t[m + 1], m + 1 = m + 1))
        BY <2>5, <2>6
      <3> QED
        BY <3>1, <3>2, <3>3, <3>4
    <2>9. \A k \in T : k # m => (TermAsks(r, t, k) <=> k \in L \/ k = m + 1 \/ t[k].word \in r.words)
      BY <1>2, <2>2, <2>7 DEF TermAsks
    <2>10. \A k : k \in Others(t, m) <=> k \in T /\ k # m /\ k \notin L /\ k # m + 1
      BY <1>2, <2>1, <2>3 DEF Others, L, n
    <2>11. JoinedMean(r, t, m) <=>
             /\ (\E k \in L : t[k].word \in r.words) \/ (m < n /\ Found(r, t[m + 1], TRUE))
             /\ \A k \in T : k # m => k \in L \/ k = m + 1 \/ t[k].word \in r.words
      BY <2>10 DEF JoinedMean, L, n
    <2> QED
      BY <1>5, <2>1, <2>8, <2>9, <2>11
  <1> QED
    BY <1>4, <1>5 DEF TermsRead, n, T

\* A record is found when it satisfies every token.
LEMMA QueryResult ==
  ASSUME NEW t \in Seq(QueryTokens), Clear(t), NEW r \in Records
  PROVE  MatchesQuery(r, ParseQuery(t)) <=> Satisfies(r, t)
  <1> DEFINE q == ParseQuery(t)
             n == Len(t)
  <1>1. HasRead(q, t) /\ TermsRead(q, t) /\ Singles(t)
    BY ClearIsSingle, ReadQuery
  <1> HIDE DEF q
  <1>2. n \in Nat /\ DOMAIN t = 1..n /\ \A i \in 1..n : t[i] \in QueryTokens
    <2> HIDE DEF QueryTokens
    <2> QED
      OBVIOUS
  <1>3. \A i \in 1..n : t[i].kind \in Kinds /\ (t[i].kind \in {"tag", "schema"} => t[i].word # "none")
    BY <1>2, QueryAssumption
  <1> DEFINE Free(i, kind) == t[i].kind = kind /\ ~AfterOr(t, i)
  <1>4. AllHold(r, q.terms) <=> \A i \in 1..n : t[i].kind \in {"term", "or"} => TermAsks(r, t, i)
    <2>1. AllHold(r, q.terms) <=> \A i \in TermsOf(t) : TermAsks(r, t, i)
      BY <1>1, TermsMeant
    <2> QED
      BY <2>1 DEF TermsOf
  <1>5. \A kind : Words(t, kind) = {t[i].word : i \in {j \in 1..n : Free(j, kind)}}
    BY DEF Words
  <1> HIDE DEF Free
  <1>6. r.words \cap q.excludes = {} <=> \A i \in 1..n : Free(i, "exclude") => t[i].word \notin r.words
    BY <1>1, <1>5 DEF HasRead
  <1>7. q.phrases \subseteq r.words <=> \A i \in 1..n : Free(i, "phrase") => t[i].word \in r.words
    BY <1>1, <1>5 DEF HasRead
  <1>8. (q.tag = "none" \/ q.tag \in r.tags) <=> \A i \in 1..n : Free(i, "tag") => t[i].word \in r.tags
    <2>1. \A w \in Words(t, "tag") : w # "none"
      BY <1>3, <1>5 DEF Free
    <2>2. (q.tag = "none" \/ q.tag \in r.tags) <=> Words(t, "tag") \subseteq r.tags
      BY <1>1, <2>1 DEF HasRead, One
    <2>3. Words(t, "tag") \subseteq r.tags <=> \A i \in 1..n : Free(i, "tag") => t[i].word \in r.tags
      BY <1>5
    <2> QED
      BY <2>2, <2>3
  <1>9. (q.schema = "none" \/ q.schema \in r.schemas) <=>
          \A i \in 1..n : Free(i, "schema") => t[i].word \in r.schemas
    <2>1. \A w \in Words(t, "schema") : w # "none"
      BY <1>3, <1>5 DEF Free
    <2>2. (q.schema = "none" \/ q.schema \in r.schemas) <=> Words(t, "schema") \subseteq r.schemas
      BY <1>1, <2>1 DEF HasRead, One
    <2>3. Words(t, "schema") \subseteq r.schemas <=> \A i \in 1..n : Free(i, "schema") => t[i].word \in r.schemas
      BY <1>5
    <2> QED
      BY <2>2, <2>3
  <1> DEFINE since(w) == w = NoDate \/ r.created >= w
             before(w) == w = NoDate \/ r.created < w
  <1>10. since(q.since) <=> \A i \in 1..n : Free(i, "since") => since(t[i].word)
    <2> HIDE DEF since
    <2>1. since(NoDate)
      BY DEF since
    <2>2. since(q.since) <=> \A w \in Words(t, "since") : since(w)
      BY <1>1, <2>1 DEF HasRead, One
    <2>3. (\A w \in Words(t, "since") : since(w)) <=> \A i \in 1..n : Free(i, "since") => since(t[i].word)
      BY <1>5
    <2> QED
      BY <2>2, <2>3
  <1>11. before(q.before) <=> \A i \in 1..n : Free(i, "before") => before(t[i].word)
    <2> HIDE DEF before
    <2>1. before(NoDate)
      BY DEF before
    <2>2. before(q.before) <=> \A w \in Words(t, "before") : before(w)
      BY <1>1, <2>1 DEF HasRead, One
    <2>3. (\A w \in Words(t, "before") : before(w)) <=> \A i \in 1..n : Free(i, "before") => before(t[i].word)
      BY <1>5
    <2> QED
      BY <2>2, <2>3
  <1>12. MatchesQuery(r, q) <=>
           /\ q.tag = "none" \/ q.tag \in r.tags
           /\ q.schema = "none" \/ q.schema \in r.schemas
           /\ since(q.since) /\ before(q.before)
           /\ r.words \cap q.excludes = {}
           /\ q.phrases \subseteq r.words
           /\ AllHold(r, q.terms)
    BY DEF MatchesQuery, DateMatches, AllHold
  <1> DEFINE Ok(i) ==
               /\ t[i].kind \in {"term", "or"} => TermAsks(r, t, i)
               /\ Free(i, "exclude") => t[i].word \notin r.words
               /\ Free(i, "phrase") => t[i].word \in r.words
               /\ Free(i, "tag") => t[i].word \in r.tags
               /\ Free(i, "schema") => t[i].word \in r.schemas
               /\ Free(i, "since") => since(t[i].word)
               /\ Free(i, "before") => before(t[i].word)
             Sat(i) ==
               IF Joins(t, i)
               THEN \E k \in Joined(t, i) : Found(r, t[k], k = i + 1)
               ELSE OutOf(t, i) \/ Asked(r, t[i])
  <1>13. Satisfies(r, t) <=> \A i \in 1..n : Sat(i)
    BY <1>2 DEF Satisfies, OutOf
  <1>14. ASSUME NEW i \in 1..n PROVE Sat(i) <=> Ok(i)
    <2>1. t[i].kind \in Kinds
      BY <1>3
    <2>2. t[i].kind # "or" => ~Joins(t, i)
      BY DEF Joins
    <2>3. t[i].kind # "term" => (OutOf(t, i) <=> AfterOr(t, i))
      <3> SUFFICES ASSUME t[i].kind # "term" PROVE OutOf(t, i) <=> AfterOr(t, i)
        OBVIOUS
      <3>1. ASSUME NEW o \in 1..n PROVE i \in Joined(t, o) <=> i = o + 1
        BY <1>2 DEF Joined, LastTwo
      <3>2. OutOf(t, i) <=> \E o \in 1..n : Joins(t, o) /\ i = o + 1
        BY <3>1 DEF OutOf
      <3>3. AfterOr(t, i) <=> i - 1 \in 1..n /\ Joins(t, i - 1)
        BY DEF AfterOr
      <3>4. \A o \in 1..n : i = o + 1 <=> o = i - 1
        BY <1>2
      <3> QED
        BY <3>2, <3>3, <3>4
    <2> HIDE DEF q, n, since, before
    <2>4. CASE t[i].kind \in {"term", "or"}
      <3>1. Asked(r, t[i]) <=> t[i].word \in r.words
        BY <2>4 DEF Asked
      <3>2. Ok(i) <=> TermAsks(r, t, i)
        BY <2>4 DEF Free
      <3> QED
        BY <3>1, <3>2 DEF TermAsks
    <2>5. CASE t[i].kind \notin {"term", "or"}
      <3>1. Sat(i) <=> AfterOr(t, i) \/ Asked(r, t[i])
        BY <2>2, <2>3, <2>5
      <3>2. Ok(i) <=> AfterOr(t, i) \/ Asked(r, t[i])
        <4>1. CASE t[i].kind = "exclude"
          BY <4>1 DEF Free, Asked
        <4>2. CASE t[i].kind = "phrase"
          BY <4>2 DEF Free, Asked
        <4>3. CASE t[i].kind = "tag"
          BY <4>3 DEF Free, Asked
        <4>4. CASE t[i].kind = "schema"
          BY <4>4 DEF Free, Asked
        <4>5. CASE t[i].kind = "since"
          BY <4>5 DEF Free, Asked, since
        <4>6. CASE t[i].kind = "before"
          BY <4>6 DEF Free, Asked, before
        <4>7. CASE t[i].kind = "limit"
          BY <4>7 DEF Free, Asked
        <4> QED
          BY <2>1, <2>5, <4>1, <4>2, <4>3, <4>4, <4>5, <4>6, <4>7 DEF Kinds
      <3> QED
        BY <3>1, <3>2
    <2> QED
      BY <2>4, <2>5
  <1>15. MatchesQuery(r, q) <=> \A i \in 1..n : Ok(i)
    <2> HIDE DEF since, before
    <2> QED
      BY <1>4, <1>6, <1>7, <1>8, <1>9, <1>10, <1>11, <1>12
  <1> HIDE DEF Sat, Ok
  <1> QED
    BY <1>13, <1>14, <1>15 DEF q

-----------------------------------------------------------------------------
(* The calls. *)

\* A call is given one of its inputs, and its result is what the algorithm
\* computes of that input.
Answered ==
    /\ alg = "query"   => in \in Queries /\ (done => out = {r \in Records : MatchesQuery(r, ParseQuery(in))})
    /\ alg = "date"    => in \in Dates /\ (done => out = ParseDate(in[1], in[2], in[3]))
    /\ alg = "search"  => in \in Searches /\ (done => out = Search(in.records, in.q, in.limit))
    /\ alg = "url"     => in \in Urls /\ (done => out = NormalizeUrl(in))
    /\ alg = "id"      => in \in Contents /\ (done => out = RecordId(in.tags, in.body))
    /\ alg = "pow"     => in \in Proofs /\ (done => out = VerifyPow(in.hash, in.claimed, in.difficulty))
    /\ alg = "closest" => in \in Lookups /\ (done => out = FindClosest(in.table, in.target, in.k))
    /\ alg = "params"  => in \in Params /\ (done => out = ParseQueryString(SearchQuery(in.query, in.schema)))

LEMMA AnsweredAlways == Spec => []Answered
  <1>1. Init => Answered
    BY DEF Init, Answered
  <1>2. Answered /\ [Next]_vars => Answered'
    <2> SUFFICES ASSUME Answered, [Next]_vars PROVE Answered'
      OBVIOUS
    <2>1. CASE Call("query", LET q == ParseQuery(in) IN {r \in Records : MatchesQuery(r, q)})
      BY <2>1 DEF Answered, Call
    <2>2. CASE Call("date", ParseDate(in[1], in[2], in[3]))
      BY <2>2 DEF Answered, Call
    <2>3. CASE Call("search", Search(in.records, in.q, in.limit))
      BY <2>3 DEF Answered, Call
    <2>4. CASE Call("url", NormalizeUrl(in))
      BY <2>4 DEF Answered, Call
    <2>5. CASE Call("id", RecordId(in.tags, in.body))
      BY <2>5 DEF Answered, Call
    <2>6. CASE Call("pow", VerifyPow(in.hash, in.claimed, in.difficulty))
      BY <2>6 DEF Answered, Call
    <2>7. CASE Call("closest", FindClosest(in.table, in.target, in.k))
      BY <2>7 DEF Answered, Call
    <2>8. CASE Call("params", ParseQueryString(SearchQuery(in.query, in.schema)))
      BY <2>8 DEF Answered, Call
    <2>9. CASE UNCHANGED vars
      BY <2>9 DEF Answered, vars
    <2> QED
      BY <2>1, <2>2, <2>3, <2>4, <2>5, <2>6, <2>7, <2>8, <2>9 DEF Next
  <1> QED
    BY <1>1, <1>2, PTL DEF Spec

\* For every year, month and day, parse_date_value gives the second at which
\* the day begins in the Gregorian calendar, or no filter.
THEOREM DatesAreExact == Spec => []DatesExact
  <1>1. Answered => DatesExact
    <2> SUFFICES ASSUME Answered, Done("date") PROVE DatesExact
      BY DEF DatesExact
    <2>1. in \in Dates /\ out = ParseDate(in[1], in[2], in[3])
      BY DEF Answered, Done
    <2>2. in[1] \in Nat /\ in[2] \in Nat /\ in[3] \in Nat /\ DaySeconds \in Nat
      BY <2>1, DateAssumption
    <2>3. out = IF in[1] >= 1970 /\ in[2] \in 1..12 /\ in[3] \in 1..31
                THEN CalendarDays(in[1], in[2], in[3]) * DaySeconds ELSE NoDate
      BY <2>1, <2>2, DateResult
    <2> QED
      BY <2>3 DEF DatesExact
  <1> QED
    BY <1>1, AnsweredAlways, PTL

\* For every list of records, query and limit, search_records returns the best
\* matches among those it takes, in their order.
THEOREM SearchIsBest == Spec => []SearchBest
  <1>1. Answered => SearchBest
    <2> SUFFICES ASSUME Answered, Done("search") PROVE SearchBest
      BY DEF SearchBest
    <2> DEFINE limit == EffectiveLimit(in.q, in.limit)
               list == {i \in DOMAIN in.records : in.q.schema = "none" \/ in.records[i].exact}
               earlier(i) == Cardinality({j \in list : j < i})
               eligible == {i \in list : earlier(i) < ScanLimit(limit) /\ in.records[i].matches}
    <2>1. in \in Searches /\ out = Search(in.records, in.q, in.limit)
      BY DEF Answered, Done
    <2>2. /\ WordSize \in Nat \ {0} /\ in.records \in Seq(Candidates)
          /\ \A i \in DOMAIN in.records : in.records[i].id = i
          /\ in.q.limit \in (0..(WordSize - 1)) \cup {NoLimit} /\ in.limit \in 0..(WordSize - 1)
      BY <2>1, SearchAssumption
    <2>3. Numbered(in.records)
      BY <2>2 DEF Numbered
    <2>4. limit \in Nat
      BY <2>2 DEF EffectiveLimit
    <2>5. eligible = Eligible(in.records, in.q, limit)
      BY DEF Eligible, Listed
    <2>6. limit = EffectiveLimit(in.q, in.limit)
      OBVIOUS
    <2> HIDE DEF limit, eligible
    <2>7. /\ ToSet(out) \subseteq {in.records[i] : i \in eligible}
          /\ \A i, j \in DOMAIN out : i < j => Before(out[i], out[j])
          /\ \A i \in eligible :
                \/ in.records[i] \in ToSet(out)
                \/ Len(out) = limit /\ \A j \in DOMAIN out : Before(out[j], in.records[i])
      BY <2>1, <2>2, <2>3, <2>4, <2>5, <2>6, SearchResult
    <2> QED
      BY <2>6, <2>7 DEF SearchBest, eligible
  <1> QED
    BY <1>1, AnsweredAlways, PTL

\* normalize_source_url identifies exactly the URLs of one resource, and
\* compute_record_id tells contents apart, for every set of URLs and contents.
THEOREM ContentIsIdentified == Spec => []ContentIdentified
  <1>1. Answered => SameSource
    <2> SUFFICES ASSUME Answered, Done("url"), Regular(in), NEW u \in Urls, Regular(u)
                 PROVE  NormalizeUrl(u) = out <=>
                          /\ u.host = in.host
                          /\ Segments(u) = Segments(in)
                          /\ \A k \in ParamKeys \ Tracking : Values(u.query, k) = Values(in.query, k)
      BY DEF SameSource
    <2>1. in \in Urls /\ out = NormalizeUrl(in)
      BY DEF Answered, Done
    <2>2. NormalizeUrl(u) = NormalizeUrl(in) <=>
            /\ u.host = in.host
            /\ Segments(u) = Segments(in)
            /\ \A k \in ParamKeys \ Tracking : Values(u.query, k) = Values(in.query, k)
      BY <2>1, UrlAssumption, SourceResult
    <2> QED
      BY <2>1, <2>2
  <1>2. Answered => IdInjective
    <2> SUFFICES ASSUME Answered, Done("id"), NEW c \in Contents, RecordId(c.tags, c.body) = out
                 PROVE  c = in
      BY DEF IdInjective
    <2>1. in \in Contents /\ out = RecordId(in.tags, in.body)
      BY DEF Answered, Done
    <2>2. c \in [tags : Seq(Tags), body : Seq(Nat)] /\ in \in [tags : Seq(Tags), body : Seq(Nat)]
      BY <2>1, ContentAssumption
    <2> QED
      BY <2>1, <2>2, IdResult
  <1> QED
    BY <1>1, <1>2, AnsweredAlways, PTL DEF ContentIdentified

\* verify_pow compares hashes and counts leading zero bits, and find_closest
\* returns the nearest ids in their order, for bytes and hashes of any length, and
\* for tables and targets with any texts for ids.
THEOREM BytesAreNumbers == Spec => []BytesAsNumbers
  <1>1. Answered => PowExact
    <2> SUFFICES ASSUME Answered, Done("pow") PROVE PowExact
      BY DEF PowExact
    <2>1. in \in Proofs /\ out = VerifyPow(in.hash, in.claimed, in.difficulty)
      BY DEF Answered, Done
    <2>2. /\ in.hash \in [1..HashLen -> 0..MaxByte] /\ in.difficulty \in 0..NoThreshold
          /\ ByteBits \in Nat \ {0} /\ HashLen \in Nat \ {0}
      BY <2>1, ProofAssumption
    <2>3. in.difficulty # NoThreshold =>
            (MeetsDifficulty(in.hash, Threshold(in.difficulty)) <=>
               \A i \in 0..(in.difficulty - 1) : Bit(in.hash, i) = 0)
      BY <2>2, PowResult
    <2>4. out <=> /\ in.hash = in.claimed
                  /\ in.difficulty # NoThreshold
                  /\ MeetsDifficulty(in.hash, Threshold(in.difficulty))
      BY <2>1 DEF VerifyPow
    <2> QED
      BY Zenon, <2>3, <2>4 DEF PowExact
  <1>2. Answered => ClosestExact
    <2> SUFFICES ASSUME Answered, Done("closest") PROVE ClosestExact
      BY DEF ClosestExact
    <2> DEFINE t == in.table
               g == in.target
    <2>1. in \in Lookups /\ out = FindClosest(t, g, in.k)
      BY DEF Answered, Done
    <2>2. /\ IdLen \in Nat /\ ByteBits \in Nat \ {0}
          /\ t \in Seq(Ids) /\ g \in Ids /\ in.k \in Nat
          /\ \A i, j \in DOMAIN t : t[i] = t[j] => i = j
      BY <2>1, LookupAssumption, ProofAssumption
    <2>3. /\ ToSet(out) \subseteq ToSet(t)
          /\ Len(out) = IF in.k < Len(t) THEN in.k ELSE Len(t)
          /\ \A i, j \in DOMAIN out : i < j => Ahead(t, g, out[i], out[j]) /\ out[i] # out[j]
          /\ \A id \in ToSet(t) \ ToSet(out), i \in DOMAIN out : Ahead(t, g, out[i], id)
      BY <2>1, <2>2, ClosestRanked
    <2>4. ASSUME NEW i \in DOMAIN out, NEW j \in DOMAIN out, i < j, {out[i], out[j], g} \subseteq OwnIds
          PROVE  Distance(out[i], g) < Distance(out[j], g)
      <3>1. out[i] # out[j] /\ Ahead(t, g, out[i], out[j])
        BY <2>3, <2>4
      <3>2. XorDistance(out[i], g) # XorDistance(out[j], g)
        BY <2>2, <2>4, <3>1, OwnDistances
      <3>3. Distance(out[i], g) # Distance(out[j], g)
        BY <2>2, <3>2, DistanceOrder
      <3> QED
        BY <3>1, <3>3 DEF Ahead
    <2> HIDE DEF t, g
    <2> QED
      BY <2>3, <2>4 DEF ClosestExact, Ahead, t, g
  <1> QED
    BY <1>1, <1>2, AnsweredAlways, PTL DEF BytesAsNumbers

\* Whatever characters the query and the schema of a search hold, url_encode
\* and parse_query_string bring them to the API as they were given.
THEOREM ParamsAreKept == Spec => []ParamsKept
  <1>1. Answered => ParamsKept
    <2> SUFFICES ASSUME Answered, Done("params") PROVE ParamsKept
      BY DEF ParamsKept
    <2>1. in \in Params /\ out = ParseQueryString(SearchQuery(in.query, in.schema))
      BY DEF Answered, Done
    <2>2. in.query \in Seq(Chars) /\ in.schema \in Seq(Chars)
      BY <2>1, ParamAssumption DEF Chars
    <2>3. out = [k \in {<<"q">>, <<"s">>} |-> IF k = <<"q">> THEN in.query ELSE in.schema]
      BY <2>1, <2>2, ParamsResult
    <2> QED
      BY <2>3 DEF ParamsKept
  <1> QED
    BY <1>1, AnsweredAlways, PTL

\* For every set of records and every clear query of any length, matches_query
\* finds exactly the records that satisfy the tokens parse_query was given.
THEOREM QueriesMean == Spec => []QueryMeaning
  <1>1. Answered => QueryMeaning
    <2> SUFFICES ASSUME Answered, Done("query"), Clear(in)
                 PROVE  out = {r \in Records : Satisfies(r, in)}
      BY DEF QueryMeaning
    <2>1. in \in Queries /\ out = {r \in Records : MatchesQuery(r, ParseQuery(in))}
      BY DEF Answered, Done
    <2>2. in \in Seq(QueryTokens)
      BY <2>1, QueryAssumption
    <2>3. \A r \in Records : MatchesQuery(r, ParseQuery(in)) <=> Satisfies(r, in)
      BY <2>2, QueryResult
    <2> QED
      BY <2>1, <2>3
  <1> QED
    BY <1>1, AnsweredAlways, PTL
=============================================================================
