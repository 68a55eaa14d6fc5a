--------------------------- MODULE SequenceLemmas ---------------------------
(***************************************************************************)
(* Lemmas for the proofs of the components: first and last positions,      *)
(* induction and recursion over positions, sequences put together, rows    *)
(* added to a table, sums of functions and the largest of finitely many.   *)
(***************************************************************************)
EXTENDS Integers, SequencesExt, FiniteSetTheorems, WellFoundedInduction, TLAPS

-----------------------------------------------------------------------------
(* First and last positions, induction over positions *)

\* There is no endless descent in the naturals.
LEMMA NoDescent == IsWellFoundedOn({p \in Nat \X Nat : p[1] < p[2]}, Nat)
  BY NatLessThanWellFounded DEF OpToRel

\* A set of naturals has a first one.
LEMMA MinIsFirst ==
  ASSUME NEW S \in SUBSET Nat, S # {}
  PROVE  Min(S) \in S /\ \A k \in S : Min(S) <= k
  <1> DEFINE R == {p \in Nat \X Nat : p[1] < p[2]}
  <1>1. PICK t \in S : \A u \in S : <<u, t>> \notin R
    <2> HIDE DEF R
    <2> QED
      BY NoDescent, WFMin DEF R
  <1>2. \A u \in S : t <= u
    <2> SUFFICES ASSUME NEW u \in S
                 PROVE  t <= u
      OBVIOUS
    <2>1. u \in Nat /\ t \in Nat /\ <<u, t>> \in Nat \X Nat
      OBVIOUS
    <2>2. ~(u < t)
      BY <1>1, <2>1
    <2> QED
      BY <2>1, <2>2
  <1> QED
    BY <1>2 DEF Min

\* A set of positions has a last one.
LEMMA MaxIsLast ==
  ASSUME NEW n \in Nat, NEW S \in SUBSET (1..n), S # {}
  PROVE  Max(S) \in S /\ \A k \in S : Max(S) >= k
  <1> DEFINE T == {t \in 0..n : n - t \in S}
  <1>1. T # {} /\ T \subseteq Nat
    <2>1. PICK s \in S : TRUE
      OBVIOUS
    <2>2. n - s \in 0..n /\ n - (n - s) = s
      OBVIOUS
    <2>3. n - s \in T
      BY <2>1, <2>2
    <2>4. \A t \in T : t \in Nat
      OBVIOUS
    <2> HIDE DEF T
    <2> QED
      BY <2>3, <2>4
  <1>2. PICK t \in T : \A u \in T : t <= u
    <2> HIDE DEF T
    <2> QED
      BY <1>1, MinIsFirst
  <1>3. n - t \in S
    OBVIOUS
  <1>4. ASSUME NEW k \in S
        PROVE  n - t >= k
    <2>1. k \in Nat /\ n - k \in T
      OBVIOUS
    <2>2. t <= n - k
      BY <1>2, <2>1
    <2> QED
      BY <2>1, <2>2
  <1> QED
    BY <1>3, <1>4 DEF Max

\* What holds at the start and is passed on holds up to the end.
LEMMA Induct ==
  ASSUME NEW n \in Nat, NEW S, 0 \in S, \A i \in 0..(n - 1) : i \in S => i + 1 \in S
  PROVE  0..n \subseteq S
  <1> DEFINE T == (0..n) \ S
  <1> SUFFICES ASSUME T # {}
               PROVE  FALSE
    OBVIOUS
  <1>1. Min(T) \in T /\ \A k \in T : Min(T) <= k
    BY MinIsFirst
  <1>2. PICK m \in T : \A k \in T : m <= k
    BY <1>1
  <1>3. m \in 1..n /\ m - 1 \in 0..(n - 1) /\ m - 1 \notin T
    BY <1>2
  <1>4. m - 1 \in S
    BY <1>3
  <1> QED
    BY <1>2, <1>3, <1>4

-----------------------------------------------------------------------------
(* Recursive functions over positions *)

\* A step leads from what was computed before a position to what is known there.
Steps(n, D) == [D \X (1..n) -> D]

\* What is computed step by step, from b.
Runs(n, D, b, step) ==
    {f \in [0..n -> D] : f[0] = b /\ \A i \in 1..n : f[i] = step[<<f[i - 1], i>>]}

\* A recursion that takes one step for each position has a solution.
LEMMA StepsHaveRun ==
  ASSUME NEW n \in Nat, NEW D, NEW b \in D, NEW step \in Steps(n, D)
  PROVE  Runs(n, D, b, step) # {}
  <1> USE DEF Steps
  <1> DEFINE Solves(f, k) ==
               f[0] = b /\ \A i \in 1..k : f[i] = step[<<f[i - 1], i>>]
             S == {k \in 0..n : \E f \in [0..k -> D] : Solves(f, k)}
  <1>1. 0 \in S
    <2> DEFINE g == [i \in 0..0 |-> b]
    <2>1. g \in [0..0 -> D] /\ Solves(g, 0)
      OBVIOUS
    <2> HIDE DEF g, Solves
    <2> QED
      BY <2>1
  <1>2. ASSUME NEW k \in 0..(n - 1), k \in S
        PROVE  k + 1 \in S
    <2>1. PICK f \in [0..k -> D] : Solves(f, k)
      BY <1>2
    <2> DEFINE g == [i \in 0..(k + 1) |-> IF i <= k THEN f[i] ELSE step[<<f[k], k + 1>>]]
    <2>2. f[k] \in D /\ k + 1 \in 1..n
      OBVIOUS
    <2>3. step[<<f[k], k + 1>>] \in D
      BY <2>2
    <2>4. g \in [0..(k + 1) -> D]
      BY <2>3
    <2>5. g[0] = b /\ \A i \in 0..k : g[i] = f[i]
      BY <2>1
    <2>6. g[k + 1] = step[<<g[k], k + 1>>]
      OBVIOUS
    <2>7. \A i \in 1..k : i - 1 \in 0..k /\ i \in 0..k
      OBVIOUS
    <2>8. \A i \in 1..k : g[i] = step[<<g[i - 1], i>>]
      <3> HIDE DEF g
      <3> QED
        BY <2>1, <2>5, <2>7
    <2>9. Solves(g, k + 1)
      <3>1. \A i \in 1..(k + 1) : i \in 1..k \/ i = k + 1
        OBVIOUS
      <3>2. (k + 1) - 1 = k
        OBVIOUS
      <3> HIDE DEF g
      <3> QED
        BY <2>5, <2>6, <2>8, <3>1, <3>2
    <2> HIDE DEF g, Solves
    <2> QED
      BY <2>2, <2>4, <2>9
  <1>3. n \in S
    <2> HIDE DEF S
    <2> QED
      BY <1>1, <1>2, Induct
  <1> QED
    BY <1>3 DEF Runs

-----------------------------------------------------------------------------
(* Sequences put together *)

\* What a sequence of sequences flattens to holds what they hold, and no more.
LEMMA Flattened ==
  ASSUME NEW R, NEW seqs \in Seq(Seq(R))
  PROVE  LET all == FlattenSeq(seqs)
         IN  /\ all \in Seq(R)
             /\ \A j \in 1..Len(all) : \E i \in 1..Len(seqs) : \E k \in 1..Len(seqs[i]) : all[j] = seqs[i][k]
             /\ \A i \in 1..Len(seqs) : \A k \in 1..Len(seqs[i]) : \E j \in 1..Len(all) : all[j] = seqs[i][k]
  <1> DEFINE n == Len(seqs)
             Body(f) == [i \in 1..n |-> IF i = 1 THEN seqs[i] ELSE f[i - 1] \o seqs[i]]
             flatten == CHOOSE f : f = Body(f)
  <1>1. n \in Nat /\ \A i \in 1..n : seqs[i] \in Seq(R)
    OBVIOUS
  <1>2. CASE n = 0
    <2>1. FlattenSeq(seqs) = seqs
      BY <1>2 DEF FlattenSeq
    <2>2. seqs \in Seq(R) /\ Len(seqs) = 0
      BY <1>2
    <2> HIDE DEF n
    <2> QED
      BY <2>1, <2>2
  <1>3. CASE n # 0
    <2>1. \E f : f = Body(f)
      <3> DEFINE step == [p \in Seq(R) \X (1..n) |-> p[1] \o seqs[p[2]]]
      <3>1. <<>> \in Seq(R)
        OBVIOUS
      <3>2. step \in [Seq(R) \X (1..n) -> Seq(R)]
        BY <1>1
      <3>3. PICK f \in [0..n -> Seq(R)] :
               f[0] = <<>> /\ \A i \in 1..n : f[i] = step[<<f[i - 1], i>>]
        <4>1. n \in Nat /\ step \in Steps(n, Seq(R))
          BY <1>1, <3>2 DEF Steps
        <4> HIDE DEF step, n
        <4>2. Runs(n, Seq(R), <<>>, step) # {}
          BY <3>1, <4>1, StepsHaveRun
        <4> QED
          BY <4>2 DEF Runs
      <3> DEFINE g == [i \in 1..n |-> f[i]]
      <3>4. f[0] = <<>> /\ \A i \in 1..n : f[i] = step[<<f[i - 1], i>>]
        <4> HIDE DEF step
        <4> QED
          BY <3>3
      <3>5. \A i \in 1..n : f[i] = f[i - 1] \o seqs[i]
        <4> SUFFICES ASSUME NEW i \in 1..n
                     PROVE  f[i] = f[i - 1] \o seqs[i]
          OBVIOUS
        <4>1. i - 1 \in 0..n
          BY <1>1
        <4>2. f[i - 1] \in Seq(R)
          <5> HIDE DEF step
          <5> QED
            BY <3>3, <4>1
        <4>3. step[<<f[i - 1], i>>] = f[i - 1] \o seqs[i]
          BY <4>2
        <4> HIDE DEF step
        <4> QED
          BY <3>4, <4>3
      <3>6. 1 \in 1..n => f[1] = seqs[1]
        <4>1. ASSUME 1 \in 1..n
              PROVE  f[1] = <<>> \o seqs[1] /\ seqs[1] \in Seq(R)
          <5>1. 1 - 1 = 0
            OBVIOUS
          <5>2. f[1 - 1] = <<>>
            BY <3>4, <5>1
          <5>3. f[1] = f[1 - 1] \o seqs[1]
            BY <3>5, <4>1
          <5> QED
            BY <1>1, <4>1, <5>2, <5>3
        <4>2. \A s \in Seq(R) : <<>> \o s = s
          OBVIOUS
        <4> HIDE DEF step, g
        <4> QED
          BY <4>1, <4>2
      <3>7. g = Body(g)
        <4> HIDE DEF step
        <4>1. \A i \in 1..n : i # 1 => i - 1 \in 1..n
          BY <1>1
        <4>2. \A i \in 1..n : f[i] = IF i = 1 THEN seqs[i] ELSE f[i - 1] \o seqs[i]
          BY <3>5, <3>6
        <4>3. \A i \in 1..n : g[i] = IF i = 1 THEN seqs[i] ELSE g[i - 1] \o seqs[i]
          BY <4>1, <4>2
        <4> QED
          BY <4>3
      <3> HIDE DEF g, Body
      <3> QED
        BY <3>7
    <2>2. flatten = Body(flatten)
      <3> HIDE DEF Body
      <3> QED
        BY <2>1
    <2>3. FlattenSeq(seqs) = flatten[n]
      BY <1>3 DEF FlattenSeq
    <2> HIDE DEF flatten
    <2>4. \A i \in 1..n : flatten[i] = IF i = 1 THEN seqs[i] ELSE flatten[i - 1] \o seqs[i]
      BY <2>2, Zenon
    <2> DEFINE Good(m) ==
          /\ flatten[m] \in Seq(R)
          /\ \A j \in 1..Len(flatten[m]) : \E i \in 1..m : \E k \in 1..Len(seqs[i]) : flatten[m][j] = seqs[i][k]
          /\ \A i \in 1..m : \A k \in 1..Len(seqs[i]) : \E j \in 1..Len(flatten[m]) : flatten[m][j] = seqs[i][k]
        S == {0} \cup {m \in 1..n : Good(m)}
    <2>5. ASSUME NEW m \in 0..(n - 1), m \in S
          PROVE  m + 1 \in S
      <3>1. m + 1 \in 1..n
        BY <1>1
      <3>2. CASE m = 0
        <4>1. flatten[1] = seqs[1] /\ m + 1 = 1
          BY <2>4, <3>1, <3>2
        <4>2. Good(1)
          BY <1>1, <3>1, <4>1
        <4> HIDE DEF Good
        <4> QED
          BY <3>1, <4>1, <4>2
      <3>3. CASE m # 0
        <4> DEFINE s == flatten[m]
                   t == seqs[m + 1]
        <4>1. Good(m) /\ m \in 1..n
          BY <2>5, <3>3
        <4>2. flatten[m + 1] = s \o t /\ s \in Seq(R) /\ t \in Seq(R)
          <5>1. m + 1 # 1 /\ (m + 1) - 1 = m
            BY <1>1, <3>3
          <5>2. flatten[m + 1] = flatten[(m + 1) - 1] \o t
            <6> HIDE DEF n
            <6> QED
              BY <2>4, <3>1, <5>1, Zenon
          <5> QED
            BY <1>1, <3>1, <4>1, <5>1, <5>2
        <4> DEFINE r == s \o t
        <4> HIDE DEF s, t
        <4>3. /\ r \in Seq(R) /\ Len(s) \in Nat /\ Len(t) \in Nat /\ Len(r) = Len(s) + Len(t)
              /\ \A j \in 1..Len(s) : r[j] = s[j] /\ j \in 1..Len(r)
              /\ \A j \in 1..Len(t) : r[Len(s) + j] = t[j] /\ Len(s) + j \in 1..Len(r)
          BY <4>2
        <4> HIDE DEF r
        <4>4. \A j \in 1..Len(r) : \E i \in 1..(m + 1) : \E k \in 1..Len(seqs[i]) : r[j] = seqs[i][k]
          <5> SUFFICES ASSUME NEW j \in 1..Len(r)
                       PROVE  \E i \in 1..(m + 1) : \E k \in 1..Len(seqs[i]) : r[j] = seqs[i][k]
            OBVIOUS
          <5>1. CASE j \in 1..Len(s)
            <6>1. PICK i \in 1..m : \E k \in 1..Len(seqs[i]) : s[j] = seqs[i][k]
              BY <4>1, <5>1 DEF s
            <6>2. i \in 1..(m + 1)
              BY <1>1
            <6> QED
              BY <4>3, <5>1, <6>1, <6>2
          <5>2. CASE j \notin 1..Len(s)
            <6>1. j - Len(s) \in 1..Len(t) /\ Len(s) + (j - Len(s)) = j
              BY <4>3, <5>2
            <6>2. r[j] = t[j - Len(s)]
              BY <4>3, <6>1
            <6>3. m + 1 \in 1..(m + 1)
              BY <1>1
            <6> QED
              BY <6>1, <6>2, <6>3 DEF t
          <5> QED
            BY <5>1, <5>2
        <4>5. \A i \in 1..(m + 1) : \A k \in 1..Len(seqs[i]) : \E j \in 1..Len(r) : r[j] = seqs[i][k]
          <5> SUFFICES ASSUME NEW i \in 1..(m + 1), NEW k \in 1..Len(seqs[i])
                       PROVE  \E j \in 1..Len(r) : r[j] = seqs[i][k]
            OBVIOUS
          <5>1. CASE i = m + 1
            BY <4>3, <5>1 DEF t
          <5>2. CASE i # m + 1
            <6>1. i \in 1..m
              BY <1>1, <5>2
            <6>2. PICK j \in 1..Len(s) : s[j] = seqs[i][k]
              BY <4>1, <6>1 DEF s
            <6> QED
              BY <4>3, <6>2
          <5> QED
            BY <5>1, <5>2
        <4>6. flatten[m + 1] = r
          BY <4>2 DEF r
        <4>7. Good(m + 1)
          <5> HIDE DEF n
          <5> QED
            BY <4>3, <4>4, <4>5, <4>6
        <4> HIDE DEF Good
        <4> QED
          BY <3>1, <4>7
      <3> QED
        BY <3>2, <3>3
    <2>6. n \in S
      <3>1. 0 \in S /\ n \in Nat /\ n \in 0..n
        BY <1>1
      <3> HIDE DEF S, n
      <3>2. 0..n \subseteq S
        BY <2>5, <3>1, Induct, Zenon
      <3> QED
        BY <3>1, <3>2
    <2>7. Good(n)
      BY <1>3, <2>6
    <2> HIDE DEF n
    <2> QED
      BY <2>3, <2>7 DEF n
  <1> QED
    BY <1>2, <1>3

-----------------------------------------------------------------------------
(* Rows added to a table *)

\* Rows in an order of their own stand behind those of the table in that order.
LEMMA RowsBehind ==
  ASSUME NEW R, NEW rows \in Seq(R), NEW new \in Seq(R)
  PROVE  LET all == rows \o new
         IN  /\ all \in Seq(R)
             /\ Len(rows) \in Nat /\ Len(new) \in Nat /\ Len(all) = Len(rows) + Len(new)
             /\ \A i \in 1..Len(rows) : i \in 1..Len(all) /\ all[i] = rows[i]
             /\ \A i \in 1..Len(new) : Len(rows) + i \in 1..Len(all) /\ all[Len(rows) + i] = new[i]
             /\ \A i \in 1..Len(all) :
                   i \in 1..Len(rows) \/ \E k \in 1..Len(new) : i = Len(rows) + k
  <1> DEFINE all == rows \o new
             m == Len(rows)
             n == Len(new)
  <1>1. /\ all \in Seq(R) /\ m \in Nat /\ n \in Nat /\ Len(all) = m + n
        /\ \A i \in 1..m : all[i] = rows[i]
        /\ \A i \in 1..n : all[m + i] = new[i]
    OBVIOUS
  <1> HIDE DEF all, m, n
  <1>2. \A i \in 1..(m + n) : i \in 1..m \/ (i - m \in 1..n /\ i = m + (i - m))
    BY <1>1
  <1>3. \A i \in 1..(m + n) : i \in 1..m \/ \E k \in 1..n : i = m + k
    BY <1>2
  <1>4. (\A i \in 1..m : i \in 1..(m + n)) /\ (\A i \in 1..n : m + i \in 1..(m + n))
    BY <1>1
  <1> QED
    BY <1>1, <1>3, <1>4 DEF all, m, n

\* A run of positions has as many as its length.
LEMMA PositionsBehind ==
  ASSUME NEW m \in Nat, NEW n \in Nat
  PROVE  Cardinality((m + 1)..(m + n)) = n
  <1>1. Cardinality((m + 1)..(m + n)) = IF m + 1 > m + n THEN 0 ELSE (m + n) - (m + 1) + 1
    BY FS_Interval
  <1> QED
    BY <1>1

\* The sequence of a finite set has its elements.
LEMMA SetToSeqOf ==
  ASSUME NEW S, IsFiniteSet(S)
  PROVE  SetToSeq(S) \in Seq(S)
  <1> DEFINE n == Cardinality(S)
  <1>1. n \in Nat /\ ExistsBijection(1..n, S)
    BY FS_CardinalityType
  <1>2. \E f \in [1..n -> S] : IsInjective(f)
    BY <1>1 DEF ExistsBijection, Bijection, Injection
  <1>3. SetToSeq(S) \in [1..n -> S]
    BY <1>2 DEF SetToSeq
  <1> QED
    BY <1>1, <1>3

\* The rows of a set behind those of a table.
LEMMA AddedRows ==
  ASSUME NEW R, NEW S \in SUBSET R, IsFiniteSet(S), NEW rows \in Seq(R)
  PROVE  LET all == rows \o SetToSeq(S)
         IN  /\ all \in Seq(R)
             /\ Len(rows) \in Nat /\ Len(all) \in Nat
             /\ Len(rows) <= Len(all)
             /\ \A w \in 1..Len(rows) : w \in 1..Len(all) /\ all[w] = rows[w]
             /\ \A w \in (1..Len(all)) \ (1..Len(rows)) : all[w] \in S
  <1> DEFINE new == SetToSeq(S)
             all == rows \o new
             n   == Len(rows)
  <1>1. new \in Seq(S)
    BY SetToSeqOf
  <1>2. new \in Seq(R)
    BY <1>1
  <1> HIDE DEF new
  <1>3. /\ n \in Nat /\ Len(new) \in Nat
        /\ all \in Seq(R)
        /\ Len(all) = n + Len(new)
        /\ \A w \in 1..n : all[w] = rows[w]
    BY <1>2
  <1>4. \A w \in (n + 1)..(n + Len(new)) : all[w] = new[w - n] /\ w - n \in 1..Len(new)
    BY <1>2, <1>3
  <1> HIDE DEF all
  <1>5. \A w \in (n + 1)..(n + Len(new)) : all[w] \in S
    BY <1>1, <1>4
  <1>6. /\ n <= Len(all) /\ Len(all) \in Nat
        /\ \A w \in 1..n : w \in 1..Len(all) /\ all[w] = rows[w]
        /\ \A w \in (1..Len(all)) \ (1..n) : all[w] \in S
    BY <1>3, <1>5
  <1> QED
    BY <1>3, <1>6 DEF all, new

\* Of the rows that were added no two are the same.
LEMMA AddedOnce ==
  ASSUME NEW R, NEW S \in SUBSET R, IsFiniteSet(S), NEW rows \in Seq(R)
  PROVE  LET all == rows \o SetToSeq(S)
         IN  \A v, w \in (1..Len(all)) \ (1..Len(rows)) : all[v] = all[w] => v = w
  <1> DEFINE n   == Cardinality(S)
             new == SetToSeq(S)
             all == rows \o new
  <1>1. n \in Nat /\ ExistsBijection(1..n, S)
    BY FS_CardinalityType
  <1>2. \E f \in [1..n -> S] : IsInjective(f)
    BY <1>1 DEF ExistsBijection, Bijection, Injection
  <1>3. new \in [1..n -> S] /\ IsInjective(new)
    BY <1>2 DEF SetToSeq
  <1> HIDE DEF new, n
  <1>4. new \in Seq(R) /\ Len(new) = n
    BY <1>1, <1>3
  <1>5. \A w \in (1..Len(all)) \ (1..Len(rows)) :
           w - Len(rows) \in 1..n /\ all[w] = new[w - Len(rows)]
    BY <1>1, <1>4
  <1>6. \A i, j \in 1..n : new[i] = new[j] => i = j
    BY <1>3 DEF IsInjective
  <1>7. Len(rows) \in Nat /\ Len(all) \in Nat
    BY <1>4
  <1> HIDE DEF all
  <1>8. \A v, w \in (1..Len(all)) \ (1..Len(rows)) : all[v] = all[w] => v = w
    BY <1>5, <1>6, <1>7
  <1> QED
    BY <1>8 DEF all, new

-----------------------------------------------------------------------------
(* Sums *)

\* The element a sum over a set takes first.
Taken(s) == CHOOSE x \in s : TRUE

\* total is the sum of the values over each subset of S.
Sums(S, values, total) ==
    /\ total[{}] = 0
    /\ \A s \in SUBSET S : s # {} => total[s] = values[Taken(s)] + total[s \ {Taken(s)}]

\* A set without the element that is taken first has one element less.
LEMMA PickLess ==
  ASSUME NEW S, IsFiniteSet(S), NEW s \in SUBSET S, s # {}
  PROVE  /\ Taken(s) \in s /\ Taken(s) \in S
         /\ s \ {Taken(s)} \in SUBSET S
         /\ Cardinality(s) \in Nat \ {0} /\ Cardinality(s) <= Cardinality(S)
         /\ Cardinality(s \ {Taken(s)}) = Cardinality(s) - 1
  <1>1. Taken(s) \in s
    BY DEF Taken
  <1>2. IsFiniteSet(s) /\ Cardinality(s) <= Cardinality(S)
    BY FS_Subset
  <1>3. Cardinality(s) \in Nat /\ Cardinality(s) # 0
    BY <1>2, FS_CardinalityType, FS_EmptySet
  <1>4. Cardinality(s \ {Taken(s)}) = Cardinality(s) - 1
    BY <1>1, <1>2, FS_RemoveElement
  <1> QED
    BY <1>1, <1>2, <1>3, <1>4

\* There are such sums.
LEMMA SumsExist ==
  ASSUME NEW S, IsFiniteSet(S), NEW values \in [S -> Nat]
  PROVE  \E total \in [SUBSET S -> Nat] : Sums(S, values, total)
  <1> DEFINE n == Cardinality(S)
             Upto(k) == {s \in SUBSET S : Cardinality(s) <= k}
             Solves(f, k) ==
                 /\ f[{}] = 0
                 /\ \A s \in Upto(k) : s # {} => f[s] = values[Taken(s)] + f[s \ {Taken(s)}]
             K == {k \in 0..n : \E f \in [Upto(k) -> Nat] : Solves(f, k)}
  <1>1. n \in Nat
    BY FS_CardinalityType
  <1>2. {} \in SUBSET S /\ Cardinality({}) = 0
    BY FS_EmptySet
  <1>3. \A s \in SUBSET S : Cardinality(s) \in Nat /\ Cardinality(s) <= n
    BY FS_Subset, FS_CardinalityType
  <1>4. 0 \in K
    <2> DEFINE f == [s \in Upto(0) |-> 0]
    <2>1. \A s \in Upto(0) : s = {}
      BY <1>3, FS_EmptySet, FS_Subset
    <2>2. f \in [Upto(0) -> Nat] /\ f[{}] = 0
      BY <1>2
    <2>3. Solves(f, 0)
      BY <2>1, <2>2
    <2> HIDE DEF f, Solves, Upto
    <2> QED
      BY <1>1, <2>2, <2>3
  <1>5. ASSUME NEW k \in 0..(n - 1), k \in K
        PROVE  k + 1 \in K
    <2>1. PICK f \in [Upto(k) -> Nat] : Solves(f, k)
      BY <1>5
    <2> DEFINE g == [s \in Upto(k + 1) |->
                       IF s = {} THEN 0 ELSE values[Taken(s)] + f[s \ {Taken(s)}]]
    <2>2. ASSUME NEW s \in Upto(k + 1), s # {}
          PROVE  Taken(s) \in S /\ s \ {Taken(s)} \in Upto(k)
      <3>1. s \in SUBSET S /\ Cardinality(s) <= k + 1
        OBVIOUS
      <3>2. /\ Taken(s) \in S /\ s \ {Taken(s)} \in SUBSET S
            /\ Cardinality(s) \in Nat \ {0}
            /\ Cardinality(s \ {Taken(s)}) = Cardinality(s) - 1
        BY <2>2, <3>1, PickLess
      <3> QED
        BY <1>1, <3>1, <3>2
    <2>3. \A s \in Upto(k) : s \in Upto(k + 1)
      BY <1>3
    <2>4. {} \in Upto(k)
      BY <1>2
    <2>5. \A s \in Upto(k + 1) : s # {} => values[Taken(s)] + f[s \ {Taken(s)}] \in Nat
      <3> HIDE DEF Upto, Solves
      <3> QED
        BY <2>2
    <2> HIDE DEF Upto
    <2>6. g \in [Upto(k + 1) -> Nat]
      BY <2>5
    <2>7. g[{}] = 0
      BY <2>3, <2>4
    <2>8. \A s \in Upto(k + 1) : s # {} => g[s] = values[Taken(s)] + f[s \ {Taken(s)}]
      OBVIOUS
    <2>9. \A s \in Upto(k) : g[s] = f[s]
      <3> HIDE DEF g
      <3> QED
        BY <2>1, <2>3, <2>7, <2>8
    <2>10. Solves(g, k + 1)
      <3> HIDE DEF g
      <3> QED
        BY <2>2, <2>7, <2>8, <2>9
    <2>11. k + 1 \in 0..n
      BY <1>1
    <2> HIDE DEF g, Solves
    <2> QED
      BY <2>6, <2>10, <2>11
  <1>6. n \in K
    <2> HIDE DEF K
    <2>1. 0..n \subseteq K
      BY <1>1, <1>4, <1>5, Induct
    <2> QED
      BY <1>1, <2>1
  <1>7. Upto(n) = SUBSET S
    BY <1>3
  <1>8. PICK f \in [Upto(n) -> Nat] : Solves(f, n)
    BY <1>6
  <1>9. f \in [SUBSET S -> Nat] /\ Sums(S, values, f)
    <2> HIDE DEF Upto
    <2> QED
      BY <1>7, <1>8 DEF Sums
  <1> QED
    BY <1>9

\* Larger values have a larger sum, and sums of naturals are naturals.
LEMMA SumsCompare ==
  ASSUME NEW S, IsFiniteSet(S), NEW small \in [S -> Nat], NEW large \in [S -> Nat],
         \A x \in S : small[x] <= large[x],
         NEW low, Sums(S, small, low), NEW high, Sums(S, large, high)
  PROVE  low[S] \in Nat /\ high[S] \in Nat /\ low[S] <= high[S]
  <1> DEFINE n == Cardinality(S)
             Fine(s) == low[s] \in Nat /\ high[s] \in Nat /\ low[s] <= high[s]
             K == {k \in 0..n : \A s \in SUBSET S : Cardinality(s) = k => Fine(s)}
  <1>1. n \in Nat
    BY FS_CardinalityType
  <1>2. 0 \in K
    <2>1. \A s \in SUBSET S : Cardinality(s) = 0 => s = {}
      BY FS_Subset, FS_EmptySet
    <2>2. Fine({})
      BY DEF Sums
    <2> HIDE DEF Fine
    <2> QED
      BY <1>1, <2>1, <2>2
  <1>3. ASSUME NEW k \in 0..(n - 1), k \in K
        PROVE  k + 1 \in K
    <2>1. ASSUME NEW s \in SUBSET S, Cardinality(s) = k + 1
          PROVE  Fine(s)
      <3> DEFINE x == Taken(s)
                 t == s \ {x}
      <3>1. s # {}
        <4>1. Cardinality({}) = 0 /\ k + 1 # 0
          BY <1>1, FS_EmptySet
        <4> QED
          BY <2>1, <4>1
      <3>2. /\ x \in S /\ t \in SUBSET S
            /\ Cardinality(t) = (k + 1) - 1
        BY <2>1, <3>1, PickLess
      <3>3. low[s] = small[x] + low[t] /\ high[s] = large[x] + high[t]
        BY <3>1 DEF Sums
      <3> HIDE DEF x, t
      <3>4. Fine(t)
        BY <1>3, <3>2
      <3>5. small[x] \in Nat /\ large[x] \in Nat /\ small[x] <= large[x]
        BY <3>2
      <3> QED
        BY <3>3, <3>4, <3>5
    <2> HIDE DEF Fine
    <2> QED
      BY <1>1, <2>1
  <1>4. n \in K
    <2> HIDE DEF K
    <2>1. 0..n \subseteq K
      BY <1>1, <1>2, <1>3, Induct
    <2> QED
      BY <1>1, <2>1
  <1> QED
    BY <1>4

\* What is at most c each sums to at most c times their number.
LEMMA SumsBound ==
  ASSUME NEW S, IsFiniteSet(S), NEW c \in Nat, NEW values \in [S -> Nat],
         \A x \in S : values[x] <= c, NEW total, Sums(S, values, total)
  PROVE  total[S] \in Nat /\ total[S] <= Cardinality(S) * c
  <1> DEFINE all  == [x \in S |-> c]
             most == [s \in SUBSET S |-> Cardinality(s) * c]
  <1>1. most[{}] = 0
    BY FS_EmptySet
  <1>2. ASSUME NEW s \in SUBSET S, s # {}
        PROVE  most[s] = all[Taken(s)] + most[s \ {Taken(s)}]
    <2> DEFINE t == s \ {Taken(s)}
    <2>1. /\ Taken(s) \in S /\ t \in SUBSET S
          /\ Cardinality(s) \in Nat \ {0} /\ Cardinality(t) = Cardinality(s) - 1
      BY <1>2, PickLess
    <2>2. most[s] = Cardinality(s) * c /\ most[t] = Cardinality(t) * c /\ all[Taken(s)] = c
      BY <2>1
    <2> HIDE DEF t, most, all
    <2>3. Cardinality(s) * c = c + (Cardinality(s) - 1) * c
      BY <2>1
    <2> QED
      BY <2>1, <2>2, <2>3 DEF t
  <1>3. Sums(S, all, most)
    <2> HIDE DEF most, all
    <2> QED
      BY <1>1, <1>2 DEF Sums
  <1>4. all \in [S -> Nat] /\ \A x \in S : values[x] <= all[x]
    OBVIOUS
  <1>5. most[S] = Cardinality(S) * c
    OBVIOUS
  <1> HIDE DEF most, all
  <1> QED
    BY <1>3, <1>4, <1>5, SumsCompare

\* SumFunctionOnSet is such a sum.
LEMMA SumOnSet ==
  ASSUME NEW D, NEW S \in SUBSET D, IsFiniteSet(S), NEW values \in [D -> Nat]
  PROVE  \E total : Sums(S, [x \in S |-> values[x]], total) /\ SumFunctionOnSet(values, S) = total[S]
  <1> DEFINE own == [x \in S |-> values[x]]
             Body(f) == [s \in SUBSET S |->
                 IF s = {} THEN 0
                 ELSE values[CHOOSE x \in s : TRUE] + f[s \ {CHOOSE x \in s : TRUE}]]
             total == CHOOSE f : f = Body(f)
  <1>1. SumFunctionOnSet(values, S) = total[S]
    BY DEF SumFunctionOnSet, FoldFunctionOnSet, MapThenFoldSet
  <1>2. own \in [S -> Nat]
    OBVIOUS
  <1> HIDE DEF own
  <1>3. PICK f \in [SUBSET S -> Nat] : Sums(S, own, f)
    BY <1>2, SumsExist
  <1>4. \A s \in SUBSET S : s # {} => own[Taken(s)] = values[Taken(s)]
    BY PickLess DEF own
  <1>5. f = Body(f)
    <2>1. \A s \in SUBSET S :
             f[s] = IF s = {} THEN 0 ELSE values[Taken(s)] + f[s \ {Taken(s)}]
      BY <1>3, <1>4 DEF Sums
    <2> QED
      BY <1>3, <2>1 DEF Taken
  <1>6. total = Body(total)
    <2> HIDE DEF Body
    <2> QED
      BY <1>5
  <1> HIDE DEF total
  <1>7. \A s \in SUBSET S :
           total[s] = IF s = {} THEN 0 ELSE values[Taken(s)] + total[s \ {Taken(s)}]
    BY <1>6, Zenon DEF Taken
  <1>8. Sums(S, own, total)
    BY <1>4, <1>7 DEF Sums
  <1> QED
    BY <1>1, <1>8 DEF own

\* Where no value is above, neither is the sum.
LEMMA SumMonotone ==
  ASSUME NEW D, NEW S \in SUBSET D, IsFiniteSet(S),
         NEW small \in [D -> Nat], NEW large \in [D -> Nat],
         \A x \in S : small[x] <= large[x]
  PROVE  /\ SumFunctionOnSet(small, S) \in Nat /\ SumFunctionOnSet(large, S) \in Nat
         /\ SumFunctionOnSet(small, S) <= SumFunctionOnSet(large, S)
  <1> DEFINE f == [x \in S |-> small[x]]
             g == [x \in S |-> large[x]]
  <1>1. f \in [S -> Nat] /\ g \in [S -> Nat] /\ \A x \in S : f[x] <= g[x]
    OBVIOUS
  <1>2. PICK low : Sums(S, f, low) /\ SumFunctionOnSet(small, S) = low[S]
    BY SumOnSet
  <1>3. PICK high : Sums(S, g, high) /\ SumFunctionOnSet(large, S) = high[S]
    BY SumOnSet
  <1> HIDE DEF f, g
  <1> QED
    BY <1>1, <1>2, <1>3, SumsCompare

-----------------------------------------------------------------------------
(* Finite sets *)

\* What a function takes the elements of a finite set to are finitely many.
LEMMA ImageIsFinite ==
  ASSUME NEW S, IsFiniteSet(S), NEW f
  PROVE  IsFiniteSet({f[x] : x \in S})
  <1> DEFINE T == {f[x] : x \in S}
             g == [x \in S |-> f[x]]
  <1>1. g \in Surjection(S, T)
    BY DEF Surjection
  <1> QED
    BY <1>1, FS_Surjection

\* A finite set of naturals has a last one.
LEMMA MaxOfFinite ==
  ASSUME NEW S \in SUBSET Nat, IsFiniteSet(S), S # {}
  PROVE  Max(S) \in S /\ \A k \in S : Max(S) >= k
  <1> DEFINE n == Cardinality(S)
             HasLast(s) == \E x \in s : \A y \in s : x >= y
             K == {k \in 0..n : \A s \in SUBSET S : s # {} /\ Cardinality(s) = k => HasLast(s)}
  <1>1. n \in Nat
    BY FS_CardinalityType
  <1>2. 0 \in K
    <2>1. \A s \in SUBSET S : Cardinality(s) = 0 => s = {}
      BY FS_Subset, FS_EmptySet
    <2>2. \A s \in SUBSET S : ~(s # {} /\ Cardinality(s) = 0)
      BY <2>1
    <2>3. 0 \in 0..n
      BY <1>1
    <2> HIDE DEF HasLast, n
    <2> QED
      BY <2>2, <2>3
  <1>3. ASSUME NEW k \in 0..(n - 1), k \in K
        PROVE  k + 1 \in K
    <2>1. ASSUME NEW s \in SUBSET S, s # {}, Cardinality(s) = k + 1
          PROVE  HasLast(s)
      <3> DEFINE x == Taken(s)
                 t == s \ {x}
      <3>1. x \in s /\ x \in Nat /\ t \in SUBSET S /\ Cardinality(t) = (k + 1) - 1
        BY <2>1, PickLess
      <3>2. \A y \in s : y = x \/ y \in t
        OBVIOUS
      <3>3. t \subseteq s
        OBVIOUS
      <3> HIDE DEF x, t
      <3>4. CASE t = {}
        BY <3>1, <3>2, <3>4
      <3>5. CASE t # {}
        <4>1. HasLast(t)
          BY <1>3, <3>1, <3>5
        <4>2. PICK y \in t : \A z \in t : y >= z
          BY <4>1
        <4>3. x \in Nat /\ y \in Nat /\ \A z \in t : z \in Nat
          BY <3>1
        <4>4. CASE x >= y
          <5>1. \A z \in s : x >= z
            BY <3>2, <4>2, <4>3, <4>4
          <5> QED
            BY <3>1, <5>1
        <4>5. CASE ~(x >= y)
          <5>1. \A z \in s : y >= z
            BY <3>2, <4>2, <4>3, <4>5
          <5> QED
            BY <3>3, <4>2, <5>1
        <4> QED
          BY <4>4, <4>5
      <3> QED
        BY <3>4, <3>5
    <2> HIDE DEF HasLast
    <2> QED
      BY <1>1, <2>1
  <1>4. n \in K
    <2> HIDE DEF K
    <2>1. 0..n \subseteq K
      BY <1>1, <1>2, <1>3, Induct
    <2> QED
      BY <1>1, <2>1
  <1>5. HasLast(S)
    BY <1>4
  <1> QED
    BY <1>5 DEF Max

\* A sum in which one value is larger is not smaller, and is the same where
\* that value is not among the summed.
LEMMA SumWithOneRaised ==
  ASSUME NEW D, NEW S \in SUBSET D, IsFiniteSet(S), NEW small \in [D -> Nat],
         NEW large \in [D -> Nat], NEW m, \A x \in D \ {m} : small[x] = large[x],
         m \in D => small[m] <= large[m]
  PROVE  /\ SumFunctionOnSet(small, S) \in Nat /\ SumFunctionOnSet(large, S) \in Nat
         /\ SumFunctionOnSet(small, S) <= SumFunctionOnSet(large, S)
         /\ m \notin S => SumFunctionOnSet(small, S) = SumFunctionOnSet(large, S)
  <1>1. \A x \in S : small[x] <= large[x]
    <2> SUFFICES ASSUME NEW x \in S
                 PROVE  small[x] <= large[x]
      OBVIOUS
    <2>1. x \in D /\ small[x] \in Nat
      OBVIOUS
    <2> QED
      BY <2>1
  <1>2. /\ SumFunctionOnSet(small, S) \in Nat /\ SumFunctionOnSet(large, S) \in Nat
        /\ SumFunctionOnSet(small, S) <= SumFunctionOnSet(large, S)
    BY <1>1, SumMonotone
  <1>3. ASSUME m \notin S
        PROVE  SumFunctionOnSet(large, S) <= SumFunctionOnSet(small, S)
    <2>1. \A x \in S : large[x] <= small[x]
      <3> SUFFICES ASSUME NEW x \in S
                   PROVE  large[x] <= small[x]
        OBVIOUS
      <3>1. x \in D /\ x # m /\ large[x] \in Nat
        BY <1>3
      <3> QED
        BY <3>1
    <2> QED
      BY <2>1, SumMonotone
  <1> QED
    BY <1>2, <1>3

=============================================================================
