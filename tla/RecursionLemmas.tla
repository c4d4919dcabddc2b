-------------------------- MODULE RecursionLemmas --------------------------
(***************************************************************************)
(* Facts about functions defined by recursion over 0..n, from which the    *)
(* proofs about loops over m_nb, m_prqueue and m_queue start, what follows *)
(* from them about OrderedSets, and what adding an element to a sequence,  *)
(* or taking one out, does to it.                                          *)
(***************************************************************************)
EXTENDS OrderedSets, SequencesExt, FiniteSetTheorems, TLAPS

\* Every nonempty set of natural numbers has a least element: the intervals
\* 0..k for k in T are finite sets, which strict inclusion orders well.
LEMMA LeastElement ==
  ASSUME NEW T, T \subseteq Nat, T # {}
  PROVE  \E m \in T : \A k \in T : m <= k
<1> DEFINE Q == {0..k : k \in T}
<1>1. IsWellFoundedOn(StrictSubsetOrdering(Nat), FiniteSubsetsOf(Nat))
  BY FS_StrictSubsetOrderingWellFounded
<1>2. Q \subseteq FiniteSubsetsOf(Nat) /\ Q # {}
  <2>1. ASSUME NEW k \in Nat PROVE IsFiniteSet(0..k) /\ 0..k \subseteq Nat
    BY FS_Interval
  <2> QED BY <2>1 DEF FiniteSubsetsOf
<1>3. PICK x \in Q : \A y \in Q : ~ (<<y, x>> \in StrictSubsetOrdering(Nat))
  BY <1>1, <1>2, WFMin
<1>4. PICK m \in T : x = 0..m
  BY <1>3
<1>5. ASSUME NEW k \in T PROVE m <= k
  <2>1. SUFFICES ASSUME k < m PROVE FALSE
    OBVIOUS
  <2>2. /\ 0..k \in SUBSET Nat /\ 0..m \in SUBSET Nat
        /\ 0..k \subseteq 0..m /\ 0..k # 0..m
    BY <2>1
  <2>3. 0..k \in Q
    OBVIOUS
  <2>4. <<0..k, 0..m>> \in StrictSubsetOrdering(Nat)
    BY <2>2 DEF StrictSubsetOrdering
  <2> QED BY <2>3, <2>4, <1>3, <1>4
<1> QED BY <1>5

\* Induction over 0..n for a family T of sets: a sequence of values that starts
\* in the first and goes from each to the next is in all of them.
LEMMA Invariance ==
  ASSUME NEW n \in Nat, NEW f, NEW T, f[0] \in T[0],
         \A k \in 1..n : f[k-1] \in T[k-1] => f[k] \in T[k]
  PROVE  \A k \in 0..n : f[k] \in T[k]
<1> DEFINE Bad == {k \in 0..n : f[k] \notin T[k]}
<1>1. SUFFICES ASSUME Bad # {} PROVE FALSE
  OBVIOUS
<1>2. Bad \subseteq Nat
  OBVIOUS
<1>3. PICK m \in Bad : \A k \in Bad : m <= k
  <2> HIDE DEF Bad
  <2> QED BY <1>1, <1>2, LeastElement
<1>4. m \in 1..n /\ m-1 \in 0..n /\ ~(m <= m-1)
  OBVIOUS
<1>5. f[m-1] \in T[m-1]
  BY <1>3, <1>4
<1> QED BY <1>4, <1>5

\* The values in S of a loop that starts with c and turns x into G[k][x] at k.
Iterations(S, n, c, G) ==
  {f \in [0..n -> S] : f[0] = c /\ \A k \in 1..n : f[k] = G[k][f[k-1]]}

\* If the loop's steps map S to S, there is a function of its values.
LEMMA IterationExists ==
  ASSUME NEW S, NEW n \in Nat, NEW c \in S, NEW G \in [1..n -> [S -> S]]
  PROVE  Iterations(S, n, c, G) # {}
<1> DEFINE Iterates(m) == Iterations(S, m, c, G)
           Good == {m \in 0..n : Iterates(m) # {}}
           Bad == (0..n) \ Good
<1>1. SUFFICES ASSUME Bad # {} PROVE FALSE
  <2>1. Bad = {} => n \in Good
    <3> HIDE DEF Good
    <3> QED OBVIOUS
  <2>2. n \in Good => Iterates(n) # {}
    OBVIOUS
  <2> QED BY <2>1, <2>2
<1>2. PICK m \in Bad : \A k \in Bad : m <= k
  <2>1. Bad \subseteq Nat
    OBVIOUS
  <2> HIDE DEF Bad
  <2> QED BY <1>1, <2>1, LeastElement
<1>3. 0 \in Good
  <2> DEFINE f0 == [i \in 0..0 |-> c]
  <2>1. f0 \in [0..0 -> S] /\ f0[0] = c /\ \A k \in 1..0 : f0[k] = G[k][f0[k-1]]
    OBVIOUS
  <2>2. \E f \in [0..0 -> S] : f[0] = c /\ \A k \in 1..0 : f[k] = G[k][f[k-1]]
    <3> HIDE DEF f0
    <3> QED BY <2>1
  <2>3. Iterates(0) # {} /\ 0 \in 0..n
    BY <2>2 DEF Iterations
  <2> HIDE DEF Iterates
  <2> QED BY <2>3
<1>4. m \in 1..n /\ m-1 \in 0..n /\ m-1 \in Good
  <2> HIDE DEF Good
  <2> QED BY <1>2, <1>3
<1>5. PICK g \in [0..(m-1) -> S] : g[0] = c /\ \A k \in 1..(m-1) : g[k] = G[k][g[k-1]]
  BY <1>4 DEF Iterations
<1> DEFINE h == [i \in 0..m |-> IF i = m THEN G[m][g[m-1]] ELSE g[i]]
<1>6. G[m][g[m-1]] \in S
  BY <1>4, <1>5
<1>7. h \in [0..m -> S]
  BY <1>4, <1>5, <1>6
<1>8. h[0] = c
  BY <1>4, <1>5
<1>9. ASSUME NEW k \in 1..m PROVE h[k] = G[k][h[k-1]]
  BY <1>4, <1>5
<1>10. Iterates(m) # {}
  <2> HIDE DEF h
  <2> QED BY <1>7, <1>8, <1>9 DEF Iterations
<1>11. m \in Good
  <2> HIDE DEF Iterates
  <2> QED BY <1>4, <1>10
<1> QED BY <1>2, <1>11

-----------------------------------------------------------------------------
(* OrderedSets. *)

\* A new element at the end of a sequence without duplicates.
LEMMA AppendDistinct ==
  ASSUME NEW X, NEW q \in Seq(X), Distinct(q), NEW x \in X, x \notin Elems(q)
  PROVE  LET w == Append(q, x)
         IN  /\ w \in Seq(X) /\ Len(w) = Len(q) + 1
             /\ Elems(w) = Elems(q) \cup {x} /\ Distinct(w)
<1> DEFINE w == Append(q, x)
<1>1. /\ w \in Seq(X) /\ Len(q) \in Nat /\ Len(w) = Len(q) + 1 /\ w[Len(w)] = x
      /\ \A i \in 1..Len(q) : w[i] = q[i]
  OBVIOUS
<1> HIDE DEF w
<1>2. Elems(w) = Elems(q) \cup {x}
  BY <1>1 DEF Elems
<1>3. ASSUME NEW i \in 1..Len(w), NEW j \in 1..Len(w), w[i] = w[j] PROVE i = j
  <2>1. i \in 1..Len(q) \/ i = Len(w)
    BY <1>1
  <2>2. j \in 1..Len(q) \/ j = Len(w)
    BY <1>1
  <2>3. \A k \in 1..Len(q) : w[k] # x
    BY <1>1 DEF Elems
  <2> QED BY <1>1, <1>3, <2>1, <2>2, <2>3 DEF Distinct
<1> QED BY <1>1, <1>2, <1>3 DEF Distinct, w

\* The first element of a sequence.
LEMMA HeadOf ==
  ASSUME NEW X, NEW q \in Seq(X), q # << >>
  PROVE  Head(q) \in X /\ Head(q) \in Elems(q)
BY DEF Elems

\* A new element at the end comes to the front only if there was none.
LEMMA AppendHead ==
  ASSUME NEW X, NEW q \in Seq(X), NEW x \in X
  PROVE  LET w == Append(q, x)
         IN  /\ w \in Seq(X) /\ w # << >> /\ Elems(w) = Elems(q) \cup {x}
             /\ Head(w) = IF q = << >> THEN x ELSE Head(q)
<1> DEFINE w == Append(q, x)
<1>1. /\ w \in Seq(X) /\ Len(q) \in Nat /\ Len(w) = Len(q) + 1 /\ w[Len(q) + 1] = x
      /\ \A i \in 1..Len(q) : w[i] = q[i]
  OBVIOUS
<1> HIDE DEF w
<1>2. Elems(w) = Elems(q) \cup {x}
  BY <1>1 DEF Elems
<1>3. w # << >> /\ Head(w) = w[1]
  BY <1>1
<1>4. CASE q = << >>
  BY <1>1, <1>2, <1>3, <1>4 DEF w
<1>5. CASE q # << >>
  BY <1>1, <1>2, <1>3, <1>5 DEF w
<1> QED BY <1>4, <1>5

\* e picks, from the first k elements of q and in their order, those that are not
\* in S, and they make w.
Picks(e, w, q, k, S) ==
  /\ e \in [1..Len(w) -> 1..k]
  /\ \A i, j \in 1..Len(w) : i < j => e[i] < e[j]
  /\ \A i \in 1..Len(w) : w[i] = q[e[i]] /\ q[e[i]] \notin S
  /\ \A j \in 1..k : q[j] \notin S => \E i \in 1..Len(w) : e[i] = j

\* The values that the loop of Without goes through.
LEMMA WithoutRun ==
  ASSUME NEW X, NEW q \in Seq(X), NEW S
  PROVE  \E keep :
           /\ Without(q, S) = keep[Len(q)]
           /\ keep[0] = << >>
           /\ \A k \in 1..Len(q) :
                keep[k] = IF q[k] \in S THEN keep[k-1] ELSE Append(keep[k-1], q[k])
<1> DEFINE n == Len(q)
           c == << >>
           Q == Seq(X)
           G == [k \in 1..n |-> [x \in Q |-> IF q[k] \in S THEN x ELSE Append(x, q[k])]]
           F(g) == [k \in 0..n |-> IF k = 0 THEN c
                                   ELSE IF q[k] \in S THEN g[k-1] ELSE Append(g[k-1], q[k])]
           keep == CHOOSE g : g = F(g)
<1>1. n \in Nat /\ c \in Q /\ \A k \in 1..n : q[k] \in X
  OBVIOUS
<1>2. Without(q, S) = keep[n]
  BY DEF Without
<1> HIDE DEF n
<1>3. G \in [1..n -> [Q -> Q]]
  <2>1. ASSUME NEW k \in 1..n, NEW x \in Q PROVE Append(x, q[k]) \in Q
    BY <1>1
  <2> QED BY <2>1
<1> HIDE DEF G, Q, c
<1>4. PICK f : f \in Iterations(Q, n, c, G)
  <2>1. Iterations(Q, n, c, G) # {}
    BY <1>1, <1>3, IterationExists
  <2> QED BY <2>1
<1>5. f = F(f)
  <2>1. f \in [0..n -> Q] /\ f[0] = c /\ \A k \in 1..n : f[k] = G[k][f[k-1]]
    BY <1>4 DEF Iterations
  <2>2. ASSUME NEW k \in 1..n
        PROVE  f[k] = IF q[k] \in S THEN f[k-1] ELSE Append(f[k-1], q[k])
    <3>1. k-1 \in 0..n
      BY <1>1
    <3>2. f[k-1] \in Q
      BY <3>1, <2>1
    <3> QED BY <2>1, <3>2 DEF G
  <2>3. ASSUME NEW k \in 0..n PROVE k # 0 => k \in 1..n
    BY <1>1
  <2>4. ASSUME NEW k \in 0..n PROVE f[k] = F(f)[k]
    BY <2>1, <2>2, <2>3
  <2> QED BY <2>1, <2>4
<1> HIDE DEF F
<1>6. keep = F(keep)
  BY <1>5
<1> HIDE DEF keep
<1>7. /\ keep[0] = c
      /\ \A k \in 1..n : keep[k] = IF q[k] \in S THEN keep[k-1] ELSE Append(keep[k-1], q[k])
  <2>1. ASSUME NEW k \in 0..n
        PROVE  keep[k] = IF k = 0 THEN c
                         ELSE IF q[k] \in S THEN keep[k-1] ELSE Append(keep[k-1], q[k])
    <3>1. keep[k] = F(keep)[k]
      BY <1>6
    <3> QED BY <3>1 DEF F
  <2>2. 0 \in 0..n /\ \A k \in 1..n : k \in 0..n /\ k # 0
    BY <1>1
  <2> QED BY <2>1, <2>2
<1> QED BY <1>2, <1>7 DEF n, c

\* Without takes the elements of S out of q, and changes nothing else.
LEMMA WithoutPicks ==
  ASSUME NEW X, NEW q \in Seq(X), NEW S
  PROVE  /\ Without(q, S) \in Seq(X)
         /\ \E e : Picks(e, Without(q, S), q, Len(q), S)
<1> DEFINE n == Len(q)
<1>1. n \in Nat /\ \A k \in 1..n : q[k] \in X
  OBVIOUS
<1>2. PICK keep :
        /\ Without(q, S) = keep[n] /\ keep[0] = << >>
        /\ \A k \in 1..n : keep[k] = IF q[k] \in S THEN keep[k-1] ELSE Append(keep[k-1], q[k])
  BY WithoutRun
<1> HIDE DEF n
<1> DEFINE W(k) == {w \in Seq(X) : \E e : Picks(e, w, q, k, S)}
           T == [k \in 0..n |-> W(k)]
<1>3. keep[0] \in T[0]
  <2>1. Picks([i \in 1..0 |-> 0], << >>, q, 0, S)
    BY DEF Picks
  <2>2. << >> \in W(0)
    BY <2>1
  <2> QED BY <1>1, <1>2, <2>2
<1>4. ASSUME NEW k \in 1..n, keep[k-1] \in T[k-1] PROVE keep[k] \in T[k]
  <2> DEFINE w == keep[k-1]
  <2>1. k-1 \in 0..n /\ k \in 0..n /\ k \in Nat \ {0} /\ q[k] \in X
    BY <1>1
  <2>2. w \in Seq(X) /\ \E e : Picks(e, w, q, k-1, S)
    BY <1>4, <2>1
  <2> HIDE DEF w
  <2>3. PICK e : Picks(e, w, q, k-1, S)
    BY <2>2
  <2>4. Len(w) \in Nat
    BY <2>2
  <2>5. CASE q[k] \in S
    <3>1. Picks(e, w, q, k, S)
      BY <2>1, <2>3, <2>4, <2>5 DEF Picks
    <3>2. w \in W(k)
      BY <2>2, <3>1
    <3>3. keep[k] = w
      BY <1>2, <2>5 DEF w
    <3> QED BY <2>1, <3>2, <3>3
  <2>6. CASE q[k] \notin S
    <3> DEFINE v == Append(w, q[k])
               m == Len(w) + 1
               f == [i \in 1..m |-> IF i = m THEN k ELSE e[i]]
    <3>1. /\ v \in Seq(X) /\ Len(v) = m /\ v[m] = q[k] /\ m \in Nat /\ m - 1 = Len(w)
          /\ \A i \in 1..Len(w) : v[i] = w[i]
      BY <2>1, <2>2
    <3>2. \A i \in 1..m : i = m \/ (i \in 1..Len(w) /\ i < m)
      BY <2>4
    <3>3. /\ f[m] = k /\ \A i \in 1..Len(w) : f[i] = e[i] /\ e[i] \in 1..(k-1)
          /\ f \in [1..m -> 1..k]
      <4>1. \A i \in 1..Len(w) : e[i] \in 1..(k-1)
        BY <2>3 DEF Picks
      <4>2. f[m] = k
        BY <2>4
      <4>3. \A i \in 1..Len(w) : i \in 1..m /\ i # m
        BY <2>4
      <4>4. \A i \in 1..Len(w) : f[i] = e[i]
        BY <4>3
      <4>5. \A i \in 1..m : (IF i = m THEN k ELSE e[i]) \in 1..k
        BY <4>1, <3>2, <2>1
      <4>6. f \in [1..m -> 1..k]
        BY <4>5
      <4> QED BY <4>1, <4>2, <4>4, <4>6
    <3> HIDE DEF f, v
    <3>4. ASSUME NEW i \in 1..m, NEW j \in 1..m, i < j PROVE f[i] < f[j]
      <4>1. i \in 1..Len(w)
        BY <3>4, <2>4
      <4> HIDE DEF m
      <4>2. CASE j = m
        BY <4>1, <4>2, <3>3, <2>1
      <4>3. CASE j \in 1..Len(w)
        BY <4>1, <4>3, <3>3, <3>4, <2>3 DEF Picks
      <4> QED BY <3>2, <4>2, <4>3
    <3>5. ASSUME NEW i \in 1..m PROVE v[i] = q[f[i]] /\ q[f[i]] \notin S
      BY <3>1, <3>2, <3>3, <2>3, <2>6 DEF Picks
    <3>6. ASSUME NEW j \in 1..k, q[j] \notin S PROVE \E i \in 1..m : f[i] = j
      <4>1. CASE j = k
        BY <4>1, <3>1, <3>3, <2>4
      <4>2. CASE j # k
        <5>1. j \in 1..(k-1)
          BY <2>1, <4>2
        <5>2. PICK i \in 1..Len(w) : e[i] = j
          BY <5>1, <3>6, <2>3 DEF Picks
        <5> QED BY <5>2, <3>3, <2>4
      <4> QED BY <4>1, <4>2
    <3>7. Picks(f, v, q, k, S)
      BY <3>1, <3>3, <3>4, <3>5, <3>6 DEF Picks
    <3>8. v \in W(k)
      BY <3>1, <3>7
    <3>9. keep[k] = v
      BY <1>2, <2>6 DEF w, v
    <3> QED BY <2>1, <3>8, <3>9
  <2> QED BY <2>5, <2>6
<1>5. \A k \in 0..n : keep[k] \in T[k]
  <2> HIDE DEF T
  <2> QED BY <1>1, <1>3, <1>4, Invariance
<1>6. keep[n] \in W(n)
  BY <1>1, <1>5
<1> QED BY <1>2, <1>6 DEF n

\* 1..n has n elements.
LEMMA CountTo ==
  ASSUME NEW n \in Nat
  PROVE  IsFiniteSet(1..n) /\ Cardinality(1..n) = n
<1>1. IsFiniteSet(1..n) /\ Cardinality(1..n) = IF 1 > n THEN 0 ELSE n - 1 + 1
  BY FS_Interval
<1>2. (IF 1 > n THEN 0 ELSE n - 1 + 1) = n
  OBVIOUS
<1> QED BY <1>1, <1>2

\* A function that takes no value twice takes as many values as it has arguments.
LEMMA InjectiveImage ==
  ASSUME NEW S, IsFiniteSet(S), NEW f,
         \A i, j \in S : f[i] = f[j] => i = j
  PROVE  LET T == {f[i] : i \in S} IN IsFiniteSet(T) /\ Cardinality(T) = Cardinality(S)
<1> DEFINE T == {f[i] : i \in S}
           g == [i \in S |-> f[i]]
<1>1. g \in Injection(S, T)
  BY DEF Injection, IsInjective
<1>2. g \in Surjection(S, T)
  BY DEF Surjection
<1>3. ExistsBijection(S, T)
  BY <1>1, <1>2 DEF ExistsBijection, Bijection
<1> QED BY <1>3, FS_Bijection

\* As many elements are left of q as are not in S, and each is picked once.
LEMMA PicksCount ==
  ASSUME NEW X, NEW q \in Seq(X), NEW w \in Seq(X), NEW S, NEW e, Picks(e, w, q, Len(q), S)
  PROVE  /\ \A i, j \in 1..Len(w) : e[i] = e[j] => i = j
         /\ Cardinality({j \in 1..Len(q) : q[j] \notin S}) = Len(w)
<1> DEFINE kept == {j \in 1..Len(q) : q[j] \notin S}
<1>1. Len(q) \in Nat /\ Len(w) \in Nat
  OBVIOUS
<1>2. ASSUME NEW i \in 1..Len(w), NEW j \in 1..Len(w), e[i] = e[j] PROVE i = j
  <2>1. e[i] \in 1..Len(q) /\ (i < j => e[i] < e[j]) /\ (j < i => e[j] < e[i])
    BY DEF Picks
  <2> QED BY <2>1, <1>1, <1>2
<1>3. {e[i] : i \in 1..Len(w)} = kept
  BY DEF Picks
<1> HIDE DEF kept
<1>4. IsFiniteSet(1..Len(w)) /\ Cardinality(1..Len(w)) = Len(w)
  BY <1>1, CountTo
<1>5. \A i, j \in 1..Len(w) : e[i] = e[j] => i = j
  BY <1>2
<1>6. Cardinality({e[i] : i \in 1..Len(w)}) = Cardinality(1..Len(w))
  BY <1>4, <1>5, InjectiveImage
<1> QED BY <1>3, <1>4, <1>5, <1>6 DEF kept

\* What is left of q when the elements of S are taken out.
LEMMA PicksElems ==
  ASSUME NEW X, NEW q \in Seq(X), NEW w \in Seq(X), NEW S, NEW e, Picks(e, w, q, Len(q), S)
  PROVE  /\ Elems(w) = Elems(q) \ S
         /\ Distinct(q) => Distinct(w)
         /\ Len(w) <= Len(q)
         /\ Elems(q) \cap S # {} => Len(w) < Len(q)
<1>1. Len(q) \in Nat /\ Len(w) \in Nat
  OBVIOUS
<1>2. Elems(w) = Elems(q) \ S
  <2>1. ASSUME NEW i \in 1..Len(w) PROVE w[i] \in Elems(q) \ S
    <3>1. e[i] \in 1..Len(q) /\ w[i] = q[e[i]] /\ q[e[i]] \notin S
      BY DEF Picks
    <3> QED BY <3>1 DEF Elems
  <2>2. ASSUME NEW j \in 1..Len(q), q[j] \notin S PROVE q[j] \in Elems(w)
    <3>1. PICK i \in 1..Len(w) : e[i] = j
      BY <2>2 DEF Picks
    <3>2. w[i] = q[j]
      BY <3>1 DEF Picks
    <3> QED BY <3>2 DEF Elems
  <2> QED BY <2>1, <2>2 DEF Elems
<1>3. ASSUME Distinct(q) PROVE Distinct(w)
  <2>1. \A i, j \in 1..Len(w) : i < j => e[i] < e[j]
    BY DEF Picks
  <2>2. \A i \in 1..Len(w) : e[i] \in 1..Len(q) /\ w[i] = q[e[i]]
    BY DEF Picks
  <2>3. ASSUME NEW i \in 1..Len(w), NEW j \in 1..Len(w), w[i] = w[j] PROVE i = j
    <3>1. q[e[i]] = q[e[j]] /\ e[i] \in 1..Len(q) /\ e[j] \in 1..Len(q)
      BY <2>2, <2>3
    <3>2. e[i] = e[j]
      BY <1>3, <3>1 DEF Distinct
    <3>3. ~(i < j) /\ ~(j < i)
      BY <2>1, <3>1, <3>2
    <3> QED BY <1>1, <3>3
  <2> QED BY <2>3 DEF Distinct
<1> DEFINE kept == {j \in 1..Len(q) : q[j] \notin S}
<1>4. Cardinality(kept) = Len(w)
  BY PicksCount
<1>5. Elems(q) \cap S # {} => kept # 1..Len(q)
  BY DEF Elems
<1>6. kept \in SUBSET (1..Len(q))
  OBVIOUS
<1> HIDE DEF kept
<1>7. IsFiniteSet(1..Len(q)) /\ Cardinality(1..Len(q)) = Len(q)
  BY <1>1, CountTo
<1>8. /\ Cardinality(kept) <= Len(q)
      /\ Cardinality(kept) = Len(q) => kept = 1..Len(q)
  BY <1>6, <1>7, FS_Subset
<1>9. Len(w) <= Len(q) /\ (Elems(q) \cap S # {} => Len(w) < Len(q))
  BY <1>1, <1>4, <1>5, <1>8
<1> QED BY <1>2, <1>3, <1>9

\* Without takes the elements of S out of q, adds none, and repeats none.
LEMMA WithoutElems ==
  ASSUME NEW X, NEW q \in Seq(X), NEW S
  PROVE  /\ Without(q, S) \in Seq(X)
         /\ Len(Without(q, S)) <= Len(q)
         /\ Elems(Without(q, S)) = Elems(q) \ S
         /\ Distinct(q) => Distinct(Without(q, S))
<1> DEFINE w == Without(q, S)
<1>1. w \in Seq(X) /\ \E e : Picks(e, w, q, Len(q), S)
  BY WithoutPicks
<1> HIDE DEF w
<1>2. PICK e : Picks(e, w, q, Len(q), S)
  BY <1>1
<1>3. Elems(w) = Elems(q) \ S /\ (Distinct(q) => Distinct(w)) /\ Len(w) <= Len(q)
  BY <1>1, <1>2, PicksElems
<1> QED BY <1>1, <1>3 DEF w

\* An element at the front that Without leaves in stays at the front.
LEMMA WithoutHead ==
  ASSUME NEW X, NEW q \in Seq(X), NEW S
  PROVE  LET w == Without(q, S)
         IN  /\ w \in Seq(X) /\ Elems(w) = Elems(q) \ S
             /\ q # << >> /\ Head(q) \notin S => w # << >> /\ Head(w) = Head(q)
<1> DEFINE w == Without(q, S)
<1>1. w \in Seq(X) /\ Elems(w) = Elems(q) \ S /\ \E e : Picks(e, w, q, Len(q), S)
  BY WithoutPicks, WithoutElems
<1> HIDE DEF w
<1>2. ASSUME q # << >>, Head(q) \notin S PROVE w # << >> /\ Head(w) = Head(q)
  <2>1. PICK e : Picks(e, w, q, Len(q), S)
    BY <1>1
  <2>2. 1 \in 1..Len(q) /\ Head(q) = q[1] /\ Len(w) \in Nat
    BY <1>1, <1>2
  <2>3. PICK i \in 1..Len(w) : e[i] = 1
    BY <1>2, <2>1, <2>2 DEF Picks
  <2>4. 1 \in 1..Len(w) /\ w # << >> /\ Head(w) = w[1]
    BY <1>1, <2>3
  <2>5. e[1] \in 1..Len(q) /\ (1 < i => e[1] < e[i])
    BY <2>1, <2>3, <2>4 DEF Picks
  <2>6. i = 1
    BY <2>3, <2>5
  <2>7. w[1] = q[1]
    BY <2>1, <2>3, <2>6 DEF Picks
  <2> QED BY <2>2, <2>4, <2>7
<1> QED BY <1>1, <1>2 DEF w

\* RemoveAt takes the element at i out and moves those behind it up.
LEMMA RemovedAt ==
  ASSUME NEW X, NEW q \in Seq(X), NEW i \in 1..Len(q)
  PROVE  /\ RemoveAt(q, i) \in Seq(X)
         /\ Len(RemoveAt(q, i)) = Len(q) - 1
         /\ \A j \in 1..(Len(q) - 1) : RemoveAt(q, i)[j] = IF j < i THEN q[j] ELSE q[j+1]
<1> DEFINE a == SubSeq(q, 1, i - 1)
           b == SubSeq(q, i + 1, Len(q))
<1>1. /\ a \in Seq(X) /\ Len(a) = i - 1
      /\ \A j \in 1..(i - 1) : a[j] = q[j]
  OBVIOUS
<1>2. /\ b \in Seq(X) /\ Len(b) = Len(q) - i
      /\ \A j \in 1..(Len(q) - i) : b[j] = q[i + j]
  OBVIOUS
<1>3. RemoveAt(q, i) = a \o b
  BY DEF RemoveAt
<1> HIDE DEF a, b
<1>4. a \o b \in Seq(X) /\ Len(a \o b) = Len(q) - 1
  <2>1. a \in Seq(X) /\ b \in Seq(X)
    BY <1>1, <1>2
  <2>2. (i - 1) + (Len(q) - i) = Len(q) - 1
    OBVIOUS
  <2>3. a \o b \in Seq(X)
    BY <2>1
  <2>4. Len(a \o b) = Len(a) + Len(b)
    BY <2>1
  <2> QED BY <1>1, <1>2, <2>2, <2>3, <2>4
<1>5. ASSUME NEW j \in 1..(Len(q) - 1)
      PROVE  (a \o b)[j] = IF j < i THEN q[j] ELSE q[j+1]
  <2>1. CASE j < i
    BY <1>1, <1>2, <2>1
  <2>2. CASE ~(j < i)
    <3>1. (a \o b)[j] = b[j - (i - 1)] /\ j - (i - 1) \in 1..(Len(q) - i)
      BY <1>1, <1>2, <2>2
    <3> QED BY <1>2, <2>2, <3>1
  <2> QED BY <2>1, <2>2
<1> QED BY <1>3, <1>4, <1>5

\* So in a q without repetitions it takes out just the one element.
LEMMA RemovedPicks ==
  ASSUME NEW X, NEW q \in Seq(X), Distinct(q), NEW i \in 1..Len(q)
  PROVE  /\ RemoveAt(q, i) \in Seq(X)
         /\ \E e : Picks(e, RemoveAt(q, i), q, Len(q), {q[i]})
<1> DEFINE w == RemoveAt(q, i)
           e == [j \in 1..(Len(q) - 1) |-> IF j < i THEN j ELSE j + 1]
<1>1. /\ w \in Seq(X) /\ Len(w) = Len(q) - 1
      /\ \A j \in 1..(Len(q) - 1) : w[j] = IF j < i THEN q[j] ELSE q[j+1]
  BY RemovedAt
<1> HIDE DEF w
<1>2. e \in [1..Len(w) -> 1..Len(q)]
  BY <1>1
<1>3. \A j, k \in 1..Len(w) : j < k => e[j] < e[k]
  BY <1>1
<1>4. \A j \in 1..Len(w) : w[j] = q[e[j]] /\ e[j] # i /\ e[j] \in 1..Len(q)
  BY <1>1
<1>5. ASSUME NEW k \in 1..Len(q), k # i PROVE \E j \in 1..Len(w) : e[j] = k
  <2>1. CASE k < i
    <3>1. k \in 1..Len(w) /\ e[k] = k
      BY <1>1, <2>1
    <3> QED BY <3>1
  <2>2. CASE ~(k < i)
    <3>1. k - 1 \in 1..Len(w) /\ e[k - 1] = k
      BY <1>1, <1>5, <2>2
    <3> QED BY <3>1
  <2> QED BY <2>1, <2>2
<1> HIDE DEF e
<1>6. Picks(e, w, q, Len(q), {q[i]})
  BY <1>2, <1>3, <1>4, <1>5 DEF Picks, Distinct
<1> QED BY <1>1, <1>6 DEF w

\* And so does Tail with the first.
LEMMA TailPicks ==
  ASSUME NEW X, NEW q \in Seq(X), Distinct(q), q # << >>
  PROVE  /\ Tail(q) \in Seq(X) /\ Len(Tail(q)) = Len(q) - 1
         /\ \E e : Picks(e, Tail(q), q, Len(q), {q[1]})
<1> DEFINE w == Tail(q)
           e == [j \in 1..(Len(q) - 1) |-> j + 1]
<1>1. /\ w \in Seq(X) /\ Len(w) = Len(q) - 1 /\ 1 \in 1..Len(q)
      /\ \A j \in 1..(Len(q) - 1) : w[j] = q[j + 1]
  OBVIOUS
<1> HIDE DEF w
<1>2. e \in [1..Len(w) -> 1..Len(q)] /\ \A j, k \in 1..Len(w) : j < k => e[j] < e[k]
  BY <1>1
<1>3. \A j \in 1..Len(w) : w[j] = q[e[j]] /\ e[j] # 1 /\ e[j] \in 1..Len(q)
  BY <1>1
<1>4. ASSUME NEW k \in 1..Len(q), k # 1 PROVE \E j \in 1..Len(w) : e[j] = k
  <2>1. k - 1 \in 1..Len(w) /\ e[k - 1] = k
    BY <1>1, <1>4
  <2> QED BY <2>1
<1> HIDE DEF e
<1>5. Picks(e, w, q, Len(q), {q[1]})
  BY <1>1, <1>2, <1>3, <1>4 DEF Picks, Distinct
<1> QED BY <1>1, <1>5 DEF w
=============================================================================
