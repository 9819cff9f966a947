-------------------------- MODULE SeqFilter_proofs --------------------------
(***************************************************************************)
(* What Filter computes, for every sequence and every set, and the facts   *)
(* about sequences without repetition that proofs about queues need.       *)
(***************************************************************************)
EXTENDS SeqFilter, NaturalsInduction, WellFoundedInduction, SequenceTheorems, TLAPS

Elems(s) == {s[i] : i \in 1 .. Len(s)}
Distinct(s) == \A i, j \in 1 .. Len(s) : s[i] = s[j] => i = j

\* A set of natural numbers that is not empty has a least element.
LEMMA LeastExists ==
    ASSUME NEW T \in SUBSET Nat, T # {}
    PROVE  \E m \in T : \A n \in T : m <= n
  <1> DEFINE R == {ss \in Nat \X Nat : ss[1] < ss[2]}
  <1>1. R = OpToRel(<, Nat)
    BY Zenon DEF OpToRel
  <1>2. IsWellFoundedOn(R, Nat)
    BY <1>1, NatLessThanWellFounded, Zenon
  <1>3. PICK m \in T : \A n \in T : ~(<<n, m>> \in R)
    <2> HIDE DEF R
    <2> QED
      BY <1>2, WFMin
  <1>4. \A n \in T : <<n, m>> \in R <=> n < m
    OBVIOUS
  <1>5. \A n \in T : ~(n < m)
    BY <1>3, <1>4, Zenon
  <1>6. m \in Nat /\ \A n \in T : n \in Nat
    OBVIOUS
  <1>7. \A n \in T : m <= n
    BY <1>5, <1>6
  <1> QED
    BY <1>7

\* A set of natural numbers that has 0 and the successors of its members has
\* all of them: the induction of this module, for sets instead of predicates.
LEMMA AllNumbers ==
    ASSUME NEW T, 0 \in T, \A n \in Nat : n \in T => n + 1 \in T
    PROVE  Nat \subseteq T
  <1> DEFINE U == Nat \ T
  <1> SUFFICES ASSUME U # {} PROVE FALSE
    OBVIOUS
  <1>1. PICK m \in U : \A n \in U : m <= n
    BY LeastExists
  <1>2. m \in Nat /\ m \notin T /\ m # 0
    OBVIOUS
  <1>3. m - 1 \in Nat /\ ~(m <= m - 1) /\ (m - 1) + 1 = m
    BY <1>2
  <1>4. m - 1 \in U
    BY <1>2, <1>3
  <1> QED
    BY <1>1, <1>3, <1>4

-----------------------------------------------------------------------------
(* The recursive function inside Filter *)

\* G is the function of the first m elements.
Filters(G, s, S, m) ==
    G = [n \in 0 .. m |-> IF n = 0 THEN <<>>
                          ELSE IF s[n] \in S THEN Append(G[n - 1], s[n]) ELSE G[n - 1]]

LEMMA FiltersStep ==
    ASSUME NEW s, NEW S, NEW m \in Nat, NEW G, Filters(G, s, S, m)
    PROVE  \E H : Filters(H, s, S, m + 1)
  <1> DEFINE step == IF s[m + 1] \in S THEN Append(G[m], s[m + 1]) ELSE G[m]
             H == [n \in 0 .. m + 1 |-> IF n = m + 1 THEN step ELSE G[n]]
  <1>1. \A n \in 0 .. m : G[n] = IF n = 0 THEN <<>>
                                 ELSE IF s[n] \in S THEN Append(G[n - 1], s[n]) ELSE G[n - 1]
    BY DEF Filters
  <1>2. \A n \in 0 .. m : H[n] = G[n]
    <2> HIDE DEF step
    <2>1. \A n \in 0 .. m : n \in 0 .. m + 1 /\ n # m + 1
      OBVIOUS
    <2> QED
      BY <2>1
  <1>3. H[m + 1] = step
    OBVIOUS
  <1>4. ASSUME NEW n \in 0 .. m + 1
        PROVE  H[n] = IF n = 0 THEN <<>>
                      ELSE IF s[n] \in S THEN Append(H[n - 1], s[n]) ELSE H[n - 1]
    <2>1. CASE n = m + 1
      <3>1. n # 0 /\ n - 1 = m /\ m \in 0 .. m
        BY <2>1
      <3>2. H[n - 1] = G[m]
        BY <1>2, <3>1
      <3> HIDE DEF H
      <3> QED
        BY <2>1, <1>3, <3>1, <3>2
    <2>2. CASE n \in 0 .. m
      <3>1. n # 0 => n - 1 \in 0 .. m
        BY <2>2
      <3> HIDE DEF H, step
      <3> QED
        BY <1>1, <1>2, <2>2, <3>1
    <2> QED
      BY <2>1, <2>2
  <1>5. H = [n \in 0 .. m + 1 |-> H[n]]
    OBVIOUS
  <1> HIDE DEF H
  <1>6. Filters(H, s, S, m + 1)
    BY <1>4, <1>5 DEF Filters
  <1> QED
    BY <1>6

LEMMA FiltersExists ==
    ASSUME NEW s, NEW S
    PROVE  \A m \in Nat : \E G : Filters(G, s, S, m)
  <1> DEFINE T == {m \in Nat : \E G : Filters(G, s, S, m)}
  <1>1. 0 \in T
    <2> DEFINE G == [n \in 0 .. 0 |-> <<>>]
    <2>1. \A n \in 0 .. 0 : n = 0
      OBVIOUS
    <2>2. Filters(G, s, S, 0)
      BY <2>1 DEF Filters
    <2> QED
      BY <2>2
  <1>2. \A n \in Nat : n \in T => n + 1 \in T
    BY FiltersStep
  <1> HIDE DEF T
  <1>3. Nat \subseteq T
    BY <1>1, <1>2, AllNumbers
  <1> QED
    BY <1>3 DEF T

\* The prefixes of a sequence, filtered.
LEMMA FilterPrefixes ==
    ASSUME NEW T, NEW s \in Seq(T), NEW S
    PROVE  \E G : /\ Filter(s, S) = G[Len(s)]
                  /\ G[0] = <<>>
                  /\ \A n \in 1 .. Len(s) :
                       G[n] = IF s[n] \in S THEN Append(G[n - 1], s[n]) ELSE G[n - 1]
  <1> DEFINE G == CHOOSE F : Filters(F, s, S, Len(s))
  <1>1. Filter(s, S) = G[Len(s)]
    BY DEF Filter, Filters
  <1>2. Len(s) \in Nat
    OBVIOUS
  <1>3. Filters(G, s, S, Len(s))
    BY <1>2, FiltersExists
  <1> HIDE DEF G
  <1>4. G[0] = <<>>
    BY <1>2, <1>3 DEF Filters
  <1>5. \A n \in 1 .. Len(s) : G[n] = IF s[n] \in S THEN Append(G[n - 1], s[n]) ELSE G[n - 1]
    <2>1. \A n \in 1 .. Len(s) : n \in 0 .. Len(s) /\ n # 0
      BY <1>2
    <2> QED
      BY <1>3, <2>1 DEF Filters
  <1> QED
    BY <1>1, <1>4, <1>5
-----------------------------------------------------------------------------
(* What Filter returns *)

\* g is made of the elements of s up to n that are in S: f[i] is the place in
\* s of element i of g.
Picks(f, g, s, S, n) ==
    /\ f \in [1 .. Len(g) -> 1 .. n]
    /\ \A i \in 1 .. Len(g) : g[i] = s[f[i]] /\ s[f[i]] \in S
    /\ \A i, j \in 1 .. Len(g) : i < j => f[i] < f[j]
    /\ \A k \in 1 .. n : s[k] \in S => \E i \in 1 .. Len(g) : f[i] = k

LEMMA PicksSkip ==
    ASSUME NEW T, NEW s \in Seq(T), NEW S, NEW n \in 1 .. Len(s), NEW g \in Seq(T), NEW f,
           Picks(f, g, s, S, n - 1), s[n] \notin S
    PROVE  Picks(f, g, s, S, n)
  <1>0. Len(g) \in Nat /\ n \in Nat
    OBVIOUS
  <1>1. \A k \in 1 .. n : k \in 1 .. n - 1 \/ k = n
    BY <1>0
  <1>2. \A k \in 1 .. n - 1 : k \in 1 .. n
    BY <1>0
  <1> QED
    BY <1>1, <1>2 DEF Picks

LEMMA PicksTake ==
    ASSUME NEW T, NEW s \in Seq(T), NEW S, NEW n \in 1 .. Len(s), NEW g \in Seq(T), NEW f,
           Picks(f, g, s, S, n - 1), s[n] \in S
    PROVE  \E h : Picks(h, Append(g, s[n]), s, S, n)
  <1> DEFINE L == Len(g)
             a == Append(g, s[n])
             h == [i \in 1 .. L + 1 |-> IF i = L + 1 THEN n ELSE f[i]]
  <1>0. L \in Nat /\ n \in Nat
    OBVIOUS
  <1>1. a \in Seq(T) /\ Len(a) = L + 1 /\ a[L + 1] = s[n] /\ \A i \in 1 .. L : a[i] = g[i]
    BY <1>0
  <1>2. /\ \A i \in 1 .. L : f[i] \in 1 .. n - 1 /\ g[i] = s[f[i]] /\ s[f[i]] \in S
        /\ \A i, j \in 1 .. L : i < j => f[i] < f[j]
        /\ \A k \in 1 .. n - 1 : s[k] \in S => \E i \in 1 .. L : f[i] = k
    BY DEF Picks
  <1>3. \A i \in 1 .. L + 1 : i \in 1 .. L \/ i = L + 1
    BY <1>0
  <1>4. \A i \in 1 .. L : i \in 1 .. L + 1 /\ i # L + 1
    BY <1>0
  <1>5. h[L + 1] = n /\ L + 1 \in 1 .. L + 1
    BY <1>0
  <1>6. \A i \in 1 .. L : h[i] = f[i]
    BY <1>4
  <1>7. h \in [1 .. L + 1 -> 1 .. n]
    <2>1. \A i \in 1 .. L : f[i] \in 1 .. n
      BY <1>0, <1>2
    <2>2. n \in 1 .. n
      OBVIOUS
    <2> QED
      BY <1>3, <2>1, <2>2
  <1> HIDE DEF h, a
  <1>8. \A i \in 1 .. L + 1 : a[i] = s[h[i]] /\ s[h[i]] \in S
    BY <1>1, <1>2, <1>3, <1>5, <1>6
  <1>9. ASSUME NEW i \in 1 .. L + 1, NEW j \in 1 .. L + 1, i < j PROVE h[i] < h[j]
    <2>1. i \in 1 .. L
      BY <1>0, <1>9
    <2>2. CASE j \in 1 .. L
      BY <1>2, <1>6, <1>9, <2>1, <2>2
    <2>3. CASE j = L + 1
      <3>1. f[i] \in 1 .. n - 1
        BY <1>2, <2>1
      <3> QED
        BY <1>0, <1>5, <1>6, <2>1, <2>3, <3>1
    <2> QED
      BY <1>3, <2>2, <2>3
  <1>10. ASSUME NEW k \in 1 .. n, s[k] \in S PROVE \E i \in 1 .. L + 1 : h[i] = k
    <2>1. CASE k = n
      BY <1>5, <2>1
    <2>2. CASE k \in 1 .. n - 1
      <3>1. PICK i \in 1 .. L : f[i] = k
        BY <1>2, <1>10, <2>2
      <3> QED
        BY <1>4, <1>6, <3>1
    <2> QED
      BY <1>0, <2>1, <2>2
  <1>11. Picks(h, a, s, S, n)
    BY <1>1, <1>7, <1>8, <1>9, <1>10 DEF Picks
  <1> QED
    BY <1>11 DEF a

(***************************************************************************)
(* Filter returns the elements that are in S, each as often as it occurs,  *)
(* in their order.                                                         *)
(***************************************************************************)
THEOREM FilterPicks ==
    ASSUME NEW T, NEW s \in Seq(T), NEW S
    PROVE  /\ Filter(s, S) \in Seq(T)
           /\ \E f : Picks(f, Filter(s, S), s, S, Len(s))
  <1>1. PICK G : /\ Filter(s, S) = G[Len(s)]
                 /\ G[0] = <<>>
                 /\ \A n \in 1 .. Len(s) :
                      G[n] = IF s[n] \in S THEN Append(G[n - 1], s[n]) ELSE G[n - 1]
    BY FilterPrefixes
  <1> DEFINE N == {n \in Nat : n <= Len(s) => /\ G[n] \in Seq(T)
                                              /\ \E f : Picks(f, G[n], s, S, n)}
  <1>0. Len(s) \in Nat
    OBVIOUS
  <1>2. 0 \in N
    <2>1. Picks(<<>>, <<>>, s, S, 0)
      BY DEF Picks
    <2>2. <<>> \in Seq(T) /\ \E f : Picks(f, <<>>, s, S, 0)
      BY <2>1
    <2>3. G[0] \in Seq(T) /\ \E f : Picks(f, G[0], s, S, 0)
      BY <1>1, <2>2
    <2> QED
      BY <2>3
  <1>3. ASSUME NEW n \in Nat, n \in N PROVE n + 1 \in N
    <2> SUFFICES ASSUME n + 1 <= Len(s)
                 PROVE  G[n + 1] \in Seq(T) /\ \E f : Picks(f, G[n + 1], s, S, n + 1)
      OBVIOUS
    <2>1. n <= Len(s) /\ n + 1 \in 1 .. Len(s) /\ (n + 1) - 1 = n
      BY <1>0
    <2>2. G[n] \in Seq(T) /\ \E f : Picks(f, G[n], s, S, n)
      BY <1>3, <2>1
    <2>3. PICK f : Picks(f, G[n], s, S, (n + 1) - 1)
      BY <2>1, <2>2
    <2>4. G[n + 1] = IF s[n + 1] \in S THEN Append(G[n], s[n + 1]) ELSE G[n]
      BY <1>1, <2>1
    <2>5. CASE s[n + 1] \in S
      <3>1. s[n + 1] \in T
        BY <2>1
      <3>2. G[n + 1] \in Seq(T)
        BY <2>2, <2>4, <2>5, <3>1
      <3> QED
        BY <2>1, <2>2, <2>3, <2>4, <2>5, <3>2, PicksTake
    <2>6. CASE s[n + 1] \notin S
      BY <2>1, <2>2, <2>3, <2>4, <2>6, PicksSkip
    <2> QED
      BY <2>5, <2>6
  <1> HIDE DEF N
  <1>4. Nat \subseteq N
    BY <1>2, <1>3, AllNumbers
  <1>5. Len(s) \in N /\ Len(s) <= Len(s)
    BY <1>0, <1>4
  <1> QED
    BY <1>1, <1>5 DEF N

\* What is usually needed of it.
LEMMA FilterFacts ==
    ASSUME NEW T, NEW s \in Seq(T), NEW S
    PROVE  /\ Filter(s, S) \in Seq(T)
           /\ Elems(Filter(s, S)) = Elems(s) \cap S
           /\ Distinct(s) => Distinct(Filter(s, S))
  <1> DEFINE g == Filter(s, S)
  <1>1. g \in Seq(T) /\ \E f : Picks(f, g, s, S, Len(s))
    BY FilterPicks
  <1> HIDE DEF g
  <1>2. PICK f : Picks(f, g, s, S, Len(s))
    BY <1>1
  <1>3. /\ \A i \in 1 .. Len(g) : f[i] \in 1 .. Len(s) /\ g[i] = s[f[i]] /\ s[f[i]] \in S
        /\ \A i, j \in 1 .. Len(g) : i < j => f[i] < f[j]
        /\ \A k \in 1 .. Len(s) : s[k] \in S => \E i \in 1 .. Len(g) : f[i] = k
    BY <1>2 DEF Picks
  <1>4. Elems(g) = Elems(s) \cap S
    <2>1. ASSUME NEW x \in Elems(g) PROVE x \in Elems(s) \cap S
      <3>1. PICK n \in 1 .. Len(g) : x = g[n]
        BY <2>1 DEF Elems
      <3>2. f[n] \in 1 .. Len(s) /\ x = s[f[n]] /\ x \in S
        BY <1>3, <3>1
      <3> QED
        BY <3>2 DEF Elems
    <2>2. ASSUME NEW x \in Elems(s), x \in S PROVE x \in Elems(g)
      <3>1. PICK k \in 1 .. Len(s) : x = s[k]
        BY <2>2 DEF Elems
      <3>2. PICK n \in 1 .. Len(g) : f[n] = k
        BY <1>3, <2>2, <3>1
      <3>3. x = g[n]
        BY <1>3, <3>1, <3>2
      <3> QED
        BY <3>3 DEF Elems
    <2> QED
      BY <2>1, <2>2
  <1>5. ASSUME Distinct(s), NEW i \in 1 .. Len(g), NEW j \in 1 .. Len(g), g[i] = g[j]
        PROVE  i = j
    <2>1. f[i] = f[j]
      BY <1>3, <1>5, SMTT(20) DEF Distinct
    <2>2. f[i] \in Int /\ f[j] \in Int /\ i \in Int /\ j \in Int
      BY <1>3
    <2>3. ~(i < j) /\ ~(j < i)
      BY <1>3, <2>1, <2>2
    <2> QED
      BY <2>2, <2>3
  <1> QED
    BY <1>1, <1>4, <1>5 DEF g, Distinct

-----------------------------------------------------------------------------
(* Queues without repetition *)

LEMMA AppendQueue ==
    ASSUME NEW T, NEW s \in Seq(T), NEW e \in T
    PROVE  /\ Append(s, e) \in Seq(T)
           /\ Elems(Append(s, e)) = Elems(s) \cup {e}
           /\ Distinct(s) /\ e \notin Elems(s) => Distinct(Append(s, e))
  <1> DEFINE a == Append(s, e)
             L == Len(s)
  <1>1. /\ L \in Nat /\ a \in Seq(T) /\ Len(a) = L + 1 /\ a[L + 1] = e
        /\ \A i \in 1 .. L : a[i] = s[i]
    OBVIOUS
  <1>2. /\ \A i \in 1 .. L + 1 : i \in 1 .. L \/ i = L + 1
        /\ \A i \in 1 .. L : i \in 1 .. L + 1
        /\ L + 1 \in 1 .. L + 1
    BY <1>1
  <1> HIDE DEF a
  <1>3. Elems(a) = Elems(s) \cup {e}
    <2>1. Elems(a) \subseteq Elems(s) \cup {e}
      BY <1>1, <1>2 DEF Elems
    <2>2. Elems(s) \cup {e} \subseteq Elems(a)
      BY <1>1, <1>2 DEF Elems
    <2> QED
      BY <2>1, <2>2
  <1>4. ASSUME Distinct(s), e \notin Elems(s), NEW i \in 1 .. L + 1, NEW j \in 1 .. L + 1,
               a[i] = a[j]
        PROVE  i = j
    <2>1. \A k \in 1 .. L : a[k] # e
      BY <1>1, <1>4 DEF Elems
    <2> QED
      BY <1>1, <1>2, <1>4, <2>1 DEF Distinct
  <1> QED
    BY <1>1, <1>3, <1>4 DEF a, Distinct

LEMMA ConcatQueue ==
    ASSUME NEW T, NEW s \in Seq(T), NEW t \in Seq(T)
    PROVE  /\ s \o t \in Seq(T)
           /\ Elems(s \o t) = Elems(s) \cup Elems(t)
           /\ Distinct(s) /\ Distinct(t) /\ Elems(s) \cap Elems(t) = {} => Distinct(s \o t)
  <1> DEFINE a == s \o t
             L == Len(s)
             M == Len(t)
  <1>1. /\ L \in Nat /\ M \in Nat /\ a \in Seq(T) /\ Len(a) = L + M
        /\ \A i \in 1 .. L + M : a[i] = IF i <= L THEN s[i] ELSE t[i - L]
    BY ConcatProperties, LenProperties
  <1>2. /\ \A i \in 1 .. L : a[i] = s[i] /\ i \in 1 .. L + M
        /\ \A i \in 1 .. M : L + i \in 1 .. L + M /\ (L + i) - L = i /\ ~(L + i <= L)
    BY <1>1
  <1>3. \A i \in 1 .. M : a[L + i] = t[i]
    BY <1>1, <1>2
  <1>4. \A i \in 1 .. L + M : i \in 1 .. L \/ \E k \in 1 .. M : i = L + k
    <2>1. \A i \in 1 .. L + M : i \in 1 .. L \/ (i - L \in 1 .. M /\ i = L + (i - L))
      BY <1>1
    <2> QED
      BY <2>1
  <1> HIDE DEF a
  <1>5. Elems(a) \subseteq Elems(s) \cup Elems(t)
    <2> SUFFICES ASSUME NEW i \in 1 .. L + M PROVE a[i] \in Elems(s) \cup Elems(t)
      BY <1>1 DEF Elems
    <2>1. ASSUME NEW k \in 1 .. M, i = L + k PROVE a[i] \in Elems(t)
      BY <1>3, <2>1 DEF Elems
    <2>2. CASE i \in 1 .. L
      BY <1>2, <2>2 DEF Elems
    <2> QED
      BY <1>4, <2>1, <2>2
  <1>6. Elems(s) \cup Elems(t) \subseteq Elems(a)
    <2>1. ASSUME NEW i \in 1 .. L PROVE s[i] \in Elems(a)
      BY <1>1, <1>2 DEF Elems
    <2>2. ASSUME NEW i \in 1 .. M PROVE t[i] \in Elems(a)
      <3>1. L + i \in 1 .. Len(a) /\ a[L + i] = t[i]
        BY <1>1, <1>2, <1>3
      <3> QED
        BY <3>1 DEF Elems
    <2> QED
      BY <2>1, <2>2 DEF Elems
  <1>7. ASSUME Distinct(s), Distinct(t), Elems(s) \cap Elems(t) = {},
               NEW i \in 1 .. L + M, NEW j \in 1 .. L + M, a[i] = a[j]
        PROVE  i = j
    <2>1. \A p \in 1 .. L, q \in 1 .. M : s[p] # t[q]
      BY <1>7 DEF Elems
    <2>2. CASE i \in 1 .. L /\ j \in 1 .. L
      BY <1>2, <1>7, <2>2 DEF Distinct
    <2>3. ASSUME NEW p \in 1 .. M, NEW q \in 1 .. M, i = L + p, j = L + q PROVE i = j
      BY <1>3, <1>7, <2>3 DEF Distinct
    <2>4. ASSUME NEW q \in 1 .. M, i \in 1 .. L, j = L + q PROVE FALSE
      BY <1>2, <1>3, <1>7, <2>1, <2>4
    <2>5. ASSUME NEW p \in 1 .. M, i = L + p, j \in 1 .. L PROVE FALSE
      BY <1>2, <1>3, <1>7, <2>1, <2>5
    <2> QED
      BY <1>4, <2>2, <2>3, <2>4, <2>5
  <1> QED
    BY <1>1, <1>5, <1>6, <1>7 DEF a, Distinct

LEMMA TailQueue ==
    ASSUME NEW T, NEW s \in Seq(T), s # <<>>
    PROVE  /\ Tail(s) \in Seq(T) /\ Len(Tail(s)) = Len(s) - 1 /\ Len(s) \in Nat \ {0}
           /\ Head(s) = s[1] /\ Head(s) \in T
           /\ \A i \in 1 .. Len(s) - 1 : Tail(s)[i] = s[i + 1]
           /\ Elems(s) = Elems(Tail(s)) \cup {Head(s)}
           /\ Distinct(s) => Distinct(Tail(s)) /\ Head(s) \notin Elems(Tail(s))
  <1> DEFINE t == Tail(s)
             L == Len(s)
  <1>1. /\ L \in Nat /\ L # 0 /\ t \in Seq(T) /\ Len(t) = L - 1
        /\ Head(s) = s[1] /\ Head(s) \in T
        /\ \A i \in 1 .. L - 1 : t[i] = s[i + 1]
    <2>1. L \in Nat /\ L # 0
      BY EmptySeq
    <2>2. Head(s) = s[1] /\ Head(s) \in T /\ t \in Seq(T) /\ Len(t) = L - 1
      BY <2>1, HeadTailProperties
    <2>3. \A i \in 1 .. L - 1 : t[i] = s[i + 1]
      BY <2>1, <2>2, HeadTailProperties
    <2> QED
      BY <2>1, <2>2, <2>3
  <1>2. /\ \A i \in 1 .. L - 1 : i + 1 \in 1 .. L /\ i + 1 # 1
        /\ \A i \in 1 .. L : i = 1 \/ (i - 1 \in 1 .. L - 1 /\ i = (i - 1) + 1)
        /\ 1 \in 1 .. L
    BY <1>1
  <1> HIDE DEF t
  <1>3. Elems(s) \subseteq Elems(t) \cup {Head(s)}
    <2> SUFFICES ASSUME NEW i \in 1 .. L, i # 1 PROVE s[i] \in Elems(t)
      BY <1>1 DEF Elems
    <2>1. i - 1 \in 1 .. L - 1 /\ t[i - 1] = s[i]
      BY <1>1, <1>2
    <2> QED
      BY <1>1, <2>1 DEF Elems
  <1>4. Elems(t) \cup {Head(s)} \subseteq Elems(s)
    BY <1>1, <1>2 DEF Elems
  <1>5. ASSUME Distinct(s) PROVE Distinct(t) /\ Head(s) \notin Elems(t)
    <2>1. ASSUME NEW i \in 1 .. L - 1, NEW j \in 1 .. L - 1, t[i] = t[j] PROVE i = j
      <3>1. i + 1 = j + 1
        BY <1>1, <1>2, <1>5, <2>1 DEF Distinct
      <3> QED
        BY <3>1
    <2>2. \A i \in 1 .. L - 1 : t[i] # s[1]
      BY <1>1, <1>2, <1>5 DEF Distinct
    <2> QED
      BY <1>1, <2>1, <2>2 DEF Distinct, Elems
  <1> QED
    BY <1>1, <1>3, <1>4, <1>5 DEF t

LEMMA SplitQueue ==
    ASSUME NEW T, NEW s \in Seq(T), NEW n \in 0 .. Len(s)
    PROVE  LET p == SubSeq(s, 1, n)
               q == SubSeq(s, n + 1, Len(s))
           IN  /\ p \in Seq(T) /\ q \in Seq(T) /\ Len(p) = n /\ Len(q) = Len(s) - n
               /\ \A i \in 1 .. n : p[i] = s[i]
               /\ \A i \in 1 .. Len(s) - n : q[i] = s[n + i]
               /\ Elems(s) = Elems(p) \cup Elems(q)
               /\ Distinct(s) => /\ Distinct(p) /\ Distinct(q)
                                 /\ Elems(p) \cap Elems(q) = {}
  <1> DEFINE p == SubSeq(s, 1, n)
             q == SubSeq(s, n + 1, Len(s))
             L == Len(s)
  <1>0. L \in Nat /\ n \in Nat /\ n <= L
    OBVIOUS
  <1>1. p \in Seq(T) /\ Len(p) = n /\ \A i \in 1 .. n : p[i] = s[i]
    BY <1>0, SubSeqProperties, ElementOfSeq
  <1>2. q \in Seq(T) /\ Len(q) = L - n /\ \A i \in 1 .. L - n : q[i] = s[n + i]
    BY <1>0, SubSeqProperties, ElementOfSeq
  <1>3. /\ \A i \in 1 .. n : i \in 1 .. L
        /\ \A i \in 1 .. L - n : n + i \in 1 .. L /\ n + i \notin 1 .. n
        /\ \A i \in 1 .. L : i \in 1 .. n \/ (i - n \in 1 .. L - n /\ n + (i - n) = i)
    BY <1>0
  <1> HIDE DEF p, q
  <1>4. Elems(s) \subseteq Elems(p) \cup Elems(q)
    <2> SUFFICES ASSUME NEW i \in 1 .. L PROVE s[i] \in Elems(p) \cup Elems(q)
      BY DEF Elems
    <2>1. CASE i \in 1 .. n
      BY <1>1, <2>1 DEF Elems
    <2>2. CASE i - n \in 1 .. L - n /\ n + (i - n) = i
      <3>1. q[i - n] = s[i]
        BY <1>2, <2>2
      <3> QED
        BY <1>2, <2>2, <3>1 DEF Elems
    <2> QED
      BY <1>3, <2>1, <2>2
  <1>5. Elems(p) \cup Elems(q) \subseteq Elems(s)
    <2>1. ASSUME NEW i \in 1 .. n PROVE p[i] \in Elems(s)
      BY <1>1, <1>3 DEF Elems
    <2>2. ASSUME NEW i \in 1 .. L - n PROVE q[i] \in Elems(s)
      <3>1. n + i \in 1 .. Len(s) /\ s[n + i] = q[i]
        BY <1>2, <1>3
      <3> QED
        BY <3>1 DEF Elems
    <2> QED
      BY <1>1, <1>2, <2>1, <2>2 DEF Elems
  <1>6. ASSUME Distinct(s)
        PROVE  Distinct(p) /\ Distinct(q) /\ Elems(p) \cap Elems(q) = {}
    <2>1. Distinct(p)
      BY <1>1, <1>3, <1>6 DEF Distinct
    <2>2. ASSUME NEW i \in 1 .. L - n, NEW j \in 1 .. L - n, q[i] = q[j] PROVE i = j
      <3>1. n + i = n + j
        BY <1>2, <1>3, <1>6, <2>2 DEF Distinct
      <3> QED
        BY <1>0, <3>1
    <2>3. ASSUME NEW i \in 1 .. n, NEW j \in 1 .. L - n, p[i] = q[j] PROVE FALSE
      <3>1. s[i] = s[n + j]
        BY <1>1, <1>2, <2>3
      <3>2. i = n + j
        BY <1>3, <1>6, <3>1 DEF Distinct
      <3> QED
        BY <1>3, <3>2
    <2> QED
      BY <1>1, <1>2, <2>1, <2>2, <2>3 DEF Distinct, Elems
  <1> QED
    BY <1>1, <1>2, <1>4, <1>5, <1>6 DEF p, q

=============================================================================
