-------------------------- MODULE EventLoop_proofs --------------------------
(***************************************************************************)
(* Proofs about the event loop of libevent 0.1, for every set of events,   *)
(* every assignment of descriptors and every number of calls the           *)
(* application makes.                                                      *)
(***************************************************************************)
EXTENDS EventLoop, SeqFilter_proofs, FiniteSetTheorems

Pointers == Events \cup {Null}

(* The flags f are those of the queues q. *)
WellQueued(q, f) ==
    /\ q \in [Kinds -> Seq(Events)] /\ f \in [Events -> SUBSET Kinds]
    /\ \A k \in Kinds : Distinct(q[k])
    /\ \A k \in Kinds, e \in Events : e \in Elems(q[k]) <=> k \in f[e]

Sorted(q, l) == \A m, n \in 1 .. Len(q) : m < n => l[q[m]] <= l[q[n]]

ScalarTypes ==
    /\ left \in [Events -> Nat] /\ sleep \in Nat
    /\ readLink \in [Events -> Pointers]
    /\ ev \in Pointers /\ old \in Pointers
    /\ lpc \in {"application", "select", "READ", "WRITE", "TIMEOUT", "ended"}
    /\ what \in {"START", "READ", "WRITE", "TIMEOUT"}
    /\ event_inloop \in BOOLEAN

EventInv ==
    /\ ScalarTypes
    /\ WellQueued(queue, flags)
    /\ Sorted(queue["TIMEOUT"], left)
    /\ ~event_inloop => queue["ADD"] = <<>>

-----------------------------------------------------------------------------
(* The time queue *)

\* The events that are due before d are the first ones of the time queue.
LEMMA BeforeIsPrefix ==
    ASSUME NEW L \in Nat, NEW A, A \subseteq 1 .. L,
           \A n \in A : \A m \in 1 .. n : m \in A
    PROVE  \E p \in 0 .. L : A = 1 .. p
  <1> DEFINE T == {n \in 0 .. L : n + 1 \notin A}
  <1>1. L \in T
    OBVIOUS
  <1>2. PICK p \in T : \A n \in T : p <= n
    <2>1. T \in SUBSET Nat
      OBVIOUS
    <2> HIDE DEF T
    <2> QED
      BY <1>1, <2>1, LeastExists
  <1>3. p \in 0 .. L /\ p + 1 \notin A
    OBVIOUS
  <1>4. ASSUME NEW n \in 1 .. p PROVE n \in A
    <2>1. n - 1 \in 0 .. L /\ ~(p <= n - 1) /\ (n - 1) + 1 = n
      BY <1>3
    <2> QED
      BY <1>2, <2>1
  <1>5. ASSUME NEW n \in A PROVE n \in 1 .. p
    <2>1. n \in 1 .. L
      OBVIOUS
    <2>2. ~(p + 1 \in 1 .. n)
      BY <1>3
    <2> QED
      BY <1>3, <2>1, <2>2
  <1> QED
    BY <1>3, <1>4, <1>5

\* What event_add puts into the time queue keeps its order.
LEMMA InTimeKeeps ==
    ASSUME NEW q \in Seq(Events), NEW e \in Events, NEW d \in Nat,
           left \in [Events -> Nat], Distinct(q), e \notin Elems(q), Sorted(q, left)
    PROVE  /\ InTime(q, e, d) \in Seq(Events)
           /\ Distinct(InTime(q, e, d))
           /\ Elems(InTime(q, e, d)) = Elems(q) \cup {e}
           /\ Sorted(InTime(q, e, d), [left EXCEPT ![e] = d])
  <1> DEFINE L == Len(q)
             A == {n \in DOMAIN q : \A m \in 1 .. n : left[q[m]] < d}
             l == [left EXCEPT ![e] = d]
             r == InTime(q, e, d)
  <1>1. L \in Nat /\ DOMAIN q = 1 .. L /\ \A i \in 1 .. L : q[i] \in Events
    OBVIOUS
  <1>2. \E p \in 0 .. L : A = 1 .. p
    <2>1. A \subseteq 1 .. L
      BY <1>1
    <2>2. ASSUME NEW n \in A, NEW m \in 1 .. n PROVE m \in A
      <3>1. n \in 1 .. L /\ m \in 1 .. L /\ 1 .. m \subseteq 1 .. n
        BY <1>1
      <3> QED
        BY <1>1, <3>1
    <2> HIDE DEF A, L
    <2> QED
      BY <1>1, <2>1, <2>2, BeforeIsPrefix
  <1>3. PICK p \in 0 .. L : A = 1 .. p
    BY <1>2
  <1>4. p \in Nat /\ p <= L
    BY <1>1
  <1>5. Cardinality(A) = p
    <2>1. Cardinality(1 .. p) = p
      <3>1. Cardinality(1 .. p) = IF 1 > p THEN 0 ELSE p - 1 + 1
        BY <1>4, FS_Interval
      <3> QED
        BY <3>1, <1>4
    <2> QED
      BY <1>3, <2>1
  <1>6. r = SubSeq(q, 1, p) \o <<e>> \o SubSeq(q, p + 1, L)
    <2>1. r = InsertAt(q, 1 + Cardinality(A), e)
      BY DEF InTime
    <2>2. r = InsertAt(q, 1 + p, e)
      BY <2>1, <1>5
    <2>3. (1 + p) - 1 = p /\ 1 + p = p + 1
      BY <1>4
    <2> QED
      BY <2>2, <2>3 DEF InsertAt
  <1> DEFINE a == SubSeq(q, 1, p)
             b == SubSeq(q, p + 1, L)
  <1>7. /\ a \in Seq(Events) /\ b \in Seq(Events) /\ Len(a) = p /\ Len(b) = L - p
        /\ \A i \in 1 .. p : a[i] = q[i]
        /\ \A i \in 1 .. L - p : b[i] = q[p + i]
        /\ Elems(q) = Elems(a) \cup Elems(b)
        /\ Distinct(a) /\ Distinct(b) /\ Elems(a) \cap Elems(b) = {}
    BY SplitQueue
  <1>8. <<e>> \in Seq(Events) /\ Elems(<<e>>) = {e} /\ Distinct(<<e>>) /\ Len(<<e>>) = 1
        /\ <<e>>[1] = e
    BY DEF Elems, Distinct
  <1> HIDE DEF a, b
  <1>9. /\ r \in Seq(Events) /\ Elems(r) = Elems(a) \cup {e} \cup Elems(b)
        /\ Distinct(r)
    <2> DEFINE c == a \o <<e>>
    <2>1. c \in Seq(Events) /\ Elems(c) = Elems(a) \cup {e} /\ Distinct(c)
      <3>1. Elems(a) \cap Elems(<<e>>) = {}
        BY <1>7, <1>8
      <3> QED
        <4> DEFINE one == <<e>>
        <4> HIDE DEF one
        <4>1. one \in Seq(Events) /\ Elems(one) = {e} /\ Distinct(one)
          BY <1>8 DEF one
        <4>2. c = a \o one /\ Elems(a) \cap Elems(one) = {}
          BY <3>1 DEF one
        <4> HIDE DEF c
        <4> QED
          BY <1>7, <4>1, <4>2, ConcatQueue
    <2>2. Elems(c) \cap Elems(b) = {}
      BY <2>1, <1>7
    <2>3. r = c \o b
      BY <1>6 DEF a, b
    <2> HIDE DEF c, r
    <2> QED
      BY <1>7, <2>1, <2>2, <2>3, ConcatQueue
  <1>10. /\ Len(r) = L + 1
         /\ \A i \in 1 .. L + 1 : r[i] = IF i <= p THEN q[i] ELSE IF i = p + 1 THEN e ELSE q[i - 1]
    <2> DEFINE c == a \o <<e>>
    <2>1. /\ c \in Seq(Events) /\ Len(c) = p + 1
          /\ \A i \in 1 .. p + 1 : c[i] = IF i <= p THEN a[i] ELSE <<e>>[i - p]
      BY <1>7, <1>8, <1>4, ConcatProperties, SMTT(20)
    <2>2. \A i \in 1 .. p + 1 : c[i] = IF i <= p THEN q[i] ELSE e
      BY <2>1, <1>7, <1>8, <1>4
    <2>3. r = c \o b
      BY <1>6 DEF a, b
    <2> HIDE DEF c, r
    <2>4. /\ Len(r) = (p + 1) + (L - p)
          /\ \A i \in 1 .. (p + 1) + (L - p) : r[i] = IF i <= p + 1 THEN c[i] ELSE b[i - (p + 1)]
      <3> HIDE DEF L
      <3>1. /\ Len(r) = Len(c) + Len(b)
            /\ \A i \in 1 .. Len(c) + Len(b) : r[i] = IF i <= Len(c) THEN c[i] ELSE b[i - Len(c)]
        <4>1. c \in Seq(Events) /\ b \in Seq(Events)
          BY <2>1, <1>7
        <4> QED
          BY <4>1, <2>3, ConcatProperties, Zenon
      <3> QED
        BY <2>1, <1>7, <3>1
    <2>5. (p + 1) + (L - p) = L + 1
      BY <1>4, <1>1
    <2>6. ASSUME NEW i \in 1 .. L + 1
          PROVE  r[i] = IF i <= p THEN q[i] ELSE IF i = p + 1 THEN e ELSE q[i - 1]
      <3>1. r[i] = IF i <= p + 1 THEN c[i] ELSE b[i - (p + 1)]
        BY <2>4, <2>5
      <3>2. CASE i <= p + 1
        BY <3>1, <3>2, <2>2, <1>4
      <3>3. CASE ~(i <= p + 1)
        <4>1. i - (p + 1) \in 1 .. L - p /\ p + (i - (p + 1)) = i - 1 /\ ~(i <= p) /\ i # p + 1
          BY <3>3, <1>4, <1>1
        <4> QED
          BY <3>1, <3>3, <4>1, <1>7
      <3> QED
        BY <3>2, <3>3
    <2> QED
      BY <2>4, <2>5, <2>6
  <1>11. Sorted(r, l)
    <2>1. \A i \in 1 .. L : l[q[i]] = left[q[i]] /\ left[q[i]] \in Nat
      BY <1>1 DEF Elems
    <2>2. l[e] = d
      OBVIOUS
    <2>3. \A i \in 1 .. p : left[q[i]] < d
      BY <1>3, <1>4, SMTT(20)
    <2>4. p < L => ~(left[q[p + 1]] < d)
      <3> SUFFICES ASSUME p < L, left[q[p + 1]] < d PROVE FALSE
        OBVIOUS
      <3>1. p + 1 \in 1 .. L /\ \A m \in 1 .. p + 1 : m \in 1 .. p \/ m = p + 1
        BY <1>4, <1>1
      <3>2. p + 1 \in A
        BY <3>1, <2>3, <1>1
      <3> QED
        BY <3>2, <1>3, <1>4, SMTT(20)
    <2>5. \A i \in 1 .. L : i > p => d <= left[q[i]]
      <3> SUFFICES ASSUME NEW i \in 1 .. L, i > p PROVE d <= left[q[i]]
        OBVIOUS
      <3>1. p < L /\ p + 1 \in 1 .. L /\ (i = p + 1 \/ p + 1 < i)
        BY <1>4, <1>1
      <3>2. left[q[p + 1]] <= left[q[i]]
        BY <3>1, <2>1 DEF Sorted
      <3> QED
        BY <3>1, <3>2, <2>4, <2>1
    <2> HIDE DEF r, l, A, L
    <2> SUFFICES ASSUME NEW m \in 1 .. L + 1, NEW n \in 1 .. L + 1, m < n
                 PROVE  l[r[m]] <= l[r[n]]
      BY <1>10 DEF Sorted
    <2>6. \A i, j \in 1 .. L : i < j => left[q[i]] <= left[q[j]]
      BY DEF Sorted, L
    <2>7. r[m] = IF m <= p THEN q[m] ELSE IF m = p + 1 THEN e ELSE q[m - 1]
      BY <1>10
    <2>8. r[n] = IF n <= p THEN q[n] ELSE IF n = p + 1 THEN e ELSE q[n - 1]
      BY <1>10
    <2>9. m \in 1 .. L
      BY <1>1
    <2>10. CASE n <= p
      BY <2>7, <2>8, <2>10, <2>9, <2>6, <2>1, <1>4, <1>1
    <2>11. CASE n = p + 1
      BY <2>7, <2>8, <2>11, <2>9, <2>3, <2>1, <2>2, <1>4, <1>1
    <2>12. CASE n > p + 1
      <3>1. n - 1 \in 1 .. L /\ n - 1 > p /\ r[n] = q[n - 1]
        BY <2>12, <2>8, <1>4, <1>1
      <3>2. CASE m <= p
        BY <3>1, <3>2, <2>9, <2>7, <2>6, <2>1, <1>4, <1>1
      <3>3. CASE m = p + 1
        BY <3>1, <3>3, <2>7, <2>5, <2>2, <2>1, <1>4
      <3>4. CASE m > p + 1
        <4>1. m - 1 \in 1 .. L /\ m - 1 < n - 1 /\ r[m] = q[m - 1]
          BY <3>4, <2>7, <1>4, <1>1, SMTT(20)
        <4> QED
          BY <4>1, <3>1, <2>6, <2>1
      <3> QED
        BY <3>2, <3>3, <3>4, <1>4
    <2> QED
      BY <2>10, <2>11, <2>12, <1>4, <1>1
  <1> QED
    BY <1>9, <1>7, <1>11
\* A queue without one event is in the same order.
LEMMA UnlinkedKeeps ==
    ASSUME NEW q \in Seq(Events), NEW e \in Events
    PROVE  /\ Unlinked(q, e) \in Seq(Events)
           /\ Elems(Unlinked(q, e)) = Elems(q) \ {e}
           /\ Distinct(q) => Distinct(Unlinked(q, e))
           /\ \A l \in [Events -> Nat] : Sorted(q, l) => Sorted(Unlinked(q, e), l)
  <1> DEFINE g == Unlinked(q, e)
             S == Events \ {e}
  <1>1. /\ g \in Seq(Events) /\ Elems(g) = Elems(q) \cap S
        /\ Distinct(q) => Distinct(g)
    BY FilterFacts DEF Unlinked
  <1>2. Elems(q) \subseteq Events
    BY DEF Elems
  <1>3. PICK f : Picks(f, g, q, S, Len(q))
    BY FilterPicks DEF Unlinked
  <1> HIDE DEF g, S
  <1>4. ASSUME NEW l \in [Events -> Nat], Sorted(q, l) PROVE Sorted(g, l)
    <2> SUFFICES ASSUME NEW m \in 1 .. Len(g), NEW n \in 1 .. Len(g), m < n
                 PROVE  l[g[m]] <= l[g[n]]
      BY DEF Sorted
    <2>1. /\ f[m] \in 1 .. Len(q) /\ f[n] \in 1 .. Len(q) /\ f[m] < f[n]
          /\ g[m] = q[f[m]] /\ g[n] = q[f[n]]
      BY <1>3 DEF Picks
    <2> QED
      BY <2>1, <1>4 DEF Sorted
  <1>5. Elems(g) = Elems(q) \ {e}
    BY <1>1, <1>2 DEF S
  <1> QED
    BY <1>1, <1>4, <1>5 DEF g

\* Links point to events or nowhere.
LEMMA LinkedTypes ==
    ASSUME NEW q \in Seq(Events), readLink \in [Events -> Pointers]
    PROVE  Linked(q) \in [Events -> Pointers]
  <1> SUFFICES ASSUME NEW e \in Events, NEW n \in DOMAIN q, n < Len(q)
               PROVE  q[n + 1] \in Events
    BY DEF Linked, Pointers
  <1> QED
    OBVIOUS

-----------------------------------------------------------------------------
(* The operations and the queues *)

LEMMA AddPostKeeps ==
    ASSUME NEW q, NEW f, WellQueued(q, f), NEW e \in Events, event_add_post(q, f, e),
           readLink \in [Events -> Pointers]
    PROVE  /\ WellQueued(queue', flags')
           /\ queue'["TIMEOUT"] = q["TIMEOUT"] /\ queue'["ADD"] = q["ADD"]
           /\ readLink' \in [Events -> Pointers]
  <1> DEFINE N == NewKinds(f, e)
  <1>1. N \subseteq {"READ", "WRITE"} /\ N \cap f[e] = {}
    BY EventAssumption DEF NewKinds
  <1>2. /\ queue' = [k \in Kinds |-> IF k \in N THEN Append(q[k], e) ELSE q[k]]
        /\ flags' = [f EXCEPT ![e] = @ \cup N]
        /\ readLink' = Linked(queue'["READ"])
    BY DEF event_add_post
  <1> HIDE DEF N
  <1>3. ASSUME NEW k \in Kinds
        PROVE  /\ queue'[k] \in Seq(Events) /\ Distinct(queue'[k])
               /\ Elems(queue'[k]) = IF k \in N THEN Elems(q[k]) \cup {e} ELSE Elems(q[k])
    <2>1. q[k] \in Seq(Events) /\ Distinct(q[k])
      BY DEF WellQueued
    <2>2. CASE k \in N
      <3>1. e \notin Elems(q[k])
        BY <1>1, <2>2 DEF WellQueued
      <3>2. queue'[k] = Append(q[k], e)
        BY <1>2, <2>2
      <3> QED
        BY <2>1, <2>2, <3>1, <3>2, AppendQueue
    <2>3. CASE k \notin N
      BY <1>2, <2>1, <2>3
    <2> QED
      BY <2>2, <2>3
  <1>4. flags' \in [Events -> SUBSET Kinds]
    BY <1>1, <1>2 DEF WellQueued, Kinds
  <1>5. ASSUME NEW k \in Kinds, NEW x \in Events
        PROVE  x \in Elems(queue'[k]) <=> k \in flags'[x]
    <2>1. x \in Elems(q[k]) <=> k \in f[x]
      BY DEF WellQueued
    <2>2. flags'[x] = IF x = e THEN f[x] \cup N ELSE f[x]
      BY <1>2 DEF WellQueued
    <2> QED
      BY <1>3, <2>1, <2>2
  <1>6. "TIMEOUT" \in Kinds /\ "ADD" \in Kinds /\ "READ" \in Kinds
    BY DEF Kinds
  <1>7. readLink' \in [Events -> Pointers]
    BY <1>2, <1>3, <1>6, LinkedTypes
  <1>8. queue' \in [Kinds -> Seq(Events)]
    BY <1>2, <1>3
  <1>9. WellQueued(queue', flags')
    BY <1>3, <1>4, <1>5, <1>8 DEF WellQueued
  <1>10. queue'["TIMEOUT"] = q["TIMEOUT"] /\ queue'["ADD"] = q["ADD"]
    BY <1>1, <1>2, <1>6
  <1> QED
    BY <1>7, <1>9, <1>10

LEMMA AddKeeps ==
    ASSUME WellQueued(queue, flags), Sorted(queue["TIMEOUT"], left),
           left \in [Events -> Nat], readLink \in [Events -> Pointers],
           event_inloop \in BOOLEAN,
           NEW e \in Events, NEW d \in Nat, event_add(e, d)
    PROVE  /\ WellQueued(queue', flags')
           /\ Sorted(queue'["TIMEOUT"], left')
           /\ left' \in [Events -> Nat] /\ readLink' \in [Events -> Pointers]
           /\ ~event_inloop => queue'["ADD"] = queue["ADD"]
  <1> DEFINE q == IF d = 0 THEN queue
                  ELSE [queue EXCEPT !["TIMEOUT"] = InTime(Unlinked(@, e), e, d)]
             f == IF d = 0 THEN flags ELSE [flags EXCEPT ![e] = @ \cup {"TIMEOUT"}]
             l == IF d = 0 THEN left ELSE [left EXCEPT ![e] = d]
  <1>1. left' = l
    BY DEF event_add
  <1>2. \/ ~event_inloop /\ event_add_post(q, f, e)
        \/ /\ event_inloop /\ "ADD" \in f[e]
           /\ queue' = q /\ flags' = f /\ UNCHANGED readLink
        \/ /\ event_inloop /\ "ADD" \notin f[e]
           /\ queue' = [q EXCEPT !["ADD"] = Append(@, e)]
           /\ flags' = [f EXCEPT ![e] = @ \cup {"ADD"}]
           /\ UNCHANGED readLink
    BY DEF event_add, Postponed
  <1>3. {"READ", "WRITE", "TIMEOUT", "ADD"} \subseteq Kinds
    BY DEF Kinds
  <1>4. WellQueued(q, f) /\ Sorted(q["TIMEOUT"], l) /\ q["ADD"] = queue["ADD"]
        /\ l \in [Events -> Nat]
    <2>1. CASE d = 0
      BY <2>1
    <2>2. CASE d # 0
      <3> DEFINE t == queue["TIMEOUT"]
                 u == Unlinked(t, e)
                 r == InTime(u, e, d)
      <3>1. t \in Seq(Events) /\ Distinct(t)
        BY <1>3 DEF WellQueued
      <3>2. u \in Seq(Events) /\ Elems(u) = Elems(t) \ {e} /\ Distinct(u) /\ Sorted(u, left)
        BY <3>1, UnlinkedKeeps
      <3>3. /\ r \in Seq(Events) /\ Distinct(r) /\ Elems(r) = Elems(u) \cup {e}
            /\ Sorted(r, [left EXCEPT ![e] = d])
        <4> HIDE DEF u
        <4> QED
          BY <3>2, InTimeKeeps
      <3>4. q = [queue EXCEPT !["TIMEOUT"] = r] /\ l = [left EXCEPT ![e] = d]
            /\ f = [flags EXCEPT ![e] = @ \cup {"TIMEOUT"}]
        BY <2>2
      <3> HIDE DEF r, u, q, l, f
      <3>5. queue \in [Kinds -> Seq(Events)] /\ flags \in [Events -> SUBSET Kinds]
        BY DEF WellQueued
      <3>6. q \in [Kinds -> Seq(Events)] /\ q["TIMEOUT"] = r
            /\ \A k \in Kinds : k # "TIMEOUT" => q[k] = queue[k]
        BY <3>3, <3>4, <3>5, <1>3
      <3>7. f \in [Events -> SUBSET Kinds]
            /\ \A x \in Events : f[x] = IF x = e THEN flags[x] \cup {"TIMEOUT"} ELSE flags[x]
        BY <3>4, <3>5, <1>3
      <3>8. \A k \in Kinds : Distinct(q[k])
        BY <3>6, <3>3 DEF WellQueued
      <3>9. ASSUME NEW k \in Kinds, NEW x \in Events
            PROVE  x \in Elems(q[k]) <=> k \in f[x]
        <4>1. x \in Elems(queue[k]) <=> k \in flags[x]
          BY DEF WellQueued
        <4>2. CASE k = "TIMEOUT"
          BY <4>1, <4>2, <3>2, <3>3, <3>6, <3>7
        <4>3. CASE k # "TIMEOUT"
          BY <4>1, <4>3, <3>6, <3>7
        <4> QED
          BY <4>2, <4>3
      <3>10. WellQueued(q, f)
        BY <3>6, <3>7, <3>8, <3>9 DEF WellQueued
      <3>11. l \in [Events -> Nat]
        BY <3>4
      <3> QED
        BY <3>10, <3>6, <3>3, <3>4, <3>11, <1>3
    <2> QED
      BY <2>1, <2>2
  <1> HIDE DEF q, f, l
  <1>5. CASE ~event_inloop /\ event_add_post(q, f, e)
    BY <1>1, <1>4, <1>5, AddPostKeeps
  <1>6. CASE event_inloop /\ queue' = q /\ flags' = f /\ UNCHANGED readLink
    BY <1>1, <1>4, <1>6
  <1>7. CASE /\ event_inloop /\ "ADD" \notin f[e]
             /\ queue' = [q EXCEPT !["ADD"] = Append(@, e)]
             /\ flags' = [f EXCEPT ![e] = @ \cup {"ADD"}]
             /\ UNCHANGED readLink
    <2>1. q \in [Kinds -> Seq(Events)] /\ f \in [Events -> SUBSET Kinds]
      BY <1>4 DEF WellQueued
    <2>2. q["ADD"] \in Seq(Events) /\ Distinct(q["ADD"]) /\ e \notin Elems(q["ADD"])
      BY <1>3, <1>4, <1>7 DEF WellQueued
    <2>3. /\ Append(q["ADD"], e) \in Seq(Events) /\ Distinct(Append(q["ADD"], e))
          /\ Elems(Append(q["ADD"], e)) = Elems(q["ADD"]) \cup {e}
      BY <2>2, AppendQueue
    <2>4. /\ queue' \in [Kinds -> Seq(Events)] /\ queue'["ADD"] = Append(q["ADD"], e)
          /\ \A k \in Kinds : k # "ADD" => queue'[k] = q[k]
      BY <1>3, <1>7, <2>1, <2>3
    <2>5. /\ flags' \in [Events -> SUBSET Kinds]
          /\ \A x \in Events : flags'[x] = IF x = e THEN f[x] \cup {"ADD"} ELSE f[x]
      BY <1>3, <1>7, <2>1
    <2>6. \A k \in Kinds : Distinct(queue'[k])
      BY <2>3, <2>4, <1>4 DEF WellQueued
    <2>7. ASSUME NEW k \in Kinds, NEW x \in Events
          PROVE  x \in Elems(queue'[k]) <=> k \in flags'[x]
      <3>1. x \in Elems(q[k]) <=> k \in f[x]
        BY <1>4 DEF WellQueued
      <3>2. CASE k = "ADD"
        BY <3>1, <3>2, <2>3, <2>4, <2>5
      <3>3. CASE k # "ADD"
        BY <3>1, <3>3, <2>4, <2>5
      <3> QED
        BY <3>2, <3>3
    <2>8. WellQueued(queue', flags')
      BY <2>4, <2>5, <2>6, <2>7 DEF WellQueued
    <2> QED
      BY <2>8, <2>4, <1>1, <1>3, <1>4, <1>7
  <1> QED
    BY <1>2, <1>5, <1>6, <1>7

LEMMA DelKeeps ==
    ASSUME WellQueued(queue, flags), Sorted(queue["TIMEOUT"], left),
           left \in [Events -> Nat], readLink \in [Events -> Pointers],
           NEW e \in Events, event_del(e)
    PROVE  /\ WellQueued(queue', flags')
           /\ Sorted(queue'["TIMEOUT"], left')
           /\ left' \in [Events -> Nat] /\ readLink' \in [Events -> Pointers]
           /\ queue["ADD"] = <<>> => queue'["ADD"] = <<>>
           /\ \A k \in Kinds : Elems(queue'[k]) = Elems(queue[k]) \ {e}
  <1>1. /\ queue' = [k \in Kinds |-> IF k \in flags[e] THEN Unlinked(queue[k], e) ELSE queue[k]]
        /\ flags' = [flags EXCEPT ![e] = {}]
        /\ readLink' = Linked(queue'["READ"])
        /\ left' = [left EXCEPT ![e] = 0]
    BY DEF event_del, DelKinds
  <1>2. /\ queue \in [Kinds -> Seq(Events)] /\ flags \in [Events -> SUBSET Kinds]
        /\ {"READ", "WRITE", "TIMEOUT", "ADD"} \subseteq Kinds
    BY DEF WellQueued, Kinds
  <1>3. ASSUME NEW k \in Kinds
        PROVE  /\ queue'[k] \in Seq(Events) /\ Distinct(queue'[k])
               /\ Elems(queue'[k]) = Elems(queue[k]) \ {e}
               /\ Sorted(queue[k], left) => Sorted(queue'[k], left)
    <2>1. queue[k] \in Seq(Events) /\ Distinct(queue[k])
      BY DEF WellQueued
    <2>2. CASE k \in flags[e]
      BY <1>1, <2>1, <2>2, UnlinkedKeeps
    <2>3. CASE k \notin flags[e]
      <3>1. e \notin Elems(queue[k])
        BY <2>3 DEF WellQueued
      <3> QED
        BY <1>1, <2>1, <2>3, <3>1
    <2> QED
      BY <2>2, <2>3
  <1>4. flags' \in [Events -> SUBSET Kinds]
    BY <1>1, <1>2
  <1>5. ASSUME NEW k \in Kinds, NEW x \in Events
        PROVE  x \in Elems(queue'[k]) <=> k \in flags'[x]
    <2>1. x \in Elems(queue[k]) <=> k \in flags[x]
      BY DEF WellQueued
    <2>2. flags'[x] = IF x = e THEN {} ELSE flags[x]
      BY <1>1, <1>2
    <2> QED
      BY <1>3, <2>1, <2>2
  <1>6. queue' \in [Kinds -> Seq(Events)]
    BY <1>1, <1>3
  <1>7. WellQueued(queue', flags')
    BY <1>3, <1>4, <1>5, <1>6 DEF WellQueued
  <1>8. Sorted(queue'["TIMEOUT"], left')
    <2> DEFINE t == queue'["TIMEOUT"]
    <2>1. Sorted(t, left) /\ t \in Seq(Events) /\ e \notin Elems(t)
      BY <1>2, <1>3
    <2>2. \A i \in 1 .. Len(t) : left'[t[i]] = left[t[i]]
      <3> SUFFICES ASSUME NEW i \in 1 .. Len(t) PROVE left'[t[i]] = left[t[i]]
        OBVIOUS
      <3> HIDE DEF t
      <3>1. t[i] \in Events /\ t[i] \in Elems(t)
        BY <2>1 DEF Elems
      <3> QED
        BY <1>1, <2>1, <3>1
    <2> QED
      BY <2>1, <2>2 DEF Sorted
  <1>9. left' \in [Events -> Nat] /\ readLink' \in [Events -> Pointers]
    BY <1>1, <1>2, <1>3, LinkedTypes
  <1>10. ASSUME queue["ADD"] = <<>> PROVE queue'["ADD"] = <<>>
    <2>1. e \notin Elems(queue["ADD"])
      BY <1>10 DEF Elems
    <2>2. "ADD" \notin flags[e]
      BY <2>1, <1>2 DEF WellQueued
    <2> QED
      BY <1>1, <1>2, <1>10, <2>2
  <1> QED
    BY <1>3, <1>7, <1>8, <1>9, <1>10

\* The postponed additions.
LEMMA EndWriteQueues ==
    ASSUME WellQueued(queue, flags), readLink \in [Events -> Pointers], EndWrite
    PROVE  /\ WellQueued(queue', flags')
           /\ queue'["TIMEOUT"] = queue["TIMEOUT"] /\ queue'["ADD"] = <<>>
           /\ readLink' \in [Events -> Pointers]
           /\ \A e \in Events : flags'[e] = IF "ADD" \in flags[e]
                 THEN (flags[e] \ {"ADD"}) \cup EvEvents[e] ELSE flags[e]
  <1> DEFINE N(k) == {e \in Events : k \in NewKinds(flags, e)}
             P == queue["ADD"]
  <1>1. /\ queue' = [k \in Kinds |-> IF k = "ADD" THEN <<>> ELSE queue[k] \o Filter(P, N(k))]
        /\ flags' = [e \in Events |-> IF e \in Range(P)
                THEN (flags[e] \ {"ADD"}) \cup NewKinds(flags, e) ELSE flags[e]]
        /\ readLink' = Linked(queue'["READ"])
    BY DEF EndWrite
  <1>2. /\ queue \in [Kinds -> Seq(Events)] /\ flags \in [Events -> SUBSET Kinds]
        /\ {"READ", "WRITE", "TIMEOUT", "ADD"} \subseteq Kinds
        /\ P \in Seq(Events) /\ Distinct(P)
    BY DEF WellQueued, Kinds
  <1>3. Range(P) = Elems(P)
    BY <1>2 DEF Range, Elems
  <1>4. \A e \in Events : e \in Range(P) <=> "ADD" \in flags[e]
    BY <1>2, <1>3 DEF WellQueued
  <1>5. \A e \in Events : NewKinds(flags, e) = EvEvents[e] \ flags[e]
                          /\ EvEvents[e] \subseteq {"READ", "WRITE"}
    BY EventAssumption DEF NewKinds
  <1>6. /\ flags' \in [Events -> SUBSET Kinds]
        /\ \A e \in Events : flags'[e] = IF "ADD" \in flags[e]
                 THEN (flags[e] \ {"ADD"}) \cup EvEvents[e] ELSE flags[e]
    <2>1. \A e \in Events : (flags[e] \ {"ADD"}) \cup NewKinds(flags, e)
                            = (flags[e] \ {"ADD"}) \cup EvEvents[e]
      BY <1>5
    <2>2. \A e \in Events : flags'[e] = IF "ADD" \in flags[e]
                 THEN (flags[e] \ {"ADD"}) \cup EvEvents[e] ELSE flags[e]
      BY <1>1, <1>4, <2>1
    <2>3. \A e \in Events : EvEvents[e] \subseteq Kinds
      BY <1>2, <1>5
    <2> QED
      BY <1>1, <1>2, <2>2, <2>3
  <1>7. ASSUME NEW k \in Kinds, k # "ADD"
        PROVE  /\ queue'[k] \in Seq(Events) /\ Distinct(queue'[k])
               /\ Elems(queue'[k]) = Elems(queue[k]) \cup (Elems(P) \cap N(k))
    <2> DEFINE g == Filter(P, N(k))
    <2>1. g \in Seq(Events) /\ Elems(g) = Elems(P) \cap N(k) /\ Distinct(g)
      BY <1>2, FilterFacts
    <2>2. queue'[k] = queue[k] \o g
      BY <1>1, <1>7
    <2>3. queue[k] \in Seq(Events) /\ Distinct(queue[k])
      BY DEF WellQueued
    <2>4. Elems(queue[k]) \cap N(k) = {}
      BY <1>5 DEF WellQueued
    <2>5. Elems(queue[k]) \cap Elems(g) = {}
      BY <2>1, <2>4
    <2> HIDE DEF g, N, P
    <2> QED
      BY <2>1, <2>2, <2>3, <2>5, ConcatQueue
  <1>8. queue'["ADD"] = <<>> /\ Elems(queue'["ADD"]) = {} /\ Distinct(queue'["ADD"])
        /\ queue'["ADD"] \in Seq(Events)
    BY <1>1, <1>2 DEF Elems, Distinct
  <1>9. ASSUME NEW k \in Kinds, NEW x \in Events
        PROVE  x \in Elems(queue'[k]) <=> k \in flags'[x]
    <2>1. x \in Elems(queue[k]) <=> k \in flags[x]
      BY DEF WellQueued
    <2>2. CASE k = "ADD"
      BY <1>5, <1>6, <1>8, <2>2
    <2>3. CASE k # "ADD"
      <3>1. x \in Elems(queue'[k]) <=> (x \in Elems(queue[k]) \/ (x \in Elems(P) /\ k \in NewKinds(flags, x)))
        BY <1>7, <2>3
      <3>2. x \in Elems(P) <=> "ADD" \in flags[x]
        BY <1>3, <1>4
      <3> QED
        BY <2>1, <2>3, <3>1, <3>2, <1>5, <1>6
    <2> QED
      BY <2>2, <2>3
  <1>10. \A k \in Kinds : queue'[k] \in Seq(Events) /\ Distinct(queue'[k])
    BY <1>7, <1>8
  <1>11. WellQueued(queue', flags')
    <2>1. queue' \in [Kinds -> Seq(Events)]
      BY <1>1, <1>10
    <2> QED
      BY <2>1, <1>6, <1>9, <1>10 DEF WellQueued
  <1>12. queue'["TIMEOUT"] = queue["TIMEOUT"]
    <2>1. N("TIMEOUT") = {}
      BY <1>5
    <2>2. /\ Filter(P, N("TIMEOUT")) \in Seq(Events)
          /\ Elems(Filter(P, N("TIMEOUT"))) = {}
      BY <1>2, <2>1, FilterFacts
    <2>3. Filter(P, N("TIMEOUT")) = <<>>
      <3> DEFINE g == Filter(P, N("TIMEOUT"))
      <3> HIDE DEF g, N, P
      <3>1. g \in Seq(Events) /\ Elems(g) = {}
        BY <2>2 DEF g
      <3>2. Len(g) = 0
        <4>1. Len(g) \in Nat
          BY <3>1
        <4>2. 1 \in 1 .. Len(g) => g[1] \in Elems(g)
          BY DEF Elems
        <4> QED
          BY <3>1, <4>1, <4>2
      <3>3. g = <<>>
        BY <3>1, <3>2, EmptySeq
      <3> QED
        BY <3>3 DEF g
    <2>4. queue'["TIMEOUT"] = queue["TIMEOUT"] \o <<>>
      BY <1>1, <1>2, <2>3
    <2> QED
      BY <1>2, <2>4, ConcatEmptySeq
  <1>13. readLink' \in [Events -> Pointers]
    BY <1>1, <1>2, <1>10, LinkedTypes
  <1> QED
    BY <1>6, <1>8, <1>11, <1>12, <1>13

-----------------------------------------------------------------------------
(* The inductive invariant *)

LEMMA EventInvInit == EventInit => EventInv
  <1> SUFFICES ASSUME EventInit PROVE EventInv
    OBVIOUS
  <1>1. ScalarTypes
    BY DEF EventInit, ScalarTypes, Pointers
  <1>2. queue \in [Kinds -> Seq(Events)] /\ \A k \in Kinds : queue[k] = <<>>
    BY DEF EventInit
  <1>3. Elems(<<>>) = {} /\ Distinct(<<>>)
    BY DEF Elems, Distinct
  <1>4. WellQueued(queue, flags)
    BY <1>2, <1>3 DEF EventInit, WellQueued
  <1>5. queue["TIMEOUT"] = <<>> /\ queue["ADD"] = <<>>
    BY <1>2 DEF Kinds
  <1>6. Sorted(queue["TIMEOUT"], left)
    BY <1>5 DEF Sorted
  <1> QED
    BY <1>1, <1>4, <1>5, <1>6 DEF EventInv

\* Heads of queues, and the time until the first timeout.
LEMMA FirstTypes ==
    ASSUME EventInv, NEW k \in Kinds
    PROVE  First(k) \in Pointers
  BY DEF EventInv, WellQueued, First, Pointers

LEMMA NextTypes ==
    ASSUME EventInv
    PROVE  timeout_next \in Nat
  <1>1. queue["TIMEOUT"] \in Seq(Events) /\ left \in [Events -> Nat]
    BY DEF EventInv, WellQueued, Kinds, ScalarTypes
  <1> QED
    BY <1>1, EventAssumption DEF timeout_next, First

LEMMA CallStep ==
    ASSUME EventInv, AppCall
    PROVE  EventInv'
  <1>1. PICK e \in Events : AppDel(e) \/ \E d \in Delays \cup {0} : AppAdd(e, d)
    BY DEF AppCall
  <1>2. /\ WellQueued(queue', flags') /\ Sorted(queue'["TIMEOUT"], left')
        /\ left' \in [Events -> Nat] /\ readLink' \in [Events -> Pointers]
        /\ ~event_inloop => queue'["ADD"] = <<>>
    <2>1. CASE AppDel(e)
      BY <2>1, DelKeeps DEF AppDel, EventInv, ScalarTypes
    <2>2. CASE \E d \in Delays \cup {0} : AppAdd(e, d)
      <3>1. PICK d \in Delays \cup {0} : AppAdd(e, d)
        BY <2>2
      <3>2. d \in Nat
        BY EventAssumption
      <3> QED
        BY <3>1, <3>2, AddKeeps DEF AppAdd, EventInv, ScalarTypes
    <2> QED
      BY <1>1, <2>1, <2>2
  <1>3. ScalarTypes'
    BY <1>2 DEF EventInv, ScalarTypes, AppCall
  <1>4. event_inloop' = event_inloop
    BY DEF AppCall
  <1> QED
    BY <1>2, <1>3, <1>4 DEF EventInv

LEMMA FireStep ==
    ASSUME EventInv, NEW k \in {"READ", "WRITE"}, NEW set, Fire(k, set)
    PROVE  EventInv'
  <1>1. ev \in Events
    BY DEF EventInv, ScalarTypes, Fire, Pointers
  <1>2. event_del(ev)
    BY DEF Fire
  <1>3. /\ WellQueued(queue', flags') /\ Sorted(queue'["TIMEOUT"], left')
        /\ left' \in [Events -> Nat] /\ readLink' \in [Events -> Pointers]
        /\ queue["ADD"] = <<>> => queue'["ADD"] = <<>>
    BY <1>1, <1>2, DelKeeps DEF EventInv, ScalarTypes
  <1>4. ScalarTypes'
    BY <1>1, <1>3 DEF EventInv, ScalarTypes, Fire, Callback
  <1>5. event_inloop' = event_inloop
    BY DEF Fire
  <1> QED
    BY <1>3, <1>4, <1>5 DEF EventInv

LEMMA EndWriteStep ==
    ASSUME EventInv, EndWrite
    PROVE  EventInv'
  <1>1. /\ WellQueued(queue', flags')
        /\ queue'["TIMEOUT"] = queue["TIMEOUT"] /\ queue'["ADD"] = <<>>
        /\ readLink' \in [Events -> Pointers]
    BY EndWriteQueues DEF EventInv, ScalarTypes
  <1>2. left' = left
    BY DEF EndWrite
  <1>3. Sorted(queue'["TIMEOUT"], left')
    BY <1>1, <1>2 DEF EventInv
  <1>4. ScalarTypes'
    BY <1>1 DEF EventInv, ScalarTypes, EndWrite, AfterLoops
  <1> QED
    BY <1>1, <1>3, <1>4 DEF EventInv

LEMMA TimeoutStep ==
    ASSUME EventInv, TimeoutFires
    PROVE  EventInv'
  <1> DEFINE t == queue["TIMEOUT"]
             e == First("TIMEOUT")
  <1>1. /\ queue' = [queue EXCEPT !["TIMEOUT"] = Tail(@)]
        /\ flags' = [flags EXCEPT ![e] = @ \ {"TIMEOUT"}]
        /\ left' = left /\ event_inloop' = event_inloop /\ t # <<>> /\ e = Head(t)
    BY DEF TimeoutFires, Due, First
  <1>2. /\ queue \in [Kinds -> Seq(Events)] /\ flags \in [Events -> SUBSET Kinds]
        /\ {"READ", "WRITE", "TIMEOUT", "ADD"} \subseteq Kinds
        /\ t \in Seq(Events) /\ Distinct(t)
    BY DEF EventInv, WellQueued, Kinds
  <1>3. /\ Tail(t) \in Seq(Events) /\ Len(Tail(t)) = Len(t) - 1 /\ Len(t) \in Nat \ {0}
        /\ Head(t) \in Events
        /\ \A i \in 1 .. Len(t) - 1 : Tail(t)[i] = t[i + 1]
        /\ Elems(t) = Elems(Tail(t)) \cup {Head(t)}
        /\ Distinct(Tail(t)) /\ Head(t) \notin Elems(Tail(t))
    BY <1>1, <1>2, TailQueue
  <1>4. /\ queue' \in [Kinds -> Seq(Events)] /\ queue'["TIMEOUT"] = Tail(t)
        /\ \A k \in Kinds : k # "TIMEOUT" => queue'[k] = queue[k]
    BY <1>1, <1>2, <1>3
  <1>5. /\ flags' \in [Events -> SUBSET Kinds]
        /\ \A x \in Events : flags'[x] = IF x = Head(t) THEN flags[x] \ {"TIMEOUT"} ELSE flags[x]
    BY <1>1, <1>2
  <1>6. ASSUME NEW k \in Kinds, NEW x \in Events
        PROVE  x \in Elems(queue'[k]) <=> k \in flags'[x]
    <2>1. x \in Elems(queue[k]) <=> k \in flags[x]
      BY DEF EventInv, WellQueued
    <2>2. CASE k = "TIMEOUT"
      BY <1>3, <1>4, <1>5, <2>1, <2>2
    <2>3. CASE k # "TIMEOUT"
      BY <1>4, <1>5, <2>1, <2>3
    <2> QED
      BY <2>2, <2>3
  <1>7. \A k \in Kinds : Distinct(queue'[k])
    BY <1>3, <1>4 DEF EventInv, WellQueued
  <1>8. WellQueued(queue', flags')
    BY <1>4, <1>5, <1>6, <1>7 DEF WellQueued
  <1>9. Sorted(queue'["TIMEOUT"], left')
    <2> SUFFICES ASSUME NEW m \in 1 .. Len(t) - 1, NEW n \in 1 .. Len(t) - 1, m < n
                 PROVE  left[Tail(t)[m]] <= left[Tail(t)[n]]
      BY <1>1, <1>3, <1>4 DEF Sorted
    <2>1. m + 1 \in 1 .. Len(t) /\ n + 1 \in 1 .. Len(t) /\ m + 1 < n + 1
      BY <1>3
    <2>2. left[t[m + 1]] <= left[t[n + 1]]
      BY <2>1 DEF EventInv, Sorted
    <2> QED
      BY <1>3, <2>2
  <1>10. ScalarTypes'
    <2>1. ev' \in Events /\ lpc' = "application" /\ what' = "TIMEOUT"
      BY <1>1, <1>3 DEF TimeoutFires, Callback
    <2> QED
      BY <2>1 DEF EventInv, ScalarTypes, TimeoutFires, Pointers
  <1>11. queue'["ADD"] = queue["ADD"]
    BY <1>2, <1>4
  <1> QED
    BY <1>1, <1>8, <1>9, <1>10, <1>11 DEF EventInv

LEMMA TickStep ==
    ASSUME EventInv, Tick
    PROVE  EventInv'
  <1>1. \A t \in Nat : Less(t) \in Nat
    BY DEF Less
  <1>2. \A s, t \in Nat : s <= t => Less(s) <= Less(t)
    BY DEF Less
  <1>3. left' = [e \in Events |-> Less(left[e])] /\ queue' = queue /\ flags' = flags
        /\ event_inloop' = event_inloop
    BY DEF Tick
  <1>4. ScalarTypes'
    BY <1>1 DEF EventInv, ScalarTypes, Tick
  <1>5. Sorted(queue'["TIMEOUT"], left')
    <2> DEFINE t == queue["TIMEOUT"]
    <2>1. t \in Seq(Events) /\ left \in [Events -> Nat] /\ Sorted(t, left)
      BY DEF EventInv, WellQueued, Kinds, ScalarTypes
    <2>2. \A i \in 1 .. Len(t) : t[i] \in Events
      BY <2>1
    <2> SUFFICES ASSUME NEW m \in 1 .. Len(t), NEW n \in 1 .. Len(t), m < n
                 PROVE  left'[t[m]] <= left'[t[n]]
      BY <1>3 DEF Sorted
    <2>3. left'[t[m]] = Less(left[t[m]]) /\ left'[t[n]] = Less(left[t[n]])
      BY <1>3, <2>2
    <2>4. left[t[m]] \in Nat /\ left[t[n]] \in Nat /\ left[t[m]] <= left[t[n]]
      BY <2>1, <2>2 DEF Sorted
    <2> QED
      BY <1>2, <2>3, <2>4
  <1> QED
    BY <1>3, <1>4, <1>5 DEF EventInv

LEMMA EventInvNext == EventInv /\ [EventNext]_loopVars => EventInv'
  <1> SUFFICES ASSUME EventInv, [EventNext]_loopVars PROVE EventInv'
    OBVIOUS
  <1> DEFINE Kept == UNCHANGED lists /\ (event_inloop' = event_inloop \/ event_inloop' = TRUE)
  <1>1. ASSUME Kept, ScalarTypes' PROVE EventInv'
    BY <1>1 DEF EventInv, lists
  <1>2. CASE AppCall
    BY <1>2, CallStep
  <1>3. CASE event_dispatch
    <2>1. ScalarTypes'
      BY <1>3, NextTypes DEF EventInv, ScalarTypes, event_dispatch, lists
    <2> QED
      BY <1>1, <1>3, <2>1 DEF event_dispatch
  <1>4. CASE CallbackReturns
    <2>1. ScalarTypes'
      BY <1>4 DEF EventInv, ScalarTypes, CallbackReturns, lists, Pointers
    <2> QED
      BY <1>1, <1>4, <2>1 DEF CallbackReturns
  <1>5. CASE Fire("READ", readset) \/ Fire("WRITE", writeset)
    BY <1>5, FireStep
  <1>6. ASSUME NEW k \in {"READ", "WRITE"}, NEW set, Pass(k, set) PROVE EventInv'
    <2>1. ScalarTypes'
      BY <1>6 DEF EventInv, ScalarTypes, Pass, lists, Pointers
    <2> QED
      BY <1>1, <1>6, <2>1 DEF Pass
  <1>7. CASE EndRead
    <2>1. ScalarTypes'
      BY <1>7, FirstTypes DEF EventInv, ScalarTypes, EndRead, lists, Kinds
    <2> QED
      BY <1>1, <1>7, <2>1 DEF EndRead
  <1>8. CASE EndWrite
    BY <1>8, EndWriteStep
  <1>9. CASE TimeoutFires
    BY <1>9, TimeoutStep
  <1>10. CASE EndTimeouts
    <2>1. ScalarTypes'
      BY <1>10, NextTypes DEF EventInv, ScalarTypes, EndTimeouts, lists
    <2> QED
      BY <1>1, <1>10, <2>1 DEF EndTimeouts
  <1>11. CASE SelectReturns
    <2>1. ScalarTypes'
      BY <1>11, FirstTypes DEF EventInv, ScalarTypes, SelectReturns, lists, Kinds
    <2> QED
      BY <1>1, <1>11, <2>1 DEF SelectReturns
  <1>12. CASE Interrupted
    <2>1. ScalarTypes'
      BY <1>12, NextTypes DEF EventInv, ScalarTypes, Interrupted, lists
    <2> QED
      BY <1>1, <1>12, <2>1 DEF Interrupted
  <1>13. CASE SelectFails
    <2>1. ScalarTypes'
      BY <1>13 DEF EventInv, ScalarTypes, SelectFails, lists
    <2> QED
      BY <1>1, <1>13, <2>1 DEF SelectFails
  <1>14. CASE Tick
    BY <1>14, TickStep
  <1>15. CASE UNCHANGED loopVars
    <2>1. ScalarTypes' /\ Kept
      BY <1>15 DEF EventInv, ScalarTypes, loopVars, lists
    <2> QED
      BY <1>1, <2>1
  <1> QED
    BY <1>2, <1>3, <1>4, <1>5, <1>6, <1>7, <1>8, <1>9, <1>10, <1>11, <1>12, <1>13, <1>14,
       <1>15 DEF EventNext, Scheduled, IoRound

LEMMA EventInvAlways == EventSpec => []EventInv
  <1>1. EventInit => EventInv
    BY EventInvInit
  <1>2. EventInv /\ [EventNext]_loopVars => EventInv'
    BY EventInvNext
  <1> QED
    BY <1>1, <1>2, PTL DEF EventSpec

\* Queues: whatever the application adds and deletes in callbacks, the flags of
\* an event name the queues it is in, each of them once, the time queue stays in
\* order when events are put in, taken out and time passes, and no addition stays
\* postponed outside of the loops.
THEOREM QueuesConsistent == EventSpec => []EventTypeOK
  <1>1. EventInv => EventTypeOK
    <2> SUFFICES ASSUME EventInv PROVE EventTypeOK
      OBVIOUS
    <2>1. ASSUME NEW k \in Kinds
          PROVE  /\ queue[k] \in Seq(Events) /\ IsInjective(queue[k])
                 /\ \A e \in Events : In(e, k) <=> k \in flags[e]
      <3>1. /\ queue[k] \in Seq(Events) /\ Distinct(queue[k])
            /\ \A e \in Events : e \in Elems(queue[k]) <=> k \in flags[e]
        BY DEF EventInv, WellQueued
      <3>2. DOMAIN queue[k] = 1 .. Len(queue[k])
        BY <3>1
      <3>3. Range(queue[k]) = Elems(queue[k])
        BY <3>2 DEF Range, Elems
      <3> QED
        BY <3>1, <3>2, <3>3 DEF IsInjective, Distinct, In
    <2>2. \A m, n \in DOMAIN queue["TIMEOUT"] :
             m < n => left[queue["TIMEOUT"][m]] <= left[queue["TIMEOUT"][n]]
      <3>1. queue["TIMEOUT"] \in Seq(Events) /\ Sorted(queue["TIMEOUT"], left)
        BY DEF EventInv, WellQueued, Kinds
      <3> QED
        BY <3>1 DEF Sorted
    <2> QED
      BY <2>1, <2>2 DEF EventTypeOK, EventInv, ScalarTypes, Pointers
  <1> QED
    BY <1>1, EventInvAlways, PTL

-----------------------------------------------------------------------------
(* What event_pending reports *)

LEMMA AddGrows ==
    ASSUME WellQueued(queue, flags), NEW e \in Events, NEW d, event_add(e, d)
    PROVE  \A x \in Events : flags[x] \subseteq flags'[x]
  <1> DEFINE f == IF d = 0 THEN flags ELSE [flags EXCEPT ![e] = @ \cup {"TIMEOUT"}]
  <1>1. \/ flags' = [f EXCEPT ![e] = @ \cup NewKinds(f, e)]
        \/ flags' = f
        \/ flags' = [f EXCEPT ![e] = @ \cup {"ADD"}]
    BY DEF event_add, event_add_post
  <1>2. DOMAIN f = Events /\ \A x \in Events : flags[x] \subseteq f[x]
    BY DEF WellQueued
  <1> HIDE DEF f
  <1> QED
    BY <1>1, <1>2

\* A step loses something only of the event it calls, or that is deleted.
LEMMA PendingStep ==
    ASSUME EventInv, [EventNext]_loopVars, NEW e \in Events,
           ~(event_pending(e) \subseteq event_pending(e)')
    PROVE  AppDel(e) \/ (lpc' = "application" /\ lpc # "application" /\ ev' = e)
  <1> DEFINE Reported(f) == (f \cup IF "ADD" \in f THEN EvEvents[e] ELSE {}) \ {"ADD"}
  <1>1. event_pending(e) = Reported(flags[e]) /\ event_pending(e)' = Reported(flags'[e])
    BY DEF event_pending
  <1>2. ~(flags[e] \subseteq flags'[e])
    BY <1>1
  <1> HIDE DEF Reported
  <1>3. flags \in [Events -> SUBSET Kinds]
    BY DEF EventInv, WellQueued
  <1>4. CASE AppCall
    <2>1. PICK x \in Events : AppDel(x) \/ \E d \in Delays \cup {0} : AppAdd(x, d)
      BY <1>4 DEF AppCall
    <2>2. CASE AppDel(x)
      <3>1. flags' = [flags EXCEPT ![x] = {}]
        BY <2>2 DEF AppDel, event_del
      <3>2. x = e
        BY <1>2, <1>3, <3>1
      <3> QED
        BY <2>2, <3>2
    <2>3. CASE \E d \in Delays \cup {0} : AppAdd(x, d)
      BY <1>2, <2>3, AddGrows DEF AppAdd, EventInv
    <2> QED
      BY <2>1, <2>2, <2>3
  <1>5. ASSUME NEW k \in {"READ", "WRITE"}, NEW set, Fire(k, set)
        PROVE  lpc' = "application" /\ lpc # "application" /\ ev' = e
    <2>1. flags' = [flags EXCEPT ![ev] = {}] /\ lpc = k /\ lpc' = "application" /\ ev' = ev
      BY <1>5 DEF Fire, event_del, Callback
    <2>2. ev = e
      BY <1>2, <1>3, <2>1
    <2> QED
      BY <2>1, <2>2
  <1>6. CASE TimeoutFires
    <2>1. /\ flags' = [flags EXCEPT ![First("TIMEOUT")] = @ \ {"TIMEOUT"}]
          /\ lpc = "TIMEOUT" /\ lpc' = "application" /\ ev' = First("TIMEOUT")
      BY <1>6 DEF TimeoutFires, Callback
    <2>2. First("TIMEOUT") = e
      BY <1>2, <1>3, <2>1
    <2> QED
      BY <2>1, <2>2
  <1>7. CASE EndWrite
    <2>1. flags'[e] = IF "ADD" \in flags[e] THEN (flags[e] \ {"ADD"}) \cup EvEvents[e] ELSE flags[e]
      BY <1>7, EndWriteQueues DEF EventInv, ScalarTypes
    <2>2. "ADD" \notin EvEvents[e]
      BY EventAssumption
    <2> QED
      BY <1>1, <2>1, <2>2 DEF Reported
  <1>8. CASE UNCHANGED flags
    BY <1>2, <1>8
  <1>9. \/ UNCHANGED flags \/ AppCall \/ Fire("READ", readset) \/ Fire("WRITE", writeset)
        \/ TimeoutFires \/ EndWrite
    BY DEF EventNext, Scheduled, IoRound, event_dispatch, CallbackReturns, Pass, EndRead,
           EndTimeouts, SelectReturns, Interrupted, SelectFails, Tick, lists, loopVars
  <1> QED
    BY <1>4, <1>5, <1>6, <1>7, <1>8, <1>9

\* Interest: a postponed addition counts from the call on, no step of the loop
\* drops what event_pending reports, and the callback of one event never makes
\* another one stop waiting unless it deletes it.
THEOREM InterestKept == EventSpec => PendingKept
  <1>1. EventInv /\ [EventNext]_loopVars =>
            [\A e \in Events :
                ~(event_pending(e) \subseteq event_pending(e)') =>
                    AppDel(e) \/ (lpc' = "application" /\ lpc # "application" /\ ev' = e)]_loopVars
    BY PendingStep
  <1> QED
    BY <1>1, EventInvAlways, PTL DEF EventSpec, PendingKept

-----------------------------------------------------------------------------
(* The loops over the queues *)

\* Inside its queue an event is linked to the next one.
LinkedUp(q, link) ==
    \A n \in 1 .. Len(q) : link[q[n]] = IF n < Len(q) THEN q[n + 1] ELSE Null

\* An event is in all queues it asks for or in none, and one that never was in
\* the read queue has no link.
QueuedWhole(f) == \A e \in Events : f[e] \cap {"READ", "WRITE"} \in {{}, EvEvents[e]}
LinkInv ==
    /\ LinkedUp(queue["READ"], readLink)
    /\ QueuedWhole(flags)
    /\ \A e \in Events : "READ" \notin EvEvents[e] => readLink[e] = Null

\* Whoever follows the links from a member of S meets members of S only, each of
\* them once: their numbers r grow.
Chain(S, r, link) ==
    /\ r \in [S -> Nat]
    /\ \A x \in S : link[x] = Null \/ (link[x] \in S /\ r[x] < r[link[x]])

Looping == lpc \in {"READ", "WRITE"} \/ (lpc = "application" /\ what \in {"READ", "WRITE"})
Cursor == IF lpc = "application" THEN old ELSE ev

\* In a round only events that waited for select are queued for descriptors, and
\* the loop, following links, also of events that left their queue, meets only
\* such events that were not called yet.
RoundInv ==
    Looping =>
        /\ event_inloop
        /\ Elems(queue["READ"]) \cup Elems(queue["WRITE"]) \subseteq asked
        /\ \E S \in SUBSET Events : \E r :
              Chain(S, r, readLink) /\ S \subseteq asked /\ Cursor \in S \cup {Null}

LEMMA LinkedLinks ==
    ASSUME NEW q \in Seq(Events), Distinct(q)
    PROVE  /\ LinkedUp(q, Linked(q))
           /\ \A e \in Events : e \notin Elems(q) => Linked(q)[e] = readLink[e]
  <1>1. ASSUME NEW n \in 1 .. Len(q)
        PROVE  Linked(q)[q[n]] = IF n < Len(q) THEN q[n + 1] ELSE Null
    <2> DEFINE e == q[n]
               m == CHOOSE i \in DOMAIN q : q[i] = e
    <2>1. e \in Events /\ n \in DOMAIN q
      OBVIOUS
    <2>2. m \in 1 .. Len(q) /\ q[m] = e
      BY <2>1
    <2>3. m = n
      BY <2>2 DEF Distinct
    <2>4. Linked(q)[e] = IF m < Len(q) THEN q[m + 1] ELSE Null
      BY <2>1 DEF Linked
    <2> HIDE DEF m
    <2> QED
      BY <2>3, <2>4
  <1>2. \A e \in Events : e \notin Elems(q) => Linked(q)[e] = readLink[e]
    BY DEF Linked, Elems
  <1> QED
    BY <1>1, <1>2 DEF LinkedUp

\* An event taken out of its queue: the one before it gets its link.
LEMMA UnlinkedLinks ==
    ASSUME NEW q \in Seq(Events), Distinct(q), NEW e \in Events,
           NEW link, LinkedUp(q, link),
           NEW new, LinkedUp(Unlinked(q, e), new),
           NEW x \in Elems(Unlinked(q, e))
    PROVE  new[x] = link[x] \/ (link[x] = e /\ new[x] = link[e])
  <1> DEFINE g == Unlinked(q, e)
             S == Events \ {e}
             L == Len(q)
             M == Len(g)
  <1>1. PICK f : Picks(f, g, q, S, L)
    BY FilterPicks DEF Unlinked
  <1>2. g \in Seq(Events)
    BY UnlinkedKeeps
  <1>3. \A i \in 1 .. L : q[i] \in Events
    OBVIOUS
  <1> HIDE DEF g
  <1>4. PICK i \in 1 .. M : x = g[i]
    BY DEF Elems, g
  <1>5. L \in Nat /\ M \in Nat
    BY <1>2
  <1> HIDE DEF L, M
  <1>6. /\ \A a \in 1 .. M : f[a] \in 1 .. L /\ g[a] = q[f[a]]
        /\ \A a, b \in 1 .. M : a < b => f[a] < f[b]
        /\ \A j \in 1 .. L : q[j] # e => \E a \in 1 .. M : f[a] = j
    <2>1. \A j \in 1 .. L : q[j] # e => q[j] \in S
      BY <1>3
    <2> HIDE DEF S
    <2> QED
      BY <1>1, <2>1 DEF Picks, M
  <1> DEFINE j == f[i]
  <1>7. j \in 1 .. L /\ x = q[j]
    BY <1>4, <1>6
  <1>8. link[x] = IF j < L THEN q[j + 1] ELSE Null
    BY <1>7 DEF LinkedUp, L
  <1>9. new[x] = IF i < M THEN g[i + 1] ELSE Null
    BY <1>4 DEF LinkedUp, M, g
  <1>10. \A a \in 1 .. M : j < f[a] => i + 1 \in 1 .. M /\ i < M /\ f[i + 1] <= f[a] /\ j < f[i + 1]
    <2> SUFFICES ASSUME NEW a \in 1 .. M, j < f[a]
                 PROVE  i + 1 \in 1 .. M /\ i < M /\ f[i + 1] <= f[a] /\ j < f[i + 1]
      OBVIOUS
    <2>1. i < a
      <3>1. f[a] \in Int /\ j \in Int
        BY <1>6, <1>7
      <3>2. a = i \/ a < i \/ i < a
        BY <1>5
      <3>3. a < i => f[a] < j
        BY <1>6
      <3> QED
        BY <3>1, <3>2, <3>3
    <2>2. i + 1 \in 1 .. M /\ i < M /\ i < i + 1 /\ (i + 1 = a \/ i + 1 < a)
      BY <2>1, <1>5
    <2>3. j < f[i + 1]
      BY <2>2, <1>6
    <2>4. f[i + 1] <= f[a]
      <3>1. f[a] \in Int /\ f[i + 1] \in Int
        BY <1>6, <2>2
      <3> QED
        BY <3>1, <2>2, <1>6
    <2> QED
      BY <2>2, <2>3, <2>4
  <1>11. i < M => i + 1 \in 1 .. M /\ f[i + 1] \in 1 .. L /\ j < f[i + 1] /\ g[i + 1] = q[f[i + 1]]
    <2> SUFFICES ASSUME i < M
                 PROVE  i + 1 \in 1 .. M /\ f[i + 1] \in 1 .. L /\ j < f[i + 1] /\ g[i + 1] = q[f[i + 1]]
      OBVIOUS
    <2>1. i + 1 \in 1 .. M /\ i < i + 1
      BY <1>5
    <2> QED
      BY <2>1, <1>6
  <1> HIDE DEF j
  <1>12. CASE j = L
    <2>1. ~(i < M)
      BY <1>11, <1>12, <1>5
    <2> QED
      BY <1>8, <1>9, <1>12, <2>1, <1>5
  <1>13. CASE j < L /\ q[j + 1] # e
    <2>1. j + 1 \in 1 .. L
      BY <1>7, <1>13, <1>5
    <2>2. PICK a \in 1 .. M : f[a] = j + 1
      BY <1>6, <1>13, <2>1
    <2>3. i < M /\ f[i + 1] = j + 1
      <3>1. i < M /\ f[i + 1] <= j + 1 /\ j < f[i + 1]
        BY <1>10, <2>2, <1>7
      <3>2. f[i + 1] \in Int /\ j \in Int
        BY <1>11, <3>1, <1>7
      <3> QED
        BY <3>1, <3>2
    <2> QED
      BY <1>8, <1>9, <1>11, <1>13, <2>3
  <1>14. CASE j < L /\ q[j + 1] = e
    <2>1. link[x] = e /\ j + 1 \in 1 .. L
      BY <1>7, <1>8, <1>14, <1>5
    <2>2. link[e] = IF j + 1 < L THEN q[j + 2] ELSE Null
      <3>1. link[q[j + 1]] = IF j + 1 < L THEN q[(j + 1) + 1] ELSE Null
        BY <2>1 DEF LinkedUp, L
      <3>2. (j + 1) + 1 = j + 2
        BY <1>7
      <3> QED
        BY <3>1, <3>2, <1>14
    <2>3. i < M => f[i + 1] # j + 1
      <3> SUFFICES ASSUME i < M, f[i + 1] = j + 1 PROVE FALSE
        OBVIOUS
      <3>1. i + 1 \in 1 .. M /\ g[i + 1] = e
        BY <1>11, <1>14
      <3>2. g[i + 1] \in S
        <4> HIDE DEF S
        <4> QED
          BY <1>1, <3>1, <1>11 DEF Picks, M
      <3> QED
        BY <3>1, <3>2
    <2>4. CASE j + 1 = L
      <3>1. ~(i < M)
        BY <1>11, <2>3, <2>4, <1>5, <1>7
      <3> QED
        BY <1>9, <2>1, <2>2, <2>4, <3>1, <1>7
    <2>5. CASE j + 1 < L
      <3>1. j + 2 \in 1 .. L /\ j + 2 # j + 1
        BY <1>7, <2>5, <1>5
      <3>2. q[j + 2] # e
        BY <1>14, <2>1, <3>1 DEF Distinct, L
      <3>3. PICK a \in 1 .. M : f[a] = j + 2
        BY <1>6, <3>1, <3>2
      <3>4. i < M /\ f[i + 1] = j + 2
        <4>1. i < M /\ f[i + 1] <= j + 2 /\ j < f[i + 1]
          BY <1>10, <3>3, <1>7
        <4>2. f[i + 1] \in Int /\ j \in Int
          BY <1>11, <4>1, <1>7
        <4> QED
          BY <4>1, <4>2, <2>3
      <3> QED
        BY <1>9, <1>11, <2>1, <2>2, <2>5, <3>4
    <2> QED
      BY <2>4, <2>5, <2>1, <1>5
  <1> QED
    BY <1>7, <1>12, <1>13, <1>14, <1>5

\* Links that are set again from the queue.
LEMMA RelinkKeeps ==
    ASSUME LinkInv, WellQueued(queue', flags'), QueuedWhole(flags'),
           readLink' = Linked(queue'["READ"])
    PROVE  LinkInv'
  <1> DEFINE q == queue'["READ"]
  <1>1. q \in Seq(Events) /\ Distinct(q) /\ "READ" \in Kinds
    BY DEF WellQueued, Kinds
  <1>2. /\ LinkedUp(q, readLink')
        /\ \A e \in Events : e \notin Elems(q) => readLink'[e] = readLink[e]
    <2> HIDE DEF q
    <2>1. readLink' = Linked(q)
      BY DEF q
    <2> QED
      BY <1>1, <2>1, LinkedLinks
  <1>3. ASSUME NEW e \in Events, "READ" \notin EvEvents[e] PROVE readLink'[e] = Null
    <2>1. "READ" \notin flags'[e]
      BY <1>3 DEF QueuedWhole
    <2>2. e \notin Elems(q)
      BY <1>1, <2>1 DEF WellQueued
    <2> QED
      BY <1>2, <1>3, <2>2 DEF LinkInv
  <1> QED
    BY <1>2, <1>3 DEF LinkInv

\* event_del changes only the link to the event.
LEMMA DelLinks ==
    ASSUME EventInv, LinkInv, NEW e \in Events, event_del(e), NEW x \in Events
    PROVE  readLink'[x] = readLink[x] \/ (readLink[x] = e /\ readLink'[x] = readLink[e])
  <1> DEFINE q == queue["READ"]
             g == queue'["READ"]
  <1>1. /\ queue' = [k \in Kinds |-> IF k \in flags[e] THEN Unlinked(queue[k], e) ELSE queue[k]]
        /\ readLink' = Linked(queue'["READ"])
    BY DEF event_del, DelKinds
  <1>2. g = IF "READ" \in flags[e] THEN Unlinked(q, e) ELSE q
    BY <1>1 DEF Kinds
  <1>3. q \in Seq(Events) /\ Distinct(q) /\ LinkedUp(q, readLink)
    BY DEF EventInv, WellQueued, Kinds, LinkInv
  <1>4. g \in Seq(Events) /\ Distinct(g)
    BY <1>2, <1>3, UnlinkedKeeps
  <1>5. readLink' = Linked(g)
    BY <1>1
  <1> HIDE DEF g, q
  <1>6. /\ LinkedUp(g, readLink')
        /\ x \notin Elems(g) => readLink'[x] = readLink[x]
    BY <1>4, <1>5, LinkedLinks
  <1>7. CASE x \in Elems(g) /\ "READ" \in flags[e]
    <2>1. g = Unlinked(q, e)
      BY <1>2, <1>7
    <2> QED
      BY <1>3, <1>6, <1>7, <2>1, UnlinkedLinks
  <1>8. CASE x \in Elems(g) /\ "READ" \notin flags[e]
    <2>1. PICK n \in 1 .. Len(q) : x = q[n]
      BY <1>2, <1>8 DEF Elems
    <2> QED
      BY <1>2, <1>3, <1>6, <1>8, <2>1 DEF LinkedUp
  <1> QED
    BY <1>6, <1>7, <1>8

LEMMA DelWhole ==
    ASSUME EventInv, LinkInv, NEW e \in Events, event_del(e)
    PROVE  LinkInv'
  <1>1. flags' = [flags EXCEPT ![e] = {}] /\ readLink' = Linked(queue'["READ"])
    BY DEF event_del
  <1>2. WellQueued(queue', flags') /\ flags \in [Events -> SUBSET Kinds]
    BY DelKeeps DEF EventInv, ScalarTypes, WellQueued
  <1>3. QueuedWhole(flags')
    BY <1>1, <1>2 DEF LinkInv, QueuedWhole
  <1> QED
    BY <1>1, <1>2, <1>3, RelinkKeeps

LEMMA AddWhole ==
    ASSUME EventInv, LinkInv, NEW e \in Events, NEW d \in Nat, event_add(e, d)
    PROVE  /\ LinkInv'
           /\ event_inloop => /\ queue'["READ"] = queue["READ"]
                              /\ queue'["WRITE"] = queue["WRITE"] /\ readLink' = readLink
  <1> DEFINE q == IF d = 0 THEN queue
                  ELSE [queue EXCEPT !["TIMEOUT"] = InTime(Unlinked(@, e), e, d)]
             f == IF d = 0 THEN flags ELSE [flags EXCEPT ![e] = @ \cup {"TIMEOUT"}]
  <1>1. \/ ~event_inloop /\ event_add_post(q, f, e)
        \/ /\ event_inloop
           /\ queue' = q /\ flags' = f /\ UNCHANGED readLink
        \/ /\ event_inloop
           /\ queue' = [q EXCEPT !["ADD"] = Append(@, e)]
           /\ flags' = [f EXCEPT ![e] = @ \cup {"ADD"}]
           /\ UNCHANGED readLink
    BY DEF event_add, Postponed
  <1>2. flags \in [Events -> SUBSET Kinds] /\ queue \in [Kinds -> Seq(Events)]
    BY DEF EventInv, WellQueued
  <1>3. /\ q["READ"] = queue["READ"] /\ q["WRITE"] = queue["WRITE"]
        /\ DOMAIN f = Events /\ DOMAIN q = Kinds
        /\ \A x \in Events : f[x] \cap {"READ", "WRITE"} = flags[x] \cap {"READ", "WRITE"}
    BY <1>2 DEF Kinds
  <1> HIDE DEF q, f
  <1>4. QueuedWhole(f)
    BY <1>3 DEF LinkInv, QueuedWhole
  <1>5. CASE ~event_inloop /\ event_add_post(q, f, e)
    <2>1. flags' = [f EXCEPT ![e] = @ \cup NewKinds(f, e)] /\ readLink' = Linked(queue'["READ"])
      BY <1>5 DEF event_add_post
    <2>2. NewKinds(f, e) = EvEvents[e] \ f[e] /\ EvEvents[e] \subseteq {"READ", "WRITE"}
      BY EventAssumption DEF NewKinds
    <2>3. ASSUME NEW x \in Events
          PROVE  flags'[x] \cap {"READ", "WRITE"} \in {{}, EvEvents[x]}
      <3>1. f[x] \cap {"READ", "WRITE"} \in {{}, EvEvents[x]}
        BY <1>4 DEF QueuedWhole
      <3>2. flags'[x] = IF x = e THEN f[x] \cup EvEvents[x] ELSE f[x]
        BY <1>3, <2>1, <2>2
      <3> QED
        BY <2>2, <3>1, <3>2
    <2>4. QueuedWhole(flags')
      BY <2>3 DEF QueuedWhole
    <2>5. WellQueued(queue', flags')
      BY AddKeeps DEF EventInv, ScalarTypes
    <2> QED
      BY <1>5, <2>1, <2>4, <2>5, RelinkKeeps
  <1>6. CASE event_inloop /\ queue' = q /\ flags' = f /\ UNCHANGED readLink
    BY <1>3, <1>4, <1>6 DEF LinkInv
  <1>7. CASE /\ event_inloop /\ queue' = [q EXCEPT !["ADD"] = Append(@, e)]
             /\ flags' = [f EXCEPT ![e] = @ \cup {"ADD"}] /\ UNCHANGED readLink
    <2>1. queue'["READ"] = queue["READ"] /\ queue'["WRITE"] = queue["WRITE"]
      BY <1>3, <1>7 DEF Kinds
    <2>2. \A x \in Events : flags'[x] \cap {"READ", "WRITE"} = f[x] \cap {"READ", "WRITE"}
      BY <1>3, <1>7
    <2>3. QueuedWhole(flags')
      BY <1>4, <2>2 DEF QueuedWhole
    <2> QED
      BY <1>7, <2>1, <2>3 DEF LinkInv
  <1> QED
    BY <1>1, <1>5, <1>6, <1>7

LEMMA LinkInvNext == EventInv /\ LinkInv /\ [EventNext]_loopVars => LinkInv'
  <1> SUFFICES ASSUME EventInv, LinkInv, [EventNext]_loopVars PROVE LinkInv'
    OBVIOUS
  <1>1. flags \in [Events -> SUBSET Kinds] /\ queue \in [Kinds -> Seq(Events)]
    BY DEF EventInv, WellQueued
  <1>2. CASE AppCall
    <2>1. PICK x \in Events : AppDel(x) \/ \E d \in Delays \cup {0} : AppAdd(x, d)
      BY <1>2 DEF AppCall
    <2>2. CASE AppDel(x)
      BY <2>2, DelWhole DEF AppDel
    <2>3. CASE \E d \in Delays \cup {0} : AppAdd(x, d)
      <3>1. PICK d \in Delays \cup {0} : AppAdd(x, d)
        BY <2>3
      <3>2. d \in Nat
        BY EventAssumption
      <3> QED
        BY <3>1, <3>2, AddWhole DEF AppAdd
    <2> QED
      BY <2>1, <2>2, <2>3
  <1>3. ASSUME NEW k \in {"READ", "WRITE"}, NEW set, Fire(k, set) PROVE LinkInv'
    <2>1. ev \in Events /\ event_del(ev)
      BY <1>3 DEF Fire, EventInv, ScalarTypes, Pointers
    <2> QED
      BY <2>1, DelWhole
  <1>4. CASE EndWrite
    <2>1. /\ WellQueued(queue', flags')
          /\ \A e \in Events : flags'[e] = IF "ADD" \in flags[e]
                 THEN (flags[e] \ {"ADD"}) \cup EvEvents[e] ELSE flags[e]
      BY <1>4, EndWriteQueues DEF EventInv, ScalarTypes
    <2>2. ASSUME NEW e \in Events
          PROVE  flags'[e] \cap {"READ", "WRITE"} \in {{}, EvEvents[e]}
      <3>1. flags[e] \cap {"READ", "WRITE"} \in {{}, EvEvents[e]} /\ EvEvents[e] \subseteq {"READ", "WRITE"}
        BY EventAssumption DEF LinkInv, QueuedWhole
      <3> QED
        BY <2>1, <3>1
    <2>3. QueuedWhole(flags')
      BY <2>2 DEF QueuedWhole
    <2>4. readLink' = Linked(queue'["READ"])
      BY <1>4 DEF EndWrite
    <2> QED
      BY <2>1, <2>3, <2>4, RelinkKeeps
  <1>5. CASE TimeoutFires
    <2>1. /\ queue' = [queue EXCEPT !["TIMEOUT"] = Tail(@)] /\ readLink' = readLink
          /\ flags' = [flags EXCEPT ![First("TIMEOUT")] = @ \ {"TIMEOUT"}]
      BY <1>5 DEF TimeoutFires
    <2>2. queue'["READ"] = queue["READ"]
      BY <1>1, <2>1 DEF Kinds
    <2>3. \A x \in Events : flags'[x] \cap {"READ", "WRITE"} = flags[x] \cap {"READ", "WRITE"}
      BY <1>1, <2>1
    <2>4. QueuedWhole(flags')
      BY <2>3 DEF LinkInv, QueuedWhole
    <2> QED
      BY <2>1, <2>2, <2>4 DEF LinkInv
  <1>6. CASE UNCHANGED lists
    BY <1>6 DEF LinkInv, lists
  <1>7. CASE Tick
    BY <1>7 DEF LinkInv, Tick
  <1>8. \/ UNCHANGED lists \/ AppCall \/ Fire("READ", readset) \/ Fire("WRITE", writeset)
        \/ TimeoutFires \/ EndWrite \/ Tick
    BY DEF EventNext, Scheduled, IoRound, event_dispatch, CallbackReturns, Pass, EndRead,
           EndTimeouts, SelectReturns, Interrupted, SelectFails, lists, loopVars
  <1> QED
    BY <1>2, <1>3, <1>4, <1>5, <1>6, <1>7, <1>8

\* The links of the read queue, and one link into it, are a chain.
LEMMA QueueChain ==
    ASSUME NEW q \in Seq(Events), Distinct(q), NEW link, LinkedUp(q, link),
           NEW x, x \in Elems(q) \/ link[x] = Null
    PROVE  \E r : Chain(Elems(q) \cup {x}, r, link)
  <1> DEFINE Index(y) == CHOOSE n \in 1 .. Len(q) : q[n] = y
             r == [y \in Elems(q) \cup {x} |-> IF y \in Elems(q) THEN Index(y) ELSE 0]
  <1>1. \A y \in Elems(q) : Index(y) \in 1 .. Len(q) /\ q[Index(y)] = y
    BY DEF Elems
  <1>2. \A n \in 1 .. Len(q) : q[n] \in Elems(q)
    BY DEF Elems
  <1>3. \A n \in 1 .. Len(q) : Index(q[n]) = n
    BY <1>1, <1>2 DEF Distinct
  <1> HIDE DEF Index
  <1>4. r \in [Elems(q) \cup {x} -> Nat]
    BY <1>1
  <1>5. ASSUME NEW y \in Elems(q)
        PROVE  link[y] = Null \/ (link[y] \in Elems(q) /\ r[y] < r[link[y]])
    <2> DEFINE n == Index(y)
    <2>1. n \in 1 .. Len(q) /\ q[n] = y /\ Len(q) \in Nat
      BY <1>1
    <2>2. link[y] = IF n < Len(q) THEN q[n + 1] ELSE Null
      BY <2>1 DEF LinkedUp
    <2>3. CASE n < Len(q)
      <3>1. n + 1 \in 1 .. Len(q) /\ n < n + 1
        BY <2>1, <2>3
      <3>2. link[y] = q[n + 1] /\ link[y] \in Elems(q) /\ Index(link[y]) = n + 1
        BY <1>2, <1>3, <2>2, <2>3, <3>1
      <3>3. r[y] = n /\ r[link[y]] = n + 1
        BY <3>2
      <3> QED
        BY <3>1, <3>2, <3>3
    <2>4. CASE ~(n < Len(q))
      BY <2>2, <2>4
    <2> QED
      BY <2>3, <2>4
  <1> HIDE DEF r
  <1>6. Chain(Elems(q) \cup {x}, r, link)
    BY <1>4, <1>5 DEF Chain
  <1> QED
    BY <1>6

\* A call: the loop goes on behind the event that is called, which it will not
\* meet again.
LEMMA FireRound ==
    ASSUME EventInv, LinkInv, RoundInv, NEW k \in {"READ", "WRITE"}, NEW set, Fire(k, set)
    PROVE  RoundInv' /\ ev \in asked
  <1>1. /\ ev \in Events /\ event_del(ev) /\ lpc = k /\ ev # Null
        /\ old' = readLink[ev] /\ asked' = asked \ {ev} /\ event_inloop' = event_inloop
        /\ lpc' = "application"
    BY DEF Fire, Callback, EventInv, ScalarTypes, Pointers
  <1>2. Looping /\ Cursor = ev /\ Cursor' = readLink[ev]
    BY <1>1 DEF Looping, Cursor
  <1>3a. PICK S \in SUBSET Events : \E r :
            Chain(S, r, readLink) /\ S \subseteq asked /\ ev \in S \cup {Null}
    BY <1>2 DEF RoundInv
  <1>3. PICK r :
            Chain(S, r, readLink) /\ S \subseteq asked /\ ev \in S \cup {Null}
    BY <1>3a
  <1>4. ev \in S
    BY <1>1, <1>3
  <1> DEFINE T == {x \in S : r[ev] < r[x]}
             t == [x \in T |-> r[x]]
  <1>5. \A x \in S : r[x] \in Nat /\ (readLink[x] = Null \/ (readLink[x] \in S /\ r[x] < r[readLink[x]]))
    BY <1>3 DEF Chain
  <1>6. T \in SUBSET Events /\ T \subseteq asked \ {ev} /\ readLink[ev] \in T \cup {Null}
    BY <1>3, <1>4, <1>5
  <1>7. ASSUME NEW x \in T
        PROVE  readLink'[x] = Null \/ (readLink'[x] \in T /\ t[x] < t[readLink'[x]])
    <2>1. x \in S /\ x \in Events /\ r[ev] < r[x] /\ r[ev] \in Nat /\ r[x] \in Nat
      BY <1>4, <1>5
    <2>2. readLink[x] # ev
      BY <1>1, <1>5, <2>1
    <2>3. readLink'[x] = readLink[x]
      BY <1>1, <2>1, <2>2, DelLinks
    <2>4. CASE readLink[x] \in S /\ r[x] < r[readLink[x]]
      <3>1. r[readLink[x]] \in Nat
        BY <1>5, <2>4
      <3>2. readLink[x] \in T
        BY <2>1, <2>4, <3>1
      <3> QED
        BY <2>3, <2>4, <3>2
    <2> QED
      BY <1>5, <2>1, <2>3, <2>4
  <1>8. t \in [T -> Nat]
    BY <1>5
  <1> HIDE DEF t, T
  <1>9. Chain(T, t, readLink')
    BY <1>7, <1>8 DEF Chain
  <1>10. Elems(queue'["READ"]) \cup Elems(queue'["WRITE"]) \subseteq asked'
    <2>1. \A j \in Kinds : Elems(queue'[j]) = Elems(queue[j]) \ {ev}
      BY <1>1, DelKeeps DEF EventInv, ScalarTypes
    <2>2. Elems(queue["READ"]) \cup Elems(queue["WRITE"]) \subseteq asked
      BY <1>2 DEF RoundInv
    <2>3. "READ" \in Kinds /\ "WRITE" \in Kinds
      BY DEF Kinds
    <2> QED
      BY <1>1, <2>1, <2>2, <2>3
  <1>11. event_inloop'
    BY <1>1, <1>2 DEF RoundInv
  <1>12. T \subseteq asked' /\ Cursor' \in T \cup {Null}
    BY <1>1, <1>2, <1>6
  <1>13. RoundInv'
    BY <1>6, <1>9, <1>10, <1>11, <1>12 DEF RoundInv
  <1> QED
    BY <1>3, <1>4, <1>13

\* A callback that deletes the event the loop is about to look at, or one behind
\* it, leads the loop past it or through it to the events that follow.
LEMMA CallRound ==
    ASSUME EventInv, LinkInv, RoundInv, AppCall
    PROVE  RoundInv'
  <1> SUFFICES ASSUME Looping' PROVE RoundInv'
    BY DEF RoundInv
  <1>1. /\ lpc = "application" /\ lpc' = lpc /\ what' = what /\ old' = old /\ ev' = ev
        /\ asked' = asked /\ event_inloop' = event_inloop
    BY DEF AppCall, AppDel, AppAdd
  <1>2. Looping /\ Cursor' = Cursor
    BY <1>1 DEF Looping, Cursor
  <1>3. event_inloop /\ Elems(queue["READ"]) \cup Elems(queue["WRITE"]) \subseteq asked
    BY <1>2 DEF RoundInv
  <1>4a. PICK S \in SUBSET Events : \E r :
            Chain(S, r, readLink) /\ S \subseteq asked /\ Cursor \in S \cup {Null}
    BY <1>2 DEF RoundInv
  <1>4. PICK r :
            Chain(S, r, readLink) /\ S \subseteq asked /\ Cursor \in S \cup {Null}
    BY <1>4a
  <1>5. PICK e \in Events : AppDel(e) \/ \E d \in Delays \cup {0} : AppAdd(e, d)
    BY DEF AppCall
  <1>6. CASE AppDel(e)
    <2>1. event_del(e)
      BY <1>6 DEF AppDel
    <2>2. \A x \in S : r[x] \in Nat /\ (readLink[x] = Null \/ (readLink[x] \in S /\ r[x] < r[readLink[x]]))
      BY <1>4 DEF Chain
    <2>3. ASSUME NEW x \in S
          PROVE  readLink'[x] = Null \/ (readLink'[x] \in S /\ r[x] < r[readLink'[x]])
      <3>1. readLink'[x] = readLink[x] \/ (readLink[x] = e /\ readLink'[x] = readLink[e])
        BY <2>1, DelLinks
      <3>2. CASE readLink'[x] = readLink[x]
        BY <2>2, <3>2
      <3>3. CASE readLink[x] = e /\ readLink'[x] = readLink[e]
        <4>1. e # Null
          BY EventAssumption
        <4>2. e \in S /\ r[x] < r[e] /\ r[x] \in Nat /\ r[e] \in Nat
          BY <2>2, <3>3, <4>1
        <4>3. CASE readLink[e] = Null
          BY <3>3, <4>3
        <4>4. CASE readLink[e] \in S /\ r[e] < r[readLink[e]]
          <5>1. r[readLink[e]] \in Nat
            BY <2>2, <4>4
          <5>2. r[x] < r[readLink[e]]
            BY <4>2, <4>4, <5>1
          <5> QED
            BY <3>3, <4>4, <5>2
        <4> QED
          BY <2>2, <4>2, <4>3, <4>4
      <3> QED
        BY <3>1, <3>2, <3>3
    <2>4. Chain(S, r, readLink')
      BY <1>4, <2>3 DEF Chain
    <2>5. \A j \in Kinds : Elems(queue'[j]) = Elems(queue[j]) \ {e}
      BY <2>1, DelKeeps DEF EventInv, ScalarTypes
    <2>6. Elems(queue'["READ"]) \cup Elems(queue'["WRITE"]) \subseteq asked'
      <3>1. "READ" \in Kinds /\ "WRITE" \in Kinds
        BY DEF Kinds
      <3> QED
        BY <1>1, <1>3, <2>5, <3>1
    <2> QED
      BY <1>1, <1>2, <1>3, <1>4, <2>4, <2>6 DEF RoundInv
  <1>7. CASE \E d \in Delays \cup {0} : AppAdd(e, d)
    <2>1. PICK d \in Delays \cup {0} : AppAdd(e, d)
      BY <1>7
    <2>2. d \in Nat
      BY EventAssumption
    <2>3. /\ queue'["READ"] = queue["READ"] /\ queue'["WRITE"] = queue["WRITE"]
          /\ readLink' = readLink
      BY <1>3, <2>1, <2>2, AddWhole DEF AppAdd
    <2> QED
      BY <1>1, <1>2, <1>3, <1>4, <2>3 DEF RoundInv
  <1> QED
    BY <1>5, <1>6, <1>7

\* The loop over the write queue starts at an event of the read queue, or at one
\* that has no link.
LEMMA EndReadRound ==
    ASSUME EventInv, LinkInv, RoundInv, EndRead
    PROVE  RoundInv'
  <1> DEFINE q == queue["READ"]
             w == queue["WRITE"]
             x == First("WRITE")
  <1>1. /\ queue' = queue /\ readLink' = readLink /\ asked' = asked /\ lpc = "READ"
        /\ event_inloop' = event_inloop /\ lpc' = "WRITE" /\ ev' = x
    BY DEF EndRead, lists
  <1>2. Looping /\ Cursor' = x
    BY <1>1 DEF Looping, Cursor
  <1>3. event_inloop /\ Elems(q) \cup Elems(w) \subseteq asked
    BY <1>2 DEF RoundInv
  <1>4. q \in Seq(Events) /\ Distinct(q) /\ w \in Seq(Events) /\ LinkedUp(q, readLink)
        /\ "READ" \in Kinds /\ "WRITE" \in Kinds
    BY DEF EventInv, WellQueued, Kinds, LinkInv
  <1>5. CASE w = <<>>
    <2>1. x = Null
      BY <1>5 DEF First
    <2>2. Chain({}, [y \in {} |-> 0], readLink')
      BY DEF Chain
    <2> QED
      BY <1>1, <1>2, <1>3, <2>1, <2>2 DEF RoundInv
  <1>6. CASE w # <<>>
    <2>1. x = Head(w)
      BY <1>6 DEF First
    <2>2. x \in Elems(w) /\ x \in Events
      BY <1>4, <1>6, <2>1, TailQueue
    <2>3. x \in Elems(q) \/ readLink[x] = Null
      <3> SUFFICES ASSUME x \notin Elems(q) PROVE readLink[x] = Null
        OBVIOUS
      <3> HIDE DEF x
      <3>1. "WRITE" \in flags[x] /\ "READ" \notin flags[x]
        BY <1>4, <2>2 DEF EventInv, WellQueued
      <3>2. flags[x] \cap {"READ", "WRITE"} \in {{}, EvEvents[x]}
        BY <2>2 DEF LinkInv, QueuedWhole
      <3>3. "READ" \notin EvEvents[x]
        BY <3>1, <3>2
      <3> QED
        BY <2>2, <3>3 DEF LinkInv
    <2> HIDE DEF x
    <2>4. PICK r : Chain(Elems(q) \cup {x}, r, readLink)
      BY <1>4, <2>3, QueueChain
    <2> DEFINE S == Elems(q) \cup {x}
    <2>5. S \in SUBSET Events /\ S \subseteq asked
      BY <1>3, <1>4, <2>2 DEF Elems
    <2>6. Chain(S, r, readLink')
      BY <1>1, <2>4
    <2>7. x \in S
      OBVIOUS
    <2> HIDE DEF S, q, w
    <2>8. Elems(queue'["READ"]) \cup Elems(queue'["WRITE"]) \subseteq asked'
      BY <1>1, <1>3 DEF q, w
    <2> QED
      BY <1>1, <1>2, <1>3, <2>5, <2>6, <2>7, <2>8 DEF RoundInv
  <1> QED
    BY <1>5, <1>6

LEMMA SelectRound ==
    ASSUME EventInv, LinkInv, SelectReturns
    PROVE  RoundInv'
  <1> DEFINE q == queue["READ"]
             w == queue["WRITE"]
             x == First("READ")
  <1>1. /\ queue' = queue /\ readLink' = readLink /\ event_inloop' = TRUE /\ ev' = x
        /\ lpc' = "READ" /\ asked' = Range(q) \cup Range(w)
    BY DEF SelectReturns, lists
  <1>2. Cursor' = x
    BY <1>1 DEF Cursor
  <1>3. q \in Seq(Events) /\ Distinct(q) /\ w \in Seq(Events) /\ LinkedUp(q, readLink)
    BY DEF EventInv, WellQueued, Kinds, LinkInv
  <1>4. Range(q) = Elems(q) /\ Range(w) = Elems(w)
    BY <1>3 DEF Range, Elems
  <1>5. CASE q = <<>>
    <2>1. x = Null
      BY <1>5 DEF First
    <2>2. Chain({}, [y \in {} |-> 0], readLink')
      BY DEF Chain
    <2> QED
      BY <1>1, <1>2, <1>4, <2>1, <2>2 DEF RoundInv
  <1>6. CASE q # <<>>
    <2>1. x = Head(q)
      BY <1>6 DEF First
    <2>2. x \in Elems(q)
      BY <1>3, <1>6, <2>1, TailQueue
    <2> HIDE DEF x
    <2>3. PICK r : Chain(Elems(q) \cup {x}, r, readLink)
      BY <1>3, <2>2, QueueChain
    <2>4. Elems(q) \cup {x} = Elems(q) /\ Elems(q) \in SUBSET Events
      BY <1>3, <2>2 DEF Elems
    <2>5. Chain(Elems(q), r, readLink')
      BY <1>1, <2>3, <2>4
    <2>6. Elems(queue'["READ"]) \cup Elems(queue'["WRITE"]) \subseteq asked' /\ Elems(q) \subseteq asked'
      BY <1>1, <1>4
    <2> HIDE DEF q, w
    <2> QED
      BY <1>1, <1>2, <2>2, <2>4, <2>5, <2>6 DEF RoundInv
  <1> QED
    BY <1>5, <1>6

LEMMA RoundInvNext == EventInv /\ LinkInv /\ RoundInv /\ [EventNext]_loopVars => RoundInv'
  <1> SUFFICES ASSUME EventInv, LinkInv, RoundInv, [EventNext]_loopVars PROVE RoundInv'
    OBVIOUS
  <1> DEFINE Same == /\ queue' = queue /\ readLink' = readLink /\ asked' = asked
                     /\ event_inloop' = event_inloop
  <1>1. ASSUME Same, Looping' => Looping /\ Cursor' = Cursor PROVE RoundInv'
    BY <1>1 DEF RoundInv
  <1>2. CASE AppCall
    BY <1>2, CallRound
  <1>3. CASE Fire("READ", readset) \/ Fire("WRITE", writeset)
    BY <1>3, FireRound
  <1>4. CASE EndRead
    BY <1>4, EndReadRound
  <1>5. CASE SelectReturns
    BY <1>5, SelectRound
  <1>6. CASE CallbackReturns
    <2>1. Same /\ (Looping' => Looping /\ Cursor' = Cursor)
      BY <1>6 DEF CallbackReturns, lists, Looping, Cursor
    <2> QED
      BY <1>1, <2>1
  <1>7. ASSUME NEW k \in {"READ", "WRITE"}, NEW set, Pass(k, set) PROVE RoundInv'
    <2>1. Same /\ lpc = k /\ lpc' = lpc /\ ev # Null /\ ev' = readLink[ev]
      BY <1>7 DEF Pass, lists
    <2>2. Looping /\ Cursor = ev /\ Cursor' = readLink[ev]
      BY <2>1 DEF Looping, Cursor
    <2>3a. PICK S \in SUBSET Events : \E r :
              Chain(S, r, readLink) /\ S \subseteq asked /\ ev \in S \cup {Null}
      BY <2>2 DEF RoundInv
    <2>3. PICK r :
              Chain(S, r, readLink) /\ S \subseteq asked /\ ev \in S \cup {Null}
      BY <2>3a
    <2>4. readLink[ev] \in S \cup {Null}
      BY <2>1, <2>3 DEF Chain
    <2> QED
      BY <2>1, <2>2, <2>3, <2>4 DEF RoundInv
  <1>8. CASE event_dispatch \/ EndTimeouts \/ EndWrite \/ TimeoutFires \/ SelectFails
    <2>1. ~Looping'
      BY <1>8 DEF event_dispatch, EndTimeouts, EndWrite, AfterLoops, TimeoutFires, Callback,
                  SelectFails, Looping
    <2> QED
      BY <2>1 DEF RoundInv
  <1>9. CASE Interrupted \/ Tick \/ UNCHANGED loopVars
    <2>1. Same /\ (Looping' => Looping /\ Cursor' = Cursor)
      BY <1>9 DEF Interrupted, Tick, loopVars, lists, Looping, Cursor
    <2> QED
      BY <1>1, <2>1
  <1> QED
    BY <1>2, <1>3, <1>4, <1>5, <1>6, <1>7, <1>8, <1>9 DEF EventNext, Scheduled, IoRound

LEMMA RoundAlways == EventSpec => [](LinkInv /\ RoundInv)
  <1>1. EventInit => LinkInv /\ RoundInv
    <2> SUFFICES ASSUME EventInit PROVE LinkInv /\ RoundInv
      OBVIOUS
    <2>1. queue["READ"] = <<>> /\ ~Looping
      BY DEF EventInit, Kinds, Looping
    <2>2. LinkedUp(queue["READ"], readLink)
      BY <2>1 DEF LinkedUp
    <2> QED
      BY <2>1, <2>2 DEF EventInit, LinkInv, QueuedWhole, RoundInv
  <1>2. EventInv /\ (LinkInv /\ RoundInv) /\ [EventNext]_loopVars => (LinkInv /\ RoundInv)'
    BY LinkInvNext, RoundInvNext
  <1> QED
    BY <1>1, <1>2, EventInvAlways, PTL DEF EventSpec

\* Calls: although a deleted event keeps its link and the loop over the write
\* queue follows the links of the read queue, the loop never comes to an event
\* that is added in this round, that was called in it or that did not wait when
\* select was called, whatever the callbacks delete in between.
THEOREM CalledOncePerRound == EventSpec => CalledOnce
  <1>1. EventInv /\ LinkInv /\ RoundInv /\ [EventNext]_loopVars =>
            [lpc' = "application" /\ lpc # "application" /\ what' # "TIMEOUT" => ev' \in asked]_loopVars
    <2> SUFFICES ASSUME EventInv, LinkInv, RoundInv, EventNext,
                        lpc' = "application", lpc # "application", what' # "TIMEOUT"
                 PROVE  ev' \in asked
      OBVIOUS
    <2>1. Fire("READ", readset) \/ Fire("WRITE", writeset)
      BY DEF EventNext, Scheduled, IoRound, AppCall, AppDel, AppAdd, event_dispatch,
             CallbackReturns, Pass, EndRead, EndWrite, AfterLoops, TimeoutFires, Callback,
             EndTimeouts, SelectReturns, Interrupted, SelectFails, Tick
    <2>2. ev \in asked /\ ev' = ev
      BY <2>1, FireRound DEF Fire, Callback
    <2> QED
      BY <2>2
  <1> QED
    BY <1>1, EventInvAlways, RoundAlways, PTL DEF EventSpec, CalledOnce

-----------------------------------------------------------------------------
(* The highest descriptor *)

LEMMA HighestExists ==
    ASSUME NEW S \in SUBSET Int, S # {}, NEW M \in Int, \A x \in S : x <= M
    PROVE  Highest(S) \in S /\ \A x \in S : x <= Highest(S)
  <1> DEFINE D == {M - x : x \in S}
  <1>1. D \in SUBSET Nat /\ D # {}
    <2>1. \A x \in S : M - x \in Nat
      OBVIOUS
    <2>2. D \in SUBSET Nat
      BY <2>1
    <2>3. PICK x \in S : TRUE
      OBVIOUS
    <2>4. M - x \in D
      OBVIOUS
    <2> QED
      BY <2>2, <2>4
  <1>2. PICK d \in D : \A n \in D : d <= n
    BY <1>1, LeastExists
  <1>3. PICK m \in S : d = M - m
    BY <1>2
  <1>4. ASSUME NEW x \in S PROVE x <= m
    <2>1. M - x \in D /\ x \in Int /\ m \in Int
      BY <1>3
    <2> HIDE DEF D
    <2>2. d <= M - x
      BY <1>2, <2>1
    <2> QED
      BY <1>3, <2>1, <2>2
  <1> QED
    BY <1>4 DEF Highest

\* A queue is finite: so are the descriptors in it.
LEMMA FdsBounded ==
    ASSUME NEW q \in Seq(Events)
    PROVE  \E M \in Int : \A e \in Elems(q) : EvFd[e] <= M
  <1> DEFINE T == {n \in Nat : \E M \in Int : \A i \in 1 .. Len(q) : i <= n => EvFd[q[i]] <= M}
  <1>0. \A i \in 1 .. Len(q) : EvFd[q[i]] \in Int
    BY EventAssumption
  <1>1. 0 \in T
    <2>1. \A i \in 1 .. Len(q) : i <= 0 => EvFd[q[i]] <= 0
      OBVIOUS
    <2> QED
      BY <2>1
  <1>2. ASSUME NEW n \in Nat, n \in T PROVE n + 1 \in T
    <2>1. PICK M \in Int : \A i \in 1 .. Len(q) : i <= n => EvFd[q[i]] <= M
      BY <1>2
    <2>2. CASE n + 1 \notin 1 .. Len(q)
      <3>1. \A i \in 1 .. Len(q) : i <= n + 1 => i <= n
        BY <2>2
      <3>2. \A i \in 1 .. Len(q) : i <= n + 1 => EvFd[q[i]] <= M
        BY <2>1, <3>1
      <3>3. \E B \in Int : \A i \in 1 .. Len(q) : i <= n + 1 => EvFd[q[i]] <= B
        BY <3>2
      <3>4. n + 1 \in Nat
        OBVIOUS
      <3> QED
        BY <3>3, <3>4
    <2>3. CASE n + 1 \in 1 .. Len(q)
      <3> DEFINE fd == EvFd[q[n + 1]]
                 N == IF fd <= M THEN M ELSE fd
      <3>1. fd \in Int /\ N \in Int /\ fd <= N /\ M <= N
        BY <1>0, <2>3
      <3>2. ASSUME NEW i \in 1 .. Len(q), i <= n + 1 PROVE EvFd[q[i]] <= N
        <4>1. CASE i = n + 1
          BY <3>1, <4>1
        <4>2. CASE i # n + 1
          <5>1. i <= n
            BY <3>2, <4>2
          <5>2. EvFd[q[i]] <= M /\ EvFd[q[i]] \in Int
            BY <1>0, <2>1, <5>1
          <5> HIDE DEF N
          <5> QED
            BY <3>1, <5>2
        <4> QED
          BY <4>1, <4>2
      <3> HIDE DEF N, fd
      <3>3. \E B \in Int : \A i \in 1 .. Len(q) : i <= n + 1 => EvFd[q[i]] <= B
        BY <3>1, <3>2
      <3>4. n + 1 \in Nat
        OBVIOUS
      <3> QED
        BY <3>3, <3>4
    <2> QED
      BY <2>2, <2>3
  <1> HIDE DEF T
  <1>3. Len(q) \in T
    BY <1>1, <1>2, AllNumbers
  <1>4. PICK M \in Int : \A i \in 1 .. Len(q) : i <= Len(q) => EvFd[q[i]] <= M
    BY <1>3 DEF T
  <1>5. \A i \in 1 .. Len(q) : EvFd[q[i]] <= M
    BY <1>4
  <1> QED
    BY <1>5 DEF Elems

LEMMA HighestOf ==
    ASSUME NEW P \in Seq(Events), NEW Q \in Seq(Events), NEW t \in Int,
           NEW F, F = {EvFd[e] : e \in Elems(P) \cup Elems(Q)} \cup {t}
    PROVE  /\ Highest(F) \in Int /\ t <= Highest(F)
           /\ \A e \in Elems(P) \cup Elems(Q) : EvFd[e] <= Highest(F)
  <1>1. PICK A \in Int : \A e \in Elems(P) : EvFd[e] <= A
    BY FdsBounded
  <1>2. PICK B \in Int : \A e \in Elems(Q) : EvFd[e] <= B
    BY FdsBounded
  <1>3. Elems(P) \cup Elems(Q) \subseteq Events
    BY DEF Elems
  <1>4. \A e \in Elems(P) \cup Elems(Q) : EvFd[e] \in Int
    BY <1>3, EventAssumption
  <1> DEFINE C == IF A <= B THEN B ELSE A
             M == IF C <= t THEN t ELSE C
  <1>5. M \in Int /\ A <= M /\ B <= M /\ t <= M
    OBVIOUS
  <1> HIDE DEF M, C
  <1>6. F \in SUBSET Int /\ F # {} /\ t \in F
    BY <1>4
  <1>7. ASSUME NEW x \in F PROVE x <= M
    <2>1. CASE x = t
      BY <1>5, <2>1
    <2>2. ASSUME NEW e \in Elems(P) \cup Elems(Q), x = EvFd[e] PROVE x <= M
      <3>1. x <= A \/ x <= B
        BY <1>1, <1>2, <2>2
      <3>2. x \in Int
        BY <1>4, <2>2
      <3> QED
        BY <1>5, <3>1, <3>2
    <2> QED
      BY <2>1, <2>2
  <1>8. Highest(F) \in F /\ \A x \in F : x <= Highest(F)
    BY <1>5, <1>6, <1>7, HighestExists
  <1>9. \A e \in Elems(P) \cup Elems(Q) : EvFd[e] \in F
    OBVIOUS
  <1> QED
    BY <1>6, <1>8, <1>9

LEMMA HigherOfTwo ==
    ASSUME NEW a \in Int, NEW b \in Int
    PROVE  /\ Highest({a, b}) \in Int
           /\ a <= Highest({a, b}) /\ b <= Highest({a, b})
  <1> DEFINE M == IF a <= b THEN b ELSE a
             S == {a, b}
  <1>1. M \in Int /\ \A x \in S : x <= M
    OBVIOUS
  <1>2. S \in SUBSET Int /\ S # {} /\ a \in S /\ b \in S
    OBVIOUS
  <1> HIDE DEF M, S
  <1>3. Highest(S) \in S /\ \A x \in S : x <= Highest(S)
    BY <1>1, <1>2, HighestExists
  <1>4. Highest(S) \in Int /\ a <= Highest(S) /\ b <= Highest(S)
    BY <1>2, <1>3
  <1> QED
    BY <1>4 DEF S


-----------------------------------------------------------------------------
(* What the loop over the read queue looks at *)

Running(k) == lpc = k \/ (lpc = "application" /\ what = k)

\* Following the links from c, nobody steps over a member of U: the members of
\* S, among them all of U, have numbers, those of U a number of their own, and
\* the link of whoever comes before a member of U leads no further than to it.
Reaches(S, r, link, c, U) ==
    /\ r \in [S -> Nat] /\ c \in S \cup {Null}
    /\ \A x \in S : link[x] \in S \cup {Null}
    /\ \A u \in U :
         /\ u \in S /\ c # Null /\ r[c] <= r[u]
         /\ \A x \in S : /\ r[x] = r[u] => x = u
                         /\ r[x] < r[u] => link[x] # Null /\ r[link[x]] <= r[u]

\* Readers above topfd, which the loop has not passed.
Unseen == {e \in Elems(queue["READ"]) : EvFd[e] > topfd}

\* The loop over the readers still reaches all of them, whatever was deleted;
\* behind it none is left.
SeenInv ==
    /\ topfd \in Int
    /\ Running("READ") => \E S \in SUBSET Events : \E r : Reaches(S, r, readLink, Cursor, Unseen)
    /\ Running("WRITE") => Unseen = {}

\* One link further.
LEMMA ReachesOn ==
    ASSUME NEW S, NEW r, NEW link, NEW c, NEW U, Reaches(S, r, link, c, U), c # Null,
           NEW V \in SUBSET U, c \notin V
    PROVE  Reaches(S, r, link, link[c], V)
  <1>1. /\ r \in [S -> Nat] /\ c \in S
        /\ \A x \in S : link[x] \in S \cup {Null}
    BY DEF Reaches
  <1>2. ASSUME NEW u \in V PROVE link[c] # Null /\ r[link[c]] <= r[u]
    <2>1. /\ u \in S /\ r[c] <= r[u]
          /\ r[c] = r[u] => c = u
          /\ r[c] < r[u] => link[c] # Null /\ r[link[c]] <= r[u]
      BY <1>1 DEF Reaches
    <2>2. r[c] \in Nat /\ r[u] \in Nat
      BY <1>1, <2>1
    <2>3. r[c] < r[u]
      BY <1>2, <2>1, <2>2
    <2> QED
      BY <2>1, <2>3
  <1>3. link[c] \in S \cup {Null}
    BY <1>1
  <1> QED
    BY <1>2, <1>3 DEF Reaches

\* An event is deleted: whoever was linked to it is linked to its successor.
LEMMA ReachesDel ==
    ASSUME EventInv, LinkInv, NEW e \in Events, event_del(e),
           NEW S \in SUBSET Events, NEW r, NEW c, NEW U, Reaches(S, r, readLink, c, U),
           NEW V \in SUBSET U, e \notin V
    PROVE  Reaches(S, r, readLink', c, V)
  <1>1. /\ r \in [S -> Nat] /\ c \in S \cup {Null}
        /\ \A x \in S : readLink[x] \in S \cup {Null}
    BY DEF Reaches
  <1>2. e # Null
    BY EventAssumption
  <1>3. ASSUME NEW x \in S
        PROVE  /\ readLink'[x] \in S \cup {Null}
               /\ \A u \in V : r[x] < r[u] => readLink'[x] # Null /\ r[readLink'[x]] <= r[u]
    <2>1. readLink'[x] = readLink[x] \/ (readLink[x] = e /\ readLink'[x] = readLink[e])
      BY DelLinks
    <2>2. CASE readLink'[x] = readLink[x]
      BY <1>1, <2>2 DEF Reaches
    <2>3. CASE readLink[x] = e /\ readLink'[x] = readLink[e]
      <3>1. e \in S
        BY <1>1, <1>2, <2>3
      <3>2. readLink'[x] \in S \cup {Null}
        BY <1>1, <2>3, <3>1
      <3>3. ASSUME NEW u \in V, r[x] < r[u] PROVE readLink[e] # Null /\ r[readLink[e]] <= r[u]
        <4>1. /\ u \in S /\ r[e] <= r[u]
              /\ r[e] = r[u] => e = u
              /\ r[e] < r[u] => readLink[e] # Null /\ r[readLink[e]] <= r[u]
          BY <2>3, <3>1, <3>3 DEF Reaches
        <4>2. r[e] \in Nat /\ r[u] \in Nat
          BY <1>1, <3>1, <4>1
        <4>3. r[e] < r[u]
          BY <3>3, <4>1, <4>2
        <4> QED
          BY <4>1, <4>3
      <3> QED
        BY <2>3, <3>2, <3>3
    <2> QED
      BY <2>1, <2>2, <2>3
  <1>4. \A u \in V : /\ u \in S /\ c # Null /\ r[c] <= r[u]
                     /\ \A x \in S : r[x] = r[u] => x = u
    BY DEF Reaches
  <1> QED
    BY <1>1, <1>3, <1>4 DEF Reaches

\* From the head of a queue all of it is reached.
LEMMA HeadReaches ==
    ASSUME NEW q \in Seq(Events), Distinct(q), NEW link, LinkedUp(q, link),
           NEW c, c = IF q = <<>> THEN Null ELSE Head(q),
           NEW U \in SUBSET Elems(q)
    PROVE  \E r : Reaches(Elems(q), r, link, c, U)
  <1> DEFINE Index(y) == CHOOSE n \in 1 .. Len(q) : q[n] = y
             r == [y \in Elems(q) |-> Index(y)]
  <1>1. \A y \in Elems(q) : Index(y) \in 1 .. Len(q) /\ q[Index(y)] = y
    BY DEF Elems
  <1>2. \A n \in 1 .. Len(q) : q[n] \in Elems(q)
    BY DEF Elems
  <1>3. \A n \in 1 .. Len(q) : Index(q[n]) = n
    BY <1>1, <1>2 DEF Distinct
  <1> HIDE DEF Index
  <1>4. r \in [Elems(q) -> Nat] /\ \A y \in Elems(q) : r[y] = Index(y)
    BY <1>1
  <1> HIDE DEF r
  <1>5. ASSUME NEW y \in Elems(q)
        PROVE  /\ link[y] \in Elems(q) \cup {Null}
               /\ \A u \in Elems(q) : /\ r[y] = r[u] => y = u
                                      /\ r[y] < r[u] => link[y] \in Elems(q) /\ r[link[y]] <= r[u]
    <2> DEFINE n == Index(y)
    <2>1. n \in 1 .. Len(q) /\ q[n] = y /\ Len(q) \in Nat
      BY <1>1
    <2>2. link[y] = IF n < Len(q) THEN q[n + 1] ELSE Null
      BY <2>1 DEF LinkedUp
    <2>3. n < Len(q) => n + 1 \in 1 .. Len(q)
      BY <2>1
    <2>4. n < Len(q) => link[y] \in Elems(q) /\ Index(link[y]) = n + 1
      BY <1>2, <1>3, <2>2, <2>3
    <2>5. ASSUME NEW u \in Elems(q), r[y] < r[u]
          PROVE  link[y] \in Elems(q) /\ r[link[y]] <= r[u]
      <3>1. Index(u) \in 1 .. Len(q) /\ n < Index(u)
        BY <1>1, <1>4, <2>5
      <3>2. n < Len(q) /\ n + 1 <= Index(u)
        BY <2>1, <3>1
      <3> QED
        BY <1>4, <2>4, <3>2
    <2>6. ASSUME NEW u \in Elems(q), r[y] = r[u] PROVE y = u
      <3>1. Index(u) = n /\ q[Index(u)] = u
        BY <1>1, <1>4, <2>6
      <3> QED
        BY <2>1, <3>1
    <2>7. link[y] \in Elems(q) \cup {Null}
      BY <2>2, <2>4
    <2> QED
      BY <2>5, <2>6, <2>7
  <1>6. Null \notin Elems(q)
    BY EventAssumption DEF Elems
  <1>7. q # <<>> => /\ c \in Elems(q) /\ c # Null
                    /\ \A u \in Elems(q) : r[c] <= r[u]
    <2> SUFFICES ASSUME q # <<>>
                 PROVE  /\ c \in Elems(q) /\ c # Null
                        /\ \A u \in Elems(q) : r[c] <= r[u]
      OBVIOUS
    <2>1. c = q[1] /\ 1 \in 1 .. Len(q)
      OBVIOUS
    <2>2. c \in Elems(q) /\ Index(c) = 1
      BY <1>2, <1>3, <2>1
    <2>3. \A u \in Elems(q) : r[c] <= r[u]
      BY <1>1, <1>4, <2>2
    <2> QED
      BY <1>6, <2>2, <2>3
  <1>8. q = <<>> => c = Null /\ Elems(q) = {}
    BY DEF Elems
  <1>9. Reaches(Elems(q), r, link, c, U)
    BY <1>4, <1>5, <1>6, <1>7, <1>8 DEF Reaches
  <1> QED
    BY <1>9


LEMMA UnseenDel ==
    ASSUME EventInv, NEW e \in Events, event_del(e), topfd' = topfd
    PROVE  Unseen' = Unseen \ {e}
  <1>1. Elems(queue'["READ"]) = Elems(queue["READ"]) \ {e}
    <2>1. "READ" \in Kinds
      BY DEF Kinds
    <2> QED
      BY <2>1, DelKeeps DEF EventInv, ScalarTypes
  <1> QED
    BY <1>1 DEF Unseen

LEMMA FireSeen ==
    ASSUME EventInv, LinkInv, SeenInv, NEW k \in {"READ", "WRITE"}, NEW set, Fire(k, set)
    PROVE  SeenInv'
  <1>1. /\ ev \in Events /\ event_del(ev) /\ lpc = k /\ ev # Null /\ old' = readLink[ev]
        /\ lpc' = "application" /\ what' = k /\ topfd' = topfd
    BY DEF Fire, Callback, EventInv, ScalarTypes, Pointers
  <1>2. Unseen' = Unseen \ {ev}
    BY <1>1, UnseenDel
  <1>3. topfd' \in Int
    BY <1>1 DEF SeenInv
  <1>4. CASE k = "READ"
    <2>1. Running("READ") /\ ~Running("WRITE")' /\ Cursor = ev /\ Cursor' = readLink[ev]
      BY <1>1, <1>4 DEF Running, Cursor
    <2>2. PICK S \in SUBSET Events : \E r : Reaches(S, r, readLink, ev, Unseen)
      BY <2>1 DEF SeenInv
    <2>3. PICK r : Reaches(S, r, readLink, ev, Unseen)
      BY <2>2
    <2> DEFINE V == Unseen \ {ev}
    <2>4. V \in SUBSET Unseen /\ ev \notin V
      OBVIOUS
    <2> HIDE DEF V
    <2>5. Reaches(S, r, readLink, readLink[ev], V)
      BY <1>1, <2>3, <2>4, ReachesOn
    <2>6. V \in SUBSET V
      OBVIOUS
    <2>7. Reaches(S, r, readLink', readLink[ev], V)
      BY <1>1, <2>4, <2>5, <2>6, ReachesDel
    <2>8. Reaches(S, r, readLink', Cursor', Unseen')
      BY <1>2, <2>1, <2>7 DEF V
    <2> QED
      BY <1>3, <2>1, <2>8 DEF SeenInv
  <1>5. CASE k = "WRITE"
    <2>1. Running("WRITE") /\ ~Running("READ")'
      BY <1>1, <1>5 DEF Running
    <2> QED
      BY <1>2, <1>3, <2>1 DEF SeenInv
  <1> QED
    BY <1>4, <1>5

\* Calls in a callback: additions are postponed.
LEMMA CallSeen ==
    ASSUME EventInv, LinkInv, RoundInv, SeenInv, AppCall
    PROVE  SeenInv'
  <1>1. /\ lpc = "application" /\ lpc' = lpc /\ what' = what /\ old' = old /\ topfd' = topfd
    BY DEF AppCall, AppDel, AppAdd
  <1>2. /\ Cursor' = Cursor /\ topfd' \in Int
        /\ Running("READ")' <=> Running("READ")
        /\ Running("WRITE")' <=> Running("WRITE")
    BY <1>1 DEF Cursor, Running, SeenInv
  <1>3. PICK e \in Events : AppDel(e) \/ \E d \in Delays \cup {0} : AppAdd(e, d)
    BY DEF AppCall
  <1>4. CASE AppDel(e)
    <2>1. event_del(e)
      BY <1>4 DEF AppDel
    <2>2. Unseen' = Unseen \ {e}
      BY <1>1, <2>1, UnseenDel
    <2>3. ASSUME Running("READ")
          PROVE  \E S \in SUBSET Events : \E r : Reaches(S, r, readLink', Cursor', Unseen')
      <3>1. PICK S \in SUBSET Events : \E r : Reaches(S, r, readLink, Cursor, Unseen)
        BY <2>3 DEF SeenInv
      <3>2. PICK r : Reaches(S, r, readLink, Cursor, Unseen)
        BY <3>1
      <3> DEFINE V == Unseen \ {e}
      <3>3. V \in SUBSET Unseen /\ e \notin V
        OBVIOUS
      <3> HIDE DEF V
      <3>4. Reaches(S, r, readLink', Cursor, V)
        BY <2>1, <3>2, <3>3, ReachesDel
      <3>5. Reaches(S, r, readLink', Cursor', Unseen')
        BY <1>2, <2>2, <3>4 DEF V
      <3> QED
        BY <3>5
    <2>4. Running("WRITE") => Unseen' = {}
      BY <2>2 DEF SeenInv
    <2> QED
      BY <1>2, <2>3, <2>4 DEF SeenInv
  <1>5. CASE \E d \in Delays \cup {0} : AppAdd(e, d)
    <2>1. PICK d \in Delays \cup {0} : AppAdd(e, d)
      BY <1>5
    <2>2. d \in Nat
      BY EventAssumption
    <2>3. Running("READ") \/ Running("WRITE") => event_inloop
      BY DEF Running, Looping, RoundInv
    <2>4. event_inloop => queue'["READ"] = queue["READ"] /\ readLink' = readLink
      BY <2>1, <2>2, AddWhole DEF AppAdd
    <2>5. event_inloop => Unseen' = Unseen /\ readLink' = readLink
      BY <1>1, <2>4 DEF Unseen
    <2> QED
      BY <1>2, <2>3, <2>5 DEF SeenInv
  <1> QED
    BY <1>3, <1>4, <1>5

LEMMA PassSeen ==
    ASSUME EventInv, SeenInv, NEW k \in {"READ", "WRITE"}, NEW set, Pass(k, set)
    PROVE  SeenInv'
  <1>1. /\ queue' = queue /\ readLink' = readLink /\ lpc = k /\ lpc' = lpc /\ ev \in Events
        /\ ev # Null /\ ev' = readLink[ev] /\ topfd' = Highest({topfd, EvFd[ev]})
    BY DEF Pass, lists, EventInv, ScalarTypes, Pointers
  <1>2. topfd \in Int /\ EvFd[ev] \in Int
    BY <1>1, EventAssumption DEF SeenInv
  <1>3. topfd' \in Int /\ topfd <= topfd' /\ EvFd[ev] <= topfd'
    BY <1>1, <1>2, HigherOfTwo
  <1>4. Unseen' \in SUBSET Unseen /\ ev \notin Unseen'
    <2>1. \A e \in Elems(queue["READ"]) : EvFd[e] \in Int
      BY EventAssumption DEF EventInv, WellQueued, Kinds, Elems
    <2>2. \A e \in Elems(queue["READ"]) : EvFd[e] > topfd' => EvFd[e] > topfd
      BY <1>2, <1>3, <2>1
    <2>3. ~(EvFd[ev] > topfd')
      BY <1>2, <1>3
    <2> QED
      BY <1>1, <2>2, <2>3 DEF Unseen
  <1>5. CASE k = "READ"
    <2>1. Running("READ") /\ ~Running("WRITE")' /\ Cursor = ev /\ Cursor' = readLink[ev]
      BY <1>1, <1>5 DEF Running, Cursor
    <2>2. PICK S \in SUBSET Events : \E r : Reaches(S, r, readLink, ev, Unseen)
      BY <2>1 DEF SeenInv
    <2>3. PICK r : Reaches(S, r, readLink, ev, Unseen)
      BY <2>2
    <2>4. Reaches(S, r, readLink, readLink[ev], Unseen')
      BY <1>1, <1>4, <2>3, ReachesOn
    <2>5. Reaches(S, r, readLink', Cursor', Unseen')
      BY <1>1, <2>1, <2>4
    <2> QED
      BY <1>3, <2>1, <2>5 DEF SeenInv
  <1>6. CASE k = "WRITE"
    <2>1. Running("WRITE") /\ ~Running("READ")'
      BY <1>1, <1>6 DEF Running
    <2> QED
      BY <1>3, <1>4, <2>1 DEF SeenInv
  <1> QED
    BY <1>5, <1>6

LEMMA SeenInvNext == EventInv /\ LinkInv /\ RoundInv /\ SeenInv /\ [EventNext]_loopVars => SeenInv'
  <1> SUFFICES ASSUME EventInv, LinkInv, RoundInv, SeenInv, [EventNext]_loopVars PROVE SeenInv'
    OBVIOUS
  <1> DEFINE Same == queue' = queue /\ readLink' = readLink /\ topfd' = topfd
  <1>1. ASSUME Same, Running("READ")' => Running("READ") /\ Cursor' = Cursor,
               Running("WRITE")' => Running("WRITE")
        PROVE  SeenInv'
    <2>1. Unseen' = Unseen
      BY <1>1 DEF Unseen
    <2> QED
      BY <1>1, <2>1 DEF SeenInv
  <1>2. CASE AppCall
    BY <1>2, CallSeen
  <1>3. CASE Fire("READ", readset) \/ Fire("WRITE", writeset)
    BY <1>3, FireSeen
  <1>4. CASE Pass("READ", readset) \/ Pass("WRITE", writeset)
    BY <1>4, PassSeen
  <1>5. CASE EndRead
    <2>1. Same /\ lpc = "READ" /\ ev = Null /\ lpc' = "WRITE"
      BY <1>5 DEF EndRead, lists
    <2>2. Running("READ") /\ ~Running("READ")' /\ Cursor = Null
      BY <2>1 DEF Running, Cursor
    <2>3. Unseen = {}
      BY <2>2 DEF SeenInv, Reaches
    <2>4. Unseen' = {} /\ topfd' \in Int
      BY <2>1, <2>3 DEF Unseen, SeenInv
    <2> QED
      BY <2>2, <2>4 DEF SeenInv
  <1>6. CASE SelectReturns
    <2> DEFINE q == queue["READ"]
    <2>1. /\ queue' = queue /\ readLink' = readLink /\ topfd' = 0 /\ ev' = First("READ")
          /\ lpc' = "READ"
      BY <1>6 DEF SelectReturns, lists
    <2>2. ~Running("WRITE")' /\ Cursor' = IF q = <<>> THEN Null ELSE Head(q)
      BY <2>1 DEF Running, Cursor, First
    <2>3. q \in Seq(Events) /\ Distinct(q) /\ LinkedUp(q, readLink)
      BY DEF EventInv, WellQueued, Kinds, LinkInv
    <2>4. Unseen' \in SUBSET Elems(q) /\ Elems(q) \in SUBSET Events
      BY <2>1, <2>3 DEF Unseen, Elems
    <2> HIDE DEF q
    <2>5. \E r : Reaches(Elems(q), r, readLink, Cursor', Unseen')
      BY <2>2, <2>3, <2>4, HeadReaches
    <2>6. \E S \in SUBSET Events : \E r : Reaches(S, r, readLink', Cursor', Unseen')
      BY <2>1, <2>4, <2>5
    <2>7. topfd' \in Int
      BY <2>1
    <2> QED
      BY <2>2, <2>6, <2>7 DEF SeenInv
  <1>7. CASE CallbackReturns
    <2>1. Same /\ lpc = "application" /\ lpc' = what /\ what # "START" /\ ev' = old
      BY <1>7 DEF CallbackReturns, lists
    <2>2. lpc' # "application" /\ Cursor = old /\ Cursor' = old
      BY <2>1 DEF EventInv, ScalarTypes, Cursor
    <2>3. /\ Running("READ")' => Running("READ")
          /\ Running("WRITE")' => Running("WRITE")
      BY <2>1, <2>2 DEF Running
    <2> QED
      BY <1>1, <2>1, <2>2, <2>3
  <1>8. CASE event_dispatch \/ EndTimeouts \/ EndWrite \/ TimeoutFires \/ SelectFails
    <2>1. ~Running("READ")' /\ ~Running("WRITE")'
      BY <1>8 DEF event_dispatch, EndTimeouts, EndWrite, AfterLoops, TimeoutFires, Callback,
                  SelectFails, Running
    <2>2. topfd' = topfd \/ topfd' = 0
      BY <1>8 DEF event_dispatch, EndTimeouts, EndWrite, TimeoutFires, SelectFails
    <2>3. topfd' \in Int
      BY <2>2 DEF SeenInv
    <2> QED
      BY <2>1, <2>3 DEF SeenInv
  <1>9. CASE Interrupted \/ Tick \/ UNCHANGED loopVars
    <2>1. /\ Same /\ Cursor' = Cursor
          /\ Running("READ")' <=> Running("READ")
          /\ Running("WRITE")' <=> Running("WRITE")
      BY <1>9 DEF Interrupted, Tick, loopVars, lists, Running, Cursor
    <2> QED
      BY <1>1, <2>1
  <1> QED
    BY <1>2, <1>3, <1>4, <1>5, <1>6, <1>7, <1>8, <1>9 DEF EventNext, Scheduled, IoRound


LEMMA SeenAlways == EventSpec => []SeenInv
  <1>1. EventInit => SeenInv
    BY DEF EventInit, SeenInv, Running
  <1>2. EventInv /\ (LinkInv /\ RoundInv) /\ SeenInv /\ [EventNext]_loopVars => SeenInv'
    BY SeenInvNext
  <1> QED
    BY <1>1, <1>2, EventInvAlways, RoundAlways, PTL DEF EventSpec

LEMMA RangeElems ==
    ASSUME NEW q \in Seq(Events)
    PROVE  Range(q) = Elems(q)
  <1>1. DOMAIN q = 1 .. Len(q)
    OBVIOUS
  <1> QED
    BY <1>1 DEF Range, Elems

\* Behind the loops: the readers left were all looked at, and the others are
\* postponed additions.
LEMMA EndWriteWatched ==
    ASSUME EventInv, SeenInv, EndWrite, NEW e \in Elems(queue'["READ"])
    PROVE  EvFd[e] <= event_fds'
  <1> DEFINE P == queue["ADD"]
             F == {EvFd[x] : x \in Range(P)} \cup {topfd}
             A == queue'["READ"]
             B == queue'["WRITE"]
             G == {EvFd[x] : x \in Range(A) \cup Range(B)} \cup {0}
  <1>1. lpc = "WRITE" /\ event_fds' = IF Highest(F) # 0 THEN Highest(F) ELSE Highest(G)
    BY DEF EndWrite, events_recalc, HighestQueued
  <1>2. /\ WellQueued(queue, flags) /\ WellQueued(queue', flags')
        /\ \A x \in Events : flags'[x] = IF "ADD" \in flags[x]
               THEN (flags[x] \ {"ADD"}) \cup EvEvents[x] ELSE flags[x]
    BY EndWriteQueues DEF EventInv, ScalarTypes
  <1>3. P \in Seq(Events) /\ A \in Seq(Events) /\ B \in Seq(Events)
    BY <1>2 DEF WellQueued, Kinds
  <1>4. Range(P) = Elems(P) /\ Range(A) = Elems(A) /\ Range(B) = Elems(B)
    <2> HIDE DEF P, A, B
    <2> QED
      BY <1>3, RangeElems
  <1>5. e \in Elems(queue["READ"]) \/ e \in Elems(P)
    <2>1. "READ" \in Kinds /\ "ADD" \in Kinds
      BY DEF Kinds
    <2>2. e \in Events
      BY <1>3 DEF Elems
    <2>3. "READ" \in flags'[e]
      BY <1>2, <2>1, <2>2 DEF WellQueued
    <2>4. "READ" \in flags[e] \/ "ADD" \in flags[e]
      BY <1>2, <2>2, <2>3
    <2> QED
      BY <1>2, <2>1, <2>2, <2>4 DEF WellQueued
  <1>6. topfd \in Int /\ Unseen = {}
    BY <1>1 DEF SeenInv, Running
  <1>7. F = {EvFd[x] : x \in Elems(P) \cup Elems(P)} \cup {topfd}
    BY <1>4
  <1>8. G = {EvFd[x] : x \in Elems(A) \cup Elems(B)} \cup {0}
    BY <1>4
  <1>9. e \in Elems(A)
    OBVIOUS
  <1>10. EvFd[e] \in Int
    BY <1>3, EventAssumption DEF Elems
  <1> HIDE DEF F, G, A, B, P
  <1>11. /\ Highest(F) \in Int /\ topfd <= Highest(F)
         /\ \A x \in Elems(P) : EvFd[x] <= Highest(F)
    BY <1>3, <1>6, <1>7, HighestOf
  <1>12. EvFd[e] <= Highest(G)
    <2>1. 0 \in Int
      OBVIOUS
    <2> QED
      BY <1>3, <1>8, <1>9, <2>1, HighestOf
  <1>13. EvFd[e] <= Highest(F)
    <2>1. CASE e \in Elems(P)
      BY <1>11, <2>1
    <2>2. CASE e \in Elems(queue["READ"])
      <3>1. ~(EvFd[e] > topfd)
        BY <1>6, <2>2 DEF Unseen
      <3> QED
        BY <1>6, <1>10, <1>11, <3>1
    <2> QED
      BY <1>5, <2>1, <2>2
  <1> QED
    BY <1>1, <1>12, <1>13

\* The reading loop misses nobody: although the loop follows links that
\* callbacks change under it, among them links of events that were deleted,
\* behind the round every event that waits to read lies below event_fds.
THEOREM NoReaderMissed == EventSpec => ReadersWatched
  <1>1. EventInv /\ SeenInv /\ [EventNext]_loopVars =>
            [event_inloop /\ ~event_inloop' =>
                \A e \in Events : In(e, "READ")' => EvFd[e] <= event_fds']_loopVars
    <2> SUFFICES ASSUME EventInv, SeenInv, EventNext, event_inloop, ~event_inloop',
                        NEW e \in Events, e \in Range(queue'["READ"])
                 PROVE  EvFd[e] <= event_fds'
      BY DEF In
    <2>1. EndWrite
      BY DEF EventNext, Scheduled, IoRound, AppCall, AppDel, AppAdd, event_dispatch,
             CallbackReturns, Pass, Fire, EndRead, TimeoutFires, EndTimeouts, SelectReturns,
             Interrupted, SelectFails, Tick
    <2>2. queue'["READ"] \in Seq(Events)
      BY <2>1, EndWriteQueues DEF EventInv, ScalarTypes, WellQueued, Kinds
    <2>3. e \in Elems(queue'["READ"])
      BY <2>2 DEF Range, Elems
    <2> QED
      BY <2>1, <2>3, EndWriteWatched
  <1> QED
    BY <1>1, EventInvAlways, SeenAlways, PTL DEF EventSpec, ReadersWatched


=============================================================================
