------------------------- MODULE SerialLink_proofs --------------------------
(***************************************************************************)
(* Proofs about the serial link, for every set of messages, every kind of  *)
(* noise and every number of calls.                                        *)
(***************************************************************************)
EXTENDS SerialLink, SeqFilter_proofs, FiniteSetTheorems

Byte == 0 .. 255

-----------------------------------------------------------------------------
(* Bytes *)

LEMMA FlipByte ==
    ASSUME NEW b \in Byte
    PROVE  Flip(b) \in Byte /\ Flip(Flip(b)) = b
  <1>1. 2^4 = 16
    OBVIOUS
  <1>2. \A x \in Byte : Bit(x, 4) = (x \div 16) % 2
    BY <1>1 DEF Bit
  <1>3. CASE (b \div 16) % 2 = 1
    <2>1. Flip(b) = b - 16
      BY <1>2, <1>3 DEF Flip
    <2>2. b - 16 \in Byte /\ ((b - 16) \div 16) % 2 = 0
      BY <1>3 DEF Byte
    <2>3. Flip(b - 16) = (b - 16) + 16
      BY <1>2, <2>2 DEF Flip
    <2> QED
      BY <2>1, <2>2, <2>3 DEF Byte
  <1>4. CASE (b \div 16) % 2 # 1
    <2>1. Flip(b) = b + 16
      BY <1>2, <1>4 DEF Flip
    <2>2. b + 16 \in Byte /\ ((b + 16) \div 16) % 2 = 1
      BY <1>4 DEF Byte
    <2>3. Flip(b + 16) = (b + 16) - 16
      BY <1>2, <2>2 DEF Flip
    <2> QED
      BY <2>1, <2>2, <2>3 DEF Byte
  <1> QED
    BY <1>3, <1>4

\* A byte goes over the line as a character that is no control character, behind
\* the escape character if it has to be changed for that.
LEMMA EscapedByte ==
    ASSUME NEW b \in Byte
    PROVE  LET e == Escaped(b)
           IN  /\ e \in Seq(Byte)
               /\ \/ Len(e) = 1 /\ e[1] = b /\ b \notin Control
                  \/ /\ Len(e) = 2 /\ e[1] = SL_ESC_CHAR
                     /\ e[2] \notin Control /\ Flip(e[2]) = b
  <1>1. Control = {1, 2, 3} /\ SL_ESC_CHAR = 2 /\ 2 \in Byte
    BY DEF Control, SL_START_CHAR, SL_ESC_CHAR, SL_END_CHAR, Byte
  <1>2. CASE b < 16
    <2>1. Flip(b) \in Byte /\ Flip(Flip(b)) = b
      BY FlipByte
    <2>2. Flip(b) \notin {1, 2, 3}
      <3>1. 2^4 = 16
        OBVIOUS
      <3>2. Bit(b, 4) = 0
        BY <1>2, <3>1 DEF Bit, Byte
      <3> QED
        BY <3>2 DEF Flip, Byte
    <2>3. Escaped(b) = <<SL_ESC_CHAR, Flip(b)>>
      BY <1>2 DEF Escaped
    <2> QED
      BY <1>1, <2>1, <2>2, <2>3
  <1>3. CASE ~(b < 16)
    <2>1. Escaped(b) = <<b>> /\ b \notin {1, 2, 3}
      BY <1>3 DEF Escaped, Byte
    <2> QED
      BY <1>1, <2>1
  <1> QED
    BY <1>2, <1>3

LEMMA XorByte ==
    ASSUME NEW s \in Seq(Byte)
    PROVE  Xor(s) \in Byte
  <1>1. ASSUME NEW k \in 0 .. 7
        PROVE  Parity(s, k) = 0 \/ Parity(s, k) = 2^k
    <2> DEFINE S == {n \in DOMAIN s : Bit(s[n], k) = 1}
    <2>1. IsFiniteSet(DOMAIN s)
      BY FS_Interval
    <2>2. Cardinality(S) \in Nat
      BY <2>1, FS_Subset, FS_CardinalityType
    <2> HIDE DEF S
    <2>3. Cardinality(S) % 2 = 0 \/ Cardinality(S) % 2 = 1
      BY <2>2
    <2>4. Parity(s, k) = (Cardinality(S) % 2) * 2^k
      BY DEF Parity, S
    <2>5. 2^k \in Int
      OBVIOUS
    <2>6. 0 * 2^k = 0 /\ 1 * 2^k = 2^k
      BY <2>5
    <2> QED
      BY <2>3, <2>4, <2>6
  <1>2. 2^0 = 1 /\ 2^1 = 2 /\ 2^2 = 4 /\ 2^3 = 8 /\ 2^4 = 16 /\ 2^5 = 32 /\ 2^6 = 64 /\ 2^7 = 128
    OBVIOUS
  <1>3. /\ Parity(s, 0) \in {0, 1} /\ Parity(s, 1) \in {0, 2} /\ Parity(s, 2) \in {0, 4}
        /\ Parity(s, 3) \in {0, 8} /\ Parity(s, 4) \in {0, 16} /\ Parity(s, 5) \in {0, 32}
        /\ Parity(s, 6) \in {0, 64} /\ Parity(s, 7) \in {0, 128}
    BY <1>1, <1>2
  <1>4. \A a \in {0, 1}, b \in {0, 2}, c \in {0, 4}, d \in {0, 8} :
            a + b + c + d \in 0 .. 15
    OBVIOUS
  <1>5. \A x \in 0 .. 15 : \A a \in {0, 16}, b \in {0, 32} : x + a + b \in 0 .. 63
    OBVIOUS
  <1> DEFINE x == Parity(s, 0) + Parity(s, 1) + Parity(s, 2) + Parity(s, 3)
  <1>6. x \in 0 .. 15
    BY <1>3, <1>4
  <1>7. Xor(s) = x + Parity(s, 4) + Parity(s, 5) + Parity(s, 6) + Parity(s, 7)
    BY DEF Xor
  <1> HIDE DEF x
  <1> QED
    <2> DEFINE y == x + Parity(s, 4) + Parity(s, 5)
    <2>1. y \in 0 .. 63
      BY <1>3, <1>5, <1>6
    <2>2. Xor(s) = y + Parity(s, 6) + Parity(s, 7)
      BY <1>7
    <2>3. \A z \in 0 .. 63 : \A a \in {0, 64}, b \in {0, 128} : z + a + b \in Byte
      BY DEF Byte
    <2> HIDE DEF y
    <2>4. y + Parity(s, 6) + Parity(s, 7) \in Byte
      BY <1>3, <2>1, <2>3, ZenonT(30)
    <2> QED
      BY <2>2, <2>4

\* Two bytes make a word of 16 bits, and a word is two bytes.
LEMMA Words ==
    /\ U16 \in Nat \ {0}
    /\ \A x \in Nat : x < U16 <=> x \in 0 .. U16 - 1
    /\ \A x \in 0 .. U16 - 1 : /\ x \div 256 \in Byte /\ x % 256 \in Byte
                               /\ (x \div 256) * 256 + (x % 256) = x
    /\ \A b, c \in Byte : /\ b * 256 \in 0 .. U16 - 1
                          /\ b * 256 + c \in 0 .. U16 - 1 /\ (b * 256 + c) % U16 = b * 256 + c
    /\ \A x \in Nat : x % U16 \in 0 .. U16 - 1
  <1>1. U16 \in Nat \ {0}
    BY DEF U16
  <1>2. \A x \in Int : x \in 0 .. U16 - 1 <=> (0 <= x /\ x < U16)
    BY <1>1
  <1>3. \A x \in Nat : x < U16 => x \div 256 \in 0 .. 255
    BY DEF U16
  <1>4. \A x \in Nat : x % 256 \in 0 .. 255 /\ (x \div 256) * 256 + (x % 256) = x
    OBVIOUS
  <1>5. \A b, c \in 0 .. 255 : /\ b * 256 \in Nat /\ b * 256 < U16
                               /\ b * 256 + c \in Nat /\ b * 256 + c < U16
    BY DEF U16
  <1>6. \A x \in Nat : x < U16 => x % U16 = x
    BY DEF U16
  <1>7. \A x \in Nat : x % U16 \in Nat /\ x % U16 < U16
    BY DEF U16
  <1>8. \A x \in Nat : x < U16 <=> x \in 0 .. U16 - 1
    BY <1>2
  <1>9. \A x \in 0 .. U16 - 1 : x \in Nat /\ x < U16
    BY <1>1
  <1>10. \A x \in 0 .. U16 - 1 : /\ x \div 256 \in Byte /\ x % 256 \in Byte
                                 /\ (x \div 256) * 256 + (x % 256) = x
    BY <1>3, <1>4, <1>9 DEF Byte
  <1>11. \A b, c \in Byte : /\ b * 256 \in 0 .. U16 - 1
                            /\ b * 256 + c \in 0 .. U16 - 1 /\ (b * 256 + c) % U16 = b * 256 + c
    <2> SUFFICES ASSUME NEW b \in Byte, NEW c \in Byte
                 PROVE  /\ b * 256 \in 0 .. U16 - 1
                        /\ b * 256 + c \in 0 .. U16 - 1 /\ (b * 256 + c) % U16 = b * 256 + c
      OBVIOUS
    <2>1. /\ b * 256 \in Nat /\ b * 256 < U16
          /\ b * 256 + c \in Nat /\ b * 256 + c < U16
      BY <1>5, ZenonT(30) DEF Byte
    <2> DEFINE x == b * 256
               y == b * 256 + c
    <2> HIDE DEF x, y
    <2>2. x \in Nat /\ x < U16 /\ y \in Nat /\ y < U16
      BY <2>1 DEF x, y
    <2>3. x \in 0 .. U16 - 1 /\ y \in 0 .. U16 - 1 /\ y % U16 = y
      BY <2>2, <1>6, <1>8
    <2> QED
      BY <2>3 DEF x, y
  <1>12. \A x \in Nat : x % U16 \in 0 .. U16 - 1
    BY <1>7, <1>8
  <1> QED
    BY <1>1, <1>8, <1>10, <1>11, <1>12

-----------------------------------------------------------------------------
(* Sequences of sequences *)

\* G is the recursive function inside FlattenSeq, for the first m sequences.
Flattens(G, e, m) == G = [n \in 1 .. m |-> IF n = 1 THEN e[n] ELSE G[n - 1] \o e[n]]

LEMMA FlattensStep ==
    ASSUME NEW e, NEW m \in Nat, NEW G, Flattens(G, e, m)
    PROVE  \E H : Flattens(H, e, m + 1)
  <1> DEFINE step == IF m = 0 THEN e[1] ELSE G[m] \o e[m + 1]
             H == [n \in 1 .. m + 1 |-> IF n = m + 1 THEN step ELSE G[n]]
  <1>1. \A n \in 1 .. m : G[n] = IF n = 1 THEN e[n] ELSE G[n - 1] \o e[n]
    BY DEF Flattens
  <1>2. \A n \in 1 .. m : H[n] = G[n]
    <2> HIDE DEF step
    <2>1. \A n \in 1 .. m : n \in 1 .. m + 1 /\ n # m + 1
      OBVIOUS
    <2> QED
      BY <2>1
  <1>3. H[m + 1] = step
    OBVIOUS
  <1>4. ASSUME NEW n \in 1 .. m + 1
        PROVE  H[n] = IF n = 1 THEN e[n] ELSE H[n - 1] \o e[n]
    <2>1. CASE n = m + 1 /\ m # 0
      <3>1. n # 1 /\ n - 1 = m /\ m \in 1 .. m
        BY <2>1
      <3>2. H[n - 1] = G[m]
        BY <1>2, <3>1
      <3> HIDE DEF H
      <3> QED
        BY <2>1, <1>3, <3>1, <3>2
    <2>2. CASE n = m + 1 /\ m = 0
      <3>1. n = 1 /\ H[n] = step
        BY <2>2, <1>3
      <3> HIDE DEF H
      <3> QED
        BY <2>2, <3>1
    <2>3. CASE n \in 1 .. m
      <3>1. n # 1 => n - 1 \in 1 .. m
        BY <2>3
      <3> HIDE DEF H, step
      <3> QED
        BY <1>1, <1>2, <2>3, <3>1
    <2> QED
      BY <2>1, <2>2, <2>3
  <1>5. H = [n \in 1 .. m + 1 |-> H[n]]
    OBVIOUS
  <1> HIDE DEF H
  <1>6. Flattens(H, e, m + 1)
    BY <1>4, <1>5 DEF Flattens
  <1> QED
    BY <1>6

LEMMA FlattensExists ==
    ASSUME NEW e
    PROVE  \A m \in Nat : \E G : Flattens(G, e, m)
  <1> DEFINE T == {m \in Nat : \E G : Flattens(G, e, m)}
  <1>1. 0 \in T
    <2> DEFINE G == [n \in {} |-> <<>>]
    <2>1. 1 .. 0 = {}
      OBVIOUS
    <2>2. Flattens(G, e, 0)
      BY <2>1 DEF Flattens
    <2> QED
      BY <2>2
  <1>2. \A n \in Nat : n \in T => n + 1 \in T
    BY FlattensStep
  <1> HIDE DEF T
  <1>3. Nat \subseteq T
    BY <1>1, <1>2, AllNumbers
  <1> QED
    BY <1>3 DEF T

LEMMA FlattenPrefixes ==
    ASSUME NEW T, NEW e \in Seq(Seq(T)), Len(e) > 0
    PROVE  \E F : /\ FlattenSeq(e) = F[Len(e)]
                  /\ F[0] = <<>>
                  /\ \A n \in 1 .. Len(e) : F[n] = F[n - 1] \o e[n]
  <1> DEFINE L == Len(e)
             G == CHOOSE H : Flattens(H, e, Len(e))
             F == [n \in 0 .. L |-> IF n = 0 THEN <<>> ELSE G[n]]
  <1>1. L \in Nat /\ L # 0
    OBVIOUS
  <1>2. FlattenSeq(e) = G[L]
    BY <1>1 DEF FlattenSeq, Flattens
  <1>3. Flattens(G, e, L)
    BY <1>1, FlattensExists
  <1> HIDE DEF G
  <1>4. \A n \in 1 .. L : G[n] = IF n = 1 THEN e[n] ELSE G[n - 1] \o e[n]
    BY <1>3 DEF Flattens
  <1>5. F[0] = <<>> /\ \A n \in 1 .. L : F[n] = G[n]
    BY <1>1
  <1>6. ASSUME NEW n \in 1 .. L PROVE F[n] = F[n - 1] \o e[n]
    <2>1. e[n] \in Seq(T)
      OBVIOUS
    <2>2. n = 1 \/ (n # 1 /\ n - 1 \in 1 .. L)
      BY <1>1
    <2>3. CASE n = 1
      <3>1. F[n] = e[n] /\ F[n - 1] = <<>>
        BY <1>4, <1>5, <2>3
      <3> HIDE DEF F
      <3> QED
        BY <2>1, <3>1, ConcatEmptySeq
    <2>4. CASE n # 1 /\ n - 1 \in 1 .. L
      <3> HIDE DEF F
      <3> QED
        BY <1>4, <1>5, <2>4
    <2> QED
      BY <2>2, <2>3, <2>4
  <1>7. FlattenSeq(e) = F[L]
    BY <1>1, <1>2, <1>5
  <1> HIDE DEF F
  <1> QED
    BY <1>5, <1>6, <1>7

\* Where the sequences lie in the flattened one: Q[n] elements stand before
\* the end of the n-th.
Lays(Q, f, e) ==
    /\ Q \in [0 .. Len(e) -> Nat] /\ Q[0] = 0 /\ Len(f) = Q[Len(e)]
    /\ \A n \in 1 .. Len(e) :
          /\ Q[n] = Q[n - 1] + Len(e[n])
          /\ \A k \in 1 .. Len(e[n]) : f[Q[n - 1] + k] = e[n][k]
    /\ \A n \in 0 .. Len(e) : n <= Q[n]
    /\ \A m, n \in 0 .. Len(e) : m < n => Q[m] < Q[n]

\* p is a proper beginning of s.
Begins(p, s) == Len(p) < Len(s) /\ \A k \in 1 .. Len(p) : s[k] = p[k]

LEMMA FlattenLays ==
    ASSUME NEW T, NEW e \in Seq(Seq(T)), Len(e) > 0, \A n \in 1 .. Len(e) : Len(e[n]) > 0
    PROVE  /\ FlattenSeq(e) \in Seq(T)
           /\ \E Q : Lays(Q, FlattenSeq(e), e)
  <1> DEFINE L == Len(e)
  <1>1. PICK F : /\ FlattenSeq(e) = F[L] /\ F[0] = <<>>
                 /\ \A n \in 1 .. L : F[n] = F[n - 1] \o e[n]
    BY FlattenPrefixes
  <1>2. L \in Nat /\ L > 0 /\ \A n \in 1 .. L : e[n] \in Seq(T) /\ Len(e[n]) \in Nat /\ Len(e[n]) > 0
    OBVIOUS
  <1> HIDE DEF L
  <1> DEFINE U == {n \in Nat : n <= L => /\ F[n] \in Seq(T) /\ n <= Len(F[n])
                                         /\ \A m \in 0 .. n - 1 : F[m] \in Seq(T) /\ Begins(F[m], F[n])}
  <1>3. 0 \in U
    <2>1. F[0] \in Seq(T) /\ 0 <= Len(F[0])
      BY <1>1
    <2>2. \A m \in 0 .. 0 - 1 : FALSE
      OBVIOUS
    <2> QED
      BY <2>1, <2>2
  <1>4. ASSUME NEW n \in Nat, n \in U PROVE n + 1 \in U
    <2> SUFFICES ASSUME n + 1 <= L
                 PROVE  /\ F[n + 1] \in Seq(T) /\ n + 1 <= Len(F[n + 1])
                        /\ \A m \in 0 .. (n + 1) - 1 : F[m] \in Seq(T) /\ Begins(F[m], F[n + 1])
      OBVIOUS
    <2>1. /\ F[n] \in Seq(T) /\ n <= Len(F[n]) /\ Len(F[n]) \in Nat
          /\ \A m \in 0 .. n - 1 : F[m] \in Seq(T) /\ Begins(F[m], F[n])
      <3>1. /\ F[n] \in Seq(T) /\ n <= Len(F[n])
            /\ \A m \in 0 .. n - 1 : F[m] \in Seq(T) /\ Begins(F[m], F[n])
        BY <1>2, <1>4
      <3> QED
        BY <3>1
    <2>2. n + 1 \in 1 .. L /\ (n + 1) - 1 = n
      BY <1>2
    <2>3. F[n + 1] = F[n] \o e[n + 1] /\ e[n + 1] \in Seq(T) /\ Len(e[n + 1]) \in Nat /\ Len(e[n + 1]) > 0
      <3>1. F[n + 1] = F[(n + 1) - 1] \o e[n + 1]
        BY <1>1, <2>2, Zenon
      <3> QED
        BY <1>2, <2>2, <3>1
    <2> DEFINE a == F[n]
               b == e[n + 1]
               c == F[n + 1]
    <2> HIDE DEF a, b, c
    <2>4. a \in Seq(T) /\ b \in Seq(T) /\ c = a \o b
      BY <2>1, <2>3 DEF a, b, c
    <2>5. /\ c \in Seq(T) /\ Len(c) = Len(a) + Len(b)
          /\ \A k \in 1 .. Len(a) + Len(b) : c[k] = IF k <= Len(a) THEN a[k] ELSE b[k - Len(a)]
      BY <2>4, ConcatProperties, Zenon
    <2>6. Len(a) \in Nat /\ Len(b) \in Nat /\ Len(b) > 0 /\ n <= Len(a)
      BY <2>1, <2>3 DEF a, b
    <2>7. n + 1 <= Len(c) /\ Len(a) < Len(c) /\ \A k \in 1 .. Len(a) : c[k] = a[k]
      BY <2>5, <2>6
    <2>8. ASSUME NEW m \in 0 .. n PROVE F[m] \in Seq(T) /\ Begins(F[m], c)
      <3>1. CASE m = n
        BY <2>4, <2>7, <3>1 DEF Begins, a
      <3>2. CASE m # n
        <4>1. m \in 0 .. n - 1
          BY <3>2
        <4>2. F[m] \in Seq(T) /\ Begins(F[m], a)
          BY <2>1, <4>1 DEF a
        <4> DEFINE p == F[m]
        <4> HIDE DEF p
        <4>3. p \in Seq(T) /\ Len(p) < Len(a) /\ \A k \in 1 .. Len(p) : a[k] = p[k]
          BY <4>2 DEF Begins, p
        <4>4. Len(p) \in Nat
          BY <4>3
        <4>5. Begins(p, c)
          BY <2>5, <2>6, <2>7, <4>3, <4>4 DEF Begins
        <4> QED
          BY <4>2, <4>5 DEF p
      <3> QED
        BY <3>1, <3>2
    <2>9. \A m \in 0 .. (n + 1) - 1 : F[m] \in Seq(T) /\ Begins(F[m], c)
      BY <2>2, <2>8
    <2> QED
      BY <2>5, <2>7, <2>9 DEF c
  <1> HIDE DEF U
  <1>5. Nat \subseteq U
    BY <1>3, <1>4, AllNumbers
  <1>6. \A n \in 0 .. L : /\ F[n] \in Seq(T) /\ n <= Len(F[n])
                          /\ \A m \in 0 .. n - 1 : Begins(F[m], F[n])
    <2>1. \A n \in 0 .. L : n \in U /\ n <= L
      BY <1>2, <1>5
    <2> QED
      BY <2>1 DEF U
  <1> DEFINE Q == [n \in 0 .. L |-> Len(F[n])]
             f == F[L]
  <1>7. \A n \in 0 .. L : Q[n] = Len(F[n]) /\ Q[n] \in Nat
    BY <1>6
  <1>8. 0 \in 0 .. L /\ L \in 0 .. L
    BY <1>2
  <1>9. Q \in [0 .. L -> Nat] /\ Q[0] = 0 /\ Len(f) = Q[L]
    BY <1>1, <1>7, <1>8
  <1>10. \A m, n \in 0 .. L : m < n => Q[m] < Q[n]
    <2> SUFFICES ASSUME NEW m \in 0 .. L, NEW n \in 0 .. L, m < n PROVE Q[m] < Q[n]
      OBVIOUS
    <2>1. m \in 0 .. n - 1
      BY <1>2
    <2>2. Begins(F[m], F[n])
      BY <1>6, <2>1
    <2> QED
      BY <1>7, <2>2 DEF Begins
  <1>11. ASSUME NEW n \in 1 .. L
         PROVE  /\ Q[n] = Q[n - 1] + Len(e[n])
                /\ \A k \in 1 .. Len(e[n]) : f[Q[n - 1] + k] = e[n][k]
    <2> DEFINE a == F[n - 1]
               b == e[n]
               c == F[n]
    <2>1. n \in 0 .. L /\ n - 1 \in 0 .. L
      BY <1>2
    <2>2. /\ a \in Seq(T) /\ b \in Seq(T) /\ c = a \o b /\ c \in Seq(T)
          /\ Q[n] = Len(c) /\ Q[n - 1] = Len(a)
      BY <1>1, <1>2, <1>6, <1>7, <2>1
    <2> HIDE DEF a, b, c
    <2>3. /\ Len(c) = Len(a) + Len(b)
          /\ \A k \in 1 .. Len(a) + Len(b) : c[k] = IF k <= Len(a) THEN a[k] ELSE b[k - Len(a)]
      <3>1. a \in Seq(T) /\ b \in Seq(T) /\ c = a \o b
        BY <2>2
      <3> QED
        BY <3>1, ConcatProperties, Zenon
    <2>4. Len(a) \in Nat /\ Len(b) \in Nat
      BY <2>2
    <2>5. n = L \/ Begins(c, f)
      <3>1. n # L => n \in 0 .. L - 1
        BY <1>2
      <3> QED
        BY <1>6, <1>8, <3>1 DEF c
    <2>6. \A k \in 1 .. Len(c) : f[k] = c[k]
      BY <2>5 DEF Begins, c
    <2> HIDE DEF f, Q
    <2>7. ASSUME NEW k \in 1 .. Len(b) PROVE f[Len(a) + k] = b[k]
      <3>1. /\ Len(a) + k \in 1 .. Len(a) + Len(b)
            /\ ~(Len(a) + k <= Len(a)) /\ (Len(a) + k) - Len(a) = k
        BY <2>4
      <3> QED
        BY <2>3, <2>6, <3>1
    <2> QED
      BY <2>2, <2>3, <2>7 DEF b
  <1>12. \A n \in 0 .. L : n <= Q[n]
    BY <1>6, <1>7
  <1>13. Lays(Q, f, e)
    <2> HIDE DEF Q, f
    <2> QED
      BY <1>9, <1>10, <1>11, <1>12 DEF Lays, L
  <1>14. f \in Seq(T) /\ FlattenSeq(e) = f
    BY <1>1, <1>6, <1>8
  <1> QED
    BY <1>13, <1>14

-----------------------------------------------------------------------------
(* What eSL_WriteMessage puts on the line *)

\* The bytes of a message, in the order they are sent.
Bytes(m) ==
    LET l == Len(m.data)
    IN  <<m.type \div 256, m.type % 256, l \div 256, l % 256,
          u8SL_CalculateCRC(m.type, l, m.data)>> \o m.data

LEMMA BytesFacts ==
    ASSUME NEW m \in Messages
    PROVE  LET R == Bytes(m)
               l == Len(m.data)
           IN  /\ R \in Seq(Byte) /\ Len(R) = 5 + l /\ l \in 0 .. U16 - 1
               /\ R[1] * 256 + R[2] = m.type /\ R[3] * 256 + R[4] = l
               /\ R[5] = u8SL_CalculateCRC(m.type, l, m.data)
               /\ m.data \in Seq(Byte)
               /\ \A k \in 1 .. l : R[5 + k] = m.data[k]
  <1> DEFINE R == Bytes(m)
             d == m.data
             l == Len(d)
             t == m.type
             crc == u8SL_CalculateCRC(t, l, d)
  <1>1. t \in 0 .. U16 - 1 /\ d \in Seq(Byte) /\ l \in 0 .. U16 - 1
    <2>1. m \in [type : 0 .. U16 - 1, data : Seq(Byte)] /\ Len(m.data) < U16
      BY MessageAssumption, Zenon DEF Byte
    <2>2. t \in 0 .. U16 - 1 /\ d \in Seq(Byte)
      BY <2>1
    <2>3. l \in Nat /\ l < U16
      BY <2>1, <2>2
    <2> QED
      BY <2>2, <2>3, Words
  <1> HIDE DEF d, t
  <1>2. /\ t \div 256 \in Byte /\ t % 256 \in Byte /\ l \div 256 \in Byte /\ l % 256 \in Byte
        /\ (t \div 256) * 256 + (t % 256) = t /\ (l \div 256) * 256 + (l % 256) = l
    <2> HIDE DEF l
    <2>1. \A x \in 0 .. U16 - 1 : /\ x \div 256 \in Byte /\ x % 256 \in Byte
                                  /\ (x \div 256) * 256 + (x % 256) = x
      BY Words
    <2>2. t \in 0 .. U16 - 1 /\ l \in 0 .. U16 - 1
      BY <1>1
    <2> QED
      BY <2>1, <2>2
  <1> HIDE DEF l
  <1>3. crc \in Byte
    <2> DEFINE p == <<t % 256, t \div 256, l % 256, l \div 256>>
    <2>1. p \in Seq(Byte)
      BY <1>2
    <2> HIDE DEF p
    <2>2. p \o d \in Seq(Byte)
      <3>1. d \in Seq(Byte)
        BY <1>1
      <3> QED
        BY <2>1, <3>1, ConcatProperties
    <2>3. crc = Xor(p \o d)
      BY DEF u8SL_CalculateCRC, p
    <2> QED
      BY <2>2, <2>3, XorByte
  <1> HIDE DEF crc
  <1> DEFINE h == <<t \div 256, t % 256, l \div 256, l % 256, crc>>
  <1>4. /\ h \in Seq(Byte) /\ Len(h) = 5
        /\ h[1] = t \div 256 /\ h[2] = t % 256 /\ h[3] = l \div 256 /\ h[4] = l % 256 /\ h[5] = crc
    BY <1>2, <1>3
  <1>5. R = h \o d
    BY DEF Bytes, d, l, t, crc
  <1> HIDE DEF h, R
  <1>6. /\ R \in Seq(Byte) /\ Len(R) = Len(h) + Len(d)
        /\ \A a \in 1 .. Len(h) + Len(d) : R[a] = IF a <= Len(h) THEN h[a] ELSE d[a - Len(h)]
    <2>1. d \in Seq(Byte) /\ h \in Seq(Byte)
      BY <1>1, <1>4
    <2> QED
      BY <1>5, <2>1, ConcatProperties, Zenon
  <1>7. Len(R) = 5 + l /\ l \in Nat
    BY <1>1, <1>4, <1>6 DEF l
  <1>8. \A n \in 1 .. 5 + l : R[n] = IF n <= 5 THEN h[n] ELSE d[n - 5]
    BY <1>4, <1>6 DEF l
  <1>9. R[1] = h[1] /\ R[2] = h[2] /\ R[3] = h[3] /\ R[4] = h[4] /\ R[5] = h[5]
    BY <1>7, <1>8
  <1>10. ASSUME NEW k \in 1 .. l PROVE R[5 + k] = d[k]
    <2>1. 5 + k \in 1 .. 5 + l /\ ~(5 + k <= 5) /\ (5 + k) - 5 = k
      BY <1>7
    <2> QED
      BY <1>8, <2>1
  <1> QED
    <2>1. /\ R[1] * 256 + R[2] = t /\ R[3] * 256 + R[4] = l /\ R[5] = crc
      BY <1>2, <1>4, <1>9
    <2>2. R \in Seq(Byte) /\ l \in 0 .. U16 - 1 /\ d \in Seq(Byte)
      BY <1>1, <1>6
    <2> QED
      BY <1>7, <1>10, <2>1, <2>2 DEF d, l, t, crc, R

\* The characters s are a frame of the bytes R: P[n] characters stand before the
\* end of the n-th byte, counting the start character.
Carried(P, s, R, n) ==
    \/ P[n] = P[n - 1] + 1 /\ s[P[n]] = R[n] /\ R[n] \notin Control
    \/ /\ P[n] = P[n - 1] + 2 /\ s[P[n] - 1] = SL_ESC_CHAR
       /\ s[P[n]] \notin Control /\ Flip(s[P[n]]) = R[n]
Carries(P, s, R) ==
    /\ s \in Seq(Byte) /\ R \in Seq(Byte)
    /\ P \in [0 .. Len(R) -> Nat] /\ P[0] = 1
    /\ Len(s) = P[Len(R)] + 1 /\ s[1] = SL_START_CHAR /\ s[Len(s)] = SL_END_CHAR
    /\ \A n \in 1 .. Len(R) : Carried(P, s, R, n)
    /\ \A n \in 0 .. Len(R) : n < P[n]
    /\ \A m, n \in 0 .. Len(R) : m < n => P[m] < P[n]

LEMMA WriteCarries ==
    ASSUME NEW m \in Messages
    PROVE  \E P : Carries(P, eSL_WriteMessage(m), Bytes(m))
  <1> DEFINE R == Bytes(m)
             e == [n \in DOMAIN R |-> Escaped(R[n])]
             f == FlattenSeq(e)
             s == eSL_WriteMessage(m)
             N == Len(R)
             one == <<SL_START_CHAR>>
             end == <<SL_END_CHAR>>
  <1>1. R \in Seq(Byte) /\ N \in Nat /\ N > 0 /\ DOMAIN R = 1 .. N
    <2>1. R \in Seq(Byte) /\ N = 5 + Len(m.data) /\ Len(m.data) \in 0 .. U16 - 1
      BY BytesFacts
    <2> QED
      BY <2>1
  <1>2. s = one \o f \o end
    BY DEF eSL_WriteMessage, Bytes
  <1> HIDE DEF R
  <1>3. \A n \in 1 .. N : R[n] \in Byte
    BY <1>1
  <1> HIDE DEF N
  <1>4. ASSUME NEW n \in 1 .. N
        PROVE  /\ e[n] \in Seq(Byte)
               /\ \/ Len(e[n]) = 1 /\ e[n][1] = R[n] /\ R[n] \notin Control
                  \/ /\ Len(e[n]) = 2 /\ e[n][1] = SL_ESC_CHAR
                     /\ e[n][2] \notin Control /\ Flip(e[n][2]) = R[n]
    <2>1. e[n] = Escaped(R[n])
      BY <1>1
    <2> HIDE DEF e
    <2> QED
      BY <1>3, <2>1, EscapedByte
  <1>5. DOMAIN e = 1 .. N
    BY <1>1
  <1>6. e \in Seq(Seq(Byte)) /\ Len(e) = N
    <2>1. e \in [1 .. N -> Seq(Byte)]
      BY <1>4, <1>1
    <2> HIDE DEF e
    <2> QED
      BY <1>1, <2>1
  <1> HIDE DEF e
  <1>7. \A n \in 1 .. Len(e) : Len(e[n]) > 0
    BY <1>4, <1>6
  <1>8. f \in Seq(Byte) /\ \E Q : Lays(Q, f, e)
    BY <1>1, <1>6, <1>7, FlattenLays
  <1>9. PICK Q : Lays(Q, f, e)
    BY <1>8
  <1> HIDE DEF f
  <1>10. /\ Q \in [0 .. N -> Nat] /\ Q[0] = 0 /\ Len(f) = Q[N]
         /\ \A n \in 1 .. N : /\ Q[n] = Q[n - 1] + Len(e[n])
                              /\ \A k \in 1 .. Len(e[n]) : f[Q[n - 1] + k] = e[n][k]
         /\ \A n \in 0 .. N : n <= Q[n]
         /\ \A a, j \in 0 .. N : a < j => Q[a] < Q[j]
    BY <1>6, <1>9 DEF Lays
  <1> DEFINE M == Len(f)
  <1>11. M \in Nat
    BY <1>8
  <1>12. /\ one \in Seq(Byte) /\ Len(one) = 1 /\ one[1] = SL_START_CHAR
         /\ end \in Seq(Byte) /\ Len(end) = 1 /\ end[1] = SL_END_CHAR
    BY DEF SL_START_CHAR, SL_END_CHAR, Byte
  <1> HIDE DEF one, end
  <1>13. /\ s \in Seq(Byte) /\ Len(s) = M + 2
         /\ s[1] = SL_START_CHAR /\ s[M + 2] = SL_END_CHAR
         /\ \A k \in 1 .. M : s[k + 1] = f[k]
    <2> DEFINE c == one \o f
    <2>1. /\ c \in Seq(Byte) /\ Len(c) = Len(one) + Len(f)
          /\ \A k \in 1 .. Len(one) + Len(f) : c[k] = IF k <= Len(one) THEN one[k] ELSE f[k - Len(one)]
      BY <1>8, <1>12, ConcatProperties, Zenon
    <2>2. Len(c) = M + 1 /\ c[1] = SL_START_CHAR /\ \A k \in 1 .. M : c[k + 1] = f[k]
      <3>1. \A k \in 1 .. 1 + M : c[k] = IF k <= 1 THEN one[k] ELSE f[k - 1]
        BY <1>12, <2>1
      <3>2. \A k \in 1 .. M : k + 1 \in 1 .. 1 + M /\ ~(k + 1 <= 1) /\ (k + 1) - 1 = k
        BY <1>11
      <3>3. 1 \in 1 .. 1 + M
        BY <1>11
      <3> HIDE DEF c, M
      <3>4. \A k \in 1 .. M : c[k + 1] = f[k]
        BY <3>1, <3>2
      <3>5. c[1] = SL_START_CHAR
        BY <3>1, <3>3, <1>12
      <3> QED
        BY <1>11, <1>12, <2>1, <3>4, <3>5 DEF M
    <2> HIDE DEF c
    <2>3. s = c \o end
      BY <1>2 DEF c
    <2> HIDE DEF s
    <2>4. /\ s \in Seq(Byte) /\ Len(s) = Len(c) + Len(end)
          /\ \A k \in 1 .. Len(c) + Len(end) : s[k] = IF k <= Len(c) THEN c[k] ELSE end[k - Len(c)]
      <3>1. c \in Seq(Byte) /\ end \in Seq(Byte)
        BY <1>12, <2>1
      <3> QED
        BY <2>3, <3>1, ConcatProperties, Zenon
    <2> HIDE DEF M
    <2>5. Len(s) = M + 2 /\ \A k \in 1 .. M + 2 : s[k] = IF k <= M + 1 THEN c[k] ELSE end[k - (M + 1)]
      BY <1>11, <1>12, <2>2, <2>4
    <2>6. s[M + 2] = SL_END_CHAR
      <3>1. M + 2 \in 1 .. M + 2 /\ ~(M + 2 <= M + 1) /\ (M + 2) - (M + 1) = 1
        BY <1>11
      <3> QED
        BY <2>5, <3>1, <1>12
    <2>7. s[1] = c[1] /\ \A k \in 1 .. M : s[k + 1] = c[k + 1]
      BY <2>5, <1>11
    <2> QED
      BY <2>2, <2>4, <2>5, <2>6, <2>7
  <1> DEFINE P == [n \in 0 .. N |-> Q[n] + 1]
  <1>14. \A n \in 0 .. N : P[n] = Q[n] + 1 /\ Q[n] \in Nat
    BY <1>10
  <1>15. P \in [0 .. N -> Nat]
    BY <1>10
  <1> HIDE DEF P, M, s
  <1>16. 0 \in 0 .. N /\ N \in 0 .. N /\ \A n \in 1 .. N : n \in 0 .. N /\ n - 1 \in 0 .. N
    BY <1>1
  <1>17. ASSUME NEW n \in 1 .. N PROVE Carried(P, s, R, n)
    <2>1. /\ P[n] = Q[n] + 1 /\ P[n - 1] = Q[n - 1] + 1 /\ Q[n] \in Nat /\ Q[n - 1] \in Nat
          /\ Q[n] = Q[n - 1] + Len(e[n]) /\ \A k \in 1 .. Len(e[n]) : f[Q[n - 1] + k] = e[n][k]
      BY <1>10, <1>14, <1>16
    <2>2. Q[n] <= M
      <3>1. n = N \/ n < N
        BY <1>1
      <3>2. n < N => Q[n] < Q[N]
        BY <1>10, <1>16
      <3>3. M = Q[N] /\ Q[N] \in Nat
        BY <1>10, <1>14, <1>16 DEF M
      <3> QED
        BY <2>1, <3>1, <3>2, <3>3
    <2>3. \A k \in 1 .. Q[n] : s[k + 1] = f[k]
      BY <1>11, <1>13, <2>1, <2>2
    <2>4. CASE Len(e[n]) = 1 /\ e[n][1] = R[n] /\ R[n] \notin Control
      <3>1. Q[n] = Q[n - 1] + 1 /\ f[Q[n]] = R[n] /\ Q[n] \in 1 .. Q[n]
        BY <2>1, <2>4
      <3>2. s[P[n]] = R[n]
        BY <2>1, <2>3, <3>1
      <3>3. P[n] = P[n - 1] + 1
        BY <2>1, <3>1
      <3> QED
        BY <2>4, <3>2, <3>3 DEF Carried
    <2>5. CASE /\ Len(e[n]) = 2 /\ e[n][1] = SL_ESC_CHAR
               /\ e[n][2] \notin Control /\ Flip(e[n][2]) = R[n]
      <3>1. /\ Q[n] = Q[n - 1] + 2 /\ f[Q[n - 1] + 1] = SL_ESC_CHAR /\ f[Q[n - 1] + 2] = e[n][2]
        BY <2>1, <2>5
      <3>2. Q[n - 1] + 1 \in 1 .. Q[n] /\ Q[n - 1] + 2 \in 1 .. Q[n]
        BY <2>1, <3>1
      <3>3. s[(Q[n - 1] + 1) + 1] = SL_ESC_CHAR /\ s[(Q[n - 1] + 2) + 1] = e[n][2]
        BY <2>3, <3>1, <3>2
      <3>4. P[n] = P[n - 1] + 2 /\ P[n] - 1 = (Q[n - 1] + 1) + 1 /\ P[n] = (Q[n - 1] + 2) + 1
        BY <2>1, <3>1, SMTT(20)
      <3>5. s[P[n] - 1] = SL_ESC_CHAR /\ s[P[n]] = e[n][2]
        BY <3>3, <3>4
      <3> QED
        BY <2>5, <3>4, <3>5 DEF Carried
    <2> QED
      BY <1>4, <2>4, <2>5
  <1>18. P[0] = 1 /\ Len(s) = P[N] + 1 /\ s[Len(s)] = SL_END_CHAR
    BY <1>10, <1>11, <1>13, <1>14, <1>16 DEF M
  <1>19. /\ \A n \in 0 .. N : n < P[n]
         /\ \A a, j \in 0 .. N : a < j => P[a] < P[j]
    BY <1>10, <1>14
  <1>20. Carries(P, s, R)
    BY <1>1, <1>13, <1>15, <1>17, <1>18, <1>19 DEF Carries, N
  <1> QED
    BY <1>20 DEF s, R

-----------------------------------------------------------------------------
(* Types *)

SerialTypes ==
    /\ eRxState \in 0 .. 6 /\ u8CRC \in Byte /\ bInEsc \in BOOLEAN
    /\ type \in 0 .. U16 - 1 /\ length \in 0 .. U16 - 1
    /\ u16Bytes \in 0 .. RX_MAX_LENGTH
    /\ i \in 0 .. CursorMod - 1
    /\ buf \in Seq(Byte) /\ line \in Seq(Byte)
    /\ ret \in {"line", "run", "TRUE", "FALSE"}
    /\ hurt \in {"none", "payload", "other"} /\ synced \in BOOLEAN /\ calls \in Nat

\* A length was looked at before its data comes, and only data moves the counter.
CounterInv ==
    /\ eRxState \in {WAIT_CRC, WAIT_DATA} => length <= RX_MAX_LENGTH
    /\ eRxState \in WAIT_TYPEMSB .. WAIT_CRC => u16Bytes = 0
    /\ ret = "run" /\ synced /\ eRxState = WAIT_DATA => u16Bytes <= length

TypeInv == SerialTypes /\ CounterInv

LEMMA States ==
    /\ WAIT_START = 0 /\ WAIT_TYPEMSB = 1 /\ WAIT_TYPELSB = 2 /\ WAIT_LENMSB = 3
    /\ WAIT_LENLSB = 4 /\ WAIT_CRC = 5 /\ WAIT_DATA = 6
  BY DEF WAIT_START, WAIT_TYPEMSB, WAIT_TYPELSB, WAIT_LENMSB, WAIT_LENLSB, WAIT_CRC, WAIT_DATA

LEMMA TypeInit == SerialInit => TypeInv
  <1> SUFFICES ASSUME SerialInit PROVE TypeInv
    OBVIOUS
  <1>1. 0 \in 0 .. U16 - 1 /\ 0 \in Byte /\ 0 \in 0 .. RX_MAX_LENGTH /\ 0 \in 0 .. CursorMod - 1
    <2>1. U16 \in Nat \ {0} /\ RX_MAX_LENGTH \in Nat /\ CursorMod \in Nat \ {0}
      BY Words, LinkAssumption
    <2> QED
      BY <2>1 DEF Byte
  <1>2. SerialTypes
    <2>1. <<>> \in Seq(Byte) /\ 0 \in 0 .. 6
      OBVIOUS
    <2> QED
      BY <1>1, <2>1, States DEF SerialInit, SerialTypes
  <1>3. CounterInv
    BY States DEF SerialInit, CounterInv
  <1> QED
    BY <1>2, <1>3 DEF TypeInv

LEMMA SendTypes ==
    ASSUME TypeInv, NEW m \in Messages, Send(m)
    PROVE  TypeInv'
  <1>1. line' \in Seq(Byte)
    <2>1. PICK P : Carries(P, eSL_WriteMessage(m), Bytes(m))
      BY WriteCarries
    <2> QED
      BY <2>1 DEF Carries, Send
  <1>2. 0 \in 0 .. U16 - 1 /\ 0 \in 0 .. CursorMod - 1 /\ 0 <= RX_MAX_LENGTH /\ <<>> \in Seq(Byte)
    BY Words, LinkAssumption
  <1>3. /\ (length' = length \/ length' = 0) /\ (type' = type \/ type' = 0)
        /\ ret' = "line" /\ eRxState' = eRxState /\ u16Bytes' = u16Bytes
        /\ u8CRC' = u8CRC /\ bInEsc' = bInEsc /\ buf' = <<>> /\ i' = 0 /\ synced' = TRUE
        /\ hurt' = "none" /\ calls' = calls + 1
    BY DEF Send, statics
  <1>4. SerialTypes'
    BY <1>1, <1>2, <1>3 DEF TypeInv, SerialTypes
  <1>5. CounterInv'
    BY <1>2, <1>3 DEF TypeInv, CounterInv
  <1> QED
    BY <1>4, <1>5 DEF TypeInv

LEMMA DamageTypes ==
    ASSUME TypeInv, NEW new \in Seq(Byte), NEW kind \in {"payload", "other"}, Damage(new, kind)
    PROVE  TypeInv'
  BY DEF TypeInv, SerialTypes, CounterInv, Damage, statics

LEMMA LineTypes ==
    ASSUME TypeInv, NEW k \in DOMAIN line
    PROVE  /\ RemoveAt(line, k) \in Seq(Byte)
           /\ \A b \in Noise : [line EXCEPT ![k] = b] \in Seq(Byte)
  <1>1. line \in Seq(Byte) /\ k \in 1 .. Len(line) /\ Len(line) \in Nat
    BY DEF TypeInv, SerialTypes
  <1>2. SubSeq(line, 1, k - 1) \in Seq(Byte) /\ SubSeq(line, k + 1, Len(line)) \in Seq(Byte)
    <2>1. /\ \A n \in 1 .. k - 1 : n \in 1 .. Len(line)
          /\ \A n \in k + 1 .. Len(line) : n \in 1 .. Len(line)
          /\ \A n \in 1 .. Len(line) : line[n] \in Byte
      BY <1>1
    <2> QED
      BY <1>1, <2>1, SubSeqProperties
  <1>3. RemoveAt(line, k) \in Seq(Byte)
    BY <1>2 DEF RemoveAt
  <1>4. \A b \in Noise : b \in Byte
    BY LinkAssumption DEF Byte
  <1> QED
    BY <1>1, <1>3, <1>4, ExceptSeq

LEMMA PutTypes ==
    ASSUME buf \in Seq(Byte), NEW n \in Nat, NEW c \in Byte
    PROVE  /\ Put(n, c) \in Seq(Byte) /\ Len(Put(n, c)) = Len(buf)
           /\ \A k \in 1 .. Len(buf) : Put(n, c)[k] = IF k = n + 1 THEN c ELSE buf[k]
  BY DEF Put

\* A character of a message, in each state of the receiver.
LEMMA CharTypes ==
    ASSUME TypeInv, NEW b \in Byte, MessageChar(b), ret = "run"
    PROVE  /\ eRxState' \in 0 .. 6 /\ u8CRC' \in Byte /\ bInEsc' = FALSE
           /\ type' \in 0 .. U16 - 1 /\ length' \in 0 .. U16 - 1
           /\ u16Bytes' \in 0 .. RX_MAX_LENGTH /\ buf' \in Seq(Byte)
           /\ ret' = ret /\ synced' = synced
           /\ CounterInv'
  <1> DEFINE c == IF bInEsc THEN Flip(b) ELSE b
  <1>1. c \in Byte
    BY FlipByte
  <1>2. /\ bInEsc' = FALSE /\ ret' = ret /\ synced' = synced
        /\ \/ InWaitStart \/ InTypeMsb(c) \/ InTypeLsb(c) \/ InLenMsb(c)
           \/ InLenLsb(c) \/ InCrc(c) \/ InData(c)
    BY DEF MessageChar
  <1> HIDE DEF c
  <1>3. /\ eRxState \in 0 .. 6 /\ u8CRC \in Byte
        /\ type \in 0 .. U16 - 1 /\ length \in 0 .. U16 - 1
        /\ u16Bytes \in 0 .. RX_MAX_LENGTH /\ buf \in Seq(Byte)
    BY DEF TypeInv, SerialTypes
  <1>4. /\ eRxState \in {5, 6} => length <= RX_MAX_LENGTH
        /\ eRxState \in 1 .. 5 => u16Bytes = 0
        /\ ret = "run" /\ synced /\ eRxState = 6 => u16Bytes <= length
    BY States DEF TypeInv, CounterInv
  <1>5. SUFFICES /\ eRxState' \in 0 .. 6 /\ u8CRC' \in Byte
                 /\ type' \in 0 .. U16 - 1 /\ length' \in 0 .. U16 - 1
                 /\ u16Bytes' \in 0 .. RX_MAX_LENGTH /\ buf' \in Seq(Byte)
                 /\ eRxState' \in {5, 6} => length' <= RX_MAX_LENGTH
                 /\ eRxState' \in 1 .. 5 => u16Bytes' = 0
                 /\ ret = "run" /\ synced /\ eRxState' = 6 => u16Bytes' <= length'
    BY <1>2, States DEF CounterInv
  <1>6. c \in Nat /\ length \in Nat /\ type \in Nat /\ RX_MAX_LENGTH \in Nat
    <2>1. U16 \in Nat \ {0} /\ RX_MAX_LENGTH \in Nat
      BY Words, LinkAssumption
    <2> QED
      BY <1>1, <1>3, <2>1 DEF Byte
  <1>7. (type + c) % U16 \in 0 .. U16 - 1 /\ (length + c) % U16 \in 0 .. U16 - 1 /\ c * 256 \in 0 .. U16 - 1
    <2>1. type + c \in Nat /\ length + c \in Nat
      BY <1>6
    <2> QED
      BY <1>1, <2>1, Words
  <1>8. CASE InWaitStart
    BY <1>3, <1>4, <1>8, States DEF InWaitStart
  <1>9. CASE InTypeMsb(c)
    BY <1>3, <1>4, <1>7, <1>9, States DEF InTypeMsb
  <1>10. CASE InTypeLsb(c)
    BY <1>3, <1>4, <1>7, <1>10, States DEF InTypeLsb
  <1>11. CASE InLenMsb(c)
    BY <1>3, <1>4, <1>7, <1>11, States DEF InLenMsb
  <1>12. CASE InLenLsb(c)
    <2> DEFINE l == (length + c) % U16
    <2> HIDE DEF l
    <2>1. l \in 0 .. U16 - 1 /\ l \in Nat
      BY <1>7, Words DEF l
    <2>2. /\ eRxState = 4 /\ length' = l /\ eRxState' = IF l > RX_MAX_LENGTH THEN 0 ELSE 5
          /\ UNCHANGED <<u8CRC, u16Bytes, type, buf>>
      BY <1>12, States DEF InLenLsb, l
    <2> QED
      BY <1>3, <1>4, <1>6, <2>1, <2>2
  <1>13. CASE InCrc(c)
    BY <1>1, <1>3, <1>4, <1>6, <1>13, States DEF InCrc
  <1>14. CASE InData(c)
    <2>1. /\ eRxState = 6 /\ UNCHANGED <<eRxState, u8CRC, type, length>>
          /\ \/ u16Bytes < length /\ buf' = Put(u16Bytes, c) /\ u16Bytes' = u16Bytes + 1
             \/ ~(u16Bytes < length) /\ UNCHANGED <<buf, u16Bytes>>
      BY <1>14, States DEF InData, RoomLeft
    <2>2. length <= RX_MAX_LENGTH /\ u16Bytes \in Nat
      BY <1>3, <1>4, <2>1
    <2>3. Put(u16Bytes, c) \in Seq(Byte)
      BY <1>1, <1>3, <2>2, PutTypes
    <2>4. CASE u16Bytes < length /\ buf' = Put(u16Bytes, c) /\ u16Bytes' = u16Bytes + 1
      <3>1. u16Bytes + 1 \in 0 .. RX_MAX_LENGTH /\ u16Bytes + 1 <= length
        BY <1>6, <2>2, <2>4
      <3> QED
        BY <1>3, <2>1, <2>2, <2>3, <2>4, <3>1
    <2>5. CASE ~(u16Bytes < length) /\ UNCHANGED <<buf, u16Bytes>>
      BY <1>3, <1>4, <2>1, <2>5
    <2> QED
      BY <2>1, <2>4, <2>5
  <1> QED
    BY <1>2, <1>8, <1>9, <1>10, <1>11, <1>12, <1>13, <1>14

LEMMA ReadTypes ==
    ASSUME TypeInv, ReadChar
    PROVE  TypeInv'
  <1> DEFINE b == buf[i + 1]
  <1>1. buf \in Seq(Byte) /\ i \in Nat /\ i + 1 \in 1 .. Len(buf) /\ Len(buf) \in Nat
    <2>1. buf \in Seq(Byte) /\ i \in Nat /\ Len(buf) \in Nat /\ Len(buf) > i
      BY LinkAssumption DEF TypeInv, SerialTypes, ReadChar
    <2> QED
      BY <2>1
  <1>2. b \in Byte
    BY <1>1
  <1>3. i' \in 0 .. CursorMod - 1
    <2>1. i' = (i + 1) % CursorMod /\ i + 1 \in Nat
      BY <1>1 DEF ReadChar, NextCursor
    <2> QED
      BY <2>1, LinkAssumption
  <1>4. line' = line /\ hurt' = hurt /\ calls' = calls /\ ret = "run"
    BY DEF ReadChar
  <1>5. \/ b = SL_START_CHAR /\ StartChar
        \/ b = SL_ESC_CHAR /\ EscChar
        \/ b = SL_END_CHAR /\ EndChar
        \/ b \notin Control /\ MessageChar(b)
    BY DEF ReadChar
  <1> HIDE DEF b
  <1>6. CASE StartChar
    <2>1. /\ u16Bytes' = 0 /\ bInEsc' = FALSE /\ eRxState' = 1
          /\ UNCHANGED <<u8CRC, type, length, buf, ret>>
      BY <1>6, States DEF StartChar
    <2>0. synced' \in BOOLEAN /\ bInEsc' \in BOOLEAN
      BY <1>6, Zenon DEF StartChar
    <2>2. 0 \in 0 .. RX_MAX_LENGTH
      BY LinkAssumption
    <2>3. SerialTypes'
      <3>1. eRxState' \in 0 .. 6 /\ u16Bytes' \in 0 .. RX_MAX_LENGTH
        <4>1. eRxState' = 1 /\ u16Bytes' = 0
          BY <2>1
        <4> QED
          BY <2>2, <4>1
      <3>2. u8CRC' = u8CRC /\ type' = type /\ length' = length /\ buf' = buf /\ ret' = ret
        BY <2>1
      <3> QED
        BY <1>3, <1>4, <2>0, <3>1, <3>2 DEF TypeInv, SerialTypes
    <2>4. CounterInv'
      BY <2>1, States DEF CounterInv
    <2> QED
      BY <2>3, <2>4 DEF TypeInv
  <1>7. CASE EscChar
    BY <1>3, <1>4, <1>7 DEF EscChar, TypeInv, SerialTypes, CounterInv
  <1>8. CASE EndChar
    <2>1. /\ UNCHANGED <<u8CRC, u16Bytes, bInEsc, type, length, buf, synced>>
          /\ \/ eRxState' = 0 /\ ret' = ret
             \/ eRxState' = 0 /\ ret' = "TRUE"
             \/ eRxState' = eRxState /\ ret' = ret
      BY <1>8, States DEF EndChar
    <2>2. SerialTypes'
      BY <1>3, <1>4, <2>1 DEF TypeInv, SerialTypes
    <2>3. CounterInv'
      BY <2>1, States DEF TypeInv, CounterInv
    <2> QED
      BY <2>2, <2>3 DEF TypeInv
  <1>9. CASE MessageChar(b)
    BY <1>2, <1>3, <1>4, <1>9, CharTypes DEF TypeInv, SerialTypes
  <1> QED
    BY <1>5, <1>6, <1>7, <1>8, <1>9

LEMMA TypeNext == TypeInv /\ [SerialNext]_serialVars => TypeInv'
  <1> SUFFICES ASSUME TypeInv, [SerialNext]_serialVars PROVE TypeInv'
    OBVIOUS
  <1>1. ASSUME NEW m \in Messages, Send(m) PROVE TypeInv'
    BY <1>1, SendTypes
  <1>2. ASSUME NEW k \in DOMAIN line, Lose(k) PROVE TypeInv'
    BY <1>2, LineTypes, DamageTypes DEF Lose
  <1>3. ASSUME NEW k \in DOMAIN line, NEW b \in Noise, Change(k, b) PROVE TypeInv'
    <2>1. \E kind \in {"payload", "other"} : Damage([line EXCEPT ![k] = b], kind)
      BY <1>3 DEF Change
    <2> QED
      BY <2>1, LineTypes, DamageTypes
  <1>4. CASE Call
    <2>1. 0 \in 0 .. CursorMod - 1 /\ (eRxState = WAIT_START) \in BOOLEAN
      BY LinkAssumption
    <2>2. SerialTypes'
      BY <1>4, <2>1 DEF TypeInv, SerialTypes, Call, statics
    <2>3. CounterInv'
      <3>1. synced' => eRxState = 0
        BY <1>4, States, Zenon DEF Call
      <3> QED
        BY <1>4, <3>1, States DEF TypeInv, CounterInv, Call, statics
    <2> QED
      BY <2>2, <2>3 DEF TypeInv
  <1>5. CASE ReadChar
    BY <1>5, ReadTypes
  <1>6. CASE Return
    BY <1>6 DEF TypeInv, SerialTypes, CounterInv, Return, statics
  <1>7. CASE UNCHANGED serialVars
    BY <1>7 DEF TypeInv, SerialTypes, CounterInv, serialVars
  <1> QED
    BY <1>1, <1>2, <1>3, <1>4, <1>5, <1>6, <1>7 DEF SerialNext, eSL_ReadMessage

LEMMA TypeAlways == SerialSpec => []TypeInv
  <1>1. SerialInit => TypeInv
    BY TypeInit
  <1>2. TypeInv /\ [SerialNext]_serialVars => TypeInv'
    BY TypeNext
  <1> QED
    BY <1>1, <1>2, PTL DEF SerialSpec

\* Counters: whatever arrives, the data counter stays within the largest length
\* and, in a buffer that does not continue an earlier message, within the
\* length that was announced; type and length stay in 16 bits.
THEOREM ReceiverTypes == SerialSpec => []SerialTypeOK
  <1>1. TypeInv => SerialTypeOK
    BY States DEF TypeInv, SerialTypes, CounterInv, SerialTypeOK, Byte
  <1> QED
    BY <1>1, TypeAlways, PTL

-----------------------------------------------------------------------------
(* Reading and writing in one buffer *)

\* A buffer that the reading index can count is read once, from the left.  What
\* is behind the index is still what was there when the call began, because
\* the data counter of a message that begins in this buffer stays behind the
\* index.
BufferInv ==
    ret = "run" =>
        /\ Len(buf) = Len(line)
        /\ Short /\ i = 0 => buf = line
        /\ Short /\ synced =>
              /\ \A k \in i + 1 .. Len(line) : buf[k] = line[k]
              /\ eRxState # WAIT_START => u16Bytes <= i

\* A character of a message is written to the place of the counter, or nowhere;
\* only a start character ends the wait for a message.
LEMMA CharMoves ==
    ASSUME TypeInv, NEW b \in Byte, MessageChar(b)
    PROVE  /\ eRxState' # WAIT_START => eRxState # WAIT_START
           /\ \/ buf' = buf /\ u16Bytes' = u16Bytes
              \/ /\ eRxState # WAIT_START /\ u16Bytes' = u16Bytes + 1
                 /\ \E c \in Byte : buf' = Put(u16Bytes, c)
  <1> DEFINE c == IF bInEsc THEN Flip(b) ELSE b
  <1>1. c \in Byte
    BY FlipByte
  <1>2. \/ InWaitStart \/ InTypeMsb(c) \/ InTypeLsb(c) \/ InLenMsb(c)
        \/ InLenLsb(c) \/ InCrc(c) \/ InData(c)
    BY DEF MessageChar
  <1> HIDE DEF c
  <1>3. CASE InWaitStart
    BY <1>3 DEF InWaitStart
  <1>4. CASE InTypeMsb(c) \/ InTypeLsb(c) \/ InLenMsb(c) \/ InLenLsb(c) \/ InCrc(c)
    <2>1. eRxState # 0 /\ buf' = buf /\ u16Bytes' = u16Bytes
      BY <1>4, States DEF InTypeMsb, InTypeLsb, InLenMsb, InLenLsb, InCrc
    <2> QED
      BY <2>1, States
  <1>5. CASE InData(c)
    <2>1. /\ eRxState # 0
          /\ \/ buf' = buf /\ u16Bytes' = u16Bytes
             \/ buf' = Put(u16Bytes, c) /\ u16Bytes' = u16Bytes + 1
      BY <1>5, States DEF InData
    <2> QED
      BY <1>1, <2>1, States
  <1> QED
    BY <1>2, <1>3, <1>4, <1>5

\* Reading a character of a buffer the index can count moves the index by one.
LEMMA IndexMoves ==
    ASSUME TypeInv, BufferInv, ReadChar, Short
    PROVE  /\ i' = i + 1 /\ i \in Nat /\ i + 1 \in 1 .. Len(line)
           /\ Len(line) \in Nat /\ Len(buf) = Len(line)
  <1>1. i \in Nat /\ Len(line) \in Nat /\ Len(buf) = Len(line) /\ Len(buf) > i
        /\ Len(line) < CursorMod /\ CursorMod \in Nat
    BY LinkAssumption DEF TypeInv, SerialTypes, BufferInv, ReadChar, Short
  <1>2. (i + 1) % CursorMod = i + 1
    BY <1>1
  <1> QED
    BY <1>1, <1>2 DEF ReadChar, NextCursor

LEMMA ReadBuffer ==
    ASSUME TypeInv, BufferInv, ReadChar
    PROVE  BufferInv'
  <1> DEFINE b == buf[i + 1]
  <1>1. /\ buf \in Seq(Byte) /\ line \in Seq(Byte) /\ i \in Nat /\ b \in Byte
        /\ u16Bytes \in Nat /\ ret = "run" /\ Len(buf) = Len(line)
        /\ line' = line /\ (Short' <=> Short)
    <2>1. buf \in Seq(Byte) /\ line \in Seq(Byte) /\ i \in Nat /\ Len(buf) > i
          /\ u16Bytes \in Nat /\ ret = "run" /\ line' = line
      BY LinkAssumption DEF TypeInv, SerialTypes, ReadChar
    <2>2. i + 1 \in 1 .. Len(buf)
      BY <2>1
    <2> QED
      BY <2>1, <2>2 DEF BufferInv, Short
  <1>2. \/ b = SL_START_CHAR /\ StartChar
        \/ b = SL_ESC_CHAR /\ EscChar
        \/ b = SL_END_CHAR /\ EndChar
        \/ b \notin Control /\ MessageChar(b)
    BY DEF ReadChar
  <1> HIDE DEF b
  <1>3. /\ \/ buf' = buf
           \/ /\ eRxState # WAIT_START /\ u16Bytes' = u16Bytes + 1
              /\ \E c \in Byte : buf' = Put(u16Bytes, c)
        /\ \/ u16Bytes' = 0
           \/ /\ eRxState' # WAIT_START => eRxState # WAIT_START
              /\ u16Bytes' \in {u16Bytes, u16Bytes + 1}
        /\ synced' => synced \/ (i = 0 /\ buf' = buf /\ u16Bytes' = 0)
    <2>1. CASE StartChar
      BY <2>1 DEF StartChar
    <2>2. CASE EscChar
      BY <2>2 DEF EscChar
    <2>3. CASE EndChar
      BY <2>3 DEF EndChar
    <2>4. CASE MessageChar(b)
      <3>1. synced' = synced
        BY <2>4 DEF MessageChar
      <3> QED
        BY <1>1, <2>4, <3>1, CharMoves
    <2> QED
      BY <1>2, <2>1, <2>2, <2>3, <2>4
  <1>4. Len(buf') = Len(line)
    <2>1. \A c \in Byte : Len(Put(u16Bytes, c)) = Len(buf)
      BY <1>1, PutTypes
    <2> QED
      BY <1>1, <1>3, <2>1
  <1>5. ASSUME Short PROVE i' # 0
    BY <1>5, IndexMoves
  <1>6. ASSUME Short, synced'
        PROVE  /\ \A k \in i' + 1 .. Len(line) : buf'[k] = line[k]
               /\ eRxState' # WAIT_START => u16Bytes' <= i'
    <2>1. i' = i + 1 /\ Len(line) \in Nat
      BY <1>6, IndexMoves
    <2>2. CASE synced
      <3>1. /\ \A k \in i + 1 .. Len(line) : buf[k] = line[k]
            /\ eRxState # WAIT_START => u16Bytes <= i
        BY <1>1, <1>6, <2>2 DEF BufferInv
      <3>2. eRxState' # WAIT_START => u16Bytes' <= i + 1
        BY <1>1, <1>3, <3>1
      <3>3. CASE buf' = buf
        BY <1>1, <2>1, <3>1, <3>2, <3>3
      <3>4. ASSUME NEW c \in Byte, buf' = Put(u16Bytes, c), eRxState # WAIT_START
            PROVE  \A k \in i' + 1 .. Len(line) : buf'[k] = line[k]
        <4>1. \A k \in 1 .. Len(buf) : buf'[k] = IF k = u16Bytes + 1 THEN c ELSE buf[k]
          BY <1>1, <3>4, PutTypes
        <4> QED
          BY <1>1, <2>1, <3>1, <3>4, <4>1
      <3> QED
        BY <1>3, <2>1, <3>2, <3>3, <3>4
    <2>3. CASE ~synced
      <3>1. i = 0 /\ buf' = buf /\ u16Bytes' = 0
        BY <1>3, <1>6, <2>3
      <3>2. buf = line
        BY <1>1, <1>6, <3>1 DEF BufferInv
      <3> QED
        BY <2>1, <3>1, <3>2
    <2> QED
      BY <2>2, <2>3
  <1> QED
    BY <1>1, <1>4, <1>5, <1>6 DEF BufferInv

LEMMA BufferNext == TypeInv /\ BufferInv /\ [SerialNext]_serialVars => BufferInv'
  <1> SUFFICES ASSUME TypeInv, BufferInv, [SerialNext]_serialVars PROVE BufferInv'
    OBVIOUS
  <1>1. ASSUME NEW m \in Messages, Send(m) PROVE BufferInv'
    BY <1>1 DEF BufferInv, Send
  <1>2. ASSUME NEW k \in DOMAIN line, Lose(k) \/ \E b \in Noise : Change(k, b)
        PROVE  BufferInv'
    BY <1>2 DEF BufferInv, Lose, Change, Damage
  <1>3. CASE Call
    <2>1. buf' = line /\ line' = line
      BY <1>3 DEF Call
    <2>2. synced' => eRxState' = WAIT_START
      BY <1>3, Zenon DEF Call, statics
    <2> QED
      BY <2>1, <2>2 DEF BufferInv
  <1>4. CASE ReadChar
    BY <1>4, ReadBuffer
  <1>5. CASE Return
    BY <1>5 DEF BufferInv, Return
  <1>6. CASE UNCHANGED serialVars
    BY <1>6 DEF BufferInv, Short, serialVars
  <1> QED
    BY <1>1, <1>2, <1>3, <1>4, <1>5, <1>6 DEF SerialNext, eSL_ReadMessage

LEMMA BufferAlways == SerialSpec => [](TypeInv /\ BufferInv)
  <1>1. SerialInit => BufferInv
    BY DEF SerialInit, BufferInv
  <1> QED
    BY <1>1, TypeAlways, BufferNext, PTL DEF SerialSpec

\* The message is written over the characters it is read from, and none of them
\* is lost before it was read, however long or damaged the message is.
THEOREM NothingOverwritten == SerialSpec => []UnreadIntact
  <1>1. BufferInv => UnreadIntact
    BY DEF BufferInv, UnreadIntact
  <1> QED
    BY <1>1, BufferAlways, PTL


-----------------------------------------------------------------------------
(* Reading a frame *)

Word(a, b) == a * 256 + b
Data(R) == [k \in 1 .. Len(R) - 5 |-> R[5 + k]]

\* The line holds a frame of the bytes R, and R has the length it announces.
Framed(P, R) ==
    /\ Carries(P, line, R)
    /\ Len(R) >= 5 /\ Word(R[3], R[4]) = Len(R) - 5

\* The checksum among the bytes is the one of the others.
Good(R) == R[5] = u8SL_CalculateCRC(Word(R[1], R[2]), Len(R) - 5, Data(R))

\* What the variables hold after the first j bytes.
Told(R, j) ==
    /\ eRxState = (IF j < 5 THEN j + 1 ELSE 6)
    /\ u16Bytes = (IF j < 5 THEN 0 ELSE j - 5)
    /\ j = 1 => type = R[1] * 256
    /\ j >= 2 => type = Word(R[1], R[2])
    /\ j = 3 => length = R[3] * 256
    /\ j >= 4 => length = Len(R) - 5
    /\ j >= 5 => u8CRC = R[5]

\* The index is behind the j-th byte, or between an escape character and the
\* character that follows it.
Standing(P, R, j) ==
    \/ i = P[j] /\ ~bInEsc
    \/ j < Len(R) /\ i = P[j] + 1 /\ bInEsc /\ P[j + 1] = P[j] + 2

\* The characters behind the index are still there, the data read so far is at
\* the beginning of the buffer.
Kept(R) ==
    /\ Len(buf) = Len(line)
    /\ \A k \in i + 1 .. Len(line) : buf[k] = line[k]
    /\ \A k \in 1 .. u16Bytes : buf[k] = R[5 + k]

Progress(P, R, j) == Told(R, j) /\ Standing(P, R, j) /\ Kept(R)

\* A call that reads a frame: before the start character, among the bytes, behind
\* the end character with a wrong checksum, and after the call.
Reading(P, R) ==
    /\ ret = "run" =>
          \/ i = 0 /\ buf = line
          \/ \E j \in 0 .. Len(R) : Progress(P, R, j)
          \/ i = Len(line) /\ ~Good(R)
    /\ ret = "TRUE" =>
          /\ Good(R)
          /\ type = Word(R[1], R[2]) /\ length = Len(R) - 5 /\ SubSeq(buf, 1, length) = Data(R)
    /\ ret = "FALSE" => ~Good(R)

\* A frame the index can count announces a length the receiver accepts.
LEMMA FrameFacts ==
    ASSUME NEW P, NEW R, Framed(P, R), Short
    PROVE  /\ R \in Seq(Byte) /\ Len(R) \in Nat /\ Len(R) >= 5
           /\ \A n \in 1 .. Len(R) : R[n] \in Byte
           /\ \A n \in 0 .. Len(R) : P[n] \in Nat /\ n < P[n] /\ P[n] < Len(line)
           /\ P[0] = 1 /\ P[Len(R)] + 1 = Len(line)
           /\ line[1] = SL_START_CHAR /\ line[Len(line)] = SL_END_CHAR
           /\ \A n \in 1 .. Len(R) : Carried(P, line, R, n)
           /\ Len(R) - 5 <= RX_MAX_LENGTH /\ Len(R) - 5 < Len(line)
           /\ Len(line) \in Nat
  <1>1. /\ line \in Seq(Byte) /\ R \in Seq(Byte)
        /\ P \in [0 .. Len(R) -> Nat] /\ P[0] = 1
        /\ Len(line) = P[Len(R)] + 1 /\ line[1] = SL_START_CHAR /\ line[Len(line)] = SL_END_CHAR
        /\ \A n \in 1 .. Len(R) : Carried(P, line, R, n)
        /\ \A n \in 0 .. Len(R) : n < P[n]
        /\ \A m, n \in 0 .. Len(R) : m < n => P[m] < P[n]
        /\ Len(R) >= 5
    BY DEF Framed, Carries
  <1>2. Len(R) \in Nat /\ Len(line) \in Nat /\ Len(R) \in 0 .. Len(R)
    BY <1>1
  <1>3. ASSUME NEW n \in 0 .. Len(R) PROVE P[n] \in Nat /\ n < P[n] /\ P[n] < Len(line)
    <2>1. P[n] \in Nat /\ P[Len(R)] \in Nat /\ n < P[n]
      BY <1>1, <1>2
    <2>2. CASE n = Len(R)
      BY <1>1, <2>1, <2>2
    <2>3. CASE n < Len(R)
      <3>1. P[n] < P[Len(R)]
        BY <1>1, <1>2, <2>3
      <3> QED
        BY <1>1, <2>1, <3>1
    <2> QED
      BY <1>2, <2>2, <2>3
  <1>4. Len(R) < P[Len(R)] /\ P[Len(R)] \in Nat
    BY <1>2, <1>3
  <1>5. Len(line) <= RX_MAX_LENGTH /\ RX_MAX_LENGTH \in Nat
    BY <1>2, LinkAssumption DEF Short
  <1>6. Len(R) - 5 <= RX_MAX_LENGTH /\ Len(R) - 5 < Len(line)
    BY <1>1, <1>2, <1>4, <1>5
  <1>7. \A n \in 1 .. Len(R) : R[n] \in Byte
    BY <1>1
  <1> HIDE DEF Carried
  <1> QED
    BY <1>1, <1>2, <1>3, <1>6, <1>7

LEMMA WordFits ==
    ASSUME NEW a \in Byte, NEW b \in Byte
    PROVE  (a * 256 + b) % U16 = Word(a, b) /\ Word(a, b) \in 0 .. U16 - 1
  <1>1. b \in Byte /\ a * 256 + b \in 0 .. U16 - 1 /\ (a * 256 + b) % U16 = a * 256 + b
    BY Words
  <1> QED
    BY <1>1, Zenon DEF Word

\* One more byte of the frame.
LEMMA ByteStep ==
    ASSUME TypeInv, NEW P, NEW R, Framed(P, R), Short,
           NEW j \in 0 .. Len(R), j < Len(R), Told(R, j), Kept(R),
           NEW b \in Byte, MessageChar(b),
           (IF bInEsc THEN Flip(b) ELSE b) = R[j + 1],
           i \in Nat, i' = P[j + 1], i < P[j + 1], line' = line
    PROVE  Progress(P, R, j + 1)'
  <1> DEFINE c == R[j + 1]
  <1>1. /\ \/ InWaitStart \/ InTypeMsb(c) \/ InTypeLsb(c) \/ InLenMsb(c)
           \/ InLenLsb(c) \/ InCrc(c) \/ InData(c)
        /\ bInEsc' = FALSE
    BY DEF MessageChar
  <1>2. /\ c \in Byte /\ Len(R) \in Nat /\ Len(R) >= 5 /\ j \in Nat
        /\ \A n \in 1 .. Len(R) : R[n] \in Byte
        /\ Len(R) - 5 <= RX_MAX_LENGTH /\ Len(R) - 5 < Len(line) /\ Len(line) \in Nat
        /\ j + 1 < P[j + 1] /\ P[j + 1] \in Nat
    <2>1. j + 1 \in 0 .. Len(R) /\ j + 1 \in 1 .. Len(R)
      BY FrameFacts
    <2> QED
      BY <2>1, FrameFacts
  <1>3. /\ eRxState = (IF j < 5 THEN j + 1 ELSE 6)
        /\ u16Bytes = (IF j < 5 THEN 0 ELSE j - 5)
        /\ j = 1 => type = R[1] * 256
        /\ j >= 2 => type = Word(R[1], R[2])
        /\ j = 3 => length = R[3] * 256
        /\ j >= 4 => length = Len(R) - 5
        /\ j >= 5 => u8CRC = R[5]
    BY DEF Told
  <1>4. /\ Len(buf) = Len(line) /\ buf \in Seq(Byte)
        /\ \A k \in i + 1 .. Len(line) : buf[k] = line[k]
        /\ \A k \in 1 .. u16Bytes : buf[k] = R[5 + k]
    BY DEF Kept, TypeInv, SerialTypes
  <1>5. Standing(P, R, j + 1)'
    BY <1>1 DEF Standing
  <1>6. ASSUME buf' = buf, u16Bytes' = 0 PROVE Kept(R)'
    <2>1. \A k \in i' + 1 .. Len(line) : k \in i + 1 .. Len(line)
      BY <1>2
    <2> QED
      BY <1>2, <1>4, <1>6, <2>1 DEF Kept
  <1> HIDE DEF c
  <1>7. CASE j = 0
    <2>1. eRxState = 1
      BY <1>3, <1>7
    <2>2. InTypeMsb(c)
      BY <1>1, <2>1, States DEF InWaitStart, InTypeMsb, InTypeLsb, InLenMsb, InLenLsb, InCrc, InData
    <2>3. type' = R[1] * 256 /\ eRxState' = 2 /\ buf' = buf /\ u16Bytes' = 0
      BY <1>3, <1>7, <2>2, States DEF InTypeMsb, c
    <2>4. Told(R, j + 1)'
      BY <1>7, <2>3 DEF Told
    <2> QED
      BY <1>5, <1>6, <2>3, <2>4 DEF Progress
  <1>8. CASE j = 1
    <2>1. eRxState = 2
      BY <1>3, <1>8
    <2>2. InTypeLsb(c)
      BY <1>1, <2>1, States DEF InWaitStart, InTypeMsb, InTypeLsb, InLenMsb, InLenLsb, InCrc, InData
    <2>3. type' = (R[1] * 256 + R[2]) % U16 /\ eRxState' = 3 /\ buf' = buf /\ u16Bytes' = 0
      BY <1>3, <1>8, <2>2, States DEF InTypeLsb, c
    <2>4. type' = Word(R[1], R[2])
      <3>1. R[1] \in Byte /\ R[2] \in Byte
        BY <1>2
      <3> QED
        BY <2>3, <3>1, WordFits
    <2>5. Told(R, j + 1)'
      BY <1>8, <2>3, <2>4 DEF Told
    <2> QED
      BY <1>5, <1>6, <2>3, <2>5 DEF Progress
  <1>9. CASE j = 2
    <2>1. eRxState = 3
      BY <1>3, <1>9
    <2>2. InLenMsb(c)
      BY <1>1, <2>1, States DEF InWaitStart, InTypeMsb, InTypeLsb, InLenMsb, InLenLsb, InCrc, InData
    <2>3. length' = R[3] * 256 /\ eRxState' = 4 /\ buf' = buf /\ u16Bytes' = 0 /\ type' = type
      BY <1>3, <1>9, <2>2, States DEF InLenMsb, c
    <2>4. Told(R, j + 1)'
      BY <1>3, <1>9, <2>3 DEF Told
    <2> QED
      BY <1>5, <1>6, <2>3, <2>4 DEF Progress
  <1>10. CASE j = 3
    <2>1. eRxState = 4
      BY <1>3, <1>10
    <2>2. InLenLsb(c)
      BY <1>1, <2>1, States DEF InWaitStart, InTypeMsb, InTypeLsb, InLenMsb, InLenLsb, InCrc, InData
    <2>3. length' = (R[3] * 256 + R[4]) % U16 /\ buf' = buf /\ u16Bytes' = 0 /\ type' = type
      BY <1>3, <1>10, <2>2, States DEF InLenLsb, c
    <2>4. length' = Len(R) - 5
      <3>1. R[3] \in Byte /\ R[4] \in Byte
        BY <1>2
      <3>2. length' = Word(R[3], R[4])
        BY <2>3, <3>1, WordFits
      <3> QED
        BY <3>2 DEF Framed
    <2>5. eRxState' = 5
      BY <1>2, <2>2, <2>4, LinkAssumption, States DEF InLenLsb
    <2>6. Told(R, j + 1)'
      BY <1>3, <1>10, <2>3, <2>4, <2>5 DEF Told
    <2> QED
      BY <1>5, <1>6, <2>3, <2>6 DEF Progress
  <1>11. CASE j = 4
    <2>1. eRxState = 5
      BY <1>3, <1>11
    <2>2. InCrc(c)
      BY <1>1, <2>1, States DEF InWaitStart, InTypeMsb, InTypeLsb, InLenMsb, InLenLsb, InCrc, InData
    <2>3. /\ u8CRC' = R[5] /\ eRxState' = 6 /\ buf' = buf /\ u16Bytes' = 0
          /\ type' = type /\ length' = length
      BY <1>3, <1>11, <2>2, States DEF InCrc, c
    <2>4. Told(R, j + 1)'
      BY <1>3, <1>11, <2>3 DEF Told
    <2> QED
      BY <1>5, <1>6, <2>3, <2>4 DEF Progress
  <1>12. CASE j >= 5
    <2>1. eRxState = 6 /\ u16Bytes = j - 5 /\ length = Len(R) - 5
      BY <1>2, <1>3, <1>12
    <2>2. InData(c)
      BY <1>1, <2>1, States DEF InWaitStart, InTypeMsb, InTypeLsb, InLenMsb, InLenLsb, InCrc, InData
    <2>3. u16Bytes < length /\ u16Bytes \in Nat /\ u16Bytes + 1 = j - 4
      BY <1>2, <1>12, <2>1
    <2>4. /\ buf' = Put(u16Bytes, c) /\ u16Bytes' = u16Bytes + 1
          /\ UNCHANGED <<eRxState, u8CRC, type, length>>
      BY <2>2, <2>3 DEF InData, RoomLeft
    <2>5. Told(R, j + 1)'
      BY <1>2, <1>3, <1>12, <2>1, <2>4 DEF Told
    <2>6. /\ Len(buf') = Len(buf)
          /\ \A k \in 1 .. Len(buf) : buf'[k] = IF k = u16Bytes + 1 THEN c ELSE buf[k]
      BY <1>2, <1>4, <2>3, <2>4, PutTypes
    <2>7. \A k \in i' + 1 .. Len(line) : buf'[k] = line[k]
      <3> TAKE k \in i' + 1 .. Len(line)
      <3>1. k \in i + 1 .. Len(line) /\ k \in 1 .. Len(buf) /\ k # u16Bytes + 1
        BY <1>2, <1>4, <2>3, SMTT(20)
      <3> QED
        BY <1>4, <2>6, <3>1
    <2>8. \A k \in 1 .. u16Bytes' : buf'[k] = R[5 + k]
      <3> TAKE k \in 1 .. u16Bytes'
      <3>1. k \in 1 .. u16Bytes + 1 /\ k \in 1 .. Len(buf)
        BY <1>2, <1>4, <2>1, <2>3, <2>4
      <3>2. CASE k = u16Bytes + 1
        <4>1. 5 + k = j + 1
          BY <1>2, <2>3, <3>2
        <4> QED
          BY <2>6, <3>1, <3>2, <4>1 DEF c
      <3>3. CASE k # u16Bytes + 1
        <4>1. k \in 1 .. u16Bytes
          BY <2>3, <3>1, <3>3
        <4> QED
          BY <1>4, <2>6, <3>1, <3>3, <4>1
      <3> QED
        BY <3>2, <3>3
    <2>9. Kept(R)'
      BY <1>4, <2>6, <2>7, <2>8 DEF Kept
    <2> QED
      BY <1>5, <2>5, <2>9 DEF Progress
  <1> QED
    BY <1>2, <1>7, <1>8, <1>9, <1>10, <1>11, <1>12


\* The start character begins the frame, whatever the variables hold.
LEMMA StartStep ==
    ASSUME TypeInv, NEW P, NEW R, Framed(P, R), Short,
           i = 0, buf = line, StartChar, i' = i + 1, line' = line
    PROVE  Progress(P, R, 0)'
  <1>1. u16Bytes' = 0 /\ eRxState' = 1 /\ buf' = buf /\ bInEsc' = FALSE
    BY States DEF StartChar
  <1>2. i' = 1 /\ P[0] = 1
    BY FrameFacts
  <1>3. Told(R, 0)'
    BY <1>1 DEF Told
  <1>4. Standing(P, R, 0)'
    BY <1>1, <1>2 DEF Standing
  <1>5. Kept(R)'
    BY <1>1 DEF Kept
  <1> QED
    BY <1>3, <1>4, <1>5 DEF Progress

\* At the end character the whole message is in place and its checksum decides.
LEMMA EndStep ==
    ASSUME TypeInv, NEW P, NEW R, Framed(P, R), Short,
           Told(R, Len(R)), Kept(R), EndChar, ret = "run"
    PROVE  \/ /\ ret' = "TRUE" /\ Good(R) /\ type' = Word(R[1], R[2]) /\ length' = Len(R) - 5
              /\ SubSeq(buf', 1, length') = Data(R)
           \/ ret' = "run" /\ ~Good(R)
  <1>1. /\ Len(R) \in Nat /\ Len(R) >= 5 /\ Len(R) - 5 <= RX_MAX_LENGTH
        /\ Len(R) - 5 < Len(line) /\ Len(line) \in Nat /\ RX_MAX_LENGTH \in Nat
    BY FrameFacts, LinkAssumption
  <1>2. /\ u16Bytes = Len(R) - 5 /\ length = Len(R) - 5 /\ type = Word(R[1], R[2])
        /\ u8CRC = R[5]
    BY <1>1 DEF Told
  <1>3. SubSeq(buf, 1, length) = Data(R)
    <2> DEFINE l == Len(R) - 5
    <2>1. l \in Nat /\ buf \in Seq(Byte) /\ l <= Len(buf) /\ length = l /\ u16Bytes = l
      BY <1>1, <1>2 DEF Kept, TypeInv, SerialTypes
    <2>2. \A k \in 1 .. l : buf[k] = R[5 + k]
      BY <2>1 DEF Kept
    <2>3. SubSeq(buf, 1, length) = [k \in 1 .. l |-> buf[k]]
      <3> HIDE DEF l
      <3>1. SubSeq(buf, 1, l) = [k \in 1 .. (l - 1) + 1 |-> buf[(k + 1) - 1]]
        BY <2>1
      <3>2. (l - 1) + 1 = l /\ \A k \in 1 .. l : (k + 1) - 1 = k
        BY <2>1
      <3> QED
        BY <2>1, <3>1, <3>2
    <2> QED
      BY <2>2, <2>3 DEF Data
  <1>4. ~Behind /\ (u8CRC = Sum <=> Good(R))
    <2>1. ~Behind
      BY <1>1, <1>2 DEF Behind, Kept
    <2> QED
      BY <1>2, <1>3, <2>1 DEF Good, Sum
  <1>5. ~(length > RX_MAX_LENGTH)
    BY <1>1, <1>2
  <1>6. \/ u8CRC = Sum /\ ret' = "TRUE"
        \/ u8CRC # Sum /\ ret' = ret
    BY <1>4, <1>5 DEF EndChar
  <1>7. type' = type /\ length' = length /\ buf' = buf
    BY DEF EndChar
  <1> QED
    BY <1>2, <1>3, <1>4, <1>6, <1>7

LEMMA FrameStep ==
    ASSUME TypeInv, BufferInv, NEW P, NEW R, Framed(P, R), Short, Reading(P, R), ReadChar
    PROVE  Reading(P, R)'
  <1> DEFINE b == buf[i + 1]
  <1>1. /\ i' = i + 1 /\ i \in Nat /\ i + 1 \in 1 .. Len(line)
        /\ Len(line) \in Nat /\ Len(buf) = Len(line)
    BY IndexMoves
  <1>2. ret = "run" /\ line' = line /\ b \in Byte
    BY <1>1 DEF ReadChar, TypeInv, SerialTypes
  <1>3. /\ b = SL_START_CHAR => StartChar
        /\ b = SL_ESC_CHAR => EscChar
        /\ b = SL_END_CHAR => EndChar
        /\ b \notin Control => MessageChar(b)
    BY DEF ReadChar, Control, SL_START_CHAR, SL_ESC_CHAR, SL_END_CHAR
  <1> HIDE DEF b
  <1>4. \/ i = 0 /\ buf = line
        \/ \E j \in 0 .. Len(R) : Progress(P, R, j)
    <2>1. i # Len(line)
      BY <1>1
    <2> QED
      BY <1>2, <2>1 DEF Reading
  <1>5. ASSUME NEW j \in 0 .. Len(R), Progress(P, R, j)', ret' = "run" PROVE Reading(P, R)'
    BY <1>5 DEF Reading
  <1>6. CASE i = 0 /\ buf = line
    <2>1. b = SL_START_CHAR
      <3>1. i + 1 = 1
        BY <1>6
      <3> QED
        BY <1>6, <3>1, FrameFacts DEF b
    <2>2. StartChar /\ ret' = "run"
      BY <1>2, <1>3, <2>1 DEF StartChar
    <2>3. 0 \in 0 .. Len(R)
      BY FrameFacts
    <2> QED
      BY <1>1, <1>2, <1>5, <1>6, <2>2, <2>3, StartStep
  <1>7. ASSUME NEW j \in 0 .. Len(R), Progress(P, R, j) PROVE Reading(P, R)'
    <2>1. /\ Told(R, j) /\ Standing(P, R, j) /\ Kept(R) /\ b = line[i + 1]
          /\ Len(R) \in Nat /\ P[j] \in Nat
      <3>1. Told(R, j) /\ Standing(P, R, j) /\ Kept(R)
        BY <1>7 DEF Progress
      <3>2. i + 1 \in i + 1 .. Len(line)
        BY <1>1
      <3> QED
        BY <3>1, <3>2, FrameFacts DEF Kept, b
    <2>2. CASE j = Len(R)
      <3>1. i = P[j]
        BY <2>1, <2>2 DEF Standing
      <3>2. i + 1 = Len(line) /\ b = SL_END_CHAR
        BY <2>1, <2>2, <3>1, FrameFacts
      <3>3. EndChar
        BY <1>3, <3>2
      <3>4. Told(R, Len(R))
        BY <2>1, <2>2
      <3>5. \/ /\ ret' = "TRUE" /\ Good(R) /\ type' = Word(R[1], R[2]) /\ length' = Len(R) - 5
               /\ SubSeq(buf', 1, length') = Data(R)
            \/ ret' = "run" /\ ~Good(R)
        BY <1>2, <2>1, <3>3, <3>4, EndStep
      <3> QED
        BY <1>1, <1>2, <3>2, <3>5 DEF Reading
    <2>3. CASE j < Len(R)
      <3>1. /\ j + 1 \in 1 .. Len(R) /\ j + 1 \in 0 .. Len(R) /\ (j + 1) - 1 = j
            /\ P[j + 1] \in Nat
        <4>1. j + 1 \in 1 .. Len(R) /\ j + 1 \in 0 .. Len(R) /\ (j + 1) - 1 = j
          BY <2>1, <2>3
        <4> QED
          BY <4>1, FrameFacts
      <3>2. \/ P[j + 1] = P[j] + 1 /\ line[P[j + 1]] = R[j + 1] /\ R[j + 1] \notin Control
            \/ /\ P[j + 1] = P[j] + 2 /\ line[P[j + 1] - 1] = SL_ESC_CHAR
               /\ line[P[j + 1]] \notin Control /\ Flip(line[P[j + 1]]) = R[j + 1]
        <4>1. Carried(P, line, R, j + 1)
          BY <3>1, FrameFacts
        <4> QED
          BY <3>1, <4>1 DEF Carried
      <3>3. ASSUME b \notin Control, i + 1 = P[j + 1],
                   (IF bInEsc THEN Flip(b) ELSE b) = R[j + 1]
            PROVE  Reading(P, R)'
        <4>1. MessageChar(b) /\ ret' = "run"
          BY <1>2, <1>3, <3>3 DEF MessageChar
        <4>2. i' = P[j + 1] /\ i < P[j + 1]
          BY <1>1, <3>3
        <4>3. Progress(P, R, j + 1)'
          BY <1>1, <1>2, <2>1, <2>3, <3>3, <4>1, <4>2, ByteStep
        <4> QED
          BY <1>5, <3>1, <4>1, <4>3
      <3>4. CASE i = P[j] /\ ~bInEsc /\ P[j + 1] = P[j] + 1
        <4>1. b = R[j + 1] /\ b \notin Control /\ i + 1 = P[j + 1]
          BY <2>1, <3>1, <3>2, <3>4
        <4> QED
          BY <3>3, <3>4, <4>1
      <3>5. CASE i = P[j] /\ ~bInEsc /\ P[j + 1] = P[j] + 2
        <4>1. b = SL_ESC_CHAR
          <5>1. P[j + 1] - 1 = i + 1 /\ P[j + 1] # P[j] + 1
            BY <2>1, <3>5
          <5> QED
            BY <2>1, <3>2, <5>1
        <4>2. EscChar
          BY <1>3, <4>1
        <4>3. /\ bInEsc' = TRUE
              /\ UNCHANGED <<eRxState, u8CRC, u16Bytes, type, length, buf, ret, synced>>
          BY <4>2 DEF EscChar
        <4>4. Told(R, j)'
          BY <2>1, <4>3 DEF Told
        <4>5. Standing(P, R, j)'
          BY <1>1, <2>3, <3>5, <4>3 DEF Standing
        <4>6. Kept(R)'
          <5>1. \A k \in i' + 1 .. Len(line) : k \in i + 1 .. Len(line)
            BY <1>1
          <5> QED
            BY <1>2, <2>1, <4>3, <5>1 DEF Kept
        <4>7. Progress(P, R, j)'
          BY <4>4, <4>5, <4>6 DEF Progress
        <4> QED
          BY <1>2, <1>5, <4>3, <4>7
      <3>6. CASE i = P[j] + 1 /\ bInEsc /\ P[j + 1] = P[j] + 2
        <4>1. i + 1 = P[j + 1] /\ P[j + 1] # P[j] + 1
          BY <2>1, <3>6
        <4>2. b \notin Control /\ Flip(b) = R[j + 1]
          BY <2>1, <3>2, <4>1
        <4> QED
          BY <3>3, <3>6, <4>1, <4>2
      <3> QED
        BY <2>1, <3>2, <3>4, <3>5, <3>6 DEF Standing
    <2> QED
      BY <2>1, <2>2, <2>3
  <1> QED
    BY <1>4, <1>6, <1>7


-----------------------------------------------------------------------------
(* A changed byte changes the checksum *)

\* Whether the k-th bit is set in an odd number of the bytes.
Odd(s, k) == Cardinality({n \in DOMAIN s : Bit(s[n], k) = 1}) % 2

\* Two numbers are equal bit by bit.
LEMMA Halves ==
    /\ \A a, b \in {0, 1} : \A x, y \in Nat : a + 2 * x = b + 2 * y => a = b /\ x = y
    /\ \A a \in {0, 1} : \A x \in Nat : a + 2 * x \in Nat
  OBVIOUS

LEMMA OddBit ==
    ASSUME NEW s \in Seq(Byte), NEW k
    PROVE  Odd(s, k) \in {0, 1} /\ Parity(s, k) = Odd(s, k) * 2^k
  <1> DEFINE S == {n \in DOMAIN s : Bit(s[n], k) = 1}
  <1>0. IsFiniteSet(DOMAIN s)
    BY FS_Interval
  <1>1. Cardinality(S) \in Nat
    BY <1>0, FS_Subset, FS_CardinalityType
  <1> HIDE DEF S
  <1>2. Cardinality(S) % 2 \in {0, 1}
    BY <1>1
  <1> QED
    BY <1>2 DEF S, Odd, Parity

LEMMA XorHalves ==
    ASSUME NEW s \in Seq(Byte)
    PROVE  Xor(s) = Odd(s, 0) + 2 * (Odd(s, 1) + 2 * (Odd(s, 2) + 2 * (Odd(s, 3)
                      + 2 * (Odd(s, 4) + 2 * (Odd(s, 5) + 2 * (Odd(s, 6) + 2 * Odd(s, 7)))))))
  <1>2. \A k : Odd(s, k) \in {0, 1}
    BY OddBit
  <1>3. /\ Parity(s, 0) = Odd(s, 0) /\ Parity(s, 1) = 2 * Odd(s, 1)
        /\ Parity(s, 2) = 4 * Odd(s, 2) /\ Parity(s, 3) = 8 * Odd(s, 3)
        /\ Parity(s, 4) = 16 * Odd(s, 4) /\ Parity(s, 5) = 32 * Odd(s, 5)
        /\ Parity(s, 6) = 64 * Odd(s, 6) /\ Parity(s, 7) = 128 * Odd(s, 7)
    <2>1. Parity(s, 0) = 1 * Odd(s, 0)
      <3>1. Parity(s, 0) = Odd(s, 0) * 2^0
        BY Zenon DEF Parity, Odd
      <3> QED
        BY <1>2, <3>1
    <2>2. Parity(s, 1) = 2 * Odd(s, 1)
      <3>1. Parity(s, 1) = Odd(s, 1) * 2^1
        BY Zenon DEF Parity, Odd
      <3> QED
        BY <1>2, <3>1
    <2>3. Parity(s, 2) = 4 * Odd(s, 2)
      <3>1. Parity(s, 2) = Odd(s, 2) * 2^2
        BY Zenon DEF Parity, Odd
      <3> QED
        BY <1>2, <3>1
    <2>4. Parity(s, 3) = 8 * Odd(s, 3)
      <3>1. Parity(s, 3) = Odd(s, 3) * 2^3
        BY Zenon DEF Parity, Odd
      <3> QED
        BY <1>2, <3>1
    <2>5. Parity(s, 4) = 16 * Odd(s, 4)
      <3>1. Parity(s, 4) = Odd(s, 4) * 2^4
        BY Zenon DEF Parity, Odd
      <3> QED
        BY <1>2, <3>1
    <2>6. Parity(s, 5) = 32 * Odd(s, 5)
      <3>1. Parity(s, 5) = Odd(s, 5) * 2^5
        BY Zenon DEF Parity, Odd
      <3> QED
        BY <1>2, <3>1
    <2>7. Parity(s, 6) = 64 * Odd(s, 6)
      <3>1. Parity(s, 6) = Odd(s, 6) * 2^6
        BY Zenon DEF Parity, Odd
      <3> QED
        BY <1>2, <3>1
    <2>8. Parity(s, 7) = 128 * Odd(s, 7)
      <3>1. Parity(s, 7) = Odd(s, 7) * 2^7
        BY Zenon DEF Parity, Odd
      <3> QED
        BY <1>2, <3>1
    <2>9. 1 * Odd(s, 0) = Odd(s, 0)
      BY <1>2
    <2> QED
      BY <2>1, <2>2, <2>3, <2>4, <2>5, <2>6, <2>7, <2>8, <2>9, Zenon
  <1>5. Xor(s) = Odd(s, 0) + 2 * Odd(s, 1) + 4 * Odd(s, 2) + 8 * Odd(s, 3) + 16 * Odd(s, 4)
                   + 32 * Odd(s, 5) + 64 * Odd(s, 6) + 128 * Odd(s, 7)
    BY <1>3, Zenon DEF Xor
  <1>6. /\ Odd(s, 0) \in {0, 1} /\ Odd(s, 1) \in {0, 1} /\ Odd(s, 2) \in {0, 1}
        /\ Odd(s, 3) \in {0, 1} /\ Odd(s, 4) \in {0, 1} /\ Odd(s, 5) \in {0, 1}
        /\ Odd(s, 6) \in {0, 1} /\ Odd(s, 7) \in {0, 1}
    BY <1>2
  <1> QED
    <2> DEFINE a == Odd(s, 0)
               b == Odd(s, 1)
               c == Odd(s, 2)
               d == Odd(s, 3)
               e == Odd(s, 4)
               f == Odd(s, 5)
               g == Odd(s, 6)
               h == Odd(s, 7)
    <2>1. /\ a \in Nat /\ b \in Nat /\ c \in Nat /\ d \in Nat
          /\ e \in Nat /\ f \in Nat /\ g \in Nat /\ h \in Nat
      BY <1>6
    <2> HIDE DEF a, b, c, d, e, f, g, h
    <2>2. a + 2 * b + 4 * c + 8 * d + 16 * e + 32 * f + 64 * g + 128 * h
             = a + 2 * (b + 2 * (c + 2 * (d + 2 * (e + 2 * (f + 2 * (g + 2 * h))))))
      BY <2>1
    <2> QED
      BY <1>5, <2>2, Zenon DEF a, b, c, d, e, f, g, h

LEMMA XorOdds ==
    ASSUME NEW s \in Seq(Byte), NEW t \in Seq(Byte), Xor(s) = Xor(t)
    PROVE  \A k \in 0 .. 7 : Odd(s, k) = Odd(t, k)
  <1>1. \A k \in 0 .. 7 : Odd(s, k) \in {0, 1} /\ Odd(t, k) \in {0, 1}
    BY OddBit
  <1> DEFINE s6 == Odd(s, 6) + 2 * Odd(s, 7)
             s5 == Odd(s, 5) + 2 * s6
             s4 == Odd(s, 4) + 2 * s5
             s3 == Odd(s, 3) + 2 * s4
             s2 == Odd(s, 2) + 2 * s3
             s1 == Odd(s, 1) + 2 * s2
             t6 == Odd(t, 6) + 2 * Odd(t, 7)
             t5 == Odd(t, 5) + 2 * t6
             t4 == Odd(t, 4) + 2 * t5
             t3 == Odd(t, 3) + 2 * t4
             t2 == Odd(t, 2) + 2 * t3
             t1 == Odd(t, 1) + 2 * t2
  <1>2. Odd(s, 0) + 2 * s1 = Odd(t, 0) + 2 * t1
    BY XorHalves
  <1>3. /\ s6 \in Nat /\ t6 \in Nat /\ s5 \in Nat /\ t5 \in Nat /\ s4 \in Nat /\ t4 \in Nat
        /\ s3 \in Nat /\ t3 \in Nat /\ s2 \in Nat /\ t2 \in Nat /\ s1 \in Nat /\ t1 \in Nat
    <2>1. s6 \in Nat /\ t6 \in Nat
      BY <1>1
    <2> HIDE DEF s6, t6
    <2>2. s5 \in Nat /\ t5 \in Nat
      BY <1>1, <2>1
    <2> HIDE DEF s5, t5
    <2>3. s4 \in Nat /\ t4 \in Nat
      BY <1>1, <2>2
    <2> HIDE DEF s4, t4
    <2>4. s3 \in Nat /\ t3 \in Nat
      BY <1>1, <2>3
    <2> HIDE DEF s3, t3
    <2>5. s2 \in Nat /\ t2 \in Nat
      BY <1>1, <2>4
    <2> HIDE DEF s2, t2
    <2>6. s1 \in Nat /\ t1 \in Nat
      BY <1>1, <2>5
    <2> QED
      BY <2>1, <2>2, <2>3, <2>4, <2>5, <2>6
  <1> HIDE DEF s6, s5, s4, s3, s2, s1, t6, t5, t4, t3, t2, t1
  <1>4. Odd(s, 0) = Odd(t, 0) /\ s1 = t1
    BY <1>1, <1>2, <1>3, Halves
  <1>5. Odd(s, 1) = Odd(t, 1) /\ s2 = t2
    BY <1>1, <1>3, <1>4, Halves DEF s1, t1
  <1>6. Odd(s, 2) = Odd(t, 2) /\ s3 = t3
    BY <1>1, <1>3, <1>5, Halves DEF s2, t2
  <1>7. Odd(s, 3) = Odd(t, 3) /\ s4 = t4
    BY <1>1, <1>3, <1>6, Halves DEF s3, t3
  <1>8. Odd(s, 4) = Odd(t, 4) /\ s5 = t5
    BY <1>1, <1>3, <1>7, Halves DEF s4, t4
  <1>9. Odd(s, 5) = Odd(t, 5) /\ s6 = t6
    BY <1>1, <1>3, <1>8, Halves DEF s5, t5
  <1>10. Odd(s, 6) = Odd(t, 6) /\ Odd(s, 7) = Odd(t, 7)
    BY <1>1, <1>3, <1>9 DEF s6, t6
  <1>11. \A k \in 0 .. 7 : k = 0 \/ k = 1 \/ k = 2 \/ k = 3 \/ k = 4 \/ k = 5 \/ k = 6 \/ k = 7
    OBVIOUS
  <1> QED
    BY <1>4, <1>5, <1>6, <1>7, <1>8, <1>9, <1>10, <1>11

LEMMA SameHalf ==
    ASSUME NEW x \in Nat, NEW y \in Nat, x % 2 = y % 2, x \div 2 = y \div 2
    PROVE  x = y
  OBVIOUS

LEMMA BitsOfByte ==
    ASSUME NEW x \in Byte, NEW y \in Byte, \A k \in 0 .. 7 : Bit(x, k) = Bit(y, k)
    PROVE  x = y
  <1>1. /\ Bit(x, 0) = Bit(y, 0) /\ Bit(x, 1) = Bit(y, 1) /\ Bit(x, 2) = Bit(y, 2)
        /\ Bit(x, 3) = Bit(y, 3) /\ Bit(x, 4) = Bit(y, 4) /\ Bit(x, 5) = Bit(y, 5)
        /\ Bit(x, 6) = Bit(y, 6) /\ Bit(x, 7) = Bit(y, 7)
    OBVIOUS
  <1>2. 2^0 = 1 /\ 2^1 = 2 /\ 2^2 = 4 /\ 2^3 = 8 /\ 2^4 = 16 /\ 2^5 = 32 /\ 2^6 = 64 /\ 2^7 = 128
    OBVIOUS
  <1>3. /\ (x \div 1) % 2 = (y \div 1) % 2 /\ (x \div 2) % 2 = (y \div 2) % 2
        /\ (x \div 4) % 2 = (y \div 4) % 2 /\ (x \div 8) % 2 = (y \div 8) % 2
        /\ (x \div 16) % 2 = (y \div 16) % 2 /\ (x \div 32) % 2 = (y \div 32) % 2
        /\ (x \div 64) % 2 = (y \div 64) % 2 /\ (x \div 128) % 2 = (y \div 128) % 2
    BY <1>1, <1>2 DEF Bit
  <1> DEFINE Halved(a) == /\ (a \div 2) \div 2 = a \div 4 /\ (a \div 4) \div 2 = a \div 8
                          /\ (a \div 8) \div 2 = a \div 16 /\ (a \div 16) \div 2 = a \div 32
                          /\ (a \div 32) \div 2 = a \div 64 /\ (a \div 64) \div 2 = a \div 128
  <1>11. \A a \in Byte : Halved(a)
    <2>1. \A a \in Byte : (a \div 2) \div 2 = a \div 4 /\ (a \div 4) \div 2 = a \div 8
      BY DEF Byte
    <2>2. \A a \in Byte : (a \div 8) \div 2 = a \div 16 /\ (a \div 16) \div 2 = a \div 32
      BY DEF Byte
    <2>3. \A a \in Byte : (a \div 32) \div 2 = a \div 64 /\ (a \div 64) \div 2 = a \div 128
      BY DEF Byte
    <2> QED
      BY <2>1, <2>2, <2>3
  <1>13. \A a \in Byte : /\ a \in Nat /\ a \div 2 \in Nat /\ a \div 4 \in Nat /\ a \div 8 \in Nat
                          /\ a \div 16 \in Nat /\ a \div 32 \in Nat /\ a \div 64 \in Nat
    BY DEF Byte
  <1>4. x \div 128 = y \div 128
    BY <1>3 DEF Byte
  <1>5. x \div 64 = y \div 64
    <2>1. (x \div 64) \div 2 = (y \div 64) \div 2
      BY <1>4, <1>11
    <2>2. x \div 64 \in Nat /\ y \div 64 \in Nat /\ (x \div 64) % 2 = (y \div 64) % 2
      BY <1>3, <1>13
    <2> QED
      BY <2>1, <2>2, SameHalf, Zenon
  <1>6. x \div 32 = y \div 32
    <2>1. (x \div 32) \div 2 = (y \div 32) \div 2
      BY <1>5, <1>11
    <2>2. x \div 32 \in Nat /\ y \div 32 \in Nat /\ (x \div 32) % 2 = (y \div 32) % 2
      BY <1>3, <1>13
    <2> QED
      BY <2>1, <2>2, SameHalf, Zenon
  <1>7. x \div 16 = y \div 16
    <2>1. (x \div 16) \div 2 = (y \div 16) \div 2
      BY <1>6, <1>11
    <2>2. x \div 16 \in Nat /\ y \div 16 \in Nat /\ (x \div 16) % 2 = (y \div 16) % 2
      BY <1>3, <1>13
    <2> QED
      BY <2>1, <2>2, SameHalf, Zenon
  <1>8. x \div 8 = y \div 8
    <2>1. (x \div 8) \div 2 = (y \div 8) \div 2
      BY <1>7, <1>11
    <2>2. x \div 8 \in Nat /\ y \div 8 \in Nat /\ (x \div 8) % 2 = (y \div 8) % 2
      BY <1>3, <1>13
    <2> QED
      BY <2>1, <2>2, SameHalf, Zenon
  <1>9. x \div 4 = y \div 4
    <2>1. (x \div 4) \div 2 = (y \div 4) \div 2
      BY <1>8, <1>11
    <2>2. x \div 4 \in Nat /\ y \div 4 \in Nat /\ (x \div 4) % 2 = (y \div 4) % 2
      BY <1>3, <1>13
    <2> QED
      BY <2>1, <2>2, SameHalf, Zenon
  <1>10. x \div 2 = y \div 2
    <2>1. (x \div 2) \div 2 = (y \div 2) \div 2
      BY <1>9, <1>11
    <2>2. x \div 2 \in Nat /\ y \div 2 \in Nat /\ (x \div 2) % 2 = (y \div 2) % 2
      BY <1>3, <1>13
    <2> QED
      BY <2>1, <2>2, SameHalf, Zenon
  <1>14. x % 2 = y % 2
    <2>1. \A a \in Byte : a \div 1 = a
      BY DEF Byte
    <2> QED
      BY <1>3, <2>1, Zenon
  <1> QED
    BY <1>10, <1>13, <1>14, SameHalf

\* A bit that differs in one byte only is set once more or once less.
LEMMA OddChanged ==
    ASSUME NEW s \in Seq(Byte), NEW t \in Seq(Byte), Len(s) = Len(t),
           NEW p \in 1 .. Len(s), \A n \in 1 .. Len(s) : n # p => s[n] = t[n],
           NEW k \in 0 .. 7, Bit(s[p], k) = 1, Bit(t[p], k) # 1
    PROVE  Odd(s, k) # Odd(t, k)
  <1> DEFINE S == {n \in DOMAIN s : Bit(s[n], k) = 1}
             T == {n \in DOMAIN t : Bit(t[n], k) = 1}
  <1>1. DOMAIN s = 1 .. Len(s) /\ DOMAIN t = 1 .. Len(s)
    OBVIOUS
  <1>2. p \in S /\ T = S \ {p}
    BY <1>1
  <1>3. IsFiniteSet(S)
    <2>1. IsFiniteSet(DOMAIN s)
      BY FS_Interval
    <2> QED
      BY <2>1, FS_Subset
  <1>4. Odd(s, k) = Cardinality(S) % 2 /\ Odd(t, k) = Cardinality(T) % 2
    BY DEF Odd
  <1> HIDE DEF S, T
  <1>5. Cardinality(T) = Cardinality(S) - 1 /\ Cardinality(S) \in Nat /\ Cardinality(T) \in Nat
    BY <1>2, <1>3, FS_RemoveElement, FS_CardinalityType
  <1>6. Cardinality(S) % 2 # Cardinality(T) % 2
    <2>1. \A a, b \in Nat : b = a - 1 => a % 2 # b % 2
      OBVIOUS
    <2> QED
      BY <1>5, <2>1
  <1> QED
    BY <1>4, <1>6

LEMMA XorChanged ==
    ASSUME NEW s \in Seq(Byte), NEW t \in Seq(Byte), Len(s) = Len(t),
           NEW p \in 1 .. Len(s), s[p] # t[p], \A n \in 1 .. Len(s) : n # p => s[n] = t[n]
    PROVE  Xor(s) # Xor(t)
  <1>1. s[p] \in Byte /\ t[p] \in Byte
    OBVIOUS
  <1>2. PICK k \in 0 .. 7 : Bit(s[p], k) # Bit(t[p], k)
    BY <1>1, BitsOfByte
  <1>3. Bit(s[p], k) \in {0, 1} /\ Bit(t[p], k) \in {0, 1}
    <2>1. \A x \in Byte : Bit(x, k) \in {0, 1}
      <3>1. \A x \in Byte : /\ Bit(x, 0) \in {0, 1} /\ Bit(x, 1) \in {0, 1}
                             /\ Bit(x, 2) \in {0, 1} /\ Bit(x, 3) \in {0, 1}
        BY DEF Bit, Byte
      <3>2. \A x \in Byte : /\ Bit(x, 4) \in {0, 1} /\ Bit(x, 5) \in {0, 1}
                             /\ Bit(x, 6) \in {0, 1} /\ Bit(x, 7) \in {0, 1}
        BY DEF Bit, Byte
      <3>3. k = 0 \/ k = 1 \/ k = 2 \/ k = 3 \/ k = 4 \/ k = 5 \/ k = 6 \/ k = 7
        OBVIOUS
      <3> QED
        BY <3>1, <3>2, <3>3
    <2> QED
      BY <1>1, <2>1
  <1>4. CASE Bit(s[p], k) = 1
    <2>1. Bit(t[p], k) # 1
      BY <1>2, <1>4
    <2>2. Odd(s, k) # Odd(t, k)
      BY <1>4, <2>1, OddChanged
    <2> QED
      BY <2>2, XorOdds
  <1>5. CASE Bit(t[p], k) = 1
    <2>1. Bit(s[p], k) # 1 /\ p \in 1 .. Len(t) /\ \A n \in 1 .. Len(t) : n # p => t[n] = s[n]
      BY <1>2, <1>5
    <2>2. Odd(t, k) # Odd(s, k)
      BY <1>5, <2>1, OddChanged
    <2> QED
      BY <2>2, XorOdds
  <1> QED
    BY <1>2, <1>3, <1>4, <1>5


-----------------------------------------------------------------------------
(* The characters that carry the bytes *)

\* A character that is no control character ends a byte.
LEMMA EveryCharacter ==
    ASSUME NEW P, NEW s, NEW R, Carries(P, s, R), NEW k \in 1 .. Len(s), s[k] \notin Control
    PROVE  \E n \in 1 .. Len(R) : k = P[n]
  <1> DEFINE N == Len(R)
             T == {n \in 0 .. N : k <= P[n]}
  <1>1. /\ N \in Nat /\ P \in [0 .. N -> Nat] /\ P[0] = 1 /\ Len(s) = P[N] + 1
        /\ s[1] \in Control /\ s[Len(s)] \in Control /\ Len(s) \in Nat
        /\ \A n \in 1 .. N : Carried(P, s, R, n)
    BY DEF Carries, Control
  <1>2. k # 1 /\ k # Len(s)
    BY <1>1
  <1>3. N \in T
    BY <1>1, <1>2
  <1>4. PICK n \in T : \A m \in T : n <= m
    <2>1. T \in SUBSET Nat /\ T # {}
      BY <1>1, <1>3
    <2> HIDE DEF T
    <2> QED
      BY <2>1, LeastExists
  <1>5. n \in 1 .. N
    BY <1>1, <1>2, <1>4
  <1>6. n - 1 \in 0 .. N /\ n - 1 \notin T /\ n \in 0 .. N /\ k <= P[n]
    BY <1>1, <1>4, <1>5
  <1>7. P[n - 1] < k /\ P[n - 1] \in Nat /\ P[n] \in Nat
    BY <1>1, <1>6
  <1> HIDE DEF T, N
  <1>8. CASE P[n] = P[n - 1] + 1
    BY <1>5, <1>6, <1>7, <1>8 DEF N
  <1>9. CASE P[n] = P[n - 1] + 2 /\ s[P[n] - 1] = SL_ESC_CHAR
    <2>1. s[P[n] - 1] \in Control
      BY <1>9 DEF Control
    <2>2. k # P[n] - 1
      BY <2>1
    <2> QED
      BY <1>5, <1>6, <1>7, <1>9, <2>2, SMTT(20) DEF N
  <1> QED
    BY <1>1, <1>5, <1>8, <1>9 DEF Carried

\* The n-th character of this kind ends the n-th byte.
LEMMA CharactersCount ==
    ASSUME NEW P, NEW s, NEW R, Carries(P, s, R), NEW n \in 1 .. Len(R)
    PROVE  Cardinality({x \in 1 .. P[n] : s[x] \notin Control}) = n
  <1> DEFINE N == Len(R)
             S == {x \in 1 .. P[n] : s[x] \notin Control}
             f == [m \in 1 .. n |-> P[m]]
  <1>1. /\ N \in Nat /\ P \in [0 .. N -> Nat] /\ Len(s) = P[N] + 1 /\ P[0] = 1
        /\ \A m \in 1 .. N : s[P[m]] \notin Control
        /\ \A a, b \in 0 .. N : a < b => P[a] < P[b]
    BY DEF Carries, Carried
  <1>2. P[n] \in Nat /\ n \in Nat /\ \A m \in 1 .. n : m \in 1 .. N /\ P[m] \in Nat
    BY <1>1
  <1>3. P[n] <= Len(s)
    <2>1. n = N \/ n < N
      BY <1>1
    <2>2. P[N] \in Nat /\ n \in 0 .. N /\ N \in 0 .. N
      BY <1>1
    <2>3. P[n] <= P[N]
      BY <1>1, <1>2, <2>1, <2>2
    <2> QED
      BY <1>1, <1>2, <2>2, <2>3
  <1>4. \A m \in 1 .. n : P[m] \in S
    <2> TAKE m \in 1 .. n
    <2>1. m \in 0 .. N /\ n \in 0 .. N /\ 0 \in 0 .. N /\ P[m] \in Nat
      BY <1>1, <1>2
    <2>2. P[m] > 0 /\ P[m] <= P[n]
      <3>1. P[0] < P[m]
        BY <1>1, <2>1
      <3>2. m = n \/ m < n
        OBVIOUS
      <3> QED
        BY <1>1, <1>2, <2>1, <3>1, <3>2
    <2> QED
      BY <1>1, <1>2, <2>1, <2>2, SMTT(20)
  <1>5. \A x \in S : \E m \in 1 .. n : P[m] = x
    <2> TAKE x \in S
    <2>1. x \in 1 .. Len(s) /\ s[x] \notin Control /\ x <= P[n] /\ x \in Nat
      BY <1>2, <1>3
    <2>2. PICK m \in 1 .. Len(R) : x = P[m]
      BY <2>1, EveryCharacter
    <2>3. m <= n
      <3> SUFFICES ASSUME n < m PROVE FALSE
        OBVIOUS
      <3>1. P[n] < P[m]
        BY <1>1
      <3> QED
        BY <1>2, <2>1, <2>2, <3>1
    <2> QED
      BY <2>2, <2>3
  <1>6. \A a, b \in 1 .. n : P[a] = P[b] => a = b
    <2> SUFFICES ASSUME NEW a \in 1 .. n, NEW b \in 1 .. n, P[a] = P[b], a < b \/ b < a PROVE FALSE
      OBVIOUS
    <2>1. a \in 0 .. N /\ b \in 0 .. N /\ P[a] \in Nat /\ P[b] \in Nat
      BY <1>1, <1>2
    <2>2. P[a] < P[b] \/ P[b] < P[a]
      BY <1>1, <2>1
    <2> QED
      BY <2>1, <2>2
  <1> HIDE DEF S
  <1>7. f \in Bijection(1 .. n, S)
    <2>1. f \in [1 .. n -> S]
      BY <1>4
    <2>2. f \in Injection(1 .. n, S)
      BY <1>6, <2>1 DEF Injection, IsInjective
    <2>3. f \in Surjection(1 .. n, S)
      BY <1>5, <2>1 DEF Surjection
    <2> QED
      BY <2>2, <2>3 DEF Bijection
  <1>8. IsFiniteSet(1 .. n) /\ Cardinality(1 .. n) = n
    BY <1>2, FS_Interval
  <1>9. Cardinality(S) = n
    BY <1>7, <1>8, FS_Bijection DEF ExistsBijection
  <1> QED
    BY <1>9 DEF S


LEMMA WordParts ==
    ASSUME NEW a \in Byte, NEW b \in Byte
    PROVE  Word(a, b) % 256 = b /\ Word(a, b) \div 256 = a
  <1>1. a \in Nat /\ b \in 0 .. 255
    BY DEF Byte
  <1>2. (a * 256 + b) % 256 = b
    BY <1>1
  <1>3. (a * 256 + b) \div 256 = a
    BY <1>1
  <1> QED
    BY <1>2, <1>3, Zenon DEF Word

\* A byte of type, checksum or data that arrives changed leaves a frame, and its
\* checksum is wrong.
LEMMA SumChanged ==
    ASSUME NEW R \in Seq(Byte), Len(R) >= 5, Word(R[3], R[4]) = Len(R) - 5, Good(R),
           NEW n \in 1 .. Len(R), n # 3, n # 4, NEW v \in Byte, v # R[n]
    PROVE  ~Good([R EXCEPT ![n] = v])
  <1> DEFINE Q == [R EXCEPT ![n] = v]
             l == Len(R) - 5
             Head4(X) == <<Word(X[1], X[2]) % 256, Word(X[1], X[2]) \div 256, l % 256, l \div 256>>
  <1>1. /\ Q \in Seq(Byte) /\ Len(Q) = Len(R) /\ l \in Nat /\ Len(R) \in Nat
        /\ \A k \in 1 .. Len(R) : Q[k] = (IF k = n THEN v ELSE R[k]) /\ Q[k] \in Byte /\ R[k] \in Byte
    OBVIOUS
  <1>2. /\ Good(R) <=> R[5] = Xor(Head4(R) \o Data(R))
        /\ Good(Q) <=> Q[5] = Xor(Head4(Q) \o Data(Q))
    BY <1>1 DEF Good, u8SL_CalculateCRC
  <1>3. 1 \in 1 .. Len(R) /\ 2 \in 1 .. Len(R) /\ 3 \in 1 .. Len(R) /\ 4 \in 1 .. Len(R) /\ 5 \in 1 .. Len(R)
    BY <1>1
  <1> HIDE DEF Q
  <1>4. CASE n = 5
    <2>1. Q[1] = R[1] /\ Q[2] = R[2] /\ Q[5] = v
      BY <1>1, <1>3, <1>4
    <2>2. Data(Q) = Data(R)
      <3>1. \A k \in 1 .. l : Q[5 + k] = R[5 + k]
        BY <1>1, <1>4
      <3> QED
        BY <1>1, <3>1 DEF Data
    <2>3. R[5] = Xor(Head4(R) \o Data(R))
      BY <1>2
    <2> QED
      BY <1>2, <1>4, <2>1, <2>2, <2>3 DEF Q
  <1>5. CASE n # 5
    <2>1. Q[5] = R[5]
      BY <1>1, <1>3, <1>5
    <2>2. \A a, b \in Byte : Word(a, b) % 256 = b /\ Word(a, b) \div 256 = a
      BY WordParts
    <2>3. l % 256 \in Byte /\ l \div 256 \in Byte
      <3>1. R[3] \in Byte /\ R[4] \in Byte /\ l = Word(R[3], R[4])
        BY <1>1, <1>3
      <3> HIDE DEF l
      <3> QED
        BY <2>2, <3>1
    <2> DEFINE hr == <<R[2], R[1], l % 256, l \div 256>>
               hq == <<Q[2], Q[1], l % 256, l \div 256>>
               dr == Data(R)
               dq == Data(Q)
    <2>4. Head4(R) = hr /\ Head4(Q) = hq
      <3>1. R[1] \in Byte /\ R[2] \in Byte /\ Q[1] \in Byte /\ Q[2] \in Byte
        BY <1>1, <1>3
      <3>2. Word(R[1], R[2]) % 256 = R[2] /\ Word(R[1], R[2]) \div 256 = R[1]
            /\ Word(Q[1], Q[2]) % 256 = Q[2] /\ Word(Q[1], Q[2]) \div 256 = Q[1]
        BY <2>2, <3>1
      <3> QED
        BY <3>2
    <2>5. hr \in Seq(Byte) /\ hq \in Seq(Byte) /\ Len(hr) = 4 /\ Len(hq) = 4
      <3>1. R[1] \in Byte /\ R[2] \in Byte /\ Q[1] \in Byte /\ Q[2] \in Byte
        BY <1>1, <1>3
      <3> DEFINE a == l % 256
                 b == l \div 256
      <3>2. a \in Byte /\ b \in Byte
        BY <2>3
      <3> HIDE DEF a, b
      <3>3. <<R[2], R[1], a, b>> \in Seq(Byte) /\ <<Q[2], Q[1], a, b>> \in Seq(Byte)
        BY <3>1, <3>2
      <3> QED
        BY <3>3 DEF a, b
    <2>6. /\ dr \in Seq(Byte) /\ dq \in Seq(Byte) /\ Len(dr) = l /\ Len(dq) = l
          /\ \A k \in 1 .. l : dr[k] = R[5 + k] /\ dq[k] = Q[5 + k]
      <3>1. \A k \in 1 .. l : 5 + k \in 1 .. Len(R)
        BY <1>1
      <3>2. dr \in [1 .. l -> Byte] /\ dq \in [1 .. l -> Byte]
        BY <1>1, <3>1 DEF Data
      <3> QED
        BY <1>1, <3>2 DEF Data
    <2> DEFINE s == hr \o dr
               t == hq \o dq
    <2>7. /\ s \in Seq(Byte) /\ t \in Seq(Byte) /\ Len(s) = 4 + l /\ Len(t) = 4 + l
          /\ \A k \in 1 .. 4 + l : s[k] = IF k <= 4 THEN hr[k] ELSE dr[k - 4]
          /\ \A k \in 1 .. 4 + l : t[k] = IF k <= 4 THEN hq[k] ELSE dq[k - 4]
      <3> HIDE DEF hr, hq, dr, dq, l, s, t
      <3>0. hr \in Seq(Byte) /\ dr \in Seq(Byte) /\ hq \in Seq(Byte) /\ dq \in Seq(Byte)
        BY <2>5, <2>6
      <3>1. s = hr \o dr /\ t = hq \o dq
        BY DEF s, t
      <3>2. /\ s \in Seq(Byte) /\ Len(s) = Len(hr) + Len(dr)
            /\ \A k \in 1 .. Len(hr) + Len(dr) : s[k] = IF k <= Len(hr) THEN hr[k] ELSE dr[k - Len(hr)]
        BY <3>0, <3>1, ConcatProperties, Zenon
      <3>3. /\ t \in Seq(Byte) /\ Len(t) = Len(hq) + Len(dq)
            /\ \A k \in 1 .. Len(hq) + Len(dq) : t[k] = IF k <= Len(hq) THEN hq[k] ELSE dq[k - Len(hq)]
        BY <3>0, <3>1, ConcatProperties, Zenon
      <3> QED
        BY <2>5, <2>6, <3>2, <3>3
    <2>8. /\ hr[1] = R[2] /\ hr[2] = R[1] /\ hr[3] = hq[3] /\ hr[4] = hq[4]
          /\ hq[1] = Q[2] /\ hq[2] = Q[1]
      OBVIOUS
    <2> DEFINE p == IF n = 1 THEN 2 ELSE IF n = 2 THEN 1 ELSE n - 1
    <2>9. p \in 1 .. 4 + l
      BY <1>1, <1>5
    <2> HIDE DEF hr, hq, dr, dq, s, t
    <2>10. s[p] # t[p] /\ \A k \in 1 .. 4 + l : k # p => s[k] = t[k]
      <3>1. CASE n = 1
        <4>1. p = 2 /\ s[2] = R[1] /\ t[2] = v /\ R[1] # v /\ R[2] = Q[2]
          BY <1>1, <1>3, <2>7, <2>8, <3>1
        <4>2. \A k \in 1 .. l : dr[k] = dq[k]
          <5>1. \A k \in 1 .. l : 5 + k \in 1 .. Len(R) /\ 5 + k # n
            BY <1>1, <3>1
          <5>2. \A k \in 1 .. l : R[5 + k] = Q[5 + k]
            BY <1>1, <5>1
          <5> QED
            BY <2>6, <5>2
        <4>3. ASSUME NEW k \in 1 .. 4 + l, k # 2 PROVE s[k] = t[k]
          <5>1. CASE k <= 4
            <6>1. k = 1 \/ k = 3 \/ k = 4
              BY <4>3, <5>1
            <6>2. s[k] = hr[k] /\ t[k] = hq[k]
              BY <2>7, <5>1
            <6> QED
              BY <2>8, <4>1, <6>1, <6>2
          <5>2. CASE k > 4
            <6>1. k - 4 \in 1 .. l
              BY <1>1, <5>2
            <6>2. s[k] = dr[k - 4] /\ t[k] = dq[k - 4]
              BY <2>7, <5>2
            <6> QED
              BY <4>2, <6>1, <6>2
          <5> QED
            BY <5>1, <5>2
        <4> QED
          BY <4>1, <4>3
      <3>2. CASE n = 2
        <4>1. p = 1 /\ s[1] = R[2] /\ t[1] = v /\ R[2] # v /\ R[1] = Q[1]
          BY <1>1, <1>3, <2>7, <2>8, <3>2
        <4>2. \A k \in 1 .. l : dr[k] = dq[k]
          <5>1. \A k \in 1 .. l : 5 + k \in 1 .. Len(R) /\ 5 + k # n
            BY <1>1, <3>2
          <5>2. \A k \in 1 .. l : R[5 + k] = Q[5 + k]
            BY <1>1, <5>1
          <5> QED
            BY <2>6, <5>2
        <4>3. ASSUME NEW k \in 1 .. 4 + l, k # 1 PROVE s[k] = t[k]
          <5>1. CASE k <= 4
            <6>1. k = 2 \/ k = 3 \/ k = 4
              BY <4>3, <5>1
            <6>2. s[k] = hr[k] /\ t[k] = hq[k]
              BY <2>7, <5>1
            <6> QED
              BY <2>8, <4>1, <6>1, <6>2
          <5>2. CASE k > 4
            <6>1. k - 4 \in 1 .. l
              BY <1>1, <5>2
            <6>2. s[k] = dr[k - 4] /\ t[k] = dq[k - 4]
              BY <2>7, <5>2
            <6> QED
              BY <4>2, <6>1, <6>2
          <5> QED
            BY <5>1, <5>2
        <4> QED
          BY <4>1, <4>3
      <3>3. CASE n >= 6
        <4>1. p = n - 1 /\ p > 4 /\ p - 4 \in 1 .. l /\ 5 + (p - 4) = n
          BY <1>1, <3>3
        <4>2. s[p] = R[n] /\ t[p] = v
          <5>1. s[p] = dr[p - 4] /\ t[p] = dq[p - 4]
            BY <2>7, <2>9, <4>1
          <5> QED
            BY <1>1, <2>6, <4>1, <5>1
        <4>3. ASSUME NEW k \in 1 .. 4 + l, k # p PROVE s[k] = t[k]
          <5>1. CASE k <= 4
            <6>1. k = 1 \/ k = 2 \/ k = 3 \/ k = 4
              BY <5>1
            <6>2. R[1] = Q[1] /\ R[2] = Q[2]
              BY <1>1, <1>3, <3>3
            <6> QED
              BY <2>7, <2>8, <5>1, <6>1, <6>2
          <5>2. CASE k > 4
            <6>1. k - 4 \in 1 .. l /\ 5 + (k - 4) \in 1 .. Len(R) /\ 5 + (k - 4) # n
              BY <1>1, <4>1, <4>3, <5>2
            <6>2. dr[k - 4] = dq[k - 4]
              BY <1>1, <2>6, <6>1
            <6>3. ~(k <= 4)
              BY <5>2
            <6>4. s[k] = dr[k - 4] /\ t[k] = dq[k - 4]
              BY <2>7, <6>3
            <6> QED
              BY <6>2, <6>4
          <5> QED
            BY <5>1, <5>2
        <4> QED
          BY <4>2, <4>3
      <3> QED
        BY <1>1, <1>5, <3>1, <3>2, <3>3
    <2> HIDE DEF p
    <2>11. Xor(s) # Xor(t)
      <3>1. s \in Seq(Byte) /\ t \in Seq(Byte) /\ Len(s) = Len(t) /\ Len(s) = 4 + l
        BY <2>7
      <3>2. p \in 1 .. Len(s) /\ s[p] # t[p] /\ \A k \in 1 .. Len(s) : k # p => s[k] = t[k]
        BY <2>9, <2>10, <3>1
      <3> HIDE DEF l
      <3> QED
        BY <3>1, <3>2, XorChanged
    <2>12. Head4(R) \o Data(R) = s /\ Head4(Q) \o Data(Q) = t
      BY <2>4 DEF s, t, dr, dq
    <2>13. ~Good(Q)
      <3> HIDE DEF Head4
      <3> QED
        BY <1>2, <2>1, <2>11, <2>12
    <2> QED
      BY <2>13 DEF Q
  <1> QED
    BY <1>4, <1>5


LEMMA Places ==
    ASSUME NEW P, NEW s, NEW R, Carries(P, s, R), NEW m \in 1 .. Len(R)
    PROVE  /\ m \in 0 .. Len(R) /\ m - 1 \in 0 .. Len(R) /\ P[m] \in Nat /\ P[m - 1] \in Nat
           /\ P[m - 1] < P[m] /\ P[m - 1] > 0 /\ P[m] \in 1 .. Len(s)
  <1> DEFINE N == Len(R)
  <1>1. /\ R \in Seq(Byte) /\ P \in [0 .. N -> Nat] /\ Len(s) = P[N] + 1
        /\ \A k \in 0 .. N : k < P[k]
        /\ \A a, k \in 0 .. N : a < k => P[a] < P[k]
    BY DEF Carries
  <1>2. N \in Nat
    BY <1>1
  <1> HIDE DEF N
  <1>3. m \in 1 .. N
    BY DEF N
  <1>4. m \in 0 .. N /\ m - 1 \in 0 .. N /\ N \in 0 .. N /\ m - 1 < m
    BY <1>2, <1>3
  <1>5. P[m] \in Nat /\ P[m - 1] \in Nat /\ P[N] \in Nat
    BY <1>1, <1>4
  <1>6. P[m - 1] < P[m] /\ m - 1 < P[m - 1] /\ m - 1 \in Nat
    BY <1>1, <1>4
  <1>7. P[m] <= P[N]
    <2>1. m = N \/ m < N
      BY <1>2, <1>3
    <2>2. m < N => P[m] < P[N]
      BY <1>1, <1>4
    <2> QED
      BY <1>5, <2>1, <2>2
  <1>8. P[m - 1] > 0
    BY <1>5, <1>6
  <1>9. P[m] \in 1 .. Len(s)
    <2>1. P[m] >= 1 /\ P[m] <= P[N] + 1
      BY <1>5, <1>6, <1>7, <1>8
    <2> QED
      BY <1>1, <1>5, <2>1
  <1> QED
    BY <1>4, <1>5, <1>6, <1>8, <1>9 DEF N

\* A character that carries a byte, changed to another such character, carries
\* another byte.
LEMMA FrameChanged ==
    ASSUME NEW P, NEW s, NEW R, Carries(P, s, R), NEW n \in 1 .. Len(R),
           NEW b \in Byte, b \notin Control, s[P[n]] # b
    PROVE  \E v \in Byte : /\ v # R[n]
                           /\ Carries(P, [s EXCEPT ![P[n]] = b], [R EXCEPT ![n] = v])
  <1> DEFINE N == Len(R)
             v == IF P[n] = P[n - 1] + 1 THEN b ELSE Flip(b)
             q == [s EXCEPT ![P[n]] = b]
             Q == [R EXCEPT ![n] = v]
  <1>1. /\ s \in Seq(Byte) /\ R \in Seq(Byte) /\ N \in Nat
        /\ P \in [0 .. N -> Nat] /\ P[0] = 1
        /\ Len(s) = P[N] + 1 /\ s[1] = SL_START_CHAR /\ s[Len(s)] = SL_END_CHAR
        /\ \A m \in 0 .. N : m < P[m]
        /\ \A m, k \in 0 .. N : m < k => P[m] < P[k]
    BY DEF Carries
  <1>2. \A m \in 1 .. N : Carried(P, s, R, m)
    BY DEF Carries
  <1>3. n \in 0 .. N /\ n - 1 \in 0 .. N /\ P[n] \in Nat /\ P[n - 1] \in Nat
    BY Places
  <1>4. s[P[n]] \notin Control
    BY <1>2 DEF Carried
  <1>5. P[n] \in 1 .. Len(s)
    BY Places
  <1>6. v \in Byte /\ v # R[n]
    <2>1. CASE P[n] = P[n - 1] + 1
      <3>1. s[P[n]] = R[n]
        BY <1>2, <1>3, <2>1 DEF Carried
      <3> QED
        BY <2>1, <3>1
    <2>2. CASE P[n] # P[n - 1] + 1
      <3>1. Flip(s[P[n]]) = R[n]
        BY <1>2, <2>2 DEF Carried
      <3>2. s[P[n]] \in Byte
        BY <1>1, <1>5
      <3>3. Flip(b) \in Byte /\ Flip(Flip(b)) = b /\ Flip(Flip(s[P[n]])) = s[P[n]]
        BY <3>2, FlipByte
      <3>4. Flip(b) # R[n]
        BY <3>1, <3>3
      <3> QED
        BY <2>2, <3>3, <3>4
    <2> QED
      BY <2>1, <2>2
  <1> HIDE DEF v
  <1>7. /\ q \in Seq(Byte) /\ Len(q) = Len(s) /\ Q \in Seq(Byte) /\ Len(Q) = N
        /\ \A k \in 1 .. Len(s) : q[k] = IF k = P[n] THEN b ELSE s[k]
        /\ \A k \in 1 .. N : Q[k] = IF k = n THEN v ELSE R[k]
    BY <1>1, <1>5, <1>6
  <1>8. \A k \in 1 .. Len(s) : s[k] \in Control => q[k] = s[k]
    BY <1>4, <1>7
  <1>9. q[1] = SL_START_CHAR /\ q[Len(q)] = SL_END_CHAR
    <2>1. 1 \in 1 .. Len(s) /\ Len(s) \in 1 .. Len(s)
      BY <1>1, <1>5
    <2>2. s[1] \in Control /\ s[Len(s)] \in Control
      BY <1>1 DEF Control
    <2> QED
      BY <1>1, <1>7, <1>8, <2>1, <2>2
  <1> HIDE DEF q, Q
  <1>10. ASSUME NEW m \in 1 .. N PROVE Carried(P, q, Q, m)
    <2>1. /\ m \in 0 .. N /\ m - 1 \in 0 .. N /\ P[m] \in Nat /\ P[m - 1] \in Nat
          /\ P[m - 1] < P[m] /\ P[m - 1] > 0
      BY Places
    <2>2. P[m] \in 1 .. Len(s)
      BY Places
    <2>3. Carried(P, s, R, m)
      BY <1>2
    <2>4. CASE m = n
      <3>1. q[P[m]] = b /\ Q[m] = v
        BY <1>5, <1>7, <2>4
      <3>2. CASE P[n] = P[n - 1] + 1
        BY <2>4, <3>1, <3>2 DEF Carried, v
      <3>3. CASE P[n] # P[n - 1] + 1
        <4>1. P[n] = P[n - 1] + 2 /\ s[P[n] - 1] = SL_ESC_CHAR
          BY <2>3, <2>4, <3>3 DEF Carried
        <4>2. P[n] - 1 \in 1 .. Len(s) /\ SL_ESC_CHAR \in Control
          BY <1>5, <2>1, <2>4, <4>1, SMTT(20) DEF Control
        <4>3. q[P[n] - 1] = SL_ESC_CHAR
          BY <1>8, <4>1, <4>2
        <4> QED
          BY <2>4, <3>1, <3>3, <4>1, <4>3 DEF Carried, v
      <3> QED
        BY <3>2, <3>3
    <2>5. CASE m # n
      <3>1. P[m] # P[n]
        <4>1. m < n \/ n < m
          BY <1>1, <2>1, <2>5
        <4>2. P[m] < P[n] \/ P[n] < P[m]
          BY <1>1, <1>3, <2>1, <4>1
        <4> QED
          BY <1>3, <2>1, <4>2
      <3>2. q[P[m]] = s[P[m]] /\ Q[m] = R[m]
        BY <1>7, <2>2, <2>5, <3>1
      <3>3. ASSUME P[m] = P[m - 1] + 2, s[P[m] - 1] = SL_ESC_CHAR
            PROVE  q[P[m] - 1] = SL_ESC_CHAR
        <4>1. P[m] - 1 \in 1 .. Len(s) /\ SL_ESC_CHAR \in Control
          BY <2>1, <2>2, <3>3, SMTT(20) DEF Control
        <4> QED
          BY <1>8, <3>3, <4>1
      <3> QED
        BY <2>3, <3>2, <3>3 DEF Carried
    <2> QED
      BY <2>4, <2>5
  <1>11. Carries(P, q, Q)
    <2> HIDE DEF N
    <2>1. Len(Q) = N /\ Len(q) = P[N] + 1 /\ P[Len(Q)] = P[N]
      BY <1>1, <1>7
    <2> HIDE DEF Carried
    <2> QED
      BY <1>1, <1>7, <1>9, <1>10, <2>1 DEF Carries
  <1> QED
    BY <1>6, <1>11 DEF q, Q

\* The bytes of a message are good bytes.
LEMMA MessageFrame ==
    ASSUME NEW m \in Messages
    PROVE  LET R == Bytes(m)
           IN  /\ R \in Seq(Byte) /\ Len(R) >= 5 /\ Word(R[3], R[4]) = Len(R) - 5 /\ Good(R)
               /\ Word(R[1], R[2]) = m.type /\ Len(R) - 5 = Len(m.data) /\ Data(R) = m.data
  <1> DEFINE R == Bytes(m)
             l == Len(m.data)
  <1>1. /\ R \in Seq(Byte) /\ Len(R) = 5 + l /\ l \in Nat
        /\ R[1] * 256 + R[2] = m.type /\ R[3] * 256 + R[4] = l
        /\ R[5] = u8SL_CalculateCRC(m.type, l, m.data)
        /\ m.data \in Seq(Byte)
        /\ \A k \in 1 .. l : R[5 + k] = m.data[k]
    BY BytesFacts
  <1> HIDE DEF R
  <1>2. Word(R[1], R[2]) = m.type /\ Word(R[3], R[4]) = l
    BY <1>1, Zenon DEF Word
  <1>3. Len(R) - 5 = l /\ Len(R) >= 5
    BY <1>1
  <1>4. Data(R) = m.data
    <2>1. m.data = [k \in 1 .. l |-> m.data[k]]
      BY <1>1
    <2> QED
      BY <1>1, <1>3, <2>1 DEF Data
  <1>5. Good(R)
    BY <1>1, <1>2, <1>3, <1>4 DEF Good
  <1> QED
    BY <1>1, <1>2, <1>3, <1>4, <1>5 DEF R


-----------------------------------------------------------------------------
(* What is on the line, and what becomes of it *)

\* As long as the line only changed a byte of type, checksum or data, it holds a
\* frame: of the bytes that were sent, or of bytes with a wrong checksum.
WireInv ==
    calls > 0 /\ hurt # "other" =>
        /\ msg \in Messages
        /\ \E P, R : /\ Framed(P, R)
                     /\ hurt = "none" => R = Bytes(msg)
                     /\ hurt = "payload" => ~Good(R)
                     /\ Short => Reading(P, R)

LEMMA SendWire ==
    ASSUME NEW m \in Messages, Send(m)
    PROVE  WireInv'
  <1>1. line' = eSL_WriteMessage(m) /\ msg' = m /\ hurt' = "none" /\ ret' = "line"
    BY DEF Send
  <1>2. PICK P : Carries(P, eSL_WriteMessage(m), Bytes(m))
    BY WriteCarries
  <1>3. Framed(P, Bytes(m))'
    BY <1>1, <1>2, MessageFrame DEF Framed
  <1>4. Reading(P, Bytes(m))'
    BY <1>1 DEF Reading
  <1> QED
    BY <1>1, <1>3, <1>4 DEF WireInv

LEMMA ChangeWire ==
    ASSUME TypeInv, WireInv, NEW k \in DOMAIN line, NEW b \in Noise, Change(k, b)
    PROVE  WireInv'
  <1>1. /\ line[k] # b /\ hurt = "none" /\ ret' = "line" /\ msg' = msg /\ calls' = calls
        /\ line' = [line EXCEPT ![k] = b]
        /\ hurt' = (IF line[k] \notin Control /\ b \notin Control /\ ByteAt(k) \notin {3, 4}
                      THEN "payload" ELSE "other")
    BY DEF Change, Damage
  <1> SUFFICES ASSUME calls > 0, line[k] \notin Control, b \notin Control,
                      ByteAt(k) \notin {3, 4}, hurt' = "payload"
               PROVE  WireInv'
    BY <1>1 DEF WireInv
  <1>2. msg \in Messages
    BY <1>1 DEF WireInv
  <1>3. PICK P, R : Framed(P, R) /\ R = Bytes(msg)
    BY <1>1 DEF WireInv
  <1>4. /\ Carries(P, line, R) /\ R \in Seq(Byte) /\ Len(R) >= 5
        /\ Word(R[3], R[4]) = Len(R) - 5 /\ Good(R)
    BY <1>2, <1>3, MessageFrame DEF Framed
  <1>5. k \in 1 .. Len(line) /\ b \in Byte
    BY LinkAssumption DEF TypeInv, SerialTypes, Byte
  <1>6. PICK n \in 1 .. Len(R) : k = P[n]
    BY <1>4, <1>5, EveryCharacter
  <1>7. n # 3 /\ n # 4
    <2>1. Cardinality({x \in 1 .. P[n] : line[x] \notin Control}) = n
      BY <1>4, CharactersCount
    <2>2. ByteAt(k) = n
      BY <1>6, <2>1 DEF ByteAt
    <2> QED
      BY <2>2
  <1>8. PICK v \in Byte : /\ v # R[n]
                          /\ Carries(P, [line EXCEPT ![P[n]] = b], [R EXCEPT ![n] = v])
    BY <1>1, <1>4, <1>5, <1>6, FrameChanged
  <1> DEFINE Q == [R EXCEPT ![n] = v]
  <1>9. ~Good(Q)
    BY <1>4, <1>7, <1>8, SumChanged
  <1>10. Len(Q) = Len(R) /\ Q[3] = R[3] /\ Q[4] = R[4]
    BY <1>4, <1>7
  <1>11. Carries(P, line', Q)
    BY <1>1, <1>6, <1>8
  <1> HIDE DEF Q
  <1>12. Framed(P, Q)'
    BY <1>4, <1>10, <1>11 DEF Framed
  <1>13. Reading(P, Q)'
    BY <1>1 DEF Reading
  <1> QED
    BY <1>1, <1>2, <1>9, <1>12, <1>13 DEF WireInv

\* The call does not end before the end character was read.
LEMMA ReturnWire ==
    ASSUME TypeInv, BufferInv, NEW P, NEW R, Framed(P, R), Short, Reading(P, R), Return
    PROVE  Reading(P, R)'
  <1>1. ret = "run" /\ Len(buf) <= i /\ ret' = "FALSE"
    BY DEF Return
  <1>2. Len(buf) = Len(line) /\ i \in Nat
    BY <1>1, LinkAssumption DEF BufferInv, TypeInv, SerialTypes
  <1>3. i # 0
    BY <1>1, <1>2, FrameFacts
  <1>4. ASSUME NEW j \in 0 .. Len(R), Progress(P, R, j) PROVE FALSE
    <2>1. Standing(P, R, j) /\ Len(R) \in Nat
      BY <1>4, FrameFacts DEF Progress
    <2>2. CASE i = P[j]
      BY <1>1, <1>2, <2>2, FrameFacts
    <2>3. CASE j < Len(R) /\ i = P[j] + 1 /\ P[j + 1] = P[j] + 2
      <3>1. j + 1 \in 0 .. Len(R)
        BY <2>1, <2>3
      <3>2. P[j + 1] < Len(line) /\ P[j] \in Nat /\ Len(line) \in Nat
        BY <3>1, FrameFacts
      <3> QED
        BY <1>1, <1>2, <2>3, <3>2
    <2> QED
      BY <2>1, <2>2, <2>3 DEF Standing
  <1>5. ~Good(R)
    BY <1>1, <1>3, <1>4 DEF Reading
  <1> QED
    BY <1>1, <1>5 DEF Reading

LEMMA WireNext ==
    TypeInv /\ BufferInv /\ WireInv /\ [SerialNext]_serialVars => WireInv'
  <1> SUFFICES ASSUME TypeInv, BufferInv, WireInv, [SerialNext]_serialVars PROVE WireInv'
    OBVIOUS
  <1>1. ASSUME NEW m \in Messages, Send(m) PROVE WireInv'
    BY <1>1, SendWire
  <1>2. ASSUME NEW k \in DOMAIN line, Lose(k) PROVE WireInv'
    BY <1>2 DEF Lose, Damage, WireInv
  <1>3. ASSUME NEW k \in DOMAIN line, NEW b \in Noise, Change(k, b) PROVE WireInv'
    BY <1>3, ChangeWire
  <1>4. ASSUME line' = line, msg' = msg, hurt' = hurt, calls' = calls,
               ASSUME NEW P, NEW R, Framed(P, R), Short, Reading(P, R) PROVE Reading(P, R)'
        PROVE  WireInv'
    <2> SUFFICES ASSUME calls > 0, hurt # "other" PROVE WireInv'
      BY <1>4 DEF WireInv
    <2>1. PICK P, R : /\ Framed(P, R)
                      /\ hurt = "none" => R = Bytes(msg)
                      /\ hurt = "payload" => ~Good(R)
                      /\ Short => Reading(P, R)
      BY DEF WireInv
    <2>2. Framed(P, R)' /\ (Short' => Short)
      BY <1>4, <2>1 DEF Framed, Short
    <2>3. Short' => Reading(P, R)'
      BY <1>4, <2>1, <2>2
    <2>4. msg \in Messages
      BY DEF WireInv
    <2> QED
      BY <1>4, <2>1, <2>2, <2>3, <2>4 DEF WireInv
  <1>5. CASE Call
    <2>1. line' = line /\ msg' = msg /\ hurt' = hurt /\ calls' = calls
      BY <1>5 DEF Call
    <2>2. ASSUME NEW P, NEW R PROVE Reading(P, R)'
      BY <1>5 DEF Call, Reading
    <2> QED
      BY <1>4, <2>1, <2>2
  <1>6. CASE ReadChar
    <2>1. line' = line /\ msg' = msg /\ hurt' = hurt /\ calls' = calls
      BY <1>6 DEF ReadChar
    <2>2. ASSUME NEW P, NEW R, Framed(P, R), Short, Reading(P, R) PROVE Reading(P, R)'
      BY <1>6, <2>2, FrameStep
    <2> QED
      BY <1>4, <2>1, <2>2
  <1>7. CASE Return
    <2>1. line' = line /\ msg' = msg /\ hurt' = hurt /\ calls' = calls
      BY <1>7 DEF Return
    <2>2. ASSUME NEW P, NEW R, Framed(P, R), Short, Reading(P, R) PROVE Reading(P, R)'
      BY <1>7, <2>2, ReturnWire
    <2> QED
      BY <1>4, <2>1, <2>2
  <1>8. CASE UNCHANGED serialVars
    BY <1>8, SMTT(20) DEF WireInv, Framed, Short, Reading, Progress, Told, Standing, Kept, serialVars
  <1> QED
    BY <1>1, <1>2, <1>3, <1>5, <1>6, <1>7, <1>8 DEF SerialNext, eSL_ReadMessage

LEMMA WireAlways == SerialSpec => []WireInv
  <1>1. SerialInit => WireInv
    BY DEF SerialInit, WireInv
  <1> QED
    BY <1>1, BufferAlways, WireNext, PTL DEF SerialSpec

\* Before the first message nothing is on the line.
IdleInv == calls = 0 => ret = "FALSE" /\ hurt = "none"

LEMMA IdleAlways == SerialSpec => []IdleInv
  <1>1. SerialInit => IdleInv
    BY DEF SerialInit, IdleInv
  <1>2. TypeInv /\ IdleInv /\ [SerialNext]_serialVars => IdleInv'
    <2> SUFFICES ASSUME TypeInv, IdleInv, [SerialNext]_serialVars PROVE IdleInv'
      OBVIOUS
    <2>1. ASSUME NEW m \in Messages, Send(m) PROVE IdleInv'
      <3>1. calls \in Nat /\ calls' = calls + 1
        BY <2>1 DEF TypeInv, SerialTypes, Send
      <3> QED
        BY <3>1 DEF IdleInv
    <2>2. ASSUME NEW k \in DOMAIN line, Lose(k) \/ \E b \in Noise : Change(k, b) PROVE IdleInv'
      BY <2>2 DEF Lose, Change, Damage, IdleInv
    <2>3. CASE eSL_ReadMessage
      BY <2>3 DEF eSL_ReadMessage, Call, ReadChar, Return, IdleInv
    <2>4. CASE UNCHANGED serialVars
      BY <2>4 DEF IdleInv, serialVars
    <2> QED
      BY <2>1, <2>2, <2>3, <2>4 DEF SerialNext
  <1> QED
    BY <1>1, <1>2, TypeAlways, PTL DEF SerialSpec

\* The decoder inverts the encoder: a message that arrives whole is returned
\* with its type, length and data, after whatever damaged messages.
THEOREM DecoderInvertsEncoder == SerialSpec => []WholeIsReturned
  <1>1. WireInv => WholeIsReturned
    <2> SUFFICES ASSUME WireInv, ret \in {"TRUE", "FALSE"}, calls > 0, hurt = "none", Short
                 PROVE  /\ ret = "TRUE" /\ type = msg.type /\ length = Len(msg.data)
                        /\ SubSeq(buf, 1, length) = msg.data
      BY DEF WholeIsReturned
    <2>1. msg \in Messages
      BY DEF WireInv
    <2>2. PICK P, R : R = Bytes(msg) /\ Reading(P, R)
      BY DEF WireInv
    <2>3. /\ Good(R) /\ Word(R[1], R[2]) = msg.type /\ Len(R) - 5 = Len(msg.data)
          /\ Data(R) = msg.data
      BY <2>1, <2>2, MessageFrame
    <2> QED
      BY <2>2, <2>3 DEF Reading
  <1> QED
    BY <1>1, WireAlways, PTL

\* A changed byte of type, checksum or data is never accepted: the exclusive or
\* of the bytes differs in the bits in which the byte differs.
THEOREM DamageRefused == SerialSpec => [](Short => DamageIsSeen)
  <1>1. TypeInv /\ IdleInv /\ WireInv => (Short => DamageIsSeen)
    <2> SUFFICES ASSUME WireInv, Short, calls > 0, hurt = "payload" PROVE ret # "TRUE"
      BY DEF DamageIsSeen, IdleInv, TypeInv, SerialTypes
    <2>1. PICK P, R : ~Good(R) /\ Reading(P, R)
      BY DEF WireInv
    <2> QED
      BY <2>1 DEF Reading
  <1> QED
    BY <1>1, TypeAlways, IdleAlways, WireAlways, PTL


=============================================================================
