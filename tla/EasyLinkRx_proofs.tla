------------------------- MODULE EasyLinkRx_proofs -------------------------
(***************************************************************************)
(* Proofs about the driver, for every buffer size, every string and every  *)
(* set of other stations the assumptions of EasyLinkRx allow.              *)
(***************************************************************************)
EXTENDS EasyLinkRetyped, SeqFilter_proofs, TLAPS

AllFrames == SenderFrames \cup Noise

-----------------------------------------------------------------------------
(* Frames *)

\* Packing type and index in one byte and unpacking them again.
LEMMA Unpack ==
    ASSUME NEW type \in 0 .. 3, NEW i \in 0 .. 31, NEW d
    PROVE  /\ FrmType(MakeSendFrm(type, i, d)) = type
           /\ FrmIndex(MakeSendFrm(type, i, d)) = i
           /\ FrmData(MakeSendFrm(type, i, d)) = <<d[1], d[2]>>
  <1>1. (type * 32 + i) % 128 = type * 32 + i
    OBVIOUS
  <1>2. ((type * 32 + i) \div 32) % 4 = type
    OBVIOUS
  <1>3. (type * 32 + i) % 32 = i
    OBVIOUS
  <1> QED
    BY <1>1, <1>2, <1>3 DEF MakeSendFrm, FrmType, FrmIndex, FrmData

LEMMA MsgFrameParts ==
    ASSUME NEW type \in 0 .. 3, NEW i \in 0 .. 31, NEW p, NEW n
    PROVE  /\ FrmType(MsgFrame(type, p, n, i)) = type
           /\ FrmIndex(MsgFrame(type, p, n, i)) = i
  <1>1. PICK d : MsgFrame(type, p, n, i) = MakeSendFrm(type, i, d)
    BY Zenon DEF MsgFrame
  <1> QED
    <2>1. FrmType(MakeSendFrm(type, i, d)) = type
      BY Unpack
    <2>2. FrmIndex(MakeSendFrm(type, i, d)) = i
      BY Unpack
    <2> QED
      BY <1>1, <2>1, <2>2

\* A frame has a type, an index and a pair of bytes.
LEMMA FrameParts ==
    ASSUME NEW f \in Frame
    PROVE  /\ FrmType(f) \in 0 .. 3 /\ FrmIndex(f) \in 0 .. 31
           /\ FrmData(f) \in Pair
           /\ Word(FrmData(f)) \in Nat
  <1>1. f.a3 \in 0 .. 127 /\ f.a4 \in 0 .. 255 /\ f.a5 \in 0 .. 255
    BY DEF Frame, Byte
  <1>2. FrmType(f) \in 0 .. 3
    BY <1>1 DEF FrmType
  <1>3. FrmIndex(f) \in 0 .. 31
    BY <1>1 DEF FrmIndex
  <1>4. FrmData(f) \in Pair
    BY <1>1 DEF FrmData, Pair, Byte
  <1>5. Word(FrmData(f)) \in Nat
    <2>1. Word(FrmData(f)) = f.a4 * 256 + f.a5
      BY DEF FrmData, Word
    <2>2. f.a4 \in Nat /\ f.a5 \in Nat
      BY <1>1
    <2> QED
      BY <2>1, <2>2
  <1> QED
    BY <1>2, <1>3, <1>4, <1>5

-----------------------------------------------------------------------------
(* The checksum: what the recursive sum of PairSum computes *)

\* G is the function of the sums of the first pairs, up to m.
Sums(G, p, m) ==
    G = [k \in 0 .. m |-> IF k = 0 THEN 0 ELSE G[k - 1] + p[k][1] + p[k][2]]

LEMMA SumsStep ==
    ASSUME NEW p, NEW m \in Nat, NEW G, Sums(G, p, m)
    PROVE  \E H : Sums(H, p, m + 1)
  <1> DEFINE step == G[m] + p[m + 1][1] + p[m + 1][2]
             H == [k \in 0 .. m + 1 |-> IF k = m + 1 THEN step ELSE G[k]]
  <1>1. \A k \in 0 .. m : G[k] = IF k = 0 THEN 0 ELSE G[k - 1] + p[k][1] + p[k][2]
    BY DEF Sums
  <1>2. \A k \in 0 .. m : H[k] = G[k]
    <2> HIDE DEF step
    <2>1. \A k \in 0 .. m : k \in 0 .. m + 1 /\ k # m + 1
      OBVIOUS
    <2> QED
      BY <2>1
  <1>3. H[m + 1] = step
    OBVIOUS
  <1>4. ASSUME NEW k \in 0 .. m + 1
        PROVE  H[k] = IF k = 0 THEN 0 ELSE H[k - 1] + p[k][1] + p[k][2]
    <2>1. CASE k = m + 1
      <3>1. k # 0 /\ k - 1 = m /\ m \in 0 .. m
        BY <2>1
      <3>2. H[k - 1] = G[m]
        BY <1>2, <3>1
      <3> HIDE DEF H
      <3> QED
        BY <2>1, <1>3, <3>1, <3>2
    <2>2. CASE k \in 0 .. m
      <3>1. k # 0 => k - 1 \in 0 .. m
        BY <2>2
      <3> HIDE DEF H, step
      <3> QED
        BY <1>1, <1>2, <2>2, <3>1
    <2> QED
      BY <2>1, <2>2
  <1>5. H = [k \in 0 .. m + 1 |-> H[k]]
    OBVIOUS
  <1> HIDE DEF H
  <1>6. Sums(H, p, m + 1)
    BY <1>4, <1>5 DEF Sums
  <1> QED
    BY <1>6

LEMMA SumsExists ==
    ASSUME NEW p
    PROVE  \A m \in Nat : \E G : Sums(G, p, m)
  <1> DEFINE T == {m \in Nat : \E G : Sums(G, p, m)}
  <1>1. 0 \in T
    <2> DEFINE G == [k \in 0 .. 0 |-> 0]
    <2>1. \A k \in 0 .. 0 : k = 0
      OBVIOUS
    <2>2. Sums(G, p, 0)
      BY <2>1 DEF Sums
    <2> QED
      BY <2>2
  <1>2. \A n \in Nat : n \in T => n + 1 \in T
    BY SumsStep
  <1> HIDE DEF T
  <1>3. Nat \subseteq T
    BY <1>1, <1>2, AllNumbers
  <1> QED
    BY <1>3 DEF T

\* A pair adds at most twice 255.
LEMMA PairSumBound ==
    ASSUME NEW p, NEW n \in Nat, \A k \in 1 .. n : p[k] \in Pair
    PROVE  PairSum(p, n) \in Nat /\ PairSum(p, n) <= 510 * n
  <1> DEFINE G == CHOOSE F : Sums(F, p, n)
  <1>1. PairSum(p, n) = G[n]
    BY DEF PairSum, Sums
  <1>2. Sums(G, p, n)
    BY SumsExists
  <1> HIDE DEF G
  <1>3. /\ G[0] = 0
        /\ \A k \in 1 .. n : G[k] = G[k - 1] + p[k][1] + p[k][2]
    <2>1. \A k \in 0 .. n : G[k] = IF k = 0 THEN 0 ELSE G[k - 1] + p[k][1] + p[k][2]
      BY <1>2 DEF Sums
    <2>2. 0 \in 0 .. n /\ \A k \in 1 .. n : k \in 0 .. n /\ k # 0
      OBVIOUS
    <2> QED
      BY <2>1, <2>2
  <1> DEFINE N == {k \in Nat : k <= n => G[k] \in Nat /\ G[k] <= 510 * k}
  <1>4. 0 \in N
    BY <1>3
  <1>5. ASSUME NEW k \in Nat, k \in N PROVE k + 1 \in N
    <2> SUFFICES ASSUME k + 1 <= n PROVE G[k + 1] \in Nat /\ G[k + 1] <= 510 * (k + 1)
      OBVIOUS
    <2>1. k + 1 \in 1 .. n /\ (k + 1) - 1 = k /\ k <= n
      OBVIOUS
    <2>2. G[k] \in Nat /\ G[k] <= 510 * k
      BY <1>5, <2>1
    <2>3. G[k + 1] = G[k] + p[k + 1][1] + p[k + 1][2]
      BY <1>3, <2>1
    <2>4. p[k + 1][1] \in 0 .. 255 /\ p[k + 1][2] \in 0 .. 255
      <3>1. p[k + 1] \in Pair
        BY <2>1
      <3> QED
        BY <3>1 DEF Pair, Byte
    <2> DEFINE g == G[k]
               a == p[k + 1][1]
               b == p[k + 1][2]
    <2>5. G[k + 1] = g + a + b /\ g \in Nat /\ g <= 510 * k /\ a \in 0 .. 255 /\ b \in 0 .. 255
      BY <2>2, <2>3, <2>4
    <2> HIDE DEF g, a, b
    <2>6. 510 * (k + 1) = 510 * k + 510
      OBVIOUS
    <2>7. g + a + b \in Nat /\ g + a + b <= 510 * k + 510
      BY <2>5
    <2> QED
      BY <2>5, <2>6, <2>7
  <1> HIDE DEF N
  <1>6. Nat \subseteq N
    BY <1>4, <1>5, AllNumbers
  <1>7. n \in N /\ n <= n
    BY <1>6
  <1> QED
    BY <1>1, <1>7 DEF N

\* A sum that fits a word arrives as it was sent.
LEMMA WordsArrive ==
    ASSUME NEW w \in Nat
    PROVE  /\ WordPair(w) \in Pair
           /\ w < WordSize => Word(WordPair(w)) = w
  <1>1. \A x \in Nat : x % WordSize \in Nat /\ x % WordSize < WordSize
    BY DEF WordSize
  <1>2. \A x \in Nat : x < WordSize => x \div 256 \in 0 .. 255
    BY DEF WordSize
  <1>3. \A x \in Nat : x % 256 \in 0 .. 255 /\ (x \div 256) * 256 + (x % 256) = x
    OBVIOUS
  <1>4. \A x \in Nat : x < WordSize => x % WordSize = x
    BY DEF WordSize
  <1> DEFINE v == w % WordSize
  <1>5. v \in Nat /\ v < WordSize
    BY <1>1
  <1>6. w < WordSize => v = w
    BY <1>4
  <1> HIDE DEF v
  <1>7. WordPair(w) = <<v \div 256, w % 256>>
    BY DEF WordPair, v
  <1>8. v \div 256 \in Byte /\ w % 256 \in Byte
    BY <1>2, <1>3, <1>5 DEF Byte
  <1>9. WordPair(w) \in Pair
    BY <1>7, <1>8 DEF Pair
  <1>10. ASSUME w < WordSize PROVE Word(WordPair(w)) = w
    <2>1. Word(WordPair(w)) = (w \div 256) * 256 + (w % 256)
      BY <1>6, <1>7, <1>10 DEF Word
    <2> QED
      BY <1>3, <2>1
  <1> QED
    BY <1>9, <1>10

-----------------------------------------------------------------------------
(* The frames of the sender *)

\* The number of frames of a string the sender can be started with.
LEMMA FrameCounts ==
    ASSUME NEW str, str \in {Ssid, Pwd}
    PROVE  FrmCount(Len(str)) \in 2 .. Chunks + 2
  <1>1. Len(str) \in Nat /\ Len(str) <= 2 * Chunks /\ Chunks \in Nat
    BY ConstantsAssumption
  <1>2. (Len(str) + 1) \div 2 \in 0 .. Chunks
    BY <1>1
  <1> QED
    BY <1>1, <1>2 DEF FrmCount

\* The pairs a string is cut into are pairs of bytes.
LEMMA StrPairsArePairs ==
    ASSUME NEW str \in Seq(Byte), NEW i \in 1 .. (Len(str) + 1) \div 2
    PROVE  StrPairs(str)[i] \in Pair
  <1>1. Len(str) \in Nat
    OBVIOUS
  <1>2. 2 * i - 1 \in 1 .. Len(str)
    BY <1>1
  <1>3. 2 * i <= Len(str) => 2 * i \in 1 .. Len(str)
    BY <1>1
  <1>4. str[2 * i - 1] \in Byte
    BY <1>2
  <1>5. 2 * i <= Len(str) => str[2 * i] \in Byte
    BY <1>3
  <1>6. (IF 2 * i > Len(str) THEN 0 ELSE str[2 * i]) \in Byte
    BY <1>1, <1>5 DEF Byte
  <1>7. StrPairs(str)[i] = <<str[2 * i - 1], IF 2 * i > Len(str) THEN 0 ELSE str[2 * i]>>
    BY DEF StrPairs
  <1> QED
    BY <1>4, <1>6, <1>7 DEF Pair

\* The sum of a message of at most 16 pairs fits a word.
LEMMA MessageSum ==
    ASSUME NEW n \in 0 .. 16, NEW p, \A k \in 1 .. n : p[k] \in Pair
    PROVE  LET w == MAGIC + (n + 2) + PairSum(p, n)
           IN  w \in Nat /\ WordPair(w) \in Pair /\ Word(WordPair(w)) = w
  <1> DEFINE w == MAGIC + (n + 2) + PairSum(p, n)
  <1>1. PairSum(p, n) \in Nat /\ PairSum(p, n) <= 510 * n
    BY PairSumBound
  <1>2. w \in Nat /\ w < 9000
    BY <1>1 DEF MAGIC
  <1>3. \A x \in Nat : x < 9000 => x < WordSize
    BY DEF WordSize
  <1> HIDE DEF w
  <1>4. WordPair(w) \in Pair /\ Word(WordPair(w)) = w
    BY <1>2, <1>3, WordsArrive
  <1> QED
    BY <1>2, <1>4 DEF w

\* A message of the sender is made of frames, the last of which carries the
\* sum.
LEMMA MsgFrameIsFrame ==
    ASSUME NEW type \in 0 .. 3, NEW n \in 0 .. 16, NEW i \in 0 .. n + 1, NEW p,
           \A k \in 1 .. n : p[k] \in Pair
    PROVE  /\ MsgFrame(type, p, n, i) \in Frame
           /\ i = n + 1 => Word(FrmData(MsgFrame(type, p, n, i))) = MAGIC + (n + 2) + PairSum(p, n)
  <1> DEFINE w == MAGIC + (n + 2) + PairSum(p, n)
             d == IF i = 0 THEN <<MAGIC, n + 2>> ELSE IF i = n + 1 THEN WordPair(w) ELSE p[i]
  <1>1. WordPair(w) \in Pair /\ Word(WordPair(w)) = w
    BY MessageSum
  <1> HIDE DEF w
  <1>2. d \in Pair
    <2>1. CASE i = 0
      BY <2>1 DEF Pair, Byte, MAGIC
    <2>2. CASE i = n + 1 /\ i # 0
      BY <1>1, <2>2
    <2>3. CASE i # 0 /\ i # n + 1
      <3>1. i \in 1 .. n
        BY <2>3
      <3> QED
        BY <2>3, <3>1
    <2> QED
      BY <2>1, <2>2, <2>3
  <1>3. MsgFrame(type, p, n, i) = MakeSendFrm(type, i, d)
    BY DEF MsgFrame, w
  <1>4. i = n + 1 => d = WordPair(w)
    OBVIOUS
  <1> HIDE DEF d
  <1>5. d[1] \in Byte /\ d[2] \in Byte
    BY <1>2 DEF Pair
  <1>6. (type * 32 + i) % 128 \in 0 .. 127
    OBVIOUS
  <1>7. MakeSendFrm(type, i, d) \in Frame
    BY <1>5, <1>6 DEF MakeSendFrm, Frame
  <1>8. ASSUME i = n + 1 PROVE Word(FrmData(MsgFrame(type, p, n, i))) = w
    <2>1. FrmData(MakeSendFrm(type, i, d)) = <<d[1], d[2]>>
      BY DEF FrmData, MakeSendFrm
    <2>2. Word(<<d[1], d[2]>>) = Word(d)
      BY DEF Word
    <2> QED
      BY <1>1, <1>3, <1>4, <1>8, <2>1, <2>2
  <1> QED
    BY <1>3, <1>7, <1>8 DEF w

\* The pairs of a string of the sender.
LEMMA CredPairs ==
    ASSUME NEW str \in {Ssid, Pwd}
    PROVE  LET n == FrmCount(Len(str)) - 2
           IN  /\ n \in 0 .. 16 /\ n = (Len(str) + 1) \div 2
               /\ \A k \in 1 .. n : StrPairs(str)[k] \in Pair
  <1>1. str \in Seq(Byte) /\ Len(str) \in Nat
    BY ConstantsAssumption
  <1>2. FrmCount(Len(str)) \in 2 .. Chunks + 2 /\ Chunks \in 1 .. 16
    <2>1. FrmCount(Len(str)) \in 2 .. Chunks + 2
      BY FrameCounts
    <2>2. Chunks \in 1 .. 16
      BY ConstantsAssumption
    <2> QED
      BY <2>1, <2>2
  <1>3. FrmCount(Len(str)) - 2 = (Len(str) + 1) \div 2
    BY <1>1 DEF FrmCount
  <1>4. FrmCount(Len(str)) - 2 \in 0 .. 16
    <2>1. \A n \in 2 .. Chunks + 2 : n - 2 \in 0 .. 16
      BY <1>2
    <2> QED
      BY <1>2, <2>1
  <1> QED
    BY <1>1, <1>3, <1>4, StrPairsArePairs

\* Every frame the sender builds is a frame on the air: its data are bytes.
LEMMA FramesAreFrames == AllFrames \subseteq Frame
  <1> USE DEF TYPE_CHANNEL, TYPE_SSID, TYPE_PSWD, TYPE_REIP
  <1>1. ChannelFrame \in Frame
    BY DEF ChannelFrame, MakeSendFrm, Frame, Byte
  <1>2. ASSUME NEW i \in 0 .. 4 PROVE ReipFrame(Reip, i) \in Frame
    <2>1. 3 \in 0 .. 3 /\ 3 \in 0 .. 16 /\ i \in 0 .. 3 + 1 /\ \A k \in 1 .. 3 : Reip[k] \in Pair
      BY ConstantsAssumption
    <2> QED
      BY <2>1, MsgFrameIsFrame DEF ReipFrame
  <1>3. ASSUME NEW type \in 1 .. 2, NEW str \in {Ssid, Pwd}, NEW i \in 0 .. FrmCount(Len(str)) - 1
        PROVE  CredFrame(type, str, i) \in Frame
    <2> DEFINE n == FrmCount(Len(str)) - 2
    <2>1. n \in 0 .. 16 /\ \A k \in 1 .. n : StrPairs(str)[k] \in Pair
      BY CredPairs
    <2>2. FrmCount(Len(str)) \in 2 .. Chunks + 2 /\ Chunks \in Nat
      BY FrameCounts, ConstantsAssumption
    <2>3. i \in 0 .. n + 1 /\ type \in 0 .. 3
      BY <2>2
    <2>4. CredFrame(type, str, i) = MsgFrame(type, StrPairs(str), n, i)
      BY DEF CredFrame
    <2> HIDE DEF n
    <2> QED
      BY <2>1, <2>3, <2>4, MsgFrameIsFrame
  <1>4. SenderFrames \subseteq Frame
    BY <1>1, <1>2, <1>3 DEF SenderFrames
  <1> QED
    BY <1>4, ConstantsAssumption DEF AllFrames

\* Frames of the two string types, whoever sends them.
LEMMA StringFrames ==
    ASSUME NEW f \in AllFrames, FrmType(f) \in CredTypes
    PROVE  /\ FrmIndex(f) \in 0 .. Chunks + 1
           /\ FrmIndex(f) = 0 => f.a4 = MAGIC /\ f.a5 \in 2 .. Chunks + 2
  <1> USE DEF TYPE_CHANNEL, TYPE_SSID, TYPE_PSWD, TYPE_REIP, CredTypes
  <1>0. Chunks \in 1 .. 16
    BY ConstantsAssumption
  <1>1. CASE f \in Noise
    <2>1. FrmIndex(f) \in 0 .. 31
      BY FramesAreFrames, FrameParts
    <2>2. FrmIndex(f) <= Chunks + 1
      BY <1>1, ConstantsAssumption
    <2>3. FrmIndex(f) = 0 => f.a4 = MAGIC /\ f.a5 \in 2 .. Chunks + 2
      BY <1>1, ConstantsAssumption
    <2>4. FrmIndex(f) \in 0 .. Chunks + 1
      BY <1>0, <2>1, <2>2
    <2> QED
      BY <2>3, <2>4
  <1>2. ASSUME NEW type \in CredTypes, NEW str \in {Ssid, Pwd},
               NEW i \in 0 .. FrmCount(Len(str)) - 1,
               f = CredFrame(type, str, i)
        PROVE  FrmIndex(f) = i /\ (i = 0 => f.a4 = MAGIC /\ f.a5 = FrmCount(Len(str)))
    <2>1. i \in 0 .. 31 /\ FrmCount(Len(str)) \in Nat
      BY <1>0, FrameCounts
    <2>2. FrmIndex(f) = i
      BY <1>2, <2>1, MsgFrameParts DEF CredFrame
    <2>3. ASSUME i = 0 PROVE f.a4 = MAGIC /\ f.a5 = FrmCount(Len(str))
      BY <1>2, <2>1, <2>3 DEF CredFrame, MsgFrame, MakeSendFrm
    <2> QED
      BY <2>2, <2>3
  <1>3. FrmType(ChannelFrame) = 0
    <2>1. 0 \in 0 .. 3 /\ 0 \in 0 .. 31
      OBVIOUS
    <2> QED
      BY <2>1, Unpack, Zenon DEF ChannelFrame
  <1>4. \A i \in 0 .. 4 : FrmType(ReipFrame(Reip, i)) = 3
    BY MsgFrameParts DEF ReipFrame
  <1>5. CASE f \notin Noise
    <2>0. PICK type \in CredTypes, str \in {Ssid, Pwd} :
               \E i \in 0 .. FrmCount(Len(str)) - 1 : f = CredFrame(type, str, i)
      BY <1>3, <1>4, <1>5 DEF AllFrames, SenderFrames
    <2>1. PICK i \in 0 .. FrmCount(Len(str)) - 1 : f = CredFrame(type, str, i)
      BY <2>0
    <2>2. FrmIndex(f) = i /\ (i = 0 => f.a4 = MAGIC /\ f.a5 = FrmCount(Len(str)))
      BY <1>2, <2>1
    <2>3. FrmCount(Len(str)) \in 2 .. Chunks + 2
      BY FrameCounts
    <2>4. i \in 0 .. Chunks + 1
      BY <1>0, <2>3
    <2> QED
      BY <2>2, <2>3, <2>4
  <1> QED
    BY <1>1, <1>5

-----------------------------------------------------------------------------
(***************************************************************************)
(* What a call can bring: nothing new, the channel, the address, or one of *)
(* the two strings.  Notify then tells at most one kind, and FlagInv is    *)
(* why it is the kind that is new.                                         *)
(***************************************************************************)
Nothing(ip, channel) ==
    /\ ip = iRecIp /\ channel = iRecChannel
    /\ uRecOK' = uRecOK

NewChannel(ip, channel) ==
    /\ ip = iRecIp /\ channel = 1
    /\ TYPE_CHANNEL \notin uRecOK
    /\ uRecOK' = uRecOK \cup {TYPE_CHANNEL} /\ uLinkType' = NET_LINK_CHANNEL

NewReip(ip, channel) ==
    /\ ip = 1 /\ channel = iRecChannel
    /\ TYPE_REIP \notin uRecOK
    /\ uRecOK' = uRecOK \cup {TYPE_REIP} /\ uLinkType' = NET_LINK_REIPPORT

NewString(type, ip, channel) ==
    /\ ip = iRecIp /\ channel = iRecChannel
    /\ type \in CredTypes /\ type \notin uRecOK
    /\ uRecOK' = uRecOK \cup {type} /\ uLinkType' = NET_LINK_SSIDPWD

Tells(kind) == told' = Append(told, Snapshot') /\ uLinkType' = kind

(* The effect of the tail of STA_MonPktSend in each case. *)
Outcome ==
    \/ /\ uRecOK' = uRecOK
       /\ UNCHANGED notifyVars
    \/ /\ TYPE_CHANNEL \notin uRecOK /\ uRecOK' = uRecOK \cup {TYPE_CHANNEL}
       /\ iRecChannel' = 2 /\ UNCHANGED <<iRecIp, iRecSsidPwd>>
       /\ Tells(NET_LINK_CHANNEL)
    \/ /\ TYPE_REIP \notin uRecOK /\ uRecOK' = uRecOK \cup {TYPE_REIP}
       /\ iRecIp' = 2 /\ UNCHANGED <<iRecChannel, iRecSsidPwd>>
       /\ Tells(NET_LINK_REIPPORT)
    \/ \E type \in CredTypes :
       /\ type \notin uRecOK /\ uRecOK' = uRecOK \cup {type}
       /\ UNCHANGED <<iRecIp, iRecChannel>>
       /\ \/ /\ BothStrings(uRecOK')
             /\ iRecSsidPwd' = 2 /\ Tells(NET_LINK_SSIDPWD)
          \/ /\ ~BothStrings(uRecOK')
             /\ UNCHANGED <<iRecSsidPwd, told>>

LEMMA NotifyOutcome ==
    ASSUME NEW ip, NEW channel, Notify(ip, channel), iRecOk = 0,
           RxTypeOK, FlagInv,
           \/ Nothing(ip, channel) \/ NewChannel(ip, channel)
           \/ NewReip(ip, channel)
           \/ \E type \in CredTypes : NewString(type, ip, channel)
    PROVE  /\ Outcome
           /\ iRecOk' = IF AllTold(iRecChannel', iRecSsidPwd', iRecIp')
                        THEN 1 ELSE 0
  <1>0. /\ iRecChannel \in {0, 2} /\ iRecIp \in {0, 2} /\ iRecSsidPwd \in {0, 2}
        /\ iRecOk' = IF AllTold(iRecChannel', iRecSsidPwd', iRecIp')
                     THEN 1 ELSE 0
    BY DEF RxTypeOK, Notify
  <1>1. CASE Nothing(ip, channel)
    <2>1. /\ iRecChannel' = iRecChannel /\ iRecIp' = iRecIp
          /\ iRecSsidPwd' = iRecSsidPwd /\ told' = told
      BY <1>0, <1>1 DEF Nothing, Notify, FlagInv
    <2>2. iRecOk' = iRecOk
      BY <1>0, <2>1 DEF FlagInv
    <2> QED
      BY <1>0, <1>1, <2>1, <2>2 DEF Outcome, Nothing, notifyVars
  <1>2. CASE NewChannel(ip, channel)
    <2>1. BothStrings(uRecOK') <=> BothStrings(uRecOK)
      BY <1>2 DEF NewChannel, BothStrings, CredTypes, TYPE_CHANNEL, TYPE_SSID, TYPE_PSWD
    <2> QED
      BY <1>0, <1>2, <2>1 DEF NewChannel, Notify, FlagInv, Outcome, Tells
  <1>3. CASE NewReip(ip, channel)
    <2>1. BothStrings(uRecOK') <=> BothStrings(uRecOK)
      BY <1>3 DEF NewReip, BothStrings, CredTypes, TYPE_REIP, TYPE_SSID, TYPE_PSWD
    <2> QED
      BY <1>0, <1>3, <2>1 DEF NewReip, Notify, FlagInv, Outcome, Tells
  <1>4. ASSUME NEW type \in CredTypes, NewString(type, ip, channel) PROVE Outcome
    <2>1. iRecSsidPwd = 0
      BY <1>0, <1>4 DEF NewString, FlagInv, BothStrings
    <2>2. CASE BothStrings(uRecOK')
      BY <1>0, <1>4, <2>1, <2>2 DEF NewString, Notify, Outcome, Tells
    <2>3. CASE ~BothStrings(uRecOK')
      BY <1>0, <1>4, <2>1, <2>3 DEF NewString, Notify, Outcome
    <2> QED
      BY <2>2, <2>3
  <1> QED
    BY <1>0, <1>1, <1>2, <1>3, <1>4

LEMMA CallOutcome ==
    ASSUME RxTypeOK, FlagInv, NEW f \in AllFrames, NEW radio \in Channels,
           STA_MonPktSend(f, radio)
    PROVE  /\ Outcome
           /\ iRecOk' \in {0, 1}
           /\ iRecOk' = 1 <=> AllTold(iRecChannel', iRecSsidPwd', iRecIp')
  <1>0. iRecOk \in {0, 1}
    BY DEF RxTypeOK
  <1>1. CASE RecvChannel(f, radio)
    <2>1. iRecOk = 0 /\ TYPE_CHANNEL \notin uRecOK
      BY <1>0, <1>1 DEF RecvChannel, Ignored
    <2>2. PICK channel : /\ Notify(iRecIp, channel)
                         /\ \/ Nothing(iRecIp, channel)
                            \/ NewChannel(iRecIp, channel)
      BY <1>1, <2>1 DEF RecvChannel, Nothing, NewChannel
    <2> QED
      BY <2>1, <2>2, NotifyOutcome
  <1>2. CASE RecvReip(f)
    <2>1. iRecOk = 0 /\ TYPE_REIP \notin uRecOK
      BY <1>0, <1>2 DEF RecvReip, Ignored
    <2>2. PICK ip : /\ Notify(ip, iRecChannel)
                    /\ Nothing(ip, iRecChannel) \/ NewReip(ip, iRecChannel)
      BY <1>2, <2>1 DEF RecvReip, Nothing, NewReip
    <2> QED
      BY <2>1, <2>2, NotifyOutcome
  <1>3. ASSUME NEW type \in CredTypes, RecvCred(type, f)
        PROVE  /\ iRecOk = 0 /\ Notify(iRecIp, iRecChannel)
               /\ \/ Nothing(iRecIp, iRecChannel)
                  \/ NewString(type, iRecIp, iRecChannel)
    <2>1. iRecOk = 0 /\ type \notin uRecOK
      BY <1>0, <1>3 DEF RecvCred, Ignored
    <2> QED
      BY <1>3, <2>1 DEF RecvCred, Nothing, NewString
  <1>4. ASSUME NEW type \in CredTypes, RecvCred(type, f)
        PROVE  /\ Outcome
               /\ iRecOk' = IF AllTold(iRecChannel', iRecSsidPwd', iRecIp')
                            THEN 1 ELSE 0
    BY <1>3, <1>4, NotifyOutcome
  <1>5. CASE UNCHANGED rxVars
    BY <1>0, <1>5 DEF rxVars, decodeVars, notifyVars, Outcome, FlagInv, AllTold
  <1> QED
    BY <1>1, <1>2, <1>4, <1>5 DEF STA_MonPktSend, CredTypes

LEMMA FlagStep ==
    ASSUME RxTypeOK, FlagInv, Outcome,
           iRecOk' = 1 <=> AllTold(iRecChannel', iRecSsidPwd', iRecIp')
    PROVE  FlagInv' /\ iRecChannel' \in {0, 2} /\ iRecIp' \in {0, 2}
           /\ iRecSsidPwd' \in {0, 2} /\ uRecOK' \in SUBSET (0 .. 3)
           /\ uRecOK \subseteq uRecOK'
  <1> USE DEF TYPE_CHANNEL, TYPE_SSID, TYPE_PSWD, TYPE_REIP, CredTypes, BothStrings
  <1>0. \/ uRecOK' = uRecOK
        \/ \E type \in 0 .. 3 : uRecOK' = uRecOK \cup {type}
    BY DEF Outcome
  <1>1. uRecOK' \in SUBSET (0 .. 3) /\ uRecOK \subseteq uRecOK'
    BY <1>0 DEF RxTypeOK
  <1>2. iRecChannel' \in {0, 2} /\ (iRecChannel' = 2 <=> TYPE_CHANNEL \in uRecOK')
    BY DEF Outcome, RxTypeOK, FlagInv, notifyVars
  <1>3. iRecIp' \in {0, 2} /\ (iRecIp' = 2 <=> TYPE_REIP \in uRecOK')
    BY DEF Outcome, RxTypeOK, FlagInv, notifyVars
  <1>4. iRecSsidPwd' \in {0, 2} /\ (iRecSsidPwd' = 2 <=> BothStrings(uRecOK'))
    BY DEF Outcome, RxTypeOK, FlagInv, notifyVars
  <1> QED
    BY <1>1, <1>2, <1>3, <1>4 DEF FlagInv

-----------------------------------------------------------------------------
(* Type correctness *)

\* The part of the type invariant that the decoding is responsible for.
DecodeTypeOK ==
    /\ uLen \in [CredTypes -> 0 .. Chunks + 2]
    /\ uChannel \in Channels \cup {0}
    /\ uLinkType \in 0 .. 3
    /\ uReip \in [1 .. 3 -> Pair]
    /\ buf \in [BufCells -> Pair]
    /\ uRecMask \in [MsgTypes -> SUBSET (0 .. 31)]
    /\ uCrc \in [MsgTypes -> Nat]

LEMMA OrIsByte == \A x, y \in Byte : Or(x, y) \in Byte
  <1> TAKE x, y \in Byte
  <1>1. \A w \in Nat : Bit(x, y, w) \in {0, w}
    BY DEF Bit
  <1>2. /\ Bit(x, y, 128) \in {0, 128} /\ Bit(x, y, 64) \in {0, 64}
        /\ Bit(x, y, 32) \in {0, 32} /\ Bit(x, y, 16) \in {0, 16}
        /\ Bit(x, y, 8) \in {0, 8} /\ Bit(x, y, 4) \in {0, 4}
        /\ Bit(x, y, 2) \in {0, 2} /\ Bit(x, y, 1) \in {0, 1}
    BY <1>1
  <1> QED
    BY <1>2 DEF Or, Byte

LEMMA OrPairIsPair == \A p, q \in Pair : OrPair(p, q) \in Pair
  BY OrIsByte DEF OrPair, Pair

\* Where a pair of a string lies, and that every store stays inside buf.
LEMMA Cells ==
    ASSUME NEW type \in CredTypes
    PROVE  \A k \in 1 .. Chunks + 1 : Cell(type, k) \in BufCells
  BY ConstantsAssumption DEF Cell, BufCells

LEMMA ChannelTypes ==
    ASSUME DecodeTypeOK, NEW f \in AllFrames, NEW radio \in Channels,
           RecvChannel(f, radio)
    PROVE  DecodeTypeOK'
  BY DEF DecodeTypeOK, RecvChannel, NET_LINK_CHANNEL

LEMMA ReipTypes ==
    ASSUME DecodeTypeOK, NEW f \in AllFrames, RecvReip(f)
    PROVE  DecodeTypeOK'
  <1>1. FrmData(f) \in Pair /\ Word(FrmData(f)) \in Nat /\ FrmIndex(f) \in 0 .. 31
    BY FrameParts, FramesAreFrames
  <1>2. Zero \in Pair
    BY DEF Zero, Pair, Byte
  <1>3. uReip' \in [1 .. 3 -> Pair]
    BY <1>1, <1>2, OrPairIsPair DEF RecvReip, DecodeTypeOK
  <1>4. uRecMask' \in [MsgTypes -> SUBSET (0 .. 31)]
    BY <1>1 DEF RecvReip, DecodeTypeOK, MsgTypes
  <1>5. uCrc' \in [MsgTypes -> Nat]
    BY <1>1 DEF RecvReip, DecodeTypeOK, MsgTypes
  <1>6. uLinkType' \in 0 .. 3
    BY DEF RecvReip, DecodeTypeOK, NET_LINK_REIPPORT
  <1>7. UNCHANGED <<uLen, uChannel, buf>>
    BY DEF RecvReip
  <1> QED
    BY <1>3, <1>4, <1>5, <1>6, <1>7 DEF DecodeTypeOK

LEMMA CredTypesOK ==
    ASSUME DecodeTypeOK, NEW f \in AllFrames, NEW type \in CredTypes,
           RecvCred(type, f)
    PROVE  DecodeTypeOK'
  <1>0. FrmType(f) = type
    BY DEF RecvCred
  <1>1. FrmData(f) \in Pair /\ Word(FrmData(f)) \in Nat /\ FrmIndex(f) \in 0 .. 31
    BY FrameParts, FramesAreFrames
  <1>2. Zero \in Pair
    BY DEF Zero, Pair, Byte
  <1>3. uLen' \in [CredTypes -> 0 .. Chunks + 2]
    <2>1. FrmIndex(f) = 0 => f.a5 \in 0 .. Chunks + 2
      BY <1>0, StringFrames, ConstantsAssumption
    <2> QED
      BY <2>1 DEF RecvCred, DecodeTypeOK
  <1>4. uRecMask' \in [MsgTypes -> SUBSET (0 .. 31)]
    BY <1>1 DEF RecvCred, DecodeTypeOK, MsgTypes
  <1>5. uCrc' \in [MsgTypes -> Nat]
    BY <1>1 DEF RecvCred, DecodeTypeOK, MsgTypes
  <1>6. buf' \in [BufCells -> Pair]
    BY <1>1, <1>2 DEF RecvCred, DecodeTypeOK, Erased
  <1>7. uLinkType' \in 0 .. 3 /\ UNCHANGED <<uChannel, uReip>>
    BY DEF RecvCred, DecodeTypeOK, NET_LINK_SSIDPWD
  <1> QED
    BY <1>3, <1>4, <1>5, <1>6, <1>7 DEF DecodeTypeOK

LEMMA SnapshotIsMessage ==
    ASSUME DecodeTypeOK', uLinkType' \in 1 .. 3
    PROVE  Snapshot' \in Message
  <1>1. \A k \in 1 .. Chunks : buf'[k] \in Pair /\ buf'[Chunks + k] \in Pair
    BY ConstantsAssumption DEF DecodeTypeOK, BufCells
  <1> QED
    BY <1>1 DEF Snapshot, Message, DecodeTypeOK

TypeInv == RxTypeOK /\ FlagInv

LEMMA TypeInit == RxInit => TypeInv
  <1> SUFFICES ASSUME RxInit PROVE TypeInv
    OBVIOUS
  <1>1. Zero \in Pair
    BY DEF Zero, Pair, Byte
  <1>2. RxTypeOK
    BY <1>1, ConstantsAssumption DEF RxInit, RxTypeOK
  <1>3. FlagInv
    BY DEF RxInit, FlagInv, BothStrings, AllTold, CredTypes
  <1> QED
    BY <1>2, <1>3 DEF TypeInv

LEMMA TypeStep == TypeInv /\ [RxNext]_rxVars => TypeInv'
  <1> SUFFICES ASSUME TypeInv, [RxNext]_rxVars PROVE TypeInv'
    OBVIOUS
  <1> USE DEF TypeInv
  <1>1. CASE UNCHANGED rxVars
    BY <1>1 DEF rxVars, decodeVars, notifyVars, RxTypeOK, FlagInv, Message
  <1>2. ASSUME NEW f \in AllFrames, NEW radio \in Channels,
               STA_MonPktSend(f, radio)
        PROVE  TypeInv'
    <2>1. /\ Outcome /\ iRecOk' \in {0, 1}
          /\ iRecOk' = 1 <=> AllTold(iRecChannel', iRecSsidPwd', iRecIp')
      BY <1>2, CallOutcome
    <2>2. /\ FlagInv' /\ iRecChannel' \in {0, 2} /\ iRecIp' \in {0, 2}
          /\ iRecSsidPwd' \in {0, 2} /\ uRecOK' \in SUBSET (0 .. 3)
      BY <2>1, FlagStep
    <2>3. DecodeTypeOK
      BY DEF RxTypeOK, DecodeTypeOK
    <2>4. DecodeTypeOK'
      <3>1. CASE UNCHANGED rxVars
        BY <2>3, <3>1 DEF rxVars, decodeVars, DecodeTypeOK
      <3> QED
        BY <1>2, <2>3, <3>1, ChannelTypes, ReipTypes, CredTypesOK
           DEF STA_MonPktSend, CredTypes
    <2>5. told' \in Seq(Message)
      <3>1. told' = told \/ (told' = Append(told, Snapshot') /\ uLinkType' \in 1 .. 3)
        BY <2>1 DEF Outcome, Tells, notifyVars,
                    NET_LINK_CHANNEL, NET_LINK_SSIDPWD, NET_LINK_REIPPORT
      <3>2. told \in Seq(Message)
        BY DEF RxTypeOK
      <3> QED
        BY <2>4, <3>1, <3>2, SnapshotIsMessage
    <2>6. RxTypeOK'
      BY <2>1, <2>2, <2>4, <2>5 DEF RxTypeOK, DecodeTypeOK
    <2> QED
      BY <2>2, <2>6
  <1> QED
    BY <1>1, <1>2 DEF RxNext, AllFrames

(***************************************************************************)
(* Type correctness of the driver, with any other stations on the air: in  *)
(* particular no call returns with a notification pending (a flag at 1),   *)
(* so the early returns of STA_MonPktSend never strand one.                *)
(***************************************************************************)
THEOREM TypeCorrect == RxSpec => []RxTypeOK
  <1>1. RxSpec => []TypeInv
    BY TypeInit, TypeStep, PTL DEF RxSpec
  <1>2. TypeInv => RxTypeOK
    BY DEF TypeInv
  <1> QED
    BY <1>1, <1>2, PTL

-----------------------------------------------------------------------------
(* Every kind is told when it is decoded, and once *)

LEMMA KindsStep ==
    ASSUME RxTypeOK, NEW kind, Tells(kind)
    PROVE  Kinds' = Kinds \cup {kind}
  <1>1. told \in Seq(Message)
    BY DEF RxTypeOK
  <1>2. Snapshot'.uLinkType = kind
    BY DEF Tells, Snapshot
  <1>3. /\ Len(told') = Len(told) + 1
        /\ told'[Len(told) + 1] = Snapshot'
        /\ \A i \in 1 .. Len(told) : told'[i] = told[i]
    BY <1>1 DEF Tells
  <1>4. Len(told) \in Nat
    BY <1>1
  <1> QED
    BY <1>2, <1>3, <1>4 DEF Kinds

LEMMA ToldStep ==
    ASSUME TypeInv, ToldInv, Outcome
    PROVE  ToldInv'
  <1> USE DEF NET_LINK_CHANNEL, NET_LINK_SSIDPWD, NET_LINK_REIPPORT
  <1>1. ASSUME told' = told PROVE Kinds' = Kinds
    BY <1>1 DEF Kinds
  <1>2. \A kind : Tells(kind) => Kinds' = Kinds \cup {kind}
    BY KindsStep DEF TypeInv
  <1>3. iRecChannel' = 2 <=> NET_LINK_CHANNEL \in Kinds'
    BY <1>1, <1>2 DEF ToldInv, Outcome, notifyVars
  <1>4. iRecIp' = 2 <=> NET_LINK_REIPPORT \in Kinds'
    BY <1>1, <1>2 DEF ToldInv, Outcome, notifyVars
  <1>5. iRecSsidPwd' = 2 <=> NET_LINK_SSIDPWD \in Kinds'
    BY <1>1, <1>2 DEF ToldInv, Outcome, notifyVars
  <1> QED
    BY <1>3, <1>4, <1>5 DEF ToldInv

LEMMA ToldInit == RxInit => ToldInv
  BY DEF RxInit, ToldInv, Kinds

LEMMA ToldPreserved == TypeInv /\ ToldInv /\ [RxNext]_rxVars => ToldInv'
  <1> SUFFICES ASSUME TypeInv, ToldInv, [RxNext]_rxVars PROVE ToldInv'
    OBVIOUS
  <1>1. CASE UNCHANGED rxVars
    BY <1>1 DEF rxVars, notifyVars, ToldInv, Kinds
  <1>2. CASE RxNext
    BY <1>2, CallOutcome, ToldStep DEF RxNext, AllFrames, TypeInv
  <1> QED
    BY <1>1, <1>2

(***************************************************************************)
(* Whatever is on the air, nothing that was decoded is left without its    *)
(* netlink message, and the driver goes deaf (iRecOk) exactly when all     *)
(* three kinds of message are out.                                         *)
(***************************************************************************)
THEOREM NothingIsLeftUntold == RxSpec => []DecodedIsTold
  <1>1. TypeInv /\ ToldInv => DecodedIsTold
    <2> SUFFICES ASSUME TypeInv, ToldInv PROVE DecodedIsTold
      OBVIOUS
    <2>1. told \in Seq(Message)
      BY DEF TypeInv, RxTypeOK
    <2>2. \A i \in 1 .. Len(told) : told[i].uLinkType \in 1 .. 3
      <3> TAKE i \in 1 .. Len(told)
      <3>1. told[i] \in Message
        BY <2>1
      <3> QED
        BY <3>1 DEF Message
    <2>3. Kinds \subseteq 1 .. 3
      BY <2>2 DEF Kinds
    <2>4. iRecOk = 1 <=> 1 \in Kinds /\ 2 \in Kinds /\ 3 \in Kinds
      BY DEF TypeInv, FlagInv, ToldInv, AllTold,
             NET_LINK_CHANNEL, NET_LINK_SSIDPWD, NET_LINK_REIPPORT
    <2>5. iRecOk = 1 <=> Kinds = 1 .. 3
      <3>1. 1 .. 3 = {1, 2, 3}
        OBVIOUS
      <3>2. Kinds \subseteq {1, 2, 3}
        BY <2>3, <3>1
      <3> QED
        BY <2>4, <3>1, <3>2, Zenon
    <2> QED
      BY <2>5, Zenon DEF TypeInv, FlagInv, ToldInv, DecodedIsTold, BothStrings
  <1> QED
    BY <1>1, ToldInit, ToldPreserved, TypeInit, TypeStep, PTL DEF RxSpec

-----------------------------------------------------------------------------
(* What is accepted is what was sent *)

LEMMA OrFacts == \A x \in Byte : Or(0, x) = x /\ Or(x, x) = x
  <1> TAKE x \in Byte
  <1> DEFINE b(w) == IF (x \div w) % 2 = 1 THEN w ELSE 0
  <1>1. \A w \in {1, 2, 4, 8, 16, 32, 64, 128} :
            (0 \div w) % 2 = 0
    OBVIOUS
  <1>2. \A w \in {1, 2, 4, 8, 16, 32, 64, 128} :
            Bit(0, x, w) = b(w) /\ Bit(x, x, w) = b(w)
    BY <1>1 DEF Bit
  <1>3. x = b(128) + b(64) + b(32) + b(16) + b(8) + b(4) + b(2) + b(1)
    BY DEF Byte
  <1> HIDE DEF b
  <1> QED
    BY <1>2, <1>3 DEF Or

LEMMA OrPairFacts ==
    ASSUME NEW p \in Pair
    PROVE  OrPair(Zero, p) = p /\ OrPair(p, p) = p
  BY OrFacts DEF OrPair, Zero, Pair

LEMMA MsgFrameData ==
    ASSUME NEW type \in 0 .. 3, NEW n \in Nat, NEW i \in 0 .. 31, NEW p
    PROVE  /\ i = 0 => /\ MsgFrame(type, p, n, i).a4 = MAGIC
                       /\ MsgFrame(type, p, n, i).a5 = n + 2
           /\ i \in 1 .. n /\ p[i] \in Pair => FrmData(MsgFrame(type, p, n, i)) = p[i]
  <1>1. ASSUME i = 0
        PROVE  /\ MsgFrame(type, p, n, i).a4 = MAGIC
               /\ MsgFrame(type, p, n, i).a5 = n + 2
    BY <1>1 DEF MsgFrame, MakeSendFrm
  <1>2. ASSUME i \in 1 .. n, p[i] \in Pair
        PROVE  FrmData(MsgFrame(type, p, n, i)) = p[i]
    <2>1. MsgFrame(type, p, n, i) = MakeSendFrm(type, i, p[i])
      BY <1>2 DEF MsgFrame
    <2>2. FrmData(MakeSendFrm(type, i, p[i])) = <<p[i][1], p[i][2]>>
      BY Unpack
    <2> QED
      BY <1>2, <2>1, <2>2 DEF Pair
  <1> QED
    BY <1>1, <1>2

\* The checksum in the last frame of a string.
SentSum(type) ==
    LET n == FrmCount(Len(Str(type)))
    IN  MAGIC + n + PairSum(StrPairs(Str(type)), n - 2)

\* Nobody else sends frames of a string, or the five frames of an address.
OwnString(type) == \A f \in Noise : FrmType(f) # type

OwnReip == \A f \in Noise : FrmType(f) = TYPE_REIP => FrmIndex(f) > 4

LEMMA QuietIsOwn ==
    ASSUME Quiet
    PROVE  OwnReip /\ \A type \in CredTypes : OwnString(type)
  BY DEF Quiet, OwnReip, OwnString, CredTypes, TYPE_CHANNEL, TYPE_SSID, TYPE_PSWD, TYPE_REIP

\* The frames of a string, when nobody else sends frames of its type.
LEMMA OwnStringFrames ==
    ASSUME NEW type \in CredTypes, OwnString(type), NEW f \in AllFrames, FrmType(f) = type
    PROVE  LET n == FrmCount(Len(Str(type)))
               i == FrmIndex(f)
           IN  /\ n \in 2 .. Chunks + 2 /\ i \in 0 .. n - 1
               /\ i = 0 => f.a4 = MAGIC /\ f.a5 = n
               /\ i \in 1 .. n - 2 => FrmData(f) = StrPairs(Str(type))[i]
               /\ i = n - 1 => Word(FrmData(f)) = SentSum(type)
  <1> DEFINE n == FrmCount(Len(Str(type)))
  <1> USE DEF TYPE_CHANNEL, TYPE_SSID, TYPE_PSWD, TYPE_REIP, CredTypes
  <1>0. Chunks \in 1 .. 16
    BY ConstantsAssumption
  <1>1. n \in 2 .. Chunks + 2 /\ n = (Len(Str(type)) + 1) \div 2 + 2
    <2>1. Str(type) \in {Ssid, Pwd}
      BY DEF Str
    <2> QED
      BY <2>1, FrameCounts DEF FrmCount
  <1>2. PICK i \in 0 .. n - 1 : f = CredFrame(type, Str(type), i)
    <2>1. f \notin Noise
      BY DEF OwnString
    <2>2. FrmType(ChannelFrame) = 0
      <3>1. 0 \in 0 .. 3 /\ 0 \in 0 .. 31
        OBVIOUS
      <3> QED
        BY <3>1, Unpack, Zenon DEF ChannelFrame
    <2>3. \A i \in 0 .. 4 : FrmType(ReipFrame(Reip, i)) = 3
      BY MsgFrameParts DEF ReipFrame
    <2>4. \A t \in CredTypes, i \in 0 .. 31, str \in {Ssid, Pwd} :
              FrmType(CredFrame(t, str, i)) = t
      BY MsgFrameParts DEF CredFrame
    <2>5. FrmCount(Len(Ssid)) \in 2 .. Chunks + 2 /\ FrmCount(Len(Pwd)) \in 2 .. Chunks + 2
      BY FrameCounts
    <2>6. \/ \E i \in 0 .. FrmCount(Len(Ssid)) - 1 : f = CredFrame(TYPE_SSID, Ssid, i)
          \/ \E i \in 0 .. FrmCount(Len(Pwd)) - 1 : f = CredFrame(TYPE_PSWD, Pwd, i)
      BY <2>1, <2>2, <2>3 DEF AllFrames, SenderFrames
    <2>7. CASE type = TYPE_SSID
      <3>1. \A i \in 0 .. FrmCount(Len(Pwd)) - 1 : FrmType(CredFrame(TYPE_PSWD, Pwd, i)) = 2
        <4> TAKE i \in 0 .. FrmCount(Len(Pwd)) - 1
        <4>1. i \in 0 .. 31 /\ TYPE_PSWD \in CredTypes /\ Pwd \in {Ssid, Pwd}
          BY <1>0, <2>5
        <4> QED
          BY <2>4, <4>1
      <3>2. FrmType(f) = 1
        BY <2>7
      <3>3. \E i \in 0 .. FrmCount(Len(Ssid)) - 1 : f = CredFrame(TYPE_SSID, Ssid, i)
        BY <2>6, <3>1, <3>2
      <3>4. Str(type) = Ssid
        BY <2>7 DEF Str
      <3> QED
        BY <2>7, <3>3, <3>4
    <2>8. CASE type = TYPE_PSWD
      <3>1. \A i \in 0 .. FrmCount(Len(Ssid)) - 1 : FrmType(CredFrame(TYPE_SSID, Ssid, i)) = 1
        <4> TAKE i \in 0 .. FrmCount(Len(Ssid)) - 1
        <4>1. i \in 0 .. 31 /\ TYPE_SSID \in CredTypes /\ Ssid \in {Ssid, Pwd}
          BY <1>0, <2>5
        <4> QED
          BY <2>4, <4>1
      <3>2. FrmType(f) = 2
        BY <2>8
      <3>3. \E i \in 0 .. FrmCount(Len(Pwd)) - 1 : f = CredFrame(TYPE_PSWD, Pwd, i)
        BY <2>6, <3>1, <3>2
      <3>4. Str(type) = Pwd
        BY <2>8 DEF Str
      <3> QED
        BY <2>8, <3>3, <3>4
    <2> QED
      BY <2>7, <2>8
  <1>3. i \in 0 .. 31 /\ n - 2 \in Nat
    BY <1>0, <1>1
  <1>4. f = MsgFrame(type, StrPairs(Str(type)), n - 2, i)
    BY <1>2 DEF CredFrame
  <1>5. FrmIndex(f) = i
    BY <1>3, <1>4, MsgFrameParts
  <1>6. i = 0 => f.a4 = MAGIC /\ f.a5 = n
    BY <1>1, <1>3, <1>4, MsgFrameData
  <1>7. n - 2 \in 0 .. 16 /\ \A k \in 1 .. n - 2 : StrPairs(Str(type))[k] \in Pair
    BY CredPairs DEF Str
  <1>8. ASSUME i \in 1 .. n - 2 PROVE FrmData(f) = StrPairs(Str(type))[i]
    <2>1. StrPairs(Str(type))[i] \in Pair
      BY <1>8, <1>7
    <2>2. type \in 0 .. 3
      OBVIOUS
    <2> DEFINE p == StrPairs(Str(type))
               m == n - 2
    <2>3. m \in Nat /\ i \in 1 .. m /\ p[i] \in Pair
      BY <1>3, <1>8, <2>1
    <2>4. f = MsgFrame(type, p, m, i)
      BY <1>4
    <2> HIDE DEF p, m
    <2>5. FrmData(MsgFrame(type, p, m, i)) = p[i]
      BY <1>3, <2>2, <2>3, MsgFrameData, ZenonT(30)
    <2> QED
      BY <2>4, <2>5 DEF p
  <1>9. ASSUME i = n - 1 PROVE Word(FrmData(f)) = SentSum(type)
    <2> DEFINE m == n - 2
    <2>1. m \in 0 .. 16 /\ i = m + 1 /\ i \in 0 .. m + 1 /\ n = m + 2
      BY <1>1, <1>7, <1>9
    <2>2. f = MsgFrame(type, StrPairs(Str(type)), m, i) /\ \A k \in 1 .. m : StrPairs(Str(type))[k] \in Pair
      BY <1>4, <1>7
    <2>3. SentSum(type) = MAGIC + (m + 2) + PairSum(StrPairs(Str(type)), m)
      BY <2>1 DEF SentSum
    <2> HIDE DEF m
    <2>4. type \in 0 .. 3
      OBVIOUS
    <2> DEFINE p == StrPairs(Str(type))
    <2> HIDE DEF p
    <2>5. \A k \in 1 .. m : p[k] \in Pair
      BY <2>2 DEF p
    <2>6. Word(FrmData(MsgFrame(type, p, m, i))) = MAGIC + (m + 2) + PairSum(p, m)
      BY <2>1, <2>4, <2>5, MsgFrameIsFrame
    <2> QED
      BY <2>2, <2>3, <2>6 DEF p
  <1> QED
    BY <1>1, <1>2, <1>5, <1>6, <1>8, <1>9

LEMMA OwnReipFrames ==
    ASSUME OwnReip, NEW f \in AllFrames, FrmType(f) = TYPE_REIP
    PROVE  LET i == FrmIndex(f)
           IN  /\ i = 0 => f.a4 = MAGIC
               /\ i \in 1 .. 3 => FrmData(f) = Reip[i]
               /\ i = 4 => Word(FrmData(f)) = ReipSum(Reip)
  <1> USE DEF TYPE_CHANNEL, TYPE_SSID, TYPE_PSWD, TYPE_REIP, CredTypes
  <1>1. CASE f \in Noise
    BY <1>1, FrameParts, FramesAreFrames DEF OwnReip
  <1>2. CASE f \notin Noise
    <2>1. PICK i \in 0 .. 4 : f = ReipFrame(Reip, i)
      <3>1. FrmType(ChannelFrame) = 0
        <4>1. 0 \in 0 .. 3 /\ 0 \in 0 .. 31
          OBVIOUS
        <4> QED
          BY <4>1, Unpack, Zenon DEF ChannelFrame
      <3>2. ASSUME NEW t \in CredTypes, NEW str \in {Ssid, Pwd},
                   NEW i \in 0 .. FrmCount(Len(str)) - 1
            PROVE  FrmType(CredFrame(t, str, i)) = t
        <4>1. i \in 0 .. 31
          <5>1. FrmCount(Len(str)) \in 2 .. Chunks + 2 /\ Chunks \in 1 .. 16
            BY FrameCounts, ConstantsAssumption
          <5> QED
            BY <5>1
        <4> QED
          BY <4>1, MsgFrameParts DEF CredFrame
      <3>3. \A i \in 0 .. FrmCount(Len(Ssid)) - 1 : f # CredFrame(TYPE_SSID, Ssid, i)
        BY <3>2
      <3>4. \A i \in 0 .. FrmCount(Len(Pwd)) - 1 : f # CredFrame(TYPE_PSWD, Pwd, i)
        BY <3>2
      <3> QED
        BY <1>2, <3>1, <3>3, <3>4 DEF AllFrames, SenderFrames
    <2>2. f = MsgFrame(3, Reip, 3, i) /\ i \in 0 .. 31
      BY <2>1 DEF ReipFrame
    <2>3. FrmIndex(f) = i
      BY <2>2, MsgFrameParts
    <2>4. i \in 1 .. 3 => Reip[i] \in Pair
      BY ConstantsAssumption
    <2>5. i = 0 => f.a4 = MAGIC
      BY <2>2, MsgFrameData
    <2>6. i \in 1 .. 3 => FrmData(f) = Reip[i]
      BY <2>2, <2>4, MsgFrameData
    <2>7. ASSUME i = 4 PROVE Word(FrmData(f)) = ReipSum(Reip)
      <3>1. /\ 3 \in 0 .. 3 /\ 3 \in 0 .. 16 /\ i = 3 + 1 /\ i \in 0 .. 3 + 1
            /\ \A k \in 1 .. 3 : Reip[k] \in Pair
        BY <2>7, ConstantsAssumption
      <3>2. Word(FrmData(f)) = MAGIC + (3 + 2) + PairSum(Reip, 3)
        <4>1. Word(FrmData(MsgFrame(3, Reip, 3, i))) = MAGIC + (3 + 2) + PairSum(Reip, 3)
          BY <3>1, MsgFrameIsFrame
        <4> QED
          BY <2>2, <4>1
      <3>3. PairSum(Reip, 3) \in Nat
        BY <3>1, PairSumBound
      <3> QED
        BY <3>2, <3>3 DEF ReipSum, MAGIC
    <2> QED
      BY <2>3, <2>5, <2>6, <2>7
  <1> QED
    BY <1>1, <1>2

LEMMA ReipStep ==
    ASSUME OwnReip, TypeInv, ReipInv, NEW f \in AllFrames, RecvReip(f)
    PROVE  ReipInv'
  <1> DEFINE i == FrmIndex(f)
             start == i = 0 /\ f.a4 = MAGIC
             mask == IF start THEN {0} ELSE uRecMask[TYPE_REIP] \cup {i}
  <1>1. /\ i \in 0 .. 31 /\ (i = 0 => start)
        /\ i \in 1 .. 3 => FrmData(f) = Reip[i] /\ Reip[i] \in Pair
    <2>1. FrmType(f) = TYPE_REIP
      BY DEF RecvReip
    <2> QED
      BY <2>1, OwnReipFrames, FrameParts, FramesAreFrames, ConstantsAssumption
  <1>2. uRecMask'[TYPE_REIP] = mask
    BY DEF RecvReip, TypeInv, RxTypeOK, MsgTypes
  <1>3. ASSUME NEW k \in 1 .. 3
        PROVE  uReip'[k] = IF k \in mask THEN Reip[k] ELSE Zero
    <2>1. CASE start
      <3>1. uReip' = [j \in 1 .. 3 |-> Zero]
        BY <2>1 DEF RecvReip
      <3> QED
        BY <2>1, <3>1
    <2>2. CASE ~start /\ i = k
      <3>1. uReip'[k] = OrPair(uReip[k], Reip[k])
        BY <1>1, <2>2 DEF RecvReip, TypeInv, RxTypeOK
      <3>2. uReip[k] \in {Zero, Reip[k]} /\ Reip[k] \in Pair
        BY ConstantsAssumption DEF ReipInv
      <3>3. OrPair(uReip[k], Reip[k]) = Reip[k]
        BY <3>2, OrPairFacts
      <3> QED
        BY <2>2, <3>1, <3>3
    <2>3. CASE ~start /\ i # k
      <3>1. uReip'[k] = uReip[k]
        BY <1>1, <2>3 DEF RecvReip, TypeInv, RxTypeOK
      <3> QED
        BY <2>3, <3>1 DEF ReipInv
    <2> QED
      BY <2>1, <2>2, <2>3
  <1>4. TYPE_REIP \in uRecOK' => Complete(mask, 5)
    BY DEF RecvReip, Ignored
  <1> QED
    BY <1>2, <1>3, <1>4 DEF ReipInv

\* The two buffers do not overlap.
LEMMA Disjoint ==
    ASSUME NEW t \in CredTypes, NEW u \in CredTypes, NEW j \in 1 .. Chunks,
           NEW k \in 1 .. Chunks
    PROVE  /\ Cell(t, j) \in BufCells
           /\ t # u => Cell(t, j) # Cell(u, k)
           /\ j # k => Cell(t, j) # Cell(t, k)
  BY ConstantsAssumption DEF Cell, BufCells, CredTypes, TYPE_SSID, TYPE_PSWD

LEMMA PaddedFacts ==
    ASSUME NEW type \in CredTypes, NEW k \in 1 .. Chunks
    PROVE  LET n == FrmCount(Len(Str(type)))
           IN  /\ k \in 1 .. n - 2 => Padded(Str(type))[k] = StrPairs(Str(type))[k]
               /\ k \notin 1 .. n - 2 => Padded(Str(type))[k] = Zero
  <1>1. DOMAIN StrPairs(Str(type)) = 1 .. (Len(Str(type)) + 1) \div 2
    BY DEF StrPairs
  <1>2. Len(Str(type)) \in Nat
    BY ConstantsAssumption DEF Str
  <1>3. FrmCount(Len(Str(type))) - 2 = (Len(Str(type)) + 1) \div 2
    BY <1>2 DEF FrmCount
  <1> QED
    BY <1>1, <1>3 DEF Padded

\* A frame of the string itself.
LEMMA OwnStringStep ==
    ASSUME Fits, Quiet, TypeInv, NEW type \in CredTypes, StringInv(type),
           NEW f \in AllFrames, RecvCred(type, f)
    PROVE  StringInv(type)'
  <1> DEFINE n == FrmCount(Len(Str(type)))
             i == FrmIndex(f)
             start == i = 0 /\ f.a4 = MAGIC
             len == IF start THEN f.a5 ELSE uLen[type]
             mask == IF start THEN {0} ELSE uRecMask[type] \cup {i}
  <1>1. /\ n \in 2 .. Chunks + 1 /\ i \in 0 .. n - 1
        /\ i = 0 => start /\ f.a5 = n
        /\ i \in 1 .. n - 2 => FrmData(f) = StrPairs(Str(type))[i]
    <2>1. FrmType(f) = type
      BY DEF RecvCred
    <2>2. n \in 2 .. Chunks + 2 /\ n <= Chunks + 1
      BY <2>1, OwnStringFrames, QuietIsOwn DEF Fits, Str
    <2> QED
      BY <2>1, <2>2, OwnStringFrames, QuietIsOwn, ConstantsAssumption
  <1>2. type \in MsgTypes /\ uLen \in [CredTypes -> 0 .. Chunks + 2]
        /\ uRecMask \in [MsgTypes -> SUBSET (0 .. 31)] /\ buf \in [BufCells -> Pair]
    BY DEF TypeInv, RxTypeOK, MsgTypes, CredTypes
  <1>3. uLen'[type] = len /\ uRecMask'[type] = mask
    BY <1>2 DEF RecvCred
  <1>4. len \in {0, n} /\ (len = 0 => 0 \notin mask)
    BY <1>1 DEF StringInv
  <1>5. ASSUME len # 0, NEW k \in 1 .. Chunks
        PROVE  buf'[Cell(type, k)] = IF k \in mask THEN Padded(Str(type))[k] ELSE Zero
    <2>0. Cell(type, k) \in BufCells /\ len = n
      BY <1>4, <1>5, Disjoint
    <2>1. CASE start
      <3>1. buf' = Erased(type)
        BY <2>1 DEF RecvCred
      <3> QED
        BY <2>0, <2>1, <3>1 DEF Erased
    <2>2. CASE ~start /\ i = n - 1
      <3>1. buf' = buf
        BY <2>0, <2>2 DEF RecvCred
      <3>2. uLen[type] # 0
        BY <1>5, <2>2
      <3>3. k = i => Padded(Str(type))[k] = Zero
        BY <1>1, <2>2, PaddedFacts
      <3> QED
        BY <2>2, <3>1, <3>2, <3>3 DEF StringInv
    <2>3. CASE ~start /\ i # n - 1
      <3>1. i \in 1 .. n - 2 /\ i \in 1 .. Chunks
        BY <1>1, <2>3, ConstantsAssumption
      <3>2. buf' = [buf EXCEPT ![Cell(type, i)] = FrmData(f)]
        BY <2>0, <2>3 DEF RecvCred
      <3>3. uLen[type] # 0
        BY <1>5, <2>3
      <3>4. CASE k = i
        <4>1. Padded(Str(type))[k] = FrmData(f)
          BY <1>1, <3>1, <3>4, PaddedFacts
        <4> QED
          BY <1>2, <2>0, <2>3, <3>2, <3>4, <4>1
      <3>5. CASE k # i
        <4>1. Cell(type, k) # Cell(type, i)
          BY <3>1, <3>5, Disjoint
        <4>2. buf'[Cell(type, k)] = buf[Cell(type, k)]
          BY <1>2, <2>0, <3>2, <4>1
        <4> QED
          BY <2>3, <3>3, <3>5, <4>2 DEF StringInv
      <3> QED
        BY <3>4, <3>5
    <2> QED
      BY <2>1, <2>2, <2>3
  <1>6. type \in uRecOK' => len # 0 /\ Complete(mask, len)
    <2>1. type \in uRecOK' => Complete(mask, Wanted(len))
      BY DEF RecvCred, Ignored
    <2>2. len = 0 => ~Complete(mask, Wanted(len))
      BY <1>4 DEF Complete, Wanted
    <2>3. len # 0 => Wanted(len) = len
      BY DEF Wanted
    <2> QED
      BY <2>1, <2>2, <2>3
  <1> QED
    BY <1>3, <1>4, <1>5, <1>6 DEF StringInv

\* A frame of the other string: Fits keeps its stores in its own buffer.
LEMMA OtherStringKeeps ==
    ASSUME Fits, TypeInv, NEW type \in CredTypes, NEW other \in CredTypes, other # type,
           OwnString(other), NEW f \in AllFrames, RecvCred(other, f)
    PROVE  /\ uLen'[type] = uLen[type] /\ uRecMask'[type] = uRecMask[type]
           /\ uCrc'[type] = uCrc[type]
           /\ type \in uRecOK' <=> type \in uRecOK
           /\ \A k \in 1 .. Chunks : buf'[Cell(type, k)] = buf[Cell(type, k)]
  <1> DEFINE n == FrmCount(Len(Str(other)))
             i == FrmIndex(f)
  <1>1. i \in 0 .. Chunks /\ (i = 0 => f.a4 = MAGIC)
    <2>1. FrmType(f) = other
      BY DEF RecvCred
    <2>2. n \in 2 .. Chunks + 2 /\ n <= Chunks + 1 /\ i \in 0 .. n - 1
      BY <2>1, OwnStringFrames DEF Fits, Str
    <2> QED
      BY <2>1, <2>2, OwnStringFrames, ConstantsAssumption
  <1>2. /\ other \in MsgTypes /\ type \in MsgTypes
        /\ uLen \in [CredTypes -> 0 .. Chunks + 2] /\ uCrc \in [MsgTypes -> Nat]
        /\ uRecMask \in [MsgTypes -> SUBSET (0 .. 31)] /\ buf \in [BufCells -> Pair]
    BY DEF TypeInv, RxTypeOK, MsgTypes, CredTypes
  <1>3. /\ uLen'[type] = uLen[type] /\ uRecMask'[type] = uRecMask[type]
        /\ uCrc'[type] = uCrc[type]
    BY <1>2 DEF RecvCred
  <1>4. type \in uRecOK' <=> type \in uRecOK
    BY DEF RecvCred
  <1>5. ASSUME NEW k \in 1 .. Chunks
        PROVE  buf'[Cell(type, k)] = buf[Cell(type, k)]
    <2>1. Cell(type, k) \in BufCells
      BY Disjoint
    <2>2. \A j \in 1 .. Chunks : Cell(other, j) # Cell(type, k)
      BY Disjoint
    <2>3. CASE buf' = Erased(other)
      BY <2>1, <2>2, <2>3 DEF Erased
    <2>4. CASE buf' = buf
      BY <2>4
    <2>5. CASE i # 0 /\ buf' = [buf EXCEPT ![Cell(other, i)] = FrmData(f)]
      <3>1. Cell(other, i) # Cell(type, k)
        BY <1>1, <2>2, <2>5, ConstantsAssumption
      <3> QED
        BY <1>2, <2>1, <2>5, <3>1
    <2> QED
      BY <1>1, <2>3, <2>4, <2>5 DEF RecvCred
  <1> QED
    BY <1>3, <1>4, <1>5

LEMMA OtherStringStep ==
    ASSUME Fits, Quiet, TypeInv, NEW type \in CredTypes, StringInv(type),
           NEW other \in CredTypes, other # type,
           NEW f \in AllFrames, RecvCred(other, f)
    PROVE  StringInv(type)'
  <1>1. /\ uLen'[type] = uLen[type] /\ uRecMask'[type] = uRecMask[type]
        /\ type \in uRecOK' <=> type \in uRecOK
        /\ \A k \in 1 .. Chunks : buf'[Cell(type, k)] = buf[Cell(type, k)]
    BY OtherStringKeeps, QuietIsOwn
  <1> QED
    BY <1>1 DEF StringInv

LEMMA DataInit == RxInit => DataInv
  <1> SUFFICES ASSUME RxInit PROVE DataInv
    OBVIOUS
  <1>1. StringInv(TYPE_SSID) /\ StringInv(TYPE_PSWD)
    BY DEF RxInit, StringInv, CredTypes, MsgTypes
  <1>2. ReipInv /\ ChannelInv
    BY DEF RxInit, ReipInv, ChannelInv, MsgTypes
  <1> QED
    BY <1>1, <1>2 DEF DataInv

LEMMA DataStep ==
    ASSUME Fits, Quiet, TypeInv, DataInv, [RxNext]_rxVars
    PROVE  DataInv'
  <1> USE DEF DataInv
  <1>1. CASE UNCHANGED rxVars
    BY <1>1 DEF rxVars, decodeVars, StringInv, ReipInv, ChannelInv
  <1>2. ASSUME NEW f \in AllFrames, NEW radio \in Channels,
               RecvChannel(f, radio)
        PROVE  DataInv'
    <2>1. UNCHANGED <<uLen, uReip, buf, uRecMask>>
      BY <1>2 DEF RecvChannel
    <2>2. \A t \in MsgTypes : t \in uRecOK' <=> t \in uRecOK
      BY <1>2 DEF RecvChannel, MsgTypes, TYPE_CHANNEL, TYPE_SSID, TYPE_PSWD, TYPE_REIP
    <2>3. ChannelInv'
      BY <1>2 DEF RecvChannel, ChannelInv
    <2> QED
      BY <2>1, <2>2, <2>3 DEF StringInv, ReipInv, MsgTypes
  <1>3. ASSUME NEW f \in AllFrames, RecvReip(f) PROVE DataInv'
    <2>1. UNCHANGED <<uLen, uChannel, buf>>
      BY <1>3 DEF RecvReip
    <2>2. \A t \in {TYPE_CHANNEL, TYPE_SSID, TYPE_PSWD} : t \in uRecOK' <=> t \in uRecOK
      BY <1>3 DEF RecvReip, TYPE_CHANNEL, TYPE_SSID, TYPE_PSWD, TYPE_REIP
    <2>3. \A t \in CredTypes : uRecMask'[t] = uRecMask[t]
      BY <1>3 DEF RecvReip, TypeInv, RxTypeOK, MsgTypes, CredTypes,
                  TYPE_SSID, TYPE_PSWD, TYPE_REIP
    <2>4. ReipInv'
      BY <1>3, ReipStep, QuietIsOwn
    <2>5. StringInv(TYPE_SSID)' /\ StringInv(TYPE_PSWD)'
      BY <2>1, <2>2, <2>3 DEF StringInv, CredTypes
    <2> QED
      BY <2>1, <2>2, <2>4, <2>5 DEF ChannelInv
  <1>4. ASSUME NEW f \in AllFrames, NEW type \in CredTypes, RecvCred(type, f)
        PROVE  DataInv'
    <2>1. StringInv(TYPE_SSID)' /\ StringInv(TYPE_PSWD)'
      <3>1. TYPE_SSID \in CredTypes /\ TYPE_PSWD \in CredTypes /\ TYPE_SSID # TYPE_PSWD
        BY DEF CredTypes, TYPE_SSID, TYPE_PSWD
      <3>2. CASE type = TYPE_SSID
        BY <1>4, <3>1, <3>2, OwnStringStep, OtherStringStep
      <3>3. CASE type = TYPE_PSWD
        BY <1>4, <3>1, <3>3, OwnStringStep, OtherStringStep
      <3> QED
        BY <3>2, <3>3 DEF CredTypes
    <2>2. UNCHANGED <<uChannel, uReip>> /\ uRecMask'[TYPE_REIP] = uRecMask[TYPE_REIP]
      BY <1>4 DEF RecvCred, TypeInv, RxTypeOK, MsgTypes, CredTypes,
                  TYPE_SSID, TYPE_PSWD, TYPE_REIP
    <2>3. \A t \in {TYPE_CHANNEL, TYPE_REIP} : t \in uRecOK' <=> t \in uRecOK
      BY <1>4 DEF RecvCred, CredTypes, TYPE_CHANNEL, TYPE_SSID, TYPE_PSWD, TYPE_REIP
    <2> QED
      BY <2>1, <2>2, <2>3 DEF ReipInv, ChannelInv
  <1> QED
    BY <1>1, <1>2, <1>3, <1>4 DEF RxNext, STA_MonPktSend, AllFrames, CredTypes

\* An accepted address is the sender's.
LEMMA ReipWhole ==
    ASSUME TypeInv, ReipInv, TYPE_REIP \in uRecOK
    PROVE  uReip = Reip
  <1>1. 0 .. 5 - 1 \subseteq uRecMask[TYPE_REIP]
    BY DEF ReipInv, Complete
  <1>2. \A k \in 1 .. 3 : uReip[k] = Reip[k]
    BY <1>1 DEF ReipInv
  <1>3. uReip \in [1 .. 3 -> Pair] /\ Reip \in [1 .. 3 -> Pair]
    BY ConstantsAssumption DEF TypeInv, RxTypeOK
  <1> QED
    BY <1>2, <1>3

LEMMA DataImpliesAccepted == TypeInv /\ DataInv => AcceptedAsSent
  <1> SUFFICES ASSUME TypeInv, DataInv PROVE AcceptedAsSent
    OBVIOUS
  <1>1. ASSUME NEW type \in CredTypes, StringInv(type), type \in uRecOK
        PROVE  Held(type) = Padded(Str(type))
    <2> DEFINE n == FrmCount(Len(Str(type)))
    <2>0. n \in 2 .. Chunks + 2 /\ Chunks \in Nat
      BY FrameCounts, ConstantsAssumption DEF Str
    <2>1. ASSUME NEW k \in 1 .. Chunks
          PROVE  buf[Cell(type, k)] = Padded(Str(type))[k]
      <3>1. k \in 1 .. n - 2 => k \in uRecMask[type]
        BY <1>1, <2>0 DEF StringInv, Complete
      <3>2. k \notin 1 .. n - 2 => Padded(Str(type))[k] = Zero
        BY PaddedFacts
      <3> QED
        BY <1>1, <3>1, <3>2 DEF StringInv
    <2> QED
      BY <2>1 DEF Held, Padded
  <1>2. TYPE_REIP \in uRecOK => uReip = Reip
    BY ReipWhole DEF DataInv
  <1>3. /\ TYPE_SSID \in uRecOK => Held(TYPE_SSID) = Padded(Ssid)
        /\ TYPE_PSWD \in uRecOK => Held(TYPE_PSWD) = Padded(Pwd)
    BY <1>1 DEF DataInv, CredTypes, Str, TYPE_SSID, TYPE_PSWD
  <1> QED
    BY <1>2, <1>3 DEF AcceptedAsSent

(***************************************************************************)
(* The main result about the driver: strings whose checksum frame has an   *)
(* index inside their buffer (30 bytes at most in the source), and the     *)
(* sender's address, are accepted only as they were sent, whatever is      *)
(* lost, repeated or reordered.                                            *)
(***************************************************************************)
THEOREM AcceptedIsSent == Fits /\ Quiet => (RxSpec => []AcceptedAsSent)
  <1> SUFFICES ASSUME Fits, Quiet PROVE RxSpec => []AcceptedAsSent
    OBVIOUS
  <1>1. TypeInv /\ DataInv /\ [RxNext]_rxVars => DataInv'
    BY DataStep
  <1> QED
    BY <1>1, TypeInit, TypeStep, DataInit, DataImpliesAccepted, PTL DEF RxSpec

LEMMA RecOKGrows == TypeInv /\ [RxNext]_rxVars => uRecOK \subseteq uRecOK'
  <1> SUFFICES ASSUME TypeInv, [RxNext]_rxVars PROVE uRecOK \subseteq uRecOK'
    OBVIOUS
  <1>1. CASE UNCHANGED rxVars
    BY <1>1 DEF rxVars, decodeVars
  <1>2. CASE RxNext
    BY <1>2, CallOutcome, FlagStep DEF RxNext, AllFrames, TypeInv
  <1> QED
    BY <1>1, <1>2

(***************************************************************************)
(* A string the driver has marked as received is never touched again,      *)
(* although both strings share one struct and frames keep arriving.        *)
(***************************************************************************)
THEOREM AcceptedStaysPut == Fits /\ Quiet => (RxSpec => AcceptedIsFinal)
  <1> SUFFICES ASSUME Fits, Quiet PROVE RxSpec => AcceptedIsFinal
    OBVIOUS
  <1>1. TypeInv /\ DataInv /\ [RxNext]_rxVars => DataInv'
    BY DataStep
  <1>2. TypeInv /\ DataInv /\ TypeInv' /\ DataInv' /\ [RxNext]_rxVars
          => [\A t \in CredTypes : t \in uRecOK => Held(t)' = Held(t) /\ t \in uRecOK']_rxVars
    <2> SUFFICES ASSUME TypeInv, DataInv, TypeInv', DataInv', [RxNext]_rxVars,
                        NEW t \in CredTypes, t \in uRecOK
                 PROVE  Held(t)' = Held(t) /\ t \in uRecOK'
      OBVIOUS
    <2>1. t \in uRecOK'
      BY RecOKGrows
    <2>2. AcceptedAsSent /\ AcceptedAsSent'
      BY DataImpliesAccepted, PTL
    <2> QED
      BY <2>1, <2>2 DEF AcceptedAsSent, CredTypes
  <1> QED
    BY <1>1, <1>2, TypeInit, TypeStep, DataInit, PTL DEF RxSpec, AcceptedIsFinal

-----------------------------------------------------------------------------
(* The driver implements the announcement service *)

\* Appending a message appends its announcement.
LEMMA AnnouncedStep ==
    ASSUME RxTypeOK, NEW kind, Tells(kind)
    PROVE  Announced' = Append(Announced, [kind |-> kind, data |-> DataOf(Snapshot')])
  <1>1. told \in Seq(Message) /\ Len(told) \in Nat
    BY DEF RxTypeOK
  <1>2. Snapshot'.uLinkType = kind
    BY DEF Tells, Snapshot
  <1>3. /\ Len(told') = Len(told) + 1
        /\ told'[Len(told) + 1] = Snapshot'
        /\ \A i \in 1 .. Len(told) : told'[i] = told[i]
    BY <1>1 DEF Tells
  <1> DEFINE entry(m) == [kind |-> m.uLinkType, data |-> DataOf(m)]
             A == [i \in 1 .. Len(told) |-> entry(told[i])]
             B == [i \in 1 .. Len(told) + 1 |-> entry(told'[i])]
  <1>4. Announced = A /\ Announced' = B
    BY <1>3 DEF Announced
  <1>5. entry(Snapshot') = [kind |-> kind, data |-> DataOf(Snapshot')]
    BY <1>2
  <1> HIDE DEF entry
  <1>6. A \in Seq({entry(told[i]) : i \in 1 .. Len(told)}) /\ Len(A) = Len(told)
    BY <1>1
  <1>7. B = Append(A, entry(Snapshot'))
    BY <1>1, <1>3, <1>6
  <1> QED
    BY <1>4, <1>5, <1>7

LEMMA AnnouncedKinds ==
    ASSUME RxTypeOK, NEW kind, kind \notin Kinds
    PROVE  \A i \in 1 .. Len(Announced) : Announced[i].kind # kind
  <1>1. told \in Seq(Message) /\ Len(told) \in Nat
    BY DEF RxTypeOK
  <1>2. Len(Announced) = Len(told)
    BY <1>1 DEF Announced
  <1> QED
    BY <1>1, <1>2 DEF Announced, Kinds

\* What a message of a kind carries, in a state where the kind is accepted.
LEMMA PayloadIsSent ==
    ASSUME AcceptedAsSent', ChannelInv', Outcome, NEW kind \in 1 .. 3, Tells(kind)
    PROVE  DataOf(Snapshot') \in Sent(kind)
  <1> USE DEF NET_LINK_CHANNEL, NET_LINK_SSIDPWD, NET_LINK_REIPPORT
  <1>0. Snapshot'.uLinkType = kind
    BY DEF Tells, Snapshot
  <1>1. /\ kind = 1 => TYPE_CHANNEL \in uRecOK'
        /\ kind = 3 => TYPE_REIP \in uRecOK'
        /\ kind = 2 => TYPE_SSID \in uRecOK' /\ TYPE_PSWD \in uRecOK'
    BY DEF Outcome, Tells, BothStrings, CredTypes, notifyVars
  <1>2. CASE kind = 1
    BY <1>0, <1>1, <1>2 DEF Snapshot, DataOf, Sent, ChannelInv
  <1>3. CASE kind = 3
    BY <1>0, <1>1, <1>3 DEF Snapshot, DataOf, Sent, AcceptedAsSent
  <1>4. CASE kind = 2
    <2>1. Snapshot'.uSSID = Padded(Ssid) /\ Snapshot'.uPwd = Padded(Pwd)
      BY <1>1, <1>4 DEF Snapshot, AcceptedAsSent, Held, Cell, TYPE_SSID, TYPE_PSWD
    <2> QED
      BY <1>0, <1>4, <2>1 DEF DataOf, Sent
  <1> QED
    BY <1>2, <1>3, <1>4

LEMMA ServiceStep ==
    ASSUME TypeInv, ToldInv, DataInv, TypeInv', DataInv', [RxNext]_rxVars
    PROVE  [Service!Next]_Announced
  <1> USE DEF NET_LINK_CHANNEL, NET_LINK_SSIDPWD, NET_LINK_REIPPORT
  <1>1. CASE UNCHANGED rxVars
    BY <1>1 DEF rxVars, notifyVars, Announced
  <1>2. CASE RxNext
    <2>1. Outcome
      BY <1>2, CallOutcome DEF RxNext, AllFrames, TypeInv
    <2>2. CASE told' = told
      BY <2>2 DEF Announced
    <2>3. ASSUME NEW kind \in 1 .. 3, Tells(kind), kind \notin Kinds
          PROVE  Service!Next
      <3>1. AcceptedAsSent' /\ ChannelInv'
        BY DataImpliesAccepted, PTL DEF DataInv
      <3>2. DataOf(Snapshot') \in Sent(kind)
        BY <2>1, <2>3, <3>1, PayloadIsSent
      <3>3. Announced' = Append(Announced, [kind |-> kind, data |-> DataOf(Snapshot')])
        BY <2>3, AnnouncedStep DEF TypeInv
      <3>4. \A i \in 1 .. Len(Announced) : Announced[i].kind # kind
        BY <2>3, AnnouncedKinds DEF TypeInv
      <3> QED
        BY <3>2, <3>3, <3>4 DEF Service!Next, Service!Announce
    <2>4. told' = told \/ \E kind \in 1 .. 3 : Tells(kind) /\ kind \notin Kinds
      <3>1. /\ TYPE_CHANNEL \notin uRecOK => 1 \notin Kinds
            /\ TYPE_REIP \notin uRecOK => 3 \notin Kinds
            /\ ~BothStrings(uRecOK) => 2 \notin Kinds
        BY DEF TypeInv, FlagInv, ToldInv
      <3>2. \A type \in CredTypes : type \notin uRecOK => ~BothStrings(uRecOK)
        BY DEF BothStrings
      <3> QED
        BY <2>1, <3>1, <3>2 DEF Outcome, notifyVars
    <2> QED
      BY <2>2, <2>3, <2>4
  <1> QED
    BY <1>1, <1>2

(***************************************************************************)
(* Seen through its netlink messages the driver is the announcement        *)
(* service: each kind at most once, each with the sender's data.           *)
(***************************************************************************)
THEOREM DriverImplementsService == Fits /\ Quiet => (RxSpec => ServiceSpec)
  <1> SUFFICES ASSUME Fits, Quiet PROVE RxSpec => ServiceSpec
    OBVIOUS
  <1>1. TypeInv /\ DataInv /\ [RxNext]_rxVars => DataInv'
    BY DataStep
  <1>2. RxInit => Service!Init
    BY DEF RxInit, Announced, Service!Init
  <1>3. TypeInv /\ ToldInv /\ DataInv /\ TypeInv' /\ DataInv' /\ [RxNext]_rxVars
          => [Service!Next]_Announced
    BY ServiceStep
  <1> QED
    BY <1>1, <1>2, <1>3, TypeInit, TypeStep, ToldInit, ToldPreserved, DataInit, PTL
       DEF RxSpec, ServiceSpec, Service!Spec
-----------------------------------------------------------------------------
(* What was sent is accepted once it is complete *)

\* Once the last bit of a message is set, the sum kept is the sender's.
SumInv(type) ==
    uLen[type] # 0 /\ uLen[type] - 1 \in uRecMask[type] => uCrc[type] = SentSum(type)

ReipSumInv == 4 \in uRecMask[TYPE_REIP] => uCrc[TYPE_REIP] = ReipSum(Reip)

Accepted(type) ==
    uLen[type] # 0 /\ Complete(uRecMask[type], uLen[type]) => type \in uRecOK

ReipAccepted == Complete(uRecMask[TYPE_REIP], 5) => TYPE_REIP \in uRecOK

SumsInv == /\ \A type \in CredTypes : SumInv(type) /\ Accepted(type)
           /\ ReipSumInv /\ ReipAccepted

\* The driver's sum over a buffer that holds the whole string.
LEMMA DriverSum ==
    ASSUME NEW type \in CredTypes, NEW mem,
           \A k \in 1 .. FrmCount(Len(Str(type))) - 2 : mem[Cell(type, k)] = StrPairs(Str(type))[k]
    PROVE  CredSum(type, mem, FrmCount(Len(Str(type)))) = SentSum(type)
  <1> DEFINE n == FrmCount(Len(Str(type)))
             p == StrPairs(Str(type))
             q == [k \in 1 .. n - 2 |-> mem[Cell(type, k)]]
  <1>1. /\ n - 2 \in 0 .. 16 /\ n - 2 = (Len(Str(type)) + 1) \div 2
        /\ \A k \in 1 .. n - 2 : p[k] \in Pair
    BY CredPairs DEF Str
  <1>2. p = [k \in 1 .. n - 2 |-> p[k]]
    BY <1>1 DEF StrPairs
  <1>3. \A k \in 1 .. n - 2 : mem[Cell(type, k)] = p[k]
    OBVIOUS
  <1>4. n \in Int
    BY FrameCounts, ConstantsAssumption DEF Str
  <1>5. CredSum(type, mem, n) = n + MAGIC + PairSum(q, n - 2)
    BY DEF CredSum
  <1>6. SentSum(type) = MAGIC + n + PairSum(p, n - 2)
    BY DEF SentSum
  <1> HIDE DEF n, p
  <1>7. q = p
    BY <1>2, <1>3
  <1>8. PairSum(p, n - 2) \in Nat
    BY <1>1, PairSumBound
  <1> HIDE DEF q
  <1>9. CredSum(type, mem, n) = SentSum(type)
    BY <1>4, <1>5, <1>6, <1>7, <1>8 DEF MAGIC
  <1> QED
    BY <1>9 DEF n

LEMMA OwnSumStep ==
    ASSUME Fits, Quiet, TypeInv, NEW type \in CredTypes, StringInv(type), SumInv(type),
           StringInv(type)', NEW f \in AllFrames, RecvCred(type, f)
    PROVE  SumInv(type)' /\ Accepted(type)'
  <1> DEFINE n == FrmCount(Len(Str(type)))
             i == FrmIndex(f)
             start == i = 0 /\ f.a4 = MAGIC
             len == IF start THEN f.a5 ELSE uLen[type]
             isCrc == ~start /\ i = len - 1
             mask == IF start THEN {0} ELSE uRecMask[type] \cup {i}
             crc == IF start THEN 0
                    ELSE IF isCrc THEN Word(FrmData(f)) ELSE uCrc[type]
  <1>1. /\ n \in 2 .. Chunks + 1 /\ i \in 0 .. n - 1
        /\ i = 0 => start /\ f.a5 = n
        /\ i = n - 1 => Word(FrmData(f)) = SentSum(type)
    <2>1. FrmType(f) = type
      BY DEF RecvCred
    <2>2. n \in 2 .. Chunks + 2 /\ n <= Chunks + 1
      BY <2>1, OwnStringFrames, QuietIsOwn DEF Fits, Str
    <2> QED
      BY <2>1, <2>2, OwnStringFrames, QuietIsOwn, ConstantsAssumption
  <1>2. /\ type \in MsgTypes /\ uLen \in [CredTypes -> 0 .. Chunks + 2]
        /\ uRecMask \in [MsgTypes -> SUBSET (0 .. 31)] /\ uCrc \in [MsgTypes -> Nat]
    BY DEF TypeInv, RxTypeOK, MsgTypes, CredTypes
  <1>3. uLen'[type] = len /\ uRecMask'[type] = mask /\ uCrc'[type] = crc
    BY <1>2 DEF RecvCred
  <1>4. len \in {0, n} /\ n \in Int
    BY <1>1, <1>3 DEF StringInv
  <1>5. ASSUME len # 0, len - 1 \in mask PROVE crc = SentSum(type)
    <2>1. len = n /\ n - 1 # 0
      BY <1>1, <1>4, <1>5
    <2>2. ~start /\ uLen[type] = n
      BY <1>5, <2>1
    <2>3. CASE i = n - 1
      BY <1>1, <2>1, <2>2, <2>3
    <2>4. CASE i # n - 1
      <3>1. n - 1 \in uRecMask[type]
        BY <1>5, <2>1, <2>2, <2>4
      <3>2. uCrc[type] = SentSum(type)
        BY <1>1, <2>2, <3>1 DEF SumInv
      <3> QED
        BY <2>1, <2>2, <2>4, <3>2
    <2> QED
      BY <2>3, <2>4
  <1>6. SumInv(type)'
    <2>1. (uLen[type] # 0 /\ uLen[type] - 1 \in uRecMask[type])' => uCrc'[type] = SentSum(type)
      BY <1>3, <1>5
    <2> QED
      BY <2>1 DEF SumInv
  <1>7. ASSUME len # 0, Complete(mask, len) PROVE type \in uRecOK'
    <2>1. len = n /\ 0 .. n - 1 \subseteq mask
      BY <1>4, <1>7 DEF Complete
    <2>2. n - 1 \in 0 .. n - 1 /\ \A k \in 1 .. n - 2 : k \in 0 .. n - 1 /\ k \in 1 .. Chunks
      <3>1. Chunks \in Nat
        BY ConstantsAssumption
      <3>2. \A m \in 2 .. Chunks + 1 :
               m - 1 \in 0 .. m - 1 /\ \A k \in 1 .. m - 2 : k \in 0 .. m - 1 /\ k \in 1 .. Chunks
        BY <3>1
      <3> QED
        BY <1>1, <3>2
    <2>3. crc = SentSum(type)
      BY <1>5, <1>7, <2>1, <2>2
    <2>4. ASSUME NEW k \in 1 .. n - 2 PROVE buf'[Cell(type, k)] = StrPairs(Str(type))[k]
      <3>1. k \in 1 .. Chunks /\ k \in mask
        BY <2>1, <2>2
      <3>2. buf'[Cell(type, k)] = Padded(Str(type))[k]
        BY <1>3, <1>7, <3>1 DEF StringInv
      <3> QED
        BY <3>1, <3>2, PaddedFacts
    <2>5. CredSum(type, buf', n) = SentSum(type)
      BY <2>4, DriverSum
    <2>6. Wanted(len) = len
      BY <1>7 DEF Wanted
    <2>7. uRecOK' = IF Complete(mask, Wanted(len)) /\ SumMatches(crc, CredSum(type, buf', len))
                    THEN uRecOK \cup {type} ELSE uRecOK
      BY DEF RecvCred
    <2>8. Complete(mask, Wanted(len)) /\ SumMatches(crc, CredSum(type, buf', len))
      BY <1>7, <2>1, <2>3, <2>5, <2>6 DEF SumMatches
    <2> QED
      BY <2>7, <2>8
  <1>8. Accepted(type)'
    <2>1. (uLen[type] # 0)' /\ Complete(uRecMask'[type], uLen'[type]) => type \in uRecOK'
      BY <1>3, <1>7
    <2> QED
      BY <2>1 DEF Accepted, Complete
  <1> QED
    BY <1>6, <1>8

LEMMA ReipSumStep ==
    ASSUME Quiet, TypeInv, ReipSumInv, ReipInv', NEW f \in AllFrames, RecvReip(f)
    PROVE  ReipSumInv' /\ ReipAccepted'
  <1> DEFINE i == FrmIndex(f)
             start == i = 0 /\ f.a4 = MAGIC
             mask == IF start THEN {0} ELSE uRecMask[TYPE_REIP] \cup {i}
             crc == IF start THEN 0
                    ELSE IF i = 4 THEN Word(FrmData(f)) ELSE uCrc[TYPE_REIP]
  <1>1. i = 4 => Word(FrmData(f)) = ReipSum(Reip)
    BY OwnReipFrames, QuietIsOwn DEF RecvReip
  <1>2. uRecMask'[TYPE_REIP] = mask /\ uCrc'[TYPE_REIP] = crc
    BY DEF RecvReip, TypeInv, RxTypeOK, MsgTypes
  <1>3. ASSUME 4 \in mask PROVE crc = ReipSum(Reip)
    <2>1. ~start
      BY <1>3
    <2>2. CASE i = 4
      BY <1>1, <2>1, <2>2
    <2>3. CASE i # 4
      <3>1. 4 \in uRecMask[TYPE_REIP]
        BY <1>3, <2>1, <2>3
      <3> QED
        BY <2>1, <2>3, <3>1 DEF ReipSumInv
    <2> QED
      BY <2>2, <2>3
  <1>4. ReipSumInv'
    <2>1. 4 \in uRecMask'[TYPE_REIP] => uCrc'[TYPE_REIP] = ReipSum(Reip)
      BY <1>2, <1>3
    <2> QED
      BY <2>1 DEF ReipSumInv
  <1>5. ASSUME Complete(mask, 5) PROVE TYPE_REIP \in uRecOK'
    <2>1. \A k \in 0 .. 4 : k \in mask
      BY <1>5 DEF Complete
    <2>2. crc = ReipSum(Reip)
      BY <1>3, <2>1
    <2>3. uReip' = [k \in 1 .. 3 |-> uReip'[k]]
      <3>1. uReip = [k \in 1 .. 3 |-> uReip[k]]
        BY DEF TypeInv, RxTypeOK
      <3> QED
        BY <3>1 DEF RecvReip
    <2>4. \A k \in 1 .. 3 : uReip'[k] = Reip[k]
      BY <1>2, <2>1 DEF ReipInv
    <2>5. uReip' = Reip
      BY <2>3, <2>4, ConstantsAssumption
    <2>6. uRecOK' = IF Complete(mask, 5) /\ SumMatches(crc, ReipSum(uReip'))
                    THEN uRecOK \cup {TYPE_REIP} ELSE uRecOK
      BY DEF RecvReip
    <2>7. SumMatches(crc, ReipSum(uReip'))
      BY <2>2, <2>5 DEF SumMatches
    <2> QED
      BY <1>5, <2>6, <2>7
  <1>6. ReipAccepted'
    <2>1. Complete(uRecMask'[TYPE_REIP], 5) => TYPE_REIP \in uRecOK'
      BY <1>2, <1>5
    <2> QED
      BY <2>1 DEF ReipAccepted, Complete
  <1> QED
    BY <1>4, <1>6

\* A call that leaves a message's bookkeeping alone.
LEMMA SumsKept ==
    ASSUME TypeInv, uRecOK \subseteq uRecOK'
    PROVE  /\ \A type \in CredTypes :
                /\ SumInv(type) /\ Accepted(type)
                /\ uLen'[type] = uLen[type] /\ uRecMask'[type] = uRecMask[type]
                /\ uCrc'[type] = uCrc[type]
                => SumInv(type)' /\ Accepted(type)'
           /\ /\ ReipSumInv /\ ReipAccepted
              /\ uRecMask'[TYPE_REIP] = uRecMask[TYPE_REIP] /\ uCrc'[TYPE_REIP] = uCrc[TYPE_REIP]
              => ReipSumInv' /\ ReipAccepted'
  BY DEF SumInv, Accepted, ReipSumInv, ReipAccepted, Complete

LEMMA SumsInvInit == RxInit => SumsInv
  <1> SUFFICES ASSUME RxInit PROVE SumsInv
    OBVIOUS
  <1>1. \A type \in CredTypes : uLen[type] = 0
    BY DEF RxInit
  <1>2. uRecMask[TYPE_REIP] = {}
    BY DEF RxInit, MsgTypes
  <1>3. 0 \in 0 .. 5 - 1
    OBVIOUS
  <1> QED
    BY <1>1, <1>2, <1>3 DEF SumsInv, SumInv, Accepted, ReipSumInv, ReipAccepted, Complete

LEMMA SumsInvStep ==
    ASSUME Fits, Quiet, TypeInv, DataInv, SumsInv, [RxNext]_rxVars
    PROVE  SumsInv'
  <1>0. uRecOK \subseteq uRecOK' /\ DataInv'
    BY RecOKGrows, DataStep
  <1> USE DEF SumsInv
  <1>1. ASSUME UNCHANGED <<uLen, uRecMask, uCrc>> PROVE SumsInv'
    BY <1>0, <1>1, SumsKept
  <1>2. CASE UNCHANGED rxVars
    BY <1>1, <1>2 DEF rxVars, decodeVars
  <1>3. ASSUME NEW f \in AllFrames, NEW radio \in Channels, RecvChannel(f, radio)
        PROVE  SumsInv'
    BY <1>1, <1>3 DEF RecvChannel
  <1>4. ASSUME NEW f \in AllFrames, RecvReip(f) PROVE SumsInv'
    <2>1. ReipSumInv' /\ ReipAccepted'
      BY <1>0, <1>4, ReipSumStep DEF DataInv
    <2>2. uLen' = uLen
      BY <1>4 DEF RecvReip
    <2>3. \A t \in CredTypes : uRecMask'[t] = uRecMask[t] /\ uCrc'[t] = uCrc[t]
      BY <1>4 DEF RecvReip, TypeInv, RxTypeOK, MsgTypes, CredTypes,
                  TYPE_SSID, TYPE_PSWD, TYPE_REIP
    <2>4. \A t \in CredTypes : SumInv(t)' /\ Accepted(t)'
      BY <1>0, <2>2, <2>3, SumsKept
    <2> QED
      BY <2>1, <2>4
  <1>5. ASSUME NEW f \in AllFrames, NEW type \in CredTypes, RecvCred(type, f)
        PROVE  SumsInv'
    <2>1. StringInv(type) /\ StringInv(type)'
      BY <1>0 DEF DataInv, CredTypes
    <2>2. SumInv(type)' /\ Accepted(type)'
      BY <1>5, <2>1, OwnSumStep
    <2>3. ASSUME NEW t \in MsgTypes, t # type
          PROVE  /\ t \in CredTypes => uLen'[t] = uLen[t]
                 /\ uRecMask'[t] = uRecMask[t] /\ uCrc'[t] = uCrc[t]
      BY <1>5, <2>3 DEF RecvCred, TypeInv, RxTypeOK
    <2>4. CredTypes \subseteq MsgTypes /\ TYPE_REIP \in MsgTypes /\ TYPE_REIP # type
      BY DEF CredTypes, MsgTypes, TYPE_SSID, TYPE_PSWD, TYPE_REIP
    <2>5. ReipSumInv' /\ ReipAccepted'
      BY <1>0, <2>3, <2>4, SumsKept
    <2>6. \A t \in CredTypes : t # type => SumInv(t)' /\ Accepted(t)'
      BY <1>0, <2>3, <2>4, SumsKept
    <2> QED
      BY <2>2, <2>5, <2>6
  <1> QED
    BY <1>2, <1>3, <1>4, <1>5 DEF RxNext, STA_MonPktSend, AllFrames, CredTypes

(***************************************************************************)
(* A message whose frames have all been received is accepted: the sender's *)
(* 16-bit sum survives being cut into two bytes, and the driver computes   *)
(* the same sum over its buffer, in whatever order the frames came.        *)
(***************************************************************************)
THEOREM CompleteAccepted == Fits /\ Quiet => (RxSpec => []CompleteIsAccepted)
  <1> SUFFICES ASSUME Fits, Quiet PROVE RxSpec => []CompleteIsAccepted
    OBVIOUS
  <1>1. TypeInv /\ DataInv /\ [RxNext]_rxVars => DataInv'
    BY DataStep
  <1>2. TypeInv /\ DataInv /\ SumsInv /\ [RxNext]_rxVars => SumsInv'
    BY SumsInvStep
  <1>3. SumsInv => CompleteIsAccepted
    BY DEF SumsInv, Accepted, ReipAccepted, CompleteIsAccepted
  <1> QED
    BY <1>1, <1>2, <1>3, TypeInit, TypeStep, DataInit, SumsInvInit, PTL DEF RxSpec

-----------------------------------------------------------------------------
(* Several passwords on the air *)

\* The pairs of one of the passwords.
LEMMA PasswordPairs ==
    ASSUME Fits, NEW p \in Passwords
    PROVE  /\ NPairs \in 0 .. 16 /\ NPairs + 1 \in 1 .. Chunks
           /\ FrmCount(Len(p)) - 2 = NPairs
           /\ StrPairs(p) = [k \in 1 .. NPairs |-> StrPairs(p)[k]]
           /\ \A k \in 1 .. NPairs : StrPairs(p)[k] \in Pair
  <1>1. p \in Seq(Byte) /\ Len(p) \in Nat /\ FrmCount(Len(p)) = FrmCount(Len(Pwd))
    BY PasswordsAssumption
  <1>2. Chunks \in 1 .. 16 /\ FrmCount(Len(Pwd)) <= Chunks + 1
    BY ConstantsAssumption DEF Fits
  <1>3. FrmCount(Len(Pwd)) \in 2 .. Chunks + 2
    BY FrameCounts
  <1>4. NPairs \in 0 .. 16 /\ NPairs + 1 \in 1 .. Chunks
    <2> DEFINE n == FrmCount(Len(Pwd))
    <2>1. n \in 2 .. Chunks + 2 /\ n <= Chunks + 1 /\ NPairs = n - 2
      BY <1>2, <1>3 DEF NPairs
    <2> HIDE DEF n
    <2> QED
      BY <1>2, <2>1
  <1>5. FrmCount(Len(p)) - 2 = NPairs
    BY <1>1 DEF NPairs
  <1>6. NPairs = (Len(p) + 1) \div 2
    BY <1>1, <1>5 DEF FrmCount
  <1>7. StrPairs(p) = [k \in 1 .. NPairs |-> StrPairs(p)[k]]
    BY <1>6 DEF StrPairs
  <1>8. \A k \in 1 .. NPairs : StrPairs(p)[k] \in Pair
    BY <1>1, <1>6, StrPairsArePairs
  <1> QED
    BY <1>4, <1>5, <1>7, <1>8

\* A password of the buffer's size, padded with zeros.
LEMMA PasswordPadded ==
    ASSUME Fits, NEW p \in Passwords, NEW k \in 1 .. Chunks
    PROVE  Padded(p)[k] = IF k <= NPairs THEN StrPairs(p)[k] ELSE Zero
  <1>1. /\ NPairs \in 0 .. 16
        /\ StrPairs(p) = [j \in 1 .. NPairs |-> StrPairs(p)[j]]
    BY PasswordPairs
  <1>2. DOMAIN StrPairs(p) = 1 .. NPairs
    BY <1>1
  <1>3. k \in DOMAIN StrPairs(p) <=> k <= NPairs
    BY <1>1, <1>2, ConstantsAssumption
  <1> QED
    BY <1>3 DEF Padded

\* A password frame is a frame of one of the passwords.
LEMMA PasswordFrameOf ==
    ASSUME Fits, OnlyRetyped, NEW f \in AllFrames, FrmType(f) = TYPE_PSWD
    PROVE  \E p \in Passwords : \E i \in 0 .. NPairs + 1 : f = CredFrame(TYPE_PSWD, p, i)
  <1> USE DEF TYPE_CHANNEL, TYPE_SSID, TYPE_PSWD, TYPE_REIP
  <1>1. CASE f \in Noise
    BY <1>1 DEF OnlyRetyped
  <1>2. CASE f \notin Noise
    <2>1. FrmType(ChannelFrame) = 0
      <3>1. 0 \in 0 .. 3 /\ 0 \in 0 .. 31
        OBVIOUS
      <3> QED
        BY <3>1, Unpack, Zenon DEF ChannelFrame
    <2>2. \A i \in 0 .. 4 : FrmType(ReipFrame(Reip, i)) = 3
      BY MsgFrameParts DEF ReipFrame
    <2>3. ASSUME NEW i \in 0 .. FrmCount(Len(Ssid)) - 1
          PROVE  FrmType(CredFrame(TYPE_SSID, Ssid, i)) = 1
      <3>1. FrmCount(Len(Ssid)) \in 2 .. Chunks + 2 /\ Chunks \in 1 .. 16
        BY FrameCounts, ConstantsAssumption
      <3>2. i \in 0 .. 31
        BY <3>1
      <3> QED
        BY <3>2, MsgFrameParts DEF CredFrame
    <2>4. \E i \in 0 .. FrmCount(Len(Pwd)) - 1 : f = CredFrame(TYPE_PSWD, Pwd, i)
      BY <1>2, <2>1, <2>2, <2>3 DEF AllFrames, SenderFrames
    <2>5. Pwd \in Passwords
      BY PasswordsAssumption
    <2>6. FrmCount(Len(Pwd)) - 1 = NPairs + 1
      <3>1. FrmCount(Len(Pwd)) \in 2 .. Chunks + 2 /\ Chunks \in 1 .. 16
        BY FrameCounts, ConstantsAssumption
      <3> QED
        BY <3>1 DEF NPairs
    <2> QED
      BY <2>4, <2>5, <2>6
  <1> QED
    BY <1>1, <1>2

LEMMA PasswordFrames ==
    ASSUME Fits, OnlyRetyped, NEW f \in AllFrames, FrmType(f) = TYPE_PSWD
    PROVE  LET i == FrmIndex(f)
           IN  /\ i \in 0 .. NPairs + 1
               /\ i = 0 => f.a4 = MAGIC /\ f.a5 = NPairs + 2
               /\ i \in 1 .. NPairs => FrmData(f) \in PairsAt(i)
               /\ i = NPairs + 1 =>
                    \E s \in SumsOf : Word(FrmData(f)) = MAGIC + (NPairs + 2) + s
  <1>1. PICK p \in Passwords : \E i \in 0 .. NPairs + 1 : f = CredFrame(TYPE_PSWD, p, i)
    BY PasswordFrameOf
  <1>2. PICK i \in 0 .. NPairs + 1 : f = CredFrame(TYPE_PSWD, p, i)
    BY <1>1
  <1>3. /\ NPairs \in 0 .. 16 /\ FrmCount(Len(p)) - 2 = NPairs
        /\ \A k \in 1 .. NPairs : StrPairs(p)[k] \in Pair
    BY PasswordPairs
  <1> DEFINE q == StrPairs(p)
             m == NPairs
  <1>4. f = MsgFrame(2, q, m, i)
    BY <1>2, <1>3 DEF CredFrame, TYPE_PSWD
  <1>5. PairsAt(i) = {StrPairs(r)[i] : r \in Passwords} /\ SumsOf = {PairSum(StrPairs(r), m) : r \in Passwords}
    BY DEF PairsAt, SumsOf
  <1>6. q[i] \in PairsAt(i) /\ PairSum(q, m) \in SumsOf
    BY <1>5
  <1>7. m \in 0 .. 16 /\ i \in 0 .. m + 1 /\ \A k \in 1 .. m : q[k] \in Pair
    BY <1>3
  <1> HIDE DEF q, m
  <1>8. i \in 0 .. 31 /\ 2 \in 0 .. 3 /\ m \in Nat
    BY <1>7
  <1>9. FrmIndex(f) = i
    BY <1>4, <1>8, MsgFrameParts
  <1>10. i = 0 => f.a4 = MAGIC /\ f.a5 = m + 2
    BY <1>4, <1>8, MsgFrameData
  <1>11. ASSUME i \in 1 .. m PROVE FrmData(f) = q[i]
    <2>1. q[i] \in Pair
      BY <1>7, <1>11
    <2> QED
      BY <1>4, <1>8, <1>11, <2>1, MsgFrameData, ZenonT(30)
  <1>12. ASSUME i = m + 1 PROVE Word(FrmData(f)) = MAGIC + (m + 2) + PairSum(q, m)
    BY <1>4, <1>7, <1>8, <1>12, MsgFrameIsFrame
  <1>13. /\ FrmIndex(f) \in 0 .. m + 1
         /\ FrmIndex(f) = 0 => f.a4 = MAGIC /\ f.a5 = m + 2
         /\ FrmIndex(f) \in 1 .. m => FrmData(f) \in PairsAt(FrmIndex(f))
    BY <1>6, <1>7, <1>9, <1>10, <1>11
  <1>14. FrmIndex(f) = m + 1 => \E s \in SumsOf : Word(FrmData(f)) = MAGIC + (m + 2) + s
    BY <1>6, <1>9, <1>12
  <1> QED
    BY <1>13, <1>14 DEF m


\* A frame of a password: MixedInv, clause by clause.
LEMMA PasswordStep ==
    ASSUME Fits, OnlyRetyped, TypeInv, MixedInv, NEW f \in AllFrames,
           RecvCred(TYPE_PSWD, f)
    PROVE  MixedInv'
  <1> DEFINE t == TYPE_PSWD
             n == NPairs + 2
             i == FrmIndex(f)
             start == i = 0 /\ f.a4 = MAGIC
             len == IF start THEN f.a5 ELSE uLen[t]
             isCrc == ~start /\ i = len - 1
             mask == IF start THEN {0} ELSE uRecMask[t] \cup {i}
             crc == IF start THEN 0
                    ELSE IF isCrc THEN Word(FrmData(f)) ELSE uCrc[t]
  <1>1. /\ i \in 0 .. NPairs + 1 /\ (i = 0 => start /\ f.a5 = n)
        /\ i \in 1 .. NPairs => FrmData(f) \in PairsAt(i)
        /\ i = NPairs + 1 => \E s \in SumsOf : Word(FrmData(f)) = MAGIC + n + s
    <2>1. FrmType(f) = TYPE_PSWD
      BY DEF RecvCred
    <2> QED
      BY <2>1, PasswordFrames
  <1>2. NPairs \in 0 .. 16 /\ NPairs + 1 \in 1 .. Chunks /\ Chunks \in Nat
    <2>1. Pwd \in Passwords /\ Chunks \in Nat
      BY PasswordsAssumption, ConstantsAssumption
    <2> QED
      BY <2>1, PasswordPairs
  <1>3. /\ t \in MsgTypes /\ t \in CredTypes /\ uLen \in [CredTypes -> 0 .. Chunks + 2]
        /\ uRecMask \in [MsgTypes -> SUBSET (0 .. 31)] /\ uCrc \in [MsgTypes -> Nat]
        /\ buf \in [BufCells -> Pair]
    BY DEF TypeInv, RxTypeOK, MsgTypes, CredTypes
  <1>4. uLen'[t] = len /\ uRecMask'[t] = mask /\ uCrc'[t] = crc
    BY <1>3 DEF RecvCred
  <1>5. len \in {0, n} /\ (len = 0 => 0 \notin mask)
    <2>1. n # 0
      BY <1>2
    <2>2. CASE start
      BY <1>1, <2>1, <2>2
    <2>3. CASE ~start
      BY <1>1, <2>3 DEF MixedInv
    <2> QED
      BY <2>2, <2>3
  <1>6. ASSUME len # 0, NEW k \in 1 .. Chunks
        PROVE  IF k \in mask /\ k <= NPairs
               THEN buf'[Cell(t, k)] \in PairsAt(k)
               ELSE buf'[Cell(t, k)] = Zero
    <2>0. Cell(t, k) \in BufCells /\ len = n /\ k \in Nat /\ k # 0
      BY <1>3, <1>5, <1>6, Disjoint
    <2>1. CASE start
      <3>1. buf' = Erased(t)
        BY <2>1 DEF RecvCred
      <3>2. buf'[Cell(t, k)] = Zero
        BY <2>0, <3>1 DEF Erased
      <3>3. k \notin mask
        BY <2>0, <2>1
      <3> QED
        BY <3>2, <3>3
    <2>2. uLen[t] # 0 /\ ~start =>
             IF k \in uRecMask[t] /\ k <= NPairs
             THEN buf[Cell(t, k)] \in PairsAt(k)
             ELSE buf[Cell(t, k)] = Zero
      BY DEF MixedInv
    <2>3. CASE ~start /\ i = n - 1
      <3>1. buf' = buf
        BY <2>0, <2>3 DEF RecvCred
      <3>2. uLen[t] # 0
        BY <1>6, <2>3
      <3>3. k <= NPairs => k # i
        BY <1>2, <2>3
      <3>4. k \in mask /\ k <= NPairs <=> k \in uRecMask[t] /\ k <= NPairs
        BY <2>3, <3>3
      <3> QED
        BY <2>2, <2>3, <3>1, <3>2, <3>4
    <2>4. CASE ~start /\ i # n - 1
      <3>1. i \in 1 .. NPairs /\ i \in 1 .. Chunks
        BY <1>1, <1>2, <2>4
      <3>2. buf' = [buf EXCEPT ![Cell(t, i)] = FrmData(f)]
        BY <2>0, <2>4 DEF RecvCred
      <3>3. uLen[t] # 0
        BY <1>6, <2>4
      <3>4. CASE k = i
        <4>1. buf'[Cell(t, k)] = FrmData(f)
          BY <1>3, <2>0, <3>2, <3>4
        <4>2. k \in mask /\ k <= NPairs
          BY <1>2, <2>4, <3>1, <3>4
        <4> QED
          BY <1>1, <3>1, <3>4, <4>1, <4>2
      <3>5. CASE k # i
        <4>1. Cell(t, k) # Cell(t, i)
          BY <1>3, <3>1, <3>5, Disjoint
        <4>2. buf'[Cell(t, k)] = buf[Cell(t, k)]
          BY <1>3, <2>0, <3>2, <4>1
        <4>3. k \in mask <=> k \in uRecMask[t]
          BY <2>4, <3>5
        <4> QED
          BY <2>2, <2>4, <3>3, <4>2, <4>3
      <3> QED
        BY <3>4, <3>5
    <2> QED
      BY <2>1, <2>3, <2>4
  <1>7. ASSUME len # 0, NPairs + 1 \in mask
        PROVE  \E s \in SumsOf : crc = MAGIC + n + s
    <2>1. len = n /\ NPairs + 1 # 0 /\ n - 1 = NPairs + 1
      BY <1>2, <1>5, <1>7
    <2>2. ~start /\ uLen[t] = n
      BY <1>7, <2>1
    <2>3. CASE i = NPairs + 1
      <3>1. crc = Word(FrmData(f))
        BY <2>1, <2>2, <2>3
      <3> QED
        BY <1>1, <2>3, <3>1
    <2>4. CASE i # NPairs + 1
      <3>1. NPairs + 1 \in uRecMask[t] /\ crc = uCrc[t]
        BY <1>7, <2>1, <2>2, <2>4
      <3>2. \E s \in SumsOf : uCrc[t] = MAGIC + n + s
        BY <1>7, <2>2, <3>1 DEF MixedInv
      <3> QED
        BY <3>1, <3>2
    <2> QED
      BY <2>3, <2>4
  <1>8. ASSUME TYPE_PSWD \in uRecOK'
        PROVE  len # 0 /\ Complete(mask, len) /\ crc = CredSum(t, buf', n)
    <2>1. Complete(mask, Wanted(len)) /\ SumMatches(crc, CredSum(t, buf', len))
      BY <1>8 DEF RecvCred, Ignored
    <2>2. len # 0
      BY <1>5, <2>1 DEF Complete, Wanted
    <2>3. Wanted(len) = len /\ len = n
      BY <1>5, <2>2 DEF Wanted
    <2> QED
      BY <2>1, <2>2, <2>3 DEF SumMatches
  <1>9. uLen'[TYPE_PSWD] \in {0, NPairs + 2} /\ (uLen'[TYPE_PSWD] = 0 => 0 \notin uRecMask'[TYPE_PSWD])
    BY <1>4, <1>5
  <1>10. uLen'[TYPE_PSWD] # 0 => \A k \in 1 .. Chunks :
            IF k \in uRecMask'[TYPE_PSWD] /\ k <= NPairs
            THEN buf'[Cell(TYPE_PSWD, k)] \in PairsAt(k)
            ELSE buf'[Cell(TYPE_PSWD, k)] = Zero
    BY <1>4, <1>6
  <1>11. uLen'[TYPE_PSWD] # 0 /\ NPairs + 1 \in uRecMask'[TYPE_PSWD] =>
            \E s \in SumsOf : uCrc'[TYPE_PSWD] = MAGIC + (NPairs + 2) + s
    BY <1>4, <1>7
  <1>12. TYPE_PSWD \in uRecOK' =>
            /\ uLen'[TYPE_PSWD] # 0 /\ Complete(uRecMask'[TYPE_PSWD], uLen'[TYPE_PSWD])
            /\ uCrc'[TYPE_PSWD] = CredSum(TYPE_PSWD, buf', NPairs + 2)
    BY <1>4, <1>8
  <1> QED
    BY <1>9, <1>10, <1>11, <1>12 DEF MixedInv, Complete, CredSum


\* A call that leaves the password alone.
LEMMA MixedKept ==
    ASSUME Fits, MixedInv,
           uLen'[TYPE_PSWD] = uLen[TYPE_PSWD], uRecMask'[TYPE_PSWD] = uRecMask[TYPE_PSWD],
           uCrc'[TYPE_PSWD] = uCrc[TYPE_PSWD], TYPE_PSWD \in uRecOK' <=> TYPE_PSWD \in uRecOK,
           \A k \in 1 .. Chunks : buf'[Cell(TYPE_PSWD, k)] = buf[Cell(TYPE_PSWD, k)]
    PROVE  MixedInv'
  <1>1. NPairs \in 0 .. 16 /\ NPairs + 1 \in 1 .. Chunks /\ Chunks \in Nat
    <2>1. Pwd \in Passwords /\ Chunks \in Nat
      BY PasswordsAssumption, ConstantsAssumption
    <2> QED
      BY <2>1, PasswordPairs
  <1>2. (NPairs + 2) - 2 = NPairs /\ \A k \in 1 .. NPairs : k \in 1 .. Chunks
    BY <1>1
  <1>3. [k \in 1 .. NPairs |-> buf'[Cell(TYPE_PSWD, k)]] = [k \in 1 .. NPairs |-> buf[Cell(TYPE_PSWD, k)]]
    BY <1>2
  <1>4. CredSum(TYPE_PSWD, buf', NPairs + 2) = CredSum(TYPE_PSWD, buf, NPairs + 2)
    BY <1>2, <1>3, Zenon DEF CredSum
  <1>5. uLen'[TYPE_PSWD] # 0 => \A k \in 1 .. Chunks :
            IF k \in uRecMask'[TYPE_PSWD] /\ k <= NPairs
            THEN buf'[Cell(TYPE_PSWD, k)] \in PairsAt(k)
            ELSE buf'[Cell(TYPE_PSWD, k)] = Zero
    BY DEF MixedInv
  <1>6. uLen'[TYPE_PSWD] # 0 /\ NPairs + 1 \in uRecMask'[TYPE_PSWD] =>
            \E s \in SumsOf : uCrc'[TYPE_PSWD] = MAGIC + (NPairs + 2) + s
    BY DEF MixedInv
  <1>7. TYPE_PSWD \in uRecOK' =>
            /\ uLen'[TYPE_PSWD] # 0 /\ Complete(uRecMask'[TYPE_PSWD], uLen'[TYPE_PSWD])
            /\ uCrc'[TYPE_PSWD] = CredSum(TYPE_PSWD, buf', NPairs + 2)
    BY <1>4 DEF MixedInv
  <1>8. uLen'[TYPE_PSWD] \in {0, NPairs + 2} /\ (uLen'[TYPE_PSWD] = 0 => 0 \notin uRecMask'[TYPE_PSWD])
    BY DEF MixedInv
  <1> QED
    BY <1>5, <1>6, <1>7, <1>8 DEF MixedInv, Complete, CredSum

LEMMA MixedInit == RxInit => MixedInv /\ ReipInv
  <1> SUFFICES ASSUME RxInit PROVE MixedInv /\ ReipInv
    OBVIOUS
  <1>1. uLen[TYPE_PSWD] = 0 /\ uRecMask[TYPE_PSWD] = {} /\ uRecOK = {}
    BY DEF RxInit, CredTypes, MsgTypes
  <1>2. ReipInv
    BY DEF RxInit, ReipInv, MsgTypes
  <1> QED
    BY <1>1, <1>2 DEF MixedInv

LEMMA MixedStep ==
    ASSUME Fits, OnlyRetyped, TypeInv, MixedInv, ReipInv, [RxNext]_rxVars
    PROVE  MixedInv' /\ ReipInv'
  <1> USE DEF TYPE_CHANNEL, TYPE_SSID, TYPE_PSWD, TYPE_REIP
  <1>0. OwnReip /\ OwnString(TYPE_SSID)
    <2>1. ASSUME NEW p \in Passwords, NEW i \in 0 .. NPairs + 1
          PROVE  FrmType(CredFrame(TYPE_PSWD, p, i)) = 2
      <3>0. NPairs \in 0 .. 16
        BY PasswordPairs
      <3>1. i \in 0 .. 31 /\ 2 \in 0 .. 3
        BY <3>0
      <3> QED
        BY <3>1, MsgFrameParts DEF CredFrame
    <2>2. \A f \in Noise : \/ FrmType(f) = 0
                           \/ FrmType(f) = 3 /\ FrmIndex(f) > 4
                           \/ FrmType(f) = 2
      BY <2>1 DEF OnlyRetyped
    <2> QED
      BY <2>2 DEF OwnReip, OwnString
  <1>1. CASE UNCHANGED rxVars
    <2>1. MixedInv'
      BY <1>1, MixedKept DEF rxVars, decodeVars
    <2>2. ReipInv'
      BY <1>1 DEF rxVars, decodeVars, ReipInv
    <2> QED
      BY <2>1, <2>2
  <1>2. ASSUME NEW f \in AllFrames, NEW radio \in Channels, RecvChannel(f, radio)
        PROVE  MixedInv' /\ ReipInv'
    <2>1. UNCHANGED <<uLen, uReip, buf, uRecMask, uCrc>>
      BY <1>2 DEF RecvChannel
    <2>2. \A t \in {2, 3} : t \in uRecOK' <=> t \in uRecOK
      BY <1>2 DEF RecvChannel
    <2>3. MixedInv'
      BY <2>1, <2>2, MixedKept
    <2>4. ReipInv'
      BY <2>1, <2>2 DEF ReipInv
    <2> QED
      BY <2>3, <2>4
  <1>3. ASSUME NEW f \in AllFrames, RecvReip(f) PROVE MixedInv' /\ ReipInv'
    <2>1. UNCHANGED <<uLen, buf>> /\ (2 \in uRecOK' <=> 2 \in uRecOK)
      BY <1>3 DEF RecvReip
    <2>2. uRecMask'[TYPE_PSWD] = uRecMask[TYPE_PSWD] /\ uCrc'[TYPE_PSWD] = uCrc[TYPE_PSWD]
      BY <1>3 DEF RecvReip, TypeInv, RxTypeOK, MsgTypes
    <2>3. MixedInv'
      BY <2>1, <2>2, MixedKept
    <2> QED
      BY <1>0, <1>3, <2>3, ReipStep
  <1>4. ASSUME NEW f \in AllFrames, NEW type \in CredTypes, RecvCred(type, f)
        PROVE  MixedInv' /\ ReipInv'
    <2>1. UNCHANGED uReip /\ uRecMask'[TYPE_REIP] = uRecMask[TYPE_REIP]
          /\ (3 \in uRecOK' <=> 3 \in uRecOK)
      BY <1>4 DEF RecvCred, TypeInv, RxTypeOK, MsgTypes, CredTypes
    <2>2. ReipInv'
      BY <2>1 DEF ReipInv
    <2>3. CASE type = TYPE_PSWD
      BY <1>4, <2>2, <2>3, PasswordStep
    <2>4. CASE type = TYPE_SSID
      <3>1. TYPE_PSWD \in CredTypes /\ TYPE_SSID \in CredTypes /\ TYPE_SSID # TYPE_PSWD
        BY DEF CredTypes
      <3>2. /\ uLen'[TYPE_PSWD] = uLen[TYPE_PSWD] /\ uRecMask'[TYPE_PSWD] = uRecMask[TYPE_PSWD]
            /\ uCrc'[TYPE_PSWD] = uCrc[TYPE_PSWD]
            /\ TYPE_PSWD \in uRecOK' <=> TYPE_PSWD \in uRecOK
            /\ \A k \in 1 .. Chunks : buf'[Cell(TYPE_PSWD, k)] = buf[Cell(TYPE_PSWD, k)]
        BY <1>0, <1>4, <2>4, <3>1, OtherStringKeeps
      <3> QED
        BY <2>2, <3>2, MixedKept
    <2> QED
      BY <2>3, <2>4 DEF CredTypes
  <1> QED
    BY <1>1, <1>2, <1>3, <1>4 DEF RxNext, STA_MonPktSend, AllFrames, CredTypes

\* The mixture that was accepted has the sum of a password, so it is one.
LEMMA MixedIsWhole ==
    ASSUME Fits, Distinguishable, TypeInv, MixedInv, TYPE_PSWD \in uRecOK
    PROVE  \E p \in Passwords : Held(TYPE_PSWD) = Padded(p)
  <1> DEFINE m == [k \in 1 .. NPairs |-> buf[Cell(TYPE_PSWD, k)]]
  <1>1. NPairs \in 0 .. 16 /\ NPairs + 1 \in 1 .. Chunks /\ Chunks \in Nat
    <2>1. Pwd \in Passwords /\ Chunks \in Nat
      BY PasswordsAssumption, ConstantsAssumption
    <2> QED
      BY <2>1, PasswordPairs
  <1>2. /\ uLen[TYPE_PSWD] = NPairs + 2 /\ uLen[TYPE_PSWD] # 0
        /\ \A k \in 0 .. NPairs + 1 : k \in uRecMask[TYPE_PSWD]
    <2>1. uLen[TYPE_PSWD] = NPairs + 2 /\ uLen[TYPE_PSWD] # 0
      BY DEF MixedInv
    <2>2. 0 .. (NPairs + 2) - 1 \subseteq uRecMask[TYPE_PSWD]
      BY <2>1 DEF MixedInv, Complete
    <2>3. (NPairs + 2) - 1 = NPairs + 1
      BY <1>1
    <2> QED
      BY <2>1, <2>2, <2>3
  <1>3. \A k \in 1 .. Chunks : IF k <= NPairs THEN buf[Cell(TYPE_PSWD, k)] \in PairsAt(k)
                               ELSE buf[Cell(TYPE_PSWD, k)] = Zero
    <2> TAKE k \in 1 .. Chunks
    <2>1. k <= NPairs => k \in uRecMask[TYPE_PSWD]
      BY <1>1, <1>2
    <2> QED
      BY <1>2, <2>1 DEF MixedInv
  <1>4. \A k \in 1 .. NPairs : k \in 1 .. Chunks /\ k <= NPairs
    BY <1>1
  <1>5. \A k \in 1 .. NPairs : m[k] \in PairsAt(k)
    BY <1>3, <1>4
  <1>6. m \in Mixtures
    <2>1. \A k \in 1 .. NPairs : m[k] \in UNION {PairsAt(j) : j \in 1 .. NPairs}
      BY <1>5
    <2> QED
      BY <1>5, <2>1 DEF Mixtures
  <1>7. PairSum(m, NPairs) \in Nat
    <2>1. \A k \in 1 .. NPairs : m[k] \in Pair
      <3>1. \A k \in 1 .. NPairs : Cell(TYPE_PSWD, k) \in BufCells
        BY <1>4, Disjoint DEF CredTypes
      <3> QED
        BY <3>1 DEF TypeInv, RxTypeOK
    <2> HIDE DEF m
    <2> QED
      BY <1>1, <2>1, PairSumBound
  <1>8. PICK p \in Passwords : uCrc[TYPE_PSWD] = MAGIC + (NPairs + 2) + PairSum(StrPairs(p), NPairs)
    <2>1. NPairs + 1 \in uRecMask[TYPE_PSWD]
      BY <1>1, <1>2
    <2>2. \E s \in SumsOf : uCrc[TYPE_PSWD] = MAGIC + (NPairs + 2) + s
      BY <1>2, <2>1 DEF MixedInv
    <2> QED
      BY <2>2 DEF SumsOf
  <1>9. PairSum(StrPairs(p), NPairs) \in Nat
    <2>1. \A k \in 1 .. NPairs : StrPairs(p)[k] \in Pair
      BY PasswordPairs
    <2> DEFINE q == StrPairs(p)
    <2> HIDE DEF q
    <2>2. \A k \in 1 .. NPairs : q[k] \in Pair
      BY <2>1 DEF q
    <2>3. PairSum(q, NPairs) \in Nat
      BY <1>1, <2>2, PairSumBound
    <2> QED
      BY <2>3 DEF q
  <1>10. uCrc[TYPE_PSWD] = NPairs + 2 + MAGIC + PairSum(m, NPairs)
    <2>1. (NPairs + 2) - 2 = NPairs
      BY <1>1
    <2>2. CredSum(TYPE_PSWD, buf, NPairs + 2) = NPairs + 2 + MAGIC + PairSum(m, NPairs)
      BY <2>1, Zenon DEF CredSum
    <2> QED
      BY <2>2 DEF MixedInv
  <1>11. PairSum(m, NPairs) = PairSum(StrPairs(p), NPairs)
    <2> HIDE DEF m
    <2> QED
      BY <1>1, <1>7, <1>8, <1>9, <1>10 DEF MAGIC
  <1>12. PICK r \in Passwords : m = StrPairs(r)
    <2>1. PairSum(StrPairs(p), NPairs) \in SumsOf
      BY DEF SumsOf
    <2> HIDE DEF m
    <2>2. m \in {StrPairs(r) : r \in Passwords}
      BY <1>6, <1>11, <2>1 DEF Distinguishable
    <2> QED
      BY <2>2
  <1>13. ASSUME NEW k \in 1 .. Chunks PROVE buf[Cell(TYPE_PSWD, k)] = Padded(r)[k]
    <2>1. Padded(r)[k] = IF k <= NPairs THEN StrPairs(r)[k] ELSE Zero
      BY PasswordPadded
    <2>2. k <= NPairs => buf[Cell(TYPE_PSWD, k)] = StrPairs(r)[k]
      <3> SUFFICES ASSUME k <= NPairs PROVE buf[Cell(TYPE_PSWD, k)] = StrPairs(r)[k]
        OBVIOUS
      <3>1. k \in 1 .. NPairs
        BY <1>1
      <3>2. m[k] = buf[Cell(TYPE_PSWD, k)]
        BY <3>1
      <3> QED
        BY <1>12, <3>2
    <2> QED
      BY <1>3, <2>1, <2>2
  <1>14. Held(TYPE_PSWD) = Padded(r)
    BY <1>13 DEF Held, Padded
  <1> QED
    BY <1>14

(***************************************************************************)
(* Passwords stay whole when the sender is started again: for every set of *)
(* passwords of one length whose sums tell their mixtures apart, whatever  *)
(* else the sender broadcasts, the driver accepts only a password that was *)
(* sent.  The hypothesis on the sums is needed: the sum is all the driver  *)
(* compares.                                                               *)
(***************************************************************************)
THEOREM PasswordsStayWhole ==
    Fits /\ OnlyRetyped /\ Distinguishable => (RxSpec => []AcceptedWhole)
  <1> SUFFICES ASSUME Fits, OnlyRetyped, Distinguishable PROVE RxSpec => []AcceptedWhole
    OBVIOUS
  <1>1. TypeInv /\ (MixedInv /\ ReipInv) /\ [RxNext]_rxVars => (MixedInv /\ ReipInv)'
    BY MixedStep
  <1>2. TypeInv /\ (MixedInv /\ ReipInv) => AcceptedWhole
    <2> SUFFICES ASSUME TypeInv, MixedInv, ReipInv PROVE AcceptedWhole
      OBVIOUS
    <2>1. TYPE_REIP \in uRecOK => uReip = Reip
      BY ReipWhole
    <2> QED
      BY <2>1, MixedIsWhole DEF AcceptedWhole
  <1> QED
    BY <1>1, <1>2, TypeInit, TypeStep, MixedInit, PTL DEF RxSpec


=============================================================================
