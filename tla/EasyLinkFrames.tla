--------------------------- MODULE EasyLinkFrames ---------------------------
(***************************************************************************)
(* The frames of the EasyConnect broadcast.  The sender                    *)
(* (src/multicast/multi_cilent.c) hides the Wi-Fi credentials in the       *)
(* ADDRESSES of UDP multicasts: one datagram to 238.x.d0.d1 carries three  *)
(* bytes, a type and an index packed in x, and a pair of data bytes.  A    *)
(* station in monitor mode reads them back from the destination MAC        *)
(* address 01:00:5e:..., whose last three bytes are the frame here.        *)
(***************************************************************************)
EXTENDS Integers, Sequences

TYPE_CHANNEL == 0
TYPE_SSID    == 1
TYPE_PSWD    == 2
TYPE_REIP    == 3

CredTypes == {TYPE_SSID, TYPE_PSWD}

Byte == 0 .. 255
Pair == Byte \X Byte

MAGIC == 170    \* 0xAA, first data byte of every frame with index 0

(***************************************************************************)
(* Addr3[3], Addr3[4], Addr3[5] of the frame on the air.  Mapping a        *)
(* multicast IP address to a MAC address keeps its low 23 bits, so the top *)
(* bit of x is lost.                                                       *)
(***************************************************************************)
Frame == [a3 : 0 .. 127, a4 : Byte, a5 : Byte]

MakeSendFrm(type, index, pData) ==
    [a3 |-> (type * 32 + index) % 128, a4 |-> pData[1], a5 |-> pData[2]]

\* Mutant: NUMMASK is not applied.
UnmaskedIndex(f) == f.a3

FrmType(f)  == (f.a3 \div 32) % 4
FrmIndex(f) == f.a3 % 32
FrmData(f)  == <<f.a4, f.a5>>

-----------------------------------------------------------------------------
(* Checksums: 16-bit sums of bytes, high byte first on the wire. *)

\* Sum of the bytes of the pairs p[1] .. p[n].
PairSum(p, n) ==
    LET S[k \in 0 .. n] == IF k = 0 THEN 0 ELSE S[k - 1] + p[k][1] + p[k][2]
    IN  S[n]

WordSize == 65536   \* a sum is an unsigned short

Word(d) == d[1] * 256 + d[2]
WordPair(w) == <<(w % WordSize) \div 256, w % 256>>

-----------------------------------------------------------------------------
(* What WifiEasyConnect builds when bChanged = 1. *)

\* Number of frames of a string of n bytes: header, pairs, checksum.
FrmCount(n) == (n + 1) \div 2 + 2

\* The string cut into pairs; an odd one is padded with a zero byte.
StrPairs(str) ==
    [k \in 1 .. (Len(str) + 1) \div 2 |->
        <<str[2 * k - 1], IF 2 * k > Len(str) THEN 0 ELSE str[2 * k]>>]

\* Frame i (0 .. n + 1) of a message of n data pairs p.
MsgFrame(type, p, n, i) ==
    MakeSendFrm(type, i,
        IF i = 0 THEN <<MAGIC, n + 2>>
        ELSE IF i = n + 1 THEN WordPair(MAGIC + (n + 2) + PairSum(p, n))
        ELSE p[i])

ChannelFrame == MakeSendFrm(TYPE_CHANNEL, 0, <<1, 2>>)

\* reip: the high and low half of g_IfIPAddr, then g_IfPort, as pairs.
ReipFrame(reip, i) == MsgFrame(TYPE_REIP, reip, 3, i)

CredFrame(type, str, i) ==
    MsgFrame(type, StrPairs(str), FrmCount(Len(str)) - 2, i)

\* One round: the order in which the frames are sent, round after round.
Round(ssid, pwd, reip) ==
    [i \in 1 .. 4 |-> ChannelFrame]
    \o [i \in 1 .. 5 |-> ReipFrame(reip, i - 1)]
    \o [i \in 1 .. FrmCount(Len(pwd)) |-> CredFrame(TYPE_PSWD, pwd, i - 1)]
    \o [i \in 1 .. FrmCount(Len(ssid)) |-> CredFrame(TYPE_SSID, ssid, i - 1)]
=============================================================================
