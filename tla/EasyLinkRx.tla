----------------------------- MODULE EasyLinkRx -----------------------------
(***************************************************************************)
(* The receiver of the EasyConnect broadcast: STA_MonPktSend of the Wi-Fi  *)
(* driver (src/smart_config/other/rt_profile.c), called for every frame    *)
(* the radio hears in monitor mode.  It reassembles four messages from     *)
(* single frames that may be lost, repeated or reordered, and broadcasts   *)
(* the result over netlink, at most once per kind.                         *)
(*                                                                         *)
(* The C statics are the variables below; a bit mask is the set of its one *)
(* bits.  uPwd[32] and uSSID[32] are adjacent members of TEasyLink, so     *)
(* they are one memory `buf' of byte pairs: pairs 1 .. Chunks are uPwd,    *)
(* pairs Chunks + 1 .. 2 * Chunks are uSSID, and a store past the end of   *)
(* uPwd lands in uSSID, as it does in the code.                            *)
(***************************************************************************)
EXTENDS EasyLinkFrames

CONSTANTS
    Chunks,     \* pairs of uPwd and of uSSID: 16 in the source
    Channels,   \* radio channels the station can be tuned to
    Ssid, Pwd,  \* the strings the sender was started with
    Reip,       \* its address and port, as three pairs
    Noise       \* frames of other stations

ASSUME ConstantsAssumption ==
    /\ Chunks \in Nat \ {0}
    /\ Chunks <= 16
    /\ Channels \subseteq Byte
    /\ Ssid \in Seq(Byte) /\ Len(Ssid) <= 2 * Chunks
    /\ Pwd  \in Seq(Byte) /\ Len(Pwd)  <= 2 * Chunks
    /\ Reip \in [1 .. 3 -> Pair]
    /\ Noise \subseteq Frame
    \* Other stations that use the two string types speak this protocol:
    \* their frame 0 announces a length the buffers can hold.
    /\ \A f \in Noise : FrmType(f) \in CredTypes =>
         /\ FrmIndex(f) <= Chunks + 1
         /\ FrmIndex(f) = 0 => f.a4 = MAGIC /\ f.a5 \in 2 .. Chunks + 2

NET_LINK_CHANNEL  == 1
NET_LINK_SSIDPWD  == 2
NET_LINK_REIPPORT == 3

VARIABLES
    uLen,        \* uPwdLen, uSSIDlen: announced number of frames, by type
    uChannel, uLinkType, uRecOK,
    uReip,       \* uIP (pairs 1, 2) and uPort (pair 3)
    buf,         \* uPwd followed by uSSID
    uRecMask, uCrc,
    iRecOk, iRecSsidPwd, iRecIp, iRecChannel,
    told         \* every netlink message broadcast so far

decodeVars == <<uLen, uChannel, uLinkType, uRecOK, uReip, buf, uRecMask, uCrc>>
notifyVars == <<iRecOk, iRecSsidPwd, iRecIp, iRecChannel, told>>
rxVars == <<decodeVars, notifyVars>>

MsgTypes == {TYPE_SSID, TYPE_PSWD, TYPE_REIP}

\* Memory of the two strings, and the pair behind uSSID.
BufCells == 1 .. 2 * Chunks + 1

\* Where pair k of a string is kept.
Cell(type, k) == IF type = TYPE_PSWD THEN k ELSE Chunks + k

Zero == <<0, 0>>

RxInit ==
    /\ uLen = [t \in CredTypes |-> 0]
    /\ uChannel = 0 /\ uLinkType = 0
    /\ uRecOK = {}
    /\ uReip = [k \in 1 .. 3 |-> Zero]
    /\ buf = [c \in BufCells |-> Zero]
    /\ uRecMask = [t \in MsgTypes |-> {}]
    /\ uCrc = [t \in MsgTypes |-> 0]
    /\ iRecOk = 0 /\ iRecSsidPwd = 0 /\ iRecIp = 0 /\ iRecChannel = 0
    /\ told = <<>>

-----------------------------------------------------------------------------
(* x | y on bytes *)

Bit(x, y, w) == IF (x \div w) % 2 = 1 \/ (y \div w) % 2 = 1 THEN w ELSE 0

Or(x, y) == Bit(x, y, 128) + Bit(x, y, 64) + Bit(x, y, 32) + Bit(x, y, 16)
            + Bit(x, y, 8) + Bit(x, y, 4) + Bit(x, y, 2) + Bit(x, y, 1)

OrPair(p, q) == <<Or(p[1], q[1]), Or(p[2], q[2])>>

-----------------------------------------------------------------------------
(***************************************************************************)
(* The tail of STA_MonPktSend, after the frame has been decoded.  ip and   *)
(* channel are iRecIp and iRecChannel as the decoding left them.  At most  *)
(* one flag goes from 1 to 2, and the message broadcast is a copy of the   *)
(* whole TEasyLink as it is then.                                          *)
(***************************************************************************)
Snapshot ==
    [uLinkType |-> uLinkType, uChannel |-> uChannel, uReip |-> uReip,
     uPwd  |-> [k \in 1 .. Chunks |-> buf[k]],
     uSSID |-> [k \in 1 .. Chunks |-> buf[Chunks + k]]]

\* Mutants: announce on the first string; stop with two of three told.
EitherString(recOK) == recOK \cap CredTypes # {}
TwoTold(channel, ssidPwd, ip) == channel = 2 /\ ssidPwd = 2

BothStrings(recOK) == CredTypes \subseteq recOK

AllTold(channel, ssidPwd, ip) == channel = 2 /\ ssidPwd = 2 /\ ip = 2

Notify(ip, channel) ==
    LET ssidPwd == IF iRecSsidPwd = 0 /\ BothStrings(uRecOK')
                   THEN 1 ELSE iRecSsidPwd
    IN  /\ iRecSsidPwd' = IF ssidPwd = 1 THEN 2 ELSE ssidPwd
        /\ iRecIp'      = IF ssidPwd # 1 /\ ip = 1 THEN 2 ELSE ip
        /\ iRecChannel' = IF ssidPwd # 1 /\ ip # 1 /\ channel = 1
                          THEN 2 ELSE channel
        /\ told' = IF 1 \in {ssidPwd, ip, channel}
                   THEN Append(told, Snapshot') ELSE told
        /\ iRecOk' = IF AllTold(iRecChannel', iRecSsidPwd', iRecIp')
                     THEN 1 ELSE iRecOk

\* Mutant: complete messages are decoded again.
IgnoredOnlyAtEnd(f) == iRecOk = 1

\* A frame of a message that is already complete: goto err_free_sk_buff.
Ignored(f) == iRecOk = 1 \/ FrmType(f) \in uRecOK

-----------------------------------------------------------------------------
(* One action per frame type. *)

RecvChannel(f, radio) ==
    /\ FrmType(f) = TYPE_CHANNEL
    /\ ~Ignored(f)
    /\ LET match == FrmData(f) = <<1, 2>>
       IN  /\ uChannel'  = IF match THEN radio ELSE uChannel
           /\ uRecOK'    = IF match THEN uRecOK \cup {TYPE_CHANNEL} ELSE uRecOK
           /\ uLinkType' = IF match THEN NET_LINK_CHANNEL ELSE uLinkType
           /\ UNCHANGED <<uLen, uReip, buf, uRecMask, uCrc>>
           /\ Notify(iRecIp, IF match THEN 1 ELSE iRecChannel)

\* Frames 0 .. n - 1 have all been received, in whatever order.
Complete(mask, n) == 0 .. n - 1 \subseteq mask

\* Mutant: the checksum is not compared.
AnySum(crc, sum) == TRUE

SumMatches(crc, sum) == crc = sum

ReipSum(reip) == 5 + MAGIC + PairSum(reip, 3)

RecvReip(f) ==
    /\ FrmType(f) = TYPE_REIP
    /\ ~Ignored(f)
    /\ LET i == FrmIndex(f)
           start == i = 0 /\ f.a4 = MAGIC
           mask == IF start THEN {0} ELSE uRecMask[TYPE_REIP] \cup {i}
           reip == IF start THEN [k \in 1 .. 3 |-> Zero]
                   ELSE IF i \in 1 .. 3
                   THEN [uReip EXCEPT ![i] = OrPair(@, FrmData(f))]
                   ELSE uReip
           crc == IF start THEN 0
                  ELSE IF i = 4 THEN Word(FrmData(f)) ELSE uCrc[TYPE_REIP]
           ok == Complete(mask, 5) /\ SumMatches(crc, ReipSum(reip))
       IN  /\ uRecMask' = [uRecMask EXCEPT ![TYPE_REIP] = mask]
           /\ uReip' = reip
           /\ uCrc' = [uCrc EXCEPT ![TYPE_REIP] = crc]
           /\ uRecOK' = IF ok THEN uRecOK \cup {TYPE_REIP} ELSE uRecOK
           /\ uLinkType' = IF ok THEN NET_LINK_REIPPORT ELSE uLinkType
           /\ UNCHANGED <<uLen, uChannel, buf>>
           /\ Notify(IF ok THEN 1 ELSE iRecIp, iRecChannel)

(***************************************************************************)
(* SSID and password are decoded by the same statements.  Before the first *)
(* frame 0 the length is 0: no index is the checksum's, every frame is     *)
(* stored as data, and the mask is 0xFFFFFFFF >> 32, which the MIPS of the *)
(* driver's target computes as a shift by 0: all 32 bits are asked for.    *)
(***************************************************************************)
Wanted(n) == IF n = 0 THEN 32 ELSE n

\* Mutant: the length is left out of the sum.
SumWithoutLength(type, mem, n) ==
    MAGIC + PairSum([k \in 1 .. n - 2 |-> mem[Cell(type, k)]], n - 2)

CredSum(type, mem, n) ==
    n + MAGIC + PairSum([k \in 1 .. n - 2 |-> mem[Cell(type, k)]], n - 2)

\* Mutant: no memset.
NotErased(type) == buf

\* memset of the string's own buffer, when its frame 0 arrives.
Erased(type) == [c \in BufCells |->
                   IF c \in {Cell(type, k) : k \in 1 .. Chunks}
                   THEN Zero ELSE buf[c]]

RecvCred(type, f) ==
    /\ FrmType(f) = type
    /\ ~Ignored(f)
    /\ LET i == FrmIndex(f)
           start == i = 0 /\ f.a4 = MAGIC
           len == IF start THEN f.a5 ELSE uLen[type]
           isCrc == ~start /\ i = len - 1
           mask == IF start THEN {0} ELSE uRecMask[type] \cup {i}
           mem == IF start THEN Erased(type)
                  ELSE IF isCrc THEN buf
                  ELSE [buf EXCEPT ![Cell(type, i)] = FrmData(f)]
           crc == IF start THEN 0
                  ELSE IF isCrc THEN Word(FrmData(f)) ELSE uCrc[type]
           ok == /\ Complete(mask, Wanted(len))
                 /\ SumMatches(crc, CredSum(type, mem, len))
       IN  /\ uLen' = [uLen EXCEPT ![type] = len]
           /\ uRecMask' = [uRecMask EXCEPT ![type] = mask]
           /\ buf' = mem
           /\ uCrc' = [uCrc EXCEPT ![type] = crc]
           /\ uRecOK' = IF ok THEN uRecOK \cup {type} ELSE uRecOK
           /\ uLinkType' = IF ok THEN NET_LINK_SSIDPWD ELSE uLinkType
           /\ UNCHANGED <<uChannel, uReip>>
           /\ Notify(iRecIp, iRecChannel)

STA_MonPktSend(f, radio) ==
    \/ RecvChannel(f, radio)
    \/ RecvReip(f)
    \/ RecvCred(TYPE_SSID, f)
    \/ RecvCred(TYPE_PSWD, f)
    \/ Ignored(f) /\ UNCHANGED rxVars

-----------------------------------------------------------------------------
(* The receiver alone: any frame of the sender, or of others, at any time. *)

SenderFrames ==
    {ChannelFrame}
    \cup {ReipFrame(Reip, i) : i \in 0 .. 4}
    \cup {CredFrame(TYPE_SSID, Ssid, i) : i \in 0 .. FrmCount(Len(Ssid)) - 1}
    \cup {CredFrame(TYPE_PSWD, Pwd, i) : i \in 0 .. FrmCount(Len(Pwd)) - 1}

RxNext == \E f \in SenderFrames \cup Noise, radio \in Channels :
              STA_MonPktSend(f, radio)

RxSpec == RxInit /\ [][RxNext]_rxVars

-----------------------------------------------------------------------------
(* Properties *)

(***************************************************************************)
(* The types of the statics.  uRecOK holds frame types, a mask frame       *)
(* indices.  No flag is left at 1 when a call returns: the message it      *)
(* stands for went out in the call that set it.                            *)
(***************************************************************************)
Message == [uLinkType : 1 .. 3, uChannel : Channels \cup {0},
            uReip : [1 .. 3 -> Pair],
            uPwd : [1 .. Chunks -> Pair], uSSID : [1 .. Chunks -> Pair]]

RxTypeOK ==
    /\ uLen \in [CredTypes -> 0 .. Chunks + 2]
    /\ uChannel \in Channels \cup {0}
    /\ uLinkType \in 0 .. 3
    /\ uRecOK \subseteq 0 .. 3
    /\ uReip \in [1 .. 3 -> Pair]
    /\ buf \in [BufCells -> Pair]
    /\ uRecMask \in [MsgTypes -> SUBSET (0 .. 31)]
    /\ uCrc \in [MsgTypes -> Nat]
    /\ iRecOk \in {0, 1}
    /\ iRecSsidPwd \in {0, 2} /\ iRecIp \in {0, 2} /\ iRecChannel \in {0, 2}
    /\ told \in Seq(Message)

\* A string of the sender as it must lie in a buffer of Chunks pairs.
Padded(str) ==
    [k \in 1 .. Chunks |-> IF k \in DOMAIN StrPairs(str)
                           THEN StrPairs(str)[k] ELSE Zero]

Held(type) == [k \in 1 .. Chunks |-> buf[Cell(type, k)]]

(***************************************************************************)
(* What the driver marks as received (uRecOK) is what the sender sent,     *)
(* whatever was lost, repeated, reordered or heard before the first frame  *)
(* 0, and it stays so while other frames keep arriving.                    *)
(***************************************************************************)
AcceptedAsSent ==
    /\ TYPE_SSID \in uRecOK => Held(TYPE_SSID) = Padded(Ssid)
    /\ TYPE_PSWD \in uRecOK => Held(TYPE_PSWD) = Padded(Pwd)
    /\ TYPE_REIP \in uRecOK => uReip = Reip

(***************************************************************************)
(* Once every frame of a message has been received the message is          *)
(* accepted: the sums computed by the sender and by the driver agree, so a *)
(* complete message is never thrown away by the next frame 0.              *)
(***************************************************************************)
CompleteIsAccepted ==
    /\ \A t \in CredTypes :
         uLen[t] # 0 /\ Complete(uRecMask[t], uLen[t]) => t \in uRecOK
    /\ Complete(uRecMask[TYPE_REIP], 5) => TYPE_REIP \in uRecOK

Kinds == {told[m].uLinkType : m \in 1 .. Len(told)}

(***************************************************************************)
(* Between two calls nothing that was decoded is left without its netlink  *)
(* message, and the driver stops listening (iRecOk) exactly when all three *)
(* messages are out: the early returns for complete messages skip the      *)
(* notification, so a message not sent at once would never be sent.        *)
(***************************************************************************)
DecodedIsTold ==
    /\ TYPE_CHANNEL \in uRecOK <=> NET_LINK_CHANNEL \in Kinds
    /\ TYPE_REIP \in uRecOK <=> NET_LINK_REIPPORT \in Kinds
    /\ CredTypes \subseteq uRecOK <=> NET_LINK_SSIDPWD \in Kinds
    /\ iRecOk = 1 <=> Kinds = 1 .. 3

(***************************************************************************)
(* The driver implements the announcement service: the mapping keeps of a  *)
(* netlink message what its kind stands for.                               *)
(***************************************************************************)
DataOf(m) == IF m.uLinkType = NET_LINK_CHANNEL THEN m.uChannel
             ELSE IF m.uLinkType = NET_LINK_REIPPORT THEN m.uReip
             ELSE <<m.uSSID, m.uPwd>>

Sent(kind) == IF kind = NET_LINK_CHANNEL THEN Channels
              ELSE IF kind = NET_LINK_REIPPORT THEN {Reip}
              ELSE {<<Padded(Ssid), Padded(Pwd)>>}

Announced == [i \in 1 .. Len(told) |->
                [kind |-> told[i].uLinkType, data |-> DataOf(told[i])]]

Service == INSTANCE EasyLinkService
             WITH Kind <- 1 .. 3, Payload <- Sent, announced <- Announced

ServiceSpec == Service!Spec

(***************************************************************************)
(* Accepted data is final: no later frame changes a message once it is     *)
(* marked as received, although all messages share one struct.             *)
(***************************************************************************)
AcceptedIsFinal ==
    [][\A t \in CredTypes : t \in uRecOK => Held(t)' = Held(t) /\ t \in uRecOK']_rxVars

-----------------------------------------------------------------------------
(***************************************************************************)
(* Why the properties hold: the inductive invariant, in parts.             *)
(***************************************************************************)

\* The checksum frame of each string has an index inside its buffer: strings
\* of at most 30 bytes in the source.
Fits == /\ FrmCount(Len(Ssid)) <= Chunks + 1
        /\ FrmCount(Len(Pwd)) <= Chunks + 1

\* Nobody else sends frames that look like data of this protocol.
Quiet == \A f \in Noise : \/ FrmType(f) = TYPE_CHANNEL
                          \/ FrmType(f) = TYPE_REIP /\ FrmIndex(f) > 4

\* The notification flags say what was decoded.
FlagInv ==
    /\ iRecChannel = 2 <=> TYPE_CHANNEL \in uRecOK
    /\ iRecIp = 2 <=> TYPE_REIP \in uRecOK
    /\ iRecSsidPwd = 2 <=> BothStrings(uRecOK)
    /\ iRecOk = 1 <=> AllTold(iRecChannel, iRecSsidPwd, iRecIp)

\* Each flag stands for exactly one message.
ToldInv ==
    /\ iRecChannel = 2 <=> NET_LINK_CHANNEL \in Kinds
    /\ iRecIp = 2 <=> NET_LINK_REIPPORT \in Kinds
    /\ iRecSsidPwd = 2 <=> NET_LINK_SSIDPWD \in Kinds

Str(type) == IF type = TYPE_SSID THEN Ssid ELSE Pwd

\* After its first frame 0 a string's buffer holds the pairs whose bit is
\* set, and zeros; an accepted string has all its bits set.
StringInv(type) ==
    /\ uLen[type] \in {0, FrmCount(Len(Str(type)))}
    /\ uLen[type] = 0 => 0 \notin uRecMask[type]
    /\ uLen[type] # 0 =>
         \A k \in 1 .. Chunks :
            buf[Cell(type, k)] = IF k \in uRecMask[type]
                                 THEN Padded(Str(type))[k] ELSE Zero
    /\ type \in uRecOK => /\ uLen[type] # 0
                          /\ Complete(uRecMask[type], uLen[type])

ReipInv ==
    /\ \A k \in 1 .. 3 :
         uReip[k] = IF k \in uRecMask[TYPE_REIP] THEN Reip[k] ELSE Zero
    /\ TYPE_REIP \in uRecOK => Complete(uRecMask[TYPE_REIP], 5)

ChannelInv == TYPE_CHANNEL \in uRecOK => uChannel \in Channels

DataInv == /\ StringInv(TYPE_SSID) /\ StringInv(TYPE_PSWD)
           /\ ReipInv /\ ChannelInv
=============================================================================
