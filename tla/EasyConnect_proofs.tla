------------------------- MODULE EasyConnect_proofs -------------------------
(***************************************************************************)
(* Proofs about sender, driver and daemon together, for every buffer size, *)
(* every length of the netlink header, every set of access points and any  *)
(* number of lost frames and restarts.                                     *)
(***************************************************************************)
EXTENDS EasyConnect, EasyLinkRx_proofs

-----------------------------------------------------------------------------
(* The driver inside the system *)

LEMMA FramesAreSent ==
    /\ Frames \in Seq(SenderFrames) /\ Len(Frames) \in Nat /\ Len(Frames) >= 4
    /\ \A n \in 1 .. Len(Frames) : Frames[n] \in SenderFrames
  <1> DEFINE A == [i \in 1 .. 4 |-> ChannelFrame]
             B == [i \in 1 .. 5 |-> ReipFrame(Reip, i - 1)]
             C == [i \in 1 .. FrmCount(Len(Pwd)) |-> CredFrame(TYPE_PSWD, Pwd, i - 1)]
             D == [i \in 1 .. FrmCount(Len(Ssid)) |-> CredFrame(TYPE_SSID, Ssid, i - 1)]
  <1>1. FrmCount(Len(Pwd)) \in Nat /\ FrmCount(Len(Ssid)) \in Nat
    BY FrameCounts, ConstantsAssumption
  <1>2. A \in Seq(SenderFrames) /\ Len(A) = 4
    BY DEF SenderFrames
  <1>3. B \in Seq(SenderFrames)
    <2>1. \A i \in 1 .. 5 : i - 1 \in 0 .. 4
      OBVIOUS
    <2>2. \A i \in 1 .. 5 : ReipFrame(Reip, i - 1) \in SenderFrames
      BY <2>1 DEF SenderFrames
    <2> QED
      BY <2>2
  <1>4. C \in Seq(SenderFrames)
    <2>1. \A i \in 1 .. FrmCount(Len(Pwd)) : i - 1 \in 0 .. FrmCount(Len(Pwd)) - 1
      BY <1>1
    <2>2. \A i \in 1 .. FrmCount(Len(Pwd)) : CredFrame(TYPE_PSWD, Pwd, i - 1) \in SenderFrames
      BY <2>1 DEF SenderFrames
    <2> QED
      BY <1>1, <2>2
  <1>5. D \in Seq(SenderFrames)
    <2>1. \A i \in 1 .. FrmCount(Len(Ssid)) : i - 1 \in 0 .. FrmCount(Len(Ssid)) - 1
      BY <1>1
    <2>2. \A i \in 1 .. FrmCount(Len(Ssid)) : CredFrame(TYPE_SSID, Ssid, i - 1) \in SenderFrames
      BY <2>1 DEF SenderFrames
    <2> QED
      BY <1>1, <2>2
  <1>6. Frames = A \o B \o C \o D
    BY DEF Frames, Round
  <1> HIDE DEF A, B, C, D
  <1>7. A \o B \o C \o D \in Seq(SenderFrames) /\ Len(A \o B \o C \o D) >= Len(A)
    <2>1. A \o B \in Seq(SenderFrames) /\ Len(A \o B) >= Len(A) /\ Len(A) \in Nat
      <3>1. A \in Seq(SenderFrames) /\ B \in Seq(SenderFrames)
        BY <1>2, <1>3
      <3>2. Len(A) \in Nat /\ Len(B) \in Nat /\ Len(A \o B) = Len(A) + Len(B)
        BY <3>1
      <3> QED
        BY <3>1, <3>2
    <2>2. A \o B \o C \in Seq(SenderFrames) /\ Len(A \o B \o C) >= Len(A \o B) /\ Len(A \o B) \in Nat
      BY <2>1, <1>4
    <2>3. A \o B \o C \o D \in Seq(SenderFrames) /\ Len(A \o B \o C \o D) >= Len(A \o B \o C)
            /\ Len(A \o B \o C) \in Nat /\ Len(A \o B \o C \o D) \in Nat
      BY <2>2, <1>5
    <2> QED
      BY <2>1, <2>2, <2>3
  <1>8. Frames \in Seq(SenderFrames) /\ Len(Frames) >= 4
    BY <1>2, <1>6, <1>7
  <1> QED
    BY <1>8

\* Whatever the system does, the driver takes a step of its own or none.
LEMMA DriverStep ==
    ASSUME chan \in Channels, pos \in 1 .. Len(Frames), [SystemNext]_vars
    PROVE  [RxNext]_rxVars
  <1>1. CASE MultiCast
    <2>1. Frames[pos] \in SenderFrames \cup Noise
      BY FramesAreSent
    <2>2. STA_MonPktSend(Frames[pos], chan) => RxNext
      BY <2>1 DEF RxNext
    <2> QED
      BY <1>1, <2>2 DEF MultiCast
  <1>2. CASE Daemon \/ Rerun \/ UNCHANGED vars
    BY <1>2 DEF Daemon, Rerun, vars
  <1> QED
    BY <1>1, <1>2 DEF SystemNext

-----------------------------------------------------------------------------
(* The messages on the netlink socket *)

Told(kind, n) == \E j \in 1 .. n : told[j].uLinkType = kind

\* Every kind is told once, and a message that follows the channel's (or is
\* it) has a channel of the radio in it.
ToldOnce ==
    \A m \in 1 .. Len(told) :
        /\ ~Told(told[m].uLinkType, m - 1)
        /\ Told(NET_LINK_CHANNEL, m) => told[m].uChannel \in Channels

\* A message that follows the address has the sender's address in it, and the
\* message of the strings has the sender's strings.
ToldIsSent ==
    \A m \in 1 .. Len(told) :
        /\ Told(NET_LINK_REIPPORT, m) => told[m].uReip = Reip
        /\ told[m].uLinkType = NET_LINK_SSIDPWD =>
             told[m].uSSID = Padded(Ssid) /\ told[m].uPwd = Padded(Pwd)

\* told only grows, by one message of a new kind at most.
LEMMA ToldGrows ==
    ASSUME TypeInv, ToldInv, TypeInv', ToldInv', [RxNext]_rxVars
    PROVE  \/ told' = told
           \/ \E kind \in 1 .. 3 :
                /\ Tells(kind) /\ kind \notin Kinds
                /\ NET_LINK_CHANNEL \in Kinds \cup {kind} => TYPE_CHANNEL \in uRecOK'
                /\ NET_LINK_REIPPORT \in Kinds \cup {kind} => TYPE_REIP \in uRecOK'
                /\ kind = NET_LINK_SSIDPWD => BothStrings(uRecOK')
  <1> USE DEF NET_LINK_CHANNEL, NET_LINK_SSIDPWD, NET_LINK_REIPPORT
  <1>1. CASE UNCHANGED rxVars
    BY <1>1 DEF rxVars, notifyVars
  <1>2. CASE RxNext
    <2>1. Outcome
      BY <1>2, CallOutcome DEF RxNext, AllFrames, TypeInv
    <2>2. /\ TYPE_CHANNEL \notin uRecOK => 1 \notin Kinds
          /\ TYPE_REIP \notin uRecOK => 3 \notin Kinds
          /\ ~BothStrings(uRecOK) => 2 \notin Kinds
      BY DEF TypeInv, FlagInv, ToldInv
    <2>3. \A type \in CredTypes : type \notin uRecOK => ~BothStrings(uRecOK)
      BY DEF BothStrings
    <2>4. told' = told \/ \E kind \in 1 .. 3 : Tells(kind) /\ kind \notin Kinds
      BY <2>1, <2>2, <2>3 DEF Outcome, notifyVars
    <2>5. ASSUME NEW kind \in 1 .. 3, Tells(kind)
          PROVE  /\ 1 \in Kinds \cup {kind} => TYPE_CHANNEL \in uRecOK'
                 /\ 3 \in Kinds \cup {kind} => TYPE_REIP \in uRecOK'
                 /\ kind = 2 => BothStrings(uRecOK')
      <3>1. Kinds' = Kinds \cup {kind}
        BY <2>5, KindsStep DEF TypeInv
      <3> QED
        BY <3>1 DEF TypeInv, FlagInv, ToldInv
    <2> QED
      BY <2>4, <2>5
  <1> QED
    BY <1>1, <1>2

\* The messages that are there stay, and how a new one is reached.
LEMMA TellsAppends ==
    ASSUME RxTypeOK, NEW kind, Tells(kind)
    PROVE  /\ Len(told) \in Nat /\ Len(told') = Len(told) + 1
           /\ \A i \in 1 .. Len(told) : told'[i] = told[i]
           /\ LET m == told'[Len(told) + 1]
              IN  /\ m.uLinkType = kind /\ m.uChannel = uChannel' /\ m.uReip = uReip'
                  /\ m.uPwd = [k \in 1 .. Chunks |-> buf'[k]]
                  /\ m.uSSID = [k \in 1 .. Chunks |-> buf'[Chunks + k]]
  <1>1. told \in Seq(Message)
    BY DEF RxTypeOK
  <1>2. told' = Append(told, Snapshot') /\ uLinkType' = kind
    BY DEF Tells
  <1>3. /\ Len(told) \in Nat /\ Len(told') = Len(told) + 1
        /\ \A i \in 1 .. Len(told) : told'[i] = told[i]
        /\ told'[Len(told) + 1] = Snapshot'
    BY <1>1, <1>2
  <1> QED
    BY <1>2, <1>3 DEF Snapshot

LEMMA OnceStep ==
    ASSUME TypeInv, ToldInv, TypeInv', ToldInv', ChannelInv', ToldOnce, [RxNext]_rxVars
    PROVE  ToldOnce'
  <1>1. CASE told' = told
    BY <1>1 DEF ToldOnce, Told
  <1>2. ASSUME NEW kind \in 1 .. 3, Tells(kind), kind \notin Kinds,
               NET_LINK_CHANNEL \in Kinds \cup {kind} => TYPE_CHANNEL \in uRecOK'
        PROVE  ToldOnce'
    <2>1. /\ Len(told) \in Nat /\ Len(told') = Len(told) + 1
          /\ \A i \in 1 .. Len(told) : told'[i] = told[i]
          /\ told'[Len(told) + 1].uLinkType = kind
          /\ told'[Len(told) + 1].uChannel = uChannel'
      BY <1>2, TellsAppends DEF TypeInv
    <2> SUFFICES ASSUME NEW m \in 1 .. Len(told) + 1
                 PROVE  /\ ~ \E j \in 1 .. m - 1 : told'[j].uLinkType = told'[m].uLinkType
                        /\ (\E j \in 1 .. m : told'[j].uLinkType = NET_LINK_CHANNEL)
                             => told'[m].uChannel \in Channels
      BY <2>1 DEF ToldOnce, Told
    <2>2. CASE m \in 1 .. Len(told)
      <3>1. \A j \in 1 .. m : told'[j] = told[j]
        BY <2>1, <2>2
      <3>2. \A j \in 1 .. m - 1 : j \in 1 .. m
        BY <2>1, <2>2
      <3>3. m \in 1 .. m
        BY <2>1, <2>2
      <3> QED
        BY <2>2, <3>1, <3>2, <3>3 DEF ToldOnce, Told
    <2>3. CASE m = Len(told) + 1
      <3>1. \A j \in 1 .. m - 1 : j \in 1 .. Len(told)
        BY <2>1, <2>3
      <3>2. \A j \in 1 .. Len(told) : told'[j].uLinkType \in Kinds
        BY <2>1 DEF Kinds
      <3>3. \A j \in 1 .. m : told'[j].uLinkType \in Kinds \cup {kind}
        BY <2>1, <2>3, <3>2
      <3> QED
        BY <1>2, <2>1, <2>3, <3>1, <3>2, <3>3 DEF ChannelInv
    <2> QED
      BY <2>1, <2>2, <2>3
  <1> QED
    BY <1>1, <1>2, ToldGrows

LEMMA SentStep ==
    ASSUME TypeInv, ToldInv, TypeInv', ToldInv', AcceptedAsSent', ToldIsSent, [RxNext]_rxVars
    PROVE  ToldIsSent'
  <1>1. CASE told' = told
    BY <1>1 DEF ToldIsSent, Told
  <1>2. ASSUME NEW kind \in 1 .. 3, Tells(kind),
               NET_LINK_REIPPORT \in Kinds \cup {kind} => TYPE_REIP \in uRecOK',
               kind = NET_LINK_SSIDPWD => BothStrings(uRecOK')
        PROVE  ToldIsSent'
    <2>1. /\ Len(told) \in Nat /\ Len(told') = Len(told) + 1
          /\ \A i \in 1 .. Len(told) : told'[i] = told[i]
          /\ told'[Len(told) + 1].uLinkType = kind
          /\ told'[Len(told) + 1].uReip = uReip'
          /\ told'[Len(told) + 1].uPwd = [k \in 1 .. Chunks |-> buf'[k]]
          /\ told'[Len(told) + 1].uSSID = [k \in 1 .. Chunks |-> buf'[Chunks + k]]
      BY <1>2, TellsAppends DEF TypeInv
    <2> SUFFICES ASSUME NEW m \in 1 .. Len(told) + 1
                 PROVE  /\ (\E j \in 1 .. m : told'[j].uLinkType = NET_LINK_REIPPORT)
                             => told'[m].uReip = Reip
                        /\ told'[m].uLinkType = NET_LINK_SSIDPWD =>
                             told'[m].uSSID = Padded(Ssid) /\ told'[m].uPwd = Padded(Pwd)
      BY <2>1 DEF ToldIsSent, Told
    <2>2. CASE m \in 1 .. Len(told)
      <3>1. \A j \in 1 .. m : told'[j] = told[j]
        BY <2>1, <2>2
      <3>2. m \in 1 .. m
        BY <2>1, <2>2
      <3> QED
        BY <2>2, <3>1, <3>2 DEF ToldIsSent, Told
    <2>3. CASE m = Len(told) + 1
      <3>1. \A j \in 1 .. m : told'[j].uLinkType \in Kinds \cup {kind}
        BY <2>1, <2>3 DEF Kinds
      <3>2. (\E j \in 1 .. m : told'[j].uLinkType = NET_LINK_REIPPORT) => told'[m].uReip = Reip
        BY <1>2, <2>1, <2>3, <3>1 DEF AcceptedAsSent
      <3>3. ASSUME kind = NET_LINK_SSIDPWD
            PROVE  told'[m].uSSID = Padded(Ssid) /\ told'[m].uPwd = Padded(Pwd)
        <4>1. TYPE_SSID \in uRecOK' /\ TYPE_PSWD \in uRecOK'
          BY <1>2, <3>3 DEF BothStrings, CredTypes
        <4>2. Held(TYPE_SSID)' = Padded(Ssid) /\ Held(TYPE_PSWD)' = Padded(Pwd)
          BY <4>1 DEF AcceptedAsSent
        <4>3. /\ Held(TYPE_SSID)' = [k \in 1 .. Chunks |-> buf'[Chunks + k]]
              /\ Held(TYPE_PSWD)' = [k \in 1 .. Chunks |-> buf'[k]]
          BY DEF Held, Cell, TYPE_SSID, TYPE_PSWD
        <4> QED
          BY <2>1, <2>3, <4>2, <4>3
      <3> QED
        BY <2>1, <2>3, <3>2, <3>3
    <2> QED
      BY <2>1, <2>2, <2>3
  <1> QED
    BY <1>1, <1>2, ToldGrows

LEMMA ChannelStep ==
    ASSUME TypeInv, ChannelInv, [RxNext]_rxVars
    PROVE  ChannelInv'
  <1>1. CASE UNCHANGED rxVars
    BY <1>1 DEF rxVars, decodeVars, ChannelInv
  <1>2. ASSUME NEW f, NEW radio \in Channels, RecvChannel(f, radio) PROVE ChannelInv'
    BY <1>2 DEF RecvChannel, ChannelInv
  <1>3. ASSUME NEW f, RecvReip(f) PROVE ChannelInv'
    BY <1>3 DEF RecvReip, ChannelInv, TYPE_CHANNEL, TYPE_REIP
  <1>4. ASSUME NEW f, NEW type \in CredTypes, RecvCred(type, f) PROVE ChannelInv'
    BY <1>4 DEF RecvCred, ChannelInv, CredTypes, TYPE_CHANNEL, TYPE_SSID, TYPE_PSWD
  <1> QED
    BY <1>1, <1>2, <1>3, <1>4 DEF RxNext, STA_MonPktSend, CredTypes

DriverInv == TypeInv /\ ToldInv /\ ChannelInv /\ ToldOnce

LEMMA DriverInit == RxInit => DriverInv
  <1>1. RxInit => ChannelInv /\ ToldOnce
    BY DEF RxInit, ChannelInv, ToldOnce
  <1> QED
    BY <1>1, TypeInit, ToldInit DEF DriverInv

LEMMA DriverPreserved == DriverInv /\ [RxNext]_rxVars => DriverInv'
  <1> SUFFICES ASSUME DriverInv, [RxNext]_rxVars PROVE DriverInv'
    OBVIOUS
  <1>1. TypeInv' /\ ToldInv'
    BY TypeStep, ToldPreserved DEF DriverInv
  <1>2. ChannelInv'
    BY ChannelStep DEF DriverInv
  <1>3. ToldOnce'
    BY <1>1, <1>2, OnceStep DEF DriverInv
  <1> QED
    BY <1>1, <1>2, <1>3 DEF DriverInv

\* Messages the daemon has read stay where they are.
LEMMA ToldKept ==
    ASSUME TypeInv, ToldInv, TypeInv', ToldInv', [RxNext]_rxVars
    PROVE  /\ Len(told) \in Nat /\ Len(told') \in Nat /\ Len(told) <= Len(told')
           /\ \A n \in 0 .. Len(told) : \A kind : Told(kind, n) => Told(kind, n)'
  <1>0. Len(told) \in Nat
    BY DEF TypeInv, RxTypeOK
  <1>1. CASE told' = told
    BY <1>0, <1>1 DEF Told
  <1>2. ASSUME NEW kind, Tells(kind)
        PROVE  /\ Len(told') = Len(told) + 1
               /\ \A i \in 1 .. Len(told) : told'[i] = told[i]
    BY <1>2, TellsAppends DEF TypeInv
  <1>3. CASE told' # told
    <2>1. /\ Len(told') = Len(told) + 1
          /\ \A i \in 1 .. Len(told) : told'[i] = told[i]
      BY <1>2, <1>3, ToldGrows
    <2> QED
      BY <1>0, <2>1 DEF Told
  <1> QED
    BY <1>1, <1>3

-----------------------------------------------------------------------------
(* The types of the whole system *)

\* The daemon tunes to link.uChannel only after it has read the channel, and
\* every message from then on has it.
HopInv == iFountChannel # 0 => Told(NET_LINK_CHANNEL, nread) /\ link.uChannel \in Channels

SystemInv == DriverInv /\ SystemTypeOK /\ HopInv

LinkType == [uLinkType : 0 .. 3, uChannel : Channels \cup {0}, uReip : [1 .. 3 -> Pair],
             uPwd : [1 .. Chunks -> Pair], uSSID : [1 .. Chunks -> Pair]]

LEMMA ZeroIsPair == Zero \in Pair
  BY DEF Zero, Pair, Byte

LEMMA SystemInvInit == SystemInit => SystemInv
  <1> SUFFICES ASSUME SystemInit PROVE SystemInv
    OBVIOUS
  <1>1. DriverInv
    BY DriverInit DEF SystemInit
  <1>2. link \in LinkType
    BY ZeroIsPair DEF SystemInit, DaemonInit, NoLink, LinkType
  <1>3. 1 \in Channels
    BY DaemonAssumption
  <1>4. Len(told) = 0
    BY DEF SystemInit, RxInit
  <1>5. SystemTypeOK
    BY <1>2, <1>3, <1>4, FramesAreSent, DaemonAssumption, SystemAssumption
       DEF SystemInit, DaemonInit, SystemTypeOK, LinkType, Burst
  <1> QED
    BY <1>1, <1>5 DEF SystemInv, HopInv, SystemInit, DaemonInit

LEMMA MultiCastTypes ==
    ASSUME SystemInv, MultiCast
    PROVE  SystemInv'
  <1>1. [RxNext]_rxVars
    BY DriverStep DEF SystemInv, SystemTypeOK, SystemNext
  <1>2. DriverInv'
    BY <1>1, DriverPreserved DEF SystemInv
  <1>3. /\ Len(told) \in Nat /\ Len(told') \in Nat /\ Len(told) <= Len(told')
        /\ \A n \in 0 .. Len(told) : \A kind : Told(kind, n) => Told(kind, n)'
    BY <1>1, <1>2, ToldKept DEF SystemInv, DriverInv
  <1>4. UNCHANGED daemonVars
    BY DEF MultiCast
  <1>5. nread' \in 0 .. Len(told')
    BY <1>3, <1>4 DEF SystemInv, SystemTypeOK, daemonVars
  <1>6. /\ pos' \in 1 .. Len(Frames) /\ losses' \in 0 .. MaxLosses /\ dwell' \in 0 .. Burst
    BY FramesAreSent, SystemAssumption, SMTT(20) DEF MultiCast, SystemInv, SystemTypeOK, Burst
  <1>7. SystemTypeOK'
    BY <1>4, <1>5, <1>6 DEF SystemInv, SystemTypeOK, daemonVars
  <1>8. HopInv'
    BY <1>3, <1>4 DEF SystemInv, SystemTypeOK, HopInv, daemonVars, Told
  <1> QED
    BY <1>2, <1>7, <1>8 DEF SystemInv

\* What recvmsg and memcpy leave in the daemon's copy of a message.
LEMMA DeliveredFacts ==
    ASSUME NEW m \in Message, NEW junk \in Garbage
    PROVE  LET d == Delivered(m, junk)
           IN  /\ d \in LinkType /\ d.uLinkType \in 1 .. 3
               /\ d.uLinkType = m.uLinkType /\ d.uChannel = m.uChannel
               /\ d.uReip = m.uReip /\ d.uPwd = m.uPwd
               /\ d.uSSID = [k \in 1 .. Chunks |->
                               IF k <= Chunks - HdrPairs THEN m.uSSID[k] ELSE junk]
  <1> DEFINE s == [k \in 1 .. Chunks |-> IF k <= Chunks - HdrPairs THEN m.uSSID[k] ELSE junk]
  <1>1. s \in [1 .. Chunks -> Pair]
    BY DaemonAssumption DEF Message
  <1>2. Delivered(m, junk) = [m EXCEPT !.uSSID = s]
    BY DEF Delivered
  <1> HIDE DEF s
  <1>3. /\ [m EXCEPT !.uSSID = s] \in LinkType
        /\ [m EXCEPT !.uSSID = s].uSSID = s
        /\ [m EXCEPT !.uSSID = s].uLinkType = m.uLinkType
        /\ [m EXCEPT !.uSSID = s].uChannel = m.uChannel
        /\ [m EXCEPT !.uSSID = s].uReip = m.uReip
        /\ [m EXCEPT !.uSSID = s].uPwd = m.uPwd
        /\ m.uLinkType \in 1 .. 3
    BY <1>1 DEF Message, LinkType
  <1> QED
    BY <1>2, <1>3 DEF s

\* The message the daemon reads next.
LEMMA NextMessage ==
    ASSUME SystemInv, nread < Len(told)
    PROVE  /\ told[nread + 1] \in Message /\ nread + 1 \in 1 .. Len(told) /\ nread \in Nat
           /\ ~Told(told[nread + 1].uLinkType, nread)
           /\ \A kind : Told(kind, nread) => Told(kind, nread + 1)
           /\ Told(told[nread + 1].uLinkType, nread + 1)
           /\ Told(NET_LINK_CHANNEL, nread + 1) => told[nread + 1].uChannel \in Channels
  <1>1. told \in Seq(Message) /\ nread \in 0 .. Len(told)
    BY DEF SystemInv, DriverInv, TypeInv, RxTypeOK, SystemTypeOK
  <1>2. /\ Len(told) \in Nat /\ nread \in Nat /\ nread + 1 \in 1 .. Len(told)
        /\ (nread + 1) - 1 = nread
    BY <1>1
  <1>3. told[nread + 1] \in Message
    BY <1>1, <1>2
  <1>4. /\ ~Told(told[nread + 1].uLinkType, nread)
        /\ Told(NET_LINK_CHANNEL, nread + 1) => told[nread + 1].uChannel \in Channels
    BY <1>2 DEF SystemInv, DriverInv, ToldOnce
  <1>5. /\ \A kind : Told(kind, nread) => Told(kind, nread + 1)
        /\ Told(told[nread + 1].uLinkType, nread + 1)
    BY <1>2 DEF Told
  <1> QED
    BY <1>2, <1>3, <1>4, <1>5

\* A daemon step keeps what it does not touch.
LEMMA DaemonKeeps ==
    ASSUME SystemInv, Daemon \/ Rerun \/ UNCHANGED vars
    PROVE  /\ DriverInv' /\ told' = told /\ Len(told) \in Nat
           /\ pos' \in 1 .. Len(Frames) /\ losses' \in 0 .. MaxLosses /\ dwell' \in 0 .. Burst
           /\ \A kind, n : Told(kind, n)' <=> Told(kind, n)
  <1>1. UNCHANGED <<rxVars, pos, losses>>
    BY DEF Daemon, Rerun, vars, senderVars
  <1>2. DriverInv'
    BY <1>1, DriverPreserved DEF SystemInv
  <1>3. told' = told
    BY <1>1 DEF rxVars, notifyVars
  <1>4. dwell' \in 0 .. Burst
    BY DEF Daemon, Rerun, vars, senderVars, SystemInv, SystemTypeOK, Burst
  <1>5. Len(told) \in Nat
    BY DEF SystemInv, DriverInv, TypeInv, RxTypeOK
  <1> QED
    BY <1>1, <1>2, <1>3, <1>4, <1>5 DEF SystemInv, SystemTypeOK, Told

LEMMA RecvTypes ==
    ASSUME SystemInv, Daemon, Recv
    PROVE  SystemInv'
  <1> USE DEF NET_LINK_CHANNEL, NET_LINK_SSIDPWD, NET_LINK_REIPPORT
  <1>0. /\ DriverInv' /\ told' = told /\ Len(told) \in Nat
        /\ pos' \in 1 .. Len(Frames) /\ losses' \in 0 .. MaxLosses /\ dwell' \in 0 .. Burst
    BY DaemonKeeps
  <1>1. CASE nread = Len(told) /\ pc' = "top"
              /\ UNCHANGED <<iFountChannel, iRecIpPort, link, nread, chan>>
    BY <1>0, <1>1 DEF Recv, SystemInv, SystemTypeOK, HopInv, Told
  <1>2. ASSUME nread < Len(told), nread' = nread + 1, NEW junk \in Garbage,
               link' = Delivered(told[nread + 1], junk),
               pc' = (IF link'.uLinkType = NET_LINK_SSIDPWD THEN "switch" ELSE "link"),
               iFountChannel' = (IF link'.uLinkType = NET_LINK_CHANNEL
                                 THEN 1 ELSE iFountChannel),
               chan' = (IF link'.uLinkType = NET_LINK_CHANNEL THEN link'.uChannel ELSE chan),
               iRecIpPort' = (IF link'.uLinkType = NET_LINK_REIPPORT THEN 1 ELSE iRecIpPort)
        PROVE  SystemInv'
    <2> DEFINE m == told[nread + 1]
    <2>1. /\ m \in Message /\ nread + 1 \in 1 .. Len(told) /\ nread \in Nat
          /\ \A kind : Told(kind, nread) => Told(kind, nread + 1)
          /\ Told(m.uLinkType, nread + 1)
          /\ Told(NET_LINK_CHANNEL, nread + 1) => m.uChannel \in Channels
      BY <1>2, NextMessage
    <2>2. /\ link' \in LinkType /\ link'.uLinkType \in 1 .. 3
          /\ link'.uLinkType = m.uLinkType /\ link'.uChannel = m.uChannel
      BY <1>2, <2>1, DeliveredFacts
    <2>3. link'.uLinkType = NET_LINK_CHANNEL => link'.uChannel \in Channels
      BY <2>1, <2>2
    <2>4. SystemTypeOK'
      BY <1>0, <1>2, <2>1, <2>2, <2>3, SMTT(20) DEF Recv, SystemInv, SystemTypeOK, LinkType
    <2>5. Told(NET_LINK_CHANNEL, nread + 1) <=> Told(NET_LINK_CHANNEL, nread)'
      BY <1>0, <1>2 DEF Told
    <2>6. HopInv'
      BY <1>2, <2>1, <2>2, <2>5 DEF SystemInv, HopInv
    <2> QED
      BY <1>0, <2>4, <2>6 DEF SystemInv
  <1> QED
    BY <1>1, <1>2 DEF Recv

LEMMA ScanTypes ==
    ASSUME SystemInv, Daemon, Scan
    PROVE  SystemInv'
  <1>0. /\ DriverInv' /\ told' = told /\ Len(told) \in Nat
        /\ pos' \in 1 .. Len(Frames) /\ losses' \in 0 .. MaxLosses /\ dwell' \in 0 .. Burst
        /\ \A kind, n : Told(kind, n)' <=> Told(kind, n)
    BY DaemonKeeps
  <1>1. \A seen \in Survey : \A ssid : Candidates(seen, ssid) \subseteq APs
    BY DaemonAssumption DEF Survey, Candidates
  <1>2. \A a \in APs : \A pwd : ConnectAP(a, pwd) \in {b.ssid : b \in APs} \cup {NoAP}
    BY DEF ConnectAP
  <1>3. /\ ap' \in {b.ssid : b \in APs} \cup {NoAP} /\ iLinkRoute' \in {0, 1}
    BY <1>1, <1>2 DEF Scan, SystemInv, SystemTypeOK
  <1>4. /\ pc' = "link"
        /\ UNCHANGED <<iFountChannel, iChannel, iRecIpPort, link, nread, mode, chan,
                       dialled, restarts>>
    BY DEF Scan
  <1>5. SystemTypeOK'
    BY <1>0, <1>3, <1>4 DEF SystemInv, SystemTypeOK
  <1>6. HopInv'
    BY <1>0, <1>4 DEF SystemInv, HopInv, Told
  <1> QED
    BY <1>0, <1>5, <1>6 DEF SystemInv

LEMMA OtherTypes ==
    ASSUME SystemInv, \/ Daemon /\ (Bind \/ Top \/ Switch \/ CallBack)
                      \/ Rerun \/ UNCHANGED vars
    PROVE  SystemInv'
  <1>0. /\ DriverInv' /\ told' = told /\ Len(told) \in Nat
        /\ pos' \in 1 .. Len(Frames) /\ losses' \in 0 .. MaxLosses /\ dwell' \in 0 .. Burst
    BY DaemonKeeps
  <1>1. ASSUME NEW m \in {"monitor", "managed"}, IwMode(m)
        PROVE  /\ mode' \in {"monitor", "managed"}
               /\ ap' \in {a.ssid : a \in APs} \cup {NoAP}
    BY <1>1 DEF IwMode, SystemInv, SystemTypeOK
  <1>2. CASE Bind
    <2>1. mode' \in {"monitor", "managed"} /\ ap' \in {a.ssid : a \in APs} \cup {NoAP}
      BY <1>1, <1>2 DEF Bind
    <2>2. SystemTypeOK'
      BY <1>0, <1>2, <2>1, SMTT(20) DEF Bind, SystemInv, SystemTypeOK
    <2>3. HopInv'
      BY <1>0, <1>2, SMTT(20) DEF Bind, SystemInv, SystemTypeOK, HopInv, Told
    <2> QED
      BY <1>0, <2>2, <2>3 DEF SystemInv
  <1>3. CASE Top
    <2>1. mode' \in {"monitor", "managed"} /\ ap' \in {a.ssid : a \in APs} \cup {NoAP}
      BY <1>1, <1>3 DEF Top, SystemInv, SystemTypeOK
    <2>2. NextChannel(iChannel) \in Channels /\ iChannel \in Channels
      BY DaemonAssumption, SMTT(20) DEF NextChannel, SystemInv, SystemTypeOK
    <2>3. /\ iFountChannel' \in 0 .. 2 /\ iChannel' \in Channels /\ chan' \in Channels
          /\ iFountChannel' # 0 => iFountChannel # 0
      BY <1>3, <2>2 DEF Top, SystemInv, SystemTypeOK, HopInv
    <2>4. SystemTypeOK'
      BY <1>0, <1>3, <2>1, <2>3 DEF Top, SystemInv, SystemTypeOK
    <2>5. HopInv'
      BY <1>0, <1>3, <2>3 DEF Top, SystemInv, HopInv, Told
    <2> QED
      BY <1>0, <2>4, <2>5 DEF SystemInv
  <1>4. CASE Switch
    <2>1. mode' \in {"monitor", "managed"} /\ ap' \in {a.ssid : a \in APs} \cup {NoAP}
      BY <1>1, <1>4 DEF Switch
    <2>2. SystemTypeOK'
      BY <1>0, <1>4, <2>1 DEF Switch, SystemInv, SystemTypeOK
    <2>3. HopInv'
      BY <1>0, <1>4 DEF Switch, SystemInv, HopInv, Told
    <2> QED
      BY <1>0, <2>2, <2>3 DEF SystemInv
  <1>5. CASE CallBack
    <2>1. link.uReip \in [1 .. 3 -> Pair] /\ mode \in {"monitor", "managed"}
      BY DEF SystemInv, SystemTypeOK
    <2>2. dialled' \subseteq [addr : [1 .. 3 -> Pair], mode : {"monitor", "managed"}]
      BY <1>5, <2>1 DEF CallBack, SystemInv, SystemTypeOK
    <2>3. SystemTypeOK'
      BY <1>0, <1>5, <2>2 DEF CallBack, SystemInv, SystemTypeOK
    <2>4. HopInv'
      BY <1>0, <1>5 DEF CallBack, SystemInv, HopInv, Told
    <2> QED
      BY <1>0, <2>3, <2>4 DEF SystemInv
  <1>6. CASE Rerun
    <2>1. NoLink \in LinkType /\ 1 \in Channels
      BY ZeroIsPair, DaemonAssumption DEF NoLink, LinkType
    <2>2. restarts' \in 0 .. MaxRestarts
      BY <1>6, DaemonAssumption, SMTT(20) DEF Rerun, Restart, SystemInv, SystemTypeOK
    <2>3. SystemTypeOK'
      BY <1>0, <1>6, <2>1, <2>2, SMTT(20) DEF Rerun, Restart, SystemInv, SystemTypeOK, LinkType
    <2>4. HopInv'
      BY <1>6 DEF Rerun, Restart, HopInv
    <2> QED
      BY <1>0, <2>3, <2>4 DEF SystemInv
  <1>7. CASE UNCHANGED vars
    <2>1. SystemTypeOK'
      BY <1>0, <1>7 DEF vars, daemonVars, SystemInv, SystemTypeOK
    <2>2. HopInv'
      BY <1>0, <1>7 DEF vars, daemonVars, SystemInv, HopInv, Told
    <2> QED
      BY <1>0, <2>1, <2>2 DEF SystemInv
  <1> QED
    BY <1>2, <1>3, <1>4, <1>5, <1>6, <1>7

LEMMA SystemInvStep == SystemInv /\ [SystemNext]_vars => SystemInv'
  BY MultiCastTypes, RecvTypes, ScanTypes, OtherTypes
     DEF SystemNext, Daemon, DaemonStep

(***************************************************************************)
(* The types of sender, driver, daemon and radio, whatever is lost and     *)
(* however often the daemon is started again.  That the radio is only ever *)
(* asked for a channel that exists is not a matter of types: the channel   *)
(* comes out of the struct that every netlink message of the driver        *)
(* overwrites, and the daemon reads it one loop later.                     *)
(***************************************************************************)
THEOREM SystemTypes == SystemSpec => []SystemTypeOK
  <1>1. SystemInv => SystemTypeOK
    BY DEF SystemInv
  <1> QED
    BY <1>1, SystemInvInit, SystemInvStep, PTL DEF SystemSpec

(***************************************************************************)
(* Inside the system the driver behaves as it does alone: what is proved   *)
(* of the receiver for any order of frames holds for the sender's rounds,  *)
(* the losses and the daemon's channel hopping too.                        *)
(***************************************************************************)
THEOREM SystemRunsDriver == SystemSpec => RxSpec
  <1>1. SystemInit => RxInit
    BY DEF SystemInit
  <1>2. SystemInv /\ [SystemNext]_vars => [RxNext]_rxVars
    BY DriverStep DEF SystemInv, SystemTypeOK
  <1> QED
    BY <1>1, <1>2, SystemInvInit, SystemInvStep, PTL DEF SystemSpec, RxSpec

(***************************************************************************)
(* The daemon's view: from the sender's rounds, the radio's losses and the *)
(* daemon's own hops it receives what the abstract service promises, each  *)
(* kind of message at most once and with the sender's data.                *)
(***************************************************************************)
THEOREM SystemImplementsService == Fits /\ Quiet => (SystemSpec => ServiceSpec)
  <1> SUFFICES ASSUME Fits, Quiet PROVE SystemSpec => ServiceSpec
    OBVIOUS
  <1>1. RxSpec => ServiceSpec
    BY DriverImplementsService
  <1> QED
    BY <1>1, SystemRunsDriver, PTL

-----------------------------------------------------------------------------
(* The association with the access point *)

\* Only the message of the strings leads to a join, it comes once, and the
\* monitor mode of the two kinds of hop is never entered from a join.
JoinInv ==
    /\ mode = "monitor" => ap = NoAP
    /\ pc = "bind" => iFountChannel = 0
    /\ pc = "recv" => iFountChannel # 1
    /\ pc = "recv" /\ iFountChannel = 0 => mode = "monitor"
    /\ iFountChannel = 1 => mode = "monitor" /\ pc \in {"link", "top", "exited", "rebooted"}
    /\ pc \in {"switch", "scan"} => ap = NoAP /\ Told(NET_LINK_SSIDPWD, nread)
    /\ pc = "scan" => mode = "managed"
    /\ ap # NoAP => \/ pc \in {"bind", "exited", "rebooted"}
                    \/ Told(NET_LINK_SSIDPWD, nread)

LEMMA JoinInit == SystemInit => JoinInv
  BY DEF SystemInit, DaemonInit, JoinInv

LEMMA JoinStep ==
    ASSUME SystemInv, JoinInv, [SystemNext]_vars
    PROVE  /\ JoinInv'
           /\ ap # NoAP /\ iFountChannel # 0 => ap' = ap
  <1> USE DEF NET_LINK_CHANNEL, NET_LINK_SSIDPWD, NET_LINK_REIPPORT
  <1>1. CASE MultiCast
    <2>1. [RxNext]_rxVars
      BY DriverStep DEF SystemInv, SystemTypeOK
    <2>2. DriverInv'
      BY <2>1, DriverPreserved DEF SystemInv
    <2>3. \A n \in 0 .. Len(told) : \A kind : Told(kind, n) => Told(kind, n)'
      BY <2>1, <2>2, ToldKept DEF SystemInv, DriverInv
    <2>4. UNCHANGED daemonVars
      BY <1>1 DEF MultiCast
    <2>5. Told(2, nread) => Told(2, nread)'
      BY <2>3, <2>4 DEF SystemInv, SystemTypeOK, daemonVars, Told
    <2> QED
      BY <2>4, <2>5 DEF JoinInv, daemonVars
  <1>2. CASE Daemon \/ Rerun \/ UNCHANGED vars
    <2>0. /\ told' = told
          /\ nread' = nread => (Told(2, nread)' <=> Told(2, nread))
      BY <1>2, DaemonKeeps DEF Told
    <2>1. CASE Bind
      BY <2>1 DEF Bind, IwMode, JoinInv
    <2>2. CASE Top
      <3>1. nread' = nread
        BY <2>2 DEF Top
      <3>2. Told(2, nread)' <=> Told(2, nread)
        BY <2>0, <3>1
      <3>3. iFountChannel \in 0 .. 2
        BY DEF SystemInv, SystemTypeOK
      <3> QED
        BY <2>2, <3>1, <3>2, <3>3 DEF Top, IwMode, JoinInv
    <2>3. CASE Recv
      <3>1. CASE nread = Len(told) /\ pc' = "top"
                  /\ UNCHANGED <<iFountChannel, iRecIpPort, link, nread, chan>>
        <4>1. Told(2, nread)' <=> Told(2, nread)
          BY <2>0, <3>1
        <4> QED
          BY <2>3, <3>1, <4>1 DEF Recv, JoinInv
      <3>2. CASE nread < Len(told)
        <4> DEFINE m == told[nread + 1]
        <4>1. /\ m \in Message /\ ~Told(m.uLinkType, nread)
              /\ \A kind : Told(kind, nread) => Told(kind, nread + 1)
              /\ Told(m.uLinkType, nread + 1)
          BY <3>2, NextMessage
        <4>2. nread # Len(told)
          BY <3>2 DEF SystemInv, SystemTypeOK, DriverInv, TypeInv, RxTypeOK
        <4>3. PICK junk \in Garbage : link' = Delivered(m, junk)
          BY <2>3, <4>2 DEF Recv
        <4>4. link'.uLinkType = m.uLinkType
          BY <4>1, <4>3, DeliveredFacts
        <4>5. /\ nread' = nread + 1
              /\ pc' = (IF m.uLinkType = 2 THEN "switch" ELSE "link")
              /\ iFountChannel' = (IF m.uLinkType = 1 THEN 1 ELSE iFountChannel)
              /\ pc = "recv" /\ mode' = mode /\ ap' = ap
          BY <2>3, <4>2, <4>4 DEF Recv
        <4>6. Told(2, nread)' <=> Told(2, nread + 1)
          BY <2>0, <4>5 DEF Told
        <4>7. m.uLinkType = 1 => iFountChannel = 0
          BY <4>1 DEF SystemInv, HopInv
        <4> QED
          BY <4>1, <4>5, <4>6, <4>7 DEF JoinInv
      <3> QED
        BY <2>3, <3>1, <3>2 DEF Recv
    <2>4. CASE Switch
      <3>1. nread' = nread
        BY <2>4 DEF Switch
      <3>2. Told(2, nread)' <=> Told(2, nread)
        BY <2>0, <3>1
      <3> QED
        BY <2>4, <3>1, <3>2 DEF Switch, IwMode, JoinInv
    <2>5. CASE Scan
      <3>1. nread' = nread /\ iFountChannel' = iFountChannel /\ mode' = mode
             /\ pc = "scan" /\ pc' = "link"
        BY <2>5 DEF Scan
      <3>2. Told(2, nread)' <=> Told(2, nread)
        BY <2>0, <3>1
      <3> QED
        BY <3>1, <3>2 DEF JoinInv
    <2>6. CASE CallBack
      <3>1. nread' = nread /\ iFountChannel' = iFountChannel /\ mode' = mode /\ ap' = ap
             /\ pc = "link" /\ pc' \in {"exited", "rebooted", "top"}
        BY <2>6 DEF CallBack
      <3>2. Told(2, nread)' <=> Told(2, nread)
        BY <2>0, <3>1
      <3> QED
        BY <3>1, <3>2 DEF JoinInv
    <2>7. CASE Rerun
      BY <2>7 DEF Rerun, Restart, JoinInv
    <2>8. CASE UNCHANGED vars
      <3>1. Told(2, nread)' <=> Told(2, nread)
        BY <2>0, <2>8 DEF vars, daemonVars
      <3> QED
        BY <2>8, <3>1 DEF vars, daemonVars, JoinInv
    <2> QED
      BY <1>2, <2>1, <2>2, <2>3, <2>4, <2>5, <2>6, <2>7, <2>8 DEF Daemon, DaemonStep
  <1> QED
    BY <1>1, <1>2 DEF SystemNext

(***************************************************************************)
(* Once the channel is known nothing undoes a join: neither a message that *)
(* was still queued, nor the hop to the channel, nor a second survey.      *)
(***************************************************************************)
THEOREM JoinStays == SystemSpec => StaysJoined
  <1>1. SystemInv /\ JoinInv /\ [SystemNext]_vars => JoinInv'
    BY JoinStep
  <1>2. SystemInv /\ JoinInv /\ [SystemNext]_vars
          => [ap # NoAP /\ iFountChannel # 0 => ap' = ap]_vars
    BY JoinStep
  <1> QED
    BY <1>1, <1>2, JoinInit, SystemInvInit, SystemInvStep, PTL DEF SystemSpec, StaysJoined

-----------------------------------------------------------------------------
(* What the daemon does with the sender's data *)

\* The driver's data, as the sender sent them.
SentInv == DataInv /\ ToldIsSent

LEMMA SentInit == RxInit => SentInv
  <1>1. RxInit => ToldIsSent
    BY DEF RxInit, ToldIsSent
  <1> QED
    BY <1>1, DataInit DEF SentInv

LEMMA SentPreserved ==
    ASSUME Fits, Quiet, DriverInv, SentInv, [RxNext]_rxVars
    PROVE  SentInv'
  <1>1. DriverInv'
    BY DriverPreserved
  <1>2. DataInv'
    BY DataStep DEF DriverInv, SentInv
  <1>3. TypeInv' /\ DataInv' => AcceptedAsSent'
    BY DataImpliesAccepted, PTL
  <1>4. ToldIsSent'
    BY <1>1, <1>2, <1>3, SentStep DEF DriverInv, SentInv
  <1> QED
    BY <1>2, <1>4 DEF SentInv

\* From the message of the address on, the daemon's copy of the struct has
\* the address: every later message repeats it.
DialInv ==
    /\ iRecIpPort = 1 => Told(NET_LINK_REIPPORT, nread) /\ link.uReip = Reip
    /\ DialsSender

LEMMA DialInit == SystemInit => DialInv
  BY DEF SystemInit, DaemonInit, DialInv, DialsSender

LEMMA DialStep ==
    ASSUME SystemInv, SentInv, DialInv, [SystemNext]_vars
    PROVE  DialInv'
  <1> USE DEF NET_LINK_CHANNEL, NET_LINK_SSIDPWD, NET_LINK_REIPPORT
  <1>1. CASE MultiCast
    <2>1. [RxNext]_rxVars
      BY DriverStep DEF SystemInv, SystemTypeOK
    <2>2. DriverInv'
      BY <2>1, DriverPreserved DEF SystemInv
    <2>3. \A n \in 0 .. Len(told) : \A kind : Told(kind, n) => Told(kind, n)'
      BY <2>1, <2>2, ToldKept DEF SystemInv, DriverInv
    <2>4. UNCHANGED daemonVars
      BY <1>1 DEF MultiCast
    <2>5. Told(3, nread) => Told(3, nread)'
      BY <2>3, <2>4 DEF SystemInv, SystemTypeOK, daemonVars, Told
    <2> QED
      BY <2>4, <2>5 DEF DialInv, DialsSender, daemonVars
  <1>2. CASE Daemon \/ Rerun \/ UNCHANGED vars
    <2>0. /\ told' = told
          /\ nread' = nread => (Told(3, nread)' <=> Told(3, nread))
      BY <1>2, DaemonKeeps DEF Told
    <2>1. CASE Bind
      <3>1. Len(told) \in Nat /\ nread \in 0 .. Len(told)
        BY DEF SystemInv, DriverInv, TypeInv, RxTypeOK, SystemTypeOK
      <3>2. nread' = Len(told) /\ link' = link /\ iRecIpPort' = iRecIpPort /\ dialled' = dialled
        BY <2>1 DEF Bind
      <3>3. Told(3, nread) => Told(3, nread)'
        BY <2>0, <3>1, <3>2 DEF Told
      <3> QED
        BY <3>2, <3>3 DEF DialInv, DialsSender
    <2>2. CASE Top \/ Switch \/ Scan \/ UNCHANGED vars
      <3>1. UNCHANGED <<nread, link, iRecIpPort, dialled>>
        BY <2>2 DEF Top, Switch, Scan, vars, daemonVars
      <3>2. Told(3, nread)' <=> Told(3, nread)
        BY <2>0, <3>1
      <3> QED
        BY <3>1, <3>2 DEF DialInv, DialsSender
    <2>3. CASE Recv
      <3>1. CASE UNCHANGED <<iRecIpPort, link, nread>>
        <4>1. dialled' = dialled
          BY <2>3 DEF Recv
        <4>2. Told(3, nread)' <=> Told(3, nread)
          BY <2>0, <3>1
        <4> QED
          BY <3>1, <4>1, <4>2 DEF DialInv, DialsSender
      <3>2. CASE nread < Len(told)
        <4> DEFINE m == told[nread + 1]
        <4>1. /\ m \in Message /\ nread + 1 \in 1 .. Len(told)
              /\ \A kind : Told(kind, nread) => Told(kind, nread + 1)
              /\ Told(m.uLinkType, nread + 1)
          BY <3>2, NextMessage
        <4>2. nread # Len(told)
          BY <3>2 DEF SystemInv, SystemTypeOK, DriverInv, TypeInv, RxTypeOK
        <4>3. PICK junk \in Garbage : link' = Delivered(m, junk)
          BY <2>3, <4>2 DEF Recv
        <4>4. link'.uLinkType = m.uLinkType /\ link'.uReip = m.uReip
          BY <4>1, <4>3, DeliveredFacts
        <4>5. /\ nread' = nread + 1 /\ dialled' = dialled
              /\ iRecIpPort' = (IF m.uLinkType = 3 THEN 1 ELSE iRecIpPort)
          BY <2>3, <4>2, <4>4 DEF Recv
        <4>6. Told(3, nread)' <=> Told(3, nread + 1)
          BY <2>0, <4>5 DEF Told
        <4>7. Told(3, nread + 1) => m.uReip = Reip
          BY <4>1 DEF SentInv, ToldIsSent
        <4> QED
          BY <4>1, <4>4, <4>5, <4>6, <4>7 DEF DialInv, DialsSender
      <3> QED
        BY <2>3, <3>1, <3>2 DEF Recv
    <2>4. CASE CallBack
      <3>1. UNCHANGED <<nread, link, iRecIpPort>>
        BY <2>4 DEF CallBack
      <3>2. Told(3, nread)' <=> Told(3, nread)
        BY <2>0, <3>1
      <3>3. DialsSender'
        BY <2>4 DEF CallBack, LinkReady, DialInv, DialsSender
      <3> QED
        BY <3>1, <3>2, <3>3 DEF DialInv
    <2>5. CASE Rerun
      BY <2>5 DEF Rerun, Restart, DialInv, DialsSender
    <2> QED
      BY <1>2, <2>1, <2>2, <2>3, <2>4, <2>5 DEF Daemon, DaemonStep
  <1> QED
    BY <1>1, <1>2 DEF SystemNext

LEMMA SystemSentStep ==
    ASSUME Fits, Quiet, SystemInv, SentInv, [SystemNext]_vars
    PROVE  SentInv'
  <1>1. [RxNext]_rxVars
    BY DriverStep DEF SystemInv, SystemTypeOK
  <1> QED
    BY <1>1, SentPreserved DEF SystemInv

(***************************************************************************)
(* The daemon calls the sender and nobody else: the address it dials is    *)
(* read from its copy of the struct, which each of the three messages      *)
(* replaces, in whichever order the driver told them.                      *)
(***************************************************************************)
THEOREM OnlySenderDialled == Fits /\ Quiet => (SystemSpec => []DialsSender)
  <1> SUFFICES ASSUME Fits, Quiet PROVE SystemSpec => []DialsSender
    OBVIOUS
  <1>1. SystemInit => SentInv
    BY SentInit DEF SystemInit
  <1>2. SystemInv /\ SentInv /\ [SystemNext]_vars => SentInv'
    BY SystemSentStep
  <1>3. SystemInv /\ SentInv /\ DialInv /\ [SystemNext]_vars => DialInv'
    BY DialStep
  <1>4. DialInv => DialsSender
    BY DEF DialInv
  <1> QED
    BY <1>1, <1>2, <1>3, <1>4, DialInit, SystemInvInit, SystemInvStep, PTL DEF SystemSpec

-----------------------------------------------------------------------------
(* The credentials *)

NonZero == 1 .. 255

LEMMA NonZeroByte == \A x \in NonZero : x # 0
  BY DEF NonZero

\* C strings, of which the SSID ends before the part of uSSID that recvmsg
\* cuts off: at most 14 bytes of 16 in the source.
Sendable ==
    /\ Ssid \in Seq(NonZero) /\ Pwd \in Seq(NonZero)
    /\ Len(Ssid) < 2 * (Chunks - HdrPairs)

\* The first n pairs of a buffer hold a string that ends inside them.
HoldsFirst(pairs, str, n) ==
    \A k \in 1 .. n : pairs[k] = IF k \in 1 .. (Len(str) + 1) \div 2
                                 THEN StrPairs(str)[k] ELSE Zero

LEMMA CStrIsString ==
    ASSUME NEW str \in Seq(NonZero), NEW n \in 0 .. Chunks, Len(str) < 2 * n,
           NEW pairs, HoldsFirst(pairs, str, n)
    PROVE  CStr(pairs) = str
  <1> DEFINE bytes == [j \in 1 .. 2 * Chunks |-> pairs[(j + 1) \div 2][2 - (j % 2)]]
             ends == {j \in 1 .. 2 * Chunks : bytes[j] = 0}
             L == Len(str)
  <1>0. Chunks \in Nat /\ L \in Nat /\ n \in Nat /\ L + 1 \in 1 .. 2 * n
          /\ 1 .. 2 * n \subseteq 1 .. 2 * Chunks
    BY ConstantsAssumption
  <1>1. ASSUME NEW j \in 1 .. 2 * n
        PROVE  bytes[j] = IF j <= L THEN str[j] ELSE 0
    <2>0. bytes[j] = pairs[(j + 1) \div 2][2 - (j % 2)]
      BY <1>0
    <2>1. ASSUME NEW k \in 1 .. n, j = 2 * k - 1
          PROVE  bytes[j] = IF j <= L THEN str[j] ELSE 0
      <3>1. (j + 1) \div 2 = k /\ 2 - (j % 2) = 1
        BY <2>1, <1>0
      <3>2. j <= L <=> k \in 1 .. (L + 1) \div 2
        BY <2>1, <1>0
      <3>3. CASE j <= L
        <4>1. pairs[k] = StrPairs(str)[k]
          BY <3>2, <3>3 DEF HoldsFirst
        <4>2. StrPairs(str)[k] = <<str[2 * k - 1], IF 2 * k > L THEN 0 ELSE str[2 * k]>>
          BY <3>2, <3>3 DEF StrPairs
        <4> QED
          BY <2>0, <2>1, <3>1, <3>3, <4>1, <4>2
      <3>4. CASE ~(j <= L)
        BY <2>0, <3>1, <3>2, <3>4 DEF HoldsFirst, Zero
      <3> QED
        BY <3>3, <3>4
    <2>2. ASSUME NEW k \in 1 .. n, j = 2 * k
          PROVE  bytes[j] = IF j <= L THEN str[j] ELSE 0
      <3>1. (j + 1) \div 2 = k /\ 2 - (j % 2) = 2
        BY <2>2, <1>0
      <3>2. j <= L => k \in 1 .. (L + 1) \div 2
        BY <2>2, <1>0
      <3>3. CASE k \in 1 .. (L + 1) \div 2
        <4>1. pairs[k] = StrPairs(str)[k]
          BY <3>3 DEF HoldsFirst
        <4>2. StrPairs(str)[k] = <<str[2 * k - 1], IF 2 * k > L THEN 0 ELSE str[2 * k]>>
          BY <3>3 DEF StrPairs
        <4> DEFINE b == IF 2 * k > L THEN 0 ELSE str[2 * k]
        <4>3. bytes[j] = b
          <5>1. bytes[j] = pairs[k][2]
            BY <2>0, <3>1
          <5> HIDE DEF b, bytes
          <5>2. <<str[2 * k - 1], b>>[2] = b
            OBVIOUS
          <5> QED
            BY <4>1, <4>2, <5>1, <5>2 DEF b
        <4>4. 2 * k > L <=> ~(j <= L)
          BY <2>2, <1>0
        <4> HIDE DEF bytes
        <4> QED
          BY <2>2, <4>3, <4>4
      <3>4. CASE k \notin 1 .. (L + 1) \div 2
        BY <2>0, <3>1, <3>2, <3>4 DEF HoldsFirst, Zero
      <3> QED
        BY <3>3, <3>4
    <2>3. \E k \in 1 .. n : j = 2 * k - 1 \/ j = 2 * k
      <3>1. j % 2 = 1 => j = 2 * ((j + 1) \div 2) - 1 /\ (j + 1) \div 2 \in 1 .. n
        BY <1>0
      <3>2. j % 2 = 0 => j = 2 * (j \div 2) /\ j \div 2 \in 1 .. n
        BY <1>0
      <3>3. j % 2 \in {0, 1}
        BY <1>0
      <3> QED
        BY <3>1, <3>2, <3>3
    <2> QED
      BY <2>1, <2>2, <2>3
  <1>2. \A j \in 1 .. L : bytes[j] = str[j] /\ str[j] # 0
    <2> HIDE DEF bytes
    <2>1. ASSUME NEW j \in 1 .. L PROVE bytes[j] = str[j] /\ str[j] # 0
      <3>1. str[j] # 0
        <4>1. str[j] \in NonZero
          OBVIOUS
        <4> QED
          BY <4>1, NonZeroByte
      <3>2. j \in 1 .. 2 * n /\ j <= L
        BY <1>0
      <3>3. bytes[j] = IF j <= L THEN str[j] ELSE 0
        BY <1>1, <3>2
      <3> QED
        BY <3>1, <3>2, <3>3
    <2> QED
      BY <2>1
  <1>3. L + 1 \in ends /\ \A j \in ends : L + 1 <= j
    <2>1. bytes[L + 1] = 0
      <3>1. ~(L + 1 <= L)
        BY <1>0
      <3> HIDE DEF bytes
      <3> QED
        BY <1>0, <1>1, <3>1
    <2>2. L + 1 \in ends
      BY <1>0, <2>1
    <2>3. \A j \in ends : j \in 1 .. 2 * Chunks /\ bytes[j] = 0
      OBVIOUS
    <2> HIDE DEF bytes, ends
    <2>4. \A j \in ends : ~(j \in 1 .. L)
      BY <1>2, <2>3
    <2> QED
      BY <1>0, <2>2, <2>3, <2>4
  <1>4. (CHOOSE j \in ends : \A k \in ends : j <= k) = L + 1
    <2>1. \A j \in ends : j \in Nat
      BY <1>0
    <2> HIDE DEF ends
    <2> DEFINE c == CHOOSE j \in ends : \A k \in ends : j <= k
    <2>2. c \in ends /\ \A k \in ends : c <= k
      BY <1>3
    <2> HIDE DEF c
    <2>3. c = L + 1
      BY <1>0, <1>3, <2>1, <2>2
    <2> QED
      BY <2>3 DEF c
  <1>5. ends # {}
    BY <1>3
  <1>6. CStr(pairs) = SubSeq(bytes, 1, (CHOOSE j \in ends : \A k \in ends : j <= k) - 1)
    BY <1>5 DEF CStr
  <1>7. CStr(pairs) = SubSeq(bytes, 1, L)
    <2>1. (L + 1) - 1 = L
      BY <1>0
    <2> HIDE DEF bytes, ends
    <2> QED
      BY <1>4, <1>6, <2>1
  <1>8. bytes = [j \in 1 .. 2 * Chunks |-> bytes[j]]
    OBVIOUS
  <1> HIDE DEF bytes, ends
  <1>9. SubSeq(bytes, 1, L) = [j \in 1 .. L |-> bytes[j]]
    BY <1>0, <1>8
  <1>10. str = [j \in 1 .. L |-> str[j]]
    OBVIOUS
  <1> QED
    BY <1>2, <1>7, <1>9, <1>10

\* The daemon's copy of the strings' message, in spite of what was cut off.
LEMMA DeliveredStrings ==
    ASSUME Fits, Sendable, NEW m \in Message, NEW junk \in Garbage,
           m.uSSID = Padded(Ssid), m.uPwd = Padded(Pwd)
    PROVE  LET d == Delivered(m, junk)
           IN  CStr(d.uSSID) = Ssid /\ CStr(d.uPwd) = Pwd
  <1> DEFINE d == Delivered(m, junk)
  <1>1. /\ d.uPwd = m.uPwd
        /\ d.uSSID = [k \in 1 .. Chunks |->
                        IF k <= Chunks - HdrPairs THEN m.uSSID[k] ELSE junk]
    BY DeliveredFacts
  <1>2. /\ Chunks \in Nat /\ Chunks - HdrPairs \in 0 .. Chunks /\ Chunks \in 0 .. Chunks
        /\ Len(Pwd) \in Nat /\ Len(Ssid) \in Nat
    BY ConstantsAssumption, DaemonAssumption
  <1>3. Len(Pwd) < 2 * Chunks
    BY <1>2 DEF Fits, FrmCount
  <1>4. ASSUME NEW str, NEW k \in 1 .. Chunks
        PROVE  Padded(str)[k] = IF k \in 1 .. (Len(str) + 1) \div 2
                                THEN StrPairs(str)[k] ELSE Zero
    <2>1. DOMAIN StrPairs(str) = 1 .. (Len(str) + 1) \div 2
      BY DEF StrPairs
    <2> QED
      BY <2>1 DEF Padded
  <1> HIDE DEF d
  <1>5. HoldsFirst(d.uPwd, Pwd, Chunks)
    BY <1>1, <1>4 DEF HoldsFirst
  <1>6. HoldsFirst(d.uSSID, Ssid, Chunks - HdrPairs)
    <2>1. ASSUME NEW k \in 1 .. Chunks - HdrPairs
          PROVE  d.uSSID[k] = Padded(Ssid)[k] /\ k \in 1 .. Chunks
      <3>1. k \in 1 .. Chunks /\ k <= Chunks - HdrPairs
        BY <1>2
      <3> QED
        BY <1>1, <3>1
    <2> QED
      BY <1>4, <2>1 DEF HoldsFirst
  <1>7. CStr(d.uPwd) = Pwd
    BY <1>2, <1>3, <1>5, CStrIsString DEF Sendable
  <1>8. CStr(d.uSSID) = Ssid
    BY <1>2, <1>6, CStrIsString DEF Sendable
  <1> QED
    BY <1>7, <1>8 DEF d

CredInv ==
    /\ pc \in {"switch", "scan"} => CStr(link.uSSID) = Ssid /\ CStr(link.uPwd) = Pwd
    /\ TriedIsSent

LEMMA CredInit == SystemInit => CredInv
  BY DEF SystemInit, DaemonInit, CredInv, TriedIsSent

LEMMA CredStep ==
    ASSUME Fits, Sendable, SystemInv, SentInv, CredInv, [SystemNext]_vars
    PROVE  CredInv'
  <1> USE DEF NET_LINK_CHANNEL, NET_LINK_SSIDPWD, NET_LINK_REIPPORT
  <1>1. CASE MultiCast \/ UNCHANGED vars
    <2>1. UNCHANGED <<pc, link, tried>>
      BY <1>1 DEF MultiCast, vars, daemonVars
    <2> QED
      BY <2>1 DEF CredInv, TriedIsSent
  <1>2. CASE Bind \/ Top \/ CallBack \/ Rerun
    <2>1. tried' = tried /\ pc' \notin {"switch", "scan"}
      BY <1>2 DEF Bind, Top, CallBack, Rerun, Restart
    <2> QED
      BY <2>1 DEF CredInv, TriedIsSent
  <1>3. CASE Switch
    <2>1. tried' = tried /\ link' = link /\ pc = "switch"
      BY <1>3 DEF Switch
    <2> QED
      BY <2>1 DEF CredInv, TriedIsSent
  <1>4. CASE Scan
    <2>1. pc = "scan" /\ pc' = "link"
            /\ (tried' = tried \/ tried' = <<CStr(link.uSSID), CStr(link.uPwd)>>)
      BY <1>4 DEF Scan
    <2> QED
      BY <2>1 DEF CredInv, TriedIsSent
  <1>5. CASE Recv
    <2>0. tried' = tried
      BY <1>5 DEF Recv
    <2>1. CASE pc' \in {"switch", "scan"}
      <3>1. nread < Len(told) /\ link'.uLinkType = 2
        BY <1>5, <2>1 DEF Recv
      <3> DEFINE m == told[nread + 1]
      <3>2. m \in Message /\ nread + 1 \in 1 .. Len(told)
        BY <3>1, NextMessage
      <3>3. PICK junk \in Garbage : link' = Delivered(m, junk)
        BY <1>5, <2>1 DEF Recv
      <3>4. link'.uLinkType = m.uLinkType
        BY <3>2, <3>3, DeliveredFacts
      <3>5. m.uSSID = Padded(Ssid) /\ m.uPwd = Padded(Pwd)
        BY <3>1, <3>2, <3>4 DEF SentInv, ToldIsSent
      <3>6. CStr(link'.uSSID) = Ssid /\ CStr(link'.uPwd) = Pwd
        BY <3>2, <3>3, <3>5, DeliveredStrings
      <3>7. CStr(link.uSSID)' = CStr(link'.uSSID) /\ CStr(link.uPwd)' = CStr(link'.uPwd)
        BY DEF CStr
      <3> QED
        BY <2>0, <3>6, <3>7 DEF CredInv, TriedIsSent
    <2>2. CASE pc' \notin {"switch", "scan"}
      BY <2>0, <2>2 DEF CredInv, TriedIsSent
    <2> QED
      BY <2>1, <2>2
  <1> QED
    BY <1>1, <1>2, <1>3, <1>4, <1>5 DEF SystemNext, Daemon, DaemonStep

(***************************************************************************)
(* Whatever memcpy reads behind the buffer of recvmsg, the credentials     *)
(* given to ConnectAP are the sender's: a name that ends before the part   *)
(* that is cut off brings its own zero byte.                               *)
(***************************************************************************)
THEOREM SentCredentialsTried ==
    Fits /\ Quiet /\ Sendable => (SystemSpec => []TriedIsSent)
  <1> SUFFICES ASSUME Fits, Quiet, Sendable PROVE SystemSpec => []TriedIsSent
    OBVIOUS
  <1>1. SystemInit => SentInv
    BY SentInit DEF SystemInit
  <1>2. SystemInv /\ SentInv /\ [SystemNext]_vars => SentInv'
    BY SystemSentStep
  <1>3. SystemInv /\ SentInv /\ CredInv /\ [SystemNext]_vars => CredInv'
    BY CredStep
  <1>4. CredInv => TriedIsSent
    BY DEF CredInv
  <1> QED
    BY <1>1, <1>2, <1>3, <1>4, CredInit, SystemInvInit, SystemInvStep, PTL DEF SystemSpec

-----------------------------------------------------------------------------
(* From which mode the daemon calls *)

\* A daemon that has not read the strings has itself read every message that
\* was announced, and remembers which: messages are missed only between a
\* call and the next start, and a call comes after the strings.
ReadInv ==
    /\ iLinkRoute = 1 \/ pc = "exited" => Told(NET_LINK_SSIDPWD, nread)
    /\ pc = "bind" /\ ~Told(NET_LINK_SSIDPWD, nread) => told = <<>> /\ mode = "managed"
    /\ ~Told(NET_LINK_SSIDPWD, nread) =>
         /\ Told(NET_LINK_CHANNEL, nread) => iFountChannel # 0
         /\ Told(NET_LINK_REIPPORT, nread) => iRecIpPort = 1

\* Joined, ra0 stays managed until the call: the loop no longer hops, or the
\* call is the next thing it does.
StationInv ==
    ~StringsFirst =>
      /\ DialledAsStation
      /\ pc \in {"switch", "scan"} => iFountChannel = 2 \/ iRecIpPort = 1
      /\ iLinkRoute = 1 /\ pc \notin {"exited", "rebooted"} =>
           /\ mode = "managed"
           /\ iFountChannel = 2 \/ (pc = "link" /\ iRecIpPort = 1)

LEMMA ReadInit == SystemInit => ReadInv
  <1> SUFFICES ASSUME SystemInit PROVE ReadInv
    OBVIOUS
  <1>1. nread = 0 /\ told = <<>> /\ mode = "managed" /\ iLinkRoute = 0 /\ pc = "bind"
    BY DEF SystemInit, DaemonInit, RxInit
  <1>2. \A kind : ~Told(kind, nread)
    BY <1>1 DEF Told
  <1> QED
    BY <1>1, <1>2 DEF ReadInv

LEMMA StationInit == SystemInit => StationInv
  BY DEF SystemInit, DaemonInit, StationInv, DialledAsStation

\* Frames are heard: what was read stays read, and what comes first stays so.
LEMMA HeardKeeps ==
    ASSUME SystemInv, MultiCast
    PROVE  /\ UNCHANGED daemonVars
           /\ \A kind : Told(kind, nread)' <=> Told(kind, nread)
           /\ StringsFirst => StringsFirst'
           /\ mode # "monitor" => told' = told
  <1>1. [RxNext]_rxVars
    BY DriverStep DEF SystemInv, SystemTypeOK, SystemNext
  <1>2. DriverInv'
    BY <1>1, DriverPreserved DEF SystemInv
  <1>3. UNCHANGED daemonVars
    BY DEF MultiCast
  <1>4. told \in Seq(Message) /\ Len(told) \in Nat /\ nread \in 0 .. Len(told) /\ nread' = nread
    BY <1>3 DEF SystemInv, DriverInv, TypeInv, RxTypeOK, SystemTypeOK, daemonVars
  <1>5. /\ Len(told') \in Nat /\ Len(told) <= Len(told')
        /\ \A i \in 1 .. Len(told) : told'[i] = told[i]
    <2>1. CASE told' = told
      BY <1>4, <2>1
    <2>2. CASE told' # told
      <3>1. PICK kind \in 1 .. 3 : Tells(kind)
        BY <1>1, <1>2, <2>2, ToldGrows DEF SystemInv, DriverInv
      <3>2. Len(told') = Len(told) + 1 /\ \A i \in 1 .. Len(told) : told'[i] = told[i]
        BY <3>1, TellsAppends DEF SystemInv, DriverInv, TypeInv
      <3> QED
        BY <1>4, <3>2
    <2> QED
      BY <2>1, <2>2
  <1>6. \A i \in 1 .. nread : i \in 1 .. Len(told)
    BY <1>4
  <1>7. \A kind : Told(kind, nread)' <=> Told(kind, nread)
    BY <1>4, <1>5, <1>6 DEF Told
  <1>8. ASSUME StringsFirst PROVE StringsFirst'
    <2>1. Len(told) # 0 /\ told[1].uLinkType = NET_LINK_SSIDPWD
      BY <1>4, <1>8 DEF StringsFirst
    <2>2. 1 \in 1 .. Len(told) /\ Len(told') # 0
      BY <1>4, <1>5, <2>1
    <2>3. told'[1] = told[1] /\ told' # <<>>
      BY <1>5, <2>2
    <2> QED
      BY <2>1, <2>3 DEF StringsFirst
  <1>9. mode # "monitor" => told' = told
    BY DEF MultiCast, Tuned, rxVars, notifyVars
  <1> QED
    BY <1>3, <1>7, <1>8, <1>9

\* What one recvmsg brings.
LEMMA ReadOne ==
    ASSUME SystemInv, Recv, nread < Len(told)
    PROVE  \E kind \in 1 .. 3 :
             /\ kind = told[nread + 1].uLinkType
             /\ ~Told(kind, nread) /\ nread' = nread + 1
             /\ \A k : Told(k, nread + 1) <=> (Told(k, nread) \/ k = kind)
             /\ pc' = (IF kind = 2 THEN "switch" ELSE "link")
             /\ iFountChannel' = (IF kind = 1 THEN 1 ELSE iFountChannel)
             /\ iRecIpPort' = (IF kind = 3 THEN 1 ELSE iRecIpPort)
  <1> DEFINE m == told[nread + 1]
  <1>1. /\ m \in Message /\ ~Told(m.uLinkType, nread) /\ nread \in Nat
        /\ \A kind : Told(kind, nread) => Told(kind, nread + 1)
        /\ Told(m.uLinkType, nread + 1)
    BY NextMessage
  <1>2. nread # Len(told)
    BY DEF SystemInv, SystemTypeOK, DriverInv, TypeInv, RxTypeOK
  <1>3. PICK junk \in Garbage : link' = Delivered(m, junk)
    BY <1>2 DEF Recv
  <1>4. link'.uLinkType = m.uLinkType
    BY <1>1, <1>3, DeliveredFacts
  <1>5. /\ nread' = nread + 1
        /\ pc' = (IF m.uLinkType = 2 THEN "switch" ELSE "link")
        /\ iFountChannel' = (IF m.uLinkType = 1 THEN 1 ELSE iFountChannel)
        /\ iRecIpPort' = (IF m.uLinkType = 3 THEN 1 ELSE iRecIpPort)
    BY <1>2, <1>4 DEF Recv, NET_LINK_CHANNEL, NET_LINK_SSIDPWD, NET_LINK_REIPPORT
  <1>6. m.uLinkType \in 1 .. 3
    BY <1>1 DEF Message
  <1>7. ASSUME NEW k, Told(k, nread + 1) PROVE Told(k, nread) \/ k = m.uLinkType
    <2>1. PICK i \in 1 .. nread + 1 : told[i].uLinkType = k
      BY <1>7 DEF Told
    <2>2. i \in 1 .. nread \/ i = nread + 1
      BY <1>1
    <2> QED
      BY <2>1, <2>2 DEF Told
  <1> HIDE DEF m
  <1>8. m.uLinkType = told[nread + 1].uLinkType
    BY DEF m
  <1> QED
    BY <1>1, <1>5, <1>6, <1>7, <1>8


LEMMA ReadStep ==
    ASSUME SystemInv, JoinInv, ReadInv, [SystemNext]_vars
    PROVE  ReadInv'
  <1> USE DEF NET_LINK_CHANNEL, NET_LINK_SSIDPWD, NET_LINK_REIPPORT
  <1>1. CASE MultiCast
    <2>1. /\ UNCHANGED daemonVars
          /\ \A kind : Told(kind, nread)' <=> Told(kind, nread)
          /\ mode # "monitor" => told' = told
      BY <1>1, HeardKeeps
    <2>2. Told(1, nread)' <=> Told(1, nread)
      BY <2>1
    <2>3. Told(2, nread)' <=> Told(2, nread)
      BY <2>1
    <2>4. Told(3, nread)' <=> Told(3, nread)
      BY <2>1
    <2> QED
      BY <2>1, <2>2, <2>3, <2>4 DEF ReadInv, daemonVars
  <1>2. CASE Daemon \/ Rerun \/ UNCHANGED vars
    <2>0. /\ told' = told /\ Len(told) \in Nat
          /\ \A kind, n : Told(kind, n)' <=> Told(kind, n)
      BY <1>2, DaemonKeeps
    <2>1. ASSUME nread' = nread
          PROVE  \A kind : Told(kind, nread)' <=> Told(kind, nread)
      BY <2>0, <2>1 DEF Told
    <2>2. CASE Bind
      <3>1. /\ pc = "bind" /\ pc' = "top" /\ nread' = Len(told)
            /\ UNCHANGED <<iFountChannel, iLinkRoute, iRecIpPort>>
        BY <2>2 DEF Bind
      <3>2. CASE Told(2, nread)
        <4>1. nread \in 0 .. Len(told)
          BY DEF SystemInv, SystemTypeOK
        <4>2. \A i \in 1 .. nread : i \in 1 .. Len(told)
          BY <2>0, <4>1
        <4>3. Told(2, nread)'
          BY <2>0, <3>1, <3>2, <4>2 DEF Told
        <4> QED
          BY <3>1, <4>3 DEF ReadInv
      <3>3. CASE ~Told(2, nread)
        <4>1. told = <<>>
          BY <3>1, <3>3 DEF ReadInv
        <4>2. nread' = 0
          BY <3>1, <4>1
        <4>3. ~Told(1, nread)' /\ ~Told(2, nread)' /\ ~Told(3, nread)'
          BY <4>2 DEF Told
        <4>4. iLinkRoute' # 1
          BY <3>1, <3>3 DEF ReadInv
        <4> QED
          BY <3>1, <4>3, <4>4 DEF ReadInv
      <3> QED
        BY <3>2, <3>3
    <2>3. ASSUME nread' = nread, iRecIpPort' = iRecIpPort,
                 iLinkRoute' = 1 => iLinkRoute = 1 \/ Told(2, nread),
                 pc' # "bind",
                 pc' = "exited" => Told(2, nread),
                 iFountChannel # 0 => iFountChannel' # 0
          PROVE  ReadInv'
      <3>1. Told(1, nread)' <=> Told(1, nread)
        BY <2>1, <2>3
      <3>2. Told(2, nread)' <=> Told(2, nread)
        BY <2>1, <2>3
      <3>3. Told(3, nread)' <=> Told(3, nread)
        BY <2>1, <2>3
      <3> QED
        BY <2>3, <3>1, <3>2, <3>3 DEF ReadInv
    <2>4. CASE Top
      BY <2>3, <2>4 DEF Top
    <2>5. CASE Recv /\ nread = Len(told)
      <3>1. nread' = nread /\ pc' = "top" /\ UNCHANGED <<iFountChannel, iRecIpPort, iLinkRoute>>
        BY <2>0, <2>5 DEF Recv
      <3> QED
        BY <2>3, <3>1
    <2>6. CASE Recv /\ nread < Len(told)
      <3>1. PICK kind \in 1 .. 3 :
               /\ ~Told(kind, nread) /\ nread' = nread + 1
               /\ \A k : Told(k, nread + 1) <=> (Told(k, nread) \/ k = kind)
               /\ pc' = (IF kind = 2 THEN "switch" ELSE "link")
               /\ iFountChannel' = (IF kind = 1 THEN 1 ELSE iFountChannel)
               /\ iRecIpPort' = (IF kind = 3 THEN 1 ELSE iRecIpPort)
        BY <2>6, ReadOne
      <3>2. \A k : Told(k, nread)' <=> (Told(k, nread) \/ k = kind)
        BY <2>0, <3>1 DEF Told
      <3>3. Told(1, nread)' <=> (Told(1, nread) \/ kind = 1)
        BY <3>2
      <3>4. Told(2, nread)' <=> (Told(2, nread) \/ kind = 2)
        BY <3>2
      <3>5. Told(3, nread)' <=> (Told(3, nread) \/ kind = 3)
        BY <3>2
      <3>6. iLinkRoute' = iLinkRoute /\ pc' # "bind" /\ pc' # "exited"
        BY <2>6, <3>1 DEF Recv
      <3> QED
        BY <3>1, <3>3, <3>4, <3>5, <3>6 DEF ReadInv
    <2>7. CASE Switch
      BY <2>3, <2>7 DEF Switch
    <2>8. CASE Scan
      <3>1. Told(2, nread)
        BY <2>8 DEF Scan, JoinInv
      <3> QED
        BY <2>3, <2>8, <3>1 DEF Scan
    <2>9. CASE CallBack
      <3>1. pc' = "exited" => Told(2, nread)
        BY <2>9 DEF CallBack, LinkReady, ReadInv
      <3>2. pc' # "bind" /\ UNCHANGED <<nread, iFountChannel, iRecIpPort, iLinkRoute>>
        BY <2>9 DEF CallBack
      <3> QED
        BY <2>3, <3>1, <3>2
    <2>10. CASE Rerun
      <3>1. Told(2, nread) /\ nread' = nread /\ iLinkRoute' = 0 /\ pc' = "bind"
        BY <2>10 DEF Rerun, Restart, ReadInv
      <3>2. Told(2, nread)'
        BY <2>1, <3>1
      <3> QED
        BY <3>1, <3>2 DEF ReadInv
    <2>11. CASE UNCHANGED vars
      <3>1. UNCHANGED daemonVars
        BY <2>11 DEF vars
      <3>2. Told(1, nread)' <=> Told(1, nread)
        BY <2>1, <3>1 DEF daemonVars
      <3>3. Told(2, nread)' <=> Told(2, nread)
        BY <2>1, <3>1 DEF daemonVars
      <3>4. Told(3, nread)' <=> Told(3, nread)
        BY <2>1, <3>1 DEF daemonVars
      <3> QED
        BY <2>0, <3>1, <3>2, <3>3, <3>4 DEF ReadInv, daemonVars
    <2>12. ASSUME Recv PROVE nread = Len(told) \/ nread < Len(told)
      BY <2>12 DEF Recv
    <2> QED
      BY <1>2, <2>2, <2>4, <2>5, <2>6, <2>7, <2>8, <2>9, <2>10, <2>11, <2>12
         DEF Daemon, DaemonStep
  <1> QED
    BY <1>1, <1>2 DEF SystemNext


LEMMA StationStep ==
    ASSUME SystemInv, JoinInv, ReadInv, StationInv, [SystemNext]_vars
    PROVE  StationInv'
  <1> SUFFICES ASSUME ~StringsFirst'
               PROVE  /\ DialledAsStation'
                      /\ pc' \in {"switch", "scan"} => iFountChannel' = 2 \/ iRecIpPort' = 1
                      /\ iLinkRoute' = 1 /\ pc' \notin {"exited", "rebooted"} =>
                           /\ mode' = "managed"
                           /\ iFountChannel' = 2 \/ (pc' = "link" /\ iRecIpPort' = 1)
    BY DEF StationInv
  <1> USE DEF NET_LINK_CHANNEL, NET_LINK_SSIDPWD, NET_LINK_REIPPORT
  <1>1. ~StringsFirst /\ (MultiCast => UNCHANGED daemonVars)
    <2>1. CASE MultiCast
      BY <2>1, HeardKeeps
    <2>2. CASE ~MultiCast
      <3>1. told' = told
        BY <2>2, DaemonKeeps DEF SystemNext
      <3> QED
        BY <2>2, <3>1 DEF StringsFirst
    <2> QED
      BY <2>1, <2>2
  <1>2. /\ DialledAsStation
        /\ pc \in {"switch", "scan"} => iFountChannel = 2 \/ iRecIpPort = 1
        /\ iLinkRoute = 1 /\ pc \notin {"exited", "rebooted"} =>
             /\ mode = "managed"
             /\ iFountChannel = 2 \/ (pc = "link" /\ iRecIpPort = 1)
    BY <1>1 DEF StationInv
  <1>3. iFountChannel \in 0 .. 2
    BY DEF SystemInv, SystemTypeOK
  <1>4. CASE UNCHANGED daemonVars
    BY <1>2, <1>4 DEF daemonVars, DialledAsStation
  <1>5. ASSUME dialled' = dialled PROVE DialledAsStation'
    BY <1>2, <1>5 DEF DialledAsStation
  <1>6. CASE Bind
    <2>1. iLinkRoute # 1 \/ iFountChannel = 2
      BY <1>2, <1>6 DEF Bind
    <2>2. iFountChannel = 0
      BY <1>6 DEF Bind, JoinInv
    <2> QED
      BY <1>5, <1>6, <2>1, <2>2 DEF Bind
  <1>7. CASE Top
    <2>1. pc = "top" /\ pc' = "recv" /\ iLinkRoute' = iLinkRoute /\ dialled' = dialled
      BY <1>7 DEF Top
    <2>2. iLinkRoute = 1 => iFountChannel = 2 /\ mode = "managed"
      BY <1>2, <2>1
    <2>3. iFountChannel = 2 => iFountChannel' = 2 /\ mode' = mode
      BY <1>7 DEF Top
    <2> QED
      BY <1>5, <2>1, <2>2, <2>3
  <1>8. CASE Recv /\ nread = Len(told)
    <2>0. Len(told) \in Nat
      BY DEF SystemInv, DriverInv, TypeInv, RxTypeOK
    <2>1. /\ pc = "recv" /\ pc' = "top"
          /\ UNCHANGED <<iFountChannel, iRecIpPort, iLinkRoute, mode, dialled>>
      BY <1>8, <2>0 DEF Recv
    <2> QED
      BY <1>2, <1>5, <2>1
  <1>9. CASE Recv /\ nread < Len(told)
    <2>1. PICK kind \in 1 .. 3 :
               /\ kind = told[nread + 1].uLinkType
               /\ ~Told(kind, nread) /\ nread' = nread + 1
               /\ pc' = (IF kind = 2 THEN "switch" ELSE "link")
               /\ iFountChannel' = (IF kind = 1 THEN 1 ELSE iFountChannel)
               /\ iRecIpPort' = (IF kind = 3 THEN 1 ELSE iRecIpPort)
      BY <1>9, ReadOne
    <2>2. pc = "recv" /\ UNCHANGED <<iLinkRoute, mode, dialled>>
      BY <1>9 DEF Recv
    <2>3. iLinkRoute = 1 => iFountChannel = 2 /\ mode = "managed" /\ kind # 1
      <3>1. iFountChannel = 2 => Told(1, nread)
        BY DEF SystemInv, HopInv
      <3> QED
        BY <1>2, <2>1, <2>2, <3>1
    <2>4. ASSUME kind = 2 PROVE iFountChannel = 2 \/ iRecIpPort = 1
      <3>1. told \in Seq(Message) /\ nread \in 0 .. Len(told) /\ Len(told) \in Nat
        BY DEF SystemInv, DriverInv, TypeInv, RxTypeOK, SystemTypeOK
      <3>2. told # <<>> /\ 1 \in 1 .. Len(told)
        BY <1>9, <3>1
      <3>3. told[1].uLinkType # 2 /\ told[1].uLinkType \in 1 .. 3
        <4>1. told[1] \in Message
          BY <3>1, <3>2
        <4>2. told[1].uLinkType \in 1 .. 3
          BY <4>1 DEF Message
        <4> QED
          BY <1>1, <3>2, <4>2 DEF StringsFirst
      <3>4. nread # 0
        <4>1. nread = 0 => nread + 1 = 1
          OBVIOUS
        <4> QED
          BY <2>1, <2>4, <3>3, <4>1
      <3>5. 1 \in 1 .. nread
        BY <3>1, <3>4
      <3>6. Told(1, nread) \/ Told(3, nread)
        BY <3>3, <3>5 DEF Told
      <3>7. iFountChannel # 0 \/ iRecIpPort = 1
        BY <2>1, <2>4, <3>6 DEF ReadInv
      <3>8. iFountChannel # 1
        BY <2>2 DEF JoinInv
      <3> QED
        BY <1>3, <3>7, <3>8
    <2> QED
      BY <1>5, <2>1, <2>2, <2>3, <2>4
  <1>10. CASE Switch
    <2>1. /\ pc = "switch" /\ mode' = "managed"
          /\ UNCHANGED <<iFountChannel, iRecIpPort, iLinkRoute, dialled>>
      BY <1>10 DEF Switch, IwMode
    <2> QED
      BY <1>2, <1>5, <2>1
  <1>11. CASE Scan
    <2>1. /\ pc = "scan" /\ pc' = "link"
          /\ UNCHANGED <<iFountChannel, iRecIpPort, mode, dialled>>
      BY <1>11 DEF Scan
    <2>2. mode = "managed"
      BY <2>1 DEF JoinInv
    <2> QED
      BY <1>2, <1>5, <2>1, <2>2
  <1>12. CASE CallBack
    <2>1. /\ pc = "link" /\ pc' \in {"top", "exited", "rebooted"}
          /\ UNCHANGED <<iFountChannel, iRecIpPort, iLinkRoute, mode>>
      BY <1>12 DEF CallBack
    <2>2. CASE LinkReady
      <3>1. mode = "managed" /\ pc' # "top"
        BY <1>2, <1>12, <2>1, <2>2 DEF LinkReady, CallBack
      <3>2. dialled' = dialled \cup {[addr |-> link.uReip, mode |-> mode]}
        BY <1>12, <2>2 DEF CallBack
      <3>3. DialledAsStation'
        BY <1>2, <3>1, <3>2 DEF DialledAsStation
      <3> QED
        BY <2>1, <3>1, <3>3
    <2>3. CASE ~LinkReady
      <3>1. dialled' = dialled /\ pc' = "top"
        BY <1>12, <2>3 DEF CallBack
      <3>2. iLinkRoute = 1 => iFountChannel = 2 /\ mode = "managed"
        BY <1>2, <2>1, <2>3 DEF LinkReady
      <3> QED
        BY <1>5, <2>1, <3>1, <3>2
    <2> QED
      BY <2>2, <2>3
  <1>13. CASE Rerun
    <2>1. dialled' = dialled /\ iLinkRoute' = 0 /\ pc' = "bind"
      BY <1>13 DEF Rerun, Restart
    <2> QED
      BY <1>5, <2>1
  <1>14. CASE UNCHANGED vars
    BY <1>4, <1>14 DEF vars
  <1>15. ASSUME Recv PROVE nread = Len(told) \/ nread < Len(told)
    BY <1>15 DEF Recv
  <1> QED
    BY <1>1, <1>4, <1>6, <1>7, <1>8, <1>9, <1>10, <1>11, <1>12, <1>13, <1>14, <1>15
       DEF SystemNext, Daemon, DaemonStep

(***************************************************************************)
(* A call from monitor mode has one cause: the strings were the first of   *)
(* the driver's announcements.  In every other order ra0 is a station when *)
(* connect() is called, whatever is lost, for any number of restarts and   *)
(* any access points; only the code bug of that one order is left.         *)
(***************************************************************************)
THEOREM CallsAsStation == SystemSpec => []StationUnlessStringsFirst
  <1>1. SystemInv /\ JoinInv /\ [SystemNext]_vars => JoinInv'
    BY JoinStep
  <1>2. SystemInv /\ JoinInv /\ ReadInv /\ [SystemNext]_vars => ReadInv'
    BY ReadStep
  <1>3. SystemInv /\ JoinInv /\ ReadInv /\ StationInv /\ [SystemNext]_vars => StationInv'
    BY StationStep
  <1>4. StationInv => StationUnlessStringsFirst
    BY DEF StationInv, StationUnlessStringsFirst
  <1> QED
    BY <1>1, <1>2, <1>3, <1>4, JoinInit, ReadInit, StationInit, SystemInvInit, SystemInvStep,
       PTL DEF SystemSpec


=============================================================================
