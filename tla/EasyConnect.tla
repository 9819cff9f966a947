---------------------------- MODULE EasyConnect ----------------------------
(***************************************************************************)
(* EasyConnect end to end: the sender (main and WifiEasyConnect of         *)
(* src/multicast/multi_cilent.c) broadcasts its frames round after round,  *)
(* the driver hears them while ra0 is in monitor mode on a channel that    *)
(* carries them, the daemon tunes ra0 and acts on the driver's messages.   *)
(***************************************************************************)
EXTENDS EasyLinkDaemon

CONSTANTS
    Audible,    \* channels on which the sender's frames can be heard
    MaxLosses,  \* how many frames the radio may miss while it is tuned
    Timed       \* does the daemon's sleep last a burst of channel frames?

ASSUME SystemAssumption ==
    /\ Audible \subseteq Channels /\ Audible # {}
    /\ MaxLosses \in Nat
    /\ Timed \in BOOLEAN

VARIABLES
    pos,     \* next frame of the round
    losses,  \* frames missed while tuned
    dwell    \* channel frames of one burst sent since the daemon fell asleep

senderVars == <<pos, losses, dwell>>
vars == <<rxVars, daemonVars, senderVars>>

-----------------------------------------------------------------------------
(* The sender *)

(***************************************************************************)
(* CheckWifiStatus of the sender: the name of its access point is read, a  *)
(* newline behind it, into a buffer of size bytes (16) that keeps its last *)
(* byte zero; one byte less than was read is used.                         *)
(***************************************************************************)
ShownSsid(name, size) ==
    SubSeq(name, 1, IF Len(name) + 1 <= size - 1 THEN Len(name) ELSE size - 2)

Frames == Round(Ssid, Pwd, Reip)

Burst == 4    \* channel frames at the start of a round

Tuned == mode = "monitor" /\ chan \in Audible

\* One sendto, and the driver's interrupt when the frame is heard.
MultiCast ==
    /\ \/ /\ Tuned
          /\ STA_MonPktSend(Frames[pos], chan)
          /\ UNCHANGED losses
       \/ /\ Tuned /\ losses < MaxLosses
          /\ losses' = losses + 1
          /\ UNCHANGED rxVars
       \/ /\ ~Tuned
          /\ UNCHANGED <<rxVars, losses>>
    /\ pos' = IF pos = Len(Frames) THEN 1 ELSE pos + 1
    /\ dwell' = IF Timed /\ pos = dwell + 1 /\ dwell < Burst
                THEN dwell + 1 ELSE dwell
    /\ UNCHANGED daemonVars

-----------------------------------------------------------------------------
(* The system *)

(***************************************************************************)
(* Timed: usleep(100 ms) in front of recvmsg is longer than the sender's   *)
(* pause of 40 ms between two rounds and the sending of one, so that a     *)
(* whole burst of channel frames falls into it.                            *)
(***************************************************************************)
Daemon ==
    /\ DaemonStep
    /\ Timed /\ pc = "recv" => dwell = Burst
    /\ dwell' = IF pc = "top" THEN 0 ELSE dwell
    /\ UNCHANGED <<rxVars, pos, losses>>

\* The user starts the daemon again.
Rerun == Restart /\ UNCHANGED <<rxVars, senderVars>>

SystemInit == RxInit /\ DaemonInit /\ pos = 1 /\ losses = 0 /\ dwell = 0

SystemNext == MultiCast \/ Daemon \/ Rerun

SystemSpec == SystemInit /\ [][SystemNext]_vars

\* The sender never stops (while (g_MultiCast)), nor does the daemon's loop.
FairSystemSpec == SystemSpec /\ WF_vars(MultiCast) /\ WF_vars(Daemon)

-----------------------------------------------------------------------------
(* Properties *)

(***************************************************************************)
(* The types of the daemon's locals and of ra0.  The loop never asks the   *)
(* radio for a channel that does not exist: after the announcement it      *)
(* tunes to g_tEasyLink.uChannel, which every later message overwrites.    *)
(***************************************************************************)
SystemTypeOK ==
    /\ pc \in {"bind", "top", "recv", "switch", "scan", "link", "exited", "rebooted"}
    /\ iFountChannel \in 0 .. 2 /\ iChannel \in Channels
    /\ iLinkRoute \in {0, 1} /\ iRecIpPort \in {0, 1}
    /\ link \in [uLinkType : 0 .. 3, uChannel : Channels \cup {0},
                 uReip : [1 .. 3 -> Pair],
                 uPwd : [1 .. Chunks -> Pair], uSSID : [1 .. Chunks -> Pair]]
    /\ nread \in 0 .. Len(told)
    /\ mode \in {"monitor", "managed"} /\ chan \in Channels
    /\ ap \in {a.ssid : a \in APs} \cup {NoAP}
    /\ dialled \subseteq [addr : [1 .. 3 -> Pair], mode : {"monitor", "managed"}]
    /\ restarts \in 0 .. MaxRestarts
    /\ pos \in 1 .. Len(Frames) /\ losses \in 0 .. MaxLosses
    /\ dwell \in 0 .. Burst

(***************************************************************************)
(* The daemon calls the sender and nobody else: whichever of the driver's  *)
(* three messages it read last, the address in its copy of the struct is   *)
(* the sender's when it dials.                                             *)
(***************************************************************************)
DialsSender == \A d \in dialled : d.addr = Reip

(***************************************************************************)
(* The credentials ConnectAP is given are the sender's, although recvmsg   *)
(* cuts the end of uSSID off and memcpy reads past the buffer: the sender  *)
(* never broadcasts a name that reaches so far.                            *)
(***************************************************************************)
TriedIsSent == tried # <<>> => tried = <<Ssid, Pwd>>

(***************************************************************************)
(* Once the channel is known the daemon never drops the association again: *)
(* no message that is still queued when it joins puts ra0 back into        *)
(* monitor mode.                                                           *)
(***************************************************************************)
StaysJoined == [][ap # NoAP /\ iFountChannel # 0 => ap' = ap]_vars

(***************************************************************************)
(* The daemon ends its search by calling the sender.  Messages that are    *)
(* announced only once and the early returns of the driver must not leave  *)
(* it waiting for one that never comes.  There is one way not to get       *)
(* through, and it takes a frame that the radio loses while it is tuned:   *)
(* the credentials were complete before the address was, ra0 has become a  *)
(* station for good, and no frame is heard any more.                       *)
(***************************************************************************)
Deaf == mode = "managed" /\ TYPE_REIP \notin uRecOK

GetsThrough == <>(dialled # {}) \/ <>[](Deaf /\ losses > 0)

(***************************************************************************)
(* The comments number the steps "1.switch mode", "2.scan ap", "3.connect  *)
(* ap", then the call to the phone: a call is made from managed mode, as a *)
(* station of the access point.                                            *)
(***************************************************************************)
DialledAsStation == \A d \in dialled : d.mode = "managed"

\* The strings are the first thing the driver announces.
StringsFirst == told # <<>> /\ told[1].uLinkType = NET_LINK_SSIDPWD

(***************************************************************************)
(* The only way to a call from monitor mode: the driver announces the      *)
(* credentials before anything else.  When the channel or the address was  *)
(* announced before them, either the loop has stopped hopping by the time  *)
(* ra0 joins, or the call follows the join without another pass; no later  *)
(* message and no restart of the daemon changes that.                      *)
(***************************************************************************)
StationUnlessStringsFirst == ~StringsFirst => DialledAsStation
=============================================================================
