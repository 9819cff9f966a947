--------------------------- MODULE EasyLinkDaemon ---------------------------
(***************************************************************************)
(* The user-space half of EasyConnect: main of                             *)
(* src/multicast/netlink_test.c.                                           *)
(* It hops over the channels in monitor mode until the driver announces    *)
(* the sender's channel, joins the access point when the credentials are   *)
(* announced, and finally calls the sender back over TCP and reboots.      *)
(*                                                                         *)
(* A pass of the while loop is cut where the driver can run in between:    *)
(* the system() calls at its top, the sleep before recvmsg, the switch to  *)
(* managed mode, the site survey, the call back.                           *)
(***************************************************************************)
EXTENDS EasyLinkRx

CONSTANTS
    HdrPairs,    \* sizeof(struct nlmsghdr) in pairs: 8 in the source
    Garbage,     \* pairs that can lie behind the malloc'ed message buffer
    LastChannel, \* channels are tried from 1 to here: 14 in the source
    APs,         \* access points: [ssid, auth, infra, psk]
    AlwaysSeen,  \* those that no site survey misses
    MaxRestarts  \* how often the daemon is started again after exit(1)

ASSUME DaemonAssumption ==
    /\ HdrPairs \in 0 .. Chunks
    /\ Garbage \subseteq Pair /\ Garbage # {}
    /\ LastChannel \in Nat \ {0} /\ Channels = 1 .. LastChannel
    /\ AlwaysSeen \subseteq APs
    /\ MaxRestarts \in Nat

VARIABLES
    pc,            \* where the loop is
    iFountChannel, iChannel, iLinkRoute, iRecIpPort,
    link,          \* the daemon's copy g_tEasyLink
    nread,         \* netlink messages taken from the socket
    mode, chan,    \* of ra0
    ap,            \* SSID of the access point ra0 is associated with, or NoAP
    tried,         \* credentials of the last ConnectAP
    dialled,       \* calls of connect(): the address, and the mode of ra0
    restarts

daemonVars == <<pc, iFountChannel, iChannel, iLinkRoute, iRecIpPort, link, nread,
                mode, chan, ap, tried, dialled, restarts>>

NoAP == <<-1>>
NoLink == [uLinkType |-> 0, uChannel |-> 0, uReip |-> [k \in 1 .. 3 |-> Zero],
           uPwd |-> [k \in 1 .. Chunks |-> Zero],
           uSSID |-> [k \in 1 .. Chunks |-> Zero]]

DaemonInit ==
    /\ pc = "bind"
    /\ iFountChannel = 0 /\ iChannel = 1 /\ iLinkRoute = 0 /\ iRecIpPort = 0
    /\ link = NoLink /\ nread = 0
    /\ mode = "managed" /\ chan = 1 /\ ap = NoAP
    /\ tried = <<>> /\ dialled = {} /\ restarts = 0

-----------------------------------------------------------------------------
(* C strings *)

\* The bytes of a buffer of pairs, up to the first zero.
CStr(pairs) ==
    LET bytes == [j \in 1 .. 2 * Chunks |-> pairs[(j + 1) \div 2][2 - (j % 2)]]
        ends == {j \in 1 .. 2 * Chunks : bytes[j] = 0}
        n == IF ends = {} THEN 2 * Chunks
             ELSE (CHOOSE j \in ends : \A k \in ends : j <= k) - 1
    IN  SubSeq(bytes, 1, n)

StrStr(haystack, needle) ==
    \E i \in 0 .. Len(haystack) - Len(needle) :
        SubSeq(haystack, i + 1, i + Len(needle)) = needle

-----------------------------------------------------------------------------
(* Setting ra0 up: iwconfig.  A change of mode loses the association. *)

IwMode(m) == /\ mode' = m
             /\ ap' = IF mode = m THEN ap ELSE NoAP

\* socket, bind: messages broadcast before are not delivered.
Bind ==
    /\ pc = "bind"
    /\ nread' = Len(told)
    /\ IwMode("monitor")
    /\ pc' = "top"
    /\ UNCHANGED <<iFountChannel, iChannel, iLinkRoute, iRecIpPort, link, chan,
                   tried, dialled, restarts>>

\* Mutants: the last channel is never tried; the one behind it is.
PastLast(c) == IF c > LastChannel THEN 1 ELSE c + 1
SkipLast(c) == IF c + 1 >= LastChannel THEN 1 ELSE c + 1

NextChannel(c) == IF c + 1 > LastChannel THEN 1 ELSE c + 1

Top ==
    /\ pc = "top"
    /\ pc' = "recv"
    /\ \/ /\ iFountChannel = 0
          /\ chan' = iChannel
          /\ IwMode("monitor")
          /\ iChannel' = NextChannel(iChannel)
          /\ UNCHANGED iFountChannel
       \/ /\ iFountChannel = 1
          /\ chan' = link.uChannel
          /\ IwMode("monitor")
          /\ iFountChannel' = 2
          /\ UNCHANGED iChannel
       \/ /\ iFountChannel = 2
          /\ UNCHANGED <<iFountChannel, iChannel, chan, mode, ap>>
    /\ UNCHANGED <<iLinkRoute, iRecIpPort, link, nread, tried, dialled, restarts>>

\* Mutant: the buffer is one pair shorter.
DeliveredLess(m, junk) ==
    [m EXCEPT !.uSSID = [k \in 1 .. Chunks |->
                            IF k < Chunks - HdrPairs THEN m.uSSID[k] ELSE junk]]

(***************************************************************************)
(* The buffer for recvmsg has room for a TEasyLink but not for the netlink *)
(* header in front of it, so the end of uSSID, the last member, is cut off *)
(* and memcpy reads what lies behind the buffer instead.                   *)
(***************************************************************************)
Delivered(m, junk) ==
    [m EXCEPT !.uSSID = [k \in 1 .. Chunks |->
                            IF k <= Chunks - HdrPairs THEN m.uSSID[k] ELSE junk]]

\* recvmsg(MSG_DONTWAIT) and the dispatch on the kind of message.
Recv ==
    /\ pc = "recv"
    /\ \/ /\ nread = Len(told)
          /\ pc' = "top"
          /\ UNCHANGED <<iFountChannel, iRecIpPort, link, nread, chan>>
       \/ /\ nread < Len(told)
          /\ nread' = nread + 1
          /\ \E junk \in Garbage : link' = Delivered(told[nread + 1], junk)
          /\ pc' = IF link'.uLinkType = NET_LINK_SSIDPWD THEN "switch" ELSE "link"
          /\ iFountChannel' = IF link'.uLinkType = NET_LINK_CHANNEL
                              THEN 1 ELSE iFountChannel
          /\ chan' = IF link'.uLinkType = NET_LINK_CHANNEL
                     THEN link'.uChannel ELSE chan
          /\ iRecIpPort' = IF link'.uLinkType = NET_LINK_REIPPORT
                           THEN 1 ELSE iRecIpPort
    /\ UNCHANGED <<iChannel, iLinkRoute, mode, ap, tried, dialled, restarts>>

\* Mutant: ra0 is left in monitor mode.
SwitchSkipped ==
    /\ pc = "switch"
    /\ pc' = "scan"
    /\ UNCHANGED <<iFountChannel, iChannel, iLinkRoute, iRecIpPort, link, nread,
                   mode, chan, ap, tried, dialled, restarts>>

\* while (CheckWifiStatus() == 0) iwconfig ra0 mode managed
Switch ==
    /\ pc = "switch"
    /\ IwMode("managed")
    /\ pc' = "scan"
    /\ UNCHANGED <<iFountChannel, iChannel, iLinkRoute, iRecIpPort, link, nread,
                   chan, tried, dialled, restarts>>

\* What ra0 is associated with after ConnectAP has run its commands.
ConnectAP(a, pwd) ==
    IF a.infra /\ (a.auth = "OPEN" \/ (a.auth = "WPA" /\ a.psk = pwd))
    THEN a.ssid ELSE NoAP

\* The access points the two loops over a survey may stop at.
Candidates(seen, ssid) ==
    LET exact == {a \in seen : a.ssid = ssid}
    IN  IF exact # {} THEN exact ELSE {a \in seen : StrStr(a.ssid, ssid)}

\* getsitesurvey: the access points one survey may return.
Survey == {AlwaysSeen \cup s : s \in SUBSET APs}

\* getsitesurvey, the two loops, ConnectAP; its result is not looked at.
Scan ==
    /\ pc = "scan"
    /\ pc' = "link"
    /\ \E seen \in Survey :
         LET ssid == CStr(link.uSSID)
             pwd == CStr(link.uPwd)
             found == Candidates(seen, ssid)
         IN  \/ /\ found = {}
                /\ UNCHANGED <<ap, tried, iLinkRoute>>
             \/ \E a \in found :
                /\ ap' = ConnectAP(a, pwd)
                /\ tried' = <<ssid, pwd>>
                /\ iLinkRoute' = 1
    /\ UNCHANGED <<iFountChannel, iChannel, iRecIpPort, link, nread, mode, chan,
                   dialled, restarts>>

\* Mutant: the address is used before it was announced.
JoinedOnly == iLinkRoute = 1

LinkReady == iLinkRoute = 1 /\ iRecIpPort = 1

\* Call the sender back; exit(1) when it does not answer, else reboot.
CallBack ==
    /\ pc = "link"
    /\ \/ /\ LinkReady
          /\ dialled' = dialled \cup {[addr |-> link.uReip, mode |-> mode]}
          /\ \/ pc' = "exited"
             \/ ap # NoAP /\ pc' = "rebooted"
       \/ /\ ~LinkReady
          /\ pc' = "top"
          /\ UNCHANGED dialled
    /\ UNCHANGED <<iFountChannel, iChannel, iLinkRoute, iRecIpPort, link, nread,
                   mode, chan, ap, tried, restarts>>

\* The daemon is started again; the driver's statics live on.
Restart ==
    /\ pc = "exited" /\ restarts < MaxRestarts
    /\ restarts' = restarts + 1
    /\ pc' = "bind"
    /\ iFountChannel' = 0 /\ iChannel' = 1 /\ iLinkRoute' = 0 /\ iRecIpPort' = 0
    /\ link' = NoLink
    /\ UNCHANGED <<nread, mode, chan, ap, tried, dialled>>

DaemonStep == Bind \/ Top \/ Recv \/ Switch \/ Scan \/ CallBack

DaemonNext == DaemonStep \/ Restart
=============================================================================
