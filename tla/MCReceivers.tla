---------------------------- MODULE MCReceivers ----------------------------
(***************************************************************************)
(* Two receivers that put messages together from parts: the socket server, *)
(* and the driver while the sender is started again with another password. *)
(* A behaviour exercises one of them; they share nothing.                  *)
(***************************************************************************)
EXTENDS SocketServer, EasyLinkRetyped

VARIABLE part

-----------------------------------------------------------------------------
(* The server.  "clients": two clients and two messages of each, in one piece.
   "stream": one client and all its messages, in pieces or not. *)

CONSTANTS a, b
TwoClients == {a, b}
AllFailures == {"init", "epoll_create", "epoll_ctl", "malloc"}
Symmetry == Permutations(TwoClients)

Bounds ==
    /\ part = "clients" =>
         \A c \in Clients : /\ Len(sent'[c]) <= 2
                            /\ \A i \in DOMAIN sent'[c] : sent'[c][i].come = "whole"
    /\ part = "stream" => Cardinality({c \in Clients : conn'[c] # "idle"}) <= 1

-----------------------------------------------------------------------------
(* The driver: two passwords of one length in buffers of Chunks = 3 pairs.
   SSDP (239.255.255.250) looks like an address frame with index 31. *)

MCChannels == {6}
MCReip == <<<<192, 168>>, <<1, 7>>, <<128, 0>>>>
MCSsid == <<104>>

Pwd1 == <<1, 2, 3, 4>>
Pwd2 == <<9, 2, 3, 5>>
MCPasswords == {Pwd1, Pwd2}
SSDP == [a3 |-> 127, a4 |-> 255, a5 |-> 250]

PwdFrames(p) == {CredFrame(TYPE_PSWD, p, i) : i \in 0 .. FrmCount(Len(p)) - 1}

RetypedNoise == {SSDP} \cup PwdFrames(Pwd2)

\* The instance is one the theorem speaks of.
ASSUME RetypedInstance == Fits /\ OnlyRetyped /\ Distinguishable

\* The steps of RxNext that matter here: the SSID and the channel are left
\* out to keep the state space small.
RetypedFrames ==
    {f \in SenderFrames \cup Noise : FrmType(f) \in {TYPE_PSWD, TYPE_REIP}}

RetypedNext == \E f \in RetypedFrames, radio \in Channels :
                   STA_MonPktSend(f, radio)

-----------------------------------------------------------------------------
MCInit == Init /\ RxInit /\ part \in {"clients", "stream", "driver"}

MCNext ==
    /\ \/ part # "driver" /\ Next /\ UNCHANGED rxVars
       \/ part = "driver" /\ RetypedNext /\ UNCHANGED vars
    /\ Bounds
    /\ UNCHANGED part

MCSpec == MCInit /\ [][MCNext]_<<vars, rxVars, part>>
=============================================================================
