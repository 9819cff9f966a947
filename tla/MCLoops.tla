------------------------------- MODULE MCLoops -------------------------------
(* Small instances of three loops that do not interact: the reading loop of the
   serial link, the select loop of the sender and the event loop of libevent 0.1.
   A behaviour runs one of them, chosen at the start; the others stay in their
   initial states.  So the reachable states are those of the three one after the
   other, and a property of one loop means what it means there. *)
EXTENDS SerialLink, TcpServer, EventLoop

VARIABLE part

(* Messages with bytes that have to be escaped in type, length and data; the
   longer one comes to one character less than the reading index can count. *)
MCMessages == {[type |-> 73, data |-> <<252, 3>>], [type |-> 1, data |-> <<2, 17, 3>>]}

(* An event that reads, one that writes and one that does both. *)
CONSTANTS reader, writer, both
MCEvFd == (reader :> 1) @@ (both :> 2) @@ (writer :> 3)
MCEvEvents == (reader :> {"READ"}) @@ (both :> {"READ", "WRITE"}) @@ (writer :> {"WRITE"})

vars == <<serialVars, tcpVars, loopVars, part>>

MCInit == part \in {"serial", "tcp", "event"} /\ SerialInit /\ TcpInit /\ EventInit

Serial(A) == part = "serial" /\ A /\ UNCHANGED <<tcpVars, loopVars, part>>
Tcp(A) == part = "tcp" /\ A /\ UNCHANGED <<serialVars, loopVars, part>>
Event(A) == part = "event" /\ A /\ UNCHANGED <<serialVars, tcpVars, part>>
MCNext == Serial(SerialNext) \/ Tcp(TcpNext) \/ Event(EventNext)

(* The fairness of each module, for the part that runs. *)
MCFairness ==
    /\ WF_vars(Serial(eSL_ReadMessage) \/ Tcp(TcpServerThread) \/ Event(Runs))
    /\ WF_vars(Event(Tick)) /\ <>[][~Event(Interrupted)]_vars
MCSpec == MCInit /\ [][MCNext]_vars /\ MCFairness

=============================================================================
