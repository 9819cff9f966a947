---------------------------- MODULE SocketServer ----------------------------
(***************************************************************************)
(* The TCP server of src/simple_config/socket_comm_server: the main thread *)
(* of main.c starts it and stops it on SIGTERM, one server thread waits in *)
(* epoll_wait and serves every client.  The listening socket is level      *)
(* triggered, client sockets are edge triggered and read once per edge.    *)
(*                                                                         *)
(* The kernel's side (connections, epoll's ready list, signals) is modelled *)
(* from how the server uses it.  A message is one JSON object, which TCP   *)
(* may deliver in two parts; the first carries "status", the second        *)
(* "sequence" and "description".                                           *)
(***************************************************************************)
EXTENDS Integers, FiniteSets, SequencesExt, SeqFilter

CONSTANTS
    Clients,          \* each connects at most once
    Listen,           \* the listening socket
    MaxMsgs,          \* messages a client sends
    Resets,           \* may a client reset its connection?
    Whole,            \* does every message arrive in one piece?
    MaxFds,           \* client sockets the process can have open
    EPOLL_EVENT_NUM,  \* events fetched by one epoll_wait: 10 in the source
    Failures          \* calls that may fail

ASSUME ServerAssumption ==
    /\ Listen \notin Clients
    /\ MaxMsgs \in Nat /\ MaxFds \in Nat /\ EPOLL_EVENT_NUM \in Nat \ {0}
    /\ Whole \in BOOLEAN /\ Resets \in BOOLEAN
    /\ Failures \subseteq {"init", "epoll_create", "epoll_ctl", "malloc"}

E_THREAD_STOPPED == 0
E_THREAD_RUNNING == 1

VARIABLES
    mpc,              \* main thread
    spc,              \* server thread
    eState, handler,  \* handler: is THREAD_SIGNAL caught?
    batch,            \* EpollEventList[n ..]: events not looked at yet
    clients,          \* sSocketClient.list
    u8NumConnClient,
    csClientData,     \* receive buffer of each client
    replies           \* answers sent so far: to which message, with which sequence

VARIABLES
    conn,             \* "idle", "queued", "open", "closed"
    inbox, fin, rst,  \* unread data, end of stream, reset
    sent,             \* messages each client has sent, and how each of them came
    rdl,              \* epoll's ready list
    registered        \* client sockets added to epoll

mainVars == <<mpc, eState>>
threadVars == <<spc, handler, batch, clients, u8NumConnClient, csClientData, replies>>
netVars == <<conn, inbox, fin, rst, sent, rdl, registered>>
vars == <<mainVars, threadVars, netVars>>

Init ==
    /\ mpc = "start" /\ spc = "none"
    /\ eState = E_THREAD_STOPPED /\ handler = FALSE
    /\ batch = <<>> /\ clients = {} /\ u8NumConnClient = 0
    /\ csClientData = [c \in Clients |-> <<>>]
    /\ replies = [c \in Clients |-> <<>>]
    /\ conn = [c \in Clients |-> "idle"]
    /\ inbox = [c \in Clients |-> <<>>]
    /\ fin = [c \in Clients |-> FALSE] /\ rst = [c \in Clients |-> FALSE]
    /\ sent = [c \in Clients |-> <<>>]
    /\ rdl = <<>> /\ registered = {}

-----------------------------------------------------------------------------
(* The network *)

\* Put a socket on the ready list, where it is at most once.
Wake(x, list) == IF x \in ToSet(list) THEN list ELSE Append(list, x)

WakeIf(cond, x) == rdl' = IF cond THEN Wake(x, rdl) ELSE rdl

Listening == spc \notin {"none", "exited", "killed"}

Connect(c) ==
    /\ Listening /\ conn[c] = "idle"
    /\ conn' = [conn EXCEPT ![c] = "queued"]
    /\ WakeIf(TRUE, Listen)
    /\ UNCHANGED <<mainVars, threadVars, inbox, fin, rst, sent, registered>>

Part(n, kind, k) == [seq |-> n, kind |-> kind, part |-> k]

\* How a message may come besides whole.
Split == IF Whole THEN "whole" ELSE "begun"

Alive(c) == conn[c] \in {"queued", "open"} /\ ~fin[c] /\ ~rst[c]

\* A message, its first part or the rest of it arrives.
Send(c) ==
    /\ Listening /\ Alive(c)
    /\ \/ /\ Len(sent[c]) < MaxMsgs
          /\ ~ \E k \in DOMAIN sent[c] : sent[c][k].come = "begun"
          /\ \E kind \in {"request", "error"}, come \in {"whole", Split} :
               LET n == Len(sent[c]) + 1
                   head == <<Part(n, kind, 1)>>
               IN  /\ sent' = [sent EXCEPT ![c] = Append(@, [kind |-> kind, come |-> come])]
                   /\ inbox' = [inbox EXCEPT ![c] =
                                  @ \o IF come = "whole" THEN Append(head, Part(n, kind, 2))
                                       ELSE head]
       \/ \E n \in DOMAIN sent[c] :
            /\ sent[c][n].come = "begun"
            /\ sent' = [sent EXCEPT ![c][n].come = "ended"]
            /\ inbox' = [inbox EXCEPT ![c] = Append(@, Part(n, sent[c][n].kind, 2))]
    /\ WakeIf(c \in registered, c)
    /\ UNCHANGED <<mainVars, threadVars, conn, fin, rst, registered>>

Shutdown(c) ==
    /\ Listening /\ Alive(c)
    /\ fin' = [fin EXCEPT ![c] = TRUE]
    /\ WakeIf(c \in registered, c)
    /\ UNCHANGED <<mainVars, threadVars, conn, inbox, rst, sent, registered>>

\* epoll reports EPOLLERR and EPOLLHUP; data that came before can be read.
Reset(c) ==
    /\ Resets /\ Listening /\ conn[c] \in {"queued", "open"} /\ ~rst[c]
    /\ rst' = [rst EXCEPT ![c] = TRUE]
    /\ WakeIf(c \in registered, c)
    /\ UNCHANGED <<mainVars, threadVars, conn, inbox, fin, sent, registered>>

Network == \E c \in Clients : Connect(c) \/ Send(c) \/ Shutdown(c) \/ Reset(c)

-----------------------------------------------------------------------------
(* The main thread *)

SocketServerInit ==
    /\ mpc = "start"
    /\ \/ mpc' = "idle" /\ spc' = "start"
       \/ "init" \in Failures /\ mpc' = "failed" /\ UNCHANGED spc
    /\ UNCHANGED <<eState, handler, batch, clients, u8NumConnClient, csClientData,
                   replies, netVars>>

\* SIGTERM: SocketServerFinished sets the state, signals the thread, joins it.
\* A SIGTERM that comes before the thread exists is not modelled.
SetStopped ==
    /\ mpc = "idle"
    /\ mpc' = "kill" /\ eState' = E_THREAD_STOPPED
    /\ UNCHANGED <<threadVars, netVars>>

\* Uncaught, the signal ends the process; it interrupts epoll_wait only.
Kill ==
    /\ mpc = "kill"
    /\ mpc' = IF handler \/ spc = "exited" THEN "join" ELSE "killed"
    /\ spc' = IF mpc' = "killed" THEN "killed"
              ELSE IF spc = "wait" THEN "done" ELSE spc
    /\ UNCHANGED <<eState, handler, batch, clients, u8NumConnClient, csClientData,
                   replies, netVars>>

Join ==
    /\ mpc = "join" /\ spc = "exited"
    /\ mpc' = "finished"
    /\ UNCHANGED <<eState, threadVars, netVars>>

Finish == SetStopped \/ Kill \/ Join

-----------------------------------------------------------------------------
(* The server thread *)

SetRunning ==
    /\ spc = "start"
    /\ spc' = "arm" /\ eState' = E_THREAD_RUNNING
    /\ UNCHANGED <<mpc, handler, batch, clients, u8NumConnClient, csClientData,
                   replies, netVars>>

Arm ==
    /\ spc = "arm"
    /\ handler' = TRUE
    /\ \/ spc' = "check"
       \/ "epoll_create" \in Failures /\ spc' = "exited"
       \/ "epoll_ctl" \in Failures /\ spc' = "done"
    /\ UNCHANGED <<mainVars, batch, clients, u8NumConnClient, csClientData, replies,
                   netVars>>

\* Mutant: while(1).
GoesOn == TRUE

KeepsRunning == eState # E_THREAD_STOPPED

\* while(sSocketServer.eState)
Check ==
    /\ spc = "check"
    /\ spc' = IF KeepsRunning THEN "enter" ELSE "done"
    /\ UNCHANGED <<mainVars, handler, batch, clients, u8NumConnClient, csClientData,
                   replies, netVars>>

\* The thread enters epoll_wait.
Enter ==
    /\ spc = "enter"
    /\ spc' = "wait"
    /\ UNCHANGED <<mainVars, handler, batch, clients, u8NumConnClient, csClientData,
                   replies, netVars>>

Pollable(x) ==
    IF x = Listen THEN \E c \in Clients : conn[c] = "queued"
    ELSE inbox[x] # <<>> \/ fin[x] \/ rst[x]

\* Mutant: the listening socket is edge triggered too.
EdgeTriggered(taken) == <<>>

\* Level triggered: back on the list once it has been reported.
StillReady(taken) == Filter(taken, {Listen})

\* epoll_wait returns: the first sockets of the ready list that have events.
Wakeup ==
    LET ready == Filter(rdl, {x \in ToSet(rdl) : Pollable(x)})
        n == IF Len(ready) < EPOLL_EVENT_NUM THEN Len(ready) ELSE EPOLL_EVENT_NUM
        taken == SubSeq(ready, 1, n)
    IN  /\ spc = "wait" /\ n > 0
        /\ batch' = [i \in 1 .. n |->
                       [fd |-> taken[i], bad |-> taken[i] # Listen /\ rst[taken[i]]]]
        /\ rdl' = SubSeq(ready, n + 1, Len(ready)) \o StillReady(taken)
        /\ spc' = "events"
        /\ UNCHANGED <<mainVars, handler, clients, u8NumConnClient, csClientData,
                       replies, conn, inbox, fin, rst, sent, registered>>

Event == Head(batch)

\* Mutant: n <= iEpollResult.
NextEvent(es) == "events"

Rest(es) == IF es = <<>> THEN "check" ELSE "events"
Current == spc = "events" /\ batch # <<>>

\* EPOLLERR or EPOLLHUP: continue.
SkipError ==
    /\ Current /\ Event.bad
    /\ batch' = Tail(batch) /\ spc' = Rest(batch')
    /\ UNCHANGED <<mainVars, handler, clients, u8NumConnClient, csClientData, replies,
                   netVars>>

Opened == {c \in Clients : conn[c] = "open"}

\* break: the other events of the batch are dropped.
AfterAccept(es) == <<>>

\* Which of the queued clients comes first makes no difference here.
Accept(c) ==
    /\ Current /\ ~Event.bad /\ Event.fd = Listen
    /\ conn[c] = "queued" /\ Cardinality(Opened) < MaxFds
    /\ conn' = [conn EXCEPT ![c] = "open"]
    /\ clients' = clients \cup {c}
    /\ u8NumConnClient' = (u8NumConnClient + 1) % 256
    /\ \/ /\ registered' = registered \cup {c}
          /\ WakeIf(Pollable(c), c)
          /\ batch' = AfterAccept(batch)
          /\ spc' = Rest(batch')
       \/ /\ "epoll_ctl" \in Failures
          /\ batch' = <<>> /\ spc' = "done"
          /\ UNCHANGED <<registered, rdl>>
    /\ UNCHANGED <<mainVars, handler, csClientData, replies, inbox, fin, rst, sent>>

\* accept fails: the next event; malloc fails: the thread ends.
AcceptFails ==
    /\ Current /\ ~Event.bad /\ Event.fd = Listen
    /\ \/ /\ Cardinality(Opened) >= MaxFds
          /\ batch' = Tail(batch) /\ spc' = Rest(batch')
       \/ /\ "malloc" \in Failures
          /\ batch' = <<>> /\ spc' = "done"
    /\ UNCHANGED <<mainVars, handler, clients, u8NumConnClient, csClientData, replies,
                   netVars>>

\* recv copies over the start of what the buffer held before.
Overlay(new, old) == new \o SubSeq(old, Len(new) + 1, Len(old))

\* json_tokener_parse: the first object in the buffer.
Parses(data) == Len(data) >= 2 /\ data[1].part = 1 /\ data[2].part = 2

\* Mutant: the status of a message is not looked at.
AnyStatus(data) == Parses(data)

IsRequest(data) == Parses(data) /\ data[1].kind = "request"

\* SocketServerSendMessage; send fails on a connection that was reset.  The
\* message answered is the one at the start of the buffer, the sequence number
\* is the one the parser finds behind it.
SocketServerHandleRecvMessage(c, data) ==
    replies' = IF IsRequest(data) /\ ~rst[c]
               THEN [replies EXCEPT ![c] = Append(@, [to |-> data[1].seq, seq |-> data[2].seq])]
               ELSE replies

Served(c) == Current /\ ~Event.bad /\ Event.fd = c /\ c \in clients

Recv(c) ==
    /\ Served(c) /\ inbox[c] # <<>>
    /\ inbox' = [inbox EXCEPT ![c] = <<>>]
    /\ csClientData' = [csClientData EXCEPT ![c] = Overlay(inbox[c], @)]
    /\ SocketServerHandleRecvMessage(c, csClientData'[c])
    /\ batch' = Tail(batch) /\ spc' = Rest(batch')
    /\ UNCHANGED <<mainVars, handler, clients, u8NumConnClient, conn, fin, rst, sent,
                   rdl, registered>>

\* recv fails, because of a reset after epoll_wait had returned.
RecvFails(c) ==
    /\ Served(c) /\ inbox[c] = <<>> /\ rst[c]
    /\ batch' = Tail(batch) /\ spc' = Rest(batch')
    /\ UNCHANGED <<mainVars, handler, clients, u8NumConnClient, csClientData, replies,
                   netVars>>

\* Mutant: the node stays in the list.
StillListed(c) == clients

Unlisted(c) == clients \ {c}

\* recv returns 0: the client is removed.
Disconnect(c) ==
    /\ Served(c) /\ inbox[c] = <<>> /\ ~rst[c]
    /\ \/ /\ registered' = registered \ {c}
          /\ rdl' = Filter(rdl, ToSet(rdl) \ {c})
          /\ conn' = [conn EXCEPT ![c] = "closed"]
          /\ clients' = Unlisted(c)
          /\ u8NumConnClient' = (u8NumConnClient + 255) % 256
          /\ batch' = Tail(batch) /\ spc' = Rest(batch')
       \/ /\ "epoll_ctl" \in Failures
          /\ batch' = <<>> /\ spc' = "done"
          /\ UNCHANGED <<registered, rdl, conn, clients, u8NumConnClient>>
    /\ UNCHANGED <<mainVars, handler, csClientData, replies, inbox, fin, rst, sent>>

Done ==
    /\ spc = "done"
    /\ spc' = "exited"
    /\ clients' = {} /\ registered' = {} /\ rdl' = <<>>
    /\ UNCHANGED <<mainVars, handler, batch, u8NumConnClient, csClientData, replies,
                   conn, inbox, fin, rst, sent>>

HandleEvent ==
    \/ SkipError \/ AcceptFails
    \/ \E c \in Clients : Accept(c) \/ Recv(c) \/ RecvFails(c) \/ Disconnect(c)

SocketServerHandleThread ==
    SetRunning \/ Arm \/ Check \/ Enter \/ Wakeup \/ HandleEvent \/ Done

Next == SocketServerInit \/ Finish \/ SocketServerHandleThread \/ Network

Spec == Init /\ [][Next]_vars

\* The threads run; nobody has to connect, to send or to stop the server.
FairSpec == /\ Spec
            /\ WF_vars(SocketServerHandleThread)
            /\ WF_vars(SocketServerInit) /\ WF_vars(Kill) /\ WF_vars(Join)

-----------------------------------------------------------------------------
(* Properties *)

Serving == {"check", "enter", "wait", "events"}

(***************************************************************************)
(* The types of the state of both threads and of the kernel.  The for loop *)
(* never looks behind the last event, and no fetch exceeds the array.      *)
(***************************************************************************)
ServerTypeOK ==
    /\ mpc \in {"start", "failed", "idle", "kill", "join", "killed", "finished"}
    /\ spc \in Serving \cup {"none", "start", "arm", "done", "exited", "killed"}
    /\ eState \in {E_THREAD_STOPPED, E_THREAD_RUNNING} /\ handler \in BOOLEAN
    /\ spc = "events" <=> batch # <<>>
    /\ Len(batch) <= EPOLL_EVENT_NUM
    /\ \A i \in DOMAIN batch : /\ batch[i].fd \in Clients \cup {Listen}
                               /\ batch[i].bad \in BOOLEAN
    /\ clients \subseteq Clients /\ registered \subseteq Clients
    /\ u8NumConnClient \in 0 .. 255
    /\ conn \in [Clients -> {"idle", "queued", "open", "closed"}]
    /\ fin \in [Clients -> BOOLEAN] /\ rst \in [Clients -> BOOLEAN]
    /\ ToSet(rdl) \subseteq Clients \cup {Listen}
    /\ \A c \in Clients : replies[c] \in Seq([to : 1 .. MaxMsgs, seq : 1 .. MaxMsgs])

(***************************************************************************)
(* No connection is forgotten: between any two steps of the thread a       *)
(* client in the listening queue has left the listening socket on epoll's  *)
(* ready list, although accept takes one client per event, fails when the  *)
(* descriptors are used up, and drops the rest of the batch.               *)
(***************************************************************************)
QueueIsSignalled ==
    spc \in Serving /\ (\E c \in Clients : conn[c] = "queued") => Listen \in ToSet(rdl)

(***************************************************************************)
(* While the thread serves, its list, its counter, epoll's interest set    *)
(* and the open sockets agree, and every event that is still to be handled *)
(* is for a socket that exists: a disconnect in the middle of a batch does *)
(* not leave an event for a client that is gone, and a batch that is       *)
(* dropped does not leave a client in the listening queue unannounced.     *)
(***************************************************************************)
Bookkeeping ==
    spc \in Serving =>
        /\ clients = Opened /\ registered = clients
        /\ u8NumConnClient = Cardinality(clients) % 256
        /\ \A i, j \in DOMAIN batch :
             /\ batch[i].fd = Listen \/ batch[i].fd \in clients
             /\ batch[i].fd = batch[j].fd => i = j
        /\ QueueIsSignalled

(***************************************************************************)
(* "Recv Successfully" is sent at most once per message, in the order of   *)
(* the messages, and never for one that reports an error, however TCP cuts *)
(* the messages and whatever recv left in the buffer.  Requests read by    *)
(* one recv share one answer.  The sequence number in an answer is that of *)
(* a message that has arrived in full, and such numbers never go back; it  *)
(* is an earlier message's only where the answered one came in parts, so   *)
(* that the old end of the buffer was parsed with it.                      *)
(***************************************************************************)
RepliesInOrder ==
    \A c \in Clients : \A i \in DOMAIN replies[c] :
        LET r == replies[c][i]
        IN  /\ sent[c][r.to].kind = "request"
            /\ r.seq <= r.to /\ sent[c][r.seq].come # "begun"
            /\ r.seq # r.to => sent[c][r.to].come # "whole"
            /\ \A j \in 1 .. i - 1 : replies[c][j].to < r.to /\ replies[c][j].seq <= r.seq

(***************************************************************************)
(* Events of the listening socket are never lost, whatever is dropped from *)
(* a batch: a client that connects is accepted while the thread serves.    *)
(***************************************************************************)
QueuedIsAccepted ==
    \A c \in Clients : conn[c] = "queued" ~> conn[c] = "open" \/ spc \notin Serving

(***************************************************************************)
(* SocketServerFinished ends a thread that sleeps in epoll_wait, handles   *)
(* events or is about to test the state it has set.                        *)
(***************************************************************************)
StopsThread ==
    /\ mpc = "kill" /\ eState = E_THREAD_STOPPED
    /\ spc \in {"wait", "events", "check"}
    ~> spc = "exited"

(***************************************************************************)
(* The handler's message says what the signal is for: "Used To Interrupt   *)
(* System Call".  SocketServerFinished ends once it has sent it.           *)
(***************************************************************************)
FinishedReturns == mpc = "join" ~> mpc = "finished"

(***************************************************************************)
(* "The Client is disconnect, Closet It": a client that has closed its     *)
(* side is removed from the list and its socket closed.                    *)
(***************************************************************************)
DisconnectIsNoticed ==
    \A c \in Clients : conn[c] = "open" /\ fin[c] ~> conn[c] = "closed" \/ spc \notin Serving
=============================================================================
