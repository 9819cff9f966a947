------------------------ MODULE SocketServer_proofs -------------------------
(***************************************************************************)
(* Proofs about the epoll server, for every set of clients, every size of  *)
(* the event array, every limit of descriptors and every set of calls that *)
(* may fail.                                                               *)
(***************************************************************************)
EXTENDS SocketServer, SeqFilter_proofs, FiniteSetTheorems

Fds == Clients \cup {Listen}
PartType == [seq : 1 .. MaxMsgs, kind : {"request", "error"}, part : {1, 2}]
SentType == [kind : {"request", "error"}, come : {"whole", "begun", "ended"}]
ReplyType == [to : 1 .. MaxMsgs, seq : 1 .. MaxMsgs]
EventType == [fd : Fds, bad : BOOLEAN]

\* Where the threads are: a signal is sent only to a thread that was started,
\* and one that has events to handle has its handler installed.
ThreadTypes ==
    /\ mpc \in {"start", "failed", "idle", "kill", "join", "killed", "finished"}
    /\ spc \in Serving \cup {"none", "start", "arm", "done", "exited", "killed"}
    /\ eState \in {E_THREAD_STOPPED, E_THREAD_RUNNING} /\ handler \in BOOLEAN
    /\ batch \in Seq(EventType) /\ Len(batch) <= EPOLL_EVENT_NUM
    /\ spc = "events" <=> batch # <<>>
    /\ mpc \in {"start", "failed"} => spc = "none"
    /\ spc \in Serving \cup {"done"} => handler

ListTypes ==
    /\ clients \subseteq Clients /\ registered \subseteq Clients
    /\ u8NumConnClient \in 0 .. 255
    /\ rdl \in Seq(Fds)

NetTypes ==
    /\ conn \in [Clients -> {"idle", "queued", "open", "closed"}]
    /\ fin \in [Clients -> BOOLEAN] /\ rst \in [Clients -> BOOLEAN]
    /\ inbox \in [Clients -> Seq(PartType)]
    /\ sent \in [Clients -> Seq(SentType)]
    /\ \A c \in Clients : Len(sent[c]) <= MaxMsgs
    /\ csClientData \in [Clients -> Seq(PartType)]
    /\ replies \in [Clients -> Seq(ReplyType)]

TypeInv == ThreadTypes /\ ListTypes /\ NetTypes

LEMMA TypeInit == Init => TypeInv
  <1> SUFFICES ASSUME Init PROVE TypeInv
    OBVIOUS
  <1>1. ThreadTypes
    <2>1. batch \in Seq(EventType) /\ Len(batch) <= EPOLL_EVENT_NUM /\ batch = <<>>
      BY ServerAssumption DEF Init
    <2>2. spc = "none" /\ mpc = "start" /\ eState = E_THREAD_STOPPED /\ handler = FALSE
      BY DEF Init
    <2> QED
      BY <2>1, <2>2 DEF ThreadTypes, Serving
  <1>2. ListTypes
    BY DEF Init, ListTypes
  <1>3. NetTypes
    BY ServerAssumption DEF Init, NetTypes
  <1> QED
    BY <1>1, <1>2, <1>3 DEF TypeInv

-----------------------------------------------------------------------------
(* Types: the network *)

LEMMA WakeTypes ==
    ASSUME NEW x \in Fds, NEW s \in Seq(Fds)
    PROVE  /\ Wake(x, s) \in Seq(Fds)
           /\ Elems(Wake(x, s)) = Elems(s) \cup {x}
           /\ Distinct(s) => Distinct(Wake(x, s))
  <1>1. ToSet(s) = Elems(s)
    BY DEF ToSet, Elems
  <1> QED
    BY <1>1, AppendQueue DEF Wake

LEMMA WakeIfTypes ==
    ASSUME NEW x \in Fds, NEW b, rdl \in Seq(Fds), WakeIf(b, x)
    PROVE  /\ rdl' \in Seq(Fds)
           /\ Elems(rdl') \subseteq Elems(rdl) \cup (IF b THEN {x} ELSE {})
           /\ Distinct(rdl) => Distinct(rdl')
  BY WakeTypes DEF WakeIf

\* A message of a client, as it arrives.
LEMMA SendTypes ==
    ASSUME NetTypes, NEW c \in Clients, Send(c)
    PROVE  /\ sent' \in [Clients -> Seq(SentType)]
           /\ \A d \in Clients : Len(sent'[d]) <= MaxMsgs
           /\ inbox' \in [Clients -> Seq(PartType)]
  <1>0. /\ sent[c] \in Seq(SentType) /\ inbox[c] \in Seq(PartType)
        /\ Len(sent[c]) \in Nat /\ Len(sent[c]) <= MaxMsgs /\ MaxMsgs \in Nat
    BY ServerAssumption DEF NetTypes
  <1>1. ASSUME Len(sent[c]) < MaxMsgs, NEW kind \in {"request", "error"},
               NEW come \in {"whole", Split},
               sent' = [sent EXCEPT ![c] = Append(@, [kind |-> kind, come |-> come])],
               inbox' = [inbox EXCEPT ![c] =
                           @ \o IF come = "whole"
                                THEN Append(<<Part(Len(sent[c]) + 1, kind, 1)>>,
                                            Part(Len(sent[c]) + 1, kind, 2))
                                ELSE <<Part(Len(sent[c]) + 1, kind, 1)>>]
        PROVE  /\ sent' \in [Clients -> Seq(SentType)]
               /\ \A d \in Clients : Len(sent'[d]) <= MaxMsgs
               /\ inbox' \in [Clients -> Seq(PartType)]
    <2> DEFINE n == Len(sent[c]) + 1
               m == [kind |-> kind, come |-> come]
               head == <<Part(n, kind, 1)>>
               new == IF come = "whole" THEN Append(head, Part(n, kind, 2)) ELSE head
    <2>1. m \in SentType /\ n \in 1 .. MaxMsgs
      <3>1. come \in {"whole", "begun", "ended"}
        BY DEF Split
      <3> QED
        BY <1>0, <1>1, <3>1 DEF SentType
    <2>2. Part(n, kind, 1) \in PartType /\ Part(n, kind, 2) \in PartType
      BY <2>1 DEF Part, PartType
    <2>3. new \in Seq(PartType)
      BY <2>2
    <2> HIDE DEF m, new
    <2>4. Append(sent[c], m) \in Seq(SentType) /\ Len(Append(sent[c], m)) = Len(sent[c]) + 1
      BY <1>0, <2>1
    <2>5. inbox[c] \o new \in Seq(PartType)
      BY <1>0, <2>3
    <2>6. sent' = [sent EXCEPT ![c] = Append(sent[c], m)]
      BY <1>1 DEF m
    <2>7. inbox' = [inbox EXCEPT ![c] = inbox[c] \o new]
      BY <1>1 DEF new
    <2>8. \A d \in Clients : Len(sent'[d]) <= MaxMsgs
      BY <1>0, <2>1, <2>4, <2>6 DEF NetTypes
    <2> QED
      BY <2>4, <2>5, <2>6, <2>7, <2>8 DEF NetTypes
  <1>2. ASSUME NEW n \in DOMAIN sent[c],
               sent' = [sent EXCEPT ![c][n].come = "ended"],
               inbox' = [inbox EXCEPT ![c] = Append(@, Part(n, sent[c][n].kind, 2))]
        PROVE  /\ sent' \in [Clients -> Seq(SentType)]
               /\ \A d \in Clients : Len(sent'[d]) <= MaxMsgs
               /\ inbox' \in [Clients -> Seq(PartType)]
    <2> DEFINE m == [sent[c][n] EXCEPT !.come = "ended"]
               p == Part(n, sent[c][n].kind, 2)
               s == [sent[c] EXCEPT ![n] = m]
    <2>1. n \in 1 .. Len(sent[c]) /\ n \in 1 .. MaxMsgs /\ sent[c][n] \in SentType
      BY <1>0
    <2>2. m \in SentType /\ p \in PartType
      BY <2>1 DEF SentType, Part, PartType
    <2>3. sent' = [sent EXCEPT ![c] = s] /\ inbox' = [inbox EXCEPT ![c] = Append(inbox[c], p)]
      BY <1>2
    <2> HIDE DEF m, p
    <2>4. s \in Seq(SentType) /\ Len(s) = Len(sent[c])
      BY <1>0, <2>1, <2>2
    <2> HIDE DEF s
    <2>5. Append(inbox[c], p) \in Seq(PartType)
      BY <1>0, <2>2
    <2>6. \A d \in Clients : Len(sent'[d]) <= MaxMsgs
      BY <1>0, <2>3, <2>4 DEF NetTypes
    <2> QED
      BY <2>3, <2>4, <2>5, <2>6 DEF NetTypes
  <1> QED
    BY <1>1, <1>2 DEF Send

LEMMA NetworkTypes ==
    ASSUME TypeInv, Network
    PROVE  TypeInv'
  <1> USE DEF TypeInv
  <1>1. PICK c \in Clients : Connect(c) \/ Send(c) \/ Shutdown(c) \/ Reset(c)
    BY DEF Network
  <1>2. ThreadTypes'
    BY <1>1 DEF Connect, Send, Shutdown, Reset, ThreadTypes, mainVars, threadVars
  <1>3. c \in Fds /\ Listen \in Fds
    BY DEF Fds
  <1>4. ListTypes'
    <2>1. rdl' \in Seq(Fds)
      BY <1>1, <1>3, WakeIfTypes DEF Connect, Send, Shutdown, Reset, ListTypes
    <2>2. UNCHANGED <<clients, registered, u8NumConnClient>>
      BY <1>1 DEF Connect, Send, Shutdown, Reset, threadVars
    <2> QED
      BY <2>1, <2>2 DEF ListTypes
  <1>5. UNCHANGED <<csClientData, replies>>
    BY <1>1 DEF Connect, Send, Shutdown, Reset, threadVars
  <1>6. CASE Send(c)
    BY <1>2, <1>4, <1>5, <1>6, SendTypes DEF NetTypes, Send
  <1>7. CASE Connect(c) \/ Shutdown(c) \/ Reset(c)
    BY <1>2, <1>4, <1>5, <1>7 DEF NetTypes, Connect, Shutdown, Reset
  <1> QED
    BY <1>1, <1>6, <1>7
-----------------------------------------------------------------------------
(* Types: the two threads *)

\* Steps of the threads that leave the lists and the network alone.
LEMMA ControlTypes ==
    ASSUME TypeInv, \/ SocketServerInit \/ Finish \/ SetRunning \/ Arm \/ Check \/ Enter
                    \/ UNCHANGED vars
    PROVE  TypeInv'
  <1> USE DEF TypeInv
  <1>1. UNCHANGED <<clients, u8NumConnClient, csClientData, replies, netVars, batch>>
    BY DEF SocketServerInit, Finish, SetStopped, Kill, Join, SetRunning, Arm, Check, Enter,
           vars, threadVars
  <1>2. ListTypes' /\ NetTypes'
    BY <1>1 DEF ListTypes, NetTypes, netVars
  <1>3. batch' \in Seq(EventType) /\ Len(batch') <= EPOLL_EVENT_NUM /\ batch' = batch
    BY <1>1 DEF ThreadTypes
  <1> USE DEF ThreadTypes, Serving
  <1>4. CASE SocketServerInit
    BY <1>2, <1>3, <1>4 DEF SocketServerInit
  <1>5. CASE SetStopped
    BY <1>2, <1>3, <1>5 DEF SetStopped, threadVars
  <1>6. CASE Kill
    BY <1>2, <1>3, <1>6 DEF Kill
  <1>7. CASE Join
    BY <1>2, <1>3, <1>7 DEF Join, threadVars
  <1>8. CASE SetRunning
    BY <1>2, <1>3, <1>8 DEF SetRunning
  <1>9. CASE Arm
    BY <1>2, <1>3, <1>9 DEF Arm, mainVars
  <1>10. CASE Check
    BY <1>2, <1>3, <1>10 DEF Check, mainVars
  <1>11. CASE Enter
    BY <1>2, <1>3, <1>11 DEF Enter, mainVars
  <1>12. CASE UNCHANGED vars
    BY <1>2, <1>3, <1>12 DEF vars, mainVars, threadVars
  <1> QED
    BY <1>4, <1>5, <1>6, <1>7, <1>8, <1>9, <1>10, <1>11, <1>12 DEF Finish

\* What epoll_wait takes from the ready list and what it leaves there.
Taken(ready, n) ==
    [i \in 1 .. n |-> [fd |-> ready[i], bad |-> ready[i] # Listen /\ rst[ready[i]]]]

LEMMA WakeupFacts ==
    ASSUME TypeInv, Wakeup
    PROVE  \E ready \in Seq(Fds), n \in Nat :
             /\ n > 0 /\ n <= Len(ready) /\ n <= EPOLL_EVENT_NUM
             /\ Elems(ready) \subseteq Elems(rdl)
             /\ Distinct(rdl) => Distinct(ready)
             /\ batch' = Taken(ready, n)
             /\ rdl' \in Seq(Fds) /\ Elems(rdl') \subseteq Elems(rdl)
             /\ Distinct(rdl) => Distinct(rdl')
             /\ Listen \in Elems(rdl) /\ Pollable(Listen) => Listen \in Elems(rdl')
  <1> DEFINE on == {x \in ToSet(rdl) : Pollable(x)}
             ready == Filter(rdl, on)
             n == IF Len(ready) < EPOLL_EVENT_NUM THEN Len(ready) ELSE EPOLL_EVENT_NUM
             taken == SubSeq(ready, 1, n)
             rest == SubSeq(ready, n + 1, Len(ready))
  <1>0. rdl \in Seq(Fds)
    BY DEF TypeInv, ListTypes
  <1>1. /\ n > 0
        /\ batch' = [i \in 1 .. n |->
                       [fd |-> taken[i], bad |-> taken[i] # Listen /\ rst[taken[i]]]]
        /\ rdl' = rest \o Filter(taken, {Listen})
    BY DEF Wakeup, StillReady
  <1>11. Listen \in Elems(rdl) /\ Pollable(Listen) => Listen \in on
    BY <1>0 DEF ToSet, Elems
  <1> HIDE DEF on
  <1>2. /\ ready \in Seq(Fds) /\ Elems(ready) = Elems(rdl) \cap on
        /\ Distinct(rdl) => Distinct(ready)
    BY <1>0, FilterFacts
  <1> HIDE DEF ready
  <1>3. /\ Len(ready) \in Nat /\ n \in Nat /\ n <= Len(ready) /\ n <= EPOLL_EVENT_NUM
        /\ n \in 0 .. Len(ready)
    BY <1>2, ServerAssumption
  <1> HIDE DEF n
  <1>4. /\ taken \in Seq(Fds) /\ rest \in Seq(Fds) /\ Len(taken) = n
        /\ \A i \in 1 .. n : taken[i] = ready[i]
        /\ Elems(ready) = Elems(taken) \cup Elems(rest)
        /\ Distinct(ready) => /\ Distinct(taken) /\ Distinct(rest)
                              /\ Elems(taken) \cap Elems(rest) = {}
    BY <1>2, <1>3, SplitQueue
  <1>5. batch' = Taken(ready, n)
    BY <1>1, <1>4 DEF Taken
  <1> HIDE DEF taken, rest
  <1> DEFINE again == Filter(taken, {Listen})
  <1>6. /\ again \in Seq(Fds) /\ Elems(again) = Elems(taken) \cap {Listen}
        /\ Distinct(taken) => Distinct(again)
    BY <1>4, FilterFacts
  <1>7. rdl' = rest \o again
    BY <1>1
  <1> HIDE DEF again
  <1>8. /\ rdl' \in Seq(Fds) /\ Elems(rdl') = Elems(rest) \cup Elems(again)
        /\ Distinct(rest) /\ Distinct(again) /\ Elems(rest) \cap Elems(again) = {}
             => Distinct(rdl')
    BY <1>4, <1>6, <1>7, ConcatQueue
  <1>9. Elems(rdl') \subseteq Elems(rdl)
    BY <1>2, <1>4, <1>6, <1>8
  <1>10. Distinct(rdl) => Distinct(rdl')
    <2> SUFFICES ASSUME Distinct(rdl) PROVE Distinct(rdl')
      OBVIOUS
    <2>1. Distinct(taken) /\ Distinct(rest) /\ Elems(taken) \cap Elems(rest) = {}
      BY <1>2, <1>4
    <2>2. Elems(rest) \cap Elems(again) = {}
      BY <2>1, <1>6
    <2> QED
      BY <1>6, <1>8, <2>1, <2>2
  <1>12. Listen \in Elems(rdl) /\ Pollable(Listen) => Listen \in Elems(rdl')
    BY <1>2, <1>4, <1>6, <1>8, <1>11
  <1> QED
    BY <1>1, <1>2, <1>3, <1>5, <1>8, <1>9, <1>10, <1>12

LEMMA TakenTypes ==
    ASSUME TypeInv, NEW ready \in Seq(Fds), NEW n \in Nat, n > 0, n <= Len(ready)
    PROVE  /\ Taken(ready, n) \in Seq(EventType) /\ Len(Taken(ready, n)) = n
           /\ Taken(ready, n) # <<>>
           /\ \A i \in 1 .. n : Taken(ready, n)[i].fd = ready[i]
  <1> DEFINE item(i) == [fd |-> ready[i], bad |-> ready[i] # Listen /\ rst[ready[i]]]
  <1>1. ASSUME NEW i \in 1 .. n PROVE item(i) \in EventType /\ item(i).fd = ready[i]
    <2>1. i \in 1 .. Len(ready)
      OBVIOUS
    <2>2. ready[i] \in Fds
      BY <2>1
    <2>3. (ready[i] # Listen /\ rst[ready[i]]) \in BOOLEAN
      OBVIOUS
    <2> QED
      BY <2>2, <2>3 DEF EventType
  <1>2. Taken(ready, n) = [i \in 1 .. n |-> item(i)]
    BY DEF Taken
  <1> HIDE DEF item
  <1>3. /\ [i \in 1 .. n |-> item(i)] \in Seq(EventType)
        /\ Len([i \in 1 .. n |-> item(i)]) = n
    BY <1>1
  <1>4. [i \in 1 .. n |-> item(i)] # <<>>
    BY <1>3, EmptySeq
  <1> QED
    BY <1>1, <1>2, <1>3, <1>4

LEMMA WakeupTypes ==
    ASSUME TypeInv, Wakeup
    PROVE  TypeInv'
  <1> USE DEF TypeInv
  <1>1. PICK ready \in Seq(Fds), n \in Nat :
             /\ n > 0 /\ n <= Len(ready) /\ n <= EPOLL_EVENT_NUM
             /\ batch' = Taken(ready, n)
             /\ rdl' \in Seq(Fds)
    BY WakeupFacts
  <1>2. batch' \in Seq(EventType) /\ Len(batch') = n /\ batch' # <<>>
    BY <1>1, TakenTypes
  <1>3. /\ spc = "wait" /\ spc' = "events"
        /\ UNCHANGED <<mainVars, handler, clients, u8NumConnClient, csClientData,
                       replies, conn, inbox, fin, rst, sent, registered>>
    BY DEF Wakeup
  <1>4. ThreadTypes'
    BY <1>1, <1>2, <1>3 DEF ThreadTypes, Serving, mainVars
  <1>5. ListTypes' /\ NetTypes'
    BY <1>1, <1>3 DEF ListTypes, NetTypes
  <1> QED
    BY <1>4, <1>5

\* The rest of the batch, and where the thread is then.
LEMMA RestTypes ==
    ASSUME TypeInv, Current, handler' = handler, mpc' = mpc, eState' = eState,
           \/ batch' = Tail(batch) /\ spc' = Rest(batch')
           \/ batch' = <<>> /\ spc' = Rest(batch')
           \/ batch' = <<>> /\ spc' = "done"
    PROVE  ThreadTypes'
  <1>1. /\ batch \in Seq(EventType) /\ batch # <<>> /\ spc = "events"
        /\ Len(batch) <= EPOLL_EVENT_NUM /\ EPOLL_EVENT_NUM \in Nat
    BY ServerAssumption DEF TypeInv, ThreadTypes, Current
  <1>2. Tail(batch) \in Seq(EventType) /\ Len(Tail(batch)) = Len(batch) - 1 /\ Len(batch) \in Nat
    BY <1>1, TailQueue
  <1>3. batch' \in Seq(EventType) /\ Len(batch') <= EPOLL_EVENT_NUM
    <2>1. CASE batch' = Tail(batch)
      BY <1>1, <1>2, <2>1
    <2>2. CASE batch' = <<>>
      BY <1>1, <2>2
    <2> QED
      BY <2>1, <2>2
  <1>4. (spc' = "done" /\ batch' = <<>>) \/ spc' = IF batch' = <<>> THEN "check" ELSE "events"
    BY DEF Rest
  <1>5. handler' /\ mpc' \notin {"start", "failed"}
    BY <1>1 DEF TypeInv, ThreadTypes, Serving
  <1> QED
    BY <1>3, <1>4, <1>5 DEF TypeInv, ThreadTypes, Serving

\* The receive buffer after recv, and the answer.
LEMMA RecvTypes ==
    ASSUME TypeInv, NEW c \in Clients, Recv(c)
    PROVE  /\ csClientData' \in [Clients -> Seq(PartType)]
           /\ replies' \in [Clients -> Seq(ReplyType)]
           /\ inbox' \in [Clients -> Seq(PartType)]
           /\ Len(inbox[c]) <= Len(csClientData'[c])
           /\ \A i \in 1 .. Len(inbox[c]) : csClientData'[c][i] = inbox[c][i]
           /\ \A i \in Len(inbox[c]) + 1 .. Len(csClientData'[c]) :
                i \in 1 .. Len(csClientData[c]) /\ csClientData'[c][i] = csClientData[c][i]
  <1> DEFINE new == inbox[c]
             before == csClientData[c]
             rest == SubSeq(before, Len(new) + 1, Len(before))
             data == new \o rest
  <1>1. new \in Seq(PartType) /\ before \in Seq(PartType) /\ replies[c] \in Seq(ReplyType)
    BY DEF TypeInv, NetTypes
  <1>2. /\ rest \in Seq(PartType)
        /\ \A k \in 1 .. Len(rest) : /\ Len(new) + k \in 1 .. Len(before)
                                     /\ rest[k] = before[Len(new) + k]
    <2>1. \A i \in Len(new) + 1 .. Len(before) : i \in 1 .. Len(before)
      BY <1>1
    <2>2. \A i \in Len(new) + 1 .. Len(before) : before[i] \in PartType
      BY <1>1, <2>1
    <2>3. Len(new) + 1 \in Int /\ Len(before) \in Int /\ Len(new) \in Nat
      BY <1>1
    <2>4. /\ rest \in Seq(PartType)
          /\ Len(rest) = IF Len(new) + 1 <= Len(before) THEN Len(before) - (Len(new) + 1) + 1 ELSE 0
          /\ \A k \in 1 .. Len(before) - (Len(new) + 1) + 1 : rest[k] = before[(Len(new) + 1) + k - 1]
      <3> DEFINE m == Len(new) + 1
                 n == Len(before)
      <3>1. m \in Int /\ n \in Int /\ \A i \in m .. n : before[i] \in PartType
        BY <2>2, <2>3
      <3> HIDE DEF m, n, before
      <3>2. /\ SubSeq(before, m, n) \in Seq(PartType)
            /\ Len(SubSeq(before, m, n)) = IF m <= n THEN n - m + 1 ELSE 0
            /\ \A i \in 1 .. n - m + 1 : SubSeq(before, m, n)[i] = before[m + i - 1]
        BY <3>1, SubSeqProperties
      <3> QED
        BY <3>2 DEF m, n
    <2> DEFINE a == Len(new)
               b == Len(before)
    <2> HIDE DEF rest, a, b
    <2>5. ASSUME NEW k \in 1 .. Len(rest)
          PROVE  k \in 1 .. b - (a + 1) + 1 /\ a + k \in 1 .. b /\ (a + 1) + k - 1 = a + k
      BY <2>3, <2>4 DEF a, b
    <2> QED
      BY <2>4, <2>5 DEF a, b
  <1>3. csClientData' = [csClientData EXCEPT ![c] = data]
    BY DEF Recv, Overlay
  <1>4. inbox' = [inbox EXCEPT ![c] = <<>>]
    BY DEF Recv
  <1> HIDE DEF rest
  <1>5. data \in Seq(PartType) /\ \A i \in 1 .. Len(new) : data[i] = new[i]
    BY <1>1, <1>2
  <1>a. Len(data) = Len(new) + Len(rest) /\ Len(new) \in Nat /\ Len(rest) \in Nat
    BY <1>1, <1>2
  <1>b. ASSUME NEW i \in Len(new) + 1 .. Len(data)
        PROVE  i \in 1 .. Len(before) /\ data[i] = before[i]
    <2> DEFINE k == i - Len(new)
    <2>1. k \in 1 .. Len(rest) /\ Len(new) + k = i
      BY <1>a
    <2>2. data[i] = rest[k]
      BY <1>1, <1>2, <1>a
    <2> QED
      BY <1>2, <2>1, <2>2
  <1>6. csClientData'[c] = data
    BY <1>3 DEF TypeInv, NetTypes
  <1> DEFINE got == csClientData'[c]
  <1>7. replies' = IF IsRequest(got) /\ ~rst[c]
                   THEN [replies EXCEPT ![c] = Append(@, [to |-> got[1].seq, seq |-> got[2].seq])]
                   ELSE replies
    BY DEF Recv, SocketServerHandleRecvMessage
  <1> HIDE DEF data, new, before
  <1>c. got = data
    BY <1>6
  <1>d. csClientData' \in [Clients -> Seq(PartType)] /\ inbox' \in [Clients -> Seq(PartType)]
    BY <1>3, <1>4, <1>5 DEF TypeInv, NetTypes
  <1>e. /\ Len(inbox[c]) <= Len(csClientData'[c])
        /\ \A i \in 1 .. Len(inbox[c]) : csClientData'[c][i] = inbox[c][i]
        /\ \A i \in Len(inbox[c]) + 1 .. Len(csClientData'[c]) :
             i \in 1 .. Len(csClientData[c]) /\ csClientData'[c][i] = csClientData[c][i]
    <2>1. Len(new) <= Len(data)
      BY <1>a
    <2> QED
      BY <1>5, <1>6, <1>b, <2>1 DEF new, before
  <1> HIDE DEF got
  <1>8. CASE IsRequest(data) /\ ~rst[c]
    <2>1. Len(data) >= 2 /\ Len(data) \in Nat
      BY <1>5, <1>8 DEF IsRequest, Parses
    <2>2. data[1] \in PartType /\ data[2] \in PartType
      BY <1>5, <2>1
    <2> DEFINE r == [to |-> data[1].seq, seq |-> data[2].seq]
    <2>3. r \in ReplyType
      BY <2>2 DEF PartType, ReplyType
    <2>5. replies' = [replies EXCEPT ![c] = Append(replies[c], r)]
      BY <1>c, <1>7, <1>8
    <2> HIDE DEF r
    <2>4. Append(replies[c], r) \in Seq(ReplyType)
      BY <1>1, <2>3
    <2>8. replies' \in [Clients -> Seq(ReplyType)]
      BY <2>4, <2>5 DEF TypeInv, NetTypes
    <2> QED
      BY <1>d, <1>e, <2>8
  <1>9. CASE ~(IsRequest(data) /\ ~rst[c])
    <2>1. replies' = replies
      BY <1>c, <1>7, <1>9
    <2> QED
      BY <1>d, <1>e, <2>1 DEF TypeInv, NetTypes
  <1> QED
    BY <1>8, <1>9

LEMMA EventTypes ==
    ASSUME TypeInv, HandleEvent
    PROVE  TypeInv'
  <1> USE DEF TypeInv
  <1>0. rdl \in Seq(Fds) /\ Clients \subseteq Fds
    BY DEF ListTypes, Fds
  <1>1. CASE SkipError \/ AcceptFails
    <2>1. ThreadTypes'
      BY <1>1, RestTypes DEF SkipError, AcceptFails, mainVars
    <2>2. UNCHANGED <<clients, u8NumConnClient, csClientData, replies, netVars>>
      BY <1>1 DEF SkipError, AcceptFails
    <2> QED
      BY <2>1, <2>2 DEF ListTypes, NetTypes, netVars
  <1>2. ASSUME NEW c \in Clients, Accept(c) PROVE TypeInv'
    <2>1. ThreadTypes'
      BY <1>2, RestTypes DEF Accept, AfterAccept, mainVars
    <2>2. rdl' \in Seq(Fds)
      BY <1>0, <1>2, WakeIfTypes DEF Accept
    <2>3. ListTypes'
      BY <1>2, <2>2 DEF Accept, ListTypes
    <2>4. NetTypes'
      BY <1>2 DEF Accept, NetTypes
    <2> QED
      BY <2>1, <2>3, <2>4
  <1>3. ASSUME NEW c \in Clients, Recv(c) PROVE TypeInv'
    <2>1. ThreadTypes'
      BY <1>3, RestTypes DEF Recv, Served, mainVars
    <2>2. ListTypes'
      BY <1>3 DEF Recv, ListTypes
    <2>3. NetTypes'
      BY <1>3, RecvTypes DEF Recv, NetTypes
    <2> QED
      BY <2>1, <2>2, <2>3
  <1>4. ASSUME NEW c \in Clients, RecvFails(c) PROVE TypeInv'
    <2>1. ThreadTypes'
      BY <1>4, RestTypes DEF RecvFails, Served, mainVars
    <2>2. UNCHANGED <<clients, u8NumConnClient, csClientData, replies, netVars>>
      BY <1>4 DEF RecvFails
    <2> QED
      BY <2>1, <2>2 DEF ListTypes, NetTypes, netVars
  <1>5. ASSUME NEW c \in Clients, Disconnect(c) PROVE TypeInv'
    <2>1. ThreadTypes'
      BY <1>5, RestTypes DEF Disconnect, Served, mainVars
    <2>2. Filter(rdl, ToSet(rdl) \ {c}) \in Seq(Fds)
      BY <1>0, FilterFacts
    <2>3. rdl' \in Seq(Fds)
      BY <1>0, <1>5, <2>2 DEF Disconnect
    <2>4. ListTypes'
      <3>1. /\ registered' = registered \ {c} \/ registered' = registered
            /\ clients' = clients \ {c} \/ clients' = clients
            /\ \/ u8NumConnClient' = (u8NumConnClient + 255) % 256
               \/ u8NumConnClient' = u8NumConnClient
        BY <1>5 DEF Disconnect, Unlisted
      <3>2. u8NumConnClient' \in 0 .. 255
        <4>1. u8NumConnClient \in 0 .. 255
          BY DEF ListTypes
        <4>2. (u8NumConnClient + 255) % 256 \in 0 .. 255
          BY <4>1
        <4> QED
          BY <3>1, <4>1, <4>2
      <3> QED
        BY <2>3, <3>1, <3>2 DEF ListTypes
    <2>5. NetTypes'
      BY <1>5 DEF Disconnect, NetTypes
    <2> QED
      BY <2>1, <2>4, <2>5
  <1> QED
    BY <1>1, <1>2, <1>3, <1>4, <1>5 DEF HandleEvent

LEMMA DoneTypes ==
    ASSUME TypeInv, Done
    PROVE  TypeInv'
  <1> USE DEF TypeInv
  <1>1. ThreadTypes'
    BY DEF Done, ThreadTypes, Serving, mainVars
  <1>2. ListTypes' /\ NetTypes'
    BY DEF Done, ListTypes, NetTypes
  <1> QED
    BY <1>1, <1>2

LEMMA TypeStep == TypeInv /\ [Next]_vars => TypeInv'
  BY NetworkTypes, ControlTypes, WakeupTypes, EventTypes, DoneTypes
     DEF Next, SocketServerHandleThread

LEMMA TypeInvImplies == TypeInv => ServerTypeOK
  <1> SUFFICES ASSUME TypeInv PROVE ServerTypeOK
    OBVIOUS
  <1>1. \A i \in DOMAIN batch : batch[i].fd \in Fds /\ batch[i].bad \in BOOLEAN
    <2> SUFFICES ASSUME NEW i \in DOMAIN batch PROVE batch[i] \in EventType
      BY DEF EventType
    <2> QED
      BY DEF TypeInv, ThreadTypes
  <1>2. ToSet(rdl) \subseteq Fds
    BY DEF TypeInv, ListTypes, ToSet
  <1> QED
    BY <1>1, <1>2 DEF TypeInv, ThreadTypes, ListTypes, NetTypes, ServerTypeOK, Fds, ReplyType

(***************************************************************************)
(* The types of both threads' state and of the kernel's, in any order of   *)
(* connections, resets, signals and failing calls: no event is fetched     *)
(* beyond the array and the loop over the events ends with them.           *)
(***************************************************************************)
THEOREM ServerTypes == Spec => []ServerTypeOK
  BY TypeInit, TypeStep, TypeInvImplies, PTL DEF Spec

-----------------------------------------------------------------------------
(* The lists of the thread and of the kernel *)

\* Events for sockets that exist, at most one for each.
EventsOwned(es, cs) ==
    \A i, j \in 1 .. Len(es) :
        /\ es[i].fd = Listen \/ es[i].fd \in cs
        /\ es[i].fd = es[j].fd => i = j

\* As long as no call has failed and nobody has stopped the thread.
Up == spc \notin {"done", "exited", "killed"}

\* Bookkeeping holds from the start of the thread, and what is on the ready
\* list is registered: so are the events fetched from it.
BookInv ==
    /\ Distinct(rdl)
    /\ Up => /\ clients = Opened /\ registered = clients /\ IsFiniteSet(clients)
             /\ u8NumConnClient = Cardinality(clients) % 256
             /\ Elems(rdl) \subseteq clients \cup {Listen}
             /\ EventsOwned(batch, clients)

LEMMA BookInit == Init => BookInv
  <1> SUFFICES ASSUME Init PROVE BookInv
    OBVIOUS
  <1>1. clients = {} /\ registered = {} /\ u8NumConnClient = 0 /\ Len(rdl) = 0 /\ Len(batch) = 0
    BY DEF Init
  <1>2. Opened = {}
    BY DEF Init, Opened
  <1>3. IsFiniteSet(clients) /\ Cardinality(clients) = 0
    BY <1>1, FS_EmptySet
  <1>4. Distinct(rdl) /\ Elems(rdl) = {} /\ EventsOwned(batch, clients)
    BY <1>1 DEF Distinct, Elems, EventsOwned
  <1> QED
    BY <1>1, <1>2, <1>3, <1>4 DEF BookInv

LEMMA ControlBook ==
    ASSUME TypeInv, BookInv,
           \/ SocketServerInit \/ Finish \/ SetRunning \/ Arm \/ Check \/ Enter
           \/ UNCHANGED vars
    PROVE  BookInv'
  <1>1. UNCHANGED <<clients, u8NumConnClient, conn, rdl, registered, batch>>
    BY DEF SocketServerInit, Finish, SetStopped, Kill, Join, SetRunning, Arm, Check, Enter,
           vars, threadVars, netVars
  <1>2. Up' => Up
    <2>1. CASE SocketServerInit
      BY <2>1 DEF SocketServerInit, TypeInv, ThreadTypes, Up
    <2>2. CASE Kill
      BY <2>2 DEF Kill, Up
    <2>3. CASE SetStopped \/ Join \/ UNCHANGED vars
      BY <2>3 DEF SetStopped, Join, vars, threadVars, Up
    <2>4. CASE SetRunning \/ Arm \/ Check \/ Enter
      BY <2>4 DEF SetRunning, Arm, Check, Enter, Up
    <2> QED
      BY <2>1, <2>2, <2>3, <2>4 DEF Finish
  <1>3. Opened' = Opened
    BY <1>1 DEF Opened
  <1> QED
    BY <1>1, <1>2, <1>3 DEF BookInv

LEMMA NetworkBook ==
    ASSUME TypeInv, BookInv, Network
    PROVE  BookInv'
  <1>1. PICK c \in Clients : Connect(c) \/ Send(c) \/ Shutdown(c) \/ Reset(c)
    BY DEF Network
  <1>2. c \in Fds /\ Listen \in Fds /\ rdl \in Seq(Fds)
    BY DEF Fds, TypeInv, ListTypes
  <1>3. UNCHANGED <<clients, u8NumConnClient, registered, batch, spc>>
    BY <1>1 DEF Connect, Send, Shutdown, Reset, threadVars
  <1>4. /\ Distinct(rdl')
        /\ Elems(rdl') \subseteq Elems(rdl) \cup registered \cup {Listen}
    <2>1. CASE Connect(c)
      <3>1. WakeIf(TRUE, Listen)
        BY <2>1 DEF Connect
      <3> QED
        BY <1>2, <3>1, WakeIfTypes DEF BookInv
    <2>2. CASE Send(c) \/ Shutdown(c) \/ Reset(c)
      <3>1. WakeIf(c \in registered, c)
        BY <2>2 DEF Send, Shutdown, Reset
      <3>2. CASE c \in registered
        <4>1. WakeIf(TRUE, c)
          BY <3>1, <3>2 DEF WakeIf
        <4> QED
          BY <1>2, <3>2, <4>1, WakeIfTypes DEF BookInv
      <3>3. CASE c \notin registered
        BY <3>1, <3>3 DEF WakeIf, BookInv
      <3> QED
        BY <3>2, <3>3
    <2> QED
      BY <1>1, <2>1, <2>2
  <1>5. Opened' = Opened
    <2>1. CASE Connect(c)
      BY <2>1 DEF Connect, Opened, TypeInv, NetTypes
    <2>2. CASE Send(c) \/ Shutdown(c) \/ Reset(c)
      BY <2>2 DEF Send, Shutdown, Reset, Opened
    <2> QED
      BY <1>1, <2>1, <2>2
  <1> QED
    BY <1>3, <1>4, <1>5 DEF BookInv, Up

LEMMA WakeupBook ==
    ASSUME TypeInv, BookInv, Wakeup
    PROVE  BookInv'
  <1>1. PICK ready \in Seq(Fds), n \in Nat :
             /\ n > 0 /\ n <= Len(ready)
             /\ Elems(ready) \subseteq Elems(rdl)
             /\ Distinct(rdl) => Distinct(ready)
             /\ batch' = Taken(ready, n)
             /\ Elems(rdl') \subseteq Elems(rdl)
             /\ Distinct(rdl) => Distinct(rdl')
    BY WakeupFacts
  <1>2. Len(batch') = n /\ \A i \in 1 .. n : batch'[i].fd = ready[i]
    BY <1>1, TakenTypes
  <1>3. UNCHANGED <<clients, u8NumConnClient, registered, conn>> /\ Up
    BY DEF Wakeup, Up
  <1>4. Opened' = Opened
    BY <1>3 DEF Opened
  <1>5. \A i \in 1 .. n : i \in 1 .. Len(ready)
    BY <1>1
  <1>6. EventsOwned(batch', clients)
    <2>1. Distinct(ready) /\ Elems(ready) \subseteq clients \cup {Listen}
      BY <1>1, <1>3 DEF BookInv
    <2> QED
      BY <1>2, <1>5, <2>1 DEF EventsOwned, Distinct, Elems
  <1> QED
    BY <1>1, <1>3, <1>4, <1>6 DEF BookInv

\* What is left of a batch after its first event.
LEMMA RestOwned ==
    ASSUME TypeInv, Current, NEW cs, EventsOwned(batch, cs)
    PROVE  /\ EventsOwned(Tail(batch), cs) /\ EventsOwned(<<>>, cs)
           /\ EventsOwned(Tail(batch), cs \ {Event.fd})
  <1>1. batch \in Seq(EventType) /\ batch # <<>>
    BY DEF TypeInv, ThreadTypes, Current
  <1>2. /\ Len(Tail(batch)) = Len(batch) - 1 /\ Len(batch) \in Nat \ {0}
        /\ Head(batch) = batch[1]
        /\ \A i \in 1 .. Len(batch) - 1 : Tail(batch)[i] = batch[i + 1]
    BY <1>1, TailQueue
  <1>3. /\ \A i \in 1 .. Len(batch) - 1 : i + 1 \in 1 .. Len(batch) /\ i + 1 # 1
        /\ 1 \in 1 .. Len(batch)
    BY <1>2
  <1>4. ASSUME NEW i \in 1 .. Len(batch) - 1, NEW j \in 1 .. Len(batch) - 1
        PROVE  /\ batch[i + 1].fd = Listen \/ batch[i + 1].fd \in cs \ {batch[1].fd}
               /\ batch[i + 1].fd = batch[j + 1].fd => i = j
    <2>1. batch[i + 1].fd = batch[j + 1].fd => i + 1 = j + 1
      BY <1>3 DEF EventsOwned
    <2>2. batch[i + 1].fd # batch[1].fd
      BY <1>3 DEF EventsOwned
    <2>3. batch[i + 1].fd = Listen \/ batch[i + 1].fd \in cs
      BY <1>3 DEF EventsOwned
    <2> QED
      BY <2>1, <2>2, <2>3
  <1>5. EventsOwned(Tail(batch), cs \ {batch[1].fd})
    BY <1>2, <1>4 DEF EventsOwned
  <1>6. EventsOwned(Tail(batch), cs)
    BY <1>5 DEF EventsOwned
  <1>7. EventsOwned(<<>>, cs)
    BY DEF EventsOwned
  <1> QED
    BY <1>2, <1>5, <1>6, <1>7 DEF Event

LEMMA EventBook ==
    ASSUME TypeInv, BookInv, HandleEvent
    PROVE  BookInv'
  <1>0. /\ Up /\ Current /\ rdl \in Seq(Fds) /\ Clients \subseteq Fds
        /\ clients = Opened /\ registered = clients /\ IsFiniteSet(clients)
        /\ u8NumConnClient = Cardinality(clients) % 256
        /\ Elems(rdl) \subseteq clients \cup {Listen} /\ Distinct(rdl)
        /\ EventsOwned(batch, clients)
        /\ EventsOwned(Tail(batch), clients) /\ EventsOwned(<<>>, clients)
        /\ EventsOwned(Tail(batch), clients \ {Event.fd})
        /\ Cardinality(clients) \in Nat
    <2>1. Current
      BY DEF HandleEvent, SkipError, AcceptFails, Accept, Recv, RecvFails, Disconnect, Served
    <2>2. Up
      BY <2>1 DEF Current, Up
    <2>3. IsFiniteSet(clients) /\ EventsOwned(batch, clients)
      BY <2>2 DEF BookInv
    <2>4. /\ EventsOwned(Tail(batch), clients) /\ EventsOwned(<<>>, clients)
          /\ EventsOwned(Tail(batch), clients \ {Event.fd})
      BY <2>1, <2>3, RestOwned
    <2>5. Cardinality(clients) \in Nat
      BY <2>3, FS_CardinalityType
    <2> QED
      BY <2>1, <2>2, <2>3, <2>4, <2>5 DEF BookInv, TypeInv, ListTypes, Fds
  <1>1. ASSUME UNCHANGED <<clients, u8NumConnClient, conn, rdl, registered>>,
               batch' \in {Tail(batch), <<>>}
        PROVE  BookInv'
    <2>1. Opened' = Opened
      BY <1>1 DEF Opened
    <2>2. EventsOwned(batch', clients)
      BY <1>0, <1>1
    <2> QED
      BY <1>0, <1>1, <2>1, <2>2 DEF BookInv
  <1>2. CASE SkipError \/ AcceptFails
    BY <1>1, <1>2 DEF SkipError, AcceptFails, netVars
  <1>3. ASSUME NEW c \in Clients, Recv(c) \/ RecvFails(c) PROVE BookInv'
    BY <1>1, <1>3 DEF Recv, RecvFails, netVars
  <1>4. ASSUME NEW c \in Clients, Accept(c) PROVE BookInv'
    <2>1. CASE batch' = <<>> /\ spc' = "done" /\ rdl' = rdl
      BY <1>0, <2>1 DEF BookInv, Up
    <2>2. CASE /\ registered' = registered \cup {c} /\ WakeIf(Pollable(c), c)
               /\ batch' = <<>>
      <3>1. /\ conn' = [conn EXCEPT ![c] = "open"] /\ conn[c] = "queued"
            /\ clients' = clients \cup {c}
            /\ u8NumConnClient' = (u8NumConnClient + 1) % 256
        BY <1>4 DEF Accept
      <3>2. Opened' = Opened \cup {c} /\ c \notin clients
        BY <1>0, <3>1 DEF Opened, TypeInv, NetTypes
      <3>3. IsFiniteSet(clients') /\ Cardinality(clients') = Cardinality(clients) + 1
        BY <1>0, <3>1, <3>2, FS_AddElement
      <3>4. u8NumConnClient' = Cardinality(clients') % 256
        BY <1>0, <3>1, <3>3
      <3>5. Elems(rdl') \subseteq Elems(rdl) \cup {c} /\ Distinct(rdl')
        <4>1. CASE Pollable(c)
          <5>1. WakeIf(TRUE, c)
            BY <2>2, <4>1 DEF WakeIf
          <5> QED
            BY <1>0, <5>1, WakeIfTypes
        <4>2. CASE ~Pollable(c)
          BY <1>0, <2>2, <4>2 DEF WakeIf
        <4> QED
          BY <4>1, <4>2
      <3>6. EventsOwned(batch', clients')
        BY <2>2 DEF EventsOwned
      <3> QED
        BY <1>0, <2>2, <3>1, <3>2, <3>3, <3>4, <3>5, <3>6 DEF BookInv
    <2> QED
      BY <1>4, <2>1, <2>2 DEF Accept, AfterAccept
  <1>5. ASSUME NEW c \in Clients, Disconnect(c) PROVE BookInv'
    <2>1. CASE batch' = <<>> /\ UNCHANGED <<registered, rdl, conn, clients, u8NumConnClient>>
      BY <1>1, <2>1
    <2>2. CASE /\ registered' = registered \ {c}
               /\ rdl' = Filter(rdl, ToSet(rdl) \ {c})
               /\ conn' = [conn EXCEPT ![c] = "closed"]
               /\ clients' = Unlisted(c)
               /\ u8NumConnClient' = (u8NumConnClient + 255) % 256
               /\ batch' = Tail(batch)
      <3>1. c \in clients /\ Event.fd = c /\ clients' = clients \ {c}
        BY <1>5, <2>2 DEF Disconnect, Served, Unlisted
      <3>2. Opened' = Opened \ {c}
        BY <2>2 DEF Opened, TypeInv, NetTypes
      <3>3. IsFiniteSet(clients') /\ Cardinality(clients') = Cardinality(clients) - 1
        BY <1>0, <3>1, FS_RemoveElement
      <3>4. Cardinality(clients') \in Nat
        BY <3>3, FS_CardinalityType
      <3>5. u8NumConnClient' = Cardinality(clients') % 256
        <4> DEFINE k == Cardinality(clients')
        <4> HIDE DEF k
        <4>1. k \in Nat /\ Cardinality(clients) = k + 1
          BY <1>0, <3>3, <3>4 DEF k
        <4>2. u8NumConnClient' = (((k + 1) % 256) + 255) % 256
          BY <1>0, <2>2, <4>1
        <4>3. (((k + 1) % 256) + 255) % 256 = k % 256
          BY <4>1
        <4> QED
          BY <4>2, <4>3 DEF k
      <3>6. Elems(rdl') = Elems(rdl) \ {c} /\ Distinct(rdl')
        <4>1. ToSet(rdl) = Elems(rdl)
          BY <1>0 DEF ToSet, Elems
        <4>2. /\ Elems(rdl') = Elems(rdl) \cap (ToSet(rdl) \ {c})
              /\ Distinct(rdl) => Distinct(rdl')
          BY <1>0, <2>2, FilterFacts
        <4> QED
          BY <1>0, <4>1, <4>2
      <3>7. EventsOwned(batch', clients')
        BY <1>0, <2>2, <3>1
      <3> QED
        BY <1>0, <2>2, <3>1, <3>2, <3>3, <3>5, <3>6, <3>7 DEF BookInv
    <2> QED
      BY <1>5, <2>1, <2>2 DEF Disconnect
  <1> QED
    BY <1>2, <1>3, <1>4, <1>5 DEF HandleEvent

LEMMA DoneBook ==
    ASSUME BookInv, Done
    PROVE  BookInv'
  <1>1. ~Up' /\ Len(rdl') = 0
    BY DEF Done, Up
  <1> QED
    BY <1>1 DEF BookInv, Distinct

LEMMA BookStep == TypeInv /\ BookInv /\ [Next]_vars => BookInv'
  BY NetworkBook, ControlBook, WakeupBook, EventBook, DoneBook
     DEF Next, SocketServerHandleThread

LEMMA BookImplies == TypeInv /\ BookInv /\ QueueIsSignalled => Bookkeeping
  <1> SUFFICES ASSUME TypeInv, BookInv, QueueIsSignalled, spc \in Serving PROVE Bookkeeping
    BY DEF Bookkeeping
  <1>1. Up
    BY DEF Up, Serving
  <1>2. DOMAIN batch = 1 .. Len(batch)
    BY DEF TypeInv, ThreadTypes
  <1> QED
    BY <1>1, <1>2 DEF BookInv, Bookkeeping, EventsOwned

-----------------------------------------------------------------------------
(* The listening queue *)

Queued == \E c \in Clients : conn[c] = "queued"

SignalInv == Up /\ Queued => Listen \in Elems(rdl)

LEMMA SignalInit == Init => SignalInv
  BY DEF Init, SignalInv, Queued

LEMMA SignalNetwork ==
    ASSUME TypeInv, SignalInv, Network
    PROVE  SignalInv'
  <1>1. PICK c \in Clients : Connect(c) \/ Send(c) \/ Shutdown(c) \/ Reset(c)
    BY DEF Network
  <1>2. c \in Fds /\ Listen \in Fds /\ rdl \in Seq(Fds) /\ spc' = spc
    BY <1>1 DEF Fds, TypeInv, ListTypes, Connect, Send, Shutdown, Reset, threadVars
  <1>3. CASE Connect(c)
    <2>1. rdl' = Wake(Listen, rdl)
      BY <1>3 DEF Connect, WakeIf
    <2> QED
      BY <1>2, <2>1, WakeTypes DEF SignalInv
  <1>4. CASE Send(c) \/ Shutdown(c) \/ Reset(c)
    <2>1. conn' = conn /\ (rdl' = Wake(c, rdl) \/ rdl' = rdl)
      BY <1>4 DEF Send, Shutdown, Reset, WakeIf
    <2>2. Elems(rdl) \subseteq Elems(rdl')
      BY <1>2, <2>1, WakeTypes
    <2> QED
      BY <1>2, <2>1, <2>2 DEF SignalInv, Up, Queued
  <1> QED
    BY <1>1, <1>3, <1>4

LEMMA SignalStep ==
    ASSUME TypeInv, SignalInv, [Next]_vars
    PROVE  SignalInv'
  <1>0. rdl \in Seq(Fds) /\ Clients \subseteq Fds /\ Listen \notin Clients
    BY ServerAssumption DEF TypeInv, ListTypes, Fds
  <1>1. ASSUME conn' = conn, rdl' = rdl, Up' => Up PROVE SignalInv'
    BY <1>1 DEF SignalInv, Queued
  <1>2. CASE Network
    BY <1>2, SignalNetwork
  <1>3. CASE \/ SocketServerInit \/ Finish \/ SetRunning \/ Arm \/ Check \/ Enter
             \/ UNCHANGED vars
    <2>1. conn' = conn /\ rdl' = rdl
      BY <1>3 DEF SocketServerInit, Finish, SetStopped, Kill, Join, SetRunning, Arm, Check,
                  Enter, vars, netVars
    <2>2. Up' => Up
      <3>1. CASE SocketServerInit
        BY <3>1 DEF SocketServerInit, TypeInv, ThreadTypes, Up
      <3>2. CASE Kill
        BY <3>2 DEF Kill, Up
      <3>3. CASE SetStopped \/ Join \/ UNCHANGED vars
        BY <3>3 DEF SetStopped, Join, vars, threadVars, Up
      <3>4. CASE SetRunning \/ Arm \/ Check \/ Enter
        BY <3>4 DEF SetRunning, Arm, Check, Enter, Up
      <3> QED
        BY <1>3, <3>1, <3>2, <3>3, <3>4 DEF Finish
    <2> QED
      BY <1>1, <2>1, <2>2
  <1>4. CASE Wakeup
    <2>1. Listen \in Elems(rdl) /\ Pollable(Listen) => Listen \in Elems(rdl')
      BY <1>4, WakeupFacts
    <2>2. Queued <=> Pollable(Listen)
      BY DEF Queued, Pollable
    <2>3. conn' = conn /\ Up
      BY <1>4 DEF Wakeup, Up
    <2>4. Queued' => Queued
      BY <2>3 DEF Queued
    <2> QED
      BY <2>1, <2>2, <2>3, <2>4 DEF SignalInv
  <1>5. ASSUME HandleEvent PROVE Up
    BY <1>5 DEF HandleEvent, SkipError, AcceptFails, Accept, Recv, RecvFails, Disconnect,
                Served, Current, Up
  <1>6. CASE SkipError \/ AcceptFails
    BY <1>1, <1>5, <1>6 DEF SkipError, AcceptFails, netVars, HandleEvent
  <1>7. ASSUME NEW c \in Clients, Recv(c) \/ RecvFails(c) PROVE SignalInv'
    BY <1>1, <1>5, <1>7 DEF Recv, RecvFails, netVars, HandleEvent
  <1>8. ASSUME NEW c \in Clients, Accept(c) PROVE SignalInv'
    <2>1. Up /\ conn' = [conn EXCEPT ![c] = "open"]
      BY <1>5, <1>8 DEF Accept, HandleEvent
    <2>2. Queued' => Queued
      BY <1>8, <2>1 DEF Queued, Accept
    <2>3. rdl' = rdl \/ rdl' = Wake(c, rdl)
      BY <1>8 DEF Accept, WakeIf
    <2>4. Elems(rdl) \subseteq Elems(rdl')
      BY <1>0, <2>3, WakeTypes
    <2> QED
      BY <2>1, <2>2, <2>4 DEF SignalInv
  <1>9. ASSUME NEW c \in Clients, Disconnect(c) PROVE SignalInv'
    <2>1. Up
      BY <1>5, <1>9 DEF HandleEvent
    <2>2. CASE conn' = conn /\ rdl' = rdl
      BY <1>1, <2>1, <2>2
    <2>3. CASE /\ rdl' = Filter(rdl, ToSet(rdl) \ {c})
               /\ conn' = [conn EXCEPT ![c] = "closed"]
      <3>1. ToSet(rdl) = Elems(rdl)
        BY <1>0 DEF ToSet, Elems
      <3>2. Elems(rdl') = Elems(rdl) \cap (ToSet(rdl) \ {c})
        BY <1>0, <2>3, FilterFacts
      <3>3. Listen \in Elems(rdl) => Listen \in Elems(rdl')
        BY <1>0, <3>1, <3>2
      <3>4. Queued' => Queued
        BY <2>3 DEF Queued, TypeInv, NetTypes
      <3> QED
        BY <2>1, <3>3, <3>4 DEF SignalInv
    <2> QED
      BY <1>9, <2>2, <2>3 DEF Disconnect
  <1>10. CASE Done
    BY <1>10 DEF Done, SignalInv, Up
  <1> QED
    BY <1>2, <1>3, <1>4, <1>6, <1>7, <1>8, <1>9, <1>10
       DEF Next, SocketServerHandleThread, HandleEvent

(***************************************************************************)
(* No connection is forgotten: while the thread serves, a client in the    *)
(* listening queue has the listening socket on epoll's ready list, so the  *)
(* next epoll_wait returns, whatever accept did and whatever was dropped   *)
(* from a batch.  It is the safety half of QueuedIsAccepted.               *)
(***************************************************************************)
THEOREM QueueSignalled == Spec => []QueueIsSignalled
  <1>1. TypeInv /\ SignalInv => QueueIsSignalled
    <2> SUFFICES ASSUME TypeInv, SignalInv, spc \in Serving,
                        \E c \in Clients : conn[c] = "queued"
                 PROVE  Listen \in ToSet(rdl)
      BY DEF QueueIsSignalled
    <2>1. Up /\ Queued
      BY DEF Up, Serving, Queued
    <2>2. ToSet(rdl) = Elems(rdl)
      BY DEF ToSet, Elems, TypeInv, ListTypes
    <2> QED
      BY <2>1, <2>2 DEF SignalInv
  <1>2. TypeInv /\ SignalInv /\ [Next]_vars => SignalInv'
    BY SignalStep
  <1> QED
    BY <1>1, <1>2, TypeInit, TypeStep, SignalInit, PTL DEF Spec

(***************************************************************************)
(* While the thread serves, its list of clients, its counter (an unsigned  *)
(* char), epoll's interest set and the open sockets agree, no event is     *)
(* left for a client that an earlier event of the batch disconnected, and  *)
(* nobody waits in the listening queue without an event to come.           *)
(***************************************************************************)
THEOREM ListsAgree == Spec => []Bookkeeping
  BY TypeInit, TypeStep, BookInit, BookStep, BookImplies, QueueSignalled, PTL DEF Spec

-----------------------------------------------------------------------------
(* The answers *)

(***************************************************************************)
(* The parts a client has sent form one stream: the first part of message  *)
(* n is number 2n + 1 of it, the rest number 2n + 2.  The invariant says   *)
(* where in the stream the unread data, the buffer and the answers are; it *)
(* is about the messages S sent by a client, its unread data I, its buffer *)
(* B and its answers R.                                                    *)
(***************************************************************************)
Pos(p) == 2 * p.seq + p.part

\* Number of the last part that has arrived.
End(S) == 2 * Len(S) + (IF Len(S) > 0 /\ S[Len(S)].come = "begun" THEN 1 ELSE 2)

\* Only the last message may be incomplete.
LastBegun(S) == \A k \in 1 .. Len(S) - 1 : S[k].come # "begun"

FromStream(S, p) ==
    /\ p.seq \in 1 .. Len(S) /\ p.kind = S[p.seq].kind
    /\ p.part = 2 => S[p.seq].come # "begun"

\* The unread data are the last parts of the stream, without a gap.
Unread(S, I) ==
    \A i \in 1 .. Len(I) : FromStream(S, I[i]) /\ Pos(I[i]) = End(S) - Len(I) + i

\* The buffer holds older parts.
Held(S, I, B) ==
    \A i \in 1 .. Len(B) : FromStream(S, B[i]) /\ Pos(B[i]) <= End(S) - Len(I)

\* Answers are to messages that were read, and with no later number than the
\* rest of a message that is in the second place of the buffer.
Behind(S, I, B, R) ==
    \A j \in 1 .. Len(R) :
        /\ 2 * R[j].to + 1 <= End(S) - Len(I)
        /\ Len(B) >= 2 /\ B[2].part = 2 => R[j].seq <= B[2].seq

\* One answer, and two answers of which the first came earlier.
Fits(S, r) ==
    /\ r.to \in 1 .. Len(S) /\ r.seq \in 1 .. Len(S)
    /\ S[r.to].kind = "request"
    /\ r.seq <= r.to /\ S[r.seq].come # "begun"
    /\ r.seq # r.to => S[r.to].come # "whole"

Answered(S, R) ==
    \A i \in 1 .. Len(R) :
        /\ Fits(S, R[i])
        /\ \A j \in 1 .. i - 1 : R[j].to < R[i].to /\ R[j].seq <= R[i].seq

Stream(S, I, B, R) ==
    LastBegun(S) /\ Unread(S, I) /\ Held(S, I, B) /\ Behind(S, I, B, R) /\ Answered(S, R)

Streams(S, I, B, R) ==
    S \in Seq(SentType) /\ I \in Seq(PartType) /\ B \in Seq(PartType) /\ R \in Seq(ReplyType)

ReplyInv == \A c \in Clients : Stream(sent[c], inbox[c], csClientData[c], replies[c])

LEMMA ReplyInit == Init => ReplyInv
  <1> SUFFICES ASSUME Init, NEW c \in Clients
               PROVE  Stream(sent[c], inbox[c], csClientData[c], replies[c])
    BY DEF ReplyInv
  <1>1. sent[c] = <<>> /\ inbox[c] = <<>> /\ csClientData[c] = <<>> /\ replies[c] = <<>>
    BY DEF Init
  <1> QED
    BY <1>1 DEF Stream, LastBegun, Unread, Held, Behind, Answered

LEMMA EndInt ==
    ASSUME NEW S \in Seq(SentType)
    PROVE  End(S) \in Int /\ Len(S) \in Nat
  BY DEF End

\* Messages are added at the end and completed; nothing else about them changes.
Grows(S, T) ==
    /\ Len(S) <= Len(T)
    /\ \A k \in 1 .. Len(S) : /\ T[k].kind = S[k].kind
                              /\ S[k].come # "begun" => T[k].come = S[k].come
                              /\ S[k].come = "begun" => T[k].come # "whole"

LEMMA GrownParts ==
    ASSUME NEW S \in Seq(SentType), NEW T \in Seq(SentType), Grows(S, T),
           NEW p \in PartType, FromStream(S, p)
    PROVE  FromStream(T, p)
  <1>1. Len(S) \in Nat /\ Len(T) \in Nat /\ Len(S) <= Len(T)
    BY DEF Grows
  <1>2. p.seq \in 1 .. Len(S) /\ p.seq \in 1 .. Len(T)
    BY <1>1 DEF FromStream
  <1> QED
    BY <1>2 DEF FromStream, Grows

LEMMA GrownAnswer ==
    ASSUME NEW S \in Seq(SentType), NEW T \in Seq(SentType), Grows(S, T),
           NEW r \in ReplyType, Fits(S, r)
    PROVE  Fits(T, r)
  <1>1. Len(S) \in Nat /\ Len(T) \in Nat /\ Len(S) <= Len(T)
    BY DEF Grows
  <1>2. /\ r.to \in 1 .. Len(S) /\ r.to \in 1 .. Len(T)
        /\ r.seq \in 1 .. Len(S) /\ r.seq \in 1 .. Len(T)
    BY <1>1 DEF Fits
  <1> QED
    BY <1>2 DEF Fits, Grows

\* Something arrives: more is unread, and what was read is what it was.
LEMMA StreamGrows ==
    ASSUME NEW S, NEW I, NEW B, NEW R, Streams(S, I, B, R), Stream(S, I, B, R),
           NEW T \in Seq(SentType), NEW J \in Seq(PartType),
           Grows(S, T), LastBegun(T), End(T) - Len(J) = End(S) - Len(I),
           Len(I) <= Len(J), \A i \in 1 .. Len(I) : J[i] = I[i],
           \A i \in Len(I) + 1 .. Len(J) :
               FromStream(T, J[i]) /\ Pos(J[i]) = End(T) - Len(J) + i
    PROVE  Stream(T, J, B, R)
  <1>0. /\ S \in Seq(SentType) /\ I \in Seq(PartType) /\ B \in Seq(PartType)
        /\ R \in Seq(ReplyType) /\ Len(I) \in Nat /\ Len(J) \in Nat
    BY DEF Streams
  <1>1. Unread(T, J)
    <2> SUFFICES ASSUME NEW i \in 1 .. Len(J)
                 PROVE  FromStream(T, J[i]) /\ Pos(J[i]) = End(T) - Len(J) + i
      BY DEF Unread
    <2>1. CASE i \in 1 .. Len(I)
      <3>1. I[i] \in PartType /\ J[i] = I[i]
        BY <1>0, <2>1
      <3>2. FromStream(S, I[i]) /\ Pos(I[i]) = End(S) - Len(I) + i
        BY <2>1 DEF Stream, Unread
      <3> QED
        BY <1>0, <3>1, <3>2, GrownParts
    <2> QED
      BY <1>0, <2>1
  <1>2. Held(T, J, B)
    <2> SUFFICES ASSUME NEW i \in 1 .. Len(B)
                 PROVE  FromStream(T, B[i]) /\ Pos(B[i]) <= End(T) - Len(J)
      BY DEF Held
    <2>1. B[i] \in PartType
      BY <1>0
    <2>2. FromStream(S, B[i]) /\ Pos(B[i]) <= End(S) - Len(I)
      BY DEF Stream, Held
    <2> QED
      BY <1>0, <2>1, <2>2, GrownParts
  <1>3. Behind(T, J, B, R)
    BY DEF Stream, Behind
  <1>4. Answered(T, R)
    <2> SUFFICES ASSUME NEW i \in 1 .. Len(R) PROVE Fits(T, R[i])
      BY DEF Stream, Answered
    <2>1. R[i] \in ReplyType /\ Fits(S, R[i])
      BY <1>0 DEF Stream, Answered
    <2> QED
      BY <1>0, <2>1, GrownAnswer
  <1> QED
    BY <1>1, <1>2, <1>3, <1>4 DEF Stream

\* A message or its first part arrives.
LEMMA MessageComes ==
    ASSUME NEW S, NEW I, NEW B, NEW R, Streams(S, I, B, R), Stream(S, I, B, R),
           \A k \in 1 .. Len(S) : S[k].come # "begun",
           NEW kind \in {"request", "error"}, NEW come \in {"whole", "begun"},
           NEW n, n = Len(S) + 1, n <= MaxMsgs,
           NEW T, T = Append(S, [kind |-> kind, come |-> come]),
           NEW J, J = I \o IF come = "whole" THEN Append(<<Part(n, kind, 1)>>, Part(n, kind, 2))
                           ELSE <<Part(n, kind, 1)>>
    PROVE  Stream(T, J, B, R)
  <1> DEFINE m == [kind |-> kind, come |-> come]
             p == Part(n, kind, 1)
             q == Part(n, kind, 2)
  <1>0. /\ S \in Seq(SentType) /\ I \in Seq(PartType) /\ Len(I) \in Nat /\ Len(S) \in Nat
        /\ MaxMsgs \in Nat /\ n \in Nat /\ n \in 1 .. MaxMsgs
    BY ServerAssumption DEF Streams
  <1>1. m \in SentType /\ m.kind = kind /\ m.come = come
    BY DEF SentType
  <1>2. /\ p \in PartType /\ p.seq = n /\ p.kind = kind /\ p.part = 1
        /\ q \in PartType /\ q.seq = n /\ q.kind = kind /\ q.part = 2
    BY <1>0 DEF Part, PartType
  <1>3. T = Append(S, m) /\ J = I \o IF come = "whole" THEN Append(<<p>>, q) ELSE <<p>>
    OBVIOUS
  <1> HIDE DEF m, p, q
  <1>4. /\ T \in Seq(SentType) /\ Len(T) = n /\ T[n] = m
        /\ \A k \in 1 .. Len(S) : T[k] = S[k]
    BY <1>0, <1>1, <1>3
  <1>5. Grows(S, T)
    BY <1>0, <1>4 DEF Grows
  <1>6. LastBegun(T)
    BY <1>0, <1>4 DEF LastBegun
  <1>7. End(S) = 2 * Len(S) + 2
    <2>1. ~ (Len(S) > 0 /\ S[Len(S)].come = "begun")
      BY <1>0
    <2> QED
      BY <2>1 DEF End
  <1>8. End(T) = 2 * n + (IF come = "begun" THEN 1 ELSE 2)
    <2>1. Len(T) > 0 /\ T[Len(T)].come = come /\ Len(T) = n
      BY <1>0, <1>1, <1>4
    <2> QED
      BY <2>1 DEF End
  <1>9. FromStream(T, p) /\ Pos(p) = 2 * n + 1
    BY <1>0, <1>1, <1>2, <1>4 DEF FromStream, Pos
  <1>10. CASE come = "whole"
    <2>1. FromStream(T, q) /\ Pos(q) = 2 * n + 2
      BY <1>0, <1>1, <1>2, <1>4, <1>10 DEF FromStream, Pos
    <2>2. J = I \o Append(<<p>>, q)
      BY <1>3, <1>10
    <2>3. J \in Seq(PartType) /\ Len(J) = Len(I) + 2
      BY <1>0, <1>2, <2>2
    <2>4. \A i \in 1 .. Len(I) : J[i] = I[i]
      BY <1>0, <1>2, <2>2
    <2>5. J[Len(I) + 1] = p /\ J[Len(I) + 2] = q
      BY <1>0, <1>2, <2>2
    <2>6. End(T) - Len(J) = End(S) - Len(I) /\ End(T) - Len(J) = 2 * n - Len(I)
      BY <1>0, <1>7, <1>8, <1>10, <2>3
    <2>7. ASSUME NEW i \in Len(I) + 1 .. Len(J)
          PROVE  FromStream(T, J[i]) /\ Pos(J[i]) = End(T) - Len(J) + i
      <3>1. i = Len(I) + 1 \/ i = Len(I) + 2
        BY <1>0, <2>3
      <3>2. CASE i = Len(I) + 1
        <4>1. J[i] = p /\ End(T) - Len(J) + i = 2 * n + 1
          BY <1>0, <2>5, <2>6, <3>2
        <4> QED
          BY <1>9, <4>1
      <3>3. CASE i = Len(I) + 2
        <4>1. J[i] = q /\ End(T) - Len(J) + i = 2 * n + 2
          BY <1>0, <2>5, <2>6, <3>3
        <4> QED
          BY <2>1, <4>1
      <3> QED
        BY <3>1, <3>2, <3>3
    <2>8. Len(I) <= Len(J)
      BY <1>0, <2>3
    <2> QED
      BY <1>4, <1>5, <1>6, <2>3, <2>4, <2>6, <2>7, <2>8, StreamGrows
  <1>11. CASE come = "begun"
    <2>2. J = I \o <<p>>
      BY <1>3, <1>11
    <2>3. J \in Seq(PartType) /\ Len(J) = Len(I) + 1
      BY <1>0, <1>2, <2>2
    <2>4. \A i \in 1 .. Len(I) : J[i] = I[i]
      BY <1>0, <1>2, <2>2
    <2>5. J[Len(I) + 1] = p
      BY <1>0, <1>2, <2>2
    <2>6. End(T) - Len(J) = End(S) - Len(I) /\ End(T) - Len(J) = 2 * n - Len(I)
      BY <1>0, <1>7, <1>8, <1>11, <2>3
    <2>7. ASSUME NEW i \in Len(I) + 1 .. Len(J)
          PROVE  FromStream(T, J[i]) /\ Pos(J[i]) = End(T) - Len(J) + i
      <3>1. i = Len(I) + 1
        BY <1>0, <2>3
      <3>2. J[i] = p /\ End(T) - Len(J) + i = 2 * n + 1
        BY <1>0, <2>5, <2>6, <3>1
      <3> QED
        BY <1>9, <3>2
    <2>8. Len(I) <= Len(J)
      BY <1>0, <2>3
    <2> QED
      BY <1>4, <1>5, <1>6, <2>3, <2>4, <2>6, <2>7, <2>8, StreamGrows
  <1> QED
    BY <1>10, <1>11

\* The rest of a message arrives.
LEMMA RestComes ==
    ASSUME NEW S, NEW I, NEW B, NEW R, Streams(S, I, B, R), Stream(S, I, B, R),
           NEW n \in 1 .. Len(S), S[n].come = "begun", Len(S) <= MaxMsgs,
           NEW T, T = [S EXCEPT ![n].come = "ended"],
           NEW J, J = Append(I, Part(n, S[n].kind, 2))
    PROVE  Stream(T, J, B, R)
  <1> DEFINE m == [S[n] EXCEPT !.come = "ended"]
             q == Part(n, S[n].kind, 2)
  <1>0. /\ S \in Seq(SentType) /\ I \in Seq(PartType) /\ Len(I) \in Nat /\ Len(S) \in Nat
        /\ MaxMsgs \in Nat /\ n \in 1 .. MaxMsgs /\ S[n] \in SentType
    BY ServerAssumption DEF Streams
  <1>1. m \in SentType /\ m.kind = S[n].kind /\ m.come = "ended"
    BY <1>0 DEF SentType
  <1>2. q \in PartType /\ q.seq = n /\ q.kind = S[n].kind /\ q.part = 2
    BY <1>0 DEF Part, PartType, SentType
  <1>3. T = [S EXCEPT ![n] = m] /\ J = Append(I, q)
    OBVIOUS
  <1> HIDE DEF m, q
  <1>4. /\ T \in Seq(SentType) /\ Len(T) = Len(S) /\ T[n] = m
        /\ \A k \in 1 .. Len(S) : k # n => T[k] = S[k]
    <2>1. T \in Seq(SentType) /\ Len(T) = Len(S)
      BY <1>0, <1>1, <1>3
    <2>2. S \in [1 .. Len(S) -> SentType]
      BY <1>0
    <2>3. T[n] = m /\ \A k \in 1 .. Len(S) : k # n => T[k] = S[k]
      BY <1>3, <2>2
    <2> QED
      BY <2>1, <2>3
  <1>5. n = Len(S)
    BY <1>0 DEF Stream, LastBegun
  <1>6. Grows(S, T)
    <2> SUFFICES ASSUME NEW k \in 1 .. Len(S)
                 PROVE  /\ T[k].kind = S[k].kind
                        /\ S[k].come # "begun" => T[k].come = S[k].come
                        /\ S[k].come = "begun" => T[k].come # "whole"
      BY <1>0, <1>4 DEF Grows
    <2>1. CASE k = n
      BY <1>1, <1>4, <2>1
    <2>2. CASE k # n
      BY <1>4, <2>2
    <2> QED
      BY <2>1, <2>2
  <1>7. LastBegun(T)
    <2> SUFFICES ASSUME NEW k \in 1 .. Len(T) - 1 PROVE T[k].come # "begun"
      BY DEF LastBegun
    <2>1. k \in 1 .. Len(S) /\ k # n
      BY <1>0, <1>4, <1>5
    <2> QED
      BY <1>0, <1>4, <1>5, <2>1 DEF Stream, LastBegun
  <1>8. End(S) = 2 * n + 1 /\ End(T) = 2 * n + 2
    <2>1. Len(S) > 0 /\ S[Len(S)].come = "begun" /\ Len(S) = n
      BY <1>0, <1>5
    <2>2. Len(T) = n /\ T[Len(T)].come = "ended"
      BY <1>1, <1>4, <1>5
    <2>3. End(S) = 2 * n + 1
      BY <2>1 DEF End
    <2>4. End(T) = 2 * n + 2
      BY <2>2 DEF End
    <2> QED
      BY <2>3, <2>4
  <1>9. FromStream(T, q) /\ Pos(q) = 2 * n + 2
    BY <1>0, <1>1, <1>2, <1>4 DEF FromStream, Pos
  <1>10. /\ J \in Seq(PartType) /\ Len(J) = Len(I) + 1 /\ Len(I) <= Len(J)
         /\ J[Len(I) + 1] = q
    BY <1>0, <1>2, <1>3
  <1>11. \A i \in 1 .. Len(I) : J[i] = I[i]
    BY <1>0, <1>2, <1>3
  <1>12. End(T) - Len(J) = End(S) - Len(I)
    <2> DEFINE l == Len(I)
    <2>1. End(T) - Len(J) = (2 * n + 2) - (l + 1) /\ End(S) - Len(I) = (2 * n + 1) - l
      BY <1>8, <1>10
    <2>2. l \in Nat
      BY <1>0
    <2> HIDE DEF l
    <2> QED
      BY <2>1, <2>2
  <1>13. ASSUME NEW i \in Len(I) + 1 .. Len(J)
         PROVE  FromStream(T, J[i]) /\ Pos(J[i]) = End(T) - Len(J) + i
    <2>1. i = Len(I) + 1
      BY <1>0, <1>10
    <2> QED
      BY <1>0, <1>8, <1>9, <1>10, <2>1
  <1> QED
    BY <1>4, <1>6, <1>7, <1>10, <1>11, <1>12, <1>13, StreamGrows


\* Places in a stream of e parts of which l are unread.
LEMMA Places ==
    ASSUME NEW x \in Int, NEW y \in Int, NEW e \in Int, NEW l \in Nat
    PROVE  /\ 2 * x = e - l /\ 2 * y = e - l => x = y
           /\ 2 * x = e - l /\ 2 * y + 2 <= e - l => y < x
           /\ 2 * x = e - l /\ 2 * y + 1 <= e - l => y < x
           /\ 2 * x = e - l /\ l = 1 => e = 2 * x + 1
  OBVIOUS

LEMMA PlaceOf ==
    ASSUME NEW x \in Int, NEW k \in {1, 2}, NEW z \in Int, 2 * x + k = z + k
    PROVE  2 * x = z
  OBVIOUS

LEMMA PosInt ==
    ASSUME NEW p \in PartType
    PROVE  Pos(p) \in Int /\ p.seq \in Int /\ p.part \in {1, 2} /\ Pos(p) = 2 * p.seq + p.part
  BY ServerAssumption DEF PartType, Pos

\* Everything unread is read, over the start of the buffer.
LEMMA StreamRead ==
    ASSUME NEW S, NEW I, NEW B, NEW R, Streams(S, I, B, R), Stream(S, I, B, R),
           NEW C \in Seq(PartType), I # <<>>, Len(I) <= Len(C),
           \A i \in 1 .. Len(I) : C[i] = I[i],
           \A i \in Len(I) + 1 .. Len(C) : i \in 1 .. Len(B) /\ C[i] = B[i]
    PROVE  /\ Stream(S, <<>>, C, R)
           /\ IsRequest(C) =>
                Stream(S, <<>>, C, Append(R, [to |-> C[1].seq, seq |-> C[2].seq]))
  <1>0. /\ S \in Seq(SentType) /\ I \in Seq(PartType) /\ B \in Seq(PartType)
        /\ R \in Seq(ReplyType) /\ Len(I) \in Nat /\ Len(C) \in Nat /\ Len(B) \in Nat
        /\ Len(S) \in Nat /\ End(S) \in Int
    BY EndInt DEF Streams
  <1>1. Len(I) >= 1
    BY <1>0, EmptySeq
  <1> DEFINE E == End(S)
             L == Len(I)
  <1>e. E \in Int /\ L \in Nat /\ (L = 1 \/ L >= 2)
    <2>1. E \in Int /\ L \in Nat /\ L >= 1
      BY <1>0, <1>1
    <2> HIDE DEF E, L
    <2> QED
      BY <2>1
  <1>2. Len(<<>>) = 0
    OBVIOUS
  <1>4. Unread(S, <<>>) /\ LastBegun(S)
    BY <1>2 DEF Unread, Stream
  <1>5. \A i \in 1 .. Len(C) : FromStream(S, C[i]) /\ Pos(C[i]) <= E
    <2> SUFFICES ASSUME NEW i \in 1 .. Len(C) PROVE FromStream(S, C[i]) /\ Pos(C[i]) <= E
      OBVIOUS
    <2>1. CASE i \in 1 .. L
      <3>1. C[i] = I[i] /\ FromStream(S, I[i]) /\ Pos(I[i]) = E - L + i
        BY <2>1 DEF Stream, Unread
      <3>2. E - L + i <= E
        BY <1>0, <2>1
      <3> QED
        BY <3>1, <3>2
    <2>2. CASE i \in L + 1 .. Len(C)
      <3>1. i \in 1 .. Len(B) /\ C[i] = B[i]
        BY <2>2
      <3>2. FromStream(S, B[i]) /\ Pos(B[i]) <= E - L
        BY <3>1 DEF Stream, Held
      <3>3. Pos(B[i]) \in Int
        <4>1. B[i] \in PartType
          BY <1>0, <3>1
        <4> QED
          BY <4>1, PosInt
      <3>4. Pos(B[i]) <= E
        BY <1>0, <3>2, <3>3
      <3> QED
        BY <3>1, <3>2, <3>4
    <2> QED
      BY <1>0, <2>1, <2>2
  <1>6. Held(S, <<>>, C)
    BY <1>0, <1>2, <1>5 DEF Held
  <1>7. \A j \in 1 .. Len(R) : /\ R[j] \in ReplyType /\ R[j].to \in Int /\ R[j].seq \in Int
                               /\ R[j].seq <= R[j].to /\ 2 * R[j].to + 1 <= E - L
    <2> SUFFICES ASSUME NEW j \in 1 .. Len(R)
                 PROVE  /\ R[j] \in ReplyType /\ R[j].to \in Int /\ R[j].seq \in Int
                        /\ R[j].seq <= R[j].to /\ 2 * R[j].to + 1 <= E - L
      OBVIOUS
    <2>1. R[j] \in ReplyType
      BY <1>0
    <2>2. R[j].to \in Int /\ R[j].seq \in Int
      BY <2>1, ServerAssumption DEF ReplyType
    <2>3. R[j].seq <= R[j].to
      BY DEF Stream, Answered, Fits
    <2>4. 2 * R[j].to + 1 <= E - L
      BY DEF Stream, Behind
    <2> QED
      BY <2>1, <2>2, <2>3, <2>4
  <1>8. /\ C[1] = I[1] /\ I[1] \in PartType /\ FromStream(S, I[1])
        /\ 2 * I[1].seq + I[1].part = E - L + 1
    <2>1. 1 \in 1 .. L
      BY <1>0, <1>1
    <2>2. C[1] = I[1] /\ I[1] \in PartType
      BY <1>0, <2>1
    <2>3. FromStream(S, I[1]) /\ Pos(I[1]) = E - L + 1
      BY <2>1 DEF Stream, Unread
    <2> QED
      BY PosInt, <2>2, <2>3
  \* What is behind the first part: its own rest, or an older part.
  <1>9. ASSUME L >= 2
        PROVE  /\ C[2] = I[2] /\ I[2] \in PartType /\ FromStream(S, I[2])
               /\ 2 * I[2].seq + I[2].part = E - L + 2
    <2>1. 2 \in 1 .. L
      BY <1>0, <1>9
    <2>2. C[2] = I[2] /\ I[2] \in PartType
      BY <1>0, <2>1
    <2>3. FromStream(S, I[2]) /\ Pos(I[2]) = E - L + 2
      BY <2>1 DEF Stream, Unread
    <2> QED
      BY PosInt, <2>2, <2>3
  <1>10. ASSUME L = 1, Len(C) >= 2
         PROVE  /\ C[2] = B[2] /\ B[2] \in PartType /\ FromStream(S, B[2]) /\ Len(B) >= 2
                /\ 2 * B[2].seq + B[2].part <= E - L
    <2>1. 2 \in L + 1 .. Len(C)
      BY <1>0, <1>10
    <2>2. 2 \in 1 .. Len(B) /\ C[2] = B[2]
      BY <2>1
    <2>3. B[2] \in PartType /\ FromStream(S, B[2]) /\ Pos(B[2]) <= E - L
      BY <1>0, <2>2 DEF Stream, Held
    <2>4. Pos(B[2]) = 2 * B[2].seq + B[2].part
      BY <2>3, PosInt
    <2>5. Len(B) >= 2
      BY <1>0, <2>2
    <2> QED
      BY <2>2, <2>3, <2>4, <2>5
  <1>11. ASSUME Len(C) >= 2, C[2].part = 2, NEW j \in 1 .. Len(R)
         PROVE  R[j].seq <= C[2].seq
    <2>1. CASE L >= 2
      <3>1. I[2].part = 2 /\ I[2].seq \in Int
        BY PosInt, <1>9, <1>11, <2>1
      <3>2. R[j].to <= I[2].seq
        <4>1. 2 * R[j].to + 1 <= E - L /\ R[j].to \in Int
          BY <1>7
        <4>2. 2 * I[2].seq + 2 = E - L + 2
          BY <1>9, <2>1, <3>1
        <4> HIDE DEF E, L
        <4> QED
          BY <1>e, <3>1, <4>1, <4>2
      <3>3. R[j].seq \in Int /\ R[j].to \in Int /\ R[j].seq <= R[j].to
        BY <1>7
      <3>4. R[j].seq <= I[2].seq
        BY <3>1, <3>2, <3>3
      <3> QED
        BY <1>9, <2>1, <3>4
    <2>2. CASE L = 1
      <3>1. Len(B) >= 2 /\ C[2] = B[2] /\ B[2].part = 2
        BY <1>10, <1>11, <2>2
      <3> QED
        BY <3>1 DEF Stream, Behind
    <2> QED
      BY <1>e, <2>1, <2>2
  <1>12. Behind(S, <<>>, C, R)
    <2> SUFFICES ASSUME NEW j \in 1 .. Len(R)
                 PROVE  /\ 2 * R[j].to + 1 <= E - Len(<<>>)
                        /\ Len(C) >= 2 /\ C[2].part = 2 => R[j].seq <= C[2].seq
      BY DEF Behind
    <2>1. 2 * R[j].to + 1 <= E - 0
      BY <1>0, <1>7
    <2> QED
      BY <1>2, <1>11, <2>1
  <1>13. Stream(S, <<>>, C, R)
    BY <1>4, <1>6, <1>12 DEF Stream
  <1>14. ASSUME IsRequest(C)
         PROVE  Stream(S, <<>>, C, Append(R, [to |-> C[1].seq, seq |-> C[2].seq]))
    <2> DEFINE r == [to |-> C[1].seq, seq |-> C[2].seq]
               Q == Append(R, r)
    <2>1. Len(C) >= 2 /\ C[1].part = 1 /\ C[2].part = 2 /\ C[1].kind = "request"
      BY <1>14 DEF IsRequest, Parses
    <2>2. C[1] \in PartType /\ C[2] \in PartType /\ FromStream(S, C[1]) /\ FromStream(S, C[2])
      BY <1>0, <1>5, <2>1
    <2>3. /\ r \in ReplyType /\ r.to = C[1].seq /\ r.seq = C[2].seq
          /\ C[1].seq \in Int /\ C[2].seq \in Int
      BY PosInt, <2>2 DEF PartType, ReplyType
    <2> HIDE DEF r
    <2>4. 2 * C[1].seq = E - L
      <3> DEFINE z == E - L
      <3>1. 2 * C[1].seq + 1 = z + 1 /\ z \in Int
        BY <1>e, <1>8, <2>1
      <3> HIDE DEF z
      <3>2. 2 * C[1].seq = z
        BY <2>3, <3>1, PlaceOf
      <3> QED
        BY <3>2 DEF z
    <2>5. C[2].seq <= C[1].seq /\ (C[2].seq # C[1].seq => L = 1)
      <3>1. CASE L >= 2
        <4>1. 2 * C[2].seq = E - L
          <5> DEFINE z == E - L
          <5>1. 2 * C[2].seq + 2 = z + 2 /\ z \in Int
            BY <1>e, <1>9, <2>1, <3>1
          <5> HIDE DEF z
          <5>2. 2 * C[2].seq = z
            BY <2>3, <5>1, PlaceOf
          <5> QED
            BY <5>2 DEF z
        <4> HIDE DEF E, L
        <4> QED
          BY <2>3, <2>4, <4>1
      <3>2. CASE L = 1
        <4>1. 2 * C[2].seq + 2 <= E - L
          BY <1>10, <2>1, <3>2
        <4>2. C[2].seq < C[1].seq
          <5> HIDE DEF E, L
          <5> QED
            BY <1>e, <2>3, <2>4, <4>1, Places
        <4> QED
          BY <2>3, <3>2, <4>2
      <3> QED
        BY <1>e, <3>1, <3>2
    <2>6. L = 1 => S[C[1].seq].come = "begun"
      <3> SUFFICES ASSUME L = 1 PROVE S[C[1].seq].come = "begun"
        OBVIOUS
      <3>1. E = 2 * C[1].seq + 1
        <4> HIDE DEF E, L
        <4> QED
          BY <1>e, <2>3, <2>4, Places
      <3>2. Len(S) > 0 /\ S[Len(S)].come = "begun" /\ E = 2 * Len(S) + 1
        <4>1. CASE Len(S) > 0 /\ S[Len(S)].come = "begun"
          BY <4>1 DEF End
        <4>2. CASE ~(Len(S) > 0 /\ S[Len(S)].come = "begun")
          <5>1. E = 2 * Len(S) + 2
            BY <4>2 DEF End
          <5> HIDE DEF E
          <5> QED
            BY <1>0, <2>3, <3>1, <5>1
        <4> QED
          BY <4>1, <4>2
      <3>3. C[1].seq = Len(S)
        <4> HIDE DEF E
        <4> QED
          BY <1>0, <2>3, <3>1, <3>2
      <3> QED
        BY <3>2, <3>3
    <2>7. Fits(S, r)
      <3>1. C[1].seq \in 1 .. Len(S) /\ S[C[1].seq].kind = "request"
        BY <2>1, <2>2 DEF FromStream
      <3>2. C[2].seq \in 1 .. Len(S) /\ S[C[2].seq].come # "begun"
        BY <2>1, <2>2 DEF FromStream
      <3>3. C[2].seq # C[1].seq => S[C[1].seq].come # "whole"
        BY <2>5, <2>6
      <3> QED
        BY <2>3, <2>5, <3>1, <3>2, <3>3 DEF Fits
    <2>8. \A j \in 1 .. Len(R) : R[j].to < r.to /\ R[j].seq <= r.seq
      <3> SUFFICES ASSUME NEW j \in 1 .. Len(R) PROVE R[j].to < C[1].seq /\ R[j].seq <= C[2].seq
        BY <2>3
      <3>1. R[j].to < C[1].seq
        <4>1. 2 * R[j].to + 1 <= E - L /\ R[j].to \in Int
          BY <1>7
        <4> HIDE DEF E, L
        <4> QED
          BY <1>e, <2>3, <2>4, <4>1
      <3> QED
        BY <1>11, <2>1, <3>1
    <2>9. /\ Len(Q) = Len(R) + 1 /\ Q[Len(R) + 1] = r /\ Len(R) \in Nat
          /\ \A i \in 1 .. Len(R) : Q[i] = R[i]
      BY <1>0, <2>3
    <2> HIDE DEF Q
    <2>10. Answered(S, Q)
      <3> SUFFICES ASSUME NEW i \in 1 .. Len(Q)
                   PROVE  /\ Fits(S, Q[i])
                          /\ \A j \in 1 .. i - 1 : Q[j].to < Q[i].to /\ Q[j].seq <= Q[i].seq
        BY DEF Answered
      <3>1. CASE i \in 1 .. Len(R)
        <4>1. \A j \in 1 .. i - 1 : j \in 1 .. Len(R)
          BY <2>9, <3>1
        <4>2. /\ Fits(S, R[i])
              /\ \A j \in 1 .. i - 1 : R[j].to < R[i].to /\ R[j].seq <= R[i].seq
          BY <3>1 DEF Stream, Answered
        <4> QED
          BY <2>9, <3>1, <4>1, <4>2
      <3>2. CASE i = Len(R) + 1
        <4>1. \A j \in 1 .. i - 1 : j \in 1 .. Len(R)
          BY <2>9, <3>2
        <4> QED
          BY <2>7, <2>8, <2>9, <3>2, <4>1
      <3> QED
        BY <2>9, <3>1, <3>2
    <2>11. Behind(S, <<>>, C, Q)
      <3> SUFFICES ASSUME NEW j \in 1 .. Len(Q)
                   PROVE  /\ 2 * Q[j].to + 1 <= End(S) - Len(<<>>)
                          /\ Len(C) >= 2 /\ C[2].part = 2 => Q[j].seq <= C[2].seq
        BY DEF Behind
      <3>1. CASE j \in 1 .. Len(R)
        BY <1>12, <2>9, <3>1 DEF Behind
      <3>2. CASE j = Len(R) + 1
        <4>1. Q[j] = r
          BY <2>9, <3>2
        <4>2. 2 * C[1].seq + 1 <= E - 0
          BY <1>0, <1>1, <2>3, <2>4
        <4> QED
          BY <1>2, <2>3, <4>1, <4>2
      <3> QED
        BY <2>9, <3>1, <3>2
    <2>12. Stream(S, <<>>, C, Q)
      BY <1>4, <1>6, <2>10, <2>11 DEF Stream
    <2> QED
      BY <2>12 DEF Q, r
  <1> QED
    BY <1>13, <1>14


\* What is known of a client, whether or not the step is about it.
Typed(c) == Streams(sent[c], inbox[c], csClientData[c], replies[c])

LEMMA TypedClients ==
    ASSUME TypeInv
    PROVE  \A c \in Clients : Typed(c) /\ Len(sent[c]) <= MaxMsgs
  BY DEF TypeInv, NetTypes, Typed, Streams

LEMMA SendReplies ==
    ASSUME TypeInv, ReplyInv, NEW c \in Clients, Send(c)
    PROVE  ReplyInv'
  <1> DEFINE S == sent[c]
             I == inbox[c]
             B == csClientData[c]
             A == replies[c]
  <1>0. /\ Streams(S, I, B, A) /\ Stream(S, I, B, A) /\ Len(S) <= MaxMsgs
        /\ DOMAIN S = 1 .. Len(S) /\ Len(S) \in Nat
    <2>1. Streams(S, I, B, A) /\ Len(S) <= MaxMsgs
      BY TypedClients DEF Typed
    <2> QED
      BY <2>1 DEF ReplyInv, Streams
  <1>1. UNCHANGED <<csClientData, replies>>
    BY DEF Send, threadVars
  <1>2. ASSUME NEW T, NEW J, sent' = [sent EXCEPT ![c] = T], inbox' = [inbox EXCEPT ![c] = J],
               Stream(T, J, B, A)
        PROVE  ReplyInv'
    <2>1. sent'[c] = T /\ inbox'[c] = J
      BY <1>2 DEF TypeInv, NetTypes
    <2>2. \A d \in Clients : d # c => sent'[d] = sent[d] /\ inbox'[d] = inbox[d]
      BY <1>2 DEF TypeInv, NetTypes
    <2>3. ASSUME NEW d \in Clients
          PROVE  Stream(sent'[d], inbox'[d], csClientData'[d], replies'[d])
      <3>1. CASE d = c
        BY <1>1, <1>2, <2>1, <3>1
      <3>2. CASE d # c
        BY <1>1, <2>2, <3>2 DEF ReplyInv
      <3> QED
        BY <3>1, <3>2
    <2> QED
      BY <2>3 DEF ReplyInv
  <1>3. ASSUME Len(S) < MaxMsgs, ~ \E k \in DOMAIN S : S[k].come = "begun",
               NEW kind \in {"request", "error"}, NEW come \in {"whole", Split},
               sent' = [sent EXCEPT ![c] = Append(@, [kind |-> kind, come |-> come])],
               inbox' = [inbox EXCEPT ![c] =
                           @ \o IF come = "whole"
                                THEN Append(<<Part(Len(S) + 1, kind, 1)>>,
                                            Part(Len(S) + 1, kind, 2))
                                ELSE <<Part(Len(S) + 1, kind, 1)>>]
        PROVE  ReplyInv'
    <2> DEFINE n == Len(S) + 1
               T == Append(S, [kind |-> kind, come |-> come])
               J == I \o IF come = "whole" THEN Append(<<Part(n, kind, 1)>>, Part(n, kind, 2))
                         ELSE <<Part(n, kind, 1)>>
    <2>1. come \in {"whole", "begun"}
      BY <1>3 DEF Split
    <2>2. n <= MaxMsgs /\ \A k \in 1 .. Len(S) : S[k].come # "begun"
      BY <1>0, <1>3, ServerAssumption
    <2>3. sent' = [sent EXCEPT ![c] = T] /\ inbox' = [inbox EXCEPT ![c] = J]
      BY <1>3
    <2>4. Stream(T, J, B, A)
      <3> HIDE DEF S, I, B, A
      <3> QED
        BY <1>0, <1>3, <2>1, <2>2, MessageComes
    <2> HIDE DEF T, J
    <2> QED
      BY <1>2, <2>3, <2>4
  <1>4. ASSUME NEW n \in DOMAIN S, S[n].come = "begun",
               sent' = [sent EXCEPT ![c][n].come = "ended"],
               inbox' = [inbox EXCEPT ![c] = Append(@, Part(n, S[n].kind, 2))]
        PROVE  ReplyInv'
    <2> DEFINE T == [S EXCEPT ![n].come = "ended"]
               J == Append(I, Part(n, S[n].kind, 2))
    <2>1. sent' = [sent EXCEPT ![c] = T] /\ inbox' = [inbox EXCEPT ![c] = J]
      BY <1>4
    <2>2. n \in 1 .. Len(S)
      BY <1>0, <1>4
    <2>3. Stream(T, J, B, A)
      <3> HIDE DEF S, I, B, A
      <3> QED
        BY <1>0, <1>4, <2>2, RestComes
    <2> HIDE DEF T, J
    <2> QED
      BY <1>2, <2>1, <2>3
  <1> QED
    BY <1>3, <1>4 DEF Send

LEMMA RecvReplies ==
    ASSUME TypeInv, ReplyInv, NEW c \in Clients, Recv(c)
    PROVE  ReplyInv'
  <1> DEFINE S == sent[c]
             I == inbox[c]
             B == csClientData[c]
             A == replies[c]
             C == csClientData'[c]
             r == [to |-> C[1].seq, seq |-> C[2].seq]
  <1>0. Streams(S, I, B, A) /\ Stream(S, I, B, A)
    BY TypedClients DEF ReplyInv, Typed
  <1>1. /\ C \in Seq(PartType) /\ I # <<>> /\ Len(I) <= Len(C)
        /\ \A i \in 1 .. Len(I) : C[i] = I[i]
        /\ \A i \in Len(I) + 1 .. Len(C) : i \in 1 .. Len(B) /\ C[i] = B[i]
    BY RecvTypes DEF Recv
  <1>2. replies' = IF IsRequest(C) /\ ~rst[c]
                   THEN [replies EXCEPT ![c] = Append(@, r)] ELSE replies
    BY DEF Recv, SocketServerHandleRecvMessage
  <1>3. sent' = sent /\ inbox' = [inbox EXCEPT ![c] = <<>>]
    BY DEF Recv
  <1>4. \A d \in Clients : d # c => csClientData'[d] = csClientData[d]
    BY DEF Recv, TypeInv, NetTypes
  <1>5. /\ Stream(S, <<>>, C, A)
        /\ IsRequest(C) => Stream(S, <<>>, C, Append(A, r))
    <2> HIDE DEF S, I, B, A, C
    <2> QED
      BY <1>0, <1>1, StreamRead
  <1> HIDE DEF C, r
  <1>6. inbox'[c] = <<>> /\ \A d \in Clients : d # c => inbox'[d] = inbox[d]
    BY <1>3 DEF TypeInv, NetTypes
  <1>7. /\ replies'[c] = A \/ (IsRequest(C) /\ replies'[c] = Append(A, r))
        /\ \A d \in Clients : d # c => replies'[d] = replies[d]
    BY <1>2 DEF TypeInv, NetTypes
  <1>8. ASSUME NEW d \in Clients
        PROVE  Stream(sent'[d], inbox'[d], csClientData'[d], replies'[d])
    <2>1. CASE d = c
      BY <1>3, <1>5, <1>6, <1>7, <2>1 DEF C
    <2>2. CASE d # c
      BY <1>3, <1>4, <1>6, <1>7, <2>2 DEF ReplyInv
    <2> QED
      BY <2>1, <2>2
  <1> QED
    BY <1>8 DEF ReplyInv

LEMMA ReplyStep ==
    ASSUME TypeInv, ReplyInv, [Next]_vars
    PROVE  ReplyInv'
  <1>1. ASSUME UNCHANGED <<sent, inbox, csClientData, replies>> PROVE ReplyInv'
    BY <1>1 DEF ReplyInv
  <1>2. ASSUME NEW c \in Clients, Connect(c) \/ Shutdown(c) \/ Reset(c) PROVE ReplyInv'
    BY <1>1, <1>2 DEF Connect, Shutdown, Reset, threadVars
  <1>3. CASE SocketServerInit \/ Finish \/ UNCHANGED vars
    BY <1>1, <1>3 DEF SocketServerInit, Finish, SetStopped, Kill, Join, vars, threadVars, netVars
  <1>4. CASE SetRunning \/ Arm \/ Check \/ Enter \/ Wakeup \/ Done
    BY <1>1, <1>4 DEF SetRunning, Arm, Check, Enter, Wakeup, Done, netVars
  <1>5. CASE SkipError \/ AcceptFails
    BY <1>1, <1>5 DEF SkipError, AcceptFails, netVars
  <1>6. ASSUME NEW c \in Clients, Accept(c) \/ RecvFails(c) \/ Disconnect(c) PROVE ReplyInv'
    BY <1>1, <1>6 DEF Accept, RecvFails, Disconnect, netVars
  <1> QED
    BY <1>2, <1>3, <1>4, <1>5, <1>6, SendReplies, RecvReplies
       DEF Next, Network, SocketServerHandleThread, HandleEvent

(***************************************************************************)
(* However TCP cuts and joins the messages, each is answered at most once, *)
(* in order, and never one that reports an error.  The number in an answer *)
(* never goes back, and it is that of an older message only when the       *)
(* answered message came in parts and what recv had left in the buffer was *)
(* parsed with its first part.                                             *)
(***************************************************************************)
THEOREM AnsweredInOrder == Spec => []RepliesInOrder
  <1>1. TypeInv /\ ReplyInv /\ [Next]_vars => ReplyInv'
    BY ReplyStep
  <1>2. TypeInv /\ ReplyInv => RepliesInOrder
    <2> SUFFICES ASSUME TypeInv, ReplyInv, NEW c \in Clients PROVE
                   \A i \in DOMAIN replies[c] :
                     LET r == replies[c][i]
                     IN  /\ sent[c][r.to].kind = "request"
                         /\ r.seq <= r.to /\ sent[c][r.seq].come # "begun"
                         /\ r.seq # r.to => sent[c][r.to].come # "whole"
                         /\ \A j \in 1 .. i - 1 : /\ replies[c][j].to < r.to
                                                  /\ replies[c][j].seq <= r.seq
      BY DEF RepliesInOrder
    <2>1. DOMAIN replies[c] = 1 .. Len(replies[c])
      BY DEF TypeInv, NetTypes
    <2>2. Answered(sent[c], replies[c])
      BY DEF ReplyInv, Stream
    <2> QED
      BY <2>1, <2>2 DEF Answered, Fits
  <1> QED
    BY <1>1, <1>2, TypeInit, TypeStep, ReplyInit, PTL DEF Spec


=============================================================================
