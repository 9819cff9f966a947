------------------------------ MODULE TcpServer ------------------------------
(* TcpServerThread of the EasyConnect sender (multi_cilent.c): a select server
   that takes the calls of the devices, and what shares the file descriptors of
   the process with it: MultiCast, which opens two sockets for every frame it
   sends, on the main thread.

   The code of TcpServerThread between two system calls touches nothing that is
   shared, so one action is one system call and what follows it.

   A behaviour begins when the thread enters its loop.  MultiCast is between two
   frames then and the descriptors below listenfd stay open; in the program it may
   be in the middle of one, and give back a descriptor below listenfd later. *)
EXTENDS Integers, FiniteSets

CONSTANTS FD_SETSIZE,   \* 1024
          NoFile,       \* descriptors the process may have: RLIMIT_NOFILE
          ListenFd,     \* listenfd; the ones below it are open already
          BACKLOG       \* callers the kernel queues

(* The default limit is 1024 as well.  With a higher one FD_SET writes behind its
   set before the table of callers is full. *)
ASSUME TcpAssumption ==
    /\ FD_SETSIZE \in Nat /\ NoFile \in Nat /\ ListenFd \in Nat /\ BACKLOG \in Nat
    /\ ListenFd < NoFile /\ NoFile <= FD_SETSIZE

VARIABLES client,        \* the table: descriptor or -1 in each slot
          allset, rset,  \* descriptors watched, and the ready ones of this round
          maxfd, maxi, nready,
          slot,          \* i of the loop over the table
          tpc,           \* the system call that is next: "select", "accept", "recv"
          sock,          \* what each descriptor is, see SockState
          waiting,       \* callers in the kernel's queue
          spc            \* where MultiCast is

threadVars == <<client, allset, rset, maxfd, maxi, nready, slot, tpc>>
tcpVars == <<client, allset, rset, maxfd, maxi, nready, slot, tpc, sock, waiting, spc>>

Slots == 0 .. FD_SETSIZE - 1
Fds == ListenFd + 1 .. NoFile - 1

(* A caller's socket is "open" with nothing to read, has "data", was "reset" by
   the caller or has reached "eof"; "udp" and "ioctl" are the sockets of
   MultiCast and of GetIfIp, "leaked" one nobody closes any more. *)
Readable == {"data", "reset", "eof"}
CallerState == Readable \cup {"open"}
SockState == CallerState \cup {"free", "udp", "ioctl", "leaked"}

TcpInit ==
    /\ client = [s \in Slots |-> -1]
    /\ allset = {ListenFd} /\ rset = {}
    /\ maxfd = ListenFd /\ maxi = -1 /\ nready = 0
    /\ slot = 0 /\ tpc = "select"
    /\ sock = [fd \in Fds |-> "free"]
    /\ waiting = 0 /\ spc = "idle"

Free == {fd \in Fds : sock[fd] = "free"}
LowestFree == CHOOSE fd \in Free : \A other \in Free : fd <= other
Callers == {fd \in Fds : sock[fd] \in CallerState}
Tabled == {client[s] : s \in Slots} \ {-1}
Larger(m, n) == IF n > m THEN n ELSE m

-----------------------------------------------------------------------------
(* The callers. *)

Dial == waiting < BACKLOG /\ waiting' = waiting + 1 /\ UNCHANGED <<threadVars, sock, spc>>

Become(fd, from, to) ==
    /\ sock[fd] \in from
    /\ sock' = [sock EXCEPT ![fd] = to]
    /\ UNCHANGED <<threadVars, waiting, spc>>
Caller ==
    \/ Dial
    \/ \E fd \in Fds : \/ Become(fd, {"open"}, "data")
                       \/ Become(fd, {"open"}, "eof")
                       \/ Become(fd, {"open", "data"}, "reset")

-----------------------------------------------------------------------------
(* MultiCast, on the main thread.  When GetIfIp finds no descriptor, local_ip is
   whatever the stack holds: the address of the last call, or none, and then
   MultiCast returns with its socket open, as it does when bind fails. *)

Became(kind, to) == [fd \in Fds |-> IF sock[fd] = kind THEN to ELSE sock[fd]]

OpenUdp ==
    /\ spc = "idle" /\ Free # {}
    /\ sock' = [sock EXCEPT ![LowestFree] = "udp"]
    /\ spc' = "udp"
    /\ UNCHANGED <<threadVars, waiting>>
GetIfIp ==
    /\ spc = "udp"
    /\ \/ /\ Free # {}
          /\ sock' = [sock EXCEPT ![LowestFree] = "ioctl"]
          /\ spc' = "ioctl"
       \/ /\ Free = {}
          /\ spc' = "bind" /\ UNCHANGED sock
    /\ UNCHANGED <<threadVars, waiting>>
CloseIoctl ==
    /\ spc = "ioctl"
    /\ sock' = Became("ioctl", "free") /\ spc' = "bind"
    /\ UNCHANGED <<threadVars, waiting>>
(* If sendto itself fails the process exits, which is left out. *)
SendTo ==
    /\ spc = "bind"
    /\ \/ sock' = Became("udp", "free")
       \/ sock' = Became("udp", "leaked")
    /\ spc' = "idle"
    /\ UNCHANGED <<threadVars, waiting>>
MultiCast == OpenUdp \/ GetIfIp \/ CloseIoctl \/ SendTo

-----------------------------------------------------------------------------
(* TcpServerThread. *)

Ready(fd) == IF fd = ListenFd THEN waiting > 0 ELSE sock[fd] \in Readable

(* The loop over the table passes over the slots that are not ready.  It goes on
   as long as there is another one and --nready leaves something to do; then
   select is next and what was ready is forgotten. *)
ReadySlots == {s \in Slots : slot <= s /\ s <= maxi /\ client[s] \in rset}
NextReady == CHOOSE s \in ReadySlots : \A other \in ReadySlots : s <= other
GoOn(ready, n, from) ==
    IF n > 0 /\ \E s \in Slots : from <= s /\ s <= maxi' /\ client'[s] \in ready
    THEN tpc' = "recv" /\ rset' = ready /\ nready' = n /\ slot' = from
    ELSE tpc' = "select" /\ rset' = {} /\ nready' = 0 /\ slot' = 0

\* Mutant: the set that was passed is used instead of the one that came back.
AllWatched == allset
ReadySet == {fd \in allset : fd <= maxfd /\ Ready(fd)}

Select ==
    /\ tpc = "select" /\ ReadySet # {}
    /\ UNCHANGED <<client, allset, maxfd, maxi, sock, waiting, spc>>
    /\ IF ListenFd \in ReadySet
       THEN tpc' = "accept" /\ rset' = ReadySet /\ nready' = Cardinality(ReadySet) /\ slot' = 0
       ELSE GoOn(ReadySet, Cardinality(ReadySet), 0)

(* accept fails when there is no descriptor left; the caller stays queued. *)
AcceptFails ==
    /\ tpc = "accept" /\ Free = {}
    /\ tpc' = "select" /\ rset' = {} /\ nready' = 0 /\ slot' = 0
    /\ UNCHANGED <<client, allset, maxfd, maxi, sock, waiting, spc>>

(* The first free slot, or FD_SETSIZE. *)
FreeSlots == {s \in Slots : client[s] < 0}
\* Mutant: the slot behind the last one used.
SlotBehind == maxi + 1
FreeSlot == IF FreeSlots = {} THEN FD_SETSIZE
            ELSE CHOOSE s \in FreeSlots : \A other \in FreeSlots : s <= other

\* Mutant: maxfd is not raised.
SameMaxFd(fd) == maxfd
NewMaxFd(fd) == Larger(maxfd, fd)

\* Mutant: the caller that was accepted is not counted off.
NotCounted == nready
Counted == nready - 1

Accept ==
    /\ tpc = "accept" /\ waiting > 0 /\ Free # {}
    /\ waiting' = waiting - 1
    /\ sock' = [sock EXCEPT ![LowestFree] = "open"]
    /\ client' = [s \in Slots |-> IF s = FreeSlot THEN LowestFree ELSE client[s]]
    /\ allset' = allset \cup {LowestFree}
    /\ maxfd' = NewMaxFd(LowestFree)
    /\ maxi' = Larger(maxi, FreeSlot)
    /\ GoOn(rset, Counted, 0)
    /\ UNCHANGED spc

\* Mutant: a slot whose caller is gone keeps its descriptor.
StillTabled(s) == client
Untabled(s) == [client EXCEPT ![s] = -1]

(* recv on the descriptor of slot s: data, all or the first MAXDATASIZE bytes;
   an error, which the next recv no longer sees; or the end. *)
Received(s) ==
    LET fd == client[s]
    IN  \/ /\ sock[fd] = "data"
           /\ \/ sock' = [sock EXCEPT ![fd] = "open"]
              \/ UNCHANGED sock
           /\ UNCHANGED <<client, allset>>
        \/ /\ sock[fd] = "reset"
           /\ sock' = [sock EXCEPT ![fd] = "eof"]
           /\ UNCHANGED <<client, allset>>
        \/ /\ sock[fd] = "eof"
           /\ sock' = [sock EXCEPT ![fd] = "free"]
           /\ allset' = allset \ {fd}
           /\ client' = Untabled(s)
Recv ==
    /\ tpc = "recv" /\ ReadySlots # {}
    /\ Received(NextReady)
    /\ UNCHANGED <<maxfd, maxi, waiting, spc>>
    /\ GoOn(rset, nready - 1, NextReady + 1)

TcpServerThread == Select \/ Accept \/ AcceptFails \/ Recv
TcpNext == Caller \/ MultiCast \/ TcpServerThread
TcpSpec == TcpInit /\ [][TcpNext]_tcpVars
TcpFairness == WF_tcpVars(TcpServerThread)

-----------------------------------------------------------------------------
(* Properties. *)

(* The variables have their types.  In particular maxi stays inside the table:
   with at most FD_SETSIZE descriptors in the process the search for a free slot
   always finds one, and "Too many clients" is never printed. *)
TcpTypeOK ==
    /\ client \in [Slots -> Fds \cup {-1}]
    /\ allset \subseteq Fds \cup {ListenFd} /\ rset \subseteq Fds \cup {ListenFd}
    /\ maxfd \in ListenFd .. NoFile - 1
    /\ maxi \in -1 .. FD_SETSIZE - 1
    /\ nready \in Nat /\ slot \in Nat
    /\ tpc \in {"select", "accept", "recv"}
    /\ sock \in [Fds -> SockState]
    /\ waiting \in 0 .. BACKLOG
    /\ spc \in {"idle", "udp", "ioctl", "bind"}

(* The table, the watched set and the sockets of the callers are the same
   descriptors, each in one slot that maxi covers.  So no caller is
   forgotten, and none of MultiCast's sockets is read from. *)
CallersKept ==
    /\ allset = Callers \cup {ListenFd}
    /\ Tabled = Callers
    /\ \A r, s \in Slots : client[r] = client[s] /\ client[r] # -1 => r = s
    /\ \A s \in Slots : client[s] # -1 => s <= maxi

(* accept and recv are called on blocking sockets, with what select reported
   before other sockets were accepted, read and closed.  They never block: a
   caller is waiting, and every slot still to be served can be read. *)
NeverBlocks ==
    /\ tpc = "accept" => waiting > 0
    /\ tpc = "recv" => \A s \in ReadySlots : sock[client[s]] \in Readable

(* --nready ends the loop over the table early.  It does so exactly when the last
   ready caller was served. *)
ReadyCounted == tpc = "recv" => nready = Cardinality(ReadySlots)

(* A caller that hangs up is noticed and its descriptor closed, unless a caller
   waits for a descriptor when there is none: then accept fails, the loop over
   the table is skipped, and only MultiCast may give a descriptor back. *)
Exhausted == waiting > 0 /\ Free = {}
HangUpNoticed ==
    \A fd \in Fds : sock[fd] \in {"eof", "reset"} ~> sock[fd] = "free" \/ Exhausted

=============================================================================
