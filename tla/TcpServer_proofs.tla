-------------------------- MODULE TcpServer_proofs --------------------------
(***************************************************************************)
(* Proofs about the select server of the sender, for every size of the     *)
(* table, every limit of descriptors up to it and every queue of callers.  *)
(***************************************************************************)
EXTENDS TcpServer, SeqFilter_proofs, FiniteSetTheorems

(* What a round of the loop relies on between its system calls.  The last two
   conjuncts are NeverBlocks, for the whole set that select reported instead of
   the slots still to be served as long as accept is next, and ReadyCounted. *)
RoundInv ==
    /\ tpc = "select" => rset = {}
    /\ tpc = "accept" => /\ waiting > 0
                         /\ ListenFd \in rset /\ nready = Cardinality(rset)
                         /\ \A fd \in rset \ {ListenFd} : sock[fd] \in Readable
    /\ NeverBlocks
    /\ ReadyCounted

TcpInv == TcpTypeOK /\ CallersKept /\ RoundInv

-----------------------------------------------------------------------------
(* Numbers and sets *)

\* Slots and descriptors are natural numbers, and -1 is neither.
LEMMA Sizes ==
    /\ FD_SETSIZE \in Nat /\ NoFile \in Nat /\ ListenFd \in Nat /\ BACKLOG \in Nat
    /\ ListenFd < NoFile /\ NoFile <= FD_SETSIZE
    /\ Slots \subseteq Nat /\ Fds \subseteq Nat
    /\ -1 \notin Fds /\ ListenFd \notin Fds /\ -1 # ListenFd
  BY TcpAssumption DEF Slots, Fds

\* There are fewer descriptors for callers than slots.
LEMMA FewerFds ==
    /\ IsFiniteSet(Slots) /\ IsFiniteSet(Fds)
    /\ Cardinality(Fds) < Cardinality(Slots)
  <1>1. /\ IsFiniteSet(Slots)
        /\ Cardinality(Slots) = FD_SETSIZE
    <2>1. FD_SETSIZE - 1 \in Int /\ ~(0 > FD_SETSIZE - 1) /\ FD_SETSIZE - 1 - 0 + 1 = FD_SETSIZE
      BY Sizes
    <2> QED
      BY <2>1, FS_Interval DEF Slots
  <1>2. /\ IsFiniteSet(Fds)
        /\ Cardinality(Fds) = IF ListenFd + 1 > NoFile - 1 THEN 0 ELSE NoFile - 1 - (ListenFd + 1) + 1
    <2>1. ListenFd + 1 \in Int /\ NoFile - 1 \in Int
      BY Sizes
    <2> QED
      BY <2>1, FS_Interval DEF Fds
  <1> QED
    BY <1>1, <1>2, Sizes

\* A descriptor that is given out was free.
LEMMA LowestFreeIsFree ==
    ASSUME Free # {}
    PROVE  LowestFree \in Fds /\ sock[LowestFree] = "free"
  <1>1. Free \in SUBSET Nat
    BY Sizes DEF Free
  <1>2. \E fd \in Free : \A other \in Free : fd <= other
    BY <1>1, LeastExists
  <1>3. LowestFree \in Free
    BY <1>2 DEF LowestFree
  <1> QED
    BY <1>3 DEF Free

\* The next slot that is served is ready, and none before it is.
LEMMA NextReadyIsReady ==
    ASSUME ReadySlots # {}
    PROVE  NextReady \in ReadySlots /\ \A s \in ReadySlots : NextReady <= s
  <1>1. ReadySlots \in SUBSET Nat
    BY Sizes DEF ReadySlots
  <1>2. \E s \in ReadySlots : \A other \in ReadySlots : s <= other
    BY <1>1, LeastExists
  <1> QED
    BY <1>2 DEF NextReady

\* While a descriptor is free, so is a slot: "Too many clients" is not printed.
LEMMA FreeSlotExists ==
    ASSUME TcpTypeOK, CallersKept
    PROVE  FreeSlot \in Slots /\ client[FreeSlot] = -1
  <1>1. FreeSlots # {}
    <2> SUFFICES ASSUME FreeSlots = {} PROVE FALSE
      OBVIOUS
    <2>1. \A s \in Slots : client[s] \in Fds
      BY DEF TcpTypeOK, FreeSlots
    <2>2. client \in [Slots -> Fds]
      BY <2>1 DEF TcpTypeOK
    <2>3. PICK r, s \in Slots : r # s /\ client[r] = client[s]
      BY <2>2, FewerFds, FS_PigeonHole
    <2> QED
      BY <2>1, <2>3, Sizes DEF CallersKept
  <1>2. FreeSlots \in SUBSET Nat
    BY Sizes DEF FreeSlots
  <1>3. \E s \in FreeSlots : \A other \in FreeSlots : s <= other
    BY <1>1, <1>2, LeastExists
  <1>4. FreeSlot \in FreeSlots
    BY <1>1, <1>3 DEF FreeSlot
  <1> QED
    BY <1>4, Sizes DEF FreeSlots, TcpTypeOK, Fds

\* As many slots hold ready callers as there are ready callers.
LEMMA SlotsOf ==
    ASSUME TcpTypeOK, CallersKept, NEW R \in SUBSET Callers
    PROVE  LET held == {s \in Slots : client[s] \in R}
           IN  IsFiniteSet(held) /\ Cardinality(held) = Cardinality(R)
  <1> DEFINE held == {s \in Slots : client[s] \in R}
             table == [s \in held |-> client[s]]
  <1>1. IsFiniteSet(held)
    BY FewerFds, FS_Subset, held \in SUBSET Slots
  <1>2. -1 \notin R
    BY Sizes DEF Callers
  <1>3. table \in [held -> R]
    OBVIOUS
  <1>4. \A r, s \in held : table[r] = table[s] => r = s
    BY <1>2 DEF CallersKept
  <1>5. \A fd \in R : \E s \in held : table[s] = fd
    BY <1>2 DEF CallersKept, Tabled
  <1>6. table \in Bijection(held, R)
    BY <1>3, <1>4, <1>5 DEF Bijection, Injection, Surjection, IsInjective
  <1>7. ExistsBijection(held, R)
    BY <1>6 DEF ExistsBijection
  <1> QED
    BY <1>1, <1>7, FS_Bijection

-----------------------------------------------------------------------------
(* Steps *)

\* Initially the table is empty and nothing is ready.
LEMMA InvInit == TcpInit => TcpInv
  <1> SUFFICES ASSUME TcpInit PROVE TcpInv
    OBVIOUS
  <1> USE Sizes DEF TcpInit
  <1>1. TcpTypeOK
    BY DEF TcpTypeOK, SockState
  <1>2. CallersKept
    BY DEF CallersKept, Callers, Tabled, CallerState, Readable
  <1>3. RoundInv
    BY DEF RoundInv, NeverBlocks, ReadyCounted
  <1> QED
    BY <1>1, <1>2, <1>3 DEF TcpInv

\* Steps of the callers and of MultiCast: the thread's variables stay, a caller's
\* socket stays one, and what can be read can still be read.
LEMMA OthersStep ==
    ASSUME TcpInv, UNCHANGED threadVars,
           sock' \in [Fds -> SockState],
           \A fd \in Fds : sock[fd] \in CallerState <=> sock'[fd] \in CallerState,
           \A fd \in Fds : sock[fd] \in Readable => sock'[fd] \in Readable,
           waiting' \in 0 .. BACKLOG, waiting' >= waiting,
           spc' \in {"idle", "udp", "ioctl", "bind"}
    PROVE  TcpInv'
  <1> USE Sizes DEF TcpInv, threadVars
  <1>1. TcpTypeOK'
    BY DEF TcpTypeOK
  <1>2. Callers' = Callers
    BY DEF Callers
  <1>3. CallersKept'
    BY <1>2 DEF CallersKept, Tabled
  <1>4. ReadySlots' = ReadySlots
    BY DEF ReadySlots
  <1>5. \A s \in ReadySlots : client[s] \in Fds
    BY DEF ReadySlots, TcpTypeOK
  <1>6. RoundInv'
    <2>1. tpc = "accept" => waiting' > 0 /\ \A fd \in rset \ {ListenFd} : sock'[fd] \in Readable
      BY DEF RoundInv, TcpTypeOK
    <2>2. NeverBlocks'
      BY <1>4, <1>5, <2>1 DEF RoundInv, NeverBlocks
    <2>3. ReadyCounted'
      BY <1>4 DEF RoundInv, ReadyCounted
    <2> QED
      BY <2>1, <2>2, <2>3 DEF RoundInv
  <1> QED
    BY <1>1, <1>3, <1>6

LEMMA CallerStep == TcpInv /\ Caller => TcpInv'
  <1> SUFFICES ASSUME TcpInv, Caller PROVE TcpInv'
    OBVIOUS
  <1>1. TcpTypeOK
    BY DEF TcpInv
  <1>2. CASE Dial
    BY <1>1, <1>2, OthersStep, Sizes DEF Dial, TcpTypeOK
  <1>3. ASSUME NEW fd \in Fds, NEW to,
               \/ Become(fd, {"open"}, to) /\ to \in {"data", "eof"}
               \/ Become(fd, {"open", "data"}, to) /\ to = "reset"
        PROVE  TcpInv'
    <2>1. /\ sock' \in [Fds -> SockState]
          /\ \A other \in Fds : sock[other] \in CallerState <=> sock'[other] \in CallerState
          /\ \A other \in Fds : sock[other] \in Readable => sock'[other] \in Readable
      BY <1>1, <1>3 DEF TcpTypeOK, Become, SockState, CallerState, Readable
    <2>2. UNCHANGED threadVars /\ waiting' = waiting /\ spc' = spc
      BY <1>3 DEF Become
    <2> QED
      BY <1>1, <2>1, <2>2, OthersStep, Sizes DEF TcpTypeOK
  <1> QED
    BY <1>2, <1>3 DEF Caller

LEMMA MultiCastStep == TcpInv /\ MultiCast => TcpInv'
  <1> SUFFICES ASSUME TcpInv, MultiCast PROVE TcpInv'
    OBVIOUS
  <1>1. TcpTypeOK
    BY DEF TcpInv
  <1>2. /\ UNCHANGED threadVars /\ waiting' = waiting
        /\ spc' \in {"idle", "udp", "ioctl", "bind"}
    BY DEF MultiCast, OpenUdp, GetIfIp, CloseIoctl, SendTo
  <1>3. \A kind \in {"udp", "ioctl"}, to \in {"free", "leaked"} :
            /\ Became(kind, to) \in [Fds -> SockState]
            /\ \A fd \in Fds : sock[fd] \in CallerState <=> Became(kind, to)[fd] \in CallerState
            /\ \A fd \in Fds : sock[fd] \in Readable => Became(kind, to)[fd] \in Readable
    BY <1>1 DEF TcpTypeOK, Became, SockState, CallerState, Readable
  <1>4. /\ sock' \in [Fds -> SockState]
        /\ \A fd \in Fds : sock[fd] \in CallerState <=> sock'[fd] \in CallerState
        /\ \A fd \in Fds : sock[fd] \in Readable => sock'[fd] \in Readable
    <2>1. CASE OpenUdp
      BY <1>1, <2>1, LowestFreeIsFree DEF OpenUdp, TcpTypeOK, SockState, CallerState, Readable
    <2>2. CASE GetIfIp
      BY <1>1, <2>2, LowestFreeIsFree DEF GetIfIp, TcpTypeOK, SockState, CallerState, Readable
    <2>3. CASE CloseIoctl
      BY <1>3, <2>3 DEF CloseIoctl
    <2>4. CASE SendTo
      BY <1>3, <2>4 DEF SendTo
    <2> QED
      BY <2>1, <2>2, <2>3, <2>4 DEF MultiCast
  <1> QED
    BY <1>1, <1>2, <1>4, OthersStep, Sizes DEF TcpTypeOK

\* The rest of the loop over the table: if n counts the ready slots from here on
\* and they can be read, the round stays in order.
LEMMA GoOnStep ==
    ASSUME NEW ready \in SUBSET (Fds \cup {ListenFd}), NEW from \in Nat, NEW n \in Int,
           GoOn(ready, n, from),
           n = Cardinality({s \in Slots : from <= s /\ s <= maxi' /\ client'[s] \in ready}),
           \A s \in Slots : from <= s /\ s <= maxi' /\ client'[s] \in ready
                             => sock'[client'[s]] \in Readable
    PROVE  /\ RoundInv'
           /\ rset' \subseteq Fds \cup {ListenFd}
           /\ nready' \in Nat /\ slot' \in Nat
           /\ tpc' \in {"select", "accept", "recv"}
  <1>1. CASE n > 0 /\ \E s \in Slots : from <= s /\ s <= maxi' /\ client'[s] \in ready
    <2>1. tpc' = "recv" /\ rset' = ready /\ nready' = n /\ slot' = from
      BY <1>1 DEF GoOn
    <2>2. ReadySlots' = {s \in Slots : from <= s /\ s <= maxi' /\ client'[s] \in ready}
      BY <2>1 DEF ReadySlots
    <2>3. RoundInv'
      BY <2>1, <2>2 DEF RoundInv, NeverBlocks, ReadyCounted
    <2> QED
      BY <1>1, <2>1, <2>3
  <1>2. CASE ~(n > 0 /\ \E s \in Slots : from <= s /\ s <= maxi' /\ client'[s] \in ready)
    <2>1. tpc' = "select" /\ rset' = {} /\ nready' = 0 /\ slot' = 0
      BY <1>2 DEF GoOn
    <2> QED
      BY <2>1 DEF RoundInv, NeverBlocks, ReadyCounted
  <1> QED
    BY <1>1, <1>2

LEMMA SelectStep == TcpInv /\ Select => TcpInv'
  <1> SUFFICES ASSUME TcpInv, Select PROVE TcpInv'
    OBVIOUS
  <1>1. TcpTypeOK /\ CallersKept
    BY DEF TcpInv
  <1>2. UNCHANGED <<client, allset, maxfd, maxi, sock, waiting, spc>>
    BY DEF Select
  <1>3. CallersKept'
    BY <1>1, <1>2 DEF CallersKept, Callers, Tabled
  <1>4. /\ ReadySet \in SUBSET (Fds \cup {ListenFd})
        /\ \A fd \in ReadySet \ {ListenFd} : fd \in Callers /\ sock[fd] \in Readable
        /\ ListenFd \in ReadySet => waiting > 0
    BY <1>1 DEF ReadySet, Ready, CallersKept, Callers
  <1>5. IsFiniteSet(ReadySet) /\ Cardinality(ReadySet) \in Nat
    <2>1. IsFiniteSet(Fds \cup {ListenFd})
      BY FewerFds, FS_AddElement
    <2> QED
      BY <1>4, <2>1, FS_Subset, FS_CardinalityType
  <1>6. /\ RoundInv'
        /\ rset' \subseteq Fds \cup {ListenFd} /\ nready' \in Nat /\ slot' \in Nat
        /\ tpc' \in {"select", "accept", "recv"}
    <2>1. CASE ListenFd \in ReadySet
      <3>1. tpc' = "accept" /\ rset' = ReadySet /\ nready' = Cardinality(ReadySet) /\ slot' = 0
        BY <2>1 DEF Select
      <3>2. RoundInv'
        BY <1>2, <1>4, <2>1, <3>1 DEF RoundInv, NeverBlocks, ReadyCounted
      <3> QED
        BY <1>4, <1>5, <3>1, <3>2
    <2>2. CASE ListenFd \notin ReadySet
      <3>1. GoOn(ReadySet, Cardinality(ReadySet), 0)
        BY <2>2 DEF Select
      <3>2. ReadySet \in SUBSET Callers
        BY <1>4, <2>2
      <3>3. {s \in Slots : 0 <= s /\ s <= maxi' /\ client'[s] \in ReadySet}
              = {s \in Slots : client[s] \in ReadySet}
        <4>1. -1 \notin ReadySet
          BY <3>2, Sizes DEF Callers
        <4>2. \A s \in Slots : client[s] \in ReadySet => s <= maxi
          BY <1>1, <4>1 DEF CallersKept
        <4>3. \A s \in Slots : 0 <= s /\ s <= maxi /\ client[s] \in ReadySet
                              <=> client[s] \in ReadySet
          BY <4>2, Sizes
        <4>4. maxi' = maxi /\ client' = client
          BY <1>2
        <4> QED
          BY <4>3, <4>4, Zenon
      <3>4. Cardinality(ReadySet)
              = Cardinality({s \in Slots : 0 <= s /\ s <= maxi' /\ client'[s] \in ReadySet})
        BY <1>1, <3>2, <3>3, SlotsOf
      <3>5. \A s \in Slots : client'[s] \in ReadySet => sock'[client'[s]] \in Readable
        BY <1>2, <1>4, <2>2
      <3> QED
        BY <1>4, <1>5, <3>1, <3>4, <3>5, GoOnStep
    <2> QED
      BY <2>1, <2>2
  <1>7. TcpTypeOK'
    BY <1>1, <1>2, <1>6 DEF TcpTypeOK
  <1> QED
    BY <1>3, <1>6, <1>7 DEF TcpInv

LEMMA AcceptFailsStep == TcpInv /\ AcceptFails => TcpInv'
  <1> SUFFICES ASSUME TcpInv, AcceptFails PROVE TcpInv'
    OBVIOUS
  <1>1. /\ UNCHANGED <<client, allset, maxfd, maxi, sock, waiting, spc>>
        /\ tpc' = "select" /\ rset' = {} /\ nready' = 0 /\ slot' = 0
    BY DEF AcceptFails
  <1>2. TcpTypeOK'
    BY <1>1 DEF TcpInv, TcpTypeOK
  <1>3. CallersKept'
    BY <1>1 DEF TcpInv, CallersKept, Callers, Tabled
  <1>4. RoundInv'
    BY <1>1 DEF RoundInv, NeverBlocks, ReadyCounted
  <1> QED
    BY <1>2, <1>3, <1>4 DEF TcpInv

\* A caller is accepted: its descriptor was not in use, so it is in no slot and
\* not among the ready ones.
LEMMA AcceptStep == TcpInv /\ Accept => TcpInv'
  <1> SUFFICES ASSUME TcpInv, Accept PROVE TcpInv'
    OBVIOUS
  <1> DEFINE fd == LowestFree
             R == rset \ {ListenFd}
  <1>1. TcpTypeOK /\ CallersKept /\ RoundInv /\ tpc = "accept"
    BY DEF TcpInv, Accept
  <1>2. fd \in Fds /\ sock[fd] = "free"
    BY LowestFreeIsFree DEF Accept
  <1>3. FreeSlot \in Slots /\ client[FreeSlot] = -1
    BY <1>1, FreeSlotExists
  <1>4. /\ waiting > 0 /\ waiting' = waiting - 1 /\ spc' = spc
        /\ sock' = [sock EXCEPT ![fd] = "open"]
        /\ client' = [s \in Slots |-> IF s = FreeSlot THEN fd ELSE client[s]]
        /\ allset' = allset \cup {fd}
        /\ maxfd' = IF fd > maxfd THEN fd ELSE maxfd
        /\ maxi' = IF FreeSlot > maxi THEN FreeSlot ELSE maxi
        /\ GoOn(rset, nready - 1, 0)
    BY DEF Accept, NewMaxFd, Larger, Counted
  <1> HIDE DEF fd
  <1>5. fd \notin Callers /\ Callers' = Callers \cup {fd}
    BY <1>1, <1>2, <1>4 DEF TcpTypeOK, Callers, CallerState, Readable
  <1>6. CallersKept'
    <2>1. allset' = Callers' \cup {ListenFd}
      BY <1>1, <1>4, <1>5 DEF CallersKept
    <2>2. Tabled' = Callers'
      <3>1. Tabled' = Tabled \cup {fd}
        <4>1. \A s \in Slots : client'[s] = IF s = FreeSlot THEN fd ELSE client[s]
          BY <1>4
        <4> QED
          BY <1>2, <1>3, <4>1, Sizes DEF Tabled
      <3> QED
        BY <1>1, <1>5, <3>1 DEF CallersKept
    <2>3. \A s \in Slots : client[s] # fd
      BY <1>1, <1>2, <1>5, Sizes DEF CallersKept, Tabled
    <2>4. \A r, s \in Slots : client'[r] = client'[s] /\ client'[r] # -1 => r = s
      BY <1>1, <1>4, <2>3 DEF CallersKept
    <2>5. \A s \in Slots : client'[s] # -1 => s <= maxi'
      BY <1>1, <1>3, <1>4, Sizes DEF CallersKept, TcpTypeOK
    <2> QED
      BY <2>1, <2>2, <2>4, <2>5 DEF CallersKept
  <1>7. /\ rset \in SUBSET (Fds \cup {ListenFd}) /\ ListenFd \in rset
        /\ \A other \in R : other \in Fds /\ sock[other] \in Readable
        /\ nready = Cardinality(rset)
    BY <1>1 DEF RoundInv, TcpTypeOK
  <1>8. R \in SUBSET Callers /\ fd \notin rset
    BY <1>2, <1>7, Sizes DEF Callers, CallerState, Readable
  <1>9. nready - 1 = Cardinality(R) /\ nready - 1 \in Int
    <2>1. IsFiniteSet(rset)
      <3>1. IsFiniteSet(Fds \cup {ListenFd})
        BY FewerFds, FS_AddElement
      <3> QED
        BY <1>7, <3>1, FS_Subset
    <2>2. Cardinality(R) = Cardinality(rset) - 1
      BY <1>7, <2>1, FS_RemoveElement
    <2> QED
      BY <1>1, <1>7, <2>2 DEF TcpTypeOK
  <1>10. {s \in Slots : 0 <= s /\ s <= maxi' /\ client'[s] \in rset}
           = {s \in Slots : client[s] \in R}
    <2>1. -1 \notin R /\ -1 \notin rset
      BY <1>7, Sizes
    <2>2. \A s \in Slots : client[s] # ListenFd
      BY <1>1, Sizes DEF TcpTypeOK
    <2>3. \A s \in Slots : client'[s] \in rset <=> client[s] \in R
      BY <1>3, <1>4, <1>8, <2>1, <2>2
    <2>4. \A s \in Slots : client'[s] \in rset => 0 <= s /\ s <= maxi'
      BY <1>6, <2>1, Sizes DEF CallersKept
    <2> QED
      BY <2>3, <2>4, Zenon
  <1>11. nready - 1 = Cardinality({s \in Slots : 0 <= s /\ s <= maxi' /\ client'[s] \in rset})
    BY <1>1, <1>8, <1>9, <1>10, SlotsOf
  <1>12. \A s \in Slots : client'[s] \in rset => sock'[client'[s]] \in Readable
    <2>1. \A s \in Slots : client'[s] \in rset => client'[s] \in R
      <3>1. \A s \in Slots : client'[s] # ListenFd
        BY <1>1, <1>2, <1>4, Sizes DEF TcpTypeOK
      <3> QED
        BY <3>1
    <2>2. \A other \in R : sock'[other] = sock[other]
      BY <1>1, <1>4, <1>7, <1>8 DEF TcpTypeOK
    <2> QED
      BY <1>7, <2>1, <2>2
  <1>13. /\ RoundInv'
         /\ rset' \subseteq Fds \cup {ListenFd} /\ nready' \in Nat /\ slot' \in Nat
         /\ tpc' \in {"select", "accept", "recv"}
    BY <1>4, <1>7, <1>9, <1>11, <1>12, GoOnStep
  <1>14. TcpTypeOK'
    <2>1. client' \in [Slots -> Fds \cup {-1}] /\ sock' \in [Fds -> SockState]
      BY <1>1, <1>2, <1>4 DEF TcpTypeOK, SockState, CallerState
    <2>2. maxfd' \in ListenFd .. NoFile - 1 /\ maxi' \in -1 .. FD_SETSIZE - 1
      BY <1>1, <1>2, <1>3, <1>4, Sizes DEF TcpTypeOK, Slots, Fds
    <2>3. waiting' \in 0 .. BACKLOG
      BY <1>1, <1>4, Sizes DEF TcpTypeOK
    <2>4. allset' \subseteq Fds \cup {ListenFd} /\ spc' \in {"idle", "udp", "ioctl", "bind"}
      BY <1>1, <1>2, <1>4 DEF TcpTypeOK
    <2> QED
      BY <1>13, <2>1, <2>2, <2>3, <2>4 DEF TcpTypeOK
  <1> QED
    BY <1>6, <1>13, <1>14 DEF TcpInv

\* A ready caller is served: it leaves the table if it has hung up, and the slots
\* behind it are as ready as before.
LEMMA RecvStep == TcpInv /\ Recv => TcpInv'
  <1> SUFFICES ASSUME TcpInv, Recv PROVE TcpInv'
    OBVIOUS
  <1> DEFINE k == NextReady
             fd == client[k]
  <1>1. TcpTypeOK /\ CallersKept /\ RoundInv /\ tpc = "recv" /\ ReadySlots # {}
    BY DEF TcpInv, Recv
  <1>2. /\ UNCHANGED <<maxfd, maxi, waiting, spc>>
        /\ GoOn(rset, nready - 1, k + 1)
        /\ \/ sock' = [sock EXCEPT ![fd] = "open"] /\ UNCHANGED <<client, allset>>
           \/ UNCHANGED <<sock, client, allset>>
           \/ sock' = [sock EXCEPT ![fd] = "eof"] /\ UNCHANGED <<client, allset>>
           \/ /\ sock' = [sock EXCEPT ![fd] = "free"]
              /\ allset' = allset \ {fd} /\ client' = [client EXCEPT ![k] = -1]
    BY DEF Recv, Received, Untabled
  <1>3. /\ k \in ReadySlots /\ k \in Slots /\ k \in Nat /\ fd \in rset
        /\ \A s \in ReadySlots : k <= s
    BY <1>1, NextReadyIsReady, Sizes DEF ReadySlots
  <1> HIDE DEF k
  <1>4. fd \in Fds /\ sock[fd] \in Readable /\ fd \in Callers
    <2>1. fd \in Fds
      BY <1>1, <1>3, Sizes DEF TcpTypeOK
    <2>2. sock[fd] \in Readable
      BY <1>1, <1>3 DEF RoundInv, NeverBlocks
    <2> QED
      BY <2>1, <2>2 DEF Callers, CallerState
  <1>5. \A s \in Slots : s # k => client[s] # fd
    BY <1>1, <1>3, <1>4, Sizes DEF CallersKept
  <1>6. /\ client' \in [Slots -> Fds \cup {-1}] /\ sock' \in [Fds -> SockState]
        /\ allset' \subseteq Fds \cup {ListenFd}
    BY <1>1, <1>2, <1>3, <1>4 DEF TcpTypeOK, SockState, CallerState, Readable
  <1>7. CallersKept'
    <2>1. CASE sock' = [sock EXCEPT ![fd] = "free"]
               /\ allset' = allset \ {fd} /\ client' = [client EXCEPT ![k] = -1]
      <3>1. Callers' = Callers \ {fd}
        BY <1>1, <1>4, <2>1 DEF TcpTypeOK, Callers, CallerState, Readable
      <3>2. \A s \in Slots : client'[s] = IF s = k THEN -1 ELSE client[s]
        BY <1>1, <2>1 DEF TcpTypeOK
      <3>3. Tabled' = Tabled \ {fd}
        BY <1>3, <1>5, <3>2 DEF Tabled
      <3>4. ListenFd # fd
        BY <1>4, Sizes
      <3>5. allset' = Callers' \cup {ListenFd} /\ Tabled' = Callers'
        BY <1>1, <2>1, <3>1, <3>3, <3>4 DEF CallersKept
      <3>6. /\ \A r, s \in Slots : client'[r] = client'[s] /\ client'[r] # -1 => r = s
            /\ \A s \in Slots : client'[s] # -1 => s <= maxi'
        BY <1>1, <1>2, <3>2 DEF CallersKept
      <3> QED
        BY <3>5, <3>6 DEF CallersKept
    <2>2. CASE UNCHANGED <<client, allset>>
               /\ (sock' = sock \/ \E to \in {"open", "eof"} : sock' = [sock EXCEPT ![fd] = to])
      <3>1. Callers' = Callers
        BY <1>1, <1>4, <2>2 DEF TcpTypeOK, Callers, CallerState, Readable
      <3> QED
        BY <1>1, <1>2, <2>2, <3>1 DEF CallersKept, Tabled
    <2> QED
      BY <1>2, <2>1, <2>2
  <1>8. \A s \in Slots : s # k => client'[s] = client[s]
    BY <1>1, <1>2 DEF TcpTypeOK
  <1>9. {s \in Slots : k + 1 <= s /\ s <= maxi' /\ client'[s] \in rset} = ReadySlots \ {k}
    <2>1. \A s \in Slots : k + 1 <= s /\ s <= maxi' /\ client'[s] \in rset
                              => s \in ReadySlots \ {k}
      <3>1. slot <= k /\ slot \in Nat /\ maxi' = maxi
        BY <1>1, <1>2, <1>3 DEF ReadySlots, TcpTypeOK
      <3>2. \A s \in Slots : k + 1 <= s => s # k /\ slot <= s
        BY <1>3, <3>1, Sizes
      <3> QED
        BY <1>8, <3>1, <3>2 DEF ReadySlots
    <2>2. \A s \in ReadySlots \ {k} : s \in Slots /\ k + 1 <= s /\ s <= maxi' /\ client'[s] \in rset
      BY <1>2, <1>3, <1>8, Sizes DEF ReadySlots
    <2> QED
      BY <2>1, <2>2
  <1>10. nready - 1 = Cardinality(ReadySlots \ {k}) /\ nready - 1 \in Int
    <2>1. IsFiniteSet(ReadySlots)
      BY FewerFds, FS_Subset, ReadySlots \in SUBSET Slots DEF ReadySlots
    <2>2. nready = Cardinality(ReadySlots) /\ nready \in Nat
      BY <1>1 DEF RoundInv, ReadyCounted, TcpTypeOK
    <2>3. Cardinality(ReadySlots \ {k}) = Cardinality(ReadySlots) - 1
      BY <1>3, <2>1, FS_RemoveElement
    <2> QED
      BY <2>2, <2>3
  <1>11. \A s \in ReadySlots \ {k} : sock'[client'[s]] \in Readable
    <2>1. \A s \in ReadySlots \ {k} : s \in Slots /\ client[s] \in Fds /\ sock[client[s]] \in Readable
      <3>1. \A s \in ReadySlots : s \in Slots /\ client[s] \in Fds
        BY <1>1, Sizes DEF ReadySlots, TcpTypeOK
      <3>2. \A s \in ReadySlots : sock[client[s]] \in Readable
        BY <1>1 DEF RoundInv, NeverBlocks
      <3> QED
        BY <3>1, <3>2
    <2>2. \A other \in Fds : other # fd => sock'[other] = sock[other]
      BY <1>1, <1>2 DEF TcpTypeOK
    <2> QED
      BY <1>5, <1>8, <2>1, <2>2
  <1>12. /\ RoundInv'
         /\ rset' \subseteq Fds \cup {ListenFd} /\ nready' \in Nat /\ slot' \in Nat
         /\ tpc' \in {"select", "accept", "recv"}
    <2>1. rset \in SUBSET (Fds \cup {ListenFd}) /\ k + 1 \in Nat
      BY <1>1, <1>3 DEF TcpTypeOK
    <2>2. \A s \in Slots : k + 1 <= s /\ s <= maxi' /\ client'[s] \in rset
                              => sock'[client'[s]] \in Readable
      BY <1>9, <1>11
    <2> QED
      BY <1>2, <1>9, <1>10, <2>1, <2>2, GoOnStep
  <1>13. TcpTypeOK'
    BY <1>1, <1>2, <1>6, <1>12 DEF TcpTypeOK
  <1> QED
    BY <1>7, <1>12, <1>13 DEF TcpInv

LEMMA InvStep == TcpInv /\ [TcpNext]_tcpVars => TcpInv'
  <1> SUFFICES ASSUME TcpInv, [TcpNext]_tcpVars PROVE TcpInv'
    OBVIOUS
  <1>1. CASE UNCHANGED tcpVars
    <2>1. UNCHANGED threadVars /\ UNCHANGED <<sock, waiting, spc>>
      BY <1>1 DEF tcpVars, threadVars
    <2> QED
      BY <2>1, OthersStep, Sizes DEF TcpInv, TcpTypeOK
  <1>2. CASE TcpNext
    BY <1>2, CallerStep, MultiCastStep, SelectStep, AcceptStep, AcceptFailsStep, RecvStep
       DEF TcpNext, TcpServerThread
  <1> QED
    BY <1>1, <1>2

LEMMA InvHolds == TcpSpec => []TcpInv
  BY InvInit, InvStep, PTL DEF TcpSpec

-----------------------------------------------------------------------------
(* Theorems *)

(***************************************************************************)
(* The variables of TcpServerThread keep their types.  In particular maxi  *)
(* never leaves the table: with at most FD_SETSIZE descriptors a slot is   *)
(* always found, whatever the callers and MultiCast do.                    *)
(***************************************************************************)
THEOREM TypeCorrect == TcpSpec => []TcpTypeOK
  <1>1. TcpInv => TcpTypeOK
    BY DEF TcpInv
  <1> QED
    BY <1>1, InvHolds, PTL

(***************************************************************************)
(* The table of TcpServerThread, the set it gives to select and the        *)
(* sockets of the callers are always the same descriptors.                 *)
(***************************************************************************)
THEOREM TableIsCallers == TcpSpec => []CallersKept
  <1>1. TcpInv => CallersKept
    BY DEF TcpInv
  <1> QED
    BY <1>1, InvHolds, PTL

(***************************************************************************)
(* TcpServerThread blocks in select only: accept finds a caller and recv   *)
(* something to report, although select spoke of an earlier state.         *)
(***************************************************************************)
THEOREM OnlySelectBlocks == TcpSpec => []NeverBlocks
  <1>1. TcpInv => NeverBlocks
    BY DEF TcpInv, RoundInv
  <1> QED
    BY <1>1, InvHolds, PTL

(***************************************************************************)
(* nready counts the ready slots that are still to be served, so that      *)
(* --nready ends the loop behind the last of them.                         *)
(***************************************************************************)
THEOREM AllReadyAreServed == TcpSpec => []ReadyCounted
  <1>1. TcpInv => ReadyCounted
    BY DEF TcpInv, RoundInv
  <1> QED
    BY <1>1, InvHolds, PTL
=============================================================================
