------------------------------ MODULE EventLoop ------------------------------
(* The event library libevent 0.1 (event.c): queues of events that wait for a
   descriptor or a time, and the loop that calls their functions.  The functions
   are the application's: they add and delete events, also the ones the loop is
   about to look at.

   Assumed of the application: event_set is used once per event, before it is
   added (event.3 allows it again after a timeout, when the code may still have
   the event in the read or the write queue); its structures are cleared before
   that, as static ones are, because event_set leaves ev_read_next alone and the
   loop over the write queue follows it; timeouts are not 0.  All descriptors fit
   into one word of a descriptor set.  Time is counted from now: left[e] is what
   remains until ev_timeout.  Variables whose value is not read any more go back
   to their first value. *)
EXTENDS Integers, Sequences, FiniteSets, SequencesExt, SeqFilter

CONSTANTS Events,           \* the application's event structures
          EvFd, EvEvents,   \* ev_fd (-1 for a mere timeout) and ev_events, by event
          Null,             \* NULL
          Delays,           \* timeouts given to event_add
          TIMEOUT_DEFAULT,  \* 5 seconds
          SetupCalls,       \* bound: calls before event_dispatch
          CallbackCalls     \* bound: calls in one callback

ASSUME EventAssumption ==
    /\ Null \notin Events
    /\ EvFd \in [Events -> Int]
    /\ EvEvents \in [Events -> SUBSET {"READ", "WRITE"}]
    /\ Delays \subseteq Nat \ {0} /\ TIMEOUT_DEFAULT \in Nat
    /\ SetupCalls \in Nat /\ CallbackCalls \in Nat

VARIABLES queue,         \* readqueue, writequeue, timequeue and addqueue
          flags,         \* ev_flags: the queues an event is in
          readLink,      \* ev_read_next: kept by an event that leaves its queue
          left,          \* time until ev_timeout
          event_inloop, event_fds,
          readset, writeset,  \* descriptors select reported
          topfd,         \* maxfd of event_dispatch
          lpc,           \* where event_dispatch is
          ev, old,       \* its pointers into the queues
          what,          \* why the application runs
          budget,        \* calls it may still make
          sleep,         \* time until select returns
          asked          \* events that waited when select was called

lists == <<queue, flags, readLink, left>>
loopVars == <<queue, flags, readLink, left, event_inloop, event_fds, readset,
              writeset, topfd, lpc, ev, old, what, budget, sleep, asked>>

Kinds == {"READ", "WRITE", "TIMEOUT", "ADD"}

EventInit ==
    /\ queue = [k \in Kinds |-> <<>>]
    /\ flags = [e \in Events |-> {}]
    /\ readLink = [e \in Events |-> Null]
    /\ left = [e \in Events |-> 0]
    /\ event_inloop = FALSE /\ event_fds = 0
    /\ readset = {} /\ writeset = {} /\ topfd = 0
    /\ lpc = "application" /\ what = "START" /\ budget = SetupCalls
    /\ ev = Null /\ old = Null
    /\ sleep = 0 /\ asked = {}

In(e, k) == e \in Range(queue[k])
First(k) == IF queue[k] = <<>> THEN Null ELSE Head(queue[k])
Linked(q) == [e \in Events |->
    IF \E n \in DOMAIN q : q[n] = e
    THEN LET n == CHOOSE n \in DOMAIN q : q[n] = e
         IN  IF n < Len(q) THEN q[n + 1] ELSE Null
    ELSE readLink[e]]

-----------------------------------------------------------------------------
(* The operations. *)

\* TAILQ_REMOVE
Unlinked(q, e) == Filter(q, Events \ {e})

\* Mutant: one queue or the other.
ReadOrWrite(f, e) == IF "READ" \in EvEvents[e] \ f[e] THEN {"READ"} ELSE EvEvents[e] \ f[e]
NewKinds(f, e) == EvEvents[e] \ f[e]

event_add_post(q, f, e) ==
    /\ queue' = [k \in Kinds |-> IF k \in NewKinds(f, e) THEN Append(q[k], e) ELSE q[k]]
    /\ flags' = [f EXCEPT ![e] = @ \cup NewKinds(f, e)]
    /\ readLink' = Linked(queue'["READ"])

(* The time queue with e in temporal order, before those of the same time. *)
InTime(q, e, d) ==
    InsertAt(q, 1 + Cardinality({n \in DOMAIN q : \A m \in 1 .. n : left[q[m]] < d}), e)

\* Mutant: the queues are changed while the loop runs over them.
AtOnce == FALSE
Postponed == event_inloop

(* event_add with timeout d, or with none if d is 0. *)
event_add(e, d) ==
    LET q == IF d = 0 THEN queue
             ELSE [queue EXCEPT !["TIMEOUT"] = InTime(Unlinked(@, e), e, d)]
        f == IF d = 0 THEN flags ELSE [flags EXCEPT ![e] = @ \cup {"TIMEOUT"}]
    IN  /\ left' = IF d = 0 THEN left ELSE [left EXCEPT ![e] = d]
        /\ \/ ~Postponed /\ event_add_post(q, f, e)
           \/ /\ Postponed /\ "ADD" \in f[e]
              /\ queue' = q /\ flags' = f /\ UNCHANGED readLink
           \/ /\ Postponed /\ "ADD" \notin f[e]
              /\ queue' = [q EXCEPT !["ADD"] = Append(@, e)]
              /\ flags' = [f EXCEPT ![e] = @ \cup {"ADD"}]
              /\ UNCHANGED readLink

\* Mutant: an addition that is still to be done is not taken back.
LeftKinds(e) == flags[e] \ {"ADD"}
DelKinds(e) == flags[e]

event_del(e) ==
    /\ queue' = [k \in Kinds |-> IF k \in DelKinds(e) THEN Unlinked(queue[k], e) ELSE queue[k]]
    /\ flags' = [flags EXCEPT ![e] = {}]
    /\ readLink' = Linked(queue'["READ"])
    /\ left' = [left EXCEPT ![e] = 0]

(* event_pending: what e waits for, the postponed addition included. *)
event_pending(e) ==
    (flags[e] \cup IF "ADD" \in flags[e] THEN EvEvents[e] ELSE {}) \ {"ADD"}

(* event_fds, from the highest descriptor that is known or from the queues. *)
Highest(fds) == CHOOSE m \in fds : \A fd \in fds : fd <= m
HighestQueued ==
    Highest({EvFd[e] : e \in Range(queue'["READ"]) \cup Range(queue'["WRITE"])} \cup {0})
\* Mutant: once it is not 0 it stays.
OnlyAtStart(max) == IF max # 0 THEN event_fds ELSE HighestQueued
events_recalc(max) == IF max # 0 THEN max ELSE HighestQueued

timeout_next == IF queue["TIMEOUT"] = <<>> THEN TIMEOUT_DEFAULT ELSE left[First("TIMEOUT")]

-----------------------------------------------------------------------------
(* The application: main before event_dispatch, then the callbacks. *)

AppAdd(e, d) == lpc = "application" /\ budget > 0 /\ event_add(e, d)
AppDel(e) == lpc = "application" /\ budget > 0 /\ event_del(e)
AppCall ==
    /\ \E e \in Events : AppDel(e) \/ \E d \in Delays \cup {0} : AppAdd(e, d)
    /\ budget' = budget - 1
    /\ UNCHANGED <<event_inloop, event_fds, readset, writeset, topfd, lpc, ev, old,
                   what, sleep, asked>>

event_dispatch ==
    /\ lpc = "application" /\ what = "START"
    /\ UNCHANGED lists
    /\ event_fds' = events_recalc(0)
    /\ lpc' = "select" /\ sleep' = timeout_next
    /\ UNCHANGED <<event_inloop, readset, writeset, topfd, ev, old, what, budget,
                   asked>>

(* The callback returns to the loop that called it: ev = old, which is NULL in
   timeout_process, where it does not exist. *)
CallbackReturns ==
    /\ lpc = "application" /\ what # "START"
    /\ lpc' = what /\ what' = "START"
    /\ ev' = old /\ old' = Null
    /\ budget' = 0
    /\ UNCHANGED <<lists, event_inloop, event_fds, readset, writeset, topfd, sleep, asked>>

Callback(e, k) == lpc' = "application" /\ what' = k /\ ev' = e /\ budget' = CallbackCalls

-----------------------------------------------------------------------------
(* event_dispatch. *)

Watched(e, k) == In(e, k) /\ EvFd[e] <= event_fds
Fires(k) == SUBSET {EvFd[e] : e \in {e \in Events : Watched(e, k)}}

SelectReturns ==
    /\ lpc = "select"
    /\ \E r \in Fires("READ"), w \in Fires("WRITE") :
          /\ r # {} \/ w # {} \/ sleep = 0
          /\ readset' = r /\ writeset' = w
    /\ asked' = Range(queue["READ"]) \cup Range(queue["WRITE"])
    /\ topfd' = 0 /\ event_inloop' = TRUE
    /\ lpc' = "READ" /\ ev' = First("READ") /\ sleep' = 0
    /\ UNCHANGED <<lists, event_fds, old, what, budget>>

(* EINTR: the sets are filled again and select is called again. *)
Interrupted ==
    /\ lpc = "select"
    /\ sleep' = timeout_next
    /\ UNCHANGED <<lists, event_inloop, event_fds, readset, writeset, topfd, lpc, ev, old,
                   what, budget, asked>>

(* Any other error ends event_dispatch. *)
SelectFails ==
    /\ lpc = "select"
    /\ lpc' = "ended"
    /\ UNCHANGED <<lists, event_inloop, event_fds, readset, writeset, topfd, ev, old,
                   what, budget, sleep, asked>>

(* A round of the loop over the read or the write queue.  Both follow the link of
   the read queue, which is read before the callback. *)
Fire(k, set) ==
    /\ lpc = k /\ ev # Null /\ EvFd[ev] \in set
    /\ old' = readLink[ev]
    /\ event_del(ev)
    /\ Callback(ev, k)
    /\ asked' = asked \ {ev}
    /\ UNCHANGED <<event_inloop, event_fds, readset, writeset, topfd, sleep>>
Pass(k, set) ==
    /\ lpc = k /\ ev # Null /\ EvFd[ev] \notin set
    /\ topfd' = Highest({topfd, EvFd[ev]})
    /\ ev' = readLink[ev]
    /\ UNCHANGED <<lists, event_inloop, event_fds, readset, writeset, lpc, old, what, budget,
                   sleep, asked>>
EndRead ==
    /\ lpc = "READ" /\ ev = Null
    /\ lpc' = "WRITE" /\ ev' = First("WRITE")
    /\ UNCHANGED <<lists, event_inloop, event_fds, readset, writeset, topfd, old, what,
                   budget, sleep, asked>>

\* Mutant: timeouts are looked at only when no descriptor was ready.
TimeoutsIfIdle == IF readset \cup writeset = {} THEN "TIMEOUT" ELSE "select"
AfterLoops == "TIMEOUT"

(* Behind the loops the postponed additions are made, in their order, and
   event_fds is set. *)
EndWrite ==
    /\ lpc = "WRITE" /\ ev = Null
    /\ LET added == Range(queue["ADD"])
       IN  /\ queue' = [k \in Kinds |-> IF k = "ADD" THEN <<>>
                ELSE queue[k] \o Filter(queue["ADD"], {e \in Events : k \in NewKinds(flags, e)})]
           /\ flags' = [e \in Events |-> IF e \in added
                THEN (flags[e] \ {"ADD"}) \cup NewKinds(flags, e) ELSE flags[e]]
           /\ event_fds' = events_recalc(Highest({EvFd[e] : e \in added} \cup {topfd}))
    /\ readLink' = Linked(queue'["READ"])
    /\ event_inloop' = FALSE
    /\ lpc' = AfterLoops
    /\ topfd' = 0 /\ asked' = {} /\ readset' = {} /\ writeset' = {}
    /\ UNCHANGED <<left, ev, old, what, budget, sleep>>

(* timeout_process, and the top of the loop. *)
Due == queue["TIMEOUT"] # <<>> /\ left[First("TIMEOUT")] = 0

TimeoutFires ==
    /\ lpc = "TIMEOUT" /\ Due
    /\ LET e == First("TIMEOUT")
       IN  /\ queue' = [queue EXCEPT !["TIMEOUT"] = Tail(@)]
           /\ flags' = [flags EXCEPT ![e] = @ \ {"TIMEOUT"}]
           /\ Callback(e, "TIMEOUT")
    /\ UNCHANGED <<readLink, left, event_inloop, event_fds, readset, writeset, topfd, old,
                   sleep, asked>>
EndTimeouts ==
    /\ lpc = "TIMEOUT" /\ ~Due
    /\ lpc' = "select" /\ sleep' = timeout_next
    /\ UNCHANGED <<lists, event_inloop, event_fds, readset, writeset, topfd, ev, old, what,
                   budget, asked>>

IoRound == \/ Fire("READ", readset) \/ Pass("READ", readset) \/ EndRead
           \/ Fire("WRITE", writeset) \/ Pass("WRITE", writeset) \/ EndWrite
Scheduled == event_dispatch \/ CallbackReturns \/ IoRound \/ TimeoutFires \/ EndTimeouts

(* Time passes while select waits.  The time the callbacks of a round take is
   counted at the end of the loops, before timeout_process reads the clock. *)
Less(t) == IF t = 0 THEN 0 ELSE t - 1
Tick ==
    /\ lpc = "select" \/ (lpc = "WRITE" /\ ev = Null)
    /\ left' = [e \in Events |-> Less(left[e])]
    /\ sleep' = Less(sleep)
    /\ UNCHANGED <<queue, flags, readLink, event_inloop, event_fds, readset, writeset, topfd,
                   lpc, ev, old, what, budget, asked>>

EventNext == AppCall \/ Scheduled \/ SelectReturns \/ Interrupted \/ SelectFails \/ Tick
EventSpec == EventInit /\ [][EventNext]_loopVars

(* The one thread is scheduled, the application calls event_dispatch and returns
   from callbacks, time passes, and select returns when its time is over; no
   descriptor has to become ready.  Signals come to an end: each one makes select
   wait from the beginning. *)
Runs == Scheduled \/ (sleep = 0 /\ SelectReturns)
EventFairness ==
    WF_loopVars(Runs) /\ WF_loopVars(Tick) /\ <>[][~Interrupted]_loopVars

-----------------------------------------------------------------------------
(* Properties. *)

(* The flags of an event name the queues it is in, each of them once; the time
   queue is in temporal order; a pointer of the loop is an event or NULL; the
   add queue is empty outside of the loops over descriptors. *)
EventTypeOK ==
    /\ \A k \in Kinds :
          /\ queue[k] \in Seq(Events) /\ IsInjective(queue[k])
          /\ \A e \in Events : In(e, k) <=> k \in flags[e]
    /\ \A m, n \in DOMAIN queue["TIMEOUT"] :
          m < n => left[queue["TIMEOUT"][m]] <= left[queue["TIMEOUT"][n]]
    /\ left \in [Events -> Nat] /\ sleep \in Nat
    /\ readLink \in [Events -> Events \cup {Null}]
    /\ ev \in Events \cup {Null} /\ old \in Events \cup {Null}
    /\ lpc \in {"application", "select", "READ", "WRITE", "TIMEOUT", "ended"}
    /\ what \in {"START", "READ", "WRITE", "TIMEOUT"}
    /\ ~event_inloop => queue["ADD"] = <<>>

(* A callback for a descriptor is made for an event that was waiting when select
   was called, and once: neither an event that is added in this round nor one
   that was called already meets the old result of select.  (An event that
   another callback deleted in this round may: see DeletedIsNotCalled.) *)
CalledOnce ==
    [][lpc' = "application" /\ lpc # "application" /\ what' # "TIMEOUT" => ev' \in asked]_loopVars

(* "event_del will cancel the event": no callback is made for an event that is in
   no queue any more, also when the loop has its pointer from before the callback
   that deleted it. *)
DeletedIsNotCalled ==
    [][lpc' = "application" /\ lpc # "application" /\ what' # "TIMEOUT" => flags[ev] # {}]_loopVars

(* What event_pending reports for an event is lost only by a call of the event
   or by the application's event_del. *)
PendingKept ==
    [][\A e \in Events :
          ~(event_pending(e) \subseteq event_pending(e)') =>
              AppDel(e) \/ (lpc' = "application" /\ lpc # "application" /\ ev' = e)]_loopVars

(* Behind a round of the loops every event that waits to read lies within
   event_fds, so that the next select is asked about it: although callbacks
   delete the events the loop is about to look at, it misses none that is left,
   and additions that were postponed count too.  (event_add in a timeout's
   callback comes later.) *)
ReadersWatched ==
    [][event_inloop /\ ~event_inloop' =>
          \A e \in Events : In(e, "READ")' => EvFd[e] <= event_fds']_loopVars

(* Timeouts that have come are served, set again or deleted, all of them before
   the loop waits again. *)
TimeoutServed ==
    (\E e \in Events : In(e, "TIMEOUT") /\ left[e] = 0) ~>
        ((\A e \in Events : In(e, "TIMEOUT") => left[e] > 0) \/ lpc = "ended")

(* Every event that waits to read, and the first one that waits to write, comes
   to be watched by select, although event_add in a timeout's callback does not
   raise event_fds: the next round does, after TIMEOUT_DEFAULT at the latest. *)
LooksAt(e, k) == lpc = "select" /\ Watched(e, k)
WaitingIsWatched ==
    /\ \A e \in {e \in Events : "READ" \in EvEvents[e]} :
          lpc = "select" /\ In(e, "READ") ~> LooksAt(e, "READ") \/ ~In(e, "READ") \/ lpc = "ended"
    /\ \A e \in {e \in Events : "WRITE" \in EvEvents[e]} :
          lpc = "select" /\ First("WRITE") = e
              ~> LooksAt(e, "WRITE") \/ First("WRITE") # e \/ lpc = "ended"

(* event_add "schedules the execution of the event" for when it occurs: each event
   that waits to write, and not only the first one, comes to be watched. *)
WritersWatched ==
    \A e \in {e \in Events : "WRITE" \in EvEvents[e]} :
        lpc = "select" /\ In(e, "WRITE")
            ~> LooksAt(e, "WRITE") \/ ~In(e, "WRITE") \/ lpc = "ended"

=============================================================================
