# Verification of study_demo

`study_demo` is a collection of C programs for home-automation gateways and the
exercises that led to them. Most directories hold a library that was imported or
a program of a few dozen lines. Six parts carry logic of their own, most of it
concurrent or over an unreliable medium, that no test of the repository reaches;
they are modelled here:

* **EasyConnect** gives a device that has neither screen nor keyboard the name
  and password of the home Wi-Fi. A phone (here a PC program, the *sender*) hides
  them in the addresses of multicast datagrams; the device's *driver*, in monitor
  mode, collects the addresses, and a *daemon* joins the network and calls the
  sender back.
  The sender takes the call in a *select server*.
* **The JSON socket server** accepts TCP clients, answers their JSON requests and
  is stopped by a signal.
* **The gateway database** keeps devices, rooms, scenes and profiles, and the links
  between them, in SQLite.
* **The serial link** codes messages for the ZigBee coordinator into characters and
  decodes them in place.
* **libevent 0.1** is the small event loop the exercises with events start from
  (the later release in the tree is imported code).

## 1. Inventory

| Component | Source | State | Operations | Talks to |
|---|---|---|---|---|
| Frame format | `multicast/multi_cilent.c` 129-288, `smart_config/other/rt_profile.c` 804-951 | none | build a frame, take it apart, sum | sender, driver |
| Driver receiver | `rt_profile.c` 666-1146 (`STA_MonPktSend`) | C statics: `g_tEasyLink` (lengths, channel, `uRecOK`, address, two string buffers), `uRecMask`, `uCrc`, four flags | one call per frame heard: decode by type, then broadcast at most one netlink message | radio, daemon |
| Daemon | `multicast/netlink_test.c` (`main`, `ConnectAP`, `CheckWifiStatus`, `getsitesurvey`) | four ints that drive the loop, a copy of `g_tEasyLink`; the mode, channel and association of `ra0` | hop channels, receive a message, switch mode, survey, join, call back, exit or reboot | driver, access points, sender |
| Sender | `multicast/multi_cilent.c` (`main`, `WifiEasyConnect`, `MultiCast`, `CheckWifiStatus`) | position in the round | build the frames once, send them round after round | radio |
| Select server | `multi_cilent.c` (`TcpServerThread`) | table of callers, `fd_set`s, `maxfd`, `maxi`, `nready` | select, accept, receive, close | callers; shares the descriptors of the process with `MultiCast` |
| JSON socket server | `simple_config/socket_comm_server/{main.c,socket_server.c,socket_server.h}` | thread state, list and count of clients, a receive buffer per client | init, finish; in the thread: epoll wait, accept, receive and reply, disconnect | clients, signals |
| ZigBee gateway database | `ZigbeeGatway/test/sqlite/JIP_Sqlite.{c,h}` | five tables of things (devices, scenes, profiles, rooms, linkages), three of links; row numbers in the callers' structures | add, update by mask, delete, clear, search, list, allocate an identifier, switch a profile | SQLite |
| Serial link codec | `LinkMessage/Serial_LinkCommand.c`, `SerialLink/SerialLink.c` | four static variables that outlive a call, the caller's buffer, type and length | escape and checksum a message; decode in place | serial line |
| Event loop | `libevent-0.1/event.{c,h}` | four queues, flags per event, `event_inloop`, `event_fds` | add, delete, pending; dispatch: select, readers, writers, postponed additions, timeouts | the application's callbacks, select, the clock |
| ZeroMQ, thread, socket, SmartConfig, recorder demos | `zmq/`, `thread/`, `Socket/`, `smart_config/device`, `recorder/` | next to none | one exchange or one loop each | each other |
| Language and tool demos, vendored code | the rest | | | |

What is hard about them:

* Driver: frames are lost, repeated and reordered; any frame may be the first one
  heard; frame 0 of every round throws collected data away; four messages share
  one struct that is copied out while it is still being filled; each message is
  announced once and the early returns skip the announcement.
* Daemon: three messages arrive in any order and each replaces the struct the
  others were read from; going to managed mode makes the driver deaf; a channel
  announced late puts `ra0` back into monitor mode; results of commands are not
  looked at.
* Socket server: edge-triggered sockets read once per edge; a batch of events
  that is abandoned half-way; resets and full descriptor tables; a stop that
  races the thread's start, its test and its wait.
* Select server: blocking `accept` and `recv` on what `select` said earlier, a loop
  that a counter ends early, a table and descriptor sets at their limits, and sockets
  of another thread that come and go (or leak) meanwhile.
* Database: deletes do not cascade, row numbers are copied into structures and
  outlive their rows, updates are several statements without a transaction.
* Serial link: the output overwrites the input, the state of a damaged message
  meets the next one, and an exclusive or is all that tells them apart.
* Event loop: callbacks change the queues the loop walks along, additions are
  postponed, timeouts change what select should have been told.

What makes them correct: the driver announces what was sent, whole, once
(AcceptedAsSent, CompleteIsAccepted, AcceptedWhole, DecodedIsTold, ServiceSpec);
the daemon uses the sender's data only and gets through (DialsSender, TriedIsSent,
StaysJoined, StationUnlessStringsFirst, GetsThrough); the server's records agree with the kernel's, no
message is answered twice or out of order, clients are accepted and the stop works (Bookkeeping,
RepliesInOrder, QueuedIsAccepted, StopsThread); the select server's table is its callers,
it never blocks, serves all that is ready and notices hang-ups (CallersKept,
NeverBlocks, ReadyCounted, HangUpNoticed); a link in the database means what it meant
when it was made and lists show what was linked (LinksKeepTheirEnds, ListedWasLinked,
SwitchesListed), new ids are free (UnUsedIsFree) and a device put online has what that
report was to bring, though updates break off (OnlineIsBacked); the serial decoder inverts the encoder after any
damage before (WholeIsReturned, UnreadIntact, DamageIsSeen, ReadReturns); the event loop
calls what waited, once, loses nothing and gets round to everything (CalledOnce,
PendingKept, ReadersWatched, TimeoutServed, WaitingIsWatched). `PROJECT.json` lists the hazards
line by line with the properties aimed at each.

## 2. Modules

```
EasyLinkFrames            frame format (operators only)
  EasyLinkRx              driver                 --refines-->  EasyLinkService
    MCEasyLinkRx          instances
    EasyLinkRetyped       driver, sender restarted with another password
      EasyLinkRx_proofs   theorems about both                    (uses SeqFilter_proofs)
    EasyLinkDaemon        daemon (actions only)
      EasyConnect         sender + driver + daemon
        EasyConnect_proofs  theorems, on top of those about the driver
        MCEasyConnect     instances
SeqFilter                 elements of a list that lie in a set (operator only)
  SeqFilter_proofs        what it returns; queues; least elements and induction
SocketServer              both threads, clients, kernel          (uses SeqFilter)
  SocketServer_proofs     theorems
  MCSocketServer          instances with fair threads
  MCReceivers             instances of SocketServer and of EasyLinkRetyped
GatewayDB                 tables, links, searches                (uses SeqFilter)
  GatewayDB_proofs        theorems
  MCGatewayDB             instance
SerialLink                encoder, line, decoder
  SerialLink_proofs       theorems
TcpServer                 select server, MultiCast, callers
  TcpServer_proofs        theorems
EventLoop                 queues, dispatch, application, clock   (uses SeqFilter)
  EventLoop_proofs        theorems
  MCLoops                 an instance of each of the three
```

### EasyLinkFrames

A multicast to 238.x.d0.d1 is a frame `[a3, a4, a5]` of three bytes; `a3` packs a
type (2 bits) and an index (5 bits). `MakeSendFrm` packs, `FrmType`, `FrmIndex`
and `FrmData` unpack; the loss of the top bit in the mapping of IP to MAC
addresses is the `% 128`. `CredFrame`, `ReipFrame` and `ChannelFrame` are what
`WifiEasyConnect` builds, with the padding of odd strings and the 16-bit sums;
`Round` is the order in which one round sends them.

### EasyLinkRx

The variables are the C statics under their own names. A bit mask is the set of
its bits. `uPwd` and `uSSID` are adjacent members of one struct, so they are one
memory `buf`: a store behind the end of `uPwd` lands in `uSSID`, as in the code.
`told` records the netlink messages. One call of `STA_MonPktSend` is one step (the
interrupt handler is not re-entered): `RecvChannel`, `RecvReip`, `RecvCred` for each
string type, or `Ignored` for the early `goto`. Each ends with `Notify`, the tail of
the function. The shift `0xFFFFFFFF >> 32`, executed before the first frame 0, is
undefined in C; on the MIPS of these devices (and on x86) the shift count is taken
modulo 32, so all 32 bits are required, and this is what `Wanted` says.

Frames of other stations are `Noise`. `ConstantsAssumption` restricts them only if
they carry one of the two string types: their frame 0 must announce a length the
buffers can hold. A frame with a larger one makes the driver write outside the
struct, which the model has no state for.

### EasyLinkService

The driver's promise to the daemon: announcements in any order, at most one of each
kind, each with the sender's data. `ServiceSpec` in `EasyLinkRx` is the refinement: it
keeps of a netlink message what its kind stands for.

### EasyLinkRetyped

No new step: the driver of `EasyLinkRx` among frames of several passwords of one length
(`Passwords`), which a user who mistyped and started the sender again puts on the air
while the statics live on. The module has the hypotheses about such a history
(`OnlyRetyped`, `Distinguishable`), the property `AcceptedWhole` and the inductive
invariant behind it (`MixedInv`).

### EasyLinkDaemon and EasyConnect

`EasyLinkDaemon` cuts a pass of the daemon's loop where the driver can run in
between: `Bind`, `Top` (hop or tune), `Recv` (non-blocking `recvmsg`, dispatch),
`Switch` (managed mode), `Scan` (survey, choice of the access point, `ConnectAP`),
`CallBack` (connect; then `exit(1)` or reboot), and `Restart` by the user. Faithful to
the source, `Delivered` loses the end of `uSSID` because the buffer given to `recvmsg`
has no room for the netlink header, and `Candidates` falls back from equality to
`strstr`. iwconfig, the survey and the access points are external: a survey is any
set of access points that contains those that are always seen.

`EasyConnect` adds the sender. `MultiCast` is one `sendto`: the driver's step if `ra0` is
tuned and the frame is heard, nothing otherwise. `ShownSsid` is the sender's reading
of its own network's name through a buffer of 16 bytes.

### SocketServer

`mpc` and `spc` say where the main thread and the server thread are. Main:
`SocketServerInit`, then `SetStopped`, `Kill`, `Join` for the three statements of
`SocketServerFinished`. Thread: `SetRunning`, `Arm` (install the handler, create epoll),
`Check` (the test of the while loop), `Enter`, `Wakeup` (`epoll_wait` returns a batch),
one action per way an event is handled (`SkipError`, `Accept`, `AcceptFails`, `Recv`,
`RecvFails`, `Disconnect`), `Done`. `Check` and `Enter` are separate because a signal
may arrive between them. The network (`Connect`, `Send`, `Shutdown`, `Reset`) and epoll's
ready list are external. A JSON text is abstracted to two parts, of which TCP may
deliver the second later; the receive buffer keeps what an earlier message left in
it (`Overlay`). `sent` records of each message its kind and how it came (whole, its first
part only, or its rest later); a reply is recorded with the message whose arrival caused it
and the sequence number it carries, which need not be the same message's. A SIGTERM
before `SocketServerInit` has created the thread is not modelled.

### TcpServer

`TcpServerThread` cut at its system calls: `Select`, `Accept` or `AcceptFails`, `Recv`
for each ready slot. `GoOn` is the rest of the loop over the table, up to the next
ready slot or back to `select`; `--nready` ends it. `MultiCast` runs on the main thread
and is cut where descriptors are opened and closed, because the two threads share
them. `EasyConnect` has its own `MultiCast`, which says what is sent; here it only says
what it does to the descriptors. Callers (`Dial`, `Become`) and the kernel's choice of
the lowest free descriptor are external. After an error `recv` reports the end, as
Linux does. A behaviour begins when the thread enters its loop, with `MultiCast` between two
frames and all descriptors below the listening one in use; in the program `MultiCast`
may be in the middle of a frame then, and give back a lower descriptor later. A failing
`sendto` ends the process (line 120), after which nothing happens; it is left out.

### GatewayDB

`db` holds the rows of each table. A thing has its row number, the column it is looked
up by and, for each text column, the number of the update that wrote it last: that is
all the properties tell apart. A device's row also has, as a history variable, the mask
of the call that wrote its online column last (`report`). A link has two row numbers and, as a history variable
that no function reads, the keys beside them in the caller's structures. `given` is
what a program holds in such structures: it keeps the number of a row that is deleted.
Updates and `ProfileTableOnOff` run a chosen number of their statements. Searches are
operators over the state; `CutShort` is a list whose search ended early, whose status
`DBUnUsed...` ignores. SQL is modelled by what the statements do in the schema
of the `SQLITE.DB` that comes with the code (AUTOINCREMENT, UNIQUE, foreign keys
declared and not enabled).

### SerialLink

One action is one round of the decoder's loop; `buf` is both input and output. The
static variables and, if the caller passes them again, type and length survive from
call to call. The line loses or changes one character of each message. A checksum
computed behind the end of the buffer is a nondeterministic choice.

### EventLoop

`queue` has the four TAILQs; `readLink` is `ev_read_next`, which both loops follow and
which a removed event keeps. One action is one round of a loop, cut at the callback;
the callback makes up to `CallbackCalls` calls of `event_add` and `event_del` on any
event. `asked` is a history variable: the events that waited when select was called.
Time is relative: `left` counts down while select waits and at the end of the loops,
before `timeout_process` reads the clock.

Assumed of the application:

* `event_set` is used once per event. The manual allows it again after a timeout
  (`event.3:155-158`); the code may then still have the event in the read or the write
  queue, with its flags cleared.
* The structures are cleared before that, as static ones are. `event_set` leaves
  `ev_read_next` alone and the loop over the write queue follows it (line 173), so a
  write-only event in an uncleared structure is followed through whatever was there. The
  event on the stack of `sample/event-test.c:51` waits to read, so its link is set when it is
  queued.
* Timeouts are above 0. An event re-armed with 0 would be due again in the same pass of
  `timeout_process`.

## 3. Runs

| Run | Expect | States | Shows |
|---|---|---|---|
| `rx` | pass | 186,516 | The sender's frames and one foreign one in every order, any number of times: accepted is sent and stays so, complete is accepted, decoded is told, the service is implemented. |
| `rx_full` | violation | | A password that fills its buffer spoils an accepted SSID (finding 1). |
| `system` | pass | 3,016,413 | Sender, driver and daemon with arbitrary relative speed, any survey, one restart: the daemon dials the sender only, tries the sender's credentials only, keeps its association once the channel is known, and calls from monitor mode only if the credentials were announced first. |
| `system_lossy` | pass | 250,272 | The daemon calls the sender; it takes a lost frame to fail, and then it has become deaf. |
| `receivers` | pass | 787,023 | Two receivers of messages in parts. Server, two clients, resets, failing calls, one descriptor: list, counter, epoll set and sockets agree and a queued client is always signalled. Server, one client, three messages, each whole or in two parts, joined and cut in every way: none is answered twice or out of order, errors are never answered, and an older sequence number is used only for a message that came in parts. Driver, frames of two passwords of one length mixed: only whole passwords are accepted. |
| `server_live` | pass | 140,644 | With resets and failing calls, every client that connects is accepted while the thread serves; the stop ends a thread that sleeps, handles events or is about to test. |
| `server_stop` | violation | | `SocketServerFinished` may wait for ever (finding 2). |
| `server_leave` | violation | | A disconnect that is never noticed (finding 3). |
| `gateway_db` | pass | 688,148 | All calls of the library in any order: links keep their meaning though nothing cascades, ids from `DBUnUsed...` are free, a device online has at least what the report that put it online was to bring, lists and switches reach what was linked. |
| `db_devices` | violation | | A device of a profile's scene that is not listed (finding 4). |
| `loops` | pass | 193,767 | Three loops. Serial link: a whole message is returned whole whatever came before it, unread input is intact, one changed byte is seen. Select server: table, sets and sockets agree, no blocking call, hang-ups are noticed. Event loop: every callback was due, pending events stay pending, select is asked about every reader behind a round, timeouts and waiting events get their turn. |
| `loops_deleted` | violation | | An event that is called after it was deleted (finding 5). |

Run one with `tlc -config EasyLinkRx.cfg MCEasyLinkRx`, and so on; `PROJECT.json` names the
module of each.

### Bounds

* `Chunks` is 2 or 3 instead of 16 pairs. The statements treat all pairs between the
  first and the last alike; two pairs give a header, data, a padded string and a
  checksum with an index inside or behind the buffer, which are all the cases
  the code distinguishes. The theorems hold for every size up to 16.
* `HdrPairs = 1` of `Chunks = 3` keeps the ratio that matters: the name that the sender
  shows (4-byte buffer, 2 bytes used; 16 and 14 in the source) fits in what `recvmsg`
  leaves of `uSSID` (2 of 3 pairs; 8 of 16).
* Two channels instead of 14: one where the sender is heard and one where not; the
  wrap-around of the hop happens at once.
* `MaxLosses = 2`: one loss is enough to complete the credentials a round before the
  address; two reach the checksum and the data of one message. `system` has no losses
  because its arbitrary timing already hides any part of a round from the driver
  (the radio is not tuned when the frame is sent).
* `MaxRestarts = 1`: after one restart the daemon's variables are fresh and the driver's
  are not; a second one begins in the same kind of state.
* `receivers`: `part` chooses what a behaviour exercises. `clients`: two clients, so that one is
  in the batch behind the other, and two messages of each, which come whole. `stream`: one
  client, because buffer and answers are kept per client, and three messages: enough for
  one that came in parts, behind one that left something in the buffer, and before
  one that meets both. `driver`: two passwords of two pairs and an address frame beyond the
  five. In `server_live` each of two clients sends one whole
  message, with resets and failing calls. `MaxFds = 1` lets the second client
  meet the limit, `EPOLL_EVENT_NUM = 2` or 3 of at most three sockets lets a batch be
  full or hold everything.
* `gateway_db`: one address, ids up to 2 with id 0 a caller's own choice, one shipped
  room that leaves a gap below it, six insertions over all tables (two scenes with a
  list and a device, a deletion and a new row fit in). `side` chooses the functions of the
  rooms, of the profiles or of the devices alone; no function touches both rooms and profiles, so
  nothing is lost. Three masks: values with the online bit, the online bit alone, the append
  text; up to three updates with the devices alone (a whole report, one that breaks
  off, and one with the online bit alone, in any order), one beside the other calls.
  The theorems hold for all masks and any number of updates.
  `IndexMod = 8` is above the insertions: the wrap of the 16-bit Index is excluded by
  `IndexAssumption`.
* `loops`, serial part: two messages with bytes that have to be escaped in type, length,
  checksum and data, two calls (what the first leaves meets the second), one fault per
  message, `Noise` a control character and a plain one. `CursorMod = 17` puts
  the longer message one below the limit of the index and no buffer above it.
* `loops`, select server: four descriptors, one of them the listening one: three
  callers, or fewer with the two sockets of `MultiCast`, so that the limit is met in
  every way; the table has as many slots as descriptors, as in the code.
* `loops`, event loop: one reader, one writer, one event that is both; two calls before
  `event_dispatch` and two in each callback, so that a callback can delete one event
  and add another.
* `loops_deleted`: the same three events with a smaller serial part and
  table; no more calls than the counterexample needs.
* `part` in `MCLoops` chooses one of the three at the start. They share nothing; one run
  instead of three is a matter of bookkeeping.

Deadlock is checked for the driver (every frame is handled by some branch) and for
the system (the sender never stops), not for the server, which may be stopped, not
for the database, whose insertions and updates are bounded, and not for the loops: the
calls of the decoder are bounded and `event_dispatch` returns when select fails.

### Fairness

* `FairSystemSpec`: weak fairness of `MultiCast`, because `while (g_MultiCast)` never ends
  (the assignment that would end it, line 395, is commented out), and of the daemon's
  loop, which never blocks. `Timed = TRUE` adds what the sleeps guarantee: the daemon
  sleeps 100 ms in front of `recvmsg`, the sender pauses 40 ms between rounds, so that
  a burst of channel frames falls into the sleep. Without it the two loops could miss
  each other for ever.
* `FairSpec` of the server: both threads are scheduled. Clients need not do anything
  and nobody needs to stop the server.
* `MCFairness`: the decoder runs (it is a loop without blocking calls); the server
  thread is scheduled when its system call can return, nothing is assumed of callers
  and of the main thread; the event loop is scheduled, callbacks return, time passes
  while select waits and select returns when its time is over, though no descriptor
  need become ready; signals that interrupt select come to an end, because each one
  makes it wait from the beginning.

## 4. Findings

1. `rx_full`: a password of 31 or 32 characters has its checksum in frame 17. If the
   driver hears that frame before any frame 0 it stores it as data behind `uPwd`, at the
   start of `uSSID`, also when the SSID is already accepted (`rt_profile.c:1010`).
2. `server_stop`: a signal between the test of `eState` and `epoll_wait` interrupts nothing;
   and a thread that starts late overwrites the stop (`socket_server.c:199`, 174).
3. `server_leave`: data and end of stream in one edge are answered by one `recv`; the
   client is never removed (`socket_server.c:273`).
4. `db_devices`: `ProfileDeviceListSearch` looks the number of a scene up among the numbers
   of `Scene_Device`'s own rows instead of its column for the scene
   (`JIP_Sqlite.c:1644`), so a device of a profile's scene is listed only while the two
   kinds of rows happen to run in step. The comment at 1597 promises the devices of
   the profile.
5. `loops_deleted`: the loops of `event_dispatch` read the next event before a callback and use
   it afterwards (`event.c:161`), so an event that the callback deleted is still called if its
   descriptor is ready. `event.3:166` says that `event_del` cancels the event. `CalledOnce`
   is what remains true: such an event waited when `select` was called.

Three more disagreements between the code and what is written about it are stated in the
modules and have no run of their own. Naming the property in the cfg given shows them:

* `DialledAsStation` in `EasyConnect.cfg`. The comments number the work switch mode, scan,
  connect (`netlink_test.c:778`, 787, 792), then the call (841). If the credentials are
  handled before the channel is, the daemon joins and then goes back to monitor mode at
  the top of the loop (737); it calls the sender from there, fails and exits. `CallsAsStation`
  shows that this is the only way: if the driver's first announcement is not the
  credentials, every call is made as a station.
* `ProfileIsSwitched` in `GatewayDB.cfg`. The comment of `ProfileTableOnOff` (`JIP_Sqlite.c:1335`) says
  that it sets the profile's column and those of its scenes; it writes the scenes only (1366).
* `WritersWatched` in `Loops.cfg`. The loop over the writers goes on with the link of the
  read queue (`event.c:173`). It may miss the second writer; `events_recalc` then shrinks the
  descriptors that `select` looks at, and the writer is not called as long as the first one
  stays, although `event.3:141-145` promises the call when the event occurs.

Also seen while modelling:

* The driver accepts a shorter password together with the tail of a longer one it
  was receiving (frames behind the announced end are stored and not summed).
* A restarted daemon never provisions the device: the driver's statics live on and
  announce nothing twice.
* `break` after an accept (`socket_server.c:256`) drops the other events of the batch;
  for edge-triggered clients those edges are lost. With two clients
  DisconnectIsNoticed fails in this way too.
* The first part of a message may be completed by what an earlier one left in the
  buffer: the answer then carries the earlier sequence number (RepliesInOrder says when this
  can happen). Requests that one `recv` reads together share one answer.
* The sender has 18 rows for the pairs of a password: one of more than 32 bytes writes
  behind them (`multi_cilent.c:283`); the models assume shorter ones. The daemon does
  not look at the result of `ConnectAP` (`netlink_test.c:804`).
* Database: `DBUnUsedSceneId` and `DBUnUsedProfileId` return a used id when id 0 exists. The
  comment at 150 says that the macros of a mask are or-ed; but `DEVICETYPE` (0x100) does
  not fit the 8-bit mask, so that column is never updated, and the append text is
  written only if the mask is its macro alone. Searches do not finalize their
  statements on error paths, and the status of a search is ignored by `DBUnUsed...`,
  whose list is then not initialised.
* Serial link: an end character before any message, with type and length 0, returns
  TRUE; a length beyond the buffer makes the checksum read behind it; a message
  that continues in a second buffer overwrites unread input there; bytes behind a
  message in the same buffer are dropped; 256 bytes or more are read for ever.
* Select server: at the descriptor limit with a caller queued, `accept` fails and
  `continue` skips the table, so no hang-up is noticed (HangUpNoticed excludes exactly
  this). `MultiCast` leaks its socket on three error returns. With a limit of
  descriptors above `FD_SETSIZE`, `FD_SET` writes behind its set before "Too many clients".
* libevent 0.1: since the loop over writers follows the read links, a reader can be called for
  writing. `event_set` clears the flags of an event that may still be queued after a
  timeout, and leaves `ev_read_next` uninitialised (section 2). Growing descriptor sets
  clears the wrong memory (112).

## 5. Proofs

### The driver

`EasyLinkRx_proofs` (2033 obligations) proves, for every `Chunks` up to 16, every pair of
strings that fits, every address and every set of other frames the assumptions
admit:

| Theorem | Statement | Extra assumptions |
|---|---|---|
| `TypeCorrect` | `RxSpec => []RxTypeOK` | none |
| `NothingIsLeftUntold` | `RxSpec => []DecodedIsTold` | none |
| `AcceptedIsSent` | `RxSpec => []AcceptedAsSent` | `Fits`, `Quiet` |
| `CompleteAccepted` | `RxSpec => []CompleteIsAccepted` | `Fits`, `Quiet` |
| `AcceptedStaysPut` | `RxSpec => AcceptedIsFinal` (no run of its own: `AcceptedAsSent` says it state by state) | `Fits`, `Quiet` |
| `DriverImplementsService` | `RxSpec => ServiceSpec` | `Fits`, `Quiet` |
| `PasswordsStayWhole` | `RxSpec => []AcceptedWhole` | `Fits`, `OnlyRetyped`, `Distinguishable` |

Assumptions. `ConstantsAssumption` gives the constants their types. That the sender's
frames consist of bytes, the checksum frames too, is proved (`FramesAreFrames`).
`Fits`: the checksum frame of each string has an index inside its buffer (30 bytes or less in the source); finding 1 is what happens
without it. `Quiet`: nobody else sends data frames of this protocol. `OnlyRetyped`
weakens it: frames of other passwords of the same length, from a sender that was started
again, are on the air too; `Distinguishable` then says that no mixture, pair by pair, of these passwords has the
byte sum of one of them unless it is one. It is needed, because the sum is all the driver
compares: of "abcd" and "xydc" it may accept the mixture "abdc". `MCReceivers` evaluates all
three hypotheses on its instance. `PasswordsAssumption` (one length, byte
strings, `Pwd` among them) is only used there; `Passwords = {Pwd}` satisfies it always.

Argument.

* `TypeInv` is `RxTypeOK` with `FlagInv`. The flags are needed for the type of the flags
  themselves: no flag is left at 1, because a call sets at most one of them and tells
  it at once, which is true only if no flag was pending before and if a flag at 2 is
  never set again, that is, if it agrees with `uRecOK` (`NotifyOutcome`, `CallOutcome`,
  `FlagStep`).
* `ToldInv` ties each flag to the messages in `told`; with `FlagInv` it gives
  `DecodedIsTold`.
* `DataInv` (`StringInv` for both strings, `ReipInv`, `ChannelInv`) is why accepted data
  is right. `AcceptedAsSent` alone is not inductive: what is in a buffer before
  acceptance decides what is accepted. `StringInv` says that after the first frame 0 the
  buffer holds exactly the pairs whose mask bits are set and zeros elsewhere, that the
  length is 0 or the sender's, and that no bit 0 is set before the length is known.
  A complete mask then leaves no pair undetermined, and for this direction the sum need
  not be reasoned about. The proof that one string's frames leave the other's buffer alone
  (`OtherStringStep`) is where `Fits` is used; `OrPairFacts` is why a repeated address
  frame, which is or-ed in, does no harm.
* `CompleteIsAccepted` is the other direction, and it is about the sums. `PairSum` is a
  recursive function; `SumsExists` shows that the function exists, by the induction of
  `AllNumbers`, and `PairSumBound` that a pair adds at most 510. A message has at most 16
  pairs, so its sum fits 16 bits and the two bytes of the checksum frame give it back
  (`MessageSum`). `SumsInv` says that the sum the driver keeps is the sender's as soon
  as the last bit of the mask is set. When the mask is complete, `DataInv` says that the
  buffer holds the sender's pairs, so both sides add up the same function (`DriverSum`) and
  the step that completes the mask accepts.
* The refinement (`ServiceStep`) maps a call that tells something to `Announce` and
  every other to a stutter.
* `PasswordsStayWhole` cannot use `DataInv`: the buffer need not hold pairs of one password.
  `MixedInv` says that a pair whose bit is set is the pair of *some* password, that the sum
  kept with the last bit is that of some password, and that an accepted buffer is complete
  and has the sum it was accepted with. A repeated index replaces the
  pair or the sum by that of another password, a repeated frame 0 clears everything, and
  the sum that counts for an accepted buffer is the one it was accepted with, because
  later frames are refused; the cases are in `PasswordStep`. An accepted buffer is then a mixture with the sum of
  a password (`MixedIsWhole`), which `Distinguishable` makes a password. That the SSID's and
  the address's frames leave the buffer alone is `OtherStringKeeps` and `ReipWhole`; the lemmas
  about one sender's strings were generalised to strings that only one of several
  conditions keeps undisturbed (`OwnString`, `OwnReip`).

### The select server

`TcpServer_proofs` (591 obligations) proves, for every size of the table, every
descriptor limit up to it, every backlog and every behaviour of the callers:

| Theorem | Statement |
|---|---|
| `TypeCorrect` | `TcpSpec => []TcpTypeOK` |
| `TableIsCallers` | `TcpSpec => []CallersKept` |
| `OnlySelectBlocks` | `TcpSpec => []NeverBlocks` |
| `AllReadyAreServed` | `TcpSpec => []ReadyCounted` |

The only assumption is `TcpAssumption`: a process has at most `FD_SETSIZE`
descriptors. None of the four is inductive by itself. `TcpInv` is their conjunction
with what holds between `select` and `accept` (`RoundInv`): a caller is queued, the set
that select reported is still readable in full, and `nready` is its size. `GoOnStep`
carries this along the table. Two facts about sets do the work. A free slot always
exists (`FreeSlotExists`): the slots in use and the callers' sockets correspond one to
one (`CallersKept`), the listening socket takes a descriptor that has no slot, so
there are fewer callers than slots. And `nready` can count slots although `select`
counted descriptors, because of the same correspondence (`SlotsOf`).

### The whole EasyConnect system

`EasyConnect_proofs` (1465 obligations) extends the proofs of the driver to sender,
radio, driver and daemon together, for every set of access points, every loss and
any number of restarts:

| Theorem | Statement | Extra assumptions |
|---|---|---|
| `SystemTypes` | `SystemSpec => []SystemTypeOK` | none |
| `SystemRunsDriver` | `SystemSpec => RxSpec` | none |
| `JoinStays` | `SystemSpec => StaysJoined` | none |
| `CallsAsStation` | `SystemSpec => []StationUnlessStringsFirst` | none |
| `SystemImplementsService` | `SystemSpec => ServiceSpec` | `Fits`, `Quiet` |
| `OnlySenderDialled` | `SystemSpec => []DialsSender` | `Fits`, `Quiet` |
| `SentCredentialsTried` | `SystemSpec => []TriedIsSent` | `Fits`, `Quiet`, `Sendable` |

`SystemRunsDriver` is why nothing about the driver is proved twice: a step of the system
is a step of the driver or leaves its statics alone. `Quiet` is a statement about the
constant `Noise`, which the radio of the composed system never adds to. `Sendable` says
that the two strings have no zero byte inside (they are C strings at the sender) and
that the name is shorter than the part of `uSSID` that survives the short `recvmsg`
buffer. Argument:

* `DriverInv` adds to the driver's invariants that each kind is told once and that
  every message from the channel's on carries a channel (`ToldOnce`). `HopInv` is the
  daemon's side: it tunes only after it has read that message. This is needed even for the
  types, because the daemon takes the channel from a struct that every message
  overwrites.
* `SentInv` is the driver's `DataInv` and the same for messages already told
  (`ToldIsSent`), which the daemon may read long after. `DialInv` and `CredInv` carry it
  to the daemon's copy of the struct, to the call back and, through the reading of a C string out of
  pairs (`CStrIsString`), to `ConnectAP`.
* `JoinInv` says where in its loop the daemon can be with which mode and which
  messages read. A join is undone only on the way to monitor mode, which the daemon leaves
  for good once it has read the strings.
* `ReadInv` and `StationInv` are for `CallsAsStation`. The daemon misses messages only
  between a call and its next start, so until it has read the strings its ints say
  exactly which of the others it has read (`ReadInv`). If one of these came before the
  strings, `ra0` stays a station from the join on (`StationInv`): after the channel the loop
  no longer hops, after the address the call follows in the same pass.

### Lists

`SeqFilter_proofs` (490 obligations) has the lemmas the next modules share. `FilterPicks`: what `Filter(s, S)` returns are
the elements of `s` that lie in `S`, each at its own place of `s` and in the order of `s`.
`Filter` is a recursive function, so this needs induction. The library's induction
theorems take a predicate as a parameter, which the provers cannot instantiate;
`AllNumbers` states induction for a set instead, and is proved from the least element of
a set of numbers (`LeastExists`), which the library does give. The lemmas about queues
(`FilterFacts`, `AppendQueue`, `ConcatQueue`, `TailQueue`, `SplitQueue`) are what the three
modules below need.

### The socket server

`SocketServer_proofs` (1638 obligations), for every set of clients, size of the event
array and backlog, with resets and failing calls, messages whole or in parts:

| Theorem | Statement |
|---|---|
| `ServerTypes` | `Spec => []ServerTypeOK` |
| `ListsAgree` | `Spec => []Bookkeeping` |
| `AnsweredInOrder` | `Spec => []RepliesInOrder` |
| `QueueSignalled` | `Spec => []QueueIsSignalled` (a conjunct of `Bookkeeping`) |

`Bookkeeping` is inductive only with what
the kernel holds for the next batch (`BookInv`): its ready list names no descriptor twice
and only registered ones. `RepliesInOrder` needs an invariant about what is still under
way (`ReplyInv`). The parts that a client sends form one stream, part k of message n having
the number 2n + k. The unread data are the last parts of the stream without a gap, the
buffer holds older parts, and every answer is to a part already read (`Stream`).
`StreamGrows` says what sending adds (`MessageComes`, `RestComes`), `StreamRead` what a `recv`
leaves: a first part can be completed by an older rest only while its own rest is still
to come, and the rest that comes then is no message by itself, so that nothing is answered
twice. `QueueSignalled` is the safety half of `QueuedIsAccepted`: a client in
the listening queue has the listening socket on the ready list, although an abandoned
batch drops the events behind it. It holds because that socket is the only
level-triggered one (`StillReady`); `SignalInv` says it for the whole life of the thread.

### The database

`GatewayDB_proofs` (2183 obligations) proves, for all addresses, ids, masks and
shipped rooms, with statements failing anywhere and any number of restarts:

| Theorem | Statement |
|---|---|
| `TablesWellFormed` | `Spec => []DBTypeOK` |
| `LinksNeverRetarget` | `Spec => []LinksKeepTheirEnds` |
| `ListsAreLinks` | `Spec => []ListedWasLinked` |
| `UnUsedIdsAreFree` | `Spec => []UnUsedIsFree` |
| `SwitchesOnlyListed` | `Spec => SwitchesListed` |
| `OnlineHasValues` | `Spec => []OnlineIsBacked` |

The assumption that matters is `IndexAssumption`: fewer than 2^16 rows are ever
inserted, so that a row number survives the `uint16_t Index` of the C structures
(`IndexIsNumber`). `LinksKeepTheirEnds` is not inductive: a link is made from numbers in a
caller's structures, which may be older than a deletion. `DBInv` therefore says the
same of every number anyone holds (`Names`: it was given out, and the row that has it,
if any, has the key it was given out for), in link rows (`LinksInv`) and in `given`
(`GivenInv`). Inserting takes a number above all of them (`NewNumber`), deleting and
updating never give a number a new key (`ThingStep`), and link rows get only numbers
from `given` (`LinkStep`). The lemmas follow the shape of the statements; every call is
an instance of one of them (`StepKinds` says of which).

`UnUsedIdsAreFree` and `SwitchesOnlyListed` need `ListInv`: ids of scenes and profiles are
below 2^16, group ids of rooms start at `RoomBase`, and the list of profiles is finite.
`SortedFacts` shows that the i-th key with i - 1 smaller ones exists and that the list of
them ascends, `WalkFree` that the walk along an ascending list ends at the lowest free
number; the case of an id that wraps to 0 is where "no caller chose id 0" is used.

`OnlineHasValues` is about every mask, the online bit alone included: the row remembers
the mask of the call that put the device online (`report`), and the property compares with
the columns this mask selects. `ReportOrder` is then a fact about the order of the statements:
of those a mask selects, an earlier one has run whenever a later one has (`PrefixOrder`,
from `FilterPicks`), and the online column is written last.

### The serial link

`SerialLink_proofs` (2666 obligations), for every set of messages shorter than 2^16
bytes, every size of the buffer and any sequence of damaged messages:

| Theorem | Statement |
|---|---|
| `ReceiverTypes` | `SerialSpec => []SerialTypeOK` |
| `NothingOverwritten` | `SerialSpec => []UnreadIntact` |
| `DecoderInvertsEncoder` | `SerialSpec => []WholeIsReturned` |
| `DamageRefused` | `SerialSpec => [](Short => DamageIsSeen)` |

Two assumptions of the module are the code's: lengths are `uint16_t`
(`MessageAssumption`), and the buffer is at least as long as the 8-bit index counts
(`CursorMod <= RX_MAX_LENGTH` in `LinkAssumption`). `DamageRefused` is stated for buffers
that the index can count (`Short`), as the other properties are by their own
wording: in a longer one the decoder starts again inside the buffer, over characters it has already
overwritten.

`TypeInv` bounds the counters, `BufferInv` keeps the writing position behind the reading
index. `WireInv` is the heart: the line holds a frame, that is, a start character, the
escaped bytes of type, length, checksum and data, and an end character
(`Framed`); `WriteCarries` shows that the encoder makes one. Position by position
(`Reading`, `Progress`) the decoder's state is determined by the bytes it has passed,
whatever the static variables held before the start character, so at the end
character it holds the message. For a changed byte the frame is one of other bytes
(`FrameChanged`), whose checksum is wrong because a single changed byte changes the xor of
all of them (`XorChanged`, `SumChanged`). That counting characters with `ByteAt` and
walking along the frame agree is `CharactersCount`.

### The event loop

`EventLoop_proofs` (2326 obligations), for every set of events, kinds and delays, and
whatever the application adds and deletes in callbacks and outside:

| Theorem | Statement |
|---|---|
| `QueuesConsistent` | `EventSpec => []EventTypeOK` |
| `InterestKept` | `EventSpec => PendingKept` |
| `CalledOncePerRound` | `EventSpec => CalledOnce` |
| `NoReaderMissed` | `EventSpec => ReadersWatched` |

`EventInv` adds to the types that the time queue is sorted and that the queues agree
with the flags. `CalledOnce` is the difficult one: a deleted event keeps its link, and
the loop over writers follows the links of the read queue, so the loop may walk along
events that are in no queue. `LinkInv` says that the links of the read queue follow its
order; `RoundInv` that from the loop's next event on the links run through a set of
events that all waited when select was called and were not called yet, ranked so that
no event comes twice (`Chain`). A deletion relinks the neighbours along the same order and
the deleted event keeps pointing forward; additions are postponed while the loop runs.

`ReadersWatched` is the counterpart: the loop comes to no event too often, but does it
come to all of them? `events_recalc` is called with the highest descriptor the loops passed, so a
reader that is stepped over would fall out of the next `select`. `SeenInv` says that
the readers above that descriptor are still ahead: everything the loop can meet has a
number, and no link leads past a reader that is ahead (`Reaches`). A deletion
gives a predecessor the link of the deleted event, which steps over nobody else
(`ReachesDel`), one round of the loop leaves only the current event behind (`ReachesOn`).
`HighestOf` is why a highest descriptor exists: queues are finite. For the writers this is
false (section 4, `WritersWatched`); what holds of them is stated as liveness (`WaitingIsWatched`).

### Model-checked only

Every invariant and every action property of a passing run is a theorem. What remains
with TLC is all liveness (`GetsThrough`, `QueuedIsAccepted`, `StopsThread`, `ReadReturns`,
`HangUpNoticed`, `TimeoutServed`, `WaitingIsWatched`): the prover has no rules for fairness
and `ENABLED`. The properties that the code violates (`DialledAsStation`, `FinishedReturns`,
`DisconnectIsNoticed`, `ProfileDevicesListed`, `ProfileIsSwitched`, `DeletedIsNotCalled`,
`WritersWatched`, and `AcceptedAsSent` without `Fits`) have counterexamples and no theorem.

## 6. Plan

Done, in this order: frames, driver, service, driver proofs, daemon, whole system,
socket server, gateway database, serial link, select server, event loop; then the
theorems of section 5, the last of them `AnsweredInOrder` for messages in parts and
`OnlineHasValues` for all masks. Nothing of the plan is open; what is left out is listed below.

## 7. Not modelled, and why

Vendored code (libevent 2.0.22, json-c, cJSON, kfifo) and the rest of the vendor's
Wi-Fi driver are not this program's logic; they are more than four fifths of the
lines of the tree, which is why the models cover a small share of it. The ZeroMQ, thread
and recorder demos are loops around blocking library calls whose
protocols are in the libraries. The language and tool demos are straight-line
programs. The Android user interface and the SmartConfig device program are blocking
I/O without shared state. Inside the modelled parts: the parsing of information
elements in `getsitesurvey` (only its result, a set of access points, is used),
`CheckConnect` of the daemon and `SocketServerSendJsonMessage` of the server, which are
never called, all logging, and of the event loop descriptors beyond one word of a set,
`event_set` on an event that was used before, uncleared structures and timeouts of 0.
