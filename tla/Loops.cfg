SPECIFICATION MCSpec

CONSTANTS
    Messages <- MCMessages
    Noise = {3, 80}
    RX_MAX_LENGTH = 256
    CursorMod = 17
    MaxCalls = 2

    FD_SETSIZE = 4
    NoFile = 4
    ListenFd = 0
    BACKLOG = 1

    reader = reader
    writer = writer
    both = both
    Events = {reader, writer, both}
    EvFd <- MCEvFd
    EvEvents <- MCEvEvents
    Null = Null
    Delays = {1}
    TIMEOUT_DEFAULT = 1
    SetupCalls = 2
    CallbackCalls = 2

INVARIANTS
    SerialTypeOK
    UnreadIntact
    WholeIsReturned
    DamageIsSeen
    TcpTypeOK
    CallersKept
    NeverBlocks
    ReadyCounted
    EventTypeOK

PROPERTIES
    ReadReturns
    HangUpNoticed
    CalledOnce
    PendingKept
    ReadersWatched
    TimeoutServed
    WaitingIsWatched

\* Calls of eSL_ReadMessage end at the bound, and event_dispatch may return.
CHECK_DEADLOCK FALSE
