SPECIFICATION MCSpec

CONSTANTS
    Messages <- MCMessages
    Noise = {}
    RX_MAX_LENGTH = 256
    CursorMod = 17
    MaxCalls = 1

    FD_SETSIZE = 2
    NoFile = 2
    ListenFd = 0
    BACKLOG = 1

    reader = reader
    writer = writer
    both = both
    Events = {reader, writer, both}
    EvFd <- MCEvFd
    EvEvents <- MCEvEvents
    Null = Null
    Delays = {1}
    TIMEOUT_DEFAULT = 1
    SetupCalls = 2
    CallbackCalls = 1

PROPERTIES
    DeletedIsNotCalled

\* Calls of eSL_ReadMessage end at the bound, and event_dispatch may return.
CHECK_DEADLOCK FALSE
