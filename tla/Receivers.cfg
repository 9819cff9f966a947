SPECIFICATION MCSpec
CONSTANTS
    a = a
    b = b
    Listen = Listen
    Clients <- TwoClients
    MaxMsgs = 3
    Resets = TRUE
    Whole = FALSE
    MaxFds = 1
    EPOLL_EVENT_NUM = 2
    Failures <- AllFailures

    Chunks = 3
    Channels <- MCChannels
    Ssid <- MCSsid
    Pwd <- Pwd1
    Passwords <- MCPasswords
    Reip <- MCReip
    Noise <- RetypedNoise
SYMMETRY Symmetry
INVARIANTS
    ServerTypeOK
    Bookkeeping
    
    AcceptedWhole

\* The server may be stopped.
CHECK_DEADLOCK FALSE
