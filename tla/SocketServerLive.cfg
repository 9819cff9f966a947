SPECIFICATION FairSpec
CONSTANTS
    a = a
    b = b
    Listen = Listen
    Clients <- TwoClients
    MaxMsgs = 1
    Resets = TRUE
    Whole = TRUE
    MaxFds = 2
    EPOLL_EVENT_NUM = 3
    Failures <- AllFailures
PROPERTIES
    QueuedIsAccepted
    StopsThread
CHECK_DEADLOCK FALSE
