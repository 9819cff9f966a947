SPECIFICATION FairSpec
CONSTANTS
    a = a
    b = b
    Listen = Listen
    Clients <- OneClient
    MaxMsgs = 0
    Resets = FALSE
    Whole = TRUE
    MaxFds = 2
    EPOLL_EVENT_NUM = 3
    Failures <- NoFailures
PROPERTIES
    FinishedReturns
CHECK_DEADLOCK FALSE
