--------------------------- MODULE MCSocketServer ---------------------------
(***************************************************************************)
(* Instances of the socket server in which its threads are scheduled.      *)
(***************************************************************************)
EXTENDS SocketServer

CONSTANTS a, b

OneClient == {a}
TwoClients == {a, b}
NoFailures == {}
AllFailures == {"init", "epoll_create", "epoll_ctl", "malloc"}
=============================================================================
