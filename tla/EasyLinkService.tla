-------------------------- MODULE EasyLinkService --------------------------
(***************************************************************************)
(* What the driver promises the daemon: a sequence of announcements, at    *)
(* most one of each kind and in any order, each carrying the sender's      *)
(* data.  How frames are heard and put together is not visible.            *)
(***************************************************************************)
EXTENDS Sequences, Naturals

CONSTANTS
    Kind,           \* the kinds of announcements
    Payload(_)      \* the data an announcement of a kind may carry

VARIABLE announced  \* sequence of [kind, data]

Init == announced = <<>>

Announce(k) ==
    /\ \A i \in 1 .. Len(announced) : announced[i].kind # k
    /\ \E d \in Payload(k) :
         announced' = Append(announced, [kind |-> k, data |-> d])

Next == \E k \in Kind : Announce(k)

Spec == Init /\ [][Next]_announced
=============================================================================
