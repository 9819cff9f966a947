----------------------------- MODULE MCGatewayDB -----------------------------
(* The database with one or two keys of each kind.  A behaviour exercises the
   calls about rooms or the calls about profiles: no function reads or writes
   tables of both sides, they only share the devices.  A third kind of behaviour
   has the calls about devices alone, with several updates in a row; beside the
   other calls one update is made. *)
EXTENDS GatewayDB

VARIABLE side

MCShippedRooms == <<11>>

\* A report of the values, the online column alone and the append text.
MCMasks == {DEVICEISONLINE + DEVICEONOFF + DEVICEVALUE1 + DEVICEVALUE2, DEVICEISONLINE, DEVICEAPPEND}

MCInit == Init /\ side \in {"devices", "rooms", "profiles"}
MCNext ==
    /\ \/ Reopen
       \/ DeviceCalls
       \/ side = "rooms" /\ RoomCalls
       \/ side = "profiles" /\ ProfileCalls
    /\ side = "devices" \/ clock' <= 1
    /\ UNCHANGED side
MCSpec == MCInit /\ [][MCNext]_<<dbVars, side>>
=============================================================================
