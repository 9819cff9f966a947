--------------------------- MODULE MCEasyConnect ---------------------------
(***************************************************************************)
(* Instances of the whole system.  uPwd and uSSID are 3 pairs, of which    *)
(* the netlink header costs the last one, as it costs 8 of 16 in the       *)
(* source; the sender's 16-byte buffer for the name shrinks to 4 bytes.    *)
(***************************************************************************)
EXTENDS EasyConnect

MCChannels == {1, 2}
MCReip == <<<<192, 168>>, <<1, 7>>, <<128, 0>>>>
MCPwd == <<112, 119>>
MCNoise == {}
MCGarbage == {<<33, 49>>}

\* The name is longer than the sender shows, so only its start is sent.
MCHome == <<104, 111, 109, 101, 49>>
MCSsid == ShownSsid(MCHome, 4)

AP(ssid, auth, psk) == [ssid |-> ssid, auth |-> auth, infra |-> TRUE, psk |-> psk]

HomeAP == AP(MCHome, "WPA", MCPwd)
\* Names that contain what was sent: another key, an unsupported mode.  The
\* first continues it with the garbage behind the daemon's buffer.
Guest == AP(MCSsid \o <<33, 49, 33, 49>>, "WPA", <<120>>)
Wep == AP(MCSsid, "Unknown", MCPwd)
AdHoc == [AP(MCSsid, "OPEN", <<>>) EXCEPT !.infra = FALSE]
MCAPs == {HomeAP, Guest, Wep, AdHoc}
MCHomeAP == {HomeAP}
MCNone == {}

OneChannel == {2}
=============================================================================
