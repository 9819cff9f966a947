---------------------------- MODULE MCEasyLinkRx ----------------------------
(***************************************************************************)
(* Instances of the driver.  Buffers hold Chunks = 2 pairs instead of 16.  *)
(***************************************************************************)
EXTENDS EasyLinkRx

MCChannels == {6}
MCReip == <<<<192, 168>>, <<1, 7>>, <<128, 0>>>>

-----------------------------------------------------------------------------
(* One sender and the multicast DNS of the neighbourhood (224.0.0.251, which
   looks like a channel frame).  The one-byte SSID is padded. *)

MCSsid == <<104>>
MCPwd  == <<112, 119>>
MCNoise == {[a3 |-> 0, a4 |-> 0, a5 |-> 251]}

-----------------------------------------------------------------------------
(* A password that fills uPwd: 4 bytes here, 31 or 32 in the source. *)

MCPwdFull == <<112, 119, 100, 49>>

=============================================================================
