--------------------------- MODULE MCChannelBridge ---------------------------
(***************************************************************************)
(* Two slots for two consumers and the peers' Links, an outbox of two, a   *)
(* Resource in each direction.                                             *)
(***************************************************************************)
EXTENDS ChannelBridge

CONSTANTS alice, bob, upload, download

TwoConsumers == {alice, bob}
UpResources == {upload}
DownResources == {download}
=============================================================================
