--------------------------- MODULE MCGatewayLive ---------------------------
(* Instance of GatewayLive for TLC. *)
EXTENDS GatewayLive

UploadFaults == {"pubErr", "rowErr"}
NoMalformed == {}
=============================================================================
