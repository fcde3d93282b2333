----------------------------- MODULE MCGateway -----------------------------
(* Instances of Gateway for TLC. *)
EXTENDS Gateway

NoFaults == {}
AllFaults == FaultKinds
QueryFault == {"queryErr"}
(* Connections that come up without an announcement. *)
Unannounced == {"noConnRsp", "lateConnect"}
OneMalformed == {2}
NoMalformed == {}
=============================================================================
