---------------------------- MODULE MCCloudLink ----------------------------
(* Instances of CloudLink for TLC. *)
EXTENDS CloudLink

NoFaults == {}
=============================================================================
