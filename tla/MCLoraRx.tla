------------------------------ MODULE MCLoraRx ------------------------------
(* Instances of LoraRx for TLC. *)
EXTENDS LoraRx

AllKinds == PacketKinds
TextAndNoise == {"text", "crcText", "crcOther"}
=============================================================================
