--------------------------- MODULE MCRemoteControl ---------------------------
(* Instances of RemoteControl for TLC. *)
EXTENDS RemoteControl

(* "turn_on"; "turn_off"; the longest text that fits a frame, and the
   shortest that does not; "turn_on" followed by 256 other bytes.          *)
AllKinds == {"on", "off", "edge", "long", "wrap"}
TextSize == [on |-> 7, off |-> 8, edge |-> 117, long |-> 118, wrap |-> 263]
TextSays == [on |-> "on", off |-> "off", edge |-> "other", long |-> "other",
             wrap |-> "other"]
TextSaysCut == [on |-> "on", off |-> "off", edge |-> "other", long |-> "other",
                wrap |-> "on"]
SecondIsNoText == {2}
=============================================================================
