---------------------------- MODULE MCMinFraming ----------------------------
(* Instances of MinFraming for TLC. *)
EXTENDS MinFraming, FiniteSets

(* A stand-in for the CRC that tells sequences apart by the value, the order
   and the number of their bytes, and often yields header bytes in a row.
   How well it tells them apart matters to no property: two hold when every
   checksum passes, and DeliveredAsFramed holds of any function.           *)
StandInSum(bytes) ==
    LET Step(acc, byte) == (acc * 31 + byte + 7) % 1021
        sum == FoldLeft(Step, 1, bytes)
    IN << IF sum % 2 = 0 THEN HEADER_BYTE ELSE sum % 251,
          HEADER_BYTE,
          sum \div 4,
          IF sum % 3 = 0 THEN HEADER_BYTE ELSE sum % 4 >>

SomePayloads == {<< >>, <<HEADER_BYTE>>, <<HEADER_BYTE, HEADER_BYTE, STUFF_BYTE>>,
                 <<1, HEADER_BYTE, HEADER_BYTE>>, <<1, 1, 1, 1>>}
SomeNoise == {HEADER_BYTE, STUFF_BYTE, 1, 3, 200}
=============================================================================
