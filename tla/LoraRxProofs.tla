---------------------------- MODULE LoraRxProofs ----------------------------
(***************************************************************************)
(* What the SPI input delivers is a whole packet, in order and without a   *)
(* CRC error, but for the exceptions the properties name: for any number   *)
(* of packets and failing transfers.                                       *)
(*                                                                         *)
(* None of the two properties is inductive, as both are about messages     *)
(* that were delivered and the thread decides over several transfers which *)
(* one comes next.  LoraInv adds what holds of the packet in its hands.    *)
(***************************************************************************)
EXTENDS LoraRx, TLAPS

(* RX_DONE was seen and the packet has an address, a size.                 *)
HasAddr == pc \in {"count", "ptr", "clear"}
HasSize == pc \in {"ptr", "clear"}
Reading == pc = "addr" \/ HasAddr

(* There is a packet to be read, and the registers named one when they were
   read.                                                                   *)
PacketThere ==
    /\ rxDone \/ Reading => Last >= 1
    /\ HasAddr => addr >= 1
    /\ HasSize \/ pc = "dead" => count >= 1

(* What arrived after the address was read, and with it a size that does not
   belong to the address, arrived in the middle of the reading.            *)
LaterIsHit ==
    /\ HasAddr => \A q \in 1..Last : addr < q => q \in hit
    /\ HasSize => addr <= count /\ count <= Last

(* Since message i there were enough failures to deliver its packet again. *)
MayRepeat(i) == Len(delivered) + 1 - i <= failures

(* The packet to be read next, and the one being read, came after all those
   delivered - the flag is set by a packet that came after the flags were
   cleared - or clearing them failed each time.                            *)
NotYetDelivered ==
    \A i \in DOMAIN delivered :
        /\ (rxDone /\ pc = "irq") \/ pc = "addr" =>
               \/ delivered[i].from < Last
               \/ delivered[i].from = Last /\ MayRepeat(i)
        /\ HasAddr =>
               \/ delivered[i].from < addr
               \/ delivered[i].from = addr /\ MayRepeat(i)

(* While CRC_ERROR is clear, and while a packet is read, every packet with a
   CRC error on the record came in the middle of a reading.                *)
CorruptIsHit ==
    Reading \/ ~crcError =>
        \A q \in 1..Last : packets[q] \in Corrupt => q \in hit

Messages(n) == [from : 1..n, size : 1..n, intact : BOOLEAN]

LoraInv ==
    /\ LoraTypeOK /\ PacketThere /\ LaterIsHit /\ NotYetDelivered
    /\ CorruptIsHit /\ WholePacketsInOrder /\ NoCorruptMessage

-----------------------------------------------------------------------------

LEMMA AppendOne ==
    ASSUME NEW S, NEW q \in Seq(S), NEW e \in S
    PROVE  /\ Append(q, e) \in Seq(S)
           /\ Len(Append(q, e)) = Len(q) + 1
           /\ DOMAIN q = 1..Len(q)
           /\ DOMAIN Append(q, e) = 1..(Len(q) + 1)
           /\ \A i \in DOMAIN q : Append(q, e)[i] = q[i]
           /\ Append(q, e)[Len(q) + 1] = e
  OBVIOUS

LEMMA Elements ==
    ASSUME NEW S, NEW T, NEW q \in Seq(S)
    PROVE  /\ \A i \in DOMAIN q : q[i] \in S
           /\ S \subseteq T => q \in Seq(T)
  OBVIOUS

LEMMA MessagesGrow ==
    ASSUME NEW n \in Nat
    PROVE  Messages(n) \subseteq Messages(n + 1)
  BY DEF Messages

LEMMA LoraTypes ==
    LoraTypeOK <=>
        /\ packets \in Seq(Kinds)
        /\ rxDone \in BOOLEAN /\ crcError \in BOOLEAN
        /\ pc \in {"irq", "addr", "count", "ptr", "clear", "dead"}
        /\ addr \in 0..Len(packets) /\ count \in 0..Len(packets)
        /\ intact \in BOOLEAN
        /\ delivered \in Seq(Messages(Len(packets)))
        /\ hit \subseteq 1..Len(packets)
        /\ failures \in 0..MaxFailures
  BY DEF LoraTypeOK, Messages, Last

LEMMA LoraInit == Init => LoraInv
<1> SUFFICES ASSUME Init PROVE LoraInv
  OBVIOUS
<1> USE LoraAssumption DEF Init
<1>1. Last = 0 /\ DOMAIN delivered = {}
  BY DEF Last
<1>2. LoraTypeOK
  <2>1. /\ packets \in Seq(Kinds) /\ delivered \in Seq(Messages(Len(packets)))
        /\ Len(packets) = 0
    OBVIOUS
  <2>2. /\ rxDone \in BOOLEAN /\ crcError \in BOOLEAN /\ intact \in BOOLEAN
        /\ pc \in {"irq", "addr", "count", "ptr", "clear", "dead"}
    OBVIOUS
  <2>3. /\ addr \in 0..Len(packets) /\ count \in 0..Len(packets)
        /\ failures \in 0..MaxFailures /\ hit \subseteq 1..Len(packets)
    BY <2>1
  <2> HIDE DEF Init
  <2> QED
    BY <2>1, <2>2, <2>3, LoraTypes
<1>3. PacketThere /\ LaterIsHit /\ NotYetDelivered /\ CorruptIsHit
  BY <1>1 DEF PacketThere, LaterIsHit, NotYetDelivered, CorruptIsHit,
              Reading, HasAddr, HasSize
<1>4. WholePacketsInOrder /\ NoCorruptMessage
  BY <1>1 DEF WholePacketsInOrder, NoCorruptMessage
<1> QED
  BY <1>2, <1>3, <1>4 DEF LoraInv

(* A packet arrives: Last grows, and no number of a packet is used twice. *)
LEMMA ReceiveKeeps ==
    ASSUME LoraInv, NEW kind \in Kinds, Receive(kind)
    PROVE  LoraInv'
<1> USE LoraAssumption
<1>1. /\ LoraTypeOK /\ PacketThere /\ LaterIsHit /\ NotYetDelivered
      /\ CorruptIsHit /\ WholePacketsInOrder /\ NoCorruptMessage
  BY DEF LoraInv
<1>2. /\ Len(packets) \in Nat
      /\ Len(packets)' = Len(packets) + 1
      /\ packets' \in Seq(Kinds)
      /\ \A q \in 1..Len(packets) : packets'[q] = packets[q]
      /\ packets'[Len(packets) + 1] = kind
  BY <1>1, AppendOne DEF Receive, LoraTypeOK
<1>3. /\ rxDone' = TRUE
      /\ crcError' = (crcError \/ kind \in Corrupt)
      /\ hit' = IF pc \in {"irq", "dead"} THEN hit
                ELSE hit \cup {Len(packets) + 1}
      /\ pc' = pc /\ addr' = addr /\ count' = count /\ intact' = intact
      /\ delivered' = delivered /\ failures' = failures
  BY DEF Receive, bufVars, Last
<1>4. delivered \in Seq(Messages(Len(packets)))
  BY <1>1, LoraTypes
<1>5. \A i \in DOMAIN delivered : delivered[i].from \in 1..Len(packets)
  <2>1. \A i \in DOMAIN delivered : delivered[i] \in Messages(Len(packets))
    BY <1>4, Elements
  <2> QED
    BY <2>1 DEF Messages
<1>6. LoraTypeOK'
  <2>1. delivered \in Seq(Messages(Len(packets) + 1))
    BY <1>2, <1>4, Elements, MessagesGrow
  <2>2. delivered' \in Seq(Messages(Len(packets)'))
    BY <1>2, <1>3, <2>1
  <2>3. /\ addr' \in 0..Len(packets)' /\ count' \in 0..Len(packets)'
        /\ hit' \subseteq 1..Len(packets)'
    BY <1>1, <1>2, <1>3, LoraTypes
  <2>4. /\ rxDone' \in BOOLEAN /\ crcError' \in BOOLEAN
        /\ intact' \in BOOLEAN /\ failures' \in 0..MaxFailures
        /\ pc' \in {"irq", "addr", "count", "ptr", "clear", "dead"}
    BY <1>1, <1>3, LoraTypes
  <2> QED
    BY <1>2, <2>2, <2>3, <2>4 DEF LoraTypeOK, Messages, Last
<1>7. PacketThere'
  BY <1>1, <1>2, <1>3 DEF PacketThere, Reading, HasAddr, HasSize, Last
<1>8. LaterIsHit'
  BY <1>1, <1>2, <1>3 DEF LaterIsHit, HasAddr, HasSize, Last, LoraTypeOK
<1>9. NotYetDelivered'
  <2>1. \A i \in DOMAIN delivered : MayRepeat(i)' <=> MayRepeat(i)
    BY <1>3 DEF MayRepeat
  <2>2. \A i \in DOMAIN delivered : delivered[i].from < Last'
    BY <1>2, <1>5 DEF Last
  <2>3. \A i \in DOMAIN delivered :
            HasAddr => \/ delivered[i].from < addr
                       \/ delivered[i].from = addr /\ MayRepeat(i)
    BY <1>1 DEF NotYetDelivered
  <2> QED
    BY <1>3, <2>1, <2>2, <2>3 DEF NotYetDelivered, HasAddr
<1>10. CorruptIsHit'
  <2>1. ASSUME Reading' \/ ~crcError', NEW q \in 1..Len(packets)',
               packets'[q] \in Corrupt
        PROVE  q \in hit'
    <3>1. CASE q \in 1..Len(packets)
      BY <1>1, <1>2, <1>3, <2>1, <3>1 DEF CorruptIsHit, Reading, HasAddr, Last
    <3>2. CASE q = Len(packets) + 1
      BY <1>1, <1>2, <1>3, <2>1, <3>2 DEF Reading, HasAddr, LoraTypeOK
    <3> QED
      BY <1>2, <2>1, <3>1, <3>2
  <2> QED
    BY <2>1 DEF CorruptIsHit, Last
<1>11. WholePacketsInOrder'
  BY <1>1, <1>3 DEF WholePacketsInOrder
<1>12. NoCorruptMessage'
  <2>1. pc = "dead" => count \in 1..Len(packets)
    BY <1>1 DEF PacketThere, LoraTypeOK, Last
  <2> QED
    BY <1>1, <1>2, <1>3, <1>5, <2>1 DEF NoCorruptMessage
<1> QED
  BY <1>6, <1>7, <1>8, <1>9, <1>10, <1>11, <1>12 DEF LoraInv

(* A transfer that delivers nothing moves the thread on. *)
LEMMA TransferKeeps ==
    ASSUME LoraInv,
           TransferFails \/ ReadIrqFlags \/ ReadCurrentAddr \/ ReadNbBytes
           \/ ReadFifo
    PROVE  LoraInv'
<1> USE LoraAssumption DEF radioVars, flagVars, bufVars, Last
<1>1. /\ LoraTypeOK /\ PacketThere /\ LaterIsHit /\ NotYetDelivered
      /\ CorruptIsHit /\ WholePacketsInOrder /\ NoCorruptMessage
  BY DEF LoraInv
<1>2. packets' = packets /\ hit' = hit /\ delivered' = delivered
  BY DEF TransferFails, ReadIrqFlags, ReadCurrentAddr, ReadNbBytes, ReadFifo
<1>3. failures' = failures \/ failures' = failures + 1
  BY DEF TransferFails, ReadIrqFlags, ReadCurrentAddr, ReadNbBytes, ReadFifo,
         Fails
<1>4. Len(packets) \in Nat /\ failures \in Nat
  BY <1>1 DEF LoraTypeOK
<1>10. /\ delivered \in Seq(Messages(Len(packets)))
       /\ DOMAIN delivered \subseteq Nat
  BY <1>1, <1>4, LoraTypes
<1>5. WholePacketsInOrder' /\ NoCorruptMessage'
  <2>1. pc' # "dead"
    BY DEF TransferFails, ReadIrqFlags, ReadCurrentAddr, ReadNbBytes, ReadFifo
  <2> QED
    BY <1>1, <1>2, <1>3, <1>4, <1>10, <2>1 DEF WholePacketsInOrder, NoCorruptMessage
<1>6. LoraTypeOK'
  <2>1. delivered' \in Seq(Messages(Len(packets)'))
    BY <1>1, <1>2, LoraTypes
  <2>2. /\ packets' \in Seq(Kinds) /\ hit' \subseteq 1..Len(packets)'
        /\ addr' \in 0..Len(packets)' /\ count' \in 0..Len(packets)'
    BY <1>1, <1>2, <1>4, LoraTypes
    DEF TransferFails, ReadIrqFlags, ReadCurrentAddr, ReadNbBytes, ReadFifo,
        SizeRead
  <2>3. failures' \in 0..MaxFailures
    BY <1>1, LoraTypes
    DEF TransferFails, ReadIrqFlags, ReadCurrentAddr, ReadNbBytes, ReadFifo,
        Fails
  <2>4. /\ rxDone \in BOOLEAN /\ crcError \in BOOLEAN /\ intact \in BOOLEAN
        /\ pc \in {"irq", "addr", "count", "ptr", "clear", "dead"}
    BY <1>1, LoraTypes
  <2>5. /\ rxDone' \in BOOLEAN /\ crcError' \in BOOLEAN
        /\ intact' \in BOOLEAN
        /\ pc' \in {"irq", "addr", "count", "ptr", "clear", "dead"}
    BY <2>4, ZenonT(30)
    DEF TransferFails, ReadIrqFlags, ReadCurrentAddr, ReadNbBytes, ReadFifo,
        FlagsWhileReading
  <2> QED
    BY <2>1, <2>2, <2>3, <2>5 DEF LoraTypeOK, Messages
<1>7. PacketThere' /\ LaterIsHit'
  BY <1>1, <1>2, <1>4
  DEF PacketThere, LaterIsHit, Reading, HasAddr, HasSize, LoraTypeOK,
      TransferFails, ReadIrqFlags, ReadCurrentAddr, ReadNbBytes, ReadFifo,
      WorthReading, FlagsWhileReading, SizeRead
<1>8. NotYetDelivered'
  <2>1. \A i \in DOMAIN delivered : MayRepeat(i) => MayRepeat(i)'
    <3>1. Len(delivered) \in Nat
      BY <1>10
    <3> QED
      BY <1>2, <1>3, <1>4, <1>10, <3>1 DEF MayRepeat
  <2>2. ASSUME NEW i \in DOMAIN delivered, NEW f, f = delivered[i].from
        PROVE  /\ (rxDone' /\ pc' = "irq") \/ pc' = "addr" =>
                      f < Last \/ (f = Last /\ MayRepeat(i)')
               /\ HasAddr' => f < addr' \/ (f = addr' /\ MayRepeat(i)')
    <3>1. f \in Nat /\ f <= Last /\ addr \in Nat /\ addr <= Last
      <4>1. delivered[i] \in Messages(Len(packets))
        BY <1>10, Elements
      <4>2. delivered[i].from \in 1..Len(packets)
        BY <4>1 DEF Messages
      <4> QED
        BY <1>1, <1>4, <2>2, <4>2 DEF LoraTypeOK
    <3>2. /\ (rxDone /\ pc = "irq") \/ pc = "addr" =>
                 f < Last \/ (f = Last /\ MayRepeat(i)')
          /\ HasAddr => f < addr \/ (f = addr /\ MayRepeat(i)')
      BY <1>1, <2>1, <2>2 DEF NotYetDelivered
    <3>3. CASE TransferFails
      BY <1>4, <3>1, <3>2, <3>3 DEF TransferFails, HasAddr
    <3>4. CASE ReadIrqFlags
      BY <3>2, <3>4 DEF ReadIrqFlags, WorthReading, FlagsWhileReading, HasAddr
    <3>5. CASE ReadCurrentAddr
      BY <3>2, <3>5 DEF ReadCurrentAddr, HasAddr
    <3>6. CASE ReadNbBytes \/ ReadFifo
      BY <3>2, <3>6 DEF ReadNbBytes, ReadFifo, HasAddr
    <3> QED
      BY <3>3, <3>4, <3>5, <3>6
  <2> QED
    BY <1>2, <2>2 DEF NotYetDelivered
<1>9. CorruptIsHit'
  BY <1>1, <1>2
  DEF CorruptIsHit, Reading, HasAddr, TransferFails, ReadIrqFlags,
      ReadCurrentAddr, ReadNbBytes, ReadFifo, WorthReading
<1> QED
  BY <1>5, <1>6, <1>7, <1>8, <1>9 DEF LoraInv

(* The message handed over: the exceptions are those of the packet that was
   being read, and unless a transfer fails here the flags are clear again. *)
LEMMA DeliverKeeps ==
    ASSUME LoraInv, ClearAndDeliver
    PROVE  LoraInv'
<1> USE LoraAssumption DEF radioVars, flagVars, bufVars, Last
<1> DEFINE msg == [from |-> addr, size |-> count, intact |-> intact]
<1>1. /\ LoraTypeOK /\ PacketThere /\ LaterIsHit /\ NotYetDelivered
      /\ CorruptIsHit /\ WholePacketsInOrder /\ NoCorruptMessage
  BY DEF LoraInv
<1>2. /\ packets' = packets /\ hit' = hit
      /\ addr' = addr /\ count' = count /\ intact' = intact
      /\ pc = "clear" /\ pc' \in {"irq", "dead"}
  BY DEF ClearAndDeliver
<1>3. \/ rxDone' = FALSE /\ crcError' = FALSE /\ failures' = failures
      \/ /\ failures' = failures + 1 /\ failures < MaxFailures
         /\ rxDone' = rxDone /\ crcError' = crcError
  BY DEF ClearAndDeliver, Fails, FlagsAfterRead
<1>4. delivered' = delivered \/ delivered' = Append(delivered, msg)
  BY DEF ClearAndDeliver
<1>5. /\ Len(packets) \in Nat /\ failures \in Nat
      /\ addr \in 1..Len(packets) /\ count \in 1..Len(packets)
      /\ delivered \in Seq(Messages(Len(packets)))
      /\ msg \in Messages(Len(packets))
  BY <1>1, <1>2, LoraTypes DEF PacketThere, HasAddr, HasSize, Messages
<1> HIDE DEF msg
<1>6. /\ delivered' \in Seq(Messages(Len(packets)))
      /\ DOMAIN delivered = 1..Len(delivered) /\ Len(delivered) \in Nat
  BY <1>4, <1>5, AppendOne
<1>7. \A i \in DOMAIN delivered' :
          \/ i \in DOMAIN delivered /\ delivered'[i] = delivered[i]
          \/ delivered'[i] = msg /\ i = Len(delivered) + 1
  <2>1. CASE delivered' = delivered
    BY <2>1
  <2>2. CASE delivered' = Append(delivered, msg)
    <3>1. /\ DOMAIN delivered' = 1..(Len(delivered) + 1)
          /\ \A i \in DOMAIN delivered : delivered'[i] = delivered[i]
          /\ delivered'[Len(delivered) + 1] = msg
      BY <1>5, <2>2, AppendOne
    <3> QED
      BY <1>6, <3>1
  <2> QED
    BY <1>4, <2>1, <2>2
<1> USE DEF msg
<1>8. LoraTypeOK'
  <2>1. /\ packets' \in Seq(Kinds) /\ hit' \subseteq 1..Len(packets)'
        /\ addr' \in 0..Len(packets)' /\ count' \in 0..Len(packets)'
        /\ delivered' \in Seq(Messages(Len(packets)'))
    BY <1>1, <1>2, <1>6, LoraTypes
  <2>2. failures' \in 0..MaxFailures
    BY <1>1, <1>3, LoraTypes
  <2>3. rxDone \in BOOLEAN /\ crcError \in BOOLEAN /\ intact \in BOOLEAN
    BY <1>1, LoraTypes
  <2>4. /\ rxDone' \in BOOLEAN /\ crcError' \in BOOLEAN
        /\ intact' \in BOOLEAN
        /\ pc' \in {"irq", "addr", "count", "ptr", "clear", "dead"}
    BY <1>2, <1>3, <2>3, Zenon
  <2> QED
    BY <2>1, <2>2, <2>4 DEF LoraTypeOK, Messages
<1>9. PacketThere' /\ LaterIsHit'
  BY <1>2, <1>5, <1>3 DEF PacketThere, LaterIsHit, Reading, HasAddr, HasSize
<1>14. Len(delivered)' = Len(delivered) \/ Len(delivered)' = Len(delivered) + 1
  BY <1>4, <1>5, AppendOne
<1>15. ASSUME NEW i \in DOMAIN delivered, delivered[i].from = addr
       PROVE  MayRepeat(i)
  BY <1>1, <1>2, <1>5, <1>15 DEF NotYetDelivered, HasAddr
<1>16. \A i \in DOMAIN delivered : delivered[i].from <= addr
  <2>1. \A i \in DOMAIN delivered : delivered[i].from < addr \/ delivered[i].from = addr
    BY <1>1, <1>2 DEF NotYetDelivered, HasAddr
  <2>2. \A i \in DOMAIN delivered : delivered[i].from \in Nat
    <3>1. \A i \in DOMAIN delivered : delivered[i] \in Messages(Len(packets))
      BY <1>5, Elements
    <3> QED
      BY <1>5, <3>1 DEF Messages
  <2> QED
    BY <1>5, <2>1, <2>2
<1>10. NotYetDelivered'
  <2>1. CASE rxDone' = FALSE
    BY <1>2, <2>1 DEF NotYetDelivered, HasAddr
  <2>2. CASE failures' = failures + 1
    <3>1. ASSUME NEW i \in DOMAIN delivered'
          PROVE  delivered'[i].from < Last \/ (delivered'[i].from = Last /\ MayRepeat(i)')
      <4>1. CASE i \in DOMAIN delivered /\ delivered'[i] = delivered[i]
        <5>1. delivered[i].from \in Nat /\ delivered[i].from <= addr
          <6>1. delivered[i] \in Messages(Len(packets))
            BY <1>5, <4>1, Elements
          <6> QED
            BY <1>5, <1>16, <4>1, <6>1 DEF Messages
        <5>2. CASE delivered[i].from = addr
          <6>1. MayRepeat(i)'
            <7>1. MayRepeat(i) /\ i \in Nat
              BY <1>6, <1>15, <4>1, <5>2
            <7>2. Len(delivered) \in Nat /\ failures \in Nat
              BY <1>5, <1>6
            <7> QED
              BY <1>14, <2>2, <7>1, <7>2 DEF MayRepeat
          <6>2. addr < Last \/ addr = Last
            BY <1>5
          <6> QED
            BY <4>1, <5>2, <6>1, <6>2
        <5>3. CASE delivered[i].from < addr
          <6>1. \A f \in Nat : f < addr => f < Last
            BY <1>5
          <6> QED
            BY <4>1, <5>1, <5>3, <6>1
        <5> QED
          BY <1>5, <5>1, <5>2, <5>3
      <4>2. CASE delivered'[i] = msg /\ i = Len(delivered) + 1
        <5>1. MayRepeat(i)'
          BY <1>5, <1>6, <1>14, <2>2, <4>2 DEF MayRepeat
        <5> QED
          BY <1>5, <4>2, <5>1
      <4> QED
        BY <1>7, <4>1, <4>2
    <3> QED
      BY <1>2, <3>1 DEF NotYetDelivered, HasAddr
  <2> QED
    BY <1>3, <2>1, <2>2
<1>11. CorruptIsHit'
  BY <1>1, <1>2, <1>3 DEF CorruptIsHit, Reading, HasAddr
<1>12. WholePacketsInOrder'
  <2>1. addr # count => count \in hit
    BY <1>1, <1>2, <1>5 DEF LaterIsHit, HasAddr, HasSize
  <2>2. \A i \in DOMAIN delivered' :
            delivered'[i].from # delivered'[i].size =>
                delivered'[i].size \in hit'
    BY <1>1, <1>2, <1>7, <2>1 DEF WholePacketsInOrder
  <2>3. ASSUME NEW i \in DOMAIN delivered',
               NEW j \in DOMAIN delivered', i < j
        PROVE  \/ delivered'[i].from < delivered'[j].from
               \/ /\ delivered'[i].from = delivered'[j].from
                  /\ j - i <= failures'
    <3>3. i \in Nat /\ j \in Nat /\ j \in DOMAIN delivered'
      BY <1>6, <2>3
    <3>4. i \in DOMAIN delivered /\ delivered'[i] = delivered[i]
      BY <1>6, <1>7, <2>3, <3>3
    <3>5. CASE j \in DOMAIN delivered /\ delivered'[j] = delivered[j]
      BY <1>1, <1>3, <1>5, <2>3, <3>3, <3>4, <3>5 DEF WholePacketsInOrder
    <3>6. CASE delivered'[j] = msg /\ j = Len(delivered) + 1
      <4>1. delivered[i].from \in Nat /\ delivered[i].from <= addr
        <5>1. delivered[i] \in Messages(Len(packets))
          BY <1>5, <3>4, Elements
        <5> QED
          BY <1>5, <1>16, <3>4, <5>1 DEF Messages
      <4>2. delivered[i].from = addr => j - i <= failures'
        BY <1>3, <1>5, <1>6, <1>15, <3>3, <3>4, <3>6 DEF MayRepeat
      <4> QED
        BY <1>5, <3>4, <3>6, <4>1, <4>2
    <3> QED
      BY <1>7, <2>3, <3>5, <3>6
  <2> QED
    BY <2>2, <2>3 DEF WholePacketsInOrder
<1>13. NoCorruptMessage'
  <2>1. /\ packets[addr] \in Corrupt => addr \in hit
        /\ packets[count] \in Corrupt => count \in hit
    BY <1>1, <1>2, <1>5 DEF CorruptIsHit, Reading, HasAddr
  <2> QED
    BY <1>1, <1>2, <1>7, <2>1 DEF NoCorruptMessage
<1> QED
  BY <1>8, <1>9, <1>10, <1>11, <1>12, <1>13 DEF LoraInv

LEMMA LoraStep == LoraInv /\ [Next]_vars => LoraInv'
<1> SUFFICES ASSUME LoraInv, [Next]_vars PROVE LoraInv'
  OBVIOUS
<1>1. CASE UNCHANGED vars
  <2> USE <1>1 DEF vars, radioVars, flagVars, bufVars, Last
  <2>1. LoraTypeOK' /\ PacketThere' /\ LaterIsHit' /\ CorruptIsHit'
    BY DEF LoraInv, LoraTypeOK, PacketThere, LaterIsHit, CorruptIsHit, Reading,
           HasAddr, HasSize
  <2>2. NotYetDelivered'
    BY DEF LoraInv, NotYetDelivered, MayRepeat, HasAddr
  <2>3. WholePacketsInOrder' /\ NoCorruptMessage'
    BY DEF LoraInv, WholePacketsInOrder, NoCorruptMessage
  <2> QED
    BY <2>1, <2>2, <2>3 DEF LoraInv
<1>2. ASSUME NEW kind \in Kinds, Receive(kind) PROVE LoraInv'
  BY <1>2, ReceiveKeeps
<1>3. CASE TransferFails \/ Reader
  BY <1>3, TransferKeeps, DeliverKeeps DEF Reader
<1> QED
  BY <1>1, <1>2, <1>3 DEF Next

LEMMA LoraInvariance == Spec => []LoraInv
<1> QED
  BY LoraInit, LoraStep, PTL DEF Spec

-----------------------------------------------------------------------------

(* Type correctness: what is delivered always names packets that the radio
   received, whatever a register held before the first one.                *)
THEOREM LoraTypeCorrect == Spec => []LoraTypeOK
<1>1. LoraInv => LoraTypeOK
  BY DEF LoraInv
<1> QED
  BY <1>1, LoraInvariance, PTL

(* A message is cut to the size of another packet only if that one arrived
   between two transfers of the reading; messages come in the order of the
   packets, each again at most as often as a transfer failed.              *)
THEOREM PacketsAreWhole == Spec => []WholePacketsInOrder
<1>1. LoraInv => WholePacketsInOrder
  BY DEF LoraInv
<1> QED
  BY <1>1, LoraInvariance, PTL

(* A packet with a CRC error is taken for a message, or stops the thread by
   its size, only if it arrived between two transfers of the reading of
   another one.                                                            *)
THEOREM CorruptStaysOut == Spec => []NoCorruptMessage
<1>1. LoraInv => NoCorruptMessage
  BY DEF LoraInv
<1> QED
  BY <1>1, LoraInvariance, PTL

=============================================================================
