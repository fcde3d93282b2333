------------------------------- MODULE LoraRx -------------------------------
(***************************************************************************)
(* The SPI input of original_data_read_thread: SpiIf::read (interface.rs)  *)
(* polls the registers of an SX1276 radio that receives on its own.        *)
(*                                                                         *)
(* Packets are numbered in the order in which the radio receives them; the *)
(* register RX_CURRENT_ADDR names the last packet by its start, the        *)
(* register RX_NB_BYTES by its size, so that both are represented by the   *)
(* number of the packet.  The FIFO is taken to be large enough for the     *)
(* bytes of a packet to be there while it is read.                         *)
(***************************************************************************)
EXTENDS Naturals, Sequences

CONSTANTS
    Kinds,       (* the kinds of packets the radio may receive             *)
    MaxPackets,  (* bound: packets received                                *)
    MaxFailures  (* bound: failing SPI transfers                           *)

(* text    at least 5 bytes, valid UTF-8 after the 4 bytes of header
   other   at least 4 bytes, not UTF-8 or nothing after the header
   short   fewer than 4 bytes
   and the same, received with a wrong CRC.                                *)
Corrupt == {"crcText", "crcOther", "crcShort"}
PacketKinds == {"text", "other", "short"} \cup Corrupt
Readable == {"text", "crcText"}
Short == {"short", "crcShort"}

ASSUME LoraAssumption ==
    /\ Kinds \subseteq PacketKinds
    /\ MaxPackets \in Nat
    /\ MaxFailures \in Nat

VARIABLES
    packets,   (* kinds of the packets received so far                     *)
    rxDone,    (* REG_IRQ_FLAGS: a packet was received                     *)
    crcError,  (* REG_IRQ_FLAGS: one had a wrong CRC                       *)
    pc,        (* next transfer of the thread, "dead" once it panicked     *)
    addr,      (* current_addr: the packet whose bytes will be read        *)
    count,     (* received_count: the packet whose size was read           *)
    intact,    (* no byte of the buffer was replaced by 0                  *)
    delivered, (* messages sent to original_data_handle_thread             *)
    hit,       (* history: packets that arrived while another was read     *)
    failures   (* history: how many SPI transfers failed                   *)

radioVars == <<packets, hit>>
flagVars == <<rxDone, crcError>>
bufVars == <<addr, count, intact>>
vars == <<radioVars, flagVars, bufVars, pc, delivered, failures>>

PacketNo == 1..MaxPackets
Last == Len(packets)

LoraTypeOK ==
    /\ packets \in Seq(Kinds)
    /\ rxDone \in BOOLEAN
    /\ crcError \in BOOLEAN
    /\ pc \in {"irq", "addr", "count", "ptr", "clear", "dead"}
    /\ addr \in 0..Last
    /\ count \in 0..Last
    /\ intact \in BOOLEAN
    /\ delivered \in Seq([from : 1..Last, size : 1..Last, intact : BOOLEAN])
    /\ hit \subseteq 1..Last
    /\ failures \in 0..MaxFailures

(* setup_lora leaves the radio receiving continuously. *)
Init ==
    /\ packets = << >> /\ hit = {}
    /\ rxDone = FALSE /\ crcError = FALSE
    /\ pc = "irq"
    /\ addr = 0 /\ count = 0 /\ intact = TRUE
    /\ delivered = << >>
    /\ failures = 0

(* The radio receives a packet: the flags of earlier ones stay set. *)
Receive(kind) ==
    /\ Last < MaxPackets
    /\ packets' = Append(packets, kind)
    /\ rxDone' = TRUE
    /\ crcError' = (crcError \/ kind \in Corrupt)
    /\ hit' = IF pc \in {"irq", "dead"} THEN hit ELSE hit \cup {Last + 1}
    /\ UNCHANGED <<bufVars, pc, delivered, failures>>

Fails == failures < MaxFailures /\ failures' = failures + 1

(* A transfer before the reading of the bytes fails: read() returns Err and
   the thread calls it again.                                              *)
TransferFails ==
    /\ pc \in {"irq", "addr", "count", "ptr"}
    /\ pc' = "irq"
    /\ Fails
    /\ UNCHANGED <<radioVars, flagVars, bufVars, delivered>>

(* Mutant: the check of the CRC flag is left out. *)
WorthReadingAny == rxDone
WorthReading == rxDone /\ ~crcError

(* Mutant: the flags are cleared as soon as they are known. *)
FlagsWhileReadingClear == FALSE
FlagsWhileReading == rxDone

(* set_mode_rx, then REG_IRQ_FLAGS: without RX_DONE, or with a CRC error,
   read() returns Err; the flags stay as they are.                         *)
ReadIrqFlags ==
    /\ pc = "irq"
    /\ IF WorthReading
       THEN pc' = "addr" /\ rxDone' = FlagsWhileReading
       ELSE UNCHANGED <<pc, rxDone>>
    /\ UNCHANGED <<radioVars, crcError, bufVars, delivered, failures>>

ReadCurrentAddr ==
    /\ pc = "addr"
    /\ addr' = Last
    /\ pc' = "count"
    /\ UNCHANGED <<radioVars, flagVars, count, intact, delivered, failures>>

(* Mutant: the size is that of the packet still to come. *)
SizeReadNext == Last + 1
SizeRead == Last

ReadNbBytes ==
    /\ pc = "count"
    /\ count' = SizeRead
    /\ pc' = "ptr"
    /\ UNCHANGED <<radioVars, flagVars, addr, intact, delivered, failures>>

(* REG_FIFO_ADDR_PTR is written and received_count bytes are read from there.
   A byte that cannot be read becomes 0.                                   *)
ReadFifo ==
    /\ pc = "ptr"
    /\ pc' = "clear"
    /\ \/ intact' = TRUE /\ UNCHANGED failures
       \/ intact' = FALSE /\ Fails
    /\ UNCHANGED <<radioVars, flagVars, addr, count, delivered>>

(* buffer[4..received_count] panics if the count is less than 4. *)
Panics == packets[count] \in Short

(* What String::from_utf8 may say of the buffer: the bytes of one packet cut
   to the size of another, or with a 0 among them, may be text or not.     *)
TextResults ==
    IF addr = count /\ intact THEN {packets[addr] \in Readable}
    ELSE BOOLEAN

(* Mutant: the flags are left as they are. *)
FlagsAfterReadKept == rxDone
FlagsAfterRead == FALSE

(* REG_IRQ_FLAGS is written to clear all flags, a failure is only logged;
   then the text is sent to the handling thread.                           *)
ClearAndDeliver ==
    /\ pc = "clear"
    /\ \/ rxDone' = FlagsAfterRead /\ crcError' = FALSE /\ UNCHANGED failures
       \/ Fails /\ UNCHANGED flagVars
    /\ \/ Panics /\ pc' = "dead" /\ UNCHANGED delivered
       \/ /\ ~Panics
          /\ pc' = "irq"
          /\ \E isText \in TextResults :
                 delivered' =
                     IF isText
                     THEN Append(delivered, [from |-> addr, size |-> count,
                                             intact |-> intact])
                     ELSE delivered
    /\ UNCHANGED <<radioVars, bufVars>>

Reader ==
    \/ ReadIrqFlags \/ ReadCurrentAddr \/ ReadNbBytes \/ ReadFifo
    \/ ClearAndDeliver

Next ==
    \/ \E kind \in Kinds : Receive(kind)
    \/ TransferFails
    \/ Reader

Spec == Init /\ [][Next]_vars

(* The thread polls for ever. *)
FairSpec == Spec /\ WF_vars(Reader)

-----------------------------------------------------------------------------
(* Properties *)

(* A message has the size of the packet its bytes come from unless another
   packet arrived in the middle of the reading; messages come in the order of
   arrival, and one is delivered again at most as often as a transfer failed
   (the flags could not be cleared).                                       *)
WholePacketsInOrder ==
    /\ \A i \in DOMAIN delivered :
           delivered[i].from # delivered[i].size => delivered[i].size \in hit
    /\ \A i, j \in DOMAIN delivered : i < j =>
           \/ delivered[i].from < delivered[j].from
           \/ /\ delivered[i].from = delivered[j].from
              /\ j - i <= failures

(* A packet with a CRC error is never taken for a message, and its size never
   stops the thread, unless it arrives in the middle of the reading of another
   one: the flags were read before.                                        *)
NoCorruptMessage ==
    /\ \A i \in DOMAIN delivered :
           packets[delivered[i].from] \in Corrupt => delivered[i].from \in hit
    /\ pc = "dead" /\ packets[count] \in Corrupt => count \in hit

Heard(q) == \E i \in DOMAIN delivered : delivered[i].from = q

Overtaken(q) == Last > q \/ pc = "dead" \/ (addr = q /\ ~intact)

(* A text that came while nothing was being read gets delivered, whatever
   transfers fail on the way, unless one of its bytes cannot be read, another
   packet takes its place, the thread is dead or a CRC error is on record.  *)
LastTextHeard ==
    \A q \in PacketNo :
        (Last = q /\ packets[q] = "text" /\ q \notin hit)
            ~> (Heard(q) \/ Overtaken(q) \/ crcError)

(* README.md:82-98 has the gateway read the texts a device sends to the radio:
   a CRC error of an earlier packet is not to stand in the way for ever.   *)
TextHeardAfterCrcError ==
    \A q \in PacketNo :
        (Last = q /\ packets[q] = "text" /\ q \notin hit)
            ~> (Heard(q) \/ Overtaken(q))

=============================================================================
