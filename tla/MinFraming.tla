----------------------------- MODULE MinFraming -----------------------------
(***************************************************************************)
(* The framing of the serial line between the gateway and a device         *)
(* (arduino/UNO/min/min.c, built with NO_TRANSPORT_PROTOCOL): one end      *)
(* sends frames with min_send_frame, the other gives the bytes it reads to *)
(* min_poll.  The line may corrupt, lose or add bytes.                     *)
(*                                                                         *)
(* The CRC-32 is a parameter: any function from the bytes it covers to     *)
(* four bytes, so that the framing is right for whatever bytes it yields.  *)
(***************************************************************************)
EXTENDS Naturals, Sequences, SequencesExt

CONSTANTS
    Checksum(_),  (* the four bytes of the CRC over a sequence of bytes    *)
    Payloads,     (* the payloads that may be sent                         *)
    Ids,          (* the identifiers they may be sent with                 *)
    NoiseBytes,   (* the bytes noise may put on the line                   *)
    TxSpace,      (* what min_tx_space returns                             *)
    MAX_PAYLOAD,  (* longest payload the receiver accepts                  *)
    MaxFrames,    (* bound: frames sent                                    *)
    MaxNoise      (* bound: bytes corrupted, lost or added by the line     *)

Byte == 0..255
HEADER_BYTE == 170
STUFF_BYTE == 85
EOF_BYTE == 85

ASSUME FramingAssumption ==
    /\ TxSpace \in Byte
    /\ MAX_PAYLOAD \in Byte
    /\ Payloads \subseteq Seq(Byte)
    /\ \A p \in Payloads : Len(p) <= MAX_PAYLOAD
    /\ Ids \subseteq 0..63
    /\ \A id \in Ids, p \in Payloads :
        Checksum(<<id, Len(p)>> \o p) \in [1..4 -> Byte]
    /\ NoiseBytes \subseteq Byte
    /\ MaxFrames \in Nat /\ MaxNoise \in Nat

VARIABLES
    sent,     (* frames given to min_send_frame                            *)
    line,     (* bytes on their way                                        *)
    state,    (* rx_frame_state                                            *)
    seen,     (* rx_header_bytes_seen                                      *)
    frame,    (* the frame being received: id, length, payload, checksum   *)
    received, (* frames given to min_application_handler                   *)
    noise,    (* history: how many bytes the line tampered with            *)
    noisy,    (* history: number of the last frame at the time of the last
                 noise, 0 if there was none                                *)
    starts,   (* history: how often the receiver began a frame             *)
    begun     (* history: the bytes taken since it began the frame it is in *)

rxVars == <<state, seen, frame, received, starts, begun>>
lineVars == <<line, noise, noisy>>
vars == <<sent, lineVars, rxVars>>

NoFrame == [id |-> 0, length |-> 0, payload |-> << >>, check |-> << >>]

FramingTypeOK ==
    /\ sent \in Seq([id : Ids, payload : Payloads])
    /\ line \in Seq(Byte)
    /\ state \in {"SEARCHING_FOR_SOF", "RECEIVING_ID_CONTROL", "RECEIVING_LENGTH",
                  "RECEIVING_PAYLOAD", "RECEIVING_CHECKSUM", "RECEIVING_EOF"}
    /\ seen \in 0..2
    /\ frame \in [id : Byte, length : 0..MAX_PAYLOAD, payload : Seq(Byte),
                  check : Seq(Byte)]
    /\ Len(frame.payload) <= frame.length /\ Len(frame.check) <= 4
    /\ received \in Seq([id : 0..63, payload : Seq(Byte)])
    /\ noise \in 0..MaxNoise
    /\ noisy \in 0..Len(sent)
    /\ starts \in Nat
    /\ begun \in Seq(Byte)

Init ==
    /\ sent = << >> /\ line = << >>
    /\ state = "SEARCHING_FOR_SOF" /\ seen = 0 /\ frame = NoFrame
    /\ received = << >>
    /\ noise = 0 /\ noisy = 0 /\ starts = 0 /\ begun = << >>

-----------------------------------------------------------------------------
(* The sending end *)

(* Mutant: the count of header bytes starts anew at three. *)
HeaderCountdownThree == 3
HeaderCountdown == 2

(* stuffed_tx_byte: a stuff byte follows every second header byte in a row. *)
TxByte(out, byte) ==
    IF byte # HEADER_BYTE
    THEN [wire |-> Append(out.wire, byte), countdown |-> HeaderCountdown]
    ELSE IF out.countdown = 1
    THEN [wire |-> out.wire \o <<byte, STUFF_BYTE>>, countdown |-> HeaderCountdown]
    ELSE [wire |-> Append(out.wire, byte), countdown |-> out.countdown - 1]

Stuffing(bytes) == FoldLeft(TxByte, [wire |-> << >>, countdown |-> HeaderCountdown], bytes)

(* on_wire_bytes for a frame without a sequence number *)
Covered(f) == <<f.id, Len(f.payload)>> \o f.payload
Body(f) == Covered(f) \o Checksum(Covered(f))
OnWire(f) ==
    <<HEADER_BYTE, HEADER_BYTE, HEADER_BYTE>> \o Stuffing(Body(f)).wire \o <<EOF_BYTE>>

(* The bytes of a frame without its stuff bytes. *)
OnWireSize(payload) == Len(payload) + 11

(* min_send_frame: a frame for which there is not enough space is left out
   without notice.  A device sends once a second and the gateway ten times at
   most: the line is idle by then.                                         *)
SendFrame(f) ==
    /\ line = << >>
    /\ Len(sent) < MaxFrames
    /\ OnWireSize(f.payload) <= TxSpace
    /\ sent' = Append(sent, f)
    /\ line' = OnWire(f)
    /\ UNCHANGED <<noise, noisy, rxVars>>

-----------------------------------------------------------------------------
(* The line *)

Tamper ==
    /\ noise < MaxNoise
    /\ noise' = noise + 1
    /\ noisy' = Len(sent)
    /\ UNCHANGED <<sent, rxVars>>

LoseByte == line # << >> /\ line' = Tail(line) /\ Tamper

CorruptByte(b) ==
    line # << >> /\ b # Head(line) /\ line' = <<b>> \o Tail(line) /\ Tamper

AddByte(b) == sent # << >> /\ line' = <<b>> \o line /\ Tamper

-----------------------------------------------------------------------------
(* The receiving end *)

(* A byte is taken from the line by rx_byte. *)
Take ==
    /\ line # << >>
    /\ line' = Tail(line)
    /\ UNCHANGED <<sent, noise, noisy>>

(* Mutant: any byte passes for the stuff byte. *)
AfterTwoHeadersLax(byte) ==
    IF byte = HEADER_BYTE THEN "RECEIVING_ID_CONTROL" ELSE state
AfterTwoHeaders(byte) ==
    IF byte = HEADER_BYTE THEN "RECEIVING_ID_CONTROL"
    ELSE IF byte = STUFF_BYTE THEN state
    ELSE "SEARCHING_FOR_SOF"

(* After two header bytes the next is a third one, a stuff byte or an error. *)
ThirdByte ==
    /\ Take
    /\ seen = 2
    /\ seen' = 0
    /\ state' = AfterTwoHeaders(Head(line))
    /\ starts' = IF Head(line) = HEADER_BYTE THEN starts + 1 ELSE starts
    /\ UNCHANGED <<frame, received>>

(* Mutant: header bytes are counted that do not follow each other. *)
HeadersSeenApart(byte) == IF byte = HEADER_BYTE THEN seen + 1 ELSE seen
HeadersSeen(byte) == IF byte = HEADER_BYTE THEN seen + 1 ELSE 0

DataByte(from) ==
    /\ Take
    /\ seen # 2
    /\ seen' = HeadersSeen(Head(line))
    /\ state = from
    /\ UNCHANGED starts

Search ==
    /\ DataByte("SEARCHING_FOR_SOF")
    /\ UNCHANGED <<state, frame, received>>

(* Transport frames, with the top bit set, are ignored. *)
ReceiveId ==
    /\ DataByte("RECEIVING_ID_CONTROL")
    /\ frame' = [NoFrame EXCEPT !.id = Head(line)]
    /\ state' = IF Head(line) >= 128 THEN "SEARCHING_FOR_SOF" ELSE "RECEIVING_LENGTH"
    /\ UNCHANGED received

(* Mutant: the length byte is not checked against the buffer. *)
FitsAlways(length) == TRUE
Fits(length) == length <= MAX_PAYLOAD

ReceiveLength ==
    /\ DataByte("RECEIVING_LENGTH")
    /\ \/ /\ Head(line) = 0
          /\ state' = "RECEIVING_CHECKSUM"
          /\ UNCHANGED frame
       \/ /\ Head(line) > 0 /\ Fits(Head(line))
          /\ state' = "RECEIVING_PAYLOAD"
          /\ frame' = [frame EXCEPT !.length = Head(line)]
       \/ /\ ~Fits(Head(line))
          /\ state' = "SEARCHING_FOR_SOF"
          /\ UNCHANGED frame
    /\ UNCHANGED received

ReceivePayload ==
    /\ DataByte("RECEIVING_PAYLOAD")
    /\ frame' = [frame EXCEPT !.payload = Append(@, Head(line))]
    /\ state' = IF Len(frame'.payload) = frame.length THEN "RECEIVING_CHECKSUM"
                ELSE "RECEIVING_PAYLOAD"
    /\ UNCHANGED received

ChecksumPasses(f) == f.check = Checksum(<<f.id, f.length>> \o f.payload)

ReceiveChecksum ==
    /\ DataByte("RECEIVING_CHECKSUM")
    /\ frame' = [frame EXCEPT !.check = Append(@, Head(line))]
    /\ state' = IF Len(frame'.check) < 4 THEN "RECEIVING_CHECKSUM"
                ELSE IF ChecksumPasses(frame') THEN "RECEIVING_EOF"
                ELSE "SEARCHING_FOR_SOF"
    /\ UNCHANGED received

(* valid_frame_received *)
ReceiveEof ==
    /\ DataByte("RECEIVING_EOF")
    /\ state' = "SEARCHING_FOR_SOF"
    /\ received' = IF Head(line) = EOF_BYTE
                   THEN Append(received, [id |-> frame.id % 64,
                                          payload |-> frame.payload])
                   ELSE received
    /\ UNCHANGED frame

(* rx_byte *)
RxByte ==
    /\ \/ ThirdByte \/ Search \/ ReceiveId \/ ReceiveLength \/ ReceivePayload
       \/ ReceiveChecksum \/ ReceiveEof
    /\ begun' = IF state' = "SEARCHING_FOR_SOF" \/ starts' # starts THEN << >>
                ELSE Append(begun, Head(line))

Next ==
    \/ \E id \in Ids, p \in Payloads : SendFrame([id |-> id, payload |-> p])
    \/ LoseByte
    \/ \E b \in NoiseBytes : CorruptByte(b) \/ AddByte(b)
    \/ RxByte

Spec == Init /\ [][Next]_vars

-----------------------------------------------------------------------------
(* Properties *)

(* Without noise, exactly the frames sent are received once the line is idle;
   noise costs the frame it hits and at most the one after it, however the
   receiver was left by it: the last byte of any frame brings it back.     *)
CleanFramesArrive ==
    line = << >> =>
        IF noise = 0 THEN received = sent
        ELSE IsSuffix(SubSeq(sent, noisy + 2, Len(sent)), received)

(* Two header bytes in a row are followed by a stuff byte, so no payload and no
   checksum looks like the start of a frame (min.c:114, min.c:448): the receiver
   begins a frame where one was sent, and once more for each byte of noise at
   most; and it delivers no more frames than it began, whatever the checksum. *)
StartsAreSent ==
    /\ starts <= Len(sent) + noise
    /\ Len(received) <= starts

(* Whatever the line does, a frame is handed over only if the bytes taken since
   its three header bytes are, one by one, the ones a sender puts on the wire
   for this identifier and this payload: with the checksum it would compute and
   a stuff byte where it would put one (min.c:460, min.c:545, min.c:556).  No
   frame is put together of the rests of two, or of what a lost, an added or a
   changed byte makes of one, unless the bytes themselves have become another
   frame: how seldom that happens is up to the CRC, and nothing is said of it. *)
DeliveredAsFramed ==
    [][received' # received =>
        LET f == [id |-> frame.id, payload |-> frame.payload]
        IN  /\ begun \o <<Head(line)>> = Stuffing(Body(f)).wire \o <<EOF_BYTE>>
            /\ received' = Append(received, [f EXCEPT !.id = @ % 64])
      ]_vars

=============================================================================
