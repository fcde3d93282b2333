-------------------------- MODULE MinFramingProofs --------------------------
(***************************************************************************)
(* What the framing of the serial line promises, for every checksum, every *)
(* set of payloads and any number of frames and of tampered bytes.         *)
(***************************************************************************)
EXTENDS MinFraming, Integers, SequenceTheorems, TLAPS

Folds == INSTANCE FoldProofs WITH Op <- LAMBDA out, byte, c : TxByte(out, byte)

-----------------------------------------------------------------------------
(* The invariant *)

Frame == [id : Ids, payload : Payloads]

(* The checksum is compared with what the frame says; what has come of the
   payload and of the checksum is less than what is awaited.               *)
AsAwaited ==
    /\ state = "RECEIVING_LENGTH" =>
        frame.length = 0 /\ frame.payload = << >> /\ frame.check = << >>
    /\ state = "RECEIVING_PAYLOAD" =>
        Len(frame.payload) < frame.length /\ frame.check = << >>
    /\ state = "RECEIVING_CHECKSUM" => Len(frame.check) < 4

FramingTypeInv ==
    /\ FramingTypeOK
    /\ AsAwaited
    /\ sent = << >> => line = << >>
    /\ noise = 0 => noisy = 0

(* The frame sent last is sent after the last noise; so was the one before. *)
Untouched == noise = 0 \/ noisy < Len(sent)
InStep == sent # << >> /\ (noise = 0 \/ noisy + 2 <= Len(sent))

(* An untouched frame ends in a byte that is no header byte. *)
EndsWell ==
    Untouched =>
        IF line = << >> THEN seen = 0 ELSE line[Len(line)] = EOF_BYTE

(* The header bytes from n + 1, the body with its stuff bytes, the last byte. *)
Headers(n) == [i \in 1..3 - n |-> HEADER_BYTE]
Wire(f) == Stuffing(Body(f)).wire
End == <<EOF_BYTE>>

(* What is still to come of the wire after k bytes of the body. *)
Start(bytes, k) == Stuffing(SubSeq(bytes, 1, k))
Left(bytes, k) ==
    SubSeq(Stuffing(bytes).wire, Len(Start(bytes, k).wire) + 1, Len(Stuffing(bytes).wire))

(* The receiver has understood k bytes of the body. *)
Buffer(f, length, payload, check) ==
    [id |-> f.id, length |-> length, payload |-> payload, check |-> check]
Decoded(f, k) ==
    LET L == Len(f.payload)
        C == Checksum(Covered(f))
    IN  /\ k = 0 => state = "RECEIVING_ID_CONTROL"
        /\ k = 1 => state = "RECEIVING_LENGTH" /\ frame = Buffer(f, 0, << >>, << >>)
        /\ k \in 2..L + 1 =>
            /\ state = "RECEIVING_PAYLOAD"
            /\ frame = Buffer(f, L, SubSeq(f.payload, 1, k - 2), << >>)
        /\ k \in L + 2..L + 5 =>
            /\ state = "RECEIVING_CHECKSUM"
            /\ frame = Buffer(f, L, f.payload, SubSeq(C, 1, k - 2 - L))
        /\ k = L + 6 => state = "RECEIVING_EOF" /\ frame = Buffer(f, L, f.payload, C)

(* The receiver waits for header n + 1 of the frame, *)
AtHeader(f, n) ==
    /\ seen = n
    /\ line = Headers(n) \o Wire(f) \o End
(* for the byte of the body after the first k, or the end of the frame, *)
AtByte(f, k) ==
    /\ seen = 2 - Start(Body(f), k).countdown
    /\ line = Left(Body(f), k) \o End
    /\ Decoded(f, k)
(* for the stuff byte after them, *)
AtStuff(f, k) ==
    /\ seen = 2
    /\ Start(Body(f), k).countdown = 2
    /\ line = <<STUFF_BYTE>> \o Left(Body(f), k) \o End
    /\ Decoded(f, k)
(* or for another frame. *)
Follows(f) ==
    \/ \E n \in 0..2 : AtHeader(f, n)
    \/ \E k \in 0..Len(Body(f)) : AtByte(f, k) \/ AtStuff(f, k)
    \/ line = << >> /\ seen = 0

(* The frames sent in step are received, in order and after any others. *)
FirstInStep == IF noise = 0 THEN 1 ELSE noisy + 2
Arrived == IF line = << >> THEN Len(sent) ELSE Len(sent) - 1
ReceivedInStep ==
    \E others \in Seq([id : 0..63, payload : Seq(Byte)]) :
        /\ received = others \o SubSeq(sent, FirstInStep, Arrived)
        /\ noise = 0 => others = << >>

CleanInv ==
    /\ EndsWell
    /\ InStep => /\ \A f \in Frame : f = sent[Len(sent)] => Follows(f)
                 /\ ReceivedInStep
    /\ sent = << >> => received = << >>

-----------------------------------------------------------------------------
(* Sequences *)

Cat(p, q) == p \o q

LEMMA CatProperties ==
    ASSUME NEW T
    PROVE  \A p, q \in Seq(T) :
               /\ Cat(p, q) \in Seq(T)
               /\ Len(Cat(p, q)) = Len(p) + Len(q)
               /\ \A i \in 1..Len(p) + Len(q) :
                      Cat(p, q)[i] = IF i <= Len(p) THEN p[i] ELSE q[i - Len(p)]
<1> SUFFICES ASSUME NEW p \in Seq(T), NEW q \in Seq(T)
             PROVE  /\ p \o q \in Seq(T)
                    /\ Len(p \o q) = Len(p) + Len(q)
                    /\ \A i \in 1..Len(p) + Len(q) :
                           (p \o q)[i] = IF i <= Len(p) THEN p[i] ELSE q[i - Len(p)]
  BY DEF Cat
<1> QED
  BY ConcatProperties

LEMMA CatIsGrouped ==
    ASSUME NEW T
    PROVE  \A p, q, r \in Seq(T) : Cat(Cat(p, q), r) = Cat(p, Cat(q, r))
<1> SUFFICES ASSUME NEW p \in Seq(T), NEW q \in Seq(T), NEW r \in Seq(T)
             PROVE  (p \o q) \o r = p \o (q \o r)
  BY DEF Cat
<1> QED
  BY ConcatAssociative, SMTT(30)

LEMMA AppendToCat ==
    ASSUME NEW T
    PROVE  \A p, q \in Seq(T) : \A e \in T : Append(Cat(p, q), e) = Cat(p, Append(q, e))
<1> SUFFICES ASSUME NEW p \in Seq(T), NEW q \in Seq(T), NEW e \in T
             PROVE  Append(p \o q, e) = p \o Append(q, e)
  BY DEF Cat
<1>1. p \o q \in Seq(T)
  BY ConcatProperties
<1>2. <<e>> \in Seq(T)
  OBVIOUS
<1>3. Append(p \o q, e) = (p \o q) \o <<e>>
  BY <1>1, AppendIsConcat
<1>4. Append(q, e) = q \o <<e>>
  BY AppendIsConcat
<1>5. (p \o q) \o <<e>> = p \o (q \o <<e>>)
  BY <1>2, ConcatAssociative, SMTT(30)
<1>6. QED
  BY <1>3, <1>4, <1>5

(* What comes after the first of two sequences put together is the second. *)
LEMMA RestOfCat ==
    ASSUME NEW T, NEW p \in Seq(T), NEW q \in Seq(T)
    PROVE  SubSeq(Cat(p, q), Len(p) + 1, Len(Cat(p, q))) = q
<1> DEFINE whole == Cat(p, q)
           m == Len(p) + 1
           n == Len(p) + Len(q)
           rest == SubSeq(whole, m, n)
<1>0. Len(p) \in Nat /\ Len(q) \in Nat
  OBVIOUS
<1>1. /\ whole \in Seq(T) /\ Len(whole) = n
      /\ \A i \in 1..n : whole[i] = IF i <= Len(p) THEN p[i] ELSE q[i - Len(p)]
  BY CatProperties
<1> HIDE DEF whole
<1>2. \A i \in m..n : whole[i] \in T
  BY <1>0, <1>1
<1>3. m \in Int /\ n \in Int /\ (IF m <= n THEN n - m + 1 ELSE 0) = Len(q)
      /\ n - m + 1 = Len(q)
  BY <1>0
<1> HIDE DEF m, n
<1>4. /\ rest \in Seq(T) /\ Len(rest) = Len(q)
      /\ \A i \in 1..Len(q) : rest[i] = whole[m + i - 1]
  BY <1>2, <1>3, SubSeqProperties
<1> HIDE DEF rest
<1>5. ASSUME NEW i \in 1..Len(q) PROVE rest[i] = q[i]
  <2>1. m + i - 1 \in 1..n /\ ~(m + i - 1 <= Len(p)) /\ (m + i - 1) - Len(p) = i
    BY <1>0 DEF m, n
  <2>2. QED
    BY <1>1, <1>4, <2>1
<1>6. rest = q
  BY <1>4, <1>5, SeqEqual
<1>7. QED
  BY <1>1, <1>6 DEF rest, m, n, whole

-----------------------------------------------------------------------------
(* Stuff bytes *)

Out == [wire : Seq(Byte), countdown : 1..2]
Nothing == [wire |-> << >>, countdown |-> HeaderCountdown]

(* What a byte adds to the wire. *)
Added(countdown, byte) ==
    IF byte = HEADER_BYTE /\ countdown = 1 THEN <<byte, STUFF_BYTE>> ELSE <<byte>>

LEMMA BytesAre == HEADER_BYTE \in Byte /\ STUFF_BYTE \in Byte /\ EOF_BYTE \in Byte
  BY DEF HEADER_BYTE, STUFF_BYTE, EOF_BYTE, Byte

LEMMA AddedType ==
    ASSUME NEW countdown, NEW byte \in Byte
    PROVE  Added(countdown, byte) \in Seq(Byte)
<1>1. <<byte>> \in Seq(Byte) /\ <<byte, STUFF_BYTE>> \in Seq(Byte)
  BY BytesAre
<1>2. QED
  BY <1>1 DEF Added

LEMMA TxByteIs ==
    ASSUME NEW out \in Out, NEW byte \in Byte
    PROVE  /\ TxByte(out, byte) \in Out
           /\ TxByte(out, byte).wire = Cat(out.wire, Added(out.countdown, byte))
           /\ TxByte(out, byte).countdown
                  = IF byte = HEADER_BYTE /\ out.countdown = 2 THEN 1 ELSE 2
<1>1. out.wire \in Seq(Byte) /\ out.countdown \in {1, 2}
  BY DEF Out
<1>2. /\ Append(out.wire, byte) = out.wire \o <<byte>> /\ out.wire \o <<byte>> \in Seq(Byte)
      /\ out.wire \o <<byte, STUFF_BYTE>> \in Seq(Byte)
  BY <1>1, BytesAre
<1>3. CASE byte # HEADER_BYTE
  BY <1>1, <1>2, <1>3 DEF TxByte, Cat, Added, Out, HeaderCountdown
<1>4. CASE byte = HEADER_BYTE /\ out.countdown = 1
  BY <1>1, <1>2, <1>4 DEF TxByte, Cat, Added, Out, HeaderCountdown
<1>5. CASE byte = HEADER_BYTE /\ out.countdown = 2
  BY <1>1, <1>2, <1>5 DEF TxByte, Cat, Added, Out
<1>6. QED
  BY <1>1, <1>3, <1>4, <1>5

LEMMA StuffingIs == \A bytes : Stuffing(bytes) = Folds!Fold(Nothing, 0, bytes)
  BY DEF Stuffing, Nothing, Folds!Fold, FoldLeft, MapThenFoldSet, Folds!FoldLeft,
         Folds!MapThenFoldSet, Max, Folds!Max

LEMMA StuffingEmpty == Stuffing(<< >>) = Nothing
  BY StuffingIs, Folds!FoldEmpty

LEMMA StuffingAppend ==
    ASSUME NEW bytes \in Seq(Byte), NEW byte \in Byte
    PROVE  Stuffing(Append(bytes, byte)) = TxByte(Stuffing(bytes), byte)
<1>1. Folds!Fold(Nothing, 0, Append(bytes, byte)) = TxByte(Folds!Fold(Nothing, 0, bytes), byte)
  BY Folds!FoldAppend
<1>2. QED
  BY <1>1, StuffingIs

LEMMA StuffingType == \A bytes \in Seq(Byte) : Stuffing(bytes) \in Out
<1> DEFINE G == {bytes \in Seq(Byte) : Stuffing(bytes) \in Out}
<1>1. << >> \in G
  <2>1. << >> \in Seq(Byte) /\ Nothing \in Out
    BY DEF Nothing, Out, HeaderCountdown
  <2>2. QED
    BY <2>1, StuffingEmpty
<1>2. ASSUME NEW bytes \in Seq(Byte), NEW byte \in Byte, bytes \in G
      PROVE  Append(bytes, byte) \in G
  <2>1. Append(bytes, byte) \in Seq(Byte)
    BY AppendProperties
  <2>2. QED
    BY <1>2, <2>1, StuffingAppend, TxByteIs
<1>3. Seq(Byte) \subseteq G
  <2> HIDE DEF G
  <2>1. QED
    BY <1>1, <1>2, Folds!SequenceInduction
<1>4. QED
  BY <1>3

(* What has been sent of a sequence of bytes does not depend on the rest. *)
LEMMA StuffingGoesOn ==
    ASSUME NEW p \in Seq(Byte), NEW q \in Seq(Byte)
    PROVE  \E more \in Seq(Byte) :
               Stuffing(Cat(p, q)).wire = Cat(Stuffing(p).wire, more)
<1> DEFINE W(z) == Stuffing(z).wire
           G == {z \in Seq(Byte) : \E more \in Seq(Byte) : W(Cat(p, z)) = Cat(W(p), more)}
<1>0. \A z \in Seq(Byte) : W(z) \in Seq(Byte)
  BY StuffingType DEF Out
<1>1. << >> \in G
  <2>1. << >> \in Seq(Byte) /\ Cat(p, << >>) = p
    BY DEF Cat
  <2>2. W(p) \in Seq(Byte)
    BY <1>0
  <2>3. Cat(W(p), << >>) = W(p)
    <3> HIDE DEF W
    <3>1. QED
      BY <2>2 DEF Cat
  <2>4. QED
    BY <2>1, <2>3
<1>2. ASSUME NEW z \in Seq(Byte), NEW byte \in Byte, z \in G
      PROVE  Append(z, byte) \in G
  <2>1. PICK more \in Seq(Byte) : W(Cat(p, z)) = Cat(W(p), more)
    BY <1>2
  <2>2. Cat(p, z) \in Seq(Byte) /\ Append(z, byte) \in Seq(Byte)
    BY CatProperties, AppendProperties
  <2>3. Cat(p, Append(z, byte)) = Append(Cat(p, z), byte)
    BY DEF Cat
  <2> DEFINE new == Added(Stuffing(Cat(p, z)).countdown, byte)
  <2>4. W(Cat(p, Append(z, byte))) = Cat(W(Cat(p, z)), new)
    BY <2>2, <2>3, StuffingAppend, StuffingType, TxByteIs
  <2>5. new \in Seq(Byte) /\ W(p) \in Seq(Byte)
    BY <1>0, AddedType
  <2> HIDE DEF new, W
  <2>6. W(Cat(p, Append(z, byte))) = Cat(W(p), Cat(more, new)) /\ Cat(more, new) \in Seq(Byte)
    BY <2>1, <2>4, <2>5, CatIsGrouped, CatProperties
  <2>7. QED
    BY <2>2, <2>6
<1>3. Seq(Byte) \subseteq G
  <2> HIDE DEF G
  <2>1. QED
    BY <1>1, <1>2, Folds!SequenceInduction
<1>4. QED
  BY <1>3

LEMMA PrefixGrows ==
    ASSUME NEW bytes \in Seq(Byte), NEW k \in 0..Len(bytes) - 1
    PROVE  /\ SubSeq(bytes, 1, k) \in Seq(Byte) /\ bytes[k + 1] \in Byte
           /\ SubSeq(bytes, 1, k + 1) = Append(SubSeq(bytes, 1, k), bytes[k + 1])
<1>1. Len(bytes) \in Nat /\ k \in Nat /\ k + 1 \in 1..Len(bytes)
  OBVIOUS
<1>2. QED
  BY <1>1

LEMMA StartStep ==
    ASSUME NEW bytes \in Seq(Byte), NEW k \in 0..Len(bytes) - 1
    PROVE  /\ Start(bytes, k) \in Out
           /\ Start(bytes, k + 1) = TxByte(Start(bytes, k), bytes[k + 1])
  BY PrefixGrows, StuffingAppend, StuffingType DEF Start

LEMMA LeftIs ==
    ASSUME NEW bytes \in Seq(Byte), NEW k \in 0..Len(bytes)
    PROVE  /\ Left(bytes, k) \in Seq(Byte)
           /\ Stuffing(bytes).wire = Cat(Start(bytes, k).wire, Left(bytes, k))
           /\ Start(bytes, k) \in Out
<1> DEFINE p == SubSeq(bytes, 1, k)
           q == SubSeq(bytes, k + 1, Len(bytes))
<1>1. p \in Seq(Byte) /\ q \in Seq(Byte) /\ Cat(p, q) = bytes
  <2>1. Len(bytes) \in Nat /\ k \in Nat /\ k <= Len(bytes)
    OBVIOUS
  <2>2. /\ p \in Seq(Byte) /\ Len(p) = k
        /\ \A i \in 1..k : p[i] = bytes[i]
    BY <2>1
  <2>3. /\ q \in Seq(Byte) /\ Len(q) = Len(bytes) - k
        /\ \A i \in 1..Len(bytes) - k : q[i] = bytes[k + i]
    BY <2>1
  <2> HIDE DEF p, q
  <2>4. /\ Cat(p, q) \in Seq(Byte) /\ Len(Cat(p, q)) = Len(bytes)
        /\ \A i \in 1..Len(bytes) :
               Cat(p, q)[i] = IF i <= k THEN p[i] ELSE q[i - k]
    <3>1. Len(p) + Len(q) = Len(bytes)
      BY <2>1, <2>2, <2>3
    <3>2. /\ Cat(p, q) \in Seq(Byte) /\ Len(Cat(p, q)) = Len(p) + Len(q)
          /\ \A i \in 1..Len(p) + Len(q) :
                 Cat(p, q)[i] = IF i <= Len(p) THEN p[i] ELSE q[i - Len(p)]
      BY <2>2, <2>3, CatProperties
    <3>3. QED
      BY <2>2, <3>1, <3>2
  <2>5. ASSUME NEW i \in 1..Len(bytes) PROVE Cat(p, q)[i] = bytes[i]
    <3>1. CASE i <= k
      BY <2>1, <2>2, <2>4, <3>1
    <3>2. CASE ~(i <= k)
      <4>1. i - k \in 1..Len(bytes) - k /\ k + (i - k) = i
        BY <2>1, <3>2
      <4>2. QED
        BY <2>3, <2>4, <3>2, <4>1
    <3>3. QED
      BY <3>1, <3>2
  <2>6. Cat(p, q) = bytes
    BY <2>4, <2>5, SeqEqual
  <2>7. QED
    BY <2>2, <2>3, <2>6
<1> HIDE DEF p, q
<1>2. PICK more \in Seq(Byte) : Stuffing(bytes).wire = Cat(Stuffing(p).wire, more)
  BY <1>1, StuffingGoesOn
<1>3. Stuffing(p) \in Out /\ Stuffing(p).wire \in Seq(Byte)
  BY <1>1, StuffingType DEF Out
<1>4. Left(bytes, k) = more
  BY <1>2, <1>3, RestOfCat DEF Left, Start, p
<1>5. QED
  BY <1>2, <1>3, <1>4 DEF Start, p

LEMMA LeftStep ==
    ASSUME NEW bytes \in Seq(Byte), NEW k \in 0..Len(bytes) - 1
    PROVE  Left(bytes, k) = Cat(Added(Start(bytes, k).countdown, bytes[k + 1]),
                                Left(bytes, k + 1))
<1> DEFINE w == Stuffing(bytes).wire
           p == Start(bytes, k).wire
           a == Added(Start(bytes, k).countdown, bytes[k + 1])
           t == Left(bytes, k + 1)
<1>1. k \in 0..Len(bytes) /\ k + 1 \in 0..Len(bytes)
  OBVIOUS
<1>2. t \in Seq(Byte) /\ w = Cat(Start(bytes, k + 1).wire, t)
  BY <1>1, LeftIs
<1>3. Start(bytes, k) \in Out /\ bytes[k + 1] \in Byte
      /\ Start(bytes, k + 1) = TxByte(Start(bytes, k), bytes[k + 1])
  BY PrefixGrows, StartStep
<1>4. p \in Seq(Byte) /\ a \in Seq(Byte) /\ Start(bytes, k + 1).wire = Cat(p, a)
  BY <1>3, TxByteIs, AddedType DEF Out
<1>5. Left(bytes, k) = SubSeq(w, Len(p) + 1, Len(w))
  BY DEF Left
<1> HIDE DEF w, p, a, t
<1>6. w = Cat(p, Cat(a, t)) /\ Cat(a, t) \in Seq(Byte)
  <2>1. \A u, v, z \in Seq(Byte) : Cat(Cat(u, v), z) = Cat(u, Cat(v, z))
    BY CatIsGrouped
  <2>2. \A u, v \in Seq(Byte) : Cat(u, v) \in Seq(Byte)
    BY CatProperties
  <2>3. w = Cat(Cat(p, a), t)
    BY <1>2, <1>4
  <2>4. QED
    BY <1>2, <1>4, <2>1, <2>2, <2>3
<1>7. Left(bytes, k) = Cat(a, t)
  BY <1>4, <1>5, <1>6, RestOfCat
<1>8. QED
  BY <1>7 DEF a, t

LEMMA LeftEnds ==
    ASSUME NEW bytes \in Seq(Byte)
    PROVE  /\ Left(bytes, 0) = Stuffing(bytes).wire /\ Start(bytes, 0) = Nothing
           /\ Left(bytes, Len(bytes)) = << >>
<1>1. SubSeq(bytes, 1, 0) = << >> /\ SubSeq(bytes, 1, Len(bytes)) = bytes /\ Len(bytes) \in Nat
  OBVIOUS
<1>2. Stuffing(bytes).wire \in Seq(Byte)
  BY StuffingType DEF Out
<1>3. Start(bytes, 0) = Nothing /\ Len(Nothing.wire) = 0
  BY <1>1, StuffingEmpty DEF Start, Nothing
<1> DEFINE w == Stuffing(bytes).wire
<1>4. w \in Seq(Byte) /\ Left(bytes, 0) = SubSeq(w, 0 + 1, Len(w))
  BY <1>2, <1>3 DEF Left
<1>5. Left(bytes, Len(bytes)) = SubSeq(w, Len(w) + 1, Len(w))
  BY <1>1 DEF Left, Start
<1> HIDE DEF w
<1>6. SubSeq(w, 0 + 1, Len(w)) = w /\ SubSeq(w, Len(w) + 1, Len(w)) = << >>
  BY <1>4
<1>7. QED
  BY <1>3, <1>4, <1>5, <1>6 DEF w

-----------------------------------------------------------------------------
(* The bytes of a frame *)

LEMMA FrameIs ==
    ASSUME NEW f \in Frame
    PROVE  /\ f = [id |-> f.id, payload |-> f.payload]
           /\ f.id \in 0..63 /\ f.payload \in Seq(Byte) /\ Len(f.payload) \in 0..MAX_PAYLOAD
           /\ Len(f.payload) \in Byte /\ f.id \in Byte
           /\ Checksum(Covered(f)) \in Seq(Byte) /\ Len(Checksum(Covered(f))) = 4
<1>1. f = [id |-> f.id, payload |-> f.payload] /\ f.id \in Ids /\ f.payload \in Payloads
  BY DEF Frame
<1>2. f.id \in 0..63 /\ f.payload \in Seq(Byte) /\ Len(f.payload) <= MAX_PAYLOAD
      /\ MAX_PAYLOAD \in Byte
  BY <1>1, FramingAssumption
<1>3. Len(f.payload) \in 0..MAX_PAYLOAD /\ Len(f.payload) \in Byte /\ f.id \in Byte
  <2>1. Len(f.payload) \in Nat
    BY <1>2, LenProperties
  <2> DEFINE L == Len(f.payload)
  <2>2. L \in Nat /\ L <= MAX_PAYLOAD /\ MAX_PAYLOAD \in Byte /\ f.id \in 0..63
    BY <1>2, <2>1
  <2> HIDE DEF L
  <2>3. L \in 0..MAX_PAYLOAD /\ L \in Byte /\ f.id \in Byte
    BY <2>2 DEF Byte
  <2>4. QED
    BY <2>3 DEF L
<1>4. Checksum(Covered(f)) \in [1..4 -> Byte]
  BY <1>1, FramingAssumption DEF Covered
<1>5. Checksum(Covered(f)) \in Seq(Byte)
  BY <1>4, SeqDef
<1>6. Len(Checksum(Covered(f))) = 4
  BY <1>4, <1>5, LenProperties
<1>7. QED
  BY <1>1, <1>2, <1>3, <1>5, <1>6

LEMMA PayloadLength == ASSUME NEW f \in Frame PROVE Len(f.payload) \in Nat
<1>1. f.payload \in Seq(Byte)
  BY FrameIs
<1>2. QED
  BY <1>1, LenProperties

LEMMA BodyIs ==
    ASSUME NEW f \in Frame
    PROVE  /\ Body(f) \in Seq(Byte)
           /\ Len(Body(f)) = Len(f.payload) + 6
           /\ Body(f)[1] = f.id /\ Body(f)[2] = Len(f.payload)
           /\ \A i \in 1..Len(f.payload) : Body(f)[i + 2] = f.payload[i]
           /\ \A i \in 1..4 :
                  Body(f)[Len(f.payload) + 2 + i] = Checksum(Covered(f))[i]
<1> DEFINE p == f.payload
           h == <<f.id, Len(f.payload)>>
           c == Checksum(Covered(f))
<1>1. p \in Seq(Byte) /\ c \in Seq(Byte) /\ Len(c) = 4 /\ Len(p) \in Nat
  BY FrameIs, PayloadLength
<1>2. h \in Seq(Byte) /\ Len(h) = 2 /\ h[1] = f.id /\ h[2] = Len(p)
  BY FrameIs
<1>3. Covered(f) = Cat(h, p) /\ Body(f) = Cat(Cat(h, p), c)
  BY DEF Covered, Body, Cat
<1> HIDE DEF p, h, c
<1>4. /\ Cat(h, p) \in Seq(Byte) /\ Len(Cat(h, p)) = Len(h) + Len(p)
      /\ \A i \in 1..Len(h) + Len(p) :
             Cat(h, p)[i] = IF i <= Len(h) THEN h[i] ELSE p[i - Len(h)]
  BY <1>1, <1>2, CatProperties
<1> DEFINE hp == Cat(h, p)
<1>5. /\ hp \in Seq(Byte) /\ Len(hp) = 2 + Len(p) /\ hp[1] = h[1] /\ hp[2] = h[2]
      /\ \A i \in 1..Len(p) : hp[i + 2] = p[i]
  BY <1>1, <1>2, <1>4
<1> HIDE DEF hp
<1>6. /\ Cat(hp, c) \in Seq(Byte) /\ Len(Cat(hp, c)) = Len(hp) + Len(c)
      /\ \A i \in 1..Len(hp) + Len(c) :
             Cat(hp, c)[i] = IF i <= Len(hp) THEN hp[i] ELSE c[i - Len(hp)]
  <2>1. hp \in Seq(Byte) /\ c \in Seq(Byte)
    BY <1>1, <1>5
  <2>2. QED
    BY <2>1, CatProperties
<1>7. Len(Cat(hp, c)) = Len(p) + 6
  BY <1>1, <1>5, <1>6
<1>8. Cat(hp, c)[1] = hp[1] /\ Cat(hp, c)[2] = hp[2]
  BY <1>1, <1>5, <1>6
<1>9. \A i \in 1..Len(p) : Cat(hp, c)[i + 2] = hp[i + 2]
  BY <1>1, <1>5, <1>6
<1>10. \A i \in 1..4 : Cat(hp, c)[Len(p) + 2 + i] = c[i]
  BY <1>1, <1>5, <1>6
<1>11. QED
  BY <1>2, <1>3, <1>5, <1>6, <1>7, <1>8, <1>9, <1>10 DEF hp, p, c

LEMMA WireType ==
    ASSUME NEW f \in Frame
    PROVE  Wire(f) \in Seq(Byte)
  BY BodyIs, StuffingType DEF Wire, Out

LEMMA EndType == End \in Seq(Byte) /\ Len(End) = 1 /\ End[1] = EOF_BYTE
  BY BytesAre DEF End

LEMMA HeadersStep ==
    /\ \A n \in 0..3 : Headers(n) \in Seq(Byte)
    /\ \A n \in 0..2 : Headers(n) = Cat(<<HEADER_BYTE>>, Headers(n + 1))
    /\ Headers(3) = << >>
    /\ Headers(0) = <<HEADER_BYTE, HEADER_BYTE, HEADER_BYTE>>
<1>1. Headers(3) = << >> /\ Headers(2) = <<HEADER_BYTE>>
      /\ Headers(1) = <<HEADER_BYTE, HEADER_BYTE>>
      /\ Headers(0) = <<HEADER_BYTE, HEADER_BYTE, HEADER_BYTE>>
  BY DEF Headers
<1>3. ASSUME NEW n \in 0..3
      PROVE  /\ Headers(n) \in Seq(Byte) /\ Len(Headers(n)) = 3 - n
             /\ \A i \in 1..3 - n : Headers(n)[i] = HEADER_BYTE
  <2>1. 3 - n \in Nat
    OBVIOUS
  <2>2. Headers(n) \in [1..3 - n -> Byte]
    BY BytesAre DEF Headers
  <2>3. Headers(n) \in Seq(Byte)
    BY <2>1, <2>2, SeqDef
  <2>4. Len(Headers(n)) = 3 - n
    BY <2>1, <2>2, <2>3, LenProperties
  <2>5. QED
    BY <2>3, <2>4 DEF Headers
<1>4. ASSUME NEW n \in 0..2 PROVE Headers(n) = Cat(<<HEADER_BYTE>>, Headers(n + 1))
  <2> DEFINE h == <<HEADER_BYTE>>
             t == Headers(n + 1)
  <2>1. h \in Seq(Byte) /\ Len(h) = 1 /\ h[1] = HEADER_BYTE
    BY BytesAre
  <2>2. t \in Seq(Byte) /\ Len(t) = 2 - n /\ \A i \in 1..2 - n : t[i] = HEADER_BYTE
    <3>1. n + 1 \in 0..3 /\ 3 - (n + 1) = 2 - n
      OBVIOUS
    <3>2. QED
      BY <1>3, <3>1
  <2> HIDE DEF h, t
  <2>3. /\ Cat(h, t) \in Seq(Byte) /\ Len(Cat(h, t)) = Len(h) + Len(t)
        /\ \A i \in 1..Len(h) + Len(t) :
               Cat(h, t)[i] = IF i <= Len(h) THEN h[i] ELSE t[i - Len(h)]
    BY <2>1, <2>2, CatProperties
  <2>4. ASSUME NEW i \in 1..3 - n PROVE Cat(h, t)[i] = HEADER_BYTE
    <3>1. Cat(h, t)[i] = IF i <= 1 THEN h[i] ELSE t[i - 1]
      BY <2>1, <2>2, <2>3
    <3>2. CASE i <= 1
      BY <2>1, <3>1, <3>2
    <3>3. CASE ~(i <= 1)
      <4>1. i - 1 \in 1..2 - n
        BY <3>3
      <4>2. QED
        BY <2>2, <3>1, <3>3, <4>1
    <3>4. QED
      BY <3>2, <3>3
  <2>5. Headers(n) \in Seq(Byte) /\ Len(Headers(n)) = Len(Cat(h, t))
        /\ \A i \in 1..Len(Headers(n)) : Headers(n)[i] = Cat(h, t)[i]
    <3>1. n \in 0..3
      OBVIOUS
    <3>2. Len(Cat(h, t)) = 3 - n
      BY <2>1, <2>2, <2>3
    <3>3. /\ Headers(n) \in Seq(Byte) /\ Len(Headers(n)) = 3 - n
          /\ \A i \in 1..3 - n : Headers(n)[i] = HEADER_BYTE
      BY <1>3, <3>1
    <3>4. QED
      BY <2>4, <3>2, <3>3
  <2>6. QED
    BY <2>3, <2>5, SeqEqual DEF h, t
<1>5. QED
  BY <1>1, <1>3, <1>4

LEMMA OnWireIs ==
    ASSUME NEW f \in Frame
    PROVE  /\ OnWire(f) \in Seq(Byte) /\ OnWire(f) # << >>
           /\ OnWire(f)[Len(OnWire(f))] = EOF_BYTE
           /\ OnWire(f) = Headers(0) \o Wire(f) \o End
<1>1. OnWire(f) = Cat(Cat(Headers(0), Wire(f)), End)
  BY HeadersStep DEF OnWire, Cat, Wire, End
<1> DEFINE p == Cat(Headers(0), Wire(f))
<1>2. p \in Seq(Byte) /\ Len(p) \in Nat
  BY WireType, HeadersStep, CatProperties, LenProperties
<1> HIDE DEF p
<1>3. /\ Cat(p, End) \in Seq(Byte) /\ Len(Cat(p, End)) = Len(p) + Len(End)
      /\ \A i \in 1..Len(p) + Len(End) :
             Cat(p, End)[i] = IF i <= Len(p) THEN p[i] ELSE End[i - Len(p)]
  BY <1>2, EndType, CatProperties
<1>4. Len(Cat(p, End)) = Len(p) + 1 /\ Cat(p, End)[Len(p) + 1] = EOF_BYTE
  BY <1>2, <1>3, EndType
<1>5. OnWire(f) # << >>
  BY <1>1, <1>2, <1>3, <1>4 DEF p
<1>6. QED
  BY <1>1, <1>3, <1>4, <1>5 DEF p, Cat

-----------------------------------------------------------------------------
(* Types *)

FrameBuffer == [id : Byte, length : 0..MAX_PAYLOAD, payload : Seq(Byte), check : Seq(Byte)]
Received == [id : 0..63, payload : Seq(Byte)]
States == {"SEARCHING_FOR_SOF", "RECEIVING_ID_CONTROL", "RECEIVING_LENGTH",
           "RECEIVING_PAYLOAD", "RECEIVING_CHECKSUM", "RECEIVING_EOF"}

LEMMA FramingInitType == Init => FramingTypeInv
<1> SUFFICES ASSUME Init PROVE FramingTypeInv
  OBVIOUS
<1>1. << >> \in Seq(Frame) /\ << >> \in Seq(Byte) /\ << >> \in Seq(Received) /\ Len(<< >>) = 0
  OBVIOUS
<1>2. MaxNoise \in Nat /\ MAX_PAYLOAD \in Nat
  BY FramingAssumption DEF Byte
<1>3. NoFrame \in FrameBuffer /\ NoFrame.payload = << >> /\ NoFrame.check = << >>
      /\ NoFrame.length = 0
  BY <1>1, <1>2 DEF NoFrame, FrameBuffer, Byte
<1>4. sent \in Seq(Frame) /\ line \in Seq(Byte) /\ frame \in FrameBuffer
      /\ received \in Seq(Received)
  BY <1>1, <1>3 DEF Init
<1>5. FramingTypeOK
  BY <1>1, <1>2, <1>3, <1>4 DEF Init, FramingTypeOK, Frame, FrameBuffer, Received
<1>6. QED
  BY <1>5 DEF Init, FramingTypeInv, AsAwaited

LEMMA TakeType ==
    ASSUME FramingTypeInv, Take
    PROVE  /\ Head(line) \in Byte /\ line' \in Seq(Byte) /\ line # << >>
           /\ UNCHANGED <<sent, noise, noisy>>
           /\ (sent = << >> => line = << >>)'
<1>1. line \in Seq(Byte) /\ line # << >> /\ line' = Tail(line)
  BY DEF FramingTypeInv, FramingTypeOK, Take
<1>2. Head(line) \in Byte /\ Tail(line) \in Seq(Byte)
  BY <1>1, HeadTailProperties
<1>3. sent' # << >>
  BY <1>1 DEF FramingTypeInv, Take
<1>4. QED
  BY <1>1, <1>2, <1>3 DEF Take

(* What a step of the receiver has to keep. *)
RxTypeOK ==
    /\ state \in States /\ seen \in 0..2
    /\ frame \in FrameBuffer
    /\ Len(frame.payload) <= frame.length /\ Len(frame.check) <= 4
    /\ received \in Seq(Received)
    /\ starts \in Nat
    /\ AsAwaited

LEMMA RxTypeSuffices ==
    ASSUME FramingTypeInv, Take, RxTypeOK', begun' \in Seq(Byte) PROVE FramingTypeInv'
<1>1. /\ line' \in Seq(Byte) /\ UNCHANGED <<sent, noise, noisy>>
      /\ (sent = << >> => line = << >>)'
  BY TakeType
<1>2. FramingTypeOK'
  BY <1>1 DEF FramingTypeInv, FramingTypeOK, RxTypeOK, FrameBuffer, States, Received
<1>3. QED
  BY <1>1, <1>2 DEF FramingTypeInv, RxTypeOK

LEMMA FrameFields ==
    ASSUME NEW g \in FrameBuffer
    PROVE  /\ g.id \in Byte /\ g.length \in 0..MAX_PAYLOAD
           /\ g.payload \in Seq(Byte) /\ g.check \in Seq(Byte)
           /\ g.length \in Nat /\ Len(g.payload) \in Nat /\ Len(g.check) \in Nat
           /\ g = [id |-> g.id, length |-> g.length, payload |-> g.payload,
                   check |-> g.check]
<1>1. /\ g.id \in Byte /\ g.length \in 0..MAX_PAYLOAD
      /\ g.payload \in Seq(Byte) /\ g.check \in Seq(Byte)
      /\ g = [id |-> g.id, length |-> g.length, payload |-> g.payload, check |-> g.check]
  BY DEF FrameBuffer
<1>2. Len(g.payload) \in Nat /\ Len(g.check) \in Nat
  BY <1>1, LenProperties
<1>3. QED
  BY <1>1, <1>2

LEMMA RxByteType ==
    ASSUME FramingTypeInv, RxByte PROVE FramingTypeInv'
<1> DEFINE byte == Head(line)
<1>0. Take
  BY DEF RxByte, ThirdByte, DataByte, Search, ReceiveId, ReceiveLength, ReceivePayload,
         ReceiveChecksum, ReceiveEof
<1>1. byte \in Byte
  BY <1>0, TakeType
<1>2. RxTypeOK
  BY DEF FramingTypeInv, FramingTypeOK, RxTypeOK, FrameBuffer, States, Received
<1>16. begun' \in Seq(Byte)
  <2>1. begun \in Seq(Byte)
    BY DEF FramingTypeInv, FramingTypeOK
  <2>2. Append(begun, byte) \in Seq(Byte) /\ << >> \in Seq(Byte)
    BY <1>1, <2>1, AppendProperties
  <2>3. QED
    BY <2>2 DEF RxByte
<1>3. SUFFICES RxTypeOK'
  BY <1>0, <1>16, RxTypeSuffices
<1>4. /\ frame \in FrameBuffer /\ received \in Seq(Received) /\ seen \in 0..2
      /\ Len(frame.payload) <= frame.length /\ Len(frame.check) <= 4 /\ AsAwaited
  BY <1>2 DEF RxTypeOK
<1>5. /\ frame.id \in Byte /\ frame.length \in 0..MAX_PAYLOAD
      /\ frame.payload \in Seq(Byte) /\ frame.check \in Seq(Byte)
      /\ frame.length \in Nat /\ Len(frame.payload) \in Nat /\ Len(frame.check) \in Nat
  BY <1>4, FrameFields
<1>6. ASSUME NEW from, DataByte(from) PROVE seen' \in 0..2
  BY <1>4, <1>6 DEF DataByte, HeadersSeen
<1> HIDE DEF byte
<1>14. starts' \in Nat
  <2>1. starts \in Nat
    BY <1>2 DEF RxTypeOK
  <2>2. starts' = starts \/ starts' = starts + 1
    BY DEF RxByte, ThirdByte, DataByte, Search, ReceiveId, ReceiveLength, ReceivePayload,
           ReceiveChecksum, ReceiveEof
  <2>3. QED
    BY <2>1, <2>2
<1>7. CASE ThirdByte
  <2>1. state' \in States /\ seen' = 0 /\ UNCHANGED <<frame, received>>
        /\ (state' = state \/ state' = "RECEIVING_ID_CONTROL" \/ state' = "SEARCHING_FOR_SOF")
    BY <1>2, <1>7 DEF ThirdByte, AfterTwoHeaders, RxTypeOK, States
  <2>2. QED
    BY <1>14, <1>4, <2>1 DEF RxTypeOK, AsAwaited
<1>8. CASE Search
  <2>1. seen' \in 0..2 /\ UNCHANGED <<state, frame, received>>
    BY <1>6, <1>8 DEF Search
  <2>2. QED
    BY <1>14, <1>2, <2>1 DEF RxTypeOK, AsAwaited
<1>9. CASE ReceiveId
  <2>1. /\ seen' \in 0..2 /\ received' = received
        /\ frame' = [NoFrame EXCEPT !.id = byte]
        /\ state' \in {"SEARCHING_FOR_SOF", "RECEIVING_LENGTH"}
    BY <1>6, <1>9 DEF ReceiveId, byte
  <2>2. MAX_PAYLOAD \in Nat
    BY FramingAssumption DEF Byte
  <2>3. frame' = [id |-> byte, length |-> 0, payload |-> << >>, check |-> << >>]
    BY <2>1 DEF NoFrame
  <2>4. /\ frame' \in FrameBuffer /\ frame'.payload = << >> /\ frame'.check = << >>
        /\ frame'.length = 0
    BY <1>1, <2>2, <2>3 DEF FrameBuffer
  <2>5. Len(<< >>) = 0
    OBVIOUS
  <2>6. QED
    BY <1>14, <1>4, <2>1, <2>4, <2>5 DEF RxTypeOK, AsAwaited, States
<1>10. CASE ReceiveLength
  <2>1. /\ seen' \in 0..2 /\ received' = received /\ state = "RECEIVING_LENGTH"
    BY <1>6, <1>10 DEF ReceiveLength, DataByte
  <2>2. frame.length = 0 /\ frame.payload = << >> /\ frame.check = << >>
    BY <1>4, <2>1 DEF AsAwaited
  <2>3. CASE state' = "RECEIVING_CHECKSUM" /\ UNCHANGED frame
    BY <1>14, <1>4, <2>1, <2>2, <2>3 DEF RxTypeOK, AsAwaited, States
  <2>4. CASE /\ byte > 0 /\ Fits(byte) /\ state' = "RECEIVING_PAYLOAD"
             /\ frame' = [frame EXCEPT !.length = byte]
    <3>1. byte \in 0..MAX_PAYLOAD /\ byte > 0 /\ byte \in Nat
      <4>1. byte \in Nat /\ byte > 0 /\ byte <= MAX_PAYLOAD
        BY <1>1, <2>4 DEF Fits, Byte
      <4>2. MAX_PAYLOAD \in Nat
        BY FramingAssumption DEF Byte
      <4>3. QED
        BY <4>1, <4>2
    <3>2. frame' = [id |-> frame.id, length |-> byte, payload |-> << >>, check |-> << >>]
      BY <1>4, <2>2, <2>4 DEF FrameBuffer
    <3>3. frame' \in FrameBuffer /\ frame'.length = byte /\ frame'.payload = << >>
          /\ frame'.check = << >> /\ Len(<< >>) = 0
      BY <1>5, <2>2, <3>1, <3>2 DEF FrameBuffer
    <3>4. QED
      BY <1>14, <1>4, <2>1, <2>4, <3>1, <3>3 DEF RxTypeOK, AsAwaited, States
  <2>5. CASE state' = "SEARCHING_FOR_SOF" /\ UNCHANGED frame
    BY <1>14, <1>4, <2>1, <2>5 DEF RxTypeOK, AsAwaited, States
  <2>6. QED
    BY <1>10, <2>3, <2>4, <2>5 DEF ReceiveLength, byte
<1>11. CASE ReceivePayload
  <2>1. /\ seen' \in 0..2 /\ received' = received /\ state = "RECEIVING_PAYLOAD"
        /\ frame' = [frame EXCEPT !.payload = Append(@, byte)]
        /\ state' = IF Len(frame'.payload) = frame.length THEN "RECEIVING_CHECKSUM"
                                                          ELSE "RECEIVING_PAYLOAD"
    BY <1>6, <1>11 DEF ReceivePayload, DataByte, byte
  <2>2. Len(frame.payload) < frame.length /\ frame.check = << >>
    BY <1>4, <2>1 DEF AsAwaited
  <2>3. Append(frame.payload, byte) \in Seq(Byte)
        /\ Len(Append(frame.payload, byte)) = Len(frame.payload) + 1
    BY <1>1, <1>5, AppendProperties
  <2>4. /\ frame' \in FrameBuffer /\ frame'.payload = Append(frame.payload, byte)
        /\ frame'.check = << >> /\ frame'.length = frame.length
    BY <1>4, <2>1, <2>2, <2>3 DEF FrameBuffer
  <2>5. Len(<< >>) = 0 /\ Len(frame'.payload) <= frame'.length
    BY <1>5, <2>2, <2>3, <2>4
  <2>6. state' = "RECEIVING_PAYLOAD" => Len(frame'.payload) < frame'.length
    BY <1>5, <2>1, <2>2, <2>3, <2>4
  <2>7. QED
    BY <1>14, <1>4, <2>1, <2>4, <2>5, <2>6 DEF RxTypeOK, AsAwaited, States
<1>12. CASE ReceiveChecksum
  <2>1. /\ seen' \in 0..2 /\ received' = received /\ state = "RECEIVING_CHECKSUM"
        /\ frame' = [frame EXCEPT !.check = Append(@, byte)]
        /\ state' \in {"RECEIVING_CHECKSUM", "RECEIVING_EOF", "SEARCHING_FOR_SOF"}
        /\ state' = "RECEIVING_CHECKSUM" => Len(frame'.check) < 4
    BY <1>6, <1>12 DEF ReceiveChecksum, DataByte, byte
  <2>2. Len(frame.check) < 4
    BY <1>4, <2>1 DEF AsAwaited
  <2>3. Append(frame.check, byte) \in Seq(Byte)
        /\ Len(Append(frame.check, byte)) = Len(frame.check) + 1
    BY <1>1, <1>5, AppendProperties
  <2>4. /\ frame' \in FrameBuffer /\ frame'.check = Append(frame.check, byte)
        /\ frame'.payload = frame.payload /\ frame'.length = frame.length
    BY <1>4, <2>1, <2>3 DEF FrameBuffer
  <2>5. Len(frame'.check) <= 4
    BY <1>5, <2>2, <2>3, <2>4
  <2>6. QED
    BY <1>14, <1>4, <2>1, <2>4, <2>5 DEF RxTypeOK, AsAwaited, States
<1>13. CASE ReceiveEof
  <2>1. /\ seen' \in 0..2 /\ state' = "SEARCHING_FOR_SOF" /\ frame' = frame
        /\ \/ received' = received
           \/ received' = Append(received, [id |-> frame.id % 64, payload |-> frame.payload])
    BY <1>6, <1>13 DEF ReceiveEof
  <2>2. frame.id % 64 \in 0..63
    <3>1. \A n \in Nat : n % 64 \in 0..63
      OBVIOUS
    <3>2. frame.id \in Nat
      <4>1. frame.id \in Byte
        BY <1>5
      <4>2. QED
        BY <4>1 DEF Byte
    <3>3. QED
      BY <3>1, <3>2
  <2>3. [id |-> frame.id % 64, payload |-> frame.payload] \in Received
    BY <1>5, <2>2 DEF Received
  <2>4. received' \in Seq(Received)
    BY <1>4, <2>1, <2>3, AppendProperties
  <2>5. QED
    BY <1>14, <1>4, <2>1, <2>4 DEF RxTypeOK, AsAwaited, States
<1>15. QED
  BY <1>7, <1>8, <1>9, <1>10, <1>11, <1>12, <1>13 DEF RxByte

(* The tampered line is a sequence of bytes still. *)
LEMMA TamperType ==
    ASSUME FramingTypeInv, Tamper, line' \in Seq(Byte), sent # << >>
    PROVE  FramingTypeInv'
<1>1. noise' \in 0..MaxNoise /\ noise' # 0
  BY FramingAssumption DEF Tamper, FramingTypeInv, FramingTypeOK
<1>2. Len(sent) \in Nat
  BY DEF FramingTypeInv, FramingTypeOK
<1>3. noisy' \in 0..Len(sent') /\ UNCHANGED <<sent, state, seen, frame, received>>
      /\ UNCHANGED <<starts, begun>>
  BY <1>2 DEF Tamper, rxVars
<1>4. FramingTypeOK'
  BY <1>1, <1>3 DEF FramingTypeInv, FramingTypeOK
<1>5. QED
  BY <1>1, <1>3, <1>4 DEF FramingTypeInv, AsAwaited

LEMMA TypeInvStep == ASSUME FramingTypeInv, [Next]_vars PROVE FramingTypeInv'
<1>0. line \in Seq(Byte) /\ sent \in Seq(Frame)
  BY DEF FramingTypeInv, FramingTypeOK, Frame
<1>1. ASSUME NEW id \in Ids, NEW p \in Payloads, SendFrame([id |-> id, payload |-> p])
      PROVE  FramingTypeInv'
  <2> DEFINE f == [id |-> id, payload |-> p]
  <2>1. f \in Frame
    BY DEF Frame
  <2> HIDE DEF f
  <2>2. sent' = Append(sent, f) /\ line' = OnWire(f) /\ UNCHANGED <<noise, noisy, rxVars>>
    BY <1>1 DEF SendFrame, f
  <2>3. /\ sent' \in Seq(Frame) /\ Len(sent') = Len(sent) + 1 /\ sent' # << >>
        /\ Len(sent) \in Nat
    BY <1>0, <2>1, <2>2, AppendProperties, LenProperties
  <2>4. line' \in Seq(Byte)
    BY <2>1, <2>2, OnWireIs
  <2>5. noisy' \in 0..Len(sent')
    BY <2>2, <2>3 DEF FramingTypeInv, FramingTypeOK
  <2>6. FramingTypeOK'
    BY <2>2, <2>3, <2>4, <2>5 DEF FramingTypeInv, FramingTypeOK, Frame, rxVars
  <2>7. QED
    BY <2>2, <2>3, <2>6 DEF FramingTypeInv, AsAwaited, rxVars
<1>2. CASE LoseByte
  <2>1. Tamper /\ line # << >> /\ line' = Tail(line)
    BY <1>2 DEF LoseByte
  <2>2. line' \in Seq(Byte) /\ sent # << >>
    BY <1>0, <2>1, HeadTailProperties DEF FramingTypeInv
  <2>3. QED
    BY <2>1, <2>2, TamperType
<1>3. ASSUME NEW b \in NoiseBytes, CorruptByte(b) PROVE FramingTypeInv'
  <2>1. Tamper /\ line # << >> /\ line' = <<b>> \o Tail(line) /\ b \in Byte
    BY <1>3, FramingAssumption DEF CorruptByte
  <2>2. Tail(line) \in Seq(Byte) /\ <<b>> \in Seq(Byte) /\ sent # << >>
    BY <1>0, <2>1, HeadTailProperties DEF FramingTypeInv
  <2>3. line' \in Seq(Byte)
    BY <2>1, <2>2, ConcatProperties
  <2>4. QED
    BY <2>1, <2>2, <2>3, TamperType
<1>4. ASSUME NEW b \in NoiseBytes, AddByte(b) PROVE FramingTypeInv'
  <2>1. Tamper /\ sent # << >> /\ line' = <<b>> \o line /\ b \in Byte
    BY <1>4, FramingAssumption DEF AddByte
  <2>2. <<b>> \in Seq(Byte)
    BY <2>1
  <2>3. line' \in Seq(Byte)
    BY <1>0, <2>1, <2>2, ConcatProperties
  <2>4. QED
    BY <2>1, <2>3, TamperType
<1>5. CASE RxByte
  BY <1>5, RxByteType
<1>6. CASE UNCHANGED vars
  BY <1>6 DEF vars, lineVars, rxVars, FramingTypeInv, FramingTypeOK, AsAwaited
<1>7. QED
  BY <1>1, <1>2, <1>3, <1>4, <1>5, <1>6 DEF Next

LEMMA FramingTypeAlways == Spec => []FramingTypeInv
<1>1. Init => FramingTypeInv
  BY FramingInitType
<1>2. FramingTypeInv /\ [Next]_vars => FramingTypeInv'
  BY TypeInvStep
<1>3. QED
  BY <1>1, <1>2, PTL DEF Spec

(* The receiver's buffer never holds more payload than the length it has
   accepted, nor more than four bytes of checksum, whatever the line does. *)
THEOREM FramingTypeCorrect == Spec => []FramingTypeOK
<1>1. FramingTypeInv => FramingTypeOK
  BY DEF FramingTypeInv
<1>2. QED
  BY <1>1, FramingTypeAlways, PTL

-----------------------------------------------------------------------------
(* A frame in step *)

LEMMA Growing ==
    ASSUME NEW T, NEW s \in Seq(T)
    PROVE  /\ SubSeq(s, 1, 0) = << >> /\ SubSeq(s, 1, Len(s)) = s
           /\ \A n \in 1..Len(s) :
                  /\ SubSeq(s, 1, n) = Append(SubSeq(s, 1, n - 1), s[n])
                  /\ Len(SubSeq(s, 1, n)) = n
<1>1. SubSeq(s, 1, 0) = << >> /\ SubSeq(s, 1, Len(s)) = s
  OBVIOUS
<1>2. ASSUME NEW n \in 1..Len(s)
      PROVE  /\ SubSeq(s, 1, n) = Append(SubSeq(s, 1, n - 1), s[n])
             /\ Len(SubSeq(s, 1, n)) = n
  OBVIOUS
<1>3. QED
  BY <1>1, <1>2

LEMMA WhichAction ==
    ASSUME RxByte
    PROVE  IF seen = 2 THEN ThirdByte
           ELSE /\ state = "SEARCHING_FOR_SOF" => Search
                /\ state = "RECEIVING_ID_CONTROL" => ReceiveId
                /\ state = "RECEIVING_LENGTH" => ReceiveLength
                /\ state = "RECEIVING_PAYLOAD" => ReceivePayload
                /\ state = "RECEIVING_CHECKSUM" => ReceiveChecksum
                /\ state = "RECEIVING_EOF" => ReceiveEof
  BY DEF RxByte, ThirdByte, DataByte, Search, ReceiveId, ReceiveLength, ReceivePayload,
         ReceiveChecksum, ReceiveEof

(* Outside a stuff position the next byte of the body is understood. *)
LEMMA DecodeStep ==
    ASSUME NEW f \in Frame, NEW k \in 0..Len(f.payload) + 5, Decoded(f, k),
           RxByte, seen # 2, Head(line) = Body(f)[k + 1]
    PROVE  Decoded(f, k + 1)' /\ received' = received
<1> DEFINE L == Len(f.payload)
           C == Checksum(Covered(f))
           byte == Head(line)
           n == k + 1
<1>0. /\ f.id \in 0..63 /\ f.payload \in Seq(Byte) /\ L \in 0..MAX_PAYLOAD /\ L \in Nat
      /\ C \in Seq(Byte) /\ Len(C) = 4
  BY FrameIs, PayloadLength
<1>1. /\ byte = Body(f)[k + 1] /\ Body(f)[1] = f.id /\ Body(f)[2] = L
      /\ \A i \in 1..L : Body(f)[i + 2] = f.payload[i]
      /\ \A i \in 1..4 : Body(f)[L + 2 + i] = C[i]
  BY BodyIs
<1>2. k \in Nat /\ (k = 0 \/ k = 1 \/ k \in 2..L + 1 \/ k \in L + 2..L + 5)
  BY <1>0
<1>3. CASE k = 0
  <2>1. ReceiveId /\ byte = f.id
    BY <1>1, <1>3, WhichAction DEF Decoded
  <2>2. /\ received' = received /\ frame' = [NoFrame EXCEPT !.id = f.id]
        /\ state' = "RECEIVING_LENGTH"
    <3>1. ~(f.id >= 128)
      <4>1. \A m \in 0..63 : ~(m >= 128)
        OBVIOUS
      <4>2. QED
        BY <1>0, <4>1
    <3> HIDE DEF L, C
    <3>2. QED
      BY <2>1, <3>1 DEF ReceiveId
  <2>3. frame' = Buffer(f, 0, << >>, << >>)
    BY <2>2 DEF NoFrame, Buffer
  <2>4. n = 1 /\ n \notin 2..L + 1 /\ n \notin L + 2..L + 5 /\ n # L + 6
    BY <1>0, <1>3
  <2> HIDE DEF n
  <2>5. Decoded(f, n)'
    BY <2>2, <2>3, <2>4 DEF Decoded
  <2>6. QED
    BY <2>2, <2>5 DEF n
<1>4. CASE k = 1
  <2>1. ReceiveLength /\ byte = L /\ frame = Buffer(f, 0, << >>, << >>)
    BY <1>1, <1>4, WhichAction DEF Decoded
  <2>2. received' = received /\ Fits(L)
    BY <1>0, <2>1 DEF ReceiveLength, Fits
  <2>3. CASE L = 0
    <3>1. state' = "RECEIVING_CHECKSUM" /\ frame' = frame
      BY <2>1, <2>2, <2>3 DEF ReceiveLength
    <3>2. f.payload = << >> /\ SubSeq(C, 1, 0) = << >>
      BY <1>0, <2>3, EmptySeq
    <3>3. frame' = Buffer(f, L, f.payload, SubSeq(C, 1, 0))
      BY <2>1, <2>3, <3>1, <3>2
    <3>4. n = 2 /\ n \notin 2..L + 1 /\ n \in L + 2..L + 5 /\ n # L + 6 /\ n - 2 - L = 0
          /\ n # 0 /\ n # 1
      BY <1>4, <2>3
    <3> HIDE DEF n
    <3>5. Decoded(f, n)'
      BY <3>1, <3>3, <3>4 DEF Decoded
    <3>6. QED
      BY <2>2, <3>5 DEF n
  <2>4. CASE L # 0
    <3>1. state' = "RECEIVING_PAYLOAD" /\ frame' = [frame EXCEPT !.length = L]
      BY <1>0, <2>1, <2>2, <2>4 DEF ReceiveLength
    <3>2. SubSeq(f.payload, 1, 0) = << >>
      BY <1>0
    <3>3. frame' = Buffer(f, L, SubSeq(f.payload, 1, 0), << >>)
      BY <2>1, <3>1, <3>2 DEF Buffer
    <3>4. n = 2 /\ n \in 2..L + 1 /\ n \notin L + 2..L + 5 /\ n # L + 6 /\ n - 2 = 0
          /\ n # 0 /\ n # 1
      BY <1>0, <1>4, <2>4
    <3> HIDE DEF n
    <3>5. Decoded(f, n)'
      BY <3>1, <3>3, <3>4 DEF Decoded
    <3>6. QED
      BY <2>2, <3>5 DEF n
  <2>5. QED
    BY <2>3, <2>4
<1>5. CASE k \in 2..L + 1
  <2> DEFINE i == k - 1
  <2>1. /\ ReceivePayload /\ frame = Buffer(f, L, SubSeq(f.payload, 1, k - 2), << >>)
    BY <1>5, WhichAction DEF Decoded
  <2>2. i \in 1..L /\ k + 1 = i + 2 /\ k - 2 = i - 1 /\ i \in Nat
    BY <1>0, <1>5
  <2>3. byte = f.payload[i]
    BY <1>1, <2>2
  <2>4. SubSeq(f.payload, 1, i) = Append(SubSeq(f.payload, 1, i - 1), byte)
        /\ Len(SubSeq(f.payload, 1, i)) = i
    BY <1>0, <2>2, <2>3, Growing
  <2>5. /\ received' = received
        /\ frame' = [frame EXCEPT !.payload = Append(@, byte)]
        /\ state' = IF Len(frame'.payload) = frame.length THEN "RECEIVING_CHECKSUM"
                                                          ELSE "RECEIVING_PAYLOAD"
    BY <2>1 DEF ReceivePayload
  <2>6. frame' = Buffer(f, L, SubSeq(f.payload, 1, i), << >>)
    BY <2>1, <2>2, <2>4, <2>5 DEF Buffer
  <2>7. state' = IF i = L THEN "RECEIVING_CHECKSUM" ELSE "RECEIVING_PAYLOAD"
    BY <2>1, <2>4, <2>5, <2>6 DEF Buffer
  <2>8. CASE i = L
    <3>1. SubSeq(f.payload, 1, L) = f.payload /\ SubSeq(C, 1, 0) = << >>
      BY <1>0
    <3>2. n = L + 2 /\ n \notin 2..L + 1 /\ n \in L + 2..L + 5 /\ n # L + 6
          /\ n - 2 - L = 0 /\ n # 0 /\ n # 1
      BY <1>0, <2>2, <2>8
    <3>3. frame' = Buffer(f, L, f.payload, SubSeq(C, 1, 0)) /\ state' = "RECEIVING_CHECKSUM"
      BY <2>6, <2>7, <2>8, <3>1
    <3> HIDE DEF n
    <3>4. Decoded(f, n)'
      BY <3>2, <3>3 DEF Decoded
    <3>5. QED
      BY <2>5, <3>4 DEF n
  <2>9. CASE i # L
    <3>1. n \in 2..L + 1 /\ n \notin L + 2..L + 5 /\ n # L + 6 /\ n - 2 = i
          /\ n # 0 /\ n # 1
      BY <1>0, <2>2, <2>9
    <3>2. state' = "RECEIVING_PAYLOAD"
      BY <2>7, <2>9
    <3> HIDE DEF n, i
    <3>3. Decoded(f, n)'
      BY <2>6, <3>1, <3>2 DEF Decoded
    <3>4. QED
      BY <2>5, <3>3 DEF n
  <2>10. QED
    BY <2>8, <2>9
<1>6. CASE k \in L + 2..L + 5
  <2> DEFINE i == k - 1 - L
  <2>1. /\ ReceiveChecksum /\ frame = Buffer(f, L, f.payload, SubSeq(C, 1, k - 2 - L))
    <3>1. k # 0 /\ k # 1
      BY <1>0, <1>6
    <3>2. QED
      BY <1>6, <3>1, WhichAction DEF Decoded
  <2>2. i \in 1..4 /\ k + 1 = L + 2 + i /\ k - 2 - L = i - 1 /\ i \in Nat
    <3>1. L \in Nat
      BY <1>0
    <3> HIDE DEF L
    <3>2. QED
      BY <1>2, <1>6, <3>1
  <2>3. byte = C[i]
    BY <1>1, <2>2
  <2>4. SubSeq(C, 1, i) = Append(SubSeq(C, 1, i - 1), byte) /\ Len(SubSeq(C, 1, i)) = i
    <3>1. C \in Seq(Byte) /\ i \in 1..Len(C)
      BY <1>0, <2>2
    <3> HIDE DEF C, i
    <3>2. QED
      BY <2>3, <3>1, Growing
  <2>5. /\ received' = received
        /\ frame' = [frame EXCEPT !.check = Append(@, byte)]
        /\ state' = IF Len(frame'.check) < 4 THEN "RECEIVING_CHECKSUM"
                    ELSE IF ChecksumPasses(frame') THEN "RECEIVING_EOF"
                    ELSE "SEARCHING_FOR_SOF"
    BY <2>1 DEF ReceiveChecksum
  <2>6. frame' = Buffer(f, L, f.payload, SubSeq(C, 1, i))
    BY <2>1, <2>2, <2>4, <2>5 DEF Buffer
  <2>7. Len(frame'.check) = i
    BY <2>4, <2>6 DEF Buffer
  <2>8. CASE i = 4
    <3>1. SubSeq(C, 1, 4) = C
      BY <1>0
    <3>2. frame' = Buffer(f, L, f.payload, C)
      BY <2>6, <2>8, <3>1
    <3>3. ChecksumPasses(frame')
      BY <3>2 DEF ChecksumPasses, Buffer, Covered
    <3>4. state' = "RECEIVING_EOF"
      BY <2>5, <2>7, <2>8, <3>3
    <3>5. n \notin 2..L + 1 /\ n \notin L + 2..L + 5 /\ n = L + 6 /\ n # 0 /\ n # 1
      BY <1>0, <2>2, <2>8
    <3> HIDE DEF n
    <3>6. Decoded(f, n)'
      BY <3>2, <3>4, <3>5 DEF Decoded
    <3>7. QED
      BY <2>5, <3>6 DEF n
  <2>9. CASE i # 4
    <3>1. state' = "RECEIVING_CHECKSUM"
      <4>1. i < 4
        <5>1. \A m \in 1..4 : m # 4 => m < 4
          OBVIOUS
        <5>2. QED
          BY <2>2, <2>9, <5>1
      <4>2. Len(frame'.check) < 4
        BY <2>7, <4>1
      <4>3. QED
        BY <2>5, <4>2
    <3>2. n \notin 2..L + 1 /\ n \in L + 2..L + 5 /\ n # L + 6 /\ n - 2 - L = i
          /\ n # 0 /\ n # 1
      BY <1>0, <2>2, <2>9
    <3> HIDE DEF n, i
    <3>3. Decoded(f, n)'
      BY <2>6, <3>1, <3>2 DEF Decoded
    <3>4. QED
      BY <2>5, <3>3 DEF n
  <2>10. QED
    BY <2>8, <2>9
<1>7. QED
  BY <1>2, <1>3, <1>4, <1>5, <1>6

LEMMA PairIs ==
    ASSUME NEW T, NEW x \in T, NEW y \in T PROVE <<x, y>> = Cat(<<x>>, <<y>>)
<1>1. <<x>> \in Seq(T)
  OBVIOUS
<1>2. Append(<<x>>, y) = <<x>> \o <<y>>
  BY <1>1, AppendIsConcat
<1>3. Append(<<x>>, y) = <<x, y>>
  <2> DEFINE p == <<x>>
             a == Append(p, y)
             b == <<x, y>>
  <2>1. p \in Seq(T) /\ Len(p) = 1 /\ p[1] = x
    OBVIOUS
  <2> HIDE DEF p
  <2>2. a \in Seq(T) /\ Len(a) = 2 /\ a[1] = x /\ a[2] = y
    <3>1. /\ a \in Seq(T) /\ Len(a) = Len(p) + 1 /\ a[Len(p) + 1] = y
          /\ \A i \in 1..Len(p) : a[i] = p[i]
      <4>1. \A e \in T : \A q \in Seq(T) :
                /\ Append(q, e) \in Seq(T) /\ Len(Append(q, e)) = Len(q) + 1
                /\ Append(q, e)[Len(q) + 1] = e
                /\ \A i \in 1..Len(q) : Append(q, e)[i] = q[i]
        BY AppendProperties
      <4>2. QED
        BY <2>1, <4>1
    <3> HIDE DEF a
    <3>2. Len(a) = 2 /\ a[2] = y
      BY <2>1, <3>1
    <3>3. a[1] = x
      BY <2>1, <3>1
    <3>4. QED
      BY <3>1, <3>2, <3>3
  <2>3. b \in Seq(T) /\ Len(b) = 2 /\ b[1] = x /\ b[2] = y
    OBVIOUS
  <2> HIDE DEF a, b
  <2>4. \A i \in 1..2 : i = 1 \/ i = 2
    OBVIOUS
  <2>5. \A i \in 1..Len(a) : a[i] = b[i]
    BY <2>2, <2>3, <2>4
  <2>6. a = b
    BY <2>2, <2>3, <2>5, SeqEqual
  <2>7. QED
    BY <2>6 DEF a, b, p
<1>4. QED
  BY <1>2, <1>3 DEF Cat

LEMMA PeelOne ==
    ASSUME NEW h \in Byte, NEW a \in Seq(Byte)
    PROVE  Head(Cat(<<h>>, a)) = h /\ Tail(Cat(<<h>>, a)) = a /\ Cat(<<h>>, a) \in Seq(Byte)
<1>1. <<h>> \in Seq(Byte) /\ Len(<<h>>) = 1 /\ <<h>>[1] = h /\ Len(a) \in Nat
  OBVIOUS
<1> DEFINE p == <<h>>
           s == Cat(p, a)
<1>2. p \in Seq(Byte) /\ Len(p) = 1 /\ p[1] = h
  BY <1>1
<1> HIDE DEF p
<1>3. /\ s \in Seq(Byte) /\ Len(s) = Len(p) + Len(a)
      /\ \A i \in 1..Len(p) + Len(a) : s[i] = IF i <= Len(p) THEN p[i] ELSE a[i - Len(p)]
  BY <1>2, CatProperties
<1>4. Len(s) = 1 + Len(a) /\ s[1] = h
  BY <1>1, <1>2, <1>3
<1>5. ASSUME NEW i \in 1..Len(a) PROVE s[i + 1] = a[i]
  <2>1. i + 1 \in 1..1 + Len(a) /\ ~(i + 1 <= 1) /\ (i + 1) - 1 = i
    BY <1>1
  <2>2. QED
    BY <1>2, <1>3, <2>1
<1> HIDE DEF s
<1>6. s # << >>
  BY <1>1, <1>3, <1>4
<1>7. Head(s) = s[1]
  BY <1>6
<1>8. /\ Tail(s) \in Seq(Byte) /\ Len(Tail(s)) = Len(s) - 1
      /\ \A i \in 1..Len(Tail(s)) : Tail(s)[i] = s[i + 1]
  BY <1>3, <1>6, HeadTailProperties
<1>9. Len(Tail(s)) = Len(a) /\ \A i \in 1..Len(a) : Tail(s)[i] = a[i]
  BY <1>1, <1>4, <1>5, <1>8
<1>10. Tail(s) = a
  BY <1>8, <1>9, SeqEqual
<1>11. QED
  BY <1>3, <1>4, <1>7, <1>10 DEF p, s

LEMMA PeelTwo ==
    ASSUME NEW h \in Byte, NEW a \in Seq(Byte), NEW b \in Seq(Byte)
    PROVE  /\ Head(Cat(Cat(<<h>>, a), b)) = h
           /\ Tail(Cat(Cat(<<h>>, a), b)) = Cat(a, b)
<1>1. \A u, v, w \in Seq(Byte) : Cat(Cat(u, v), w) = Cat(u, Cat(v, w))
  BY CatIsGrouped
<1>2. \A u, v \in Seq(Byte) : Cat(u, v) \in Seq(Byte)
  BY CatProperties
<1>3. <<h>> \in Seq(Byte)
  OBVIOUS
<1>4. Cat(Cat(<<h>>, a), b) = Cat(<<h>>, Cat(a, b)) /\ Cat(a, b) \in Seq(Byte)
  BY <1>1, <1>2, <1>3
<1>5. QED
  BY <1>4, PeelOne

LEMMA PeelThree ==
    ASSUME NEW h \in Byte, NEW a \in Seq(Byte), NEW b \in Seq(Byte), NEW c \in Seq(Byte)
    PROVE  /\ Head(Cat(Cat(Cat(<<h>>, a), b), c)) = h
           /\ Tail(Cat(Cat(Cat(<<h>>, a), b), c)) = Cat(Cat(a, b), c)
<1>1. \A u, v, w \in Seq(Byte) : Cat(Cat(u, v), w) = Cat(u, Cat(v, w))
  BY CatIsGrouped
<1>2. \A u, v \in Seq(Byte) : Cat(u, v) \in Seq(Byte)
  BY CatProperties
<1>3. <<h>> \in Seq(Byte)
  OBVIOUS
<1>4. Cat(Cat(Cat(<<h>>, a), b), c) = Cat(Cat(<<h>>, Cat(a, b)), c)
      /\ Cat(a, b) \in Seq(Byte)
  BY <1>1, <1>2, <1>3
<1> DEFINE ab == Cat(a, b)
           whole == Cat(Cat(Cat(<<h>>, a), b), c)
<1>5. whole = Cat(Cat(<<h>>, ab), c) /\ ab \in Seq(Byte)
  BY <1>4
<1> HIDE DEF ab, whole
<1>6. Head(whole) = h /\ Tail(whole) = Cat(ab, c)
  BY <1>5, PeelTwo
<1>7. QED
  BY <1>6 DEF ab, whole

(* A step of the receiver within a frame, or at its end. *)
Goes(f) == Follows(f)' /\ received' = received /\ line' # << >>
Ends(f) == line' = << >> /\ seen' = 0 /\ received' = Append(received, f)

LEMMA EndIsLast ==
    ASSUME NEW a \in Seq(Byte) PROVE Cat(a, End) # << >>
<1>1. Len(Cat(a, End)) = Len(a) + Len(End) /\ Len(a) \in Nat /\ Cat(a, End) \in Seq(Byte)
  BY EndType, CatProperties, LenProperties
<1>2. Len(Cat(a, End)) # 0
  BY <1>1, EndType
<1>3. QED
  BY <1>1, <1>2

(* The bytes of a frame are those that the receiver waits for. *)
LEMMA NextIsAwaited ==
    /\ HEADER_BYTE # EOF_BYTE /\ HEADER_BYTE # STUFF_BYTE
    /\ 2 - 2 = 0 /\ 2 - 1 = 1 /\ 0 + 1 = 1 /\ 1 + 1 = 2
  BY DEF HEADER_BYTE, EOF_BYTE, STUFF_BYTE

LEMMA HeaderStep ==
    ASSUME FramingTypeInv, NEW f \in Frame, NEW n \in 0..2, AtHeader(f, n), RxByte
    PROVE  Goes(f)
<1>1. line = Cat(Cat(Headers(n), Wire(f)), End) /\ seen = n
  BY DEF AtHeader, Cat
<1>2. Headers(n) = Cat(<<HEADER_BYTE>>, Headers(n + 1)) /\ Headers(n + 1) \in Seq(Byte)
  BY HeadersStep
<1>3. Head(line) = HEADER_BYTE /\ Tail(line) = Cat(Cat(Headers(n + 1), Wire(f)), End)
  BY <1>1, <1>2, PeelThree, WireType, EndType, BytesAre
<1>4. line' = Tail(line)
  BY DEF RxByte, ThirdByte, DataByte, Search, ReceiveId, ReceiveLength, ReceivePayload,
         ReceiveChecksum, ReceiveEof, Take
<1>5. line' = Cat(Cat(Headers(n + 1), Wire(f)), End) /\ line' # << >>
  BY <1>2, <1>3, <1>4, WireType, CatProperties, EndIsLast
<1>6. CASE n = 2
  <2>1. ThirdByte
    BY <1>1, <1>6, WhichAction
  <2>2. seen' = 0 /\ state' = "RECEIVING_ID_CONTROL" /\ received' = received
    BY <1>3, <2>1 DEF ThirdByte, AfterTwoHeaders
  <2>3. Body(f) \in Seq(Byte) /\ Len(Body(f)) \in Nat
    BY BodyIs, LenProperties
  <2>4. Left(Body(f), 0) = Wire(f) /\ Start(Body(f), 0).countdown = 2
    BY <2>3, LeftEnds DEF Wire, Nothing, HeaderCountdown
  <2>5. line' = Left(Body(f), 0) \o End
    <3>1. n + 1 = 3 /\ Headers(3) = << >>
      BY <1>6, HeadersStep
    <3>2. Cat(<< >>, Wire(f)) = Wire(f)
      BY WireType DEF Cat
    <3>3. QED
      BY <1>5, <2>4, <3>1, <3>2 DEF Cat
  <2>6. 0 \in Nat /\ 0 # 1 /\ Len(f.payload) \in Nat
    BY FrameIs, PayloadLength
  <2>7. Decoded(f, 0)'
    <3> DEFINE L == Len(f.payload)
    <3>1. 0 \notin 2..L + 1 /\ 0 \notin L + 2..L + 5 /\ 0 # L + 6
      BY <2>6
    <3>2. QED
      BY <2>2, <3>1 DEF Decoded
  <2>8. AtByte(f, 0)'
    BY <2>2, <2>4, <2>5, <2>7 DEF AtByte
  <2>9. 0 \in 0..Len(Body(f))
    BY <2>3
  <2>10. Follows(f)'
    BY <2>8, <2>9 DEF Follows
  <2>11. QED
    BY <1>5, <2>2, <2>10 DEF Goes
<1>7. CASE n # 2
  <2>1. n + 1 \in 0..2
    BY <1>7
  <2>2. ~ThirdByte
    BY <1>1, <1>7 DEF ThirdByte
  <2>3. seen' = n + 1
    BY <1>1, <1>3, <2>2 DEF RxByte, Search, ReceiveId, ReceiveLength, ReceivePayload,
                            ReceiveChecksum, ReceiveEof, DataByte, HeadersSeen
  <2>4. received' = received
    BY <1>3, <2>2, NextIsAwaited DEF RxByte, Search, ReceiveId, ReceiveLength,
                            ReceivePayload, ReceiveChecksum, ReceiveEof
  <2>5. AtHeader(f, n + 1)'
    BY <1>5, <2>3 DEF AtHeader, Cat
  <2>6. Follows(f)'
    BY <2>1, <2>5 DEF Follows
  <2>7. QED
    BY <1>5, <2>4, <2>6 DEF Goes
<1>8. QED
  BY <1>6, <1>7

LEMMA StuffStep ==
    ASSUME FramingTypeInv, NEW f \in Frame, NEW k \in 0..Len(Body(f)), AtStuff(f, k), RxByte
    PROVE  Goes(f)
<1> DEFINE left == Left(Body(f), k)
<1>1. left \in Seq(Byte)
  BY BodyIs, LeftIs
<1>2. line = Cat(Cat(<<STUFF_BYTE>>, left), End)
  BY DEF AtStuff, Cat
<1> HIDE DEF left
<1>3. Head(line) = STUFF_BYTE /\ Tail(line) = Cat(left, End)
  BY <1>1, <1>2, PeelTwo, EndType, BytesAre
<1>4. ThirdByte
  BY WhichAction DEF AtStuff
<1>5. /\ seen' = 0 /\ state' = state /\ UNCHANGED <<frame, received>>
      /\ line' = Cat(left, End) /\ line' # << >>
  BY <1>1, <1>3, <1>4, NextIsAwaited, EndIsLast DEF ThirdByte, AfterTwoHeaders, Take
<1>6. Decoded(f, k)'
  BY <1>5 DEF AtStuff, Decoded
<1>7. AtByte(f, k)'
  BY <1>5, <1>6, NextIsAwaited DEF AtStuff, AtByte, Cat, left
<1>8. QED
  BY <1>5, <1>7 DEF Goes, Follows

LEMMA ByteStep ==
    ASSUME FramingTypeInv, NEW f \in Frame, NEW k \in 0..Len(Body(f)) - 1,
           AtByte(f, k), RxByte
    PROVE  Goes(f)
<1> DEFINE body == Body(f)
           byte == body[k + 1]
           c == Start(body, k).countdown
           left == Left(body, k + 1)
<1>1. /\ body \in Seq(Byte) /\ Len(body) = Len(f.payload) + 6 /\ Len(f.payload) \in Nat
      /\ k \in 0..Len(f.payload) + 5 /\ k + 1 \in 0..Len(body) /\ k \in 0..Len(body) - 1
  BY BodyIs, FrameIs, PayloadLength
<1>2. /\ Start(body, k) \in Out /\ byte \in Byte
      /\ Start(body, k + 1) = TxByte(Start(body, k), byte)
  BY <1>1, StartStep, PrefixGrows
<1>3. c \in {1, 2} /\ Start(body, k + 1).countdown
                          = IF byte = HEADER_BYTE /\ c = 2 THEN 1 ELSE 2
  BY <1>2, TxByteIs DEF Out
<1>4. left \in Seq(Byte)
  BY <1>1, LeftIs
<1>5. line = Cat(Cat(Added(c, byte), left), End) /\ seen = 2 - c /\ Decoded(f, k)
  BY <1>1, LeftStep DEF AtByte, Cat
<1> HIDE DEF body, byte, c, left
<1>6. seen # 2 /\ (c = 2 => seen = 0) /\ (c = 1 => seen = 1)
  BY <1>3, <1>5
<1>7. Head(line) = byte
  <2>1. CASE byte = HEADER_BYTE /\ c = 1
    <3>1. Added(c, byte) = Cat(<<byte>>, <<STUFF_BYTE>>)
      BY <1>2, <2>1, BytesAre, PairIs DEF Added
    <3> DEFINE stuff == <<STUFF_BYTE>>
    <3>2. stuff \in Seq(Byte) /\ End \in Seq(Byte)
      BY BytesAre, EndType
    <3> HIDE DEF stuff
    <3>3. line = Cat(Cat(Cat(<<byte>>, stuff), left), End)
      BY <1>5, <3>1 DEF stuff
    <3>4. QED
      BY <1>2, <1>4, <3>2, <3>3, PeelThree
  <2>2. CASE ~(byte = HEADER_BYTE /\ c = 1)
    <3>1. Added(c, byte) = <<byte>>
      BY <2>2 DEF Added
    <3>2. QED
      BY <1>2, <1>4, <1>5, <3>1, PeelTwo, EndType
  <2>3. QED
    BY <2>1, <2>2
<1>8. Decoded(f, k + 1)' /\ received' = received
  BY <1>1, <1>5, <1>6, <1>7, DecodeStep DEF body, byte
<1>9. line' = Tail(line) /\ seen' = HeadersSeen(byte)
  BY <1>6, <1>7 DEF RxByte, ThirdByte, DataByte, Search, ReceiveId, ReceiveLength,
                    ReceivePayload, ReceiveChecksum, ReceiveEof, Take
<1>10. CASE byte = HEADER_BYTE /\ c = 1
  <2>1. Added(c, byte) = Cat(<<byte>>, <<STUFF_BYTE>>) /\ <<STUFF_BYTE>> \in Seq(Byte)
    <3>1. Added(c, byte) = Cat(<<byte>>, <<STUFF_BYTE>>)
      BY <1>2, <1>10, BytesAre, PairIs DEF Added
    <3>2. <<STUFF_BYTE>> \in Seq(Byte)
      BY BytesAre
    <3>3. QED
      BY <3>1, <3>2
  <2>2. line' = Cat(Cat(<<STUFF_BYTE>>, left), End)
    <3> DEFINE stuff == <<STUFF_BYTE>>
    <3>1. stuff \in Seq(Byte) /\ End \in Seq(Byte)
      BY <2>1, EndType
    <3> HIDE DEF stuff
    <3>2. line = Cat(Cat(Cat(<<byte>>, stuff), left), End)
      BY <1>5, <2>1 DEF stuff
    <3>3. Tail(line) = Cat(Cat(stuff, left), End)
      BY <1>2, <1>4, <3>1, <3>2, PeelThree
    <3>4. QED
      BY <1>9, <3>3 DEF stuff
  <2>3. Cat(<<STUFF_BYTE>>, left) \in Seq(Byte)
    BY <1>4, <2>1, CatProperties
  <2>4. line' # << >>
    BY <2>2, <2>3, EndIsLast
  <2>5. seen' = 2 /\ Start(body, k + 1).countdown = 2
    BY <1>3, <1>6, <1>9, <1>10 DEF HeadersSeen
  <2>6. AtStuff(f, k + 1)'
    BY <1>8, <2>2, <2>5 DEF AtStuff, Cat, body, left
  <2>7. QED
    BY <1>1, <1>8, <2>4, <2>6 DEF Goes, Follows, body
<1>11. CASE ~(byte = HEADER_BYTE /\ c = 1)
  <2>1. Added(c, byte) = <<byte>>
    BY <1>11 DEF Added
  <2>2. line' = Cat(left, End)
    BY <1>2, <1>4, <1>5, <1>9, <2>1, PeelTwo, EndType
  <2>3. line' # << >>
    BY <1>4, <2>2, EndIsLast
  <2>4. seen' = 2 - Start(body, k + 1).countdown
    <3>1. CASE byte = HEADER_BYTE
      BY <1>3, <1>6, <1>9, <1>11, <3>1 DEF HeadersSeen
    <3>2. CASE byte # HEADER_BYTE
      BY <1>3, <1>9, <3>2 DEF HeadersSeen
    <3>3. QED
      BY <3>1, <3>2
  <2>5. AtByte(f, k + 1)'
    BY <1>8, <2>2, <2>4 DEF AtByte, Cat, body, left
  <2>6. QED
    BY <1>1, <1>8, <2>3, <2>5 DEF Goes, Follows, body
<1>12. QED
  BY <1>10, <1>11

LEMMA LastStep ==
    ASSUME FramingTypeInv, NEW f \in Frame, AtByte(f, Len(Body(f))), RxByte
    PROVE  Ends(f)
<1> DEFINE L == Len(f.payload)
           n == Len(Body(f))
<1>1. Body(f) \in Seq(Byte) /\ n = L + 6 /\ L \in Nat /\ f.id \in 0..63
      /\ f = [id |-> f.id, payload |-> f.payload] /\ n \in 0..n
  BY BodyIs, FrameIs, PayloadLength
<1>2. Left(Body(f), n) = << >> /\ << >> \o End = End
  BY <1>1, LeftEnds, EndType
<1>3. Start(Body(f), n) \in Out
  BY <1>1, LeftIs
<1>4. /\ state = "RECEIVING_EOF"
      /\ frame = Buffer(f, L, f.payload, Checksum(Covered(f)))
      /\ line = End /\ seen = 2 - Start(Body(f), n).countdown
  BY <1>1, <1>2 DEF AtByte, Decoded
<1>5. seen # 2
  <2>1. Start(Body(f), n).countdown \in 1..2
    BY <1>3 DEF Out
  <2>2. QED
    BY <1>4, <2>1
<1>6. ReceiveEof
  BY <1>4, <1>5, WhichAction
<1>7. Head(line) = EOF_BYTE /\ Tail(line) = << >>
  BY <1>4 DEF End
<1>8. /\ line' = << >> /\ seen' = 0
      /\ received' = Append(received, [id |-> frame.id % 64, payload |-> frame.payload])
  BY <1>6, <1>7, NextIsAwaited DEF ReceiveEof, DataByte, Take, HeadersSeen
<1>9. frame.id % 64 = f.id /\ frame.payload = f.payload
  <2>1. \A m \in 0..63 : m % 64 = m
    OBVIOUS
  <2>2. QED
    BY <1>1, <1>4, <2>1 DEF Buffer
<1>10. QED
  BY <1>1, <1>8, <1>9 DEF Ends

LEMMA FollowStep ==
    ASSUME FramingTypeInv, NEW f \in Frame, Follows(f), RxByte
    PROVE  Goes(f) \/ Ends(f)
<1>1. line # << >>
  BY DEF RxByte, ThirdByte, DataByte, Search, ReceiveId, ReceiveLength, ReceivePayload,
         ReceiveChecksum, ReceiveEof, Take
<1>2. CASE \E n \in 0..2 : AtHeader(f, n)
  BY <1>2, HeaderStep
<1>3. ASSUME NEW k \in 0..Len(Body(f)), AtByte(f, k) PROVE Goes(f) \/ Ends(f)
  <2>1. Len(Body(f)) \in Nat
    BY BodyIs, LenProperties
  <2>2. CASE k = Len(Body(f))
    BY <1>3, <2>2, LastStep
  <2>3. CASE k # Len(Body(f))
    <3>1. k \in 0..Len(Body(f)) - 1
      BY <2>1, <2>3
    <3>2. QED
      BY <1>3, <3>1, ByteStep
  <2>4. QED
    BY <2>2, <2>3
<1>4. ASSUME NEW k \in 0..Len(Body(f)), AtStuff(f, k) PROVE Goes(f) \/ Ends(f)
  BY <1>4, StuffStep
<1>5. QED
  BY <1>1, <1>2, <1>3, <1>4 DEF Follows

-----------------------------------------------------------------------------
(* The invariant is kept *)

LEMMA CleanInit == Init => CleanInv
<1> SUFFICES ASSUME Init PROVE CleanInv
  OBVIOUS
<1>1. EndsWell
  BY DEF Init, EndsWell
<1>2. ~InStep /\ received = << >>
  BY DEF Init, InStep
<1>3. QED
  BY <1>1, <1>2 DEF CleanInv

LEMMA SendStep ==
    ASSUME FramingTypeInv, CleanInv, NEW f \in Frame, SendFrame(f) PROVE CleanInv'
<1> DEFINE n == Len(sent)
<1>1. /\ sent \in Seq(Frame) /\ n \in Nat /\ noise \in Nat /\ noisy \in 0..n
      /\ received \in Seq(Received) /\ (noise = 0 => noisy = 0)
  BY LenProperties DEF FramingTypeInv, FramingTypeOK, Frame, Received
<1>2. /\ line = << >> /\ sent' = Append(sent, f) /\ line' = OnWire(f)
      /\ UNCHANGED <<noise, noisy, state, seen, frame, received, starts>>
  BY DEF SendFrame, rxVars
<1>3. /\ sent' \in Seq(Frame) /\ Len(sent') = n + 1 /\ sent'[n + 1] = f /\ sent' # << >>
      /\ \A i \in 1..n : sent'[i] = sent[i]
  BY <1>1, <1>2, AppendProperties
<1>4. line' # << >> /\ line'[Len(line')] = EOF_BYTE
  BY <1>2, OnWireIs
<1>5. EndsWell'
  BY <1>4 DEF EndsWell
<1>6. ASSUME InStep', NEW g \in Frame, g = sent'[Len(sent')] PROVE Follows(g)'
  <2>1. g = f
    BY <1>3, <1>6
  <2>2. Untouched
    BY <1>1, <1>2, <1>3, <1>6 DEF InStep, Untouched
  <2>3. seen = 0
    BY <1>2, <2>2 DEF CleanInv, EndsWell
  <2>4. AtHeader(f, 0)'
    BY <1>2, <2>3, OnWireIs DEF AtHeader
  <2>5. QED
    BY <2>1, <2>4 DEF Follows
<1>7. ASSUME InStep' PROVE ReceivedInStep'
  <2>1. Arrived' = n
    BY <1>1, <1>3, <1>4 DEF Arrived
  <2>2. FirstInStep' = FirstInStep /\ FirstInStep \in Nat /\ FirstInStep \in 1..n + 1
    BY <1>1, <1>2, <1>3, <1>7 DEF FirstInStep, InStep
  <2> DEFINE m == FirstInStep
             tail == SubSeq(sent', m, n)
  <2>3. CASE m = n + 1
    <3>1. tail = << >>
      BY <1>3, <2>3
    <3>2. noise = 0 => received = << >>
      <4>1. SUFFICES ASSUME noise = 0 PROVE received = << >>
        OBVIOUS
      <4>2. n = 0
        BY <1>1, <2>3, <4>1 DEF FirstInStep
      <4>3. sent = << >>
        BY <1>1, <4>2, EmptySeq
      <4>4. QED
        BY <4>3 DEF CleanInv
    <3>3. received \o << >> = received
      BY <1>1
    <3> HIDE DEF m
    <3>4. QED
      BY <1>1, <1>2, <2>1, <2>2, <3>1, <3>2, <3>3 DEF ReceivedInStep, m, Received
  <2>4. CASE m # n + 1
    <3>1. InStep
      <4>1. n # 0
        BY <1>1, <2>2, <2>4 DEF FirstInStep
      <4>2. sent # << >>
        BY <1>1, <4>1, EmptySeq
      <4>3. noise = 0 \/ noisy + 2 <= n
        BY <1>1, <2>2, <2>4 DEF FirstInStep
      <4>4. QED
        BY <4>2, <4>3 DEF InStep
    <3>2. PICK others \in Seq(Received) :
              /\ received = others \o SubSeq(sent, m, Arrived)
              /\ noise = 0 => others = << >>
      BY <3>1 DEF CleanInv, ReceivedInStep, Received
    <3>3. Arrived = n
      BY <1>2 DEF Arrived
    <3>4. SubSeq(sent, m, n) = tail
      <4>1. m \in 1..n
        BY <1>1, <2>2, <2>4
      <4> HIDE DEF m, n
      <4>2. SubSeq(sent, m, n) = SubSeq(Append(sent, f), m, n)
        BY <1>1, <1>3, <4>1 DEF n
      <4>3. QED
        BY <1>2, <4>2
    <3>5. received' = others \o tail
      BY <1>2, <3>2, <3>3, <3>4
    <3> HIDE DEF m, tail
    <3>6. QED
      BY <1>2, <2>1, <2>2, <3>2, <3>5 DEF ReceivedInStep, m, tail, Received
  <2>5. QED
    BY <2>3, <2>4
<1>8. QED
  BY <1>3, <1>5, <1>6, <1>7 DEF CleanInv

LEMMA NoiseStep ==
    ASSUME FramingTypeInv, CleanInv, Tamper PROVE CleanInv'
<1>1. noise \in Nat /\ Len(sent) \in Nat
  BY LenProperties DEF FramingTypeInv, FramingTypeOK
<1>2. noise' # 0 /\ noisy' = Len(sent') /\ Len(sent') \in Nat
      /\ UNCHANGED <<sent, received>>
  BY <1>1 DEF Tamper, rxVars
<1>3. ~Untouched' /\ ~InStep'
  BY <1>2 DEF Untouched, InStep
<1>4. QED
  BY <1>2, <1>3 DEF CleanInv, EndsWell

LEMMA EndIsKept ==
    ASSUME FramingTypeInv, EndsWell, RxByte PROVE EndsWell'
<1>1. /\ Take /\ line' = Tail(line) /\ line # << >>
      /\ seen' = 0 \/ seen' = HeadersSeen(Head(line))
  BY DEF RxByte, ThirdByte, DataByte, Search, ReceiveId, ReceiveLength, ReceivePayload,
         ReceiveChecksum, ReceiveEof, Take
<1>2. UNCHANGED <<sent, noise, noisy>> /\ line \in Seq(Byte)
  BY <1>1, TakeType DEF FramingTypeInv, FramingTypeOK
<1>3. SUFFICES ASSUME Untouched
               PROVE  IF line' = << >> THEN seen' = 0 ELSE line'[Len(line')] = EOF_BYTE
  BY <1>2 DEF EndsWell, Untouched
<1>4. line[Len(line)] = EOF_BYTE
  BY <1>1, <1>3 DEF EndsWell
<1>5. /\ Len(line) \in Nat /\ Len(line) # 0 /\ Head(line) = line[1]
      /\ Tail(line) \in Seq(Byte) /\ Len(Tail(line)) = Len(line) - 1
      /\ \A i \in 1..Len(Tail(line)) : Tail(line)[i] = line[i + 1]
  <2>1. Len(line) \in Nat /\ Len(line) # 0 /\ Head(line) = line[1]
    BY <1>1, <1>2
  <2>2. QED
    BY <1>1, <1>2, <2>1, HeadTailProperties
<1>6. CASE line' = << >>
  <2>1. Len(line) = 1
    <3>1. Tail(line) = << >>
      BY <1>1, <1>6
    <3>2. Len(Tail(line)) = 0
      <4>1. \A t : t = << >> => Len(t) = 0
        OBVIOUS
      <4>2. QED
        BY <3>1, <4>1
    <3>3. \A m \in Nat : m - 1 = 0 => m = 1
      OBVIOUS
    <3>4. QED
      BY <1>5, <3>2, <3>3
  <2>2. Head(line) = EOF_BYTE
    BY <1>4, <1>5, <2>1
  <2>3. QED
    BY <1>1, <1>6, <2>2, NextIsAwaited DEF HeadersSeen
<1>7. CASE line' # << >>
  <2> DEFINE t == Tail(line)
             m == Len(t)
  <2>1. m \in Nat /\ m # 0 /\ m = Len(line) - 1
    <3>1. t \in Seq(Byte) /\ t # << >>
      BY <1>1, <1>5, <1>7
    <3> HIDE DEF t
    <3>2. Len(t) \in Nat /\ Len(t) # 0
      BY <3>1
    <3>3. QED
      BY <1>5, <3>2 DEF t
  <2>2. m \in 1..m /\ m + 1 = Len(line)
    BY <1>5, <2>1
  <2>3. t[m] = line[m + 1]
    BY <1>5, <2>2
  <2>4. QED
    BY <1>1, <1>4, <1>7, <2>2, <2>3
<1>8. QED
  BY <1>6, <1>7

LEMMA ReceiveStep ==
    ASSUME FramingTypeInv, CleanInv, RxByte PROVE CleanInv'
<1> DEFINE n == Len(sent)
<1>0. Take
  BY DEF RxByte, ThirdByte, DataByte, Search, ReceiveId, ReceiveLength, ReceivePayload,
         ReceiveChecksum, ReceiveEof
<1>1. /\ sent \in Seq(Frame) /\ n \in Nat /\ noise \in Nat /\ noisy \in 0..n
      /\ received \in Seq(Received) /\ (sent = << >> => line = << >>)
  BY LenProperties DEF FramingTypeInv, FramingTypeOK, Frame, Received
<1>2. UNCHANGED <<sent, noise, noisy>> /\ line # << >> /\ sent # << >>
  BY <1>0, <1>1, TakeType
<1>3. EndsWell'
  BY EndIsKept DEF CleanInv
<1>4. ASSUME InStep'
      PROVE  /\ \A g \in Frame : g = sent'[Len(sent')] => Follows(g)'
             /\ ReceivedInStep'
  <2>1. InStep
    BY <1>2, <1>4 DEF InStep
  <2>2. n \in 1..n /\ sent[n] \in Frame
    <3>1. n # 0
      BY <1>1, <1>2, EmptySeq
    <3>2. QED
      BY <1>1, <3>1, ElementOfSeq
  <2>3. PICK f \in Frame : f = sent[n]
    BY <2>2
  <2>4. Goes(f) \/ Ends(f)
    BY <2>1, <2>3, FollowStep DEF CleanInv
  <2>5. Follows(f)'
    BY <2>4 DEF Goes, Ends, Follows
  <2>6. \A g \in Frame : g = sent'[Len(sent')] => Follows(g)'
    BY <1>2, <2>3, <2>5
  <2> DEFINE m == FirstInStep
  <2>7. FirstInStep' = m /\ m \in 1..n
    BY <1>1, <1>2, <2>1, <2>2 DEF FirstInStep, InStep
  <2>8. PICK others \in Seq(Received) :
            /\ received = others \o SubSeq(sent, m, n - 1)
            /\ noise = 0 => others = << >>
    BY <1>2, <2>1 DEF CleanInv, ReceivedInStep, Received, Arrived
  <2> HIDE DEF m
  <2>9. CASE Goes(f)
    <3>1. Arrived' = n - 1 /\ received' = received
      BY <1>2, <2>9 DEF Goes, Arrived
    <3>2. received' = others \o SubSeq(sent', FirstInStep', Arrived')
      BY <1>2, <2>7, <2>8, <3>1
    <3>3. ReceivedInStep'
      BY <1>2, <2>8, <3>2 DEF ReceivedInStep, Received
    <3>4. QED
      BY <2>6, <3>3
  <2>10. CASE Ends(f)
    <3>1. Arrived' = n /\ received' = Append(received, f)
      BY <1>2, <2>10 DEF Ends, Arrived
    <3> DEFINE before == SubSeq(sent, m, n - 1)
               now == SubSeq(sent, m, n)
    <3>2. now = Append(before, f)
      BY <1>1, <2>2, <2>3, <2>7
    <3>3. \A a, b \in Seq(Received) : \A x \in Received :
              Append(Cat(a, b), x) = Cat(a, Append(b, x))
      BY AppendToCat
    <3>4. before \in Seq(Received) /\ f \in Received
      <4>1. \A g \in Frame : g \in Received
        BY FrameIs DEF Received
      <4>2. before \in Seq(Frame)
        BY <1>1, <2>7
      <4> HIDE DEF before
      <4>3. QED
        BY <2>3, <4>1, <4>2
    <3> HIDE DEF before, now
    <3>5. received' = others \o now
      <4>1. received = others \o before
        BY <2>8 DEF before
      <4>2. Append(others \o before, f) = others \o Append(before, f)
        BY <2>8, <3>3, <3>4 DEF Cat
      <4>3. QED
        BY <3>1, <3>2, <4>1, <4>2
    <3>6. QED
      BY <1>2, <2>6, <2>7, <2>8, <3>1, <3>5 DEF ReceivedInStep, Received, now
  <2>11. QED
    BY <2>4, <2>9, <2>10
<1>5. sent' # << >>
  BY <1>2
<1>6. (InStep => /\ \A g \in Frame : g = sent[Len(sent)] => Follows(g)
                 /\ ReceivedInStep)'
  BY <1>4
<1> HIDE DEF n
<1>7. QED
  BY <1>3, <1>5, <1>6 DEF CleanInv

LEMMA CleanStep == ASSUME FramingTypeInv, CleanInv, [Next]_vars PROVE CleanInv'
<1>1. ASSUME NEW id \in Ids, NEW p \in Payloads, SendFrame([id |-> id, payload |-> p])
      PROVE  CleanInv'
  BY <1>1, SendStep DEF Frame
<1>2. CASE LoseByte
  BY <1>2, NoiseStep DEF LoseByte
<1>3. ASSUME NEW b \in NoiseBytes, CorruptByte(b) \/ AddByte(b) PROVE CleanInv'
  BY <1>3, NoiseStep DEF CorruptByte, AddByte
<1>4. CASE RxByte
  BY <1>4, ReceiveStep
<1>5. CASE UNCHANGED vars
  <2>1. /\ sent' = sent /\ line' = line /\ noise' = noise /\ noisy' = noisy
        /\ state' = state /\ seen' = seen /\ frame' = frame /\ received' = received
    BY <1>5 DEF vars, lineVars, rxVars
  <2>2. EndsWell' /\ InStep' = InStep
    BY <2>1 DEF CleanInv, EndsWell, Untouched, InStep
  <2>3. ASSUME NEW f \in Frame, Follows(f) PROVE Follows(f)'
    <3>1. ASSUME NEW n \in 0..2, AtHeader(f, n) PROVE AtHeader(f, n)'
      BY <2>1, <3>1 DEF AtHeader
    <3>2. ASSUME NEW k \in 0..Len(Body(f)), Decoded(f, k) PROVE Decoded(f, k)'
      BY <2>1, <3>2 DEF Decoded
    <3>3. ASSUME NEW k \in 0..Len(Body(f)), AtByte(f, k) PROVE AtByte(f, k)'
      BY <2>1, <3>2, <3>3 DEF AtByte
    <3>4. ASSUME NEW k \in 0..Len(Body(f)), AtStuff(f, k) PROVE AtStuff(f, k)'
      BY <2>1, <3>2, <3>4 DEF AtStuff
    <3>5. QED
      BY <2>1, <2>3, <3>1, <3>3, <3>4 DEF Follows
  <2>4. ReceivedInStep' = ReceivedInStep
    BY <2>1 DEF ReceivedInStep, FirstInStep, Arrived
  <2>5. QED
    BY <2>1, <2>2, <2>3, <2>4 DEF CleanInv
<1>6. QED
  BY <1>1, <1>2, <1>3, <1>4, <1>5 DEF Next

LEMMA CleanAlways == Spec => []CleanInv
<1>1. Init => CleanInv
  BY FramingInitType, CleanInit
<1>2. FramingTypeInv /\ CleanInv /\ [Next]_vars => CleanInv'
  BY CleanStep
<1>3. QED
  BY <1>1, <1>2, FramingTypeAlways, PTL DEF Spec

LEMMA SuffixOf ==
    ASSUME NEW T, NEW p \in Seq(T), NEW s \in Seq(T)
    PROVE  IsSuffix(s, p \o s)
<1> DEFINE t == p \o s
           m == Len(s)
           n == Len(t)
<1>1. /\ m \in Nat /\ n \in Nat /\ m <= n /\ t \in Seq(T)
      /\ \A i \in 1..m : t[n - i + 1] = s[m - i + 1]
  <2>1. /\ m \in Nat /\ Len(p) \in Nat /\ t \in Seq(T) /\ n = Len(p) + m
    OBVIOUS
  <2>2. \A j \in 1..n : t[j] = IF j <= Len(p) THEN p[j] ELSE s[j - Len(p)]
    OBVIOUS
  <2> HIDE DEF t, m, n
  <2>3. ASSUME NEW i \in 1..m PROVE t[n - i + 1] = s[m - i + 1]
    <3> DEFINE j == n - i + 1
    <3>1. j \in 1..n /\ ~(j <= Len(p)) /\ j - Len(p) = m - i + 1
      BY <2>1
    <3> HIDE DEF j
    <3>2. t[j] = s[j - Len(p)]
      BY <2>2, <3>1
    <3>3. QED
      BY <3>1, <3>2 DEF j
  <2>4. QED
    BY <2>1, <2>3
<1> HIDE DEF t, m, n
<1> DEFINE rs == [i \in 1..m |-> s[m - i + 1]]
           rt == [i \in 1..n |-> t[n - i + 1]]
<1>2. Reverse(s) = rs /\ Reverse(t) = rt
  BY DEF Reverse, m, n
<1>3. Len(rs) = m /\ Len(rt) = n
  BY <1>1
<1>4. \A i \in 1..m : rs[i] = rt[i]
  BY <1>1
<1>5. SubSeq(rs, 1, m) = SubSeq(rt, 1, m)
  <2>1. SubSeq(rs, 1, m) = [i \in 1..m |-> rs[i]]
    BY <1>1
  <2>2. SubSeq(rt, 1, m) = [i \in 1..m |-> rt[i]]
    BY <1>1
  <2> HIDE DEF rs, rt
  <2>3. QED
    BY <1>4, <2>1, <2>2
<1> HIDE DEF rs, rt
<1>6. IsPrefix(rs, rt)
  BY <1>1, <1>3, <1>5 DEF IsPrefix
<1>7. QED
  BY <1>2, <1>6 DEF IsSuffix, t

(* Without noise the frames sent are received, all and in order; with noise,
   those from the second after the last noise on, whatever came before.     *)
THEOREM CleanFramesAlwaysArrive == Spec => []CleanFramesArrive
<1>1. FramingTypeInv /\ CleanInv => CleanFramesArrive
  <2> SUFFICES ASSUME FramingTypeInv, CleanInv, line = << >> PROVE CleanFramesArrive
    BY DEF CleanFramesArrive
  <2> DEFINE n == Len(sent)
  <2>1. /\ sent \in Seq(Frame) /\ n \in Nat /\ noise \in Nat /\ noisy \in 0..n
        /\ received \in Seq(Received)
    BY LenProperties DEF FramingTypeInv, FramingTypeOK, Frame, Received
  <2>2. sent \in Seq(Received)
    <3>1. \A g \in Frame : g \in Received
      BY FrameIs DEF Received
    <3>2. QED
      BY <2>1, <3>1
  <2>3. Arrived = n
    BY DEF Arrived
  <2>4. ASSUME noise = 0 PROVE received = sent
    <3>1. CASE sent = << >>
      BY <3>1 DEF CleanInv
    <3>2. CASE sent # << >>
      <4>1. received = << >> \o SubSeq(sent, 1, n)
        BY <2>3, <2>4, <3>2 DEF CleanInv, InStep, ReceivedInStep, FirstInStep
      <4>2. SubSeq(sent, 1, n) = sent
        BY <2>1
      <4>3. << >> \o sent = sent
        BY <2>2
      <4>4. QED
        BY <4>1, <4>2, <4>3
    <3>3. QED
      BY <3>1, <3>2
  <2>5. ASSUME noise # 0 PROVE IsSuffix(SubSeq(sent, noisy + 2, n), received)
    <3>1. CASE noisy + 2 <= n
      <4>1. PICK others \in Seq(Received) :
                received = others \o SubSeq(sent, noisy + 2, n)
        <5>1. InStep /\ FirstInStep = noisy + 2
          <6>1. n # 0
            BY <2>1, <3>1
          <6>2. QED
            BY <2>5, <3>1, <6>1 DEF InStep, FirstInStep
        <5>2. QED
          BY <2>3, <5>1 DEF CleanInv, ReceivedInStep, Received
      <4>2. SubSeq(sent, noisy + 2, n) \in Seq(Received)
        BY <2>1, <2>2
      <4>3. QED
        BY <4>1, <4>2, SuffixOf
    <3>2. CASE ~(noisy + 2 <= n)
      <4>1. SubSeq(sent, noisy + 2, n) = << >>
        BY <2>1, <2>2, <3>2
      <4>2. << >> \in Seq(Received) /\ received \o << >> = received
        BY <2>1
      <4>3. QED
        BY <2>1, <4>1, <4>2, SuffixOf
    <3>3. QED
      BY <3>1, <3>2
  <2>6. QED
    BY <2>4, <2>5 DEF CleanFramesArrive
<1>2. QED
  BY <1>1, FramingTypeAlways, CleanAlways, PTL

-----------------------------------------------------------------------------
(* The beginnings of frames *)

(* What the receiver counts, whatever it makes of the bytes: the header bytes
   in a row and the frames begun.                                          *)
Scan(out, byte) ==
    IF out.seen = 2
    THEN [seen |-> 0,
          starts |-> IF byte = HEADER_BYTE THEN out.starts + 1 ELSE out.starts]
    ELSE [seen |-> IF byte = HEADER_BYTE THEN out.seen + 1 ELSE 0, starts |-> out.starts]

Scans == INSTANCE FoldProofs WITH Op <- LAMBDA out, byte, c : Scan(out, byte)
Scanned(out, bytes) == Scans!Fold(out, 0, bytes)

Counts == [seen : 0..2, starts : Nat]
Receiver == [seen |-> seen, starts |-> starts]

(* The frames begun once what is on the line has been read are bounded, and a
   frame that is being received was begun and is not received yet.         *)
StartsInv ==
    /\ Scanned(Receiver, line).starts <= Len(sent) + noise
    /\ Len(received) + (IF state = "SEARCHING_FOR_SOF" THEN 0 ELSE 1) <= starts

LEMMA ScanIs ==
    ASSUME NEW out \in Counts, NEW byte \in Byte
    PROVE  /\ Scan(out, byte) \in Counts
           /\ byte = HEADER_BYTE =>
                3 * Scan(out, byte).starts + Scan(out, byte).seen
                    = 3 * out.starts + out.seen + 1
           /\ byte # HEADER_BYTE =>
                Scan(out, byte).starts = out.starts /\ Scan(out, byte).seen = 0
<1>1. out.seen \in 0..2 /\ out.starts \in Nat
  BY DEF Counts
<1>2. CASE out.seen = 2
  BY <1>1, <1>2 DEF Scan, Counts
<1>3. CASE out.seen # 2
  <2>1. out.seen + 1 \in 0..2
    BY <1>1, <1>3
  <2>2. QED
    BY <1>1, <1>3, <2>1 DEF Scan, Counts
<1>4. QED
  BY <1>2, <1>3

LEMMA ScannedEmpty == \A out : Scanned(out, << >>) = out
  BY Scans!FoldEmpty DEF Scanned

LEMMA ScannedAppend ==
    ASSUME NEW out, NEW bytes \in Seq(Byte), NEW byte \in Byte
    PROVE  Scanned(out, Append(bytes, byte)) = Scan(Scanned(out, bytes), byte)
  BY Scans!FoldAppend DEF Scanned

LEMMA ScannedOne == \A out, byte : Scanned(out, <<byte>>) = Scan(out, byte)
  BY Scans!FoldOne DEF Scanned

LEMMA ScannedCat ==
    ASSUME NEW out
    PROVE  \A p, q \in Seq(Byte) : Scanned(out, Cat(p, q)) = Scanned(Scanned(out, p), q)
<1> SUFFICES ASSUME NEW p \in Seq(Byte), NEW q \in Seq(Byte)
             PROVE  Scanned(out, Cat(p, q)) = Scanned(Scanned(out, p), q)
  OBVIOUS
<1> QED
  BY Scans!FoldConcat DEF Scanned, Cat

LEMMA ScannedHead ==
    ASSUME NEW out, NEW bytes \in Seq(Byte), bytes # << >>
    PROVE  Scanned(out, bytes) = Scanned(Scan(out, Head(bytes)), Tail(bytes))
  BY Scans!FoldHead DEF Scanned

LEMMA ScannedType ==
    ASSUME NEW out \in Counts
    PROVE  \A bytes \in Seq(Byte) : Scanned(out, bytes) \in Counts
<1> DEFINE G == {bytes \in Seq(Byte) : Scanned(out, bytes) \in Counts}
<1>1. << >> \in G
  <2>1. << >> \in Seq(Byte)
    OBVIOUS
  <2>2. QED
    BY <2>1, ScannedEmpty
<1>2. ASSUME NEW bytes \in Seq(Byte), NEW byte \in Byte, bytes \in G
      PROVE  Append(bytes, byte) \in G
  <2>1. Append(bytes, byte) \in Seq(Byte)
    BY AppendProperties
  <2>2. QED
    BY <1>2, <2>1, ScannedAppend, ScanIs
<1>3. Seq(Byte) \subseteq G
  <2> HIDE DEF G
  <2>1. QED
    BY <1>1, <1>2, Folds!SequenceInduction
<1>4. QED
  BY <1>3

LEMMA ScannedGrows ==
    ASSUME NEW out \in Counts
    PROVE  \A bytes \in Seq(Byte) : out.starts <= Scanned(out, bytes).starts
<1> DEFINE G == {bytes \in Seq(Byte) : out.starts <= Scanned(out, bytes).starts}
<1>0. out.starts \in Nat
  BY DEF Counts
<1>1. << >> \in G
  <2>1. << >> \in Seq(Byte)
    OBVIOUS
  <2>2. QED
    BY <1>0, <2>1, ScannedEmpty
<1>2. ASSUME NEW bytes \in Seq(Byte), NEW byte \in Byte, bytes \in G
      PROVE  Append(bytes, byte) \in G
  <2> DEFINE old == Scanned(out, bytes)
             new == Scanned(out, Append(bytes, byte))
  <2>1. Append(bytes, byte) \in Seq(Byte)
    BY AppendProperties
  <2>2. new = Scan(old, byte) /\ old \in Counts
    BY ScannedAppend, ScannedType
  <2>3. old.starts \in Nat /\ (new.starts = old.starts \/ new.starts = old.starts + 1)
    BY <2>2 DEF Scan, Counts
  <2>4. out.starts <= old.starts
    BY <1>2
  <2> HIDE DEF old, new
  <2>5. out.starts <= new.starts
    BY <1>0, <2>3, <2>4
  <2>6. QED
    BY <2>1, <2>5 DEF new
<1>3. Seq(Byte) \subseteq G
  <2> HIDE DEF G
  <2>1. QED
    BY <1>1, <1>2, Folds!SequenceInduction
<1>4. QED
  BY <1>3

(* Two receivers that differ by one byte of noise: the one is at most three
   header bytes ahead of the other.  So it stays, whatever both read, for a
   byte that is no header byte takes from either what it has seen.          *)
Ahead(a, b) == 3 * a.starts + a.seen <= 3 * b.starts + b.seen + 3

LEMMA AheadStarts ==
    ASSUME NEW a \in Counts, NEW b \in Counts, Ahead(a, b)
    PROVE  a.starts <= b.starts + 1
<1>1. /\ a.seen \in 0..2 /\ a.starts \in Nat /\ b.seen \in 0..2 /\ b.starts \in Nat
      /\ 3 * a.starts + a.seen <= 3 * b.starts + b.seen + 3
  BY DEF Counts, Ahead
<1>2. \A x, y \in Nat : \A m, n \in 0..2 : 3 * x + m <= 3 * y + n + 3 => x <= y + 1
  OBVIOUS
<1>3. QED
  BY <1>1, <1>2

LEMMA ScanAhead ==
    ASSUME NEW a \in Counts, NEW b \in Counts, Ahead(a, b), NEW byte \in Byte
    PROVE  Ahead(Scan(a, byte), Scan(b, byte))
<1>1. /\ a.seen \in 0..2 /\ a.starts \in Nat /\ b.seen \in 0..2 /\ b.starts \in Nat
      /\ 3 * a.starts + a.seen <= 3 * b.starts + b.seen + 3
  BY DEF Counts, Ahead
<1>2. CASE byte = HEADER_BYTE
  <2>1. /\ 3 * Scan(a, byte).starts + Scan(a, byte).seen = 3 * a.starts + a.seen + 1
        /\ 3 * Scan(b, byte).starts + Scan(b, byte).seen = 3 * b.starts + b.seen + 1
    BY <1>2, ScanIs
  <2>2. Scan(b, byte).starts \in Nat /\ Scan(b, byte).seen \in 0..2
    BY ScanIs DEF Counts
  <2>3. QED
    BY <1>1, <2>1, <2>2 DEF Ahead
<1>3. CASE byte # HEADER_BYTE
  <2>1. /\ Scan(a, byte).starts = a.starts /\ Scan(a, byte).seen = 0
        /\ Scan(b, byte).starts = b.starts /\ Scan(b, byte).seen = 0
    BY <1>3, ScanIs
  <2>2. a.starts <= b.starts + 1
    BY AheadStarts
  <2>3. QED
    BY <1>1, <2>1, <2>2 DEF Ahead
<1>4. QED
  BY <1>2, <1>3

LEMMA ScannedAhead ==
    ASSUME NEW a \in Counts, NEW b \in Counts, Ahead(a, b)
    PROVE  \A bytes \in Seq(Byte) : Scanned(a, bytes).starts <= Scanned(b, bytes).starts + 1
<1> DEFINE G == {bytes \in Seq(Byte) : Ahead(Scanned(a, bytes), Scanned(b, bytes))}
<1>1. << >> \in G
  <2>1. << >> \in Seq(Byte) /\ Scanned(a, << >>) = a /\ Scanned(b, << >>) = b
    BY ScannedEmpty
  <2>2. QED
    BY <2>1
<1>2. ASSUME NEW bytes \in Seq(Byte), NEW byte \in Byte, bytes \in G
      PROVE  Append(bytes, byte) \in G
  <2>1. Append(bytes, byte) \in Seq(Byte)
    BY AppendProperties
  <2>2. Scanned(a, bytes) \in Counts /\ Scanned(b, bytes) \in Counts
    BY ScannedType
  <2>3. Ahead(Scan(Scanned(a, bytes), byte), Scan(Scanned(b, bytes), byte))
    BY <1>2, <2>2, ScanAhead
  <2>4. QED
    BY <2>1, <2>3, ScannedAppend
<1>3. Seq(Byte) \subseteq G
  <2> HIDE DEF G
  <2>1. QED
    BY <1>1, <1>2, Folds!SequenceInduction
<1>4. QED
  BY <1>3, ScannedType, AheadStarts

(* The line may lose, add or change the next byte. *)
LEMMA NoiseIsAhead ==
    ASSUME NEW out \in Counts, NEW b \in Byte, NEW c \in Byte
    PROVE  /\ Ahead(out, Scan(out, b))
           /\ Ahead(Scan(out, b), out)
           /\ Ahead(Scan(out, b), Scan(out, c))
<1>1. out.seen \in 0..2 /\ out.starts \in Nat
  BY DEF Counts
<1>2. /\ Scan(out, b).seen \in 0..2 /\ Scan(out, b).starts \in Nat
      /\ Scan(out, c).seen \in 0..2 /\ Scan(out, c).starts \in Nat
  BY ScanIs DEF Counts
<1>3. 3 * Scan(out, b).starts + Scan(out, b).seen \in 3 * out.starts..3 * out.starts + 3
  BY <1>1, <1>2, ScanIs
<1>4. 3 * Scan(out, c).starts + Scan(out, c).seen \in 3 * out.starts..3 * out.starts + 3
  BY <1>1, <1>2, ScanIs
<1>5. QED
  BY <1>1, <1>2, <1>3, <1>4 DEF Ahead

(* In a frame that does not begin with a header byte two of them are followed
   by a stuff byte: none of its bytes begins another.                        *)
LEMMA ScannedStuffing ==
    ASSUME NEW out \in Counts, NEW bytes \in Seq(Byte), bytes # << >>,
           bytes[1] # HEADER_BYTE
    PROVE  Scanned(out, Stuffing(bytes).wire)
               = [seen |-> 2 - Stuffing(bytes).countdown, starts |-> out.starts]
<1> DEFINE Good(q) == Scanned(out, Stuffing(q).wire)
                          = [seen |-> 2 - Stuffing(q).countdown, starts |-> out.starts]
           G == {q \in Seq(Byte) : q = << >> \/ q[1] = HEADER_BYTE \/ Good(q)}
<1>0. out.seen \in 0..2 /\ out.starts \in Nat
  BY DEF Counts
<1>1. << >> \in G
  OBVIOUS
<1>2. ASSUME NEW q \in Seq(Byte), NEW byte \in Byte, q \in G PROVE Append(q, byte) \in G
  <2>1. Append(q, byte) \in Seq(Byte)
    BY AppendProperties
  <2> DEFINE w == Stuffing(q).wire
             d == Stuffing(q).countdown
             e == Added(d, byte)
  <2>2. w \in Seq(Byte) /\ d \in {1, 2} /\ e \in Seq(Byte)
    BY StuffingType, AddedType DEF Out
  <2>3. /\ Stuffing(Append(q, byte)).wire = Cat(w, e)
        /\ Stuffing(Append(q, byte)).countdown
               = IF byte = HEADER_BYTE /\ d = 2 THEN 1 ELSE 2
    BY StuffingAppend, StuffingType, TxByteIs
  <2>4. Scanned(out, Cat(w, e)) = Scanned(Scanned(out, w), e)
    BY <2>2, ScannedCat
  <2>5. CASE q = << >>
    <3>1. Append(q, byte)[1] = byte
      BY <2>5
    <3>2. CASE byte = HEADER_BYTE
      BY <2>1, <3>1, <3>2
    <3>3. CASE byte # HEADER_BYTE
      <4>1. w = << >> /\ e = <<byte>>
        BY <2>5, <3>3, StuffingEmpty DEF Nothing, Added
      <4>2. Scanned(out, Cat(w, e)) = Scan(out, byte)
        BY <2>4, <4>1, ScannedEmpty, ScannedOne
      <4>3. Scan(out, byte) = [seen |-> 0, starts |-> out.starts]
        BY <3>3 DEF Scan
      <4>4. Good(Append(q, byte))
        <5>1. Stuffing(Append(q, byte)).countdown = 2
          BY <2>3, <3>3
        <5> HIDE DEF w, e, d
        <5>2. QED
          BY <2>3, <4>2, <4>3, <5>1
      <4>5. QED
        BY <2>1, <4>4
    <3>4. QED
      BY <3>2, <3>3
  <2>6. CASE q # << >> /\ q[1] = HEADER_BYTE
    <3>1. Append(q, byte)[1] = HEADER_BYTE
      BY <2>6
    <3>2. QED
      BY <2>1, <3>1
  <2>7. CASE Good(q)
    <3> DEFINE before == [seen |-> 2 - d, starts |-> out.starts]
    <3>1. Scanned(out, Cat(w, e)) = Scanned(before, e)
      BY <2>4, <2>7
    <3>2. before.starts = out.starts /\ before.seen = 2 - d /\ before.seen # 2
      BY <2>2
    <3> HIDE DEF w, d
    <3>3. CASE byte # HEADER_BYTE
      <4>1. e = <<byte>>
        BY <3>3 DEF Added
      <4>2. Scan(before, byte) = [seen |-> 0, starts |-> out.starts]
        BY <3>3 DEF Scan
      <4>3. Scanned(before, e) = [seen |-> 0, starts |-> out.starts]
        BY <4>1, <4>2, ScannedOne
      <4>4. Stuffing(Append(q, byte)).countdown = 2
        BY <2>3, <3>3
      <4> HIDE DEF e, before
      <4>5. Good(Append(q, byte))
        BY <2>3, <3>1, <4>3, <4>4
      <4>6. QED
        BY <2>1, <4>5
    <3>4. CASE byte = HEADER_BYTE /\ d = 2
      <4>1. e = <<byte>>
        BY <3>4 DEF Added
      <4>2. Scan(before, byte) = [seen |-> 1, starts |-> out.starts]
        BY <3>2, <3>4 DEF Scan
      <4>3. Scanned(before, e) = [seen |-> 1, starts |-> out.starts]
        BY <4>1, <4>2, ScannedOne
      <4>4. Stuffing(Append(q, byte)).countdown = 1
        BY <2>3, <3>4
      <4> HIDE DEF e, before
      <4>5. Good(Append(q, byte))
        BY <2>3, <3>1, <4>3, <4>4
      <4>6. QED
        BY <2>1, <4>5
    <3>5. CASE byte = HEADER_BYTE /\ d = 1
      <4>1. e = Cat(<<byte>>, <<STUFF_BYTE>>) /\ <<byte>> \in Seq(Byte)
            /\ <<STUFF_BYTE>> \in Seq(Byte)
        <5>1. <<byte>> \in Seq(Byte) /\ <<STUFF_BYTE>> \in Seq(Byte)
          BY BytesAre
        <5>2. e = <<byte, STUFF_BYTE>>
          BY <3>5 DEF Added
        <5>3. <<byte, STUFF_BYTE>> = Cat(<<byte>>, <<STUFF_BYTE>>)
          BY BytesAre, PairIs
        <5> HIDE DEF e
        <5>4. QED
          BY <5>1, <5>2, <5>3
      <4>2. Scan(before, byte) = [seen |-> 2, starts |-> out.starts]
        BY <3>2, <3>5 DEF Scan
      <4>3. Scan([seen |-> 2, starts |-> out.starts], STUFF_BYTE)
                = [seen |-> 0, starts |-> out.starts]
        BY DEF Scan, STUFF_BYTE, HEADER_BYTE
      <4> HIDE DEF e, before
      <4>4. Scanned(before, e) = Scanned(Scanned(before, <<byte>>), <<STUFF_BYTE>>)
        BY <4>1, ScannedCat
      <4>5. Scanned(before, e) = [seen |-> 0, starts |-> out.starts]
        BY <4>2, <4>3, <4>4, ScannedOne
      <4>6. Stuffing(Append(q, byte)).countdown = 2
        BY <2>3, <3>5
      <4>7. Good(Append(q, byte))
        BY <2>3, <3>1, <4>5, <4>6
      <4>8. QED
        BY <2>1, <4>7
    <3>6. QED
      BY <2>2, <3>3, <3>4, <3>5 DEF d
  <2>8. QED
    BY <1>2, <2>5, <2>6, <2>7
<1>3. Seq(Byte) \subseteq G
  <2> HIDE DEF G
  <2>1. QED
    BY <1>1, <1>2, Folds!SequenceInduction
<1>4. QED
  BY <1>3

(* A frame begins one frame. *)
LEMMA ScannedOnWire ==
    ASSUME NEW out \in Counts, NEW f \in Frame
    PROVE  Scanned(out, OnWire(f)).starts = out.starts + 1
<1> DEFINE h == <<HEADER_BYTE>>
           one == Scan(out, HEADER_BYTE)
           two == Scan(one, HEADER_BYTE)
           three == Scan(two, HEADER_BYTE)
           w == Wire(f)
<1>1. out.seen \in 0..2 /\ out.starts \in Nat
  BY DEF Counts
<1>2. three = [seen |-> out.seen, starts |-> out.starts + 1]
  <2>1. CASE out.seen = 0
    BY <2>1 DEF Scan
  <2>2. CASE out.seen = 1
    BY <2>2 DEF Scan
  <2>3. CASE out.seen = 2
    BY <2>3 DEF Scan
  <2>4. QED
    BY <1>1, <2>1, <2>2, <2>3
<1>3. three \in Counts /\ three.starts = out.starts + 1
  BY <1>1, <1>2 DEF Counts
<1>4. /\ Headers(0) = Cat(h, Cat(h, h)) /\ h \in Seq(Byte) /\ Cat(h, h) \in Seq(Byte)
      /\ Headers(0) \in Seq(Byte)
  BY HeadersStep, BytesAre DEF Cat
<1>5. Scanned(out, Headers(0)) = three
  <2> DEFINE hh == Cat(h, h)
  <2>1. h \in Seq(Byte) /\ hh \in Seq(Byte) /\ Headers(0) = Cat(h, hh) /\ hh = Cat(h, h)
    BY <1>4
  <2>2. Scanned(out, h) = one /\ Scanned(one, h) = two /\ Scanned(two, h) = three
    BY ScannedOne
  <2> HIDE DEF h, hh, one, two, three
  <2>3. Scanned(out, Headers(0)) = Scanned(one, hh)
    BY <2>1, <2>2, ScannedCat
  <2>4. Scanned(one, hh) = Scanned(two, h)
    BY <2>1, <2>2, ScannedCat
  <2>5. QED
    BY <2>2, <2>3, <2>4
<1> HIDE DEF h, one, two, three
<1>6. Scanned(three, w) = [seen |-> 2 - Stuffing(Body(f)).countdown,
                           starts |-> three.starts]
  <2>1. Body(f) \in Seq(Byte) /\ Body(f) # << >> /\ Body(f)[1] = f.id
    <3>1. Body(f) \in Seq(Byte) /\ Len(Body(f)) = Len(f.payload) + 6 /\ Body(f)[1] = f.id
      BY BodyIs
    <3>2. Len(f.payload) \in Nat
      BY PayloadLength
    <3>3. Len(Body(f)) # 0
      BY <3>1, <3>2
    <3>4. QED
      BY <3>1, <3>3
  <2>2. f.id # HEADER_BYTE
    <3>1. \A m \in 0..63 : m # 170
      OBVIOUS
    <3>2. f.id \in 0..63
      BY FrameIs
    <3>3. QED
      BY <3>1, <3>2 DEF HEADER_BYTE
  <2>3. QED
    BY <1>3, <2>1, <2>2, ScannedStuffing DEF Wire
<1>7. Scanned(three, w) \in Counts /\ Scanned(three, w).starts = out.starts + 1
  BY <1>3, <1>6, ScannedType, WireType
<1>8. OnWire(f) = Cat(Cat(Headers(0), w), End) /\ w \in Seq(Byte) /\ End \in Seq(Byte)
  BY OnWireIs, WireType, EndType DEF Cat
<1> HIDE DEF w
<1>9. Cat(Headers(0), w) \in Seq(Byte)
  BY <1>4, <1>8, CatProperties
<1>10. Scanned(out, OnWire(f)) = Scanned(Scanned(out, Cat(Headers(0), w)), End)
  BY <1>8, <1>9, ScannedCat
<1>11. Scanned(out, Cat(Headers(0), w)) = Scanned(three, w)
  BY <1>4, <1>5, <1>8, ScannedCat
<1>12. Scanned(out, OnWire(f)) = Scan(Scanned(three, w), EOF_BYTE)
  BY <1>10, <1>11, ScannedOne DEF End
<1>13. EOF_BYTE # HEADER_BYTE
  BY DEF EOF_BYTE, HEADER_BYTE
<1>14. QED
  BY <1>7, <1>12, <1>13, ScanIs, BytesAre

(* The receiver counts as Scan does, so reading changes nothing of what there
   will have been once the line is idle.                                   *)
LEMMA RxByteScans ==
    ASSUME FramingTypeInv, RxByte
    PROVE  /\ Receiver' = Scan(Receiver, Head(line))
           /\ Scanned(Receiver, line)' = Scanned(Receiver, line)
<1>1. /\ line # << >> /\ line' = Tail(line)
      /\ IF seen = 2
         THEN /\ seen' = 0
              /\ starts' = IF Head(line) = HEADER_BYTE THEN starts + 1 ELSE starts
         ELSE seen' = HeadersSeen(Head(line)) /\ starts' = starts
  BY DEF RxByte, ThirdByte, DataByte, Search, ReceiveId, ReceiveLength, ReceivePayload,
         ReceiveChecksum, ReceiveEof, Take
<1>2. Receiver' = Scan(Receiver, Head(line))
  BY <1>1 DEF Receiver, Scan, HeadersSeen
<1>3. line \in Seq(Byte)
  BY DEF FramingTypeInv, FramingTypeOK
<1>4. Scanned(Receiver, line) = Scanned(Receiver', line')
  BY <1>1, <1>2, <1>3, ScannedHead
<1>5. QED
  BY <1>2, <1>4 DEF Scanned, Scans!Fold, Scans!FoldLeft, Scans!MapThenFoldSet

LEMMA StartsInit == Init => StartsInv
<1> SUFFICES ASSUME Init PROVE StartsInv
  OBVIOUS
<1>1. /\ line = << >> /\ sent = << >> /\ received = << >> /\ noise = 0 /\ starts = 0
      /\ state = "SEARCHING_FOR_SOF"
  BY DEF Init
<1>2. Scanned(Receiver, line).starts = 0
  BY <1>1, ScannedEmpty DEF Receiver
<1>3. Len(<< >>) = 0
  OBVIOUS
<1>4. QED
  BY <1>1, <1>2, <1>3 DEF StartsInv

LEMMA StartsStep == ASSUME FramingTypeInv, StartsInv, [Next]_vars PROVE StartsInv'
<1> DEFINE now == Scanned(Receiver, line).starts
           next == Scanned(Receiver', line').starts
<1>1. /\ Receiver \in Counts /\ starts \in Nat /\ noise \in Nat /\ line \in Seq(Byte)
      /\ sent \in Seq(Frame) /\ Len(sent) \in Nat
      /\ received \in Seq(Received) /\ Len(received) \in Nat
  BY LenProperties DEF FramingTypeInv, FramingTypeOK, Receiver, Counts, Frame, Received
<1>2. /\ now \in Nat /\ now <= Len(sent) + noise
      /\ Len(received) + (IF state = "SEARCHING_FOR_SOF" THEN 0 ELSE 1) <= starts
  BY <1>1, ScannedType DEF StartsInv, Counts
<1>3. ASSUME next <= Len(sent') + noise',
             UNCHANGED <<state, received, starts>>
      PROVE  StartsInv'
  <2>1. Scanned(Receiver, line)' = Scanned(Receiver', line')
    BY DEF Scanned, Scans!Fold, Scans!FoldLeft, Scans!MapThenFoldSet
  <2>2. QED
    BY <1>2, <1>3, <2>1 DEF StartsInv
<1>4. ASSUME NEW f \in Frame, SendFrame(f) PROVE StartsInv'
  <2>1. /\ line = << >> /\ line' = OnWire(f) /\ sent' = Append(sent, f)
        /\ noise' = noise /\ Receiver' = Receiver /\ UNCHANGED <<state, received, starts>>
    BY <1>4 DEF SendFrame, rxVars, Receiver
  <2>2. now = starts
    BY <2>1, ScannedEmpty DEF Receiver
  <2>3. next = starts + 1
    BY <1>1, <2>1, ScannedOnWire DEF Receiver
  <2>4. Len(sent') = Len(sent) + 1
    BY <1>1, <2>1, AppendProperties
  <2> HIDE DEF now, next
  <2>5. next <= Len(sent') + noise'
    BY <1>1, <1>2, <2>1, <2>2, <2>3, <2>4
  <2>6. QED
    BY <1>3, <2>1, <2>5
<1>5. ASSUME Tamper, line' \in Seq(Byte), next <= now + 1 PROVE StartsInv'
  <2>1. /\ noise' = noise + 1 /\ sent' = sent /\ UNCHANGED <<state, received, starts>>
        /\ Receiver' = Receiver
    BY <1>5 DEF Tamper, rxVars, Receiver
  <2>2. next \in Nat
    BY <1>1, <1>5, <2>1, ScannedType DEF Counts
  <2>3. Len(sent') + noise' = Len(sent) + noise + 1
    BY <1>1, <2>1
  <2> HIDE DEF now, next
  <2>4. next <= Len(sent') + noise'
    BY <1>1, <1>2, <1>5, <2>2, <2>3
  <2>5. QED
    BY <1>3, <2>1, <2>4
<1> DEFINE byte == Head(line)
           rest == Tail(line)
<1>6. ASSUME line # << >>
      PROVE  /\ byte \in Byte /\ rest \in Seq(Byte) /\ sent # << >>
             /\ now = Scanned(Scan(Receiver, byte), rest).starts
             /\ Scan(Receiver, byte) \in Counts
  <2>1. byte \in Byte /\ rest \in Seq(Byte) /\ sent # << >>
    BY <1>1, <1>6, HeadTailProperties DEF FramingTypeInv
  <2>2. QED
    BY <1>1, <1>6, <2>1, ScannedHead, ScanIs
<1> HIDE DEF byte, rest, now
<1>7. ASSUME NEW b \in Byte, NEW bytes \in Seq(Byte), Receiver' = Receiver,
             line' = <<b>> \o bytes
      PROVE  /\ line' \in Seq(Byte) /\ Scan(Receiver, b) \in Counts
             /\ next = Scanned(Scan(Receiver, b), bytes).starts
  <2> DEFINE one == <<b>>
  <2>1. one \in Seq(Byte)
    OBVIOUS
  <2>2. Scanned(Receiver, one) = Scan(Receiver, b)
    BY ScannedOne
  <2>3. line' = Cat(one, bytes)
    BY <1>7 DEF Cat
  <2> HIDE DEF one
  <2>4. line' \in Seq(Byte)
    BY <2>1, <2>3, CatProperties
  <2>5. Scanned(Receiver, Cat(one, bytes)) = Scanned(Scan(Receiver, b), bytes)
    BY <2>1, <2>2, ScannedCat
  <2>6. QED
    BY <1>1, <1>7, <2>3, <2>4, <2>5, ScanIs
<1> HIDE DEF next
<1>8. ASSUME Tamper PROVE Receiver' = Receiver
  BY <1>8 DEF Tamper, rxVars, Receiver
<1>9. CASE LoseByte
  <2>1. Tamper /\ line # << >> /\ line' = rest
    BY <1>9 DEF LoseByte, rest
  <2>2. next = Scanned(Receiver, rest).starts
    BY <1>8, <2>1 DEF next
  <2>3. Ahead(Receiver, Scan(Receiver, byte))
    BY <1>1, <1>6, <2>1, NoiseIsAhead
  <2>4. Scanned(Receiver, rest).starts <= Scanned(Scan(Receiver, byte), rest).starts + 1
    BY <1>1, <1>6, <2>1, <2>3, ScannedAhead
  <2>5. QED
    BY <1>5, <1>6, <2>1, <2>2, <2>4
<1>10. ASSUME NEW b \in NoiseBytes, CorruptByte(b) PROVE StartsInv'
  <2>1. Tamper /\ line # << >> /\ line' = <<b>> \o rest /\ b \in Byte
    BY <1>10, FramingAssumption DEF CorruptByte, rest
  <2>2. /\ line' \in Seq(Byte) /\ Scan(Receiver, b) \in Counts
        /\ next = Scanned(Scan(Receiver, b), rest).starts
    BY <1>6, <1>7, <1>8, <2>1
  <2>3. Ahead(Scan(Receiver, b), Scan(Receiver, byte))
    BY <1>1, <1>6, <2>1, NoiseIsAhead
  <2>4. Scanned(Scan(Receiver, b), rest).starts
            <= Scanned(Scan(Receiver, byte), rest).starts + 1
    BY <1>6, <2>1, <2>2, <2>3, ScannedAhead
  <2>5. QED
    BY <1>5, <1>6, <2>1, <2>2, <2>4
<1>11. ASSUME NEW b \in NoiseBytes, AddByte(b) PROVE StartsInv'
  <2>1. Tamper /\ line' = <<b>> \o line /\ b \in Byte
    BY <1>11, FramingAssumption DEF AddByte
  <2>2. /\ line' \in Seq(Byte) /\ Scan(Receiver, b) \in Counts
        /\ next = Scanned(Scan(Receiver, b), line).starts
    BY <1>1, <1>7, <1>8, <2>1
  <2>3. Ahead(Scan(Receiver, b), Receiver)
    BY <1>1, <2>1, NoiseIsAhead
  <2>4. Scanned(Scan(Receiver, b), line).starts <= now + 1
    BY <1>1, <2>2, <2>3, ScannedAhead DEF now
  <2>5. QED
    BY <1>5, <2>1, <2>2, <2>4
<1>12. CASE RxByte
  <2>1. /\ Scanned(Receiver, line)' = Scanned(Receiver, line)
        /\ UNCHANGED <<sent, noise>>
    BY <1>12, RxByteScans DEF RxByte, ThirdByte, DataByte, Search, ReceiveId, ReceiveLength,
       ReceivePayload, ReceiveChecksum, ReceiveEof, Take
  <2> DEFINE open == IF state = "SEARCHING_FOR_SOF" THEN 0 ELSE 1
  <2>2. \/ received' = received /\ starts' = starts /\ open' <= open
        \/ received' = received /\ starts' = starts + 1
        \/ /\ starts' = starts /\ open = 1 /\ open' = 0
           /\ received' = received \/ \E f \in Received : received' = Append(received, f)
    <3>1. CASE ThirdByte
      BY <3>1 DEF ThirdByte, AfterTwoHeaders
    <3>2. CASE Search
      BY <3>2 DEF Search, DataByte
    <3>3. CASE ReceiveId \/ ReceiveLength \/ ReceivePayload \/ ReceiveChecksum
      BY <3>3 DEF ReceiveId, ReceiveLength, ReceivePayload, ReceiveChecksum, DataByte
    <3>4. CASE ReceiveEof
      <4>1. starts' = starts /\ open = 1 /\ open' = 0
            /\ \/ received' = received
               \/ received' = Append(received, [id |-> frame.id % 64,
                                                payload |-> frame.payload])
        BY <3>4 DEF ReceiveEof, DataByte
      <4>2. [id |-> frame.id % 64, payload |-> frame.payload] \in Received
        <5>1. \A m \in Byte : m % 64 \in 0..63
          BY DEF Byte
        <5>2. frame.id \in Byte /\ frame.payload \in Seq(Byte)
          BY DEF FramingTypeInv, FramingTypeOK
        <5>3. QED
          BY <5>1, <5>2 DEF Received
      <4>3. QED
        BY <4>1, <4>2
    <3>5. QED
      BY <1>12, <3>1, <3>2, <3>3, <3>4 DEF RxByte
  <2>3. /\ open \in 0..1 /\ open' \in 0..1
        /\ \A f \in Received : Len(Append(received, f)) = Len(received) + 1
    BY <1>1, AppendProperties
  <2>4. Len(received) + open <= starts
    BY <1>2
  <2> HIDE DEF open
  <2>5. Len(received') + open' <= starts'
    BY <1>1, <2>2, <2>3, <2>4
  <2>6. QED
    BY <2>1, <2>5 DEF StartsInv, open
<1>13. CASE UNCHANGED vars
  <2>1. /\ next = now /\ Len(sent') + noise' = Len(sent) + noise
        /\ UNCHANGED <<state, received, starts>>
    BY <1>13 DEF vars, lineVars, rxVars, Receiver, next, now
  <2>2. QED
    BY <1>2, <1>3, <2>1
<1>14. ASSUME NEW id \in Ids, NEW p \in Payloads, SendFrame([id |-> id, payload |-> p])
       PROVE  StartsInv'
  BY <1>4, <1>14 DEF Frame
<1>15. QED
  BY <1>9, <1>10, <1>11, <1>12, <1>13, <1>14 DEF Next

(* However the line tampers with the bytes and whatever the checksum, the
   receiver begins a frame only where one was sent or where noise was, and
   delivers no more frames than it began.                                  *)
THEOREM StartsAreAlwaysSent == Spec => []StartsAreSent
<1>1. Init => StartsInv
  BY StartsInit
<1>2. FramingTypeInv /\ StartsInv /\ [Next]_vars => StartsInv'
  BY StartsStep
<1>3. FramingTypeInv /\ StartsInv => StartsAreSent
  <2> SUFFICES ASSUME FramingTypeInv, StartsInv PROVE StartsAreSent
    OBVIOUS
  <2> DEFINE n == Scanned(Receiver, line).starts
  <2>1. /\ starts \in Nat /\ Len(received) \in Nat /\ line \in Seq(Byte)
        /\ Receiver \in Counts /\ Len(sent) \in Nat /\ noise \in Nat
    BY LenProperties DEF FramingTypeInv, FramingTypeOK, Receiver, Counts
  <2>2. n \in Nat /\ starts <= n
    BY <2>1, ScannedGrows, ScannedType DEF Receiver, Counts
  <2>3. n <= Len(sent) + noise
    BY DEF StartsInv
  <2>4. Len(received) <= starts
    BY <2>1 DEF StartsInv
  <2> HIDE DEF n
  <2>5. QED
    BY <2>1, <2>2, <2>3, <2>4 DEF StartsAreSent
<1>4. QED
  BY <1>1, <1>2, <1>3, FramingTypeAlways, PTL DEF Spec

-----------------------------------------------------------------------------
(* The bytes of a delivered frame *)

(* What the receiver has made of the bytes of the frame it is in. *)
BytesOf(g) == Cat(Cat(<<g.id, g.length>>, g.payload), g.check)
Understood ==
    IF state = "RECEIVING_ID_CONTROL" THEN << >>
    ELSE IF state = "RECEIVING_LENGTH" THEN <<frame.id>>
    ELSE BytesOf(frame)

(* A sender that has put n header bytes in a row on the wire last, and the stuff
   byte after two of them, has put these bytes there, a last stuff byte aside. *)
Stuffed(bytes, wire, n) ==
    /\ Stuffing(bytes).wire = IF n = 2 THEN Cat(wire, <<STUFF_BYTE>>) ELSE wire
    /\ Stuffing(bytes).countdown = IF n = 1 THEN 1 ELSE 2

Receiving == state # "SEARCHING_FOR_SOF"

(* What has been taken since the start of the frame is what a sender sends for
   what has been understood; and what has passed a check has been checked.   *)
BegunInv ==
    /\ Receiving => Stuffed(Understood, begun, seen)
    /\ state \in {"RECEIVING_CHECKSUM", "RECEIVING_EOF"} =>
        Len(frame.payload) = frame.length
    /\ state = "RECEIVING_EOF" => ChecksumPasses(frame)

LEMMA StuffedStep ==
    ASSUME NEW bytes \in Seq(Byte), NEW wire \in Seq(Byte), NEW n \in 0..1,
           NEW byte \in Byte, Stuffed(bytes, wire, n)
    PROVE  Stuffed(Append(bytes, byte), Append(wire, byte),
                   IF byte = HEADER_BYTE THEN n + 1 ELSE 0)
<1> DEFINE d == Stuffing(bytes).countdown
           new == Stuffing(Append(bytes, byte))
           one == <<byte>>
           stuff == <<STUFF_BYTE>>
<1>1. Stuffing(bytes).wire = wire /\ d = IF n = 1 THEN 1 ELSE 2
  BY DEF Stuffed
<1>2. /\ new.wire = Cat(wire, Added(d, byte))
      /\ new.countdown = IF byte = HEADER_BYTE /\ d = 2 THEN 1 ELSE 2
  BY <1>1, StuffingAppend, StuffingType, TxByteIs
<1>3. one \in Seq(Byte) /\ stuff \in Seq(Byte)
  BY BytesAre
<1>4. Append(wire, byte) = Cat(wire, one)
  BY AppendIsConcat DEF Cat
<1> HIDE DEF new, d
<1>5. CASE byte = HEADER_BYTE /\ n = 1
  <2>1. <<byte, STUFF_BYTE>> = Cat(one, stuff)
    BY BytesAre, PairIs
  <2>2. Added(d, byte) = Cat(one, stuff)
    BY <1>1, <1>5, <2>1 DEF Added
  <2> HIDE DEF one, stuff
  <2>3. new.wire = Cat(Append(wire, byte), stuff)
    BY <1>2, <1>3, <1>4, <2>2, CatIsGrouped
  <2>4. new.countdown = 2
    BY <1>1, <1>2, <1>5
  <2>5. QED
    BY <1>5, <2>3, <2>4 DEF Stuffed, new, stuff
<1>6. CASE ~(byte = HEADER_BYTE /\ n = 1)
  <2>1. Added(d, byte) = one
    BY <1>1, <1>6 DEF Added
  <2>2. new.wire = Append(wire, byte)
    BY <1>2, <1>4, <2>1
  <2>3. new.countdown = IF byte = HEADER_BYTE THEN 1 ELSE 2
    BY <1>1, <1>2, <1>6
  <2>4. (IF byte = HEADER_BYTE THEN n + 1 ELSE 0) = IF byte = HEADER_BYTE THEN 1 ELSE 0
    BY <1>6
  <2>5. QED
    BY <2>2, <2>3, <2>4 DEF Stuffed, new
<1>7. QED
  BY <1>5, <1>6

LEMMA StuffedEmpty == Stuffed(<< >>, << >>, 0)
  BY StuffingEmpty DEF Stuffed, Nothing, HeaderCountdown

LEMMA BytesOfAre ==
    ASSUME NEW g \in FrameBuffer
    PROVE  /\ <<g.id, g.length>> \in Seq(Byte)
           /\ Cat(<<g.id, g.length>>, g.payload) \in Seq(Byte)
           /\ BytesOf(g) \in Seq(Byte)
<1>1. MAX_PAYLOAD \in Byte
  BY FramingAssumption
<1>2. g.length \in Byte /\ g.id \in Byte /\ g.payload \in Seq(Byte) /\ g.check \in Seq(Byte)
  <2>1. /\ g.id \in Byte /\ g.length \in 0..MAX_PAYLOAD
        /\ g.payload \in Seq(Byte) /\ g.check \in Seq(Byte)
    BY FrameFields
  <2>2. \A m \in Byte : 0..m \subseteq Byte
    BY DEF Byte
  <2>3. QED
    BY <1>1, <2>1, <2>2
<1> DEFINE h == <<g.id, g.length>>
<1>3. h \in Seq(Byte)
  BY <1>2
<1> HIDE DEF h
<1>4. Cat(h, g.payload) \in Seq(Byte)
  BY <1>2, <1>3, CatProperties
<1>5. Cat(Cat(h, g.payload), g.check) \in Seq(Byte)
  BY <1>2, <1>4, CatProperties
<1>6. QED
  BY <1>3, <1>4, <1>5 DEF h, BytesOf

(* A byte of the frame is added to what has been understood. *)
LEMMA UnderstoodGrows ==
    ASSUME FramingTypeInv, RxByte, seen # 2, Receiving, Receiving'
    PROVE  /\ Understood \in Seq(Byte)
           /\ Understood' = Append(Understood, Head(line))
<1> DEFINE byte == Head(line)
           h == <<frame.id, frame.length>>
           hp == Cat(h, frame.payload)
<1>1. byte \in Byte
  <2>1. Take
    BY DEF RxByte, ThirdByte, DataByte, Search, ReceiveId, ReceiveLength, ReceivePayload,
           ReceiveChecksum, ReceiveEof
  <2>2. QED
    BY <2>1, TakeType
<1>2. frame \in FrameBuffer /\ AsAwaited
  BY DEF FramingTypeInv, FramingTypeOK, FrameBuffer
<1>3. /\ frame.id \in Byte /\ frame.payload \in Seq(Byte) /\ frame.check \in Seq(Byte)
      /\ frame = [id |-> frame.id, length |-> frame.length, payload |-> frame.payload,
                  check |-> frame.check]
  BY <1>2, FrameFields
<1>4. h \in Seq(Byte) /\ hp \in Seq(Byte) /\ BytesOf(frame) \in Seq(Byte)
  BY <1>2, BytesOfAre
<1>5. BytesOf(frame) = Cat(hp, frame.check)
  BY DEF BytesOf
<1>6. \A q \in Seq(Byte) : Cat(q, << >>) = q
  BY ConcatEmptySeq DEF Cat
<1>7. \/ ReceiveId \/ ReceiveLength \/ ReceivePayload \/ ReceiveChecksum
  BY DEF RxByte, ThirdByte, Search, ReceiveEof, DataByte, Receiving
<1> HIDE DEF byte, hp
<1>8. CASE ReceiveId
  <2>1. /\ state = "RECEIVING_ID_CONTROL" /\ state' = "RECEIVING_LENGTH"
        /\ frame' = [NoFrame EXCEPT !.id = byte]
    BY <1>8 DEF ReceiveId, DataByte, Receiving, byte
  <2>2. frame'.id = byte
    BY <2>1 DEF NoFrame
  <2>3. Understood = << >> /\ Understood' = <<byte>>
    BY <2>1, <2>2 DEF Understood
  <2>4. Append(<< >>, byte) = <<byte>> /\ << >> \in Seq(Byte)
    OBVIOUS
  <2>5. QED
    BY <2>3, <2>4 DEF byte
<1>9. CASE ReceiveLength
  <2>1. state = "RECEIVING_LENGTH" /\ state' \in {"RECEIVING_PAYLOAD", "RECEIVING_CHECKSUM"}
    BY <1>9 DEF ReceiveLength, DataByte, Receiving
  <2>2. frame.length = 0 /\ frame.payload = << >> /\ frame.check = << >>
    BY <1>2, <2>1 DEF AsAwaited
  <2>3. /\ frame'.id = frame.id /\ frame'.length = byte
        /\ frame'.payload = << >> /\ frame'.check = << >>
    <3>1. CASE byte = 0
      BY <1>9, <2>2, <3>1 DEF ReceiveLength, byte
    <3>2. CASE byte # 0
      <4>1. frame' = [frame EXCEPT !.length = byte]
        BY <1>9, <2>1, <3>2 DEF ReceiveLength, byte, Receiving
      <4>2. QED
        BY <1>3, <2>2, <4>1
    <3>3. QED
      BY <3>1, <3>2
  <2> DEFINE two == <<frame.id, byte>>
  <2>4. two \in Seq(Byte) /\ two = Append(<<frame.id>>, byte) /\ <<frame.id>> \in Seq(Byte)
    BY <1>1, <1>3
  <2>5. Understood = <<frame.id>>
    BY <2>1 DEF Understood
  <2>6. Understood' = Cat(Cat(two, << >>), << >>)
    BY <2>1, <2>3 DEF Understood, BytesOf, Cat
  <2> HIDE DEF two
  <2>7. Understood' = two
    BY <1>6, <2>4, <2>6
  <2>8. QED
    BY <2>4, <2>5, <2>7 DEF byte
<1>10. CASE ReceivePayload
  <2>1. /\ state = "RECEIVING_PAYLOAD" /\ frame.check = << >>
        /\ state' \in {"RECEIVING_PAYLOAD", "RECEIVING_CHECKSUM"}
        /\ frame' = [frame EXCEPT !.payload = Append(@, byte)]
    BY <1>2, <1>10 DEF ReceivePayload, DataByte, AsAwaited, byte
  <2>2. /\ frame'.id = frame.id /\ frame'.length = frame.length
        /\ frame'.payload = Append(frame.payload, byte) /\ frame'.check = << >>
    BY <1>3, <2>1
  <2>3. Understood = hp
    BY <1>4, <1>5, <1>6, <2>1 DEF Understood
  <2>4. Understood' = Cat(Cat(h, Append(frame.payload, byte)), << >>)
    BY <2>1, <2>2 DEF Understood, BytesOf, Cat
  <2> HIDE DEF h
  <2>5. Cat(h, Append(frame.payload, byte)) = Append(hp, byte)
    BY <1>1, <1>3, <1>4, AppendToCat DEF hp
  <2>6. Append(hp, byte) \in Seq(Byte)
    BY <1>1, <1>4, AppendProperties
  <2>7. Understood' = Append(hp, byte)
    BY <1>6, <2>4, <2>5, <2>6
  <2>8. QED
    BY <1>4, <2>3, <2>7 DEF byte
<1>11. CASE ReceiveChecksum
  <2>1. /\ state = "RECEIVING_CHECKSUM"
        /\ state' \in {"RECEIVING_CHECKSUM", "RECEIVING_EOF"}
        /\ frame' = [frame EXCEPT !.check = Append(@, byte)]
    BY <1>11 DEF ReceiveChecksum, DataByte, Receiving, byte
  <2>2. /\ frame'.id = frame.id /\ frame'.length = frame.length
        /\ frame'.payload = frame.payload /\ frame'.check = Append(frame.check, byte)
    BY <1>3, <2>1
  <2>3. Understood = Cat(hp, frame.check)
    BY <1>5, <2>1 DEF Understood
  <2>4. Understood' = Cat(hp, Append(frame.check, byte))
    BY <2>1, <2>2 DEF Understood, BytesOf, Cat, hp
  <2>5. Cat(hp, Append(frame.check, byte)) = Append(Cat(hp, frame.check), byte)
    BY <1>1, <1>3, <1>4, AppendToCat
  <2>6. QED
    BY <1>4, <1>5, <2>3, <2>4, <2>5 DEF byte
<1>12. QED
  BY <1>7, <1>8, <1>9, <1>10, <1>11

LEMMA BegunRx == ASSUME FramingTypeInv, BegunInv, RxByte PROVE BegunInv'
<1> DEFINE byte == Head(line)
<1>1. Take
  BY DEF RxByte, ThirdByte, DataByte, Search, ReceiveId, ReceiveLength, ReceivePayload,
         ReceiveChecksum, ReceiveEof
<1>2. byte \in Byte /\ seen \in 0..2 /\ begun \in Seq(Byte) /\ AsAwaited /\ starts \in Nat
  BY <1>1, TakeType DEF FramingTypeInv, FramingTypeOK
<1>3. CASE seen = 2
  <2>1. ThirdByte
    BY <1>3 DEF RxByte, DataByte, Search, ReceiveId, ReceiveLength, ReceivePayload,
                ReceiveChecksum, ReceiveEof
  <2>2. /\ seen' = 0 /\ frame' = frame /\ state' = AfterTwoHeaders(byte)
        /\ starts' = IF byte = HEADER_BYTE THEN starts + 1 ELSE starts
    BY <2>1 DEF ThirdByte
  <2>3. CASE byte = HEADER_BYTE
    <3>1. state' = "RECEIVING_ID_CONTROL" /\ begun' = << >>
      <4>1. starts' # starts
        BY <1>2, <2>2, <2>3
      <4>2. QED
        BY <2>2, <2>3, <4>1 DEF RxByte, AfterTwoHeaders
    <3>2. Stuffed(Understood', begun', seen')
      BY <2>2, <3>1, StuffedEmpty DEF Understood
    <3>3. QED
      BY <3>1, <3>2 DEF BegunInv, Stuffed
  <2>4. CASE byte = STUFF_BYTE
    <3>1. byte # HEADER_BYTE
      BY <2>4 DEF STUFF_BYTE, HEADER_BYTE
    <3>2. state' = state /\ starts' = starts
      BY <2>2, <2>4, <3>1 DEF AfterTwoHeaders
    <3>3. Understood' = Understood
      BY <2>2, <3>2 DEF Understood, BytesOf, Cat
    <3>4. ASSUME Receiving PROVE Stuffed(Understood, begun', 0)
      <4>1. begun' = Append(begun, STUFF_BYTE)
        BY <2>4, <3>2, <3>4 DEF RxByte, Receiving
      <4>2. begun' = Cat(begun, <<STUFF_BYTE>>)
        BY <1>2, <4>1, BytesAre, AppendIsConcat DEF Cat
      <4>3. Stuffed(Understood, begun, 2)
        BY <1>3, <3>4 DEF BegunInv
      <4>4. QED
        BY <4>2, <4>3 DEF Stuffed
    <3>5. (Receiving => Stuffed(Understood, begun, seen))'
      BY <2>2, <3>2, <3>3, <3>4 DEF Receiving, Stuffed
    <3>6. QED
      BY <2>2, <3>2, <3>5 DEF BegunInv, ChecksumPasses
  <2>5. CASE byte # HEADER_BYTE /\ byte # STUFF_BYTE
    BY <2>2, <2>5 DEF AfterTwoHeaders, BegunInv, Receiving
  <2>6. QED
    BY <2>3, <2>4, <2>5
<1>4. CASE seen # 2
  <2>1. /\ seen' = HeadersSeen(byte) /\ starts' = starts
        /\ \/ Search \/ ReceiveId \/ ReceiveLength \/ ReceivePayload \/ ReceiveChecksum
           \/ ReceiveEof
    BY <1>4 DEF RxByte, ThirdByte, DataByte, Search, ReceiveId, ReceiveLength,
                ReceivePayload, ReceiveChecksum, ReceiveEof
  <2>2. ASSUME Receiving' PROVE Stuffed(Understood', begun', seen')
    <3>1. Receiving
      BY <2>1, <2>2 DEF Search, DataByte, ReceiveId, ReceiveLength, ReceivePayload,
                        ReceiveChecksum, ReceiveEof, Receiving
    <3>2. Understood \in Seq(Byte) /\ Understood' = Append(Understood, byte)
      BY <1>4, <2>2, <3>1, UnderstoodGrows
    <3>3. begun' = Append(begun, byte)
      BY <2>1, <2>2 DEF RxByte, Receiving
    <3>4. seen \in 0..1 /\ seen' = IF byte = HEADER_BYTE THEN seen + 1 ELSE 0
      BY <1>2, <1>4, <2>1 DEF HeadersSeen
    <3>5. Stuffed(Understood, begun, seen)
      BY <3>1 DEF BegunInv
    <3> HIDE DEF byte
    <3>6. QED
      BY <1>2, <3>2, <3>3, <3>4, <3>5, StuffedStep
  <2>3. (Receiving => Stuffed(Understood, begun, seen))'
    BY <2>2 DEF Stuffed
  <2>4. ASSUME state' \in {"RECEIVING_CHECKSUM", "RECEIVING_EOF"}
        PROVE  Len(frame'.payload) = frame'.length
    <3>1. CASE ReceiveLength
      <4>1. state = "RECEIVING_LENGTH" /\ frame' = frame
        BY <2>4, <3>1 DEF ReceiveLength, DataByte
      <4>2. frame.length = 0 /\ frame.payload = << >>
        BY <1>2, <4>1 DEF AsAwaited
      <4>3. QED
        BY <4>1, <4>2
    <3>2. CASE ReceivePayload
      <4>1. /\ frame' = [frame EXCEPT !.payload = Append(@, byte)]
            /\ Len(frame'.payload) = frame.length
        BY <2>4, <3>2 DEF ReceivePayload, DataByte
      <4>2. frame \in FrameBuffer
        BY DEF FramingTypeInv, FramingTypeOK, FrameBuffer
      <4>3. frame'.length = frame.length
        BY <4>1, <4>2 DEF FrameBuffer
      <4>4. QED
        BY <4>1, <4>3
    <3>3. CASE ReceiveChecksum
      <4>1. state = "RECEIVING_CHECKSUM" /\ frame' = [frame EXCEPT !.check = Append(@, byte)]
        BY <3>3 DEF ReceiveChecksum, DataByte
      <4>2. frame \in FrameBuffer
        BY DEF FramingTypeInv, FramingTypeOK, FrameBuffer
      <4>3. frame'.length = frame.length /\ frame'.payload = frame.payload
        BY <4>1, <4>2 DEF FrameBuffer
      <4>4. QED
        BY <4>1, <4>3 DEF BegunInv
    <3>4. ~Search /\ ~ReceiveId /\ ~ReceiveEof
      BY <2>4 DEF Search, ReceiveId, ReceiveEof, DataByte
    <3>5. QED
      BY <2>1, <3>1, <3>2, <3>3, <3>4
  <2>5. ASSUME state' = "RECEIVING_EOF" PROVE ChecksumPasses(frame')
    BY <2>1, <2>5 DEF Search, ReceiveId, ReceiveLength, ReceivePayload, ReceiveChecksum,
                      ReceiveEof, DataByte
  <2>6. QED
    BY <2>3, <2>4, <2>5 DEF BegunInv, ChecksumPasses
<1>5. QED
  BY <1>3, <1>4

LEMMA BegunStep == ASSUME FramingTypeInv, BegunInv, [Next]_vars PROVE BegunInv'
<1>1. ASSUME UNCHANGED rxVars PROVE BegunInv'
  <2>1. UNCHANGED <<state, seen, frame, begun>>
    BY <1>1 DEF rxVars
  <2>2. Understood' = Understood
    BY <2>1 DEF Understood, BytesOf, Cat
  <2>3. QED
    BY <2>1, <2>2 DEF BegunInv, Receiving, Stuffed, ChecksumPasses
<1>2. CASE RxByte
  BY <1>2, BegunRx
<1>3. CASE \E id \in Ids, p \in Payloads : SendFrame([id |-> id, payload |-> p])
  BY <1>1, <1>3 DEF SendFrame
<1>4. CASE LoseByte \/ \E b \in NoiseBytes : CorruptByte(b) \/ AddByte(b)
  BY <1>1, <1>4 DEF LoseByte, CorruptByte, AddByte, Tamper
<1>5. CASE UNCHANGED vars
  BY <1>1, <1>5 DEF vars
<1>6. QED
  BY <1>2, <1>3, <1>4, <1>5 DEF Next

LEMMA BegunAlways == Spec => []BegunInv
<1>1. Init => BegunInv
  BY DEF Init, BegunInv, Receiving
<1>2. FramingTypeInv /\ BegunInv /\ [Next]_vars => BegunInv'
  BY BegunStep
<1>3. QED
  BY <1>1, <1>2, FramingTypeAlways, PTL DEF Spec

(* Whatever the line does and whatever the checksum, a frame is handed over
   only after exactly the bytes a sender would have put on the wire for it.  *)
THEOREM DeliveredAsFramedAlways == Spec => DeliveredAsFramed
<1> DEFINE f == [id |-> frame.id, payload |-> frame.payload]
           Delivery == received' # received =>
               /\ begun \o <<Head(line)>> = Stuffing(Body(f)).wire \o <<EOF_BYTE>>
               /\ received' = Append(received, [f EXCEPT !.id = @ % 64])
<1>1. ASSUME FramingTypeInv, BegunInv, [Next]_vars PROVE [Delivery]_vars
  <2> SUFFICES ASSUME received' # received
               PROVE  /\ begun \o <<Head(line)>> = Stuffing(Body(f)).wire \o <<EOF_BYTE>>
                      /\ received' = Append(received, [f EXCEPT !.id = @ % 64])
    OBVIOUS
  <2>1. ReceiveEof
    BY <1>1 DEF Next, vars, rxVars, SendFrame, LoseByte, CorruptByte, AddByte, Tamper,
                RxByte, ThirdByte, Search, ReceiveId, ReceiveLength, ReceivePayload,
                ReceiveChecksum
  <2>2. /\ state = "RECEIVING_EOF" /\ seen # 2 /\ Head(line) = EOF_BYTE
        /\ received' = Append(received, [id |-> frame.id % 64, payload |-> frame.payload])
    BY <2>1 DEF ReceiveEof, DataByte
  <2>3. /\ Len(frame.payload) = frame.length
        /\ frame.check = Checksum(<<frame.id, frame.length>> \o frame.payload)
        /\ Stuffing(BytesOf(frame)).wire = begun
    BY <1>1, <2>2 DEF BegunInv, ChecksumPasses, Receiving, Stuffed, Understood
  <2>4. Body(f) = BytesOf(frame)
    BY <2>3 DEF Body, Covered, BytesOf, Cat
  <2>5. QED
    BY <2>2, <2>3, <2>4
<1>2. QED
  BY <1>1, FramingTypeAlways, BegunAlways, PTL DEF Spec, DeliveredAsFramed

=============================================================================
