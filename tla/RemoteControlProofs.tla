------------------------- MODULE RemoteControlProofs -------------------------
(***************************************************************************)
(* Proof that RemoteControl implements CommandChannel, for any number of   *)
(* commands, losses and restarts, any lengths of commands and any lengths  *)
(* of the queues.                                                          *)
(*                                                                         *)
(* The promise speaks of the set of commands without effect; that the one  *)
(* at the head of the line is the oldest of them, and that it is in no     *)
(* other queue, takes the order of the numbers along the four queues       *)
(* (PathInOrder).                                                          *)
(* The second half is about the readings (ReadingsInOrder).                *)
(***************************************************************************)
EXTENDS RemoteControl, SequenceTheorems, TLAPS

(* A loss, number 0, may be anywhere. *)
Increasing(q) ==
    \A i, j \in DOMAIN q :
        i < j /\ q[i].no # 0 /\ q[j].no # 0 => q[i].no < q[j].no

Before(S, T) ==
    \A a \in S, b \in T : a.no # 0 /\ b.no # 0 => a.no < b.no

PathInOrder ==
    /\ Increasing(down) /\ Increasing(cmdQ)
    /\ Increasing(consumerQ) /\ Increasing(net)
    /\ Before(Elements(down), Elements(cmdQ))
    /\ Before(Elements(down), Elements(consumerQ))
    /\ Before(Elements(down), Elements(net))
    /\ Before(Elements(cmdQ), Elements(consumerQ))
    /\ Before(Elements(cmdQ), Elements(net))
    /\ Before(Elements(consumerQ), Elements(net))
    /\ \A c \in Elements(down) \cup Elements(cmdQ) \cup Elements(consumerQ)
                    \cup Elements(net) : c.no <= published

(* What a frame says is what the command said, if the command fits. *)
FramesAsPublished ==
    \A f \in Elements(down) : f.kind \in Short => f.says = Says[f.kind]

CommandTypes ==
    /\ published \in 0..MaxCmds
    /\ net \in Seq(Commands)
    /\ consumerQ \in Seq(Commands \cup {Lost})
    /\ cmdQ \in Seq(Commands)
    /\ down \in Seq(Frames)

FlagTypes ==
    /\ subscribed \in BOOLEAN /\ handed \in BOOLEAN /\ led \in BOOLEAN
    /\ readPc \in {"command", "read", "get"}

CountTypes ==
    /\ drops \in 0..MaxDrops /\ noise \in 0..MaxNoise
    /\ crashes \in 0..MaxCrashes /\ sampled \in 0..MaxReadings

CommandInv ==
    CommandTypes /\ FlagTypes /\ CountTypes /\ PathInOrder /\ FramesAsPublished

-----------------------------------------------------------------------------

LEMMA ElementsOfAppend ==
    ASSUME NEW S, NEW q \in Seq(S), NEW e \in S
    PROVE  /\ Append(q, e) \in Seq(S)
           /\ Elements(Append(q, e)) = Elements(q) \cup {e}
           /\ Elements(q) \subseteq S
<1>1. /\ Append(q, e) \in Seq(S) /\ Len(q) \in Nat
      /\ DOMAIN q = 1..Len(q) /\ DOMAIN Append(q, e) = 1..(Len(q) + 1)
      /\ \A i \in 1..Len(q) : Append(q, e)[i] = q[i]
      /\ Append(q, e)[Len(q) + 1] = e
  OBVIOUS
<1>2. \A i \in 1..(Len(q) + 1) : i \in 1..Len(q) \/ i = Len(q) + 1
  BY <1>1
<1>3. Len(q) + 1 \in 1..(Len(q) + 1) /\ \A i \in 1..Len(q) : i \in 1..(Len(q) + 1)
  BY <1>1
<1>4. \A x \in Elements(Append(q, e)) : x \in Elements(q) \cup {e}
  BY <1>1, <1>2 DEF Elements
<1>5. \A x \in Elements(q) \cup {e} : x \in Elements(Append(q, e))
  BY <1>1, <1>3 DEF Elements
<1>6. Elements(q) \subseteq S
  BY DEF Elements
<1> QED
  BY <1>1, <1>4, <1>5, <1>6

LEMMA ElementsOfTail ==
    ASSUME NEW S, NEW q \in Seq(S), q # << >>
    PROVE  /\ Head(q) \in S /\ Tail(q) \in Seq(S)
           /\ Elements(q) = {Head(q)} \cup Elements(Tail(q))
           /\ Elements(q) \subseteq S
<1>1. /\ Tail(q) \in Seq(S) /\ Len(q) \in Nat \ {0} /\ Head(q) = q[1]
      /\ DOMAIN q = 1..Len(q) /\ DOMAIN Tail(q) = 1..(Len(q) - 1)
      /\ \A i \in 1..(Len(q) - 1) : Tail(q)[i] = q[i + 1]
  OBVIOUS
<1>2. \A i \in 1..Len(q) : i = 1 \/ (i - 1 \in 1..(Len(q) - 1) /\ (i - 1) + 1 = i)
  BY <1>1
<1>3. 1 \in 1..Len(q) /\ \A i \in 1..(Len(q) - 1) : i + 1 \in 1..Len(q)
  BY <1>1
<1>4. ASSUME NEW x \in Elements(q)
      PROVE  x \in {Head(q)} \cup Elements(Tail(q))
  <2>1. PICK i \in 1..Len(q) : x = q[i]
    BY <1>1, <1>4 DEF Elements
  <2>2. i # 1 => x = Tail(q)[i - 1] /\ i - 1 \in DOMAIN Tail(q)
    BY <1>1, <1>2, <2>1
  <2> QED
    BY <1>1, <2>1, <2>2 DEF Elements
<1>5. \A x \in {Head(q)} \cup Elements(Tail(q)) : x \in Elements(q)
  BY <1>1, <1>3 DEF Elements
<1>6. Elements(q) \subseteq S
  BY DEF Elements
<1>7. Head(q) \in S
  BY <1>1, <1>3
<1> QED
  BY <1>1, <1>4, <1>5, <1>6, <1>7

LEMMA NoElements == Elements(<< >>) = {} /\ Increasing(<< >>)
  BY DEF Elements, Increasing

LEMMA IncreasingAppend ==
    ASSUME NEW S, NEW q \in Seq(S), NEW e \in S, Increasing(q),
           \A x \in Elements(q) : x.no # 0 /\ e.no # 0 => x.no < e.no
    PROVE  Increasing(Append(q, e))
<1>1. /\ Len(q) \in Nat
      /\ DOMAIN q = 1..Len(q) /\ DOMAIN Append(q, e) = 1..(Len(q) + 1)
      /\ \A i \in 1..Len(q) : Append(q, e)[i] = q[i]
      /\ Append(q, e)[Len(q) + 1] = e
  OBVIOUS
<1>2. SUFFICES ASSUME NEW i \in 1..(Len(q) + 1), NEW j \in 1..(Len(q) + 1),
                      i < j, Append(q, e)[i].no # 0, Append(q, e)[j].no # 0
               PROVE  Append(q, e)[i].no < Append(q, e)[j].no
  BY <1>1 DEF Increasing
<1>3. i \in 1..Len(q) /\ (j \in 1..Len(q) \/ j = Len(q) + 1)
  BY <1>1, <1>2
<1>4. CASE j \in 1..Len(q)
  BY <1>1, <1>2, <1>3, <1>4 DEF Increasing
<1>5. CASE j = Len(q) + 1
  BY <1>1, <1>2, <1>3, <1>5 DEF Elements
<1> QED
  BY <1>3, <1>4, <1>5

LEMMA IncreasingTail ==
    ASSUME NEW S, NEW q \in Seq(S), q # << >>, Increasing(q)
    PROVE  /\ Increasing(Tail(q))
           /\ \A x \in Elements(Tail(q)) :
                  Head(q).no # 0 /\ x.no # 0 => Head(q).no < x.no
<1>1. /\ Len(q) \in Nat \ {0} /\ Head(q) = q[1]
      /\ DOMAIN q = 1..Len(q) /\ DOMAIN Tail(q) = 1..(Len(q) - 1)
      /\ \A i \in 1..(Len(q) - 1) : Tail(q)[i] = q[i + 1]
  OBVIOUS
<1>2. ASSUME NEW i \in 1..(Len(q) - 1), NEW j \in 1..(Len(q) - 1), i < j,
             Tail(q)[i].no # 0, Tail(q)[j].no # 0
      PROVE  Tail(q)[i].no < Tail(q)[j].no
  <2>1. i + 1 \in DOMAIN q /\ j + 1 \in DOMAIN q /\ i + 1 < j + 1
    BY <1>1, <1>2
  <2>2. Tail(q)[i] = q[i + 1] /\ Tail(q)[j] = q[j + 1]
    BY <1>1
  <2> QED
    BY <1>2, <2>1, <2>2 DEF Increasing
<1>3. ASSUME NEW i \in 1..(Len(q) - 1), q[1].no # 0, Tail(q)[i].no # 0
      PROVE  q[1].no < Tail(q)[i].no
  <2>1. i + 1 \in DOMAIN q /\ 1 \in DOMAIN q /\ 1 < i + 1
    BY <1>1
  <2> QED
    BY <1>1, <1>3, <2>1 DEF Increasing
<1>4. Increasing(Tail(q))
  BY <1>1, <1>2 DEF Increasing
<1> QED
  BY <1>1, <1>3, <1>4 DEF Elements

LEMMA RemoteConstants ==
    /\ MaxCmds \in Nat /\ MaxReadings \in Nat /\ MaxDrops \in Nat
    /\ MaxNoise \in Nat /\ MaxCrashes \in Nat
    /\ \A c \in Commands : c.no \in Nat /\ c.no # 0 /\ c.kind \in Kinds
                           /\ Command(c.no, c.kind) = c
    /\ \A f \in Frames : f.no \in Nat /\ f.no # 0 /\ f.kind \in Kinds
    /\ Lost.no = 0 /\ Lost \notin Commands
  BY RemoteAssumption DEF Commands, Frames, Command, Lost

(* A command that fits a frame is not cut, and is sent. *)
LEMMA ShortFits ==
    ASSUME NEW kind \in Short
    PROVE  FrameFits(kind) /\ SentLength(kind) = Size[kind]
<1>1. Size[kind] \in Nat /\ Size[kind] <= 117
  BY RemoteAssumption DEF Short, TX_SPACE
<1>2. Size[kind] % 256 = Size[kind]
  BY <1>1
<1> QED
  BY <1>1, <1>2 DEF FrameFits, SentLength, TX_SPACE

LEMMA FramesOfCommands ==
    ASSUME NEW c \in Commands
    PROVE  /\ FrameOf(c) \in Frames
           /\ FrameOf(c).no = c.no /\ FrameOf(c).kind = c.kind
           /\ c.kind \in Short => FrameOf(c).says = Says[c.kind]
<1>1. c.kind \in Kinds /\ c.no \in 1..MaxCmds
  BY DEF Commands
<1>2. c.kind \in Short => SentLength(c.kind) = Size[c.kind]
  BY ShortFits
<1> QED
  BY <1>1, <1>2, RemoteAssumption DEF FrameOf, Frames

LEMMA PathNumbers ==
    ASSUME CommandTypes
    PROVE  /\ Elements(net) \subseteq Commands
           /\ Elements(consumerQ) \subseteq Commands \cup {Lost}
           /\ Elements(cmdQ) \subseteq Commands
           /\ Elements(down) \subseteq Frames
           /\ \A c \in Elements(down) \cup Elements(cmdQ) \cup Elements(net) :
                  c.no \in Nat \ {0}
           /\ \A c \in Elements(consumerQ) :
                  c.no \in Nat /\ (c.no = 0 <=> c = Lost)
<1>1. /\ Elements(net) \subseteq Commands
      /\ Elements(consumerQ) \subseteq Commands \cup {Lost}
      /\ Elements(cmdQ) \subseteq Commands
      /\ Elements(down) \subseteq Frames
  BY DEF CommandTypes, Elements
<1> QED
  BY <1>1, RemoteConstants

(* No command is in two places of the path before the device. *)
LEMMA OnceOnPath ==
    ASSUME CommandTypes, consumerQ # << >>, Increasing(consumerQ)
    PROVE  Head(consumerQ) # Lost =>
               Head(consumerQ) \notin Elements(Tail(consumerQ))
  BY PathNumbers, ElementsOfTail, IncreasingTail, SMTT(30) DEF CommandTypes

-----------------------------------------------------------------------------
(* One lemma for each action: it keeps the invariant, and the promise allows
   it.                                                                     *)

ChannelStep == [Channel!Next]_(Channel!channelVars)

LEMMA PublishStep ==
    ASSUME CommandInv, NEW kind \in Kinds, Publish(kind)
    PROVE  CommandInv' /\ ChannelStep
<1> DEFINE c == Command(published + 1, kind)
<1>1. CommandTypes /\ FlagTypes /\ CountTypes /\ PathInOrder /\ FramesAsPublished
  BY DEF CommandInv
<1>2. /\ published' = published + 1 /\ published < MaxCmds
      /\ net' = IF subscribed THEN Append(net, c) ELSE net
      /\ UNCHANGED <<subscribed, consumerQ, handed, cmdQ, down, led, readPc>>
      /\ UNCHANGED <<drops, noise, crashes, sampled>>
  BY DEF Publish, readingVars, faultVars
<1>3. /\ c \in Commands /\ c.no = published + 1 /\ published \in Nat
      /\ Command(c.no, c.kind) = c
  BY <1>1, <1>2, RemoteConstants DEF CommandTypes, Command, Commands
<1> HIDE DEF c
<1>4. /\ net' \in Seq(Commands) /\ Increasing(net')
      /\ Elements(net') = IF subscribed THEN Elements(net) \cup {c}
                                        ELSE Elements(net)
  <2>1. /\ Append(net, c) \in Seq(Commands)
        /\ Elements(Append(net, c)) = Elements(net) \cup {c}
        /\ Elements(net) \subseteq Commands
    BY <1>1, <1>3, ElementsOfAppend DEF CommandTypes
  <2>2. \A x \in Elements(net) : x.no # 0 /\ c.no # 0 => x.no < c.no
    BY <1>1, <1>3, <2>1, RemoteConstants DEF PathInOrder
  <2>3. Increasing(Append(net, c))
    BY <1>1, <1>3, <2>2, IncreasingAppend DEF CommandTypes, PathInOrder
  <2> QED
    BY <1>1, <1>2, <2>1, <2>3 DEF CommandTypes, PathInOrder
<1>5. CommandTypes' /\ FlagTypes' /\ CountTypes' /\ FramesAsPublished'
  BY <1>1, <1>2, <1>3, <1>4, RemoteConstants
  DEF CommandTypes, FlagTypes, CountTypes, FramesAsPublished
<1>6. PathInOrder'
  BY <1>1, <1>2, <1>3, <1>4, PathNumbers DEF PathInOrder, Before
<1>7. ChannelStep
  <2>1. Pending' = IF subscribed THEN Pending \cup {c} ELSE Pending
    BY <1>2, <1>4 DEF Pending
  <2>2. Channel!Publish(kind)
    BY <1>2, <2>1 DEF Channel!Publish, Channel!Command, Command, c
  <2> QED
    BY <2>2 DEF ChannelStep, Channel!Next
<1> QED
  BY <1>5, <1>6, <1>7 DEF CommandInv

LEMMA ArriveStep ==
    ASSUME CommandInv, Arrive
    PROVE  CommandInv' /\ ChannelStep
<1> DEFINE c == Head(net)
<1>1. CommandTypes /\ FlagTypes /\ CountTypes /\ PathInOrder /\ FramesAsPublished
  BY DEF CommandInv
<1>2. /\ net # << >> /\ net' = Tail(net) /\ consumerQ' = Append(consumerQ, c)
      /\ UNCHANGED <<published, subscribed, handed, cmdQ, down, led, readPc>>
      /\ UNCHANGED <<drops, noise, crashes, sampled>>
  BY DEF Arrive, readingVars, faultVars
<1>3. /\ c \in Commands /\ net' \in Seq(Commands)
      /\ Elements(net) = {c} \cup Elements(net')
      /\ Increasing(net')
      /\ \A x \in Elements(net') : c.no # 0 /\ x.no # 0 => c.no < x.no
  BY <1>1, <1>2, ElementsOfTail, IncreasingTail DEF CommandTypes, PathInOrder
<1> HIDE DEF c
<1>4. /\ consumerQ' \in Seq(Commands \cup {Lost})
      /\ Elements(consumerQ') = Elements(consumerQ) \cup {c}
  <2>1. c \in Commands \cup {Lost}
    BY <1>3
  <2>2. consumerQ \in Seq(Commands \cup {Lost})
    BY <1>1 DEF CommandTypes
  <2>3. /\ Append(consumerQ, c) \in Seq(Commands \cup {Lost})
        /\ Elements(Append(consumerQ, c)) = Elements(consumerQ) \cup {c}
    BY <2>1, <2>2, ElementsOfAppend
  <2> QED
    BY <1>2, <2>3
<1>5. Increasing(consumerQ')
  <2>1. \A x \in Elements(consumerQ) : x.no # 0 /\ c.no # 0 => x.no < c.no
    BY <1>1, <1>3 DEF PathInOrder, Before
  <2> QED
    BY <1>1, <1>2, <1>3, <2>1, IncreasingAppend DEF CommandTypes, PathInOrder
<1>6. CommandTypes' /\ FlagTypes' /\ CountTypes' /\ FramesAsPublished'
  BY <1>1, <1>2, <1>3, <1>4
  DEF CommandTypes, FlagTypes, CountTypes, FramesAsPublished
<1>7. PathInOrder'
  BY <1>1, <1>2, <1>3, <1>4, <1>5 DEF PathInOrder, Before
<1>8. ChannelStep
  <2>1. c # Lost
    BY <1>3, RemoteConstants
  <2>2. Pending' = Pending
    BY <1>2, <1>3, <1>4, <2>1 DEF Pending
  <2> QED
    BY <1>2, <2>2 DEF ChannelStep, Channel!channelVars
<1> QED
  BY <1>6, <1>7, <1>8 DEF CommandInv

LEMMA SubForwardStep ==
    ASSUME CommandInv, SubForward
    PROVE  CommandInv' /\ ChannelStep
<1> DEFINE c == Head(consumerQ)
<1>1. CommandTypes /\ FlagTypes /\ CountTypes /\ PathInOrder /\ FramesAsPublished
  BY DEF CommandInv
<1>2. /\ consumerQ # << >> /\ consumerQ' = Tail(consumerQ)
      /\ cmdQ' = IF c = Lost THEN cmdQ ELSE Append(cmdQ, c)
      /\ UNCHANGED <<published, subscribed, net, handed, down, led, readPc>>
      /\ UNCHANGED <<drops, noise, crashes, sampled>>
  BY DEF SubForward, readingVars, faultVars
<1>3. /\ c \in Commands \cup {Lost} /\ consumerQ' \in Seq(Commands \cup {Lost})
      /\ Elements(consumerQ) = {c} \cup Elements(consumerQ')
      /\ Increasing(consumerQ')
      /\ \A x \in Elements(consumerQ') : c.no # 0 /\ x.no # 0 => c.no < x.no
  BY <1>1, <1>2, ElementsOfTail, IncreasingTail DEF CommandTypes, PathInOrder
<1> HIDE DEF c
<1>4. /\ cmdQ' \in Seq(Commands) /\ Increasing(cmdQ')
      /\ Elements(cmdQ') = IF c = Lost THEN Elements(cmdQ)
                                       ELSE Elements(cmdQ) \cup {c}
  <2>1. CASE c = Lost
    BY <1>1, <1>2, <2>1 DEF CommandTypes, PathInOrder
  <2>2. CASE c # Lost
    <3>1. c \in Commands /\ cmdQ' = Append(cmdQ, c)
      BY <1>2, <1>3, <2>2
    <3>2. /\ cmdQ' \in Seq(Commands)
          /\ Elements(cmdQ') = Elements(cmdQ) \cup {c}
      BY <1>1, <3>1, ElementsOfAppend DEF CommandTypes
    <3>3. \A x \in Elements(cmdQ) : x.no # 0 /\ c.no # 0 => x.no < c.no
      BY <1>1, <1>3 DEF PathInOrder, Before
    <3>4. Increasing(cmdQ')
      BY <1>1, <3>1, <3>3, IncreasingAppend DEF CommandTypes, PathInOrder
    <3> QED
      BY <2>2, <3>2, <3>4
  <2> QED
    BY <2>1, <2>2
<1>5. CommandTypes' /\ FlagTypes' /\ CountTypes' /\ FramesAsPublished'
  BY <1>1, <1>2, <1>3, <1>4
  DEF CommandTypes, FlagTypes, CountTypes, FramesAsPublished
<1>6. PathInOrder'
  BY <1>1, <1>2, <1>3, <1>4 DEF PathInOrder, Before
<1>7. ChannelStep
  <2>1. Pending' = Pending
    <3>1. Lost \notin Elements(cmdQ)
      BY <1>1, PathNumbers, RemoteConstants
    <3> QED
      BY <1>1, <1>2, <1>3, <1>4, <3>1, OnceOnPath DEF Pending
  <2> QED
    BY <1>2, <2>1 DEF ChannelStep, Channel!channelVars
<1> QED
  BY <1>5, <1>6, <1>7 DEF CommandInv

(* A command that is too long leaves the path, another one goes on as a
   frame.                                                                  *)
LEMMA SendCommandStep ==
    ASSUME CommandInv, SendCommand
    PROVE  CommandInv' /\ ChannelStep
<1> DEFINE c == Head(cmdQ)
<1>1. CommandTypes /\ FlagTypes /\ CountTypes /\ PathInOrder /\ FramesAsPublished
  BY DEF CommandInv
<1>2. /\ UNCHANGED <<published, subscribed, net, consumerQ, handed, led>>
      /\ UNCHANGED <<drops, noise, crashes, sampled>> /\ readPc' = "read"
  BY DEF SendCommand, readingVars, faultVars
<1>3. CASE cmdQ = << >>
  <2>1. UNCHANGED <<cmdQ, down>>
    BY <1>3 DEF SendCommand
  <2>2. CommandInv'
    BY <1>1, <1>2, <2>1
    DEF CommandInv, CommandTypes, FlagTypes, CountTypes, PathInOrder,
        FramesAsPublished
  <2>3. Pending' = Pending
    BY <1>2, <2>1 DEF Pending
  <2> QED
    BY <1>2, <2>2, <2>3 DEF ChannelStep, Channel!channelVars
<1>4. CASE cmdQ # << >>
  <2>1. /\ cmdQ' = Tail(cmdQ)
        /\ down' = IF FrameFits(c.kind) THEN Append(down, FrameOf(c)) ELSE down
    BY <1>4 DEF SendCommand, RestAfterSend
  <2>2. /\ c \in Commands /\ cmdQ' \in Seq(Commands)
        /\ Elements(cmdQ) = {c} \cup Elements(cmdQ')
        /\ Increasing(cmdQ')
        /\ \A x \in Elements(cmdQ') : c.no # 0 /\ x.no # 0 => c.no < x.no
    BY <1>1, <1>4, <2>1, ElementsOfTail, IncreasingTail
    DEF CommandTypes, PathInOrder
  <2> DEFINE f == FrameOf(c)
  <2> HIDE DEF c
  <2>3. /\ f \in Frames /\ f.no = c.no /\ f.kind = c.kind
        /\ c.kind \in Short => f.says = Says[c.kind]
        /\ c.no \in Nat \ {0} /\ Command(c.no, c.kind) = c
    BY <2>2, FramesOfCommands, RemoteConstants
  <2>4. /\ c \notin Elements(cmdQ') /\ c \notin Elements(consumerQ)
        /\ c \notin Elements(net)
        /\ \A g \in Elements(down) : Command(g.no, g.kind) # c
    BY <1>1, <2>2, <2>3, PathNumbers DEF PathInOrder, Before, Command
  <2> HIDE DEF f
  <2>5. /\ down' \in Seq(Frames) /\ Increasing(down')
        /\ Elements(down') = IF FrameFits(c.kind) THEN Elements(down) \cup {f}
                                                  ELSE Elements(down)
    <3>1. /\ Append(down, f) \in Seq(Frames)
          /\ Elements(Append(down, f)) = Elements(down) \cup {f}
      BY <1>1, <2>3, ElementsOfAppend DEF CommandTypes
    <3>2. \A x \in Elements(down) : x.no # 0 /\ f.no # 0 => x.no < f.no
      BY <1>1, <2>2, <2>3 DEF PathInOrder, Before
    <3>3. Increasing(Append(down, f))
      BY <1>1, <2>3, <3>2, IncreasingAppend DEF CommandTypes, PathInOrder
    <3> QED
      BY <1>1, <2>1, <3>1, <3>3 DEF CommandTypes, PathInOrder, f
  <2>6. CommandTypes' /\ FlagTypes' /\ CountTypes' /\ FramesAsPublished'
    BY <1>1, <1>2, <2>2, <2>3, <2>5
    DEF CommandTypes, FlagTypes, CountTypes, FramesAsPublished
  <2>7. PathInOrder'
    BY <1>1, <1>2, <2>2, <2>3, <2>5 DEF PathInOrder, Before
  <2>8. ChannelStep
    <3>1. CASE FrameFits(c.kind)
      <4>1. Pending' = Pending
        BY <1>2, <2>2, <2>3, <2>5, <3>1 DEF Pending
      <4> QED
        BY <1>2, <4>1 DEF ChannelStep, Channel!channelVars
    <3>2. CASE ~FrameFits(c.kind)
      <4>1. c.kind \notin Short
        BY <3>2, ShortFits
      <4>2. Pending' = Pending \ {c} /\ c \in Pending
        BY <1>2, <2>2, <2>3, <2>4, <2>5, <3>2 DEF Pending
      <4>3. Channel!Skip(c)
        BY <1>2, <4>1, <4>2 DEF Channel!Skip
      <4> QED
        BY <4>2, <4>3 DEF ChannelStep, Channel!Next
    <3> QED
      BY <3>1, <3>2
  <2> QED
    BY <2>6, <2>7, <2>8 DEF CommandInv
<1> QED
  BY <1>3, <1>4

(* The frame at the head of the line is that of the oldest command.        *)
LEMMA DeviceHandleStep ==
    ASSUME CommandInv, DeviceHandle
    PROVE  CommandInv' /\ ChannelStep
<1> DEFINE f == Head(down)
<1> DEFINE c == Command(f.no, f.kind)
<1>1. CommandTypes /\ FlagTypes /\ CountTypes /\ PathInOrder /\ FramesAsPublished
  BY DEF CommandInv
<1>2. /\ down # << >> /\ down' = Tail(down) /\ led' = Effect(f.says, led)
      /\ UNCHANGED <<published, subscribed, net, consumerQ, handed, cmdQ, readPc>>
      /\ UNCHANGED <<drops, noise, crashes, sampled>>
  BY DEF DeviceHandle, readingVars, faultVars
<1>3. /\ f \in Frames /\ down' \in Seq(Frames)
      /\ Elements(down) = {f} \cup Elements(down')
      /\ Increasing(down')
      /\ \A x \in Elements(down') : f.no # 0 /\ x.no # 0 => f.no < x.no
  BY <1>1, <1>2, ElementsOfTail, IncreasingTail DEF CommandTypes, PathInOrder
<1> HIDE DEF f
<1>4. f.no \in Nat \ {0} /\ c.no = f.no /\ c.kind = f.kind
  BY <1>3, RemoteConstants DEF Command
<1>5. led' \in BOOLEAN
  BY <1>1, <1>2 DEF Effect, FlagTypes
<1>6. CommandTypes' /\ CountTypes' /\ FramesAsPublished' /\ PathInOrder'
  BY <1>1, <1>2, <1>3
  DEF CommandTypes, CountTypes, FramesAsPublished, PathInOrder, Before
<1>7. FlagTypes'
  BY <1>1, <1>2, <1>5 DEF FlagTypes
<1>8. ChannelStep
  <2>1. /\ \A d \in Elements(net) \cup Elements(cmdQ)
                        \cup (Elements(consumerQ) \ {Lost}) : c.no < d.no
        /\ \A g \in Elements(down') : c.no < g.no /\ g.no = Command(g.no, g.kind).no
    BY <1>1, <1>3, <1>4, PathNumbers DEF PathInOrder, Before, Command
  <2>2. c \in Pending /\ Pending' = Pending \ {c}
    BY <1>2, <1>3, <1>4, <2>1 DEF Pending
  <2>3. \A d \in Pending : c.no <= d.no
    <3>1. \A d \in Pending' : c.no < d.no
      BY <1>2, <2>1 DEF Pending
    <3>2. \A d \in Pending : d = c \/ d \in Pending'
      BY <2>2
    <3>3. \A d \in Pending' : d.no \in Nat
      BY <1>1, <2>2, PathNumbers DEF Pending, Command
    <3>4. c.no \in Nat /\ c.no <= c.no
      BY <1>4
    <3> HIDE DEF c
    <3> QED
      BY <3>1, <3>2, <3>3, <3>4
  <2>4. c.kind \in Short => f.says = Says[c.kind]
    BY <1>1, <1>3, <1>4 DEF FramesAsPublished
  <2>5. Channel!TakeEffect(c)
    BY <1>2, <1>5, <2>2, <2>3, <2>4
    DEF Channel!TakeEffect, Channel!Effect, Effect
  <2> QED
    BY <2>2, <2>5 DEF ChannelStep, Channel!Next
<1> QED
  BY <1>6, <1>7, <1>8 DEF CommandInv

(* The connection, the line and the process: what is left of the path keeps
   its order.                                                              *)
LEMMA DisturbanceStep ==
    ASSUME CommandInv, LinkLost \/ FrameLost \/ Crash
    PROVE  CommandInv' /\ ChannelStep
<1>1. CommandTypes /\ FlagTypes /\ CountTypes /\ PathInOrder /\ FramesAsPublished
  BY DEF CommandInv
<1>2. UNCHANGED <<published, led, sampled>>
  BY DEF LinkLost, FrameLost, Crash, readingVars
<1>3. /\ net' \in Seq(Commands) /\ Increasing(net')
      /\ Elements(net') \subseteq Elements(net)
  <2>1. net' = net \/ net' = << >>
    BY DEF LinkLost, FrameLost, Crash
  <2>2. << >> \in Seq(Commands)
    OBVIOUS
  <2> QED
    BY <1>1, <2>1, <2>2, NoElements DEF CommandTypes, PathInOrder
<1>4. /\ cmdQ' \in Seq(Commands) /\ Increasing(cmdQ')
      /\ Elements(cmdQ') \subseteq Elements(cmdQ)
  <2>1. cmdQ' = cmdQ \/ cmdQ' = << >>
    BY DEF LinkLost, FrameLost, Crash
  <2>2. << >> \in Seq(Commands)
    OBVIOUS
  <2> QED
    BY <1>1, <2>1, <2>2, NoElements DEF CommandTypes, PathInOrder
<1>5. /\ down' \in Seq(Frames) /\ Increasing(down')
      /\ Elements(down') \subseteq Elements(down)
  <2>1. down' = down \/ (down # << >> /\ down' = Tail(down))
    BY DEF LinkLost, FrameLost, Crash
  <2>2. CASE down # << >> /\ down' = Tail(down)
    BY <1>1, <2>2, ElementsOfTail, IncreasingTail DEF CommandTypes, PathInOrder
  <2> QED
    BY <1>1, <2>1, <2>2 DEF CommandTypes, PathInOrder
<1>6. /\ consumerQ' \in Seq(Commands \cup {Lost}) /\ Increasing(consumerQ')
      /\ Elements(consumerQ') \subseteq Elements(consumerQ) \cup {Lost}
  <2>1. \/ consumerQ' = consumerQ \/ consumerQ' = << >>
        \/ consumerQ' = Append(consumerQ, Lost)
    BY DEF LinkLost, FrameLost, Crash
  <2>2. CASE consumerQ' = Append(consumerQ, Lost)
    BY <1>1, <2>2, ElementsOfAppend, IncreasingAppend, RemoteConstants
    DEF CommandTypes, PathInOrder
  <2>3. << >> \in Seq(Commands \cup {Lost})
    OBVIOUS
  <2> QED
    BY <1>1, <2>1, <2>2, <2>3, NoElements DEF CommandTypes, PathInOrder
<1>7. CommandTypes' /\ FramesAsPublished'
  BY <1>1, <1>2, <1>3, <1>4, <1>5, <1>6 DEF CommandTypes, FramesAsPublished
<1>8. PathInOrder'
  <2>1. /\ Before(Elements(down'), Elements(cmdQ'))
        /\ Before(Elements(down'), Elements(net'))
        /\ Before(Elements(cmdQ'), Elements(net'))
    BY <1>1, <1>3, <1>4, <1>5 DEF PathInOrder, Before
  <2>2. /\ Before(Elements(down'), Elements(consumerQ'))
        /\ Before(Elements(cmdQ'), Elements(consumerQ'))
    <3>1. /\ Before(Elements(down), Elements(consumerQ) \cup {Lost})
          /\ Before(Elements(cmdQ), Elements(consumerQ) \cup {Lost})
      BY <1>1, RemoteConstants DEF PathInOrder, Before
    <3> QED
      BY <1>4, <1>5, <1>6, <3>1 DEF Before
  <2>3. Before(Elements(consumerQ'), Elements(net'))
    <3>1. Before(Elements(consumerQ) \cup {Lost}, Elements(net))
      BY <1>1, RemoteConstants DEF PathInOrder, Before
    <3> QED
      BY <1>3, <1>6, <3>1 DEF Before
  <2>4. \A c \in Elements(down') \cup Elements(cmdQ') \cup Elements(consumerQ')
                 \cup Elements(net') : c.no <= published'
    <3>1. published \in Nat /\ published' = published
      BY <1>1, <1>2, RemoteConstants DEF CommandTypes
    <3>2. Lost.no <= published
      BY <3>1, RemoteConstants
    <3> QED
      BY <1>1, <1>3, <1>4, <1>5, <1>6, <3>1, <3>2 DEF PathInOrder
  <2> QED
    BY <1>3, <1>4, <1>5, <1>6, <2>1, <2>2, <2>3, <2>4 DEF PathInOrder
<1>9. /\ CountTypes'
      /\ drops' + noise' + crashes' = (drops + noise + crashes) + 1
  <2>1. \/ /\ drops' = drops + 1 /\ drops < MaxDrops
           /\ noise' = noise /\ crashes' = crashes
        \/ /\ noise' = noise + 1 /\ noise < MaxNoise
           /\ drops' = drops /\ crashes' = crashes
        \/ /\ crashes' = crashes + 1 /\ crashes < MaxCrashes
           /\ drops' = drops /\ noise' = noise
    BY DEF LinkLost, FrameLost, Crash
  <2>2. /\ drops \in 0..MaxDrops /\ noise \in 0..MaxNoise
        /\ crashes \in 0..MaxCrashes
    BY <1>1 DEF CountTypes
  <2>3. /\ drops' \in 0..MaxDrops /\ noise' \in 0..MaxNoise
        /\ crashes' \in 0..MaxCrashes
        /\ drops' + noise' + crashes' = (drops + noise + crashes) + 1
    BY <2>1, <2>2, RemoteConstants
  <2> QED
    BY <1>1, <1>2, <2>3 DEF CountTypes
<1>10. FlagTypes'
  BY <1>1 DEF FlagTypes, LinkLost, FrameLost, Crash
<1>11. ChannelStep
  <2>1. Pending' \in SUBSET Pending
    BY <1>3, <1>4, <1>5, <1>6 DEF Pending
  <2>2. Channel!Disturbance
    BY <1>2, <1>9, <1>10, <2>1 DEF Channel!Disturbance, FlagTypes
  <2> QED
    BY <2>2 DEF ChannelStep, Channel!Next
<1> QED
  BY <1>7, <1>8, <1>9, <1>10, <1>11 DEF CommandInv

(* The rest leaves the commands alone. *)
LEMMA OtherStep ==
    ASSUME CommandInv,
           \/ Subscribe \/ Handover
           \/ ReadPort \/ GetMsg \/ DeviceSend \/ UNCHANGED vars
    PROVE  CommandInv' /\ ChannelStep
<1>1. CommandTypes /\ FlagTypes /\ CountTypes /\ PathInOrder /\ FramesAsPublished
  BY DEF CommandInv
<1>2. UNCHANGED <<published, net, consumerQ, cmdQ, down, led, drops, noise, crashes>>
  BY DEF Subscribe, Handover, ReadPort, GetMsg, DeviceSend, vars, cmdVars,
         readingVars, faultVars
<1>3. CommandTypes' /\ PathInOrder' /\ FramesAsPublished' /\ Pending' = Pending
  BY <1>1, <1>2 DEF CommandTypes, PathInOrder, FramesAsPublished, Pending
<1>4. CountTypes'
  BY <1>1, <1>2, RemoteConstants
  DEF CountTypes, Subscribe, Handover, ReadPort, GetMsg, DeviceSend, vars,
      cmdVars, readingVars, faultVars
<1>5. FlagTypes'
  BY <1>1
  DEF FlagTypes, Subscribe, Handover, ReadPort, GetMsg, DeviceSend, vars,
      cmdVars, readingVars, faultVars, AfterRead
<1>6. subscribed' = subscribed \/ subscribed' = TRUE
  BY DEF Subscribe, Handover, ReadPort, GetMsg, DeviceSend, vars, cmdVars
<1>7. ChannelStep
  BY <1>2, <1>3, <1>6
  DEF ChannelStep, Channel!channelVars, Channel!Next, Channel!SubscriptionMade
<1> QED
  BY <1>3, <1>1, <1>4, <1>5, <1>7 DEF CommandInv

LEMMA RemoteInit == Init => CommandInv /\ Channel!Init
<1> SUFFICES ASSUME Init PROVE CommandInv /\ Channel!Init
  OBVIOUS
<1>1. CommandTypes /\ CountTypes
  BY RemoteConstants DEF Init, CommandTypes, CountTypes
<1>2. FlagTypes
  BY DEF Init, FlagTypes
<1>3. PathInOrder /\ FramesAsPublished
  BY NoElements DEF Init, PathInOrder, FramesAsPublished, Before
<1>4. Channel!Init
  BY NoElements DEF Init, Channel!Init, Pending
<1> QED
  BY <1>1, <1>2, <1>3, <1>4 DEF CommandInv

LEMMA RemoteStep == CommandInv /\ [Next]_vars => CommandInv' /\ ChannelStep
<1> SUFFICES ASSUME CommandInv, [Next]_vars PROVE CommandInv' /\ ChannelStep
  OBVIOUS
<1> QED
  BY PublishStep, ArriveStep, SubForwardStep, SendCommandStep, DeviceHandleStep,
     DisturbanceStep, OtherStep
  DEF Next, ReadThread

(* Commands take effect at the device in the order of their publication,
   at most once and as published if they fit a frame; one that fits is lost
   only by a lost connection, noise or a restart.                          *)
THEOREM CommandsKeepPromise == Spec => ImplementsChannel
<1>1. CommandInv /\ [Next]_vars => [Channel!Next]_(Channel!channelVars)
  BY RemoteStep DEF ChannelStep
<1>2. CommandInv /\ [Next]_vars => CommandInv'
  BY RemoteStep
<1> QED
  BY <1>1, <1>2, RemoteInit, PTL DEF Spec, ImplementsChannel, Channel!Spec

-----------------------------------------------------------------------------
(* The readings.  The three queues are one sequence cut in two places: a
   read and a get_msg move the cuts, a lost frame and a restart leave out a
   part.                                                                   *)

Readings == 1..MaxReadings
Path == heard \o minQ \o up

Sorted(p) == \A i, j \in 1..Len(p) : i < j => p[i] < p[j]
UpTo(p, n) == \A i \in 1..Len(p) : p[i] <= n
Holds(p, r) == \E i \in 1..Len(p) : p[i] = r
Complete(p, n) == \A r \in 1..n : r \in NotText \/ Holds(p, r)

ReadingTypes ==
    /\ heard \in Seq(Readings) /\ minQ \in Seq(Readings) /\ up \in Seq(Readings)
    /\ sampled \in 0..MaxReadings

ReadingInv ==
    /\ ReadingTypes
    /\ Sorted(Path) /\ UpTo(Path, sampled)
    /\ noise = 0 /\ crashes = 0 => Complete(Path, sampled)

LEMMA DropMiddle ==
    ASSUME NEW a \in Seq(Readings), NEW b \in Seq(Readings),
           NEW c \in Seq(Readings), NEW n,
           Sorted(a \o b \o c), UpTo(a \o b \o c, n)
    PROVE  /\ Sorted(a \o c) /\ UpTo(a \o c, n)
           /\ \A r : Holds(a \o b \o c, r) => Holds(a \o c, r) \/ Holds(b, r)
<1> DEFINE p == a \o b \o c
<1> DEFINE q == a \o c
<1> DEFINE place(i) == IF i <= Len(a) THEN i ELSE i + Len(b)
<1>1. /\ Len(a) \in Nat /\ Len(b) \in Nat /\ Len(c) \in Nat
      /\ a \o b \in Seq(Readings)
      /\ Len(a \o b) = Len(a) + Len(b)
      /\ \A i \in 1..(Len(a) + Len(b)) :
             (a \o b)[i] = IF i <= Len(a) THEN a[i] ELSE b[i - Len(a)]
  BY ConcatProperties, LenProperties
<1>2. /\ Len(p) = Len(a) + Len(b) + Len(c)
      /\ \A i \in 1..(Len(a) + Len(b) + Len(c)) :
             p[i] = IF i <= Len(a) + Len(b) THEN (a \o b)[i]
                                           ELSE c[i - (Len(a) + Len(b))]
  BY <1>1, ConcatProperties
<1>3. /\ Len(q) = Len(a) + Len(c)
      /\ \A i \in 1..(Len(a) + Len(c)) :
             q[i] = IF i <= Len(a) THEN a[i] ELSE c[i - Len(a)]
  BY ConcatProperties
<1>4. Sorted(p) /\ UpTo(p, n)
  OBVIOUS
<1> HIDE DEF p, q
<1>5. ASSUME NEW i \in 1..Len(q)
      PROVE  place(i) \in 1..Len(p) /\ p[place(i)] = q[i]
  <2>1. CASE i <= Len(a)
    BY <1>1, <1>2, <1>3, <2>1
  <2>2. CASE ~(i <= Len(a))
    <3>1. i - Len(a) = (i + Len(b)) - (Len(a) + Len(b))
      BY <1>1, <1>3
    <3>2. i + Len(b) \in 1..Len(p) /\ ~(i + Len(b) <= Len(a) + Len(b))
      BY <1>1, <1>2, <1>3, <2>2
    <3>3. p[i + Len(b)] = c[i - Len(a)]
      BY <1>1, <1>2, <3>1, <3>2
    <3> QED
      BY <1>3, <2>2, <3>2, <3>3
  <2> QED
    BY <2>1, <2>2
<1>6. \A i, j \in 1..Len(q) : i < j => place(i) < place(j)
  BY <1>1, <1>3
<1> HIDE DEF place
<1>7. Sorted(q) /\ UpTo(q, n)
  BY <1>4, <1>5, <1>6 DEF Sorted, UpTo
<1>8. ASSUME NEW r, NEW i \in 1..Len(p), p[i] = r
      PROVE  Holds(q, r) \/ Holds(b, r)
  <2>1. CASE i <= Len(a)
    <3>1. i \in 1..Len(q) /\ q[i] = r
      BY <1>1, <1>2, <1>3, <1>8, <2>1
    <3> QED
      BY <3>1 DEF Holds
  <2>2. CASE Len(a) < i /\ i <= Len(a) + Len(b)
    <3>1. i - Len(a) \in 1..Len(b) /\ b[i - Len(a)] = r
      BY <1>1, <1>2, <1>8, <2>2
    <3> QED
      BY <3>1 DEF Holds
  <2>3. CASE Len(a) + Len(b) < i
    <3>1. /\ i - Len(b) \in 1..Len(q) /\ ~(i - Len(b) <= Len(a))
          /\ (i - Len(b)) - Len(a) = i - (Len(a) + Len(b))
      BY <1>1, <1>2, <1>3, <2>3
    <3>2. q[i - Len(b)] = c[i - (Len(a) + Len(b))]
      BY <1>3, <3>1
    <3>3. q[i - Len(b)] = r
      BY <1>1, <1>2, <1>8, <2>3, <3>2
    <3> QED
      BY <3>1, <3>3 DEF Holds
  <2> QED
    BY <1>1, <1>2, <2>1, <2>2, <2>3
<1>9. \A r : Holds(p, r) => Holds(q, r) \/ Holds(b, r)
  BY <1>8 DEF Holds
<1> QED
  BY <1>7, <1>9 DEF p, q

LEMMA SortedAppend ==
    ASSUME NEW p \in Seq(Readings), NEW n \in Nat, n + 1 \in Readings,
           Sorted(p), UpTo(p, n)
    PROVE  /\ Sorted(Append(p, n + 1)) /\ UpTo(Append(p, n + 1), n + 1)
           /\ Complete(p, n) => Complete(Append(p, n + 1), n + 1)
<1>1. /\ Len(p) \in Nat /\ Len(Append(p, n + 1)) = Len(p) + 1
      /\ \A i \in 1..Len(p) : Append(p, n + 1)[i] = p[i]
      /\ Append(p, n + 1)[Len(p) + 1] = n + 1
      /\ \A i \in 1..Len(p) : p[i] \in Nat
  <2> DEFINE e == n + 1
  <2>1. e \in Readings
    OBVIOUS
  <2> HIDE DEF e
  <2>2. /\ Len(p) \in Nat /\ Len(Append(p, e)) = Len(p) + 1
        /\ \A i \in 1..Len(p) : Append(p, e)[i] = p[i]
        /\ Append(p, e)[Len(p) + 1] = e
    BY <2>1, AppendProperties, LenProperties
  <2>3. \A i \in 1..Len(p) : p[i] \in Readings
    BY ElementOfSeq
  <2> QED
    BY <2>2, <2>3 DEF e, Readings
<1>2. \A i \in 1..(Len(p) + 1) : i \in 1..Len(p) \/ i = Len(p) + 1
  BY <1>1
<1>3. \A i, j \in 1..(Len(p) + 1) : i < j => i \in 1..Len(p)
  BY <1>1
<1>4. \A i \in 1..Len(p) : p[i] <= n
  BY DEF UpTo
<1>5. \A i, j \in 1..Len(p) : i < j => p[i] < p[j]
  BY DEF Sorted
<1>6. UpTo(Append(p, n + 1), n + 1)
  BY <1>1, <1>2, <1>4 DEF UpTo
<1>7. Sorted(Append(p, n + 1))
  BY <1>1, <1>2, <1>3, <1>4, <1>5 DEF Sorted
<1>8. ASSUME Complete(p, n), NEW r \in 1..(n + 1)
      PROVE  r \in NotText \/ Holds(Append(p, n + 1), r)
  <2>1. CASE r = n + 1
    <3>1. Len(p) + 1 \in 1..Len(Append(p, n + 1))
      BY <1>1
    <3> QED
      BY <1>1, <2>1, <3>1 DEF Holds
  <2>2. CASE r \in 1..n
    <3>1. r \in NotText \/ Holds(p, r)
      BY <1>8, <2>2 DEF Complete
    <3>2. \A i \in 1..Len(p) : i \in 1..Len(Append(p, n + 1))
      BY <1>1
    <3> QED
      BY <1>1, <3>1, <3>2 DEF Holds
  <2> QED
    BY <2>1, <2>2
<1> QED
  BY <1>6, <1>7, <1>8 DEF Complete

LEMMA HeadAndTail ==
    ASSUME NEW q \in Seq(Readings), q # << >>
    PROVE  /\ << Head(q) >> \in Seq(Readings) /\ Tail(q) \in Seq(Readings)
           /\ << Head(q) >> \o Tail(q) = q
           /\ \A p \in Seq(Readings) : Append(p, Head(q)) = p \o << Head(q) >>
<1>1. /\ 1 \in 1..Len(q) /\ Len(q) \in 1..Len(q) /\ Len(q) \in Nat
      /\ Head(q) = q[1] /\ Head(q) \in Readings /\ Tail(q) \in Seq(Readings)
  BY HeadTailProperties, EmptySeq
<1>2. SubSeq(q, 1, Len(q)) = << q[1] >> \o SubSeq(q, 1 + 1, Len(q))
  BY <1>1, SubSeqRecursiveFirst
<1>3. SubSeq(q, 1, Len(q)) = q /\ Tail(q) = SubSeq(q, 2, Len(q))
  BY SubSeqFull, TailIsSubSeq
<1>4. << Head(q) >> \in Seq(Readings)
  BY <1>1
<1>5. << Head(q) >> \o Tail(q) = q
  BY <1>1, <1>2, <1>3
<1>6. \A p \in Seq(Readings) : Append(p, Head(q)) = p \o << Head(q) >>
  BY <1>1, AppendIsConcat
<1> QED
  BY <1>1, <1>4, <1>5, <1>6

LEMMA Regroup ==
    \A p, q, r \in Seq(Readings) : (p \o q) \o r = p \o (q \o r)
<1> SUFFICES ASSUME NEW p \in Seq(Readings), NEW q \in Seq(Readings),
                    NEW r \in Seq(Readings)
             PROVE  (p \o q) \o r = p \o (q \o r)
  OBVIOUS
<1> QED
  BY ConcatAssociative, SMTT(30)

LEMMA AppendToPart ==
    ASSUME NEW p \in Seq(Readings), NEW q \in Seq(Readings), NEW e \in Readings
    PROVE  p \o Append(q, e) = Append(p \o q, e)
<1>1. << e >> \in Seq(Readings) /\ p \o q \in Seq(Readings)
  BY ConcatProperties
<1>2. Append(q, e) = q \o << e >> /\ Append(p \o q, e) = (p \o q) \o << e >>
  BY <1>1, AppendIsConcat
<1>3. (p \o q) \o << e >> = p \o (q \o << e >>)
  BY <1>1, Regroup
<1> QED
  BY <1>2, <1>3

LEMMA ReadPortReadings ==
    ASSUME ReadingInv, ReadPort
    PROVE  ReadingTypes' /\ Path' = Path
<1>1. ReadingTypes
  BY DEF ReadingInv
<1>2. PICK n \in 0..FramesPerRead :
          /\ n <= Len(up)
          /\ up' = SubSeq(up, n + 1, Len(up))
          /\ minQ' = minQ \o SubSeq(up, 1, n)
  BY DEF ReadPort
<1> DEFINE a == SubSeq(up, 1, n)
<1> DEFINE b == SubSeq(up, n + 1, Len(up))
<1>3. heard' = heard /\ sampled' = sampled
  BY DEF ReadPort
<1>4. n \in Nat /\ Len(up) \in Nat /\ n \in 0..Len(up)
  BY <1>1, <1>2 DEF ReadingTypes, FramesPerRead
<1>5. a \in Seq(Readings) /\ b \in Seq(Readings)
  <2>1. \A i \in 1..Len(up) : up[i] \in Readings
    BY <1>1, ElementOfSeq DEF ReadingTypes
  <2>2. \A i \in 1..n : up[i] \in Readings
    BY <1>4, <2>1
  <2>3. \A i \in (n + 1)..Len(up) : up[i] \in Readings
    BY <1>4, <2>1
  <2>4. a \in Seq(Readings)
    BY <1>4, <2>2, SubSeqProperties
  <2>5. b \in Seq(Readings)
    BY <1>4, <2>3, SubSeqProperties
  <2> QED
    BY <2>4, <2>5
<1>6. a \o b = up
  <2>1. a \o b = SubSeq(up, 1, Len(up))
    <3>1. 1 \in 1..(Len(up) + 1) /\ n \in (1 - 1)..Len(up)
          /\ Len(up) \in n..Len(up) /\ up \in Seq(Readings)
      BY <1>1, <1>4 DEF ReadingTypes
    <3> QED
      BY <3>1, ConcatAdjacentSubSeq
  <2>2. SubSeq(up, 1, Len(up)) = up
    BY <1>1, SubSeqFull DEF ReadingTypes
  <2> QED
    BY <2>1, <2>2
<1> HIDE DEF a, b
<1>7. minQ' = minQ \o a /\ up' = b
  BY <1>2 DEF a, b
<1>8. minQ \o a \in Seq(Readings) /\ heard \o minQ \in Seq(Readings)
  BY <1>1, <1>5, ConcatProperties DEF ReadingTypes
<1>9. heard \o (minQ \o a) = (heard \o minQ) \o a
  <2>1. heard \in Seq(Readings) /\ minQ \in Seq(Readings)
    BY <1>1 DEF ReadingTypes
  <2> QED
    BY <1>5, <2>1, Regroup
<1>10. ((heard \o minQ) \o a) \o b = (heard \o minQ) \o (a \o b)
  BY <1>5, <1>8, Regroup
<1> QED
  BY <1>1, <1>3, <1>5, <1>6, <1>7, <1>8, <1>9, <1>10 DEF ReadingTypes, Path

(* A reading that is text changes queues, one that is not leaves them. *)
LEMMA GetMsgReadings ==
    ASSUME ReadingInv, GetMsg
    PROVE  /\ ReadingTypes' /\ Sorted(Path)' /\ UpTo(Path, sampled)'
           /\ Complete(Path, sampled) => Complete(Path, sampled)'
<1>0. Sorted(Path) /\ UpTo(Path, sampled)
  BY DEF ReadingInv
<1>1. ReadingTypes
  BY DEF ReadingInv
<1>2. up' = up /\ sampled' = sampled
  BY DEF GetMsg
<1>3. CASE minQ = << >>
  <2>1. minQ' = minQ /\ heard' = heard
    BY <1>3 DEF GetMsg
  <2>2. ReadingTypes' /\ Path' = Path
    BY <1>1, <1>2, <2>1 DEF ReadingTypes, Path
  <2> QED
    BY <1>0, <1>2, <2>2 DEF Sorted, UpTo, Complete, Holds
<1>4. CASE minQ # << >> /\ Head(minQ) \notin NotText
  <2>1. minQ' = Tail(minQ) /\ heard' = Append(heard, Head(minQ))
    BY <1>4 DEF GetMsg, LeftForNextRound
  <2>2. /\ heard' = heard \o << Head(minQ) >> /\ << Head(minQ) >> \in Seq(Readings)
        /\ << Head(minQ) >> \o minQ' = minQ /\ minQ' \in Seq(Readings)
    BY <1>1, <1>4, <2>1, HeadAndTail DEF ReadingTypes
  <2>3. heard' \in Seq(Readings)
    BY <1>1, <2>2, ConcatProperties DEF ReadingTypes
  <2>4. heard' \o minQ' = heard \o minQ
    <3> DEFINE h == << Head(minQ) >>
    <3>1. /\ h \in Seq(Readings) /\ minQ' \in Seq(Readings)
          /\ heard \in Seq(Readings) /\ h \o minQ' = minQ /\ heard' = heard \o h
      BY <1>1, <2>2 DEF ReadingTypes
    <3> HIDE DEF h
    <3>2. (heard \o h) \o minQ' = heard \o (h \o minQ')
      BY <3>1, Regroup
    <3> QED
      BY <3>1, <3>2
  <2>5. ReadingTypes' /\ Path' = Path
    BY <1>1, <1>2, <2>2, <2>3, <2>4 DEF ReadingTypes, Path
  <2> QED
    BY <1>0, <1>2, <2>5 DEF Sorted, UpTo, Complete, Holds
<1>5. CASE minQ # << >> /\ Head(minQ) \in NotText
  <2> DEFINE h == << Head(minQ) >>
  <2>1. minQ' = Tail(minQ) /\ heard' = heard
    BY <1>5 DEF GetMsg, LeftForNextRound
  <2>2. h \in Seq(Readings) /\ minQ' \in Seq(Readings) /\ h \o minQ' = minQ
    BY <1>1, <1>5, <2>1, HeadAndTail DEF ReadingTypes
  <2>3. \A r : Holds(h, r) => r \in NotText
    BY <1>5 DEF Holds
  <2>4. heard \in Seq(Readings) /\ up \in Seq(Readings)
    BY <1>1 DEF ReadingTypes
  <2> HIDE DEF h
  <2> DEFINE c == minQ' \o up
  <2>5. c \in Seq(Readings)
    BY <2>2, <2>4, ConcatProperties
  <2>6. heard \o h \o c = Path /\ heard \o c = Path'
    <3> DEFINE m == minQ'
    <3>1. m \in Seq(Readings) /\ h \in Seq(Readings) /\ heard \o h \in Seq(Readings)
      BY <2>2, <2>4, ConcatProperties
    <3> HIDE DEF m
    <3>2. (heard \o h) \o (m \o up) = ((heard \o h) \o m) \o up
      BY <2>4, <3>1, Regroup
    <3>3. (heard \o h) \o m = heard \o (h \o m)
      BY <2>4, <3>1, Regroup
    <3>4. (heard \o m) \o up = heard \o (m \o up)
      BY <2>4, <3>1, Regroup
    <3>10. h \o m = minQ
      BY <2>2 DEF m
    <3>5. Path = (heard \o minQ) \o up
      BY DEF Path
    <3>6. Path' = (heard \o m) \o up
      BY <1>2, <2>1 DEF Path, m
    <3>7. c = m \o up
      BY DEF m
    <3> HIDE DEF c
    <3>8. (heard \o h) \o c = Path
      BY <3>2, <3>3, <3>5, <3>7, <3>10
    <3>9. heard \o c = Path'
      BY <3>4, <3>6, <3>7
    <3> QED
      BY <3>8, <3>9
  <2> HIDE DEF c
  <2>7. /\ Sorted(heard \o c) /\ UpTo(heard \o c, sampled)
        /\ \A r : Holds(Path, r) => Holds(heard \o c, r) \/ Holds(h, r)
    BY <1>0, <2>2, <2>4, <2>5, <2>6, DropMiddle
  <2>8. ReadingTypes'
    BY <1>1, <1>2, <2>1, <2>2 DEF ReadingTypes
  <2>9. Complete(Path, sampled) => Complete(Path', sampled)
    BY <2>3, <2>6, <2>7 DEF Complete
  <2> QED
    BY <1>2, <2>6, <2>7, <2>8, <2>9 DEF Sorted, UpTo, Complete, Holds
<1> QED
  BY <1>3, <1>4, <1>5

LEMMA DeviceSendReadings ==
    ASSUME ReadingInv, DeviceSend
    PROVE  /\ ReadingTypes' /\ Path' = Append(Path, sampled + 1)
           /\ sampled' = sampled + 1 /\ sampled + 1 \in Readings
<1>1. ReadingTypes
  BY DEF ReadingInv
<1>2. /\ sampled' = sampled + 1 /\ sampled < MaxReadings
      /\ up' = Append(up, sampled + 1) /\ minQ' = minQ /\ heard' = heard
  BY DEF DeviceSend
<1>3. sampled + 1 \in Readings /\ sampled' \in 0..MaxReadings
  BY <1>1, <1>2, RemoteConstants DEF ReadingTypes, Readings
<1>4. heard \o minQ \in Seq(Readings)
  BY <1>1, ConcatProperties DEF ReadingTypes
<1>5. up' \in Seq(Readings) /\ (heard \o minQ) \o up' = Append(Path, sampled + 1)
  <2> DEFINE e == sampled + 1
  <2>1. e \in Readings /\ up' = Append(up, e) /\ up \in Seq(Readings)
    BY <1>1, <1>2, <1>3 DEF ReadingTypes
  <2> HIDE DEF e
  <2>2. up' \in Seq(Readings)
    BY <2>1, AppendProperties
  <2>3. (heard \o minQ) \o Append(up, e) = Append((heard \o minQ) \o up, e)
    BY <1>4, <2>1, AppendToPart
  <2> QED
    BY <2>1, <2>2, <2>3 DEF Path, e
<1> QED
  BY <1>1, <1>2, <1>3, <1>5 DEF ReadingTypes, Path

LEMMA FrameLostReadings ==
    ASSUME ReadingInv, FrameLost
    PROVE  ReadingTypes' /\ Sorted(Path)' /\ UpTo(Path, sampled)'
<1>1. ReadingTypes /\ Sorted(Path) /\ UpTo(Path, sampled)
  BY DEF ReadingInv
<1>2. minQ' = minQ /\ heard' = heard /\ sampled' = sampled
  BY DEF FrameLost
<1>3. CASE up' = up
  BY <1>1, <1>2, <1>3 DEF ReadingTypes, Path
<1>4. CASE up # << >> /\ up' = Tail(up)
  <2> DEFINE h == << Head(up) >>
  <2> DEFINE a == heard \o minQ
  <2>1. h \in Seq(Readings) /\ Tail(up) \in Seq(Readings) /\ h \o Tail(up) = up
    BY <1>1, <1>4, HeadAndTail DEF ReadingTypes
  <2>2. a \in Seq(Readings)
    BY <1>1, ConcatProperties DEF ReadingTypes
  <2> HIDE DEF h, a
  <2>3. a \o h \o Tail(up) = a \o up
    <3> DEFINE t == Tail(up)
    <3>1. t \in Seq(Readings) /\ h \o t = up
      BY <2>1
    <3> HIDE DEF t
    <3>2. (a \o h) \o t = a \o (h \o t)
      BY <2>1, <2>2, <3>1, Regroup
    <3> QED
      BY <3>1, <3>2 DEF t
  <2>4. Sorted(a \o up) /\ UpTo(a \o up, sampled)
    BY <1>1 DEF Path, a
  <2>5. Sorted(a \o Tail(up)) /\ UpTo(a \o Tail(up), sampled)
    BY <2>1, <2>2, <2>3, <2>4, DropMiddle
  <2>6. Path' = a \o Tail(up)
    BY <1>2, <1>4 DEF Path, a
  <2>7. ReadingTypes'
    BY <1>1, <1>2, <1>4, <2>1 DEF ReadingTypes
  <2>8. Sorted(Path)' /\ UpTo(Path, sampled)'
    BY <1>2, <2>5, <2>6 DEF Sorted, UpTo
  <2> QED
    BY <2>7, <2>8
<1> QED
  BY <1>3, <1>4 DEF FrameLost

LEMMA CrashReadings ==
    ASSUME ReadingInv, Crash
    PROVE  ReadingTypes' /\ Sorted(Path)' /\ UpTo(Path, sampled)'
<1>1. ReadingTypes /\ Sorted(Path) /\ UpTo(Path, sampled)
  BY DEF ReadingInv
<1>2. minQ' = << >> /\ heard' = heard /\ sampled' = sampled /\ up' = up
  BY DEF Crash
<1>3. Sorted(heard \o up) /\ UpTo(heard \o up, sampled)
  BY <1>1, DropMiddle DEF ReadingTypes, Path
<1>4. heard \o << >> = heard /\ << >> \in Seq(Readings)
  BY <1>1, ConcatEmptySeq, EmptySeq DEF ReadingTypes
<1>5. Path' = heard \o up
  BY <1>2, <1>4 DEF Path
<1>6. ReadingTypes'
  BY <1>1, <1>2, <1>4 DEF ReadingTypes
<1>7. Sorted(Path)' /\ UpTo(Path, sampled)'
  BY <1>2, <1>3, <1>5 DEF Sorted, UpTo
<1> QED
  BY <1>6, <1>7

LEMMA ReadingInit == Init => ReadingInv
<1> SUFFICES ASSUME Init PROVE ReadingInv
  OBVIOUS
<1>1. heard = << >> /\ minQ = << >> /\ up = << >> /\ sampled = 0
  BY DEF Init
<1>2. << >> \in Seq(Readings) /\ Len(<< >>) = 0
  BY EmptySeq
<1>3. << >> \o << >> = << >>
  BY <1>2, ConcatEmptySeq
<1>4. Path = << >>
  BY <1>1, <1>3 DEF Path
<1>5. ReadingTypes
  BY <1>1, <1>2, RemoteConstants DEF ReadingTypes
<1>6. Sorted(Path) /\ UpTo(Path, sampled) /\ Complete(Path, sampled)
  BY <1>1, <1>2, <1>4 DEF Sorted, UpTo, Complete
<1> QED
  BY <1>5, <1>6 DEF ReadingInv

LEMMA ReadingStep ==
    CountTypes /\ ReadingInv /\ [Next]_vars => ReadingInv'
<1> SUFFICES ASSUME CountTypes, ReadingInv, [Next]_vars PROVE ReadingInv'
  OBVIOUS
<1>1. /\ ReadingTypes /\ Sorted(Path) /\ UpTo(Path, sampled)
      /\ noise = 0 /\ crashes = 0 => Complete(Path, sampled)
      /\ noise \in Nat /\ crashes \in Nat
  BY RemoteConstants DEF ReadingInv, CountTypes
<1>2. Path \in Seq(Readings) /\ sampled \in Nat
  BY <1>1, RemoteConstants, ConcatProperties DEF ReadingTypes, Path
<1>3. CASE ReadPort
  <2>1. ReadingTypes' /\ Path' = Path
    BY <1>3, ReadPortReadings
  <2>2. sampled' = sampled /\ noise' = noise /\ crashes' = crashes
    BY <1>3 DEF ReadPort, faultVars
  <2> QED
    BY <1>1, <2>1, <2>2 DEF ReadingInv, Sorted, UpTo, Complete, Holds
<1>8. CASE GetMsg
  <2>1. noise' = noise /\ crashes' = crashes
    BY <1>8 DEF GetMsg, faultVars
  <2> QED
    BY <1>1, <1>8, <2>1, GetMsgReadings DEF ReadingInv
<1>4. CASE DeviceSend
  <2>1. /\ ReadingTypes' /\ Path' = Append(Path, sampled + 1)
        /\ sampled' = sampled + 1 /\ sampled + 1 \in Readings
    BY <1>4, DeviceSendReadings
  <2>2. noise' = noise /\ crashes' = crashes
    BY <1>4 DEF DeviceSend, faultVars
  <2>3. /\ Sorted(Append(Path, sampled + 1))
        /\ UpTo(Append(Path, sampled + 1), sampled + 1)
        /\ Complete(Path, sampled) => Complete(Append(Path, sampled + 1), sampled + 1)
    BY <1>1, <1>2, <2>1, SortedAppend
  <2>4. /\ Sorted(Path)' /\ UpTo(Path, sampled)'
        /\ Complete(Path, sampled) => Complete(Path, sampled)'
    BY <2>1, <2>3 DEF Sorted, UpTo, Complete, Holds
  <2> QED
    BY <1>1, <2>1, <2>2, <2>3, <2>4 DEF ReadingInv
<1>5. CASE FrameLost
  <2>1. noise' = noise + 1
    BY <1>5 DEF FrameLost
  <2> QED
    BY <1>1, <1>5, <2>1, FrameLostReadings DEF ReadingInv
<1>6. CASE Crash
  <2>1. crashes' = crashes + 1
    BY <1>6 DEF Crash
  <2> QED
    BY <1>1, <1>6, <2>1, CrashReadings DEF ReadingInv
<1>7. CASE \/ \E kind \in Kinds : Publish(kind)
           \/ Arrive \/ Subscribe \/ Handover \/ LinkLost \/ SubForward
           \/ SendCommand \/ DeviceHandle \/ UNCHANGED vars
  <2>1. UNCHANGED <<sampled, up, minQ, heard, noise, crashes>>
    BY <1>7
    DEF Publish, Arrive, Subscribe, Handover, LinkLost, SubForward, SendCommand,
        DeviceHandle, vars, readingVars, faultVars
  <2> QED
    BY <1>1, <2>1
    DEF ReadingInv, ReadingTypes, Path, Sorted, UpTo, Complete, Holds
<1> QED
  BY <1>3, <1>4, <1>5, <1>6, <1>7, <1>8 DEF Next, ReadThread

LEMMA RemoteInvariance == Spec => [](CommandInv /\ ReadingInv)
<1>1. Init => CommandInv /\ ReadingInv
  BY RemoteInit, ReadingInit
<1>2. CommandInv => CountTypes
  BY DEF CommandInv
<1>3. CommandInv /\ ReadingInv /\ [Next]_vars => CommandInv' /\ ReadingInv'
  BY <1>2, RemoteStep, ReadingStep
<1> QED
  BY <1>1, <1>3, PTL DEF Spec

(* Type correctness: frames, commands and readings are where they belong,
   for queues of any length.                                               *)
THEOREM RemoteTypeCorrect == Spec => []RemoteTypeOK
<1>1. CommandInv /\ ReadingInv => RemoteTypeOK
  <2> SUFFICES ASSUME CommandInv, ReadingInv PROVE RemoteTypeOK
    OBVIOUS
  <2>1. CommandTypes /\ FlagTypes /\ CountTypes /\ ReadingTypes
    BY DEF CommandInv, ReadingInv
  <2>2. /\ published \in 0..MaxCmds /\ net \in Seq(Commands)
        /\ consumerQ \in Seq(Commands \cup {Lost}) /\ cmdQ \in Seq(Commands)
        /\ down \in Seq(Frames)
    BY <2>1 DEF CommandTypes
  <2>3. /\ up \in Seq(1..MaxReadings) /\ minQ \in Seq(1..MaxReadings)
        /\ heard \in Seq(1..MaxReadings)
    BY <2>1 DEF ReadingTypes, Readings
  <2>4. /\ drops \in 0..MaxDrops /\ noise \in 0..MaxNoise
        /\ crashes \in 0..MaxCrashes /\ sampled \in 0..MaxReadings
    BY <2>1 DEF CountTypes
  <2>5. /\ subscribed \in BOOLEAN /\ handed \in BOOLEAN /\ led \in BOOLEAN
        /\ readPc \in {"command", "read", "get"}
    BY <2>1 DEF FlagTypes
  <2> QED
    BY <2>2, <2>3, <2>4, <2>5, Zenon DEF RemoteTypeOK
<1> QED
  BY <1>1, RemoteInvariance, PTL

(* The readings of the device reach the upstream path in their order and
   without duplicates, and all that are text if nothing disturbed the line. *)
THEOREM ReadingsStayInOrder == Spec => []ReadingsInOrder
<1>1. ReadingInv => ReadingsInOrder
  <2> SUFFICES ASSUME ReadingInv PROVE ReadingsInOrder
    OBVIOUS
  <2>1. /\ heard \in Seq(Readings) /\ minQ \in Seq(Readings)
        /\ up \in Seq(Readings)
    BY DEF ReadingInv, ReadingTypes
  <2>2. heard \o minQ \in Seq(Readings)
    BY <2>1, ConcatProperties
  <2>3. Path \in Seq(Readings)
    BY <2>1, <2>2, ConcatProperties DEF Path
  <2>4. DOMAIN Path = 1..Len(Path)
    BY <2>3, LenProperties
  <2>5. \A i, j \in 1..Len(Path) : i < j => Path[i] < Path[j]
    BY DEF ReadingInv, Sorted
  <2>6. noise = 0 /\ crashes = 0 => (1..sampled) \ NotText \subseteq Elements(Path)
    BY <2>4 DEF ReadingInv, Complete, Holds, Elements
  <2>7. \A i, j \in DOMAIN Path : i < j => Path[i] < Path[j]
    BY <2>4, <2>5
  <2> QED
    BY <2>6, <2>7 DEF ReadingsInOrder, Path
<1> QED
  BY <1>1, RemoteInvariance, PTL

=============================================================================
