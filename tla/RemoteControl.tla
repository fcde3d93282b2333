---------------------------- MODULE RemoteControl ----------------------------
(***************************************************************************)
(* The serial line in both directions (main.rs:459-492, mqtt.rs:152-175,   *)
(* interface.rs HwIf, arduino/UNO/min/min.ino):                            *)
(*                                                                         *)
(*   broker --net--> paho --consumerQ--> mqtt_sub_thread --cmdQ-->         *)
(*     original_data_read_thread --down--> device: LED                     *)
(*   device --up--> original_data_read_thread --minQ--> raw channel        *)
(*                                                                         *)
(* The thread serves both in rounds of 100 ms: one command is sent, what   *)
(* has arrived is read, one decoded frame is passed on.  MinFraming has    *)
(* the bytes of a frame; here a frame arrives whole or, by noise or a byte *)
(* that could not be written, not at all.  CloudLink has the connection;   *)
(* here it comes and goes at any time.                                     *)
(***************************************************************************)
EXTENDS Naturals, Sequences

CONSTANTS
    Kinds,       (* kinds of commands                                      *)
    Size,        (* their length in bytes                                  *)
    Says,        (* what the device understands: "on", "off" or "other"    *)
    SaysCut,     (* the same, of the first Size % 256 bytes                *)
    NotText,     (* readings that are not UTF-8                            *)
    MaxCmds,     (* bound: commands published                              *)
    MaxReadings, (* bound: readings the device sends                       *)
    MaxDrops,    (* bound: how often the network takes the connection down *)
    MaxNoise,    (* bound: frames the line swallows                        *)
    MaxCrashes   (* bound: how often the process dies and restarts         *)

ASSUME RemoteAssumption ==
    /\ Size \in [Kinds -> Nat]
    /\ Says \in [Kinds -> {"on", "off", "other"}]
    /\ SaysCut \in [Kinds -> {"on", "off", "other"}]
    /\ NotText \subseteq Nat
    /\ {MaxCmds, MaxReadings, MaxDrops, MaxNoise, MaxCrashes} \subseteq Nat

VARIABLES
    published,  (* commands published so far                               *)
    subscribed, (* the broker holds the subscription of this session       *)
    net,        (* commands on their way from the broker                   *)
    consumerQ,  (* consumer channel of the client: commands and losses     *)
    handed,     (* the receiver was handed to mqtt_sub_thread              *)
    cmdQ,       (* downstream_msg channel                                  *)
    readPc,     (* where the round of original_data_read_thread is         *)
    down,       (* frames on their way to the device                       *)
    led,        (* the LED of the device                                   *)
    sampled,    (* readings the device has sent so far                     *)
    up,         (* frames on their way to the gateway                      *)
    minQ,       (* frames min.poll has decoded, for get_msg                *)
    heard,      (* readings passed on to original_data_handle_thread       *)
    drops, noise, crashes

cmdVars == <<published, subscribed, net, consumerQ, handed, cmdQ, down, led>>
readingVars == <<sampled, up, minQ, heard>>
faultVars == <<drops, noise, crashes>>
vars == <<cmdVars, readPc, readingVars, faultVars>>

Command(n, kind) == [no |-> n, kind |-> kind]
Commands == [no : 1..MaxCmds, kind : Kinds]
(* The None of a lost connection. *)
Lost == [no |-> 0]
Frames == [no : 1..MaxCmds, kind : Kinds, says : {"on", "off", "other"}]

RemoteTypeOK ==
    /\ published \in 0..MaxCmds
    /\ subscribed \in BOOLEAN
    /\ net \in Seq(Commands)
    /\ consumerQ \in Seq(Commands \cup {Lost})
    /\ handed \in BOOLEAN
    /\ cmdQ \in Seq(Commands)
    /\ readPc \in {"command", "read", "get"}
    /\ down \in Seq(Frames)
    /\ led \in BOOLEAN
    /\ sampled \in 0..MaxReadings
    /\ up \in Seq(1..MaxReadings)
    /\ minQ \in Seq(1..MaxReadings)
    /\ heard \in Seq(1..MaxReadings)
    /\ drops \in 0..MaxDrops
    /\ noise \in 0..MaxNoise
    /\ crashes \in 0..MaxCrashes

Init ==
    /\ published = 0
    /\ subscribed = FALSE
    /\ net = << >>
    /\ consumerQ = << >>
    /\ handed = FALSE
    /\ cmdQ = << >>
    /\ readPc = "command"
    /\ down = << >>
    /\ led = TRUE
    /\ sampled = 0
    /\ up = << >>
    /\ minQ = << >>
    /\ heard = << >>
    /\ drops = 0
    /\ noise = 0
    /\ crashes = 0

-----------------------------------------------------------------------------
(* The broker and the connection *)

(* A command is published on a topic under sub_topic. *)
Publish(kind) ==
    /\ published < MaxCmds
    /\ published' = published + 1
    /\ net' = IF subscribed THEN Append(net, Command(published + 1, kind)) ELSE net
    /\ UNCHANGED <<subscribed, consumerQ, handed, cmdQ, down, led, readPc,
                   readingVars, faultVars>>

(* The client takes it into the consumer channel. *)
Arrive ==
    /\ net # << >>
    /\ net' = Tail(net)
    /\ consumerQ' = Append(consumerQ, Head(net))
    /\ UNCHANGED <<published, subscribed, handed, cmdQ, down, led, readPc,
                   readingVars, faultVars>>

(* cli.subscribe() after every connection, CloudLink!Subscribe. *)
Subscribe ==
    /\ ~subscribed
    /\ subscribed' = TRUE
    /\ UNCHANGED <<published, net, consumerQ, handed, cmdQ, down, led, readPc,
                   readingVars, faultVars>>

(* tx.send(sub_msg_receiver), once, CloudLink!Handover. *)
Handover ==
    /\ ~handed
    /\ handed' = TRUE
    /\ UNCHANGED <<published, subscribed, net, consumerQ, cmdQ, down, led, readPc,
                   readingVars, faultVars>>

(* The connection is lost with what is under way on it, and with the
   subscription; the client puts None into the consumer channel.           *)
LinkLost ==
    /\ subscribed
    /\ drops < MaxDrops
    /\ drops' = drops + 1
    /\ subscribed' = FALSE
    /\ net' = << >>
    /\ consumerQ' = Append(consumerQ, Lost)
    /\ UNCHANGED <<published, handed, cmdQ, down, led, readPc, readingVars,
                   noise, crashes>>

-----------------------------------------------------------------------------
(* mqtt_sub_thread *)

(* Some: a command for original_data_read_thread.  None: the loss is
   announced, CloudLink!SubForwardLost.                                    *)
SubForward ==
    /\ handed
    /\ consumerQ # << >>
    /\ consumerQ' = Tail(consumerQ)
    /\ cmdQ' = IF Head(consumerQ) = Lost THEN cmdQ ELSE Append(cmdQ, Head(consumerQ))
    /\ UNCHANGED <<published, subscribed, net, handed, down, led, readPc,
                   readingVars, faultVars>>

-----------------------------------------------------------------------------
(* original_data_read_thread, serial_port *)

(* msg.len() as u8 *)
SentLength(kind) == Size[kind] % 256

(* HwIf::new(port, .., 128), and ON_WIRE_SIZE of a frame without stuffing. *)
TX_SPACE == 128
FrameFits(kind) == SentLength(kind) + 11 <= TX_SPACE

(* Mutant: the command as it came, without what a frame makes of it. *)
FrameOfRaw(c) == c
FrameOf(c) ==
    [no |-> c.no, kind |-> c.kind,
     says |-> IF SentLength(c.kind) = Size[c.kind] THEN Says[c.kind]
                                                   ELSE SaysCut[c.kind]]

(* The oldest command that waits is sent.  Mutant: the queue is read to its
   end in one round, and only one command is kept.                         *)
RestAfterSendNone(q) == << >>
RestAfterSend(q) == Tail(q)

(* try_recv and send_frame: an error is only logged. *)
SendCommand ==
    /\ readPc = "command"
    /\ readPc' = "read"
    /\ IF cmdQ = << >>
       THEN UNCHANGED <<cmdQ, down>>
       ELSE /\ cmdQ' = RestAfterSend(cmdQ)
            /\ down' = IF FrameFits(Head(cmdQ).kind)
                       THEN Append(down, FrameOf(Head(cmdQ))) ELSE down
    /\ UNCHANGED <<published, subscribed, net, consumerQ, handed, led,
                   readingVars, faultVars>>

(* port.read() into a buffer of 255 bytes, of which a reading takes 65:
   min.poll decodes the frames that have arrived.                          *)
FramesPerRead == 3

(* Mutants: nothing is passed on in a round that read nothing; the port has
   no timeout, and the round does not go on without a byte.                *)
AfterReadOnlyIf(n) == IF n = 0 THEN "command" ELSE "get"
AfterReadBlocks(n) == IF n = 0 THEN "read" ELSE "get"
AfterRead(n) == "get"

ReadPort ==
    /\ readPc = "read"
    /\ \E n \in 0..FramesPerRead :
        /\ n <= Len(up)
        /\ n = 0 => up = << >>
        /\ up' = SubSeq(up, n + 1, Len(up))
        /\ minQ' = minQ \o SubSeq(up, 1, n)
        /\ readPc' = AfterRead(n)
    /\ UNCHANGED <<cmdVars, sampled, heard, faultVars>>

(* One get_msg per round, then the thread sleeps for 100 ms.  What is not
   UTF-8 goes no further.  Mutant: frames that are not fetched in their round
   are given up.                                                           *)
LeftForNextRoundNone(q) == << >>
LeftForNextRound(q) == Tail(q)

GetMsg ==
    /\ readPc = "get"
    /\ readPc' = "command"
    /\ IF minQ = << >>
       THEN UNCHANGED <<minQ, heard>>
       ELSE /\ minQ' = LeftForNextRound(minQ)
            /\ heard' = IF Head(minQ) \in NotText THEN heard
                                                 ELSE Append(heard, Head(minQ))
    /\ UNCHANGED <<cmdVars, sampled, up, faultVars>>

-----------------------------------------------------------------------------
(* The device and the line *)

Effect(says, state) ==
    CASE says = "on"  -> TRUE
      [] says = "off" -> FALSE
      [] OTHER        -> state

(* min_application_handler: the whole text must be equal. *)
DeviceHandle ==
    /\ down # << >>
    /\ down' = Tail(down)
    /\ led' = Effect(Head(down).says, led)
    /\ UNCHANGED <<published, subscribed, net, consumerQ, handed, cmdQ, readPc,
                   readingVars, faultVars>>

(* A reading every second. *)
DeviceSend ==
    /\ sampled < MaxReadings
    /\ sampled' = sampled + 1
    /\ up' = Append(up, sampled + 1)
    /\ UNCHANGED <<cmdVars, readPc, minQ, heard, faultVars>>

(* A frame is hit by noise, or HwIf::tx could not write one of its bytes. *)
FrameLost ==
    /\ noise < MaxNoise
    /\ noise' = noise + 1
    /\ \/ /\ down # << >>
          /\ down' = Tail(down)
          /\ UNCHANGED up
       \/ /\ up # << >>
          /\ up' = Tail(up)
          /\ UNCHANGED down
    /\ UNCHANGED <<published, subscribed, net, consumerQ, handed, cmdQ, led,
                   readPc, sampled, minQ, heard, drops, crashes>>

(* The process dies and is started again; what is on the line arrives. *)
Crash ==
    /\ crashes < MaxCrashes
    /\ crashes' = crashes + 1
    /\ subscribed' = FALSE
    /\ net' = << >>
    /\ consumerQ' = << >>
    /\ handed' = FALSE
    /\ cmdQ' = << >>
    /\ readPc' = "command"
    /\ minQ' = << >>
    /\ UNCHANGED <<published, down, led, sampled, up, heard, drops, noise>>

-----------------------------------------------------------------------------

ReadThread == SendCommand \/ ReadPort \/ GetMsg

Next ==
    \/ \E kind \in Kinds : Publish(kind)
    \/ Arrive
    \/ Subscribe
    \/ Handover
    \/ LinkLost
    \/ SubForward
    \/ ReadThread
    \/ DeviceHandle
    \/ DeviceSend
    \/ FrameLost
    \/ Crash

Spec == Init /\ [][Next]_vars

(* The threads, the network and the device keep going; nothing is assumed of
   those who publish, of the connection and of the noise.                  *)
Fairness ==
    /\ WF_vars(Arrive)
    /\ WF_vars(Handover)
    /\ WF_vars(SubForward)
    /\ WF_vars(ReadThread)
    /\ WF_vars(DeviceHandle)

FairSpec == Spec /\ Fairness

-----------------------------------------------------------------------------
(* Properties *)

Elements(q) == {q[i] : i \in DOMAIN q}

(* The commands that were taken over and have no effect yet. *)
Pending ==
    Elements(net) \cup (Elements(consumerQ) \ {Lost}) \cup Elements(cmdQ)
        \cup {Command(f.no, f.kind) : f \in Elements(down)}

Short == {kind \in Kinds : Size[kind] + 11 <= TX_SPACE}

Channel == INSTANCE CommandChannel WITH
    pending <- Pending,
    disturbances <- drops + noise + crashes

(* README.md:8 and 100-102: commands from the server are sent to the device
   and take effect there - in order, at most once, as they were published,
   and none that fits a frame is lost but for a disturbance.               *)
ImplementsChannel == Channel!Spec

(* Nothing that was taken over stays under way for ever: once commands and
   disturbances stop, all that were taken over have taken effect.          *)
CommandsDelivered == <>[](Pending = {})

(* The readings of the device reach the upstream path in their order and
   without duplicates, and all that are text if nothing disturbed the line:
   also when several arrive in one round, of which one is passed on, and next
   to readings that are no text.                                           *)
ReadingsInOrder ==
    LET path == heard \o minQ \o up
    IN  /\ \A i, j \in DOMAIN path : i < j => path[i] < path[j]
        /\ noise = 0 /\ crashes = 0 =>
               (1..sampled) \ NotText \subseteq Elements(path)

(* ... and none waits for the next one to arrive: get_msg is called in every
   round, whether or not anything was read in it.                          *)
ReadingsHeard == <>[](up = << >> /\ minQ = << >>)

=============================================================================
