--------------------------- MODULE CommandChannel ---------------------------
(***************************************************************************)
(* What remote control promises (README.md:8 and 100-124): commands that   *)
(* are published for the devices take effect at the device in the order of *)
(* their publication, each at most once.  One is lost only if nobody is    *)
(* subscribed, if a disturbance - a lost connection, noise on the serial   *)
(* line, a restart of the gateway - hits it, or if it is too long.         *)
(***************************************************************************)
EXTENDS Naturals

CONSTANTS
    Kinds,  (* the kinds of commands: texts that are handled alike   *)
    Short,  (* the kinds that fit into one frame of the serial line  *)
    Says    (* what the device understands: "on", "off" or "other"   *)

VARIABLES
    published,    (* commands published so far                         *)
    subscribed,   (* the broker has a subscriber for them              *)
    pending,      (* commands taken over, without effect so far        *)
    led,          (* the LED of the device                             *)
    disturbances  (* disturbances so far                               *)

channelVars == <<published, subscribed, pending, led, disturbances>>

Command(n, kind) == [no |-> n, kind |-> kind]

(* min_application_handler of the device. *)
Effect(says, state) ==
    CASE says = "on"  -> TRUE
      [] says = "off" -> FALSE
      [] OTHER        -> state

Init ==
    /\ published = 0
    /\ subscribed = FALSE
    /\ pending = {}
    /\ led = TRUE
    /\ disturbances = 0

Publish(kind) ==
    /\ published' = published + 1
    /\ pending' = IF subscribed THEN pending \cup {Command(published + 1, kind)}
                                ELSE pending
    /\ UNCHANGED <<subscribed, led, disturbances>>

(* The oldest command takes effect.  Nothing is promised of a long one. *)
TakeEffect(c) ==
    /\ \A d \in pending : c.no <= d.no
    /\ pending' = pending \ {c}
    /\ IF c.kind \in Short THEN led' = Effect(Says[c.kind], led)
                           ELSE led' \in BOOLEAN
    /\ UNCHANGED <<published, subscribed, disturbances>>

(* A long command is left out, whatever is before it. *)
Skip(c) ==
    /\ c.kind \notin Short
    /\ pending' = pending \ {c}
    /\ UNCHANGED <<published, subscribed, led, disturbances>>

SubscriptionMade ==
    /\ subscribed' = TRUE
    /\ UNCHANGED <<published, pending, led, disturbances>>

Disturbance ==
    /\ disturbances' = disturbances + 1
    /\ subscribed' \in BOOLEAN
    /\ pending' \in SUBSET pending
    /\ UNCHANGED <<published, led>>

Next ==
    \/ \E kind \in Kinds : Publish(kind)
    \/ \E c \in pending : TakeEffect(c) \/ Skip(c)
    \/ SubscriptionMade
    \/ Disturbance

Spec == Init /\ [][Next]_channelVars

=============================================================================
