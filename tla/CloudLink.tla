------------------------------ MODULE CloudLink ------------------------------
(***************************************************************************)
(* How the gateway finds out that it is online or offline.                 *)
(*                                                                         *)
(* The uploader thread (mqtt.rs, pub_closure) owns the MQTT client: it     *)
(* connects, and after every message or 500 ms it looks at is_connected()  *)
(* and reconnects.  Each time it is connected it announces Some(0).  The   *)
(* client library reports a lost connection on the consumer channel, which *)
(* the subscriber thread (sub_closure) turns into the announcement None.   *)
(* cloud_state_broadcaster forwards both kinds to the data manager, and    *)
(* None to the uploader too.  The data manager keeps cloud_is_connected    *)
(* and wakes the offline data thread (main.rs).                            *)
(*                                                                         *)
(* Channels are std::sync::mpsc: unbounded FIFO queues that lose nothing.  *)
(* A thread's receive from a queue that only it reads and its one send     *)
(* that follows are one action: no other thread can tell them apart.       *)
(***************************************************************************)
EXTENDS Naturals, Sequences

CONSTANTS
    MaxMsgs,    (* messages the device side produces               *)
    MaxDrops,   (* bound: how often the network takes the link down *)
    Faults      (* the kinds of failure the environment may inject *)

(* noConnRsp    connect() returns Ok with no connect response
   lateConnect  (re)connect() times out and the connection comes up later
   subErr       subscribe() fails on a live connection
   pubErr       publish() fails on a live connection
   insertErr, queryErr, deleteErr, rowErr   the SQL statement fails        *)
FaultKinds == {"noConnRsp", "lateConnect", "subErr", "pubErr",
               "insertErr", "queryErr", "deleteErr", "rowErr"}

ASSUME CloudLinkAssumption ==
    /\ MaxMsgs \in Nat
    /\ MaxDrops \in Nat
    /\ Faults \subseteq FaultKinds

(* A message read from the devices; NoMsg is the None sent to the uploader. *)
Msg == 1..MaxMsgs
NoMsg == 0

(* struct Datum: id is the row of a replayed message, 0 for a fresh one; for
   a Notice it is the state of the network, 0 lost and 1 connected.
   Mutant: a Notice built with DatumType::Message and the empty value.     *)
NoticeAsMessage(state) == [type |-> "Message", id |-> state, msg |-> NoMsg]
Notice(state) == [type |-> "Notice", id |-> state]
Message(row, msg) == [type |-> "Message", id |-> row, msg |-> msg]

Datum == [type : {"Notice"}, id : {0, 1}]
         \cup [type : {"Message"}, id : Nat, msg : Msg]

VARIABLES
    link,       (* cli.is_connected()                                     *)
    subscribed, (* the broker holds the subscription of this session      *)
    drops,      (* losses so far                                          *)
    pubPc,      (* where mqtt_pub_thread is                               *)
    handed,     (* sub_msg_receiver was handed to mqtt_sub_thread         *)
    consumerQ,  (* consumer channel of the client: connection losses      *)
    announceQ,  (* cloud_statue_announcement channel: "up" or "down"      *)
    bcPc,       (* where cloud_state_broadcaster is                       *)
    pubQ,       (* datum_publish channel                                  *)
    datumQ,     (* datum channel of the data manager                      *)
    cloud,      (* cloud_is_connected of the data manager                 *)
    triggers,   (* Some(0) waiting for the offline data thread            *)
    misreported (* history: the last connection was announced out of order
                   or not at all                                           *)

linkVars == <<link, subscribed, drops, pubPc, handed, consumerQ, announceQ,
              bcPc, pubQ, datumQ, cloud, triggers, misreported>>

(* "connect"    in cli.connect()
   "retry"      in the loop around cli.reconnect() after a failed connect
   "announce"   connected, about to send Some(0)
   "subscribe"  in cli.subscribe()
   "handover"   before the main loop, about to send the receiver
   "recv"       main loop, waiting for a datum for at most 500 ms
   "check"      main loop, at cli.is_connected()                           *)
PubPc == {"connect", "retry", "announce", "subscribe",
          "handover", "recv", "check"}

LinkTypeOK ==
    /\ link \in BOOLEAN
    /\ subscribed \in BOOLEAN
    /\ drops \in 0..MaxDrops
    /\ pubPc \in PubPc
    /\ handed \in BOOLEAN
    /\ consumerQ \in Seq({"lost"})
    /\ announceQ \in Seq({"up", "down"})
    /\ bcPc \in {"recv", "notify"}
    /\ pubQ \in Seq(Msg \cup {NoMsg})
    /\ datumQ \in Seq(Datum)
    /\ cloud \in BOOLEAN
    /\ triggers \in Nat
    /\ misreported \in BOOLEAN


(* What a start of the process finds. *)
LinkBoot ==
    /\ link = FALSE
    /\ subscribed = FALSE
    /\ pubPc = "connect"
    /\ handed = FALSE
    /\ consumerQ = << >>
    /\ announceQ = << >>
    /\ bcPc = "recv"
    /\ pubQ = << >>
    /\ datumQ = << >>
    /\ cloud = FALSE
    /\ triggers = 0
    /\ misreported = FALSE

(* A restart of the process gets there from any state. *)
LinkRestart ==
    /\ link' = FALSE
    /\ subscribed' = FALSE
    /\ pubPc' = "connect"
    /\ handed' = FALSE
    /\ consumerQ' = << >>
    /\ announceQ' = << >>
    /\ bcPc' = "recv"
    /\ pubQ' = << >>
    /\ datumQ' = << >>
    /\ cloud' = FALSE
    /\ triggers' = 0
    /\ misreported' = FALSE

LinkInit == LinkBoot /\ drops = 0

-----------------------------------------------------------------------------
(* mqtt_pub_thread *)

(* Every successful (re)connect announces and then subscribes.  Mutant: only
   the first one subscribes, as if the broker kept the session.            *)
AfterAnnounceOnce == IF handed THEN "recv" ELSE "subscribe"
AfterAnnounce == "subscribe"

(* cli.connect(): connected; connected without a response, in which case
   nothing is announced and nothing subscribed; or an error.               *)
Connect ==
    /\ pubPc = "connect"
    /\ \/ /\ link' = TRUE
          /\ pubPc' = "announce"
          /\ UNCHANGED misreported
       \/ /\ "noConnRsp" \in Faults
          /\ link' = TRUE
          /\ pubPc' = "handover"
          /\ misreported' = TRUE
       \/ /\ link' = FALSE
          /\ pubPc' = "retry"
          /\ UNCHANGED misreported
    /\ UNCHANGED <<subscribed, drops, handed, consumerQ, announceQ, bcPc,
                   pubQ, datumQ, cloud, triggers>>

(* cli.reconnect() succeeds, in the retry loop or in the main loop. *)
Reconnected ==
    /\ \/ pubPc = "retry"
       \/ pubPc = "check" /\ ~link
    /\ link' = TRUE
    /\ pubPc' = "announce"
    /\ UNCHANGED <<subscribed, drops, handed, consumerQ, announceQ, bcPc,
                   pubQ, datumQ, cloud, triggers, misreported>>

(* cli.reconnect() fails: the retry loop sleeps and tries again, the main
   loop goes back to waiting for a datum.                                  *)
ReconnectFailed ==
    /\ pubPc = "check"
    /\ ~link
    /\ pubPc' = "recv"
    /\ UNCHANGED <<link, subscribed, drops, handed, consumerQ, announceQ, bcPc,
                   pubQ, datumQ, cloud, triggers, misreported>>

(* An attempt given up by the client's 5 s timeout comes through after all. *)
LateConnect ==
    /\ "lateConnect" \in Faults
    /\ pubPc \in {"retry", "recv", "check"}
    /\ ~link
    /\ link' = TRUE
    /\ misreported' = TRUE
    /\ UNCHANGED <<subscribed, drops, pubPc, handed, consumerQ, announceQ,
                   bcPc, pubQ, datumQ, cloud, triggers>>

(* cloud_statue_announcement_sender.send(Some(0)).  The announcement is out
   of order if a loss has not been announced yet, or if the connection it
   speaks of is already gone.                                              *)
Announce ==
    /\ pubPc = "announce"
    /\ announceQ' = Append(announceQ, "up")
    /\ pubPc' = AfterAnnounce
    /\ misreported' = (~link \/ consumerQ # << >>)
    /\ UNCHANGED <<link, subscribed, drops, handed, consumerQ, bcPc,
                   pubQ, datumQ, cloud, triggers>>

(* cli.subscribe(): an error is logged and never retried.  The thread then
   enters the main loop, or goes on in it with the next recv_timeout.      *)
Subscribe ==
    /\ pubPc = "subscribe"
    /\ \/ subscribed' = link
       \/ "subErr" \in Faults /\ subscribed' = FALSE
    /\ pubPc' = IF handed THEN "recv" ELSE "handover"
    /\ UNCHANGED <<link, drops, handed, consumerQ, announceQ, bcPc,
                   pubQ, datumQ, cloud, triggers, misreported>>

(* tx.send(sub_msg_receiver) *)
Handover ==
    /\ pubPc = "handover"
    /\ handed' = TRUE
    /\ pubPc' = "recv"
    /\ UNCHANGED <<link, subscribed, drops, consumerQ, announceQ, bcPc,
                   pubQ, datumQ, cloud, triggers, misreported>>

(* recv_timeout gives up, or returns the None of the broadcaster. *)
UploaderIdle ==
    /\ pubPc = "recv"
    /\ \/ pubQ = << >> /\ UNCHANGED pubQ
       \/ pubQ # << >> /\ Head(pubQ) = NoMsg /\ pubQ' = Tail(pubQ)
    /\ pubPc' = "check"
    /\ UNCHANGED <<link, subscribed, drops, handed, consumerQ, announceQ,
                   bcPc, datumQ, cloud, triggers, misreported>>

(* cli.is_connected(): nothing to do. *)
StillConnected ==
    /\ pubPc = "check"
    /\ link
    /\ pubPc' = "recv"
    /\ UNCHANGED <<link, subscribed, drops, handed, consumerQ, announceQ, bcPc,
                   pubQ, datumQ, cloud, triggers, misreported>>

-----------------------------------------------------------------------------
(* The network, mqtt_sub_thread, cloud_state_broadcaster, data_manager *)

(* The connection is lost: the broker drops the clean session with its
   subscription, the client puts None into the consumer channel.           *)
LinkLost ==
    /\ link
    /\ drops < MaxDrops
    /\ drops' = drops + 1
    /\ link' = FALSE
    /\ subscribed' = FALSE
    /\ consumerQ' = Append(consumerQ, "lost")
    /\ misreported' = FALSE
    /\ UNCHANGED <<pubPc, handed, announceQ, bcPc, pubQ, datumQ, cloud,
                   triggers>>

(* r.iter() yields None: announced as None. *)
SubForwardLost ==
    /\ handed
    /\ consumerQ # << >>
    /\ consumerQ' = Tail(consumerQ)
    /\ announceQ' = Append(announceQ, "down")
    /\ UNCHANGED <<link, subscribed, drops, pubPc, handed, bcPc,
                   pubQ, datumQ, cloud, triggers, misreported>>

(* Some: a Notice with id 1 to the data manager. *)
BroadcastUp ==
    /\ bcPc = "recv"
    /\ announceQ # << >>
    /\ Head(announceQ) = "up"
    /\ announceQ' = Tail(announceQ)
    /\ datumQ' = Append(datumQ, Notice(1))
    /\ UNCHANGED <<link, subscribed, drops, pubPc, handed, consumerQ, bcPc,
                   pubQ, cloud, triggers, misreported>>

(* None: first None to the uploader ... *)
BroadcastDown ==
    /\ bcPc = "recv"
    /\ announceQ # << >>
    /\ Head(announceQ) = "down"
    /\ announceQ' = Tail(announceQ)
    /\ pubQ' = Append(pubQ, NoMsg)
    /\ bcPc' = "notify"
    /\ UNCHANGED <<link, subscribed, drops, pubPc, handed, consumerQ,
                   datumQ, cloud, triggers, misreported>>

(* ... then a Notice with id 0 to the data manager. *)
BroadcastDownNotice ==
    /\ bcPc = "notify"
    /\ datumQ' = Append(datumQ, Notice(0))
    /\ bcPc' = "recv"
    /\ UNCHANGED <<link, subscribed, drops, pubPc, handed, consumerQ,
                   announceQ, pubQ, cloud, triggers, misreported>>

(* Mutants: the manager never goes offline; it reads id as the announcement
   channel has it, where Some(0) means connected.                          *)
OnlineAfterAny(notice) == cloud \/ notice.id # 0
OnlineAfterSwapped(notice) == notice.id = 0
OnlineAfter(notice) == notice.id # 0

(* The data manager takes a Notice; a Notice of a connection also wakes the
   offline data thread, whatever it is doing.                              *)
ManagerNotice ==
    /\ datumQ # << >>
    /\ Head(datumQ).type = "Notice"
    /\ datumQ' = Tail(datumQ)
    /\ cloud' = OnlineAfter(Head(datumQ))
    /\ triggers' = IF OnlineAfter(Head(datumQ)) THEN triggers + 1 ELSE triggers
    /\ UNCHANGED <<link, subscribed, drops, pubPc, handed, consumerQ,
                   announceQ, bcPc, pubQ, misreported>>

-----------------------------------------------------------------------------

PubThread ==
    \/ Connect \/ Reconnected \/ ReconnectFailed \/ Announce \/ Subscribe
    \/ Handover \/ UploaderIdle \/ StillConnected

Broadcaster == BroadcastUp \/ BroadcastDown \/ BroadcastDownNotice

Network == LinkLost \/ LateConnect

LinkNext ==
    \/ PubThread
    \/ SubForwardLost
    \/ Broadcaster
    \/ ManagerNotice
    \/ Network

LinkSpec == LinkInit /\ [][LinkNext]_linkVars

-----------------------------------------------------------------------------
(* Properties *)

(* The state the data manager will believe in once it has taken everything
   that is under way about the network: the most recent of the reports.    *)
IsNotice(q, i, state) == q[i].type = "Notice" /\ (q[i].id # 0) = state

LastNotice(q, state) ==
    \E i \in DOMAIN q : /\ IsNotice(q, i, state)
                        /\ \A j \in DOMAIN q : j > i => q[j].type # "Notice"

NoNotice(q) == \A i \in DOMAIN q : q[i].type # "Notice"

WillBelieve(state) ==
    IF consumerQ # << >> THEN state = FALSE
    ELSE IF announceQ # << >>
         THEN state = (announceQ[Len(announceQ)] = "up")
    ELSE IF bcPc = "notify" THEN state = FALSE
    ELSE IF NoNotice(datumQ) THEN state = cloud
    ELSE LastNotice(datumQ, state)

(* The reports reach the data manager in the order of the events they speak
   of: whenever no reconnection is about to be announced and the last one did
   not overtake a loss and was not passed over, the data manager ends up
   believing what is_connected() says.  Two threads write the announcement
   channel (mqtt.rs:56, 74, 135 and 164), so nothing but this order makes it
   true.  After any muddle the next loss puts it right.                    *)
BeliefFollowsLink ==
    pubPc # "announce" /\ ~misreported => WillBelieve(link)

(* While the uploader serves the queue on a live connection the broker has
   the subscription, or the downstream commands would silently never come:
   reconnecting opens a clean session and must subscribe again.  Only a
   failed subscribe, or a connection the uploader does not know of, may lead
   to another state, and for no longer than that connection.               *)
ConnectedImpliesSubscribed ==
    /\ pubPc \in {"handover", "recv", "check"}
    /\ link
    /\ "subErr" \notin Faults
    /\ ~misreported \/ Faults \cap {"noConnRsp", "lateConnect"} = {}
    => subscribed

(* Nothing about the network is under way and no thread is about to act. *)
Settled ==
    /\ consumerQ = << >>
    /\ announceQ = << >>
    /\ bcPc = "recv"
    /\ NoNotice(datumQ)
    /\ pubPc \in {"handover", "recv", "check"}

(* What main.rs:546 says of the announcement channel: every thread that needs
   to know is told whether the network is up.  Read as: when all is quiet and
   the connection is up, the data manager knows it.                        *)
QuiescentBelief == Settled /\ link => cloud

(* The network settles down after MaxDrops losses: from then on the gateway
   is connected, subscribed and stays so, provided that no subscription fails
   and no connection comes up behind the uploader's back (subErr, noConnRsp
   and lateConnect not in Faults): the code never subscribes again while a
   connection lives.                                                       *)
StaysConnected == <>[](link /\ subscribed)

(* ... and, unless the last announcement was out of order, it also knows: the
   belief of the data manager becomes right and stays right.  (Under the same
   proviso.)                                                               *)
BeliefConverges == <>[](misreported \/ cloud)

=============================================================================
