------------------------------- MODULE Gateway -------------------------------
(***************************************************************************)
(* The upstream path of the gateway (main.rs, mqtt.rs): store and forward. *)
(*                                                                         *)
(*   original_data_read_thread --rawQ--> original_data_handle_thread       *)
(*     --datumQ--> data_manager --pubQ--> mqtt_pub_thread --> broker       *)
(*                              --dbQ---> db_handle_thread                 *)
(*   offine_data_handle_thread: on Some(0), QUERY, rows --datumQ-->        *)
(*                                                                         *)
(* The manager waits for the uploader's publish result (resQ) and for the  *)
(* database thread's delete reply (delQ), the offline data thread for the  *)
(* rows it asked for (qryQ).  CloudLink has the threads that track the     *)
(* connection, which share pubQ and datumQ with this path.                 *)
(*                                                                         *)
(* A message is its number: the n-th message read from the devices is n.   *)
(***************************************************************************)
EXTENDS CloudLink, DeviceStore

CONSTANTS
    Malformed,   (* messages that do not fit the template           *)
    MaxCrashes   (* bound: how often the process dies and restarts  *)

ASSUME GatewayAssumption ==
    /\ Malformed \subseteq Msg
    /\ MaxCrashes \in Nat

DbReq == [op : {"INSERT"}, msg : Msg]
         \cup [op : {"QUERY"}]
         \cup [op : {"DELETE"}, id : RowId]

InsertReq(msg) == [op |-> "INSERT", msg |-> msg]
QueryReq == [op |-> "QUERY"]
DeleteReq(row) == [op |-> "DELETE", id |-> row]

(* What befell a message, apart from being published: stored in the table;
   unsaved, its INSERT failed; rejected by the template; crashed, in memory
   when the process died.                                                  *)
Fates == {"stored", "unsaved", "rejected", "crashed"}

VARIABLES
    nread,      (* messages read so far                                    *)
    rawQ,       (* original_data channel                                   *)
    mgrPc,      (* where data_manager is                                   *)
    held,       (* the datum data_manager works on, while it waits         *)
    resQ,       (* publish_result channel                                  *)
    dbQ,        (* database request channel                                *)
    delQ,       (* delete reply channel                                    *)
    qryQ,       (* query reply channel                                     *)
    offPc,      (* where offine_data_handle_thread is                      *)
    rows,       (* rows of the reply that it has not sent yet              *)
    db,         (* the table, on disk                                      *)
    sent,       (* history: how often a message was published successfully *)
    fate,       (* history: what else befell a message                     *)
    overlapped, (* history: a QUERY ran before an earlier replay was done  *)
    crashes     (* crashes so far                                          *)

pipeVars == <<nread, rawQ, mgrPc, held, resQ, dbQ, delQ, qryQ, offPc, rows, db,
              sent, fate, overlapped, crashes>>
vars == <<linkVars, pipeVars>>

NoDatum == Notice(0)

PipeTypeOK ==
    /\ nread \in 0..MaxMsgs
    /\ rawQ \in Seq(Msg)
    /\ mgrPc \in {"idle", "await_pub", "await_del"}
    /\ held \in Datum
    /\ resQ \in Seq(BOOLEAN)
    /\ dbQ \in Seq(DbReq)
    /\ delQ \in Seq(BOOLEAN)
    /\ qryQ \in Seq(Range(qryQ))
    /\ \A t \in Range(qryQ) : IsTable(t, Msg)
    /\ offPc \in {"idle", "await", "send"}
    /\ IsTable(rows, Msg)
    /\ IsTable(db, Msg)
    /\ sent \in [Msg -> Nat]
    /\ fate \in [Msg -> SUBSET Fates]
    /\ overlapped \in BOOLEAN
    /\ crashes \in 0..MaxCrashes
    /\ mgrPc # "idle" => held.type = "Message"
    /\ offPc = "send" => DOMAIN rows # {}

TypeOK == LinkTypeOK /\ PipeTypeOK

(* What a start of the process finds, apart from the table. *)
PipeBoot ==
    /\ rawQ = << >>
    /\ mgrPc = "idle"
    /\ held = NoDatum
    /\ resQ = << >>
    /\ dbQ = << >>
    /\ delQ = << >>
    /\ qryQ = << >>
    /\ offPc = "idle"
    /\ rows = EmptyTable

PipeRestart ==
    /\ rawQ' = << >>
    /\ mgrPc' = "idle"
    /\ held' = NoDatum
    /\ resQ' = << >>
    /\ dbQ' = << >>
    /\ delQ' = << >>
    /\ qryQ' = << >>
    /\ offPc' = "idle"
    /\ rows' = EmptyTable

Init ==
    /\ LinkInit
    /\ PipeBoot
    /\ nread = 0
    /\ db = EmptyTable
    /\ sent = [m \in Msg |-> 0]
    /\ fate = [m \in Msg |-> {}]
    /\ overlapped = FALSE
    /\ crashes = 0

Befalls(m, what) == fate' = [fate EXCEPT ![m] = @ \cup {what}]

-----------------------------------------------------------------------------
(* original_data_read_thread, original_data_handle_thread *)

(* A message arrives from the devices. *)
ReadInput ==
    /\ nread < MaxMsgs
    /\ nread' = nread + 1
    /\ rawQ' = Append(rawQ, nread + 1)
    /\ UNCHANGED <<linkVars, mgrPc, held, resQ, dbQ, delQ, qryQ, offPc, rows,
                   db, sent, fate, overlapped, crashes>>

(* format_msg fails: logged and dropped; else: a Datum with id 0. *)
HandleInput ==
    /\ rawQ # << >>
    /\ rawQ' = Tail(rawQ)
    /\ \/ /\ Head(rawQ) \in Malformed
          /\ Befalls(Head(rawQ), "rejected")
          /\ UNCHANGED datumQ
       \/ /\ Head(rawQ) \notin Malformed
          /\ datumQ' = Append(datumQ, Message(0, Head(rawQ)))
          /\ UNCHANGED fate
    /\ UNCHANGED <<link, subscribed, drops, pubPc, handed, consumerQ, announceQ,
                   bcPc, pubQ, cloud, triggers, misreported, nread, mgrPc, held, resQ,
                   dbQ, delQ, qryQ, offPc, rows, db, sent, overlapped, crashes>>

-----------------------------------------------------------------------------
(* data_manager *)

(* A Message: published if online, else stored if it is fresh; a replayed one
   that finds the manager offline is dropped, its row is still there.      *)
ManagerMessage ==
    /\ mgrPc = "idle"
    /\ datumQ # << >>
    /\ Head(datumQ).type = "Message"
    /\ datumQ' = Tail(datumQ)
    /\ \/ /\ cloud
          /\ pubQ' = Append(pubQ, Head(datumQ).msg)
          /\ mgrPc' = "await_pub"
          /\ held' = Head(datumQ)
          /\ UNCHANGED dbQ
       \/ /\ ~cloud
          /\ Head(datumQ).id = 0
          /\ dbQ' = Append(dbQ, InsertReq(Head(datumQ).msg))
          /\ UNCHANGED <<pubQ, mgrPc, held>>
       \/ /\ ~cloud
          /\ Head(datumQ).id # 0
          /\ UNCHANGED <<pubQ, mgrPc, held, dbQ>>
    /\ UNCHANGED <<link, subscribed, drops, pubPc, handed, consumerQ, announceQ,
                   bcPc, cloud, triggers, misreported, nread, rawQ, resQ, delQ, qryQ,
                   offPc, rows, db, sent, fate, overlapped, crashes>>

(* What the manager asks of the database once it knows the publish result:
   a fresh message that failed is stored, a row that was published deleted.
   Mutants: a failure is only logged; the row goes whatever the result; the
   row stays, the next reconnection would replay it.                       *)
AfterPublishDrop(ok, datum) ==
    IF ok /\ datum.id # 0 THEN <<DeleteReq(datum.id)>> ELSE << >>
AfterPublishDelete(ok, datum) ==
    IF datum.id # 0 THEN <<DeleteReq(datum.id)>>
    ELSE IF ok THEN << >> ELSE <<InsertReq(datum.msg)>>
AfterPublishKeep(ok, datum) ==
    IF ~ok /\ datum.id = 0 THEN <<InsertReq(datum.msg)>> ELSE << >>
AfterPublish(ok, datum) ==
    IF ok /\ datum.id # 0 THEN <<DeleteReq(datum.id)>>
    ELSE IF ~ok /\ datum.id = 0 THEN <<InsertReq(datum.msg)>>
    ELSE << >>

(* A DELETE has a reply that the manager waits for, an INSERT has none.
   Mutant: the reply to a DELETE is not waited for.                        *)
WaitsForReplyNever(asked) == FALSE
WaitsForReply(asked) == \E i \in DOMAIN asked : asked[i].op = "DELETE"

(* publish_result_receiver.recv(), and the requests that follow from it. *)
ManagerResult ==
    /\ mgrPc = "await_pub"
    /\ resQ # << >>
    /\ resQ' = Tail(resQ)
    /\ LET asked == AfterPublish(Head(resQ), held)
           waits == WaitsForReply(asked)
       IN  /\ dbQ' = dbQ \o asked
           /\ mgrPc' = IF waits THEN "await_del" ELSE "idle"
           /\ held' = IF waits THEN held ELSE NoDatum
    /\ UNCHANGED <<linkVars, nread, rawQ, delQ, qryQ, offPc, rows, db, sent,
                   fate, overlapped, crashes>>

(* db_delete_rep_rx.recv(): either reply is only logged. *)
ManagerDeleted ==
    /\ mgrPc = "await_del"
    /\ delQ # << >>
    /\ delQ' = Tail(delQ)
    /\ mgrPc' = "idle"
    /\ held' = NoDatum
    /\ UNCHANGED <<linkVars, nread, rawQ, resQ, dbQ, qryQ, offPc, rows, db,
                   sent, fate, overlapped, crashes>>

-----------------------------------------------------------------------------
(* mqtt_pub_thread *)

(* cli.publish() fails when the client is offline. *)
PubMessage ==
    /\ pubPc = "recv"
    /\ pubQ # << >>
    /\ Head(pubQ) # NoMsg
    /\ pubQ' = Tail(pubQ)
    /\ \/ /\ link
          /\ resQ' = Append(resQ, TRUE)
          /\ sent' = [sent EXCEPT ![Head(pubQ)] = @ + 1]
       \/ /\ ~link \/ "pubErr" \in Faults
          /\ resQ' = Append(resQ, FALSE)
          /\ UNCHANGED sent
    /\ pubPc' = "check"
    /\ UNCHANGED <<link, subscribed, drops, handed, consumerQ, announceQ, bcPc,
                   datumQ, cloud, triggers, misreported, nread, rawQ, mgrPc, held,
                   dbQ, delQ, qryQ, offPc, rows, db, fate, overlapped, crashes>>

-----------------------------------------------------------------------------
(* offine_data_handle_thread *)

(* Some(0): ask for all rows. *)
OfflineTrigger ==
    /\ offPc = "idle"
    /\ triggers > 0
    /\ triggers' = triggers - 1
    /\ dbQ' = Append(dbQ, QueryReq)
    /\ offPc' = "await"
    /\ UNCHANGED <<link, subscribed, drops, pubPc, handed, consumerQ, announceQ,
                   bcPc, pubQ, datumQ, cloud, misreported, nread, rawQ, mgrPc, held,
                   resQ, delQ, qryQ, rows, db, sent, fate, overlapped, crashes>>

(* The reply arrives. *)
OfflineRows ==
    /\ offPc = "await"
    /\ qryQ # << >>
    /\ qryQ' = Tail(qryQ)
    /\ rows' = Head(qryQ)
    /\ offPc' = IF DOMAIN Head(qryQ) = {} THEN "idle" ELSE "send"
    /\ UNCHANGED <<linkVars, nread, rawQ, mgrPc, held, resQ, dbQ, delQ, db, sent,
                   fate, overlapped, crashes>>

(* The next row is sent to the data manager with its id, every 100 ms; one
   that SQLite could not read is skipped.                                  *)
OfflineSend ==
    /\ offPc = "send"
    /\ \/ datumQ' = Append(datumQ, Message(FirstRow(rows), rows[FirstRow(rows)]))
       \/ "rowErr" \in Faults /\ UNCHANGED datumQ
    /\ rows' = DeleteRow(rows, FirstRow(rows))
    /\ offPc' = IF DOMAIN rows = {FirstRow(rows)} THEN "idle" ELSE "send"
    /\ UNCHANGED <<link, subscribed, drops, pubPc, handed, consumerQ, announceQ,
                   bcPc, pubQ, cloud, triggers, misreported, nread, rawQ, mgrPc, held,
                   resQ, dbQ, delQ, qryQ, db, sent, fate, overlapped, crashes>>

-----------------------------------------------------------------------------
(* db_handle_thread *)

NextReqIs(op) == dbQ # << >> /\ Head(dbQ).op = op

(* INSERT has no reply: an error is only logged. *)
DbInsert ==
    /\ NextReqIs("INSERT")
    /\ dbQ' = Tail(dbQ)
    /\ \/ /\ db' = InsertRow(db, Head(dbQ).msg)
          /\ Befalls(Head(dbQ).msg, "stored")
       \/ /\ "insertErr" \in Faults
          /\ Befalls(Head(dbQ).msg, "unsaved")
          /\ UNCHANGED db
    /\ UNCHANGED <<linkVars, nread, rawQ, mgrPc, held, resQ, delQ, qryQ, offPc,
                   rows, sent, overlapped, crashes>>

(* A replay is still under way: one of its rows is queued at the manager or
   in the manager's hands.                                                 *)
ReplayUnderWay ==
    \/ \E i \in DOMAIN datumQ : datumQ[i].type = "Message" /\ datumQ[i].id # 0
    \/ mgrPc # "idle" /\ held.id # 0

(* QUERY replies with all the rows; if it fails there is no reply. *)
DbQuery ==
    /\ NextReqIs("QUERY")
    /\ dbQ' = Tail(dbQ)
    /\ \/ qryQ' = Append(qryQ, db)
       \/ "queryErr" \in Faults /\ UNCHANGED qryQ
    /\ overlapped' = (overlapped \/ ReplayUnderWay)
    /\ UNCHANGED <<linkVars, nread, rawQ, mgrPc, held, resQ, delQ, offPc, rows,
                   db, sent, fate, crashes>>

(* DELETE always has a reply. *)
DbDelete ==
    /\ NextReqIs("DELETE")
    /\ dbQ' = Tail(dbQ)
    /\ \/ /\ db' = DeleteRow(db, Head(dbQ).id)
          /\ delQ' = Append(delQ, TRUE)
       \/ /\ "deleteErr" \in Faults
          /\ delQ' = Append(delQ, FALSE)
          /\ UNCHANGED db
    /\ UNCHANGED <<linkVars, nread, rawQ, mgrPc, held, resQ, qryQ, offPc, rows,
                   sent, fate, overlapped, crashes>>

-----------------------------------------------------------------------------

(* The only copy of m that was never stored or published is in memory: on its
   way to the manager, in its hands, or in a request to store it.          *)
FreshInFlight(m) ==
    \/ \E i \in DOMAIN rawQ : rawQ[i] = m
    \/ \E i \in DOMAIN datumQ : datumQ[i] = Message(0, m)
    \/ mgrPc # "idle" /\ held = Message(0, m)
    \/ \E i \in DOMAIN dbQ : dbQ[i] = InsertReq(m)

(* The process dies and is started again: only the table survives. *)
Crash ==
    /\ crashes < MaxCrashes
    /\ crashes' = crashes + 1
    /\ fate' = [m \in Msg |-> IF FreshInFlight(m) THEN fate[m] \cup {"crashed"}
                                                ELSE fate[m]]
    /\ LinkRestart
    /\ PipeRestart
    /\ UNCHANGED <<drops, nread, db, sent, overlapped>>

(* The steps of CloudLink: data_manager takes a Notice only between data. *)
LinkStep ==
    /\ \/ PubThread
       \/ SubForwardLost
       \/ Broadcaster
       \/ (mgrPc = "idle" /\ ManagerNotice)
       \/ Network
    /\ UNCHANGED pipeVars

Manager ==
    \/ ManagerMessage \/ ManagerResult \/ ManagerDeleted
    \/ (mgrPc = "idle" /\ ManagerNotice /\ UNCHANGED pipeVars)

Uploader == PubMessage \/ (PubThread /\ UNCHANGED pipeVars)

Offline == OfflineTrigger \/ OfflineRows \/ OfflineSend

Db == DbInsert \/ DbQuery \/ DbDelete

Next ==
    \/ ReadInput
    \/ HandleInput
    \/ ManagerMessage
    \/ ManagerResult
    \/ ManagerDeleted
    \/ PubMessage
    \/ Offline
    \/ Db
    \/ LinkStep
    \/ Crash

Spec == Init /\ [][Next]_vars

(* Every thread keeps running; reading, losses and crashes need not happen;
   an attempt to reconnect does not fail for ever.                         *)
Fairness ==
    /\ WF_vars(HandleInput)
    /\ WF_vars(Manager)
    /\ WF_vars(Uploader)
    /\ SF_vars(Reconnected /\ UNCHANGED pipeVars)
    /\ WF_vars(Offline)
    /\ WF_vars(Db)
    /\ WF_vars(SubForwardLost /\ UNCHANGED pipeVars)
    /\ WF_vars(Broadcaster /\ UNCHANGED pipeVars)

-----------------------------------------------------------------------------
(* Properties *)

(* Every message read is accounted for: it is still on its way, or it was
   published, or it is known where it ended.  In particular the path
   publish fails -> result -> INSERT (main.rs:737-753) loses nothing.      *)
NoSilentLoss ==
    \A m \in 1..nread :
        sent[m] = 0 /\ fate[m] = {} => FreshInFlight(m)

(* A stored message stays in the table until it is published, whatever
   happens to the link, to the publish results and to the process - as long
   as no QUERY ran while an earlier replay was still under way.            *)
StoredUntilSent ==
    ~overlapped =>
        \A m \in Msg : "stored" \in fate[m] /\ sent[m] = 0
                       => \E row \in DOMAIN db : db[row] = m

(* A message is reported published twice only if replays overlapped, or if the row of
   a published message was not deleted: a failed DELETE, or a crash between
   publish and DELETE.                                                     *)
DuplicatesExplained ==
    ~overlapped /\ crashes = 0 /\ "deleteErr" \notin Faults
        => \A m \in Msg : sent[m] <= 1

IsMsg(i) == pubQ[i] # NoMsg
IsReq(i, op) == dbQ[i].op = op

(* Replies carry no name of what they answer, so each caller must have at most
   one call open: while the manager waits for a result, its datum is the one
   message queued at the uploader, or the result is there; while it waits for
   a deletion, its row is in the one DELETE or the reply is there; otherwise
   nothing of the kind exists that a later wait could mistake for its own. *)
AtMostOne(q, P(_)) == \A i, j \in DOMAIN q : P(i) /\ P(j) => i = j

PublishCall ==
    /\ AtMostOne(pubQ, IsMsg)
    /\ Len(resQ) <= 1
    /\ \A i \in DOMAIN pubQ : IsMsg(i) =>
           mgrPc = "await_pub" /\ resQ = << >> /\ pubQ[i] = held.msg
    /\ resQ # << >> => mgrPc = "await_pub"
    /\ mgrPc = "await_pub" =>
           resQ # << >> \/ \E i \in DOMAIN pubQ : IsMsg(i)

DeleteCall ==
    LET IsDelete(i) == IsReq(i, "DELETE")
    IN  /\ AtMostOne(dbQ, IsDelete)
        /\ Len(delQ) <= 1
        /\ \A i \in DOMAIN dbQ : IsDelete(i) =>
               mgrPc = "await_del" /\ delQ = << >> /\ dbQ[i].id = held.id
        /\ delQ # << >> => mgrPc = "await_del"
        /\ mgrPc = "await_del" =>
               delQ # << >> \/ \E i \in DOMAIN dbQ : IsDelete(i)

QueryCall ==
    LET IsQuery(i) == IsReq(i, "QUERY")
    IN  /\ AtMostOne(dbQ, IsQuery)
        /\ Len(qryQ) <= 1
        /\ \A i \in DOMAIN dbQ : IsQuery(i) => offPc = "await" /\ qryQ = << >>
        /\ qryQ # << >> => offPc = "await"

RepliesMatchRequests == PublishCall /\ DeleteCall /\ QueryCall

(* main.rs:705-706: when the network is back the offline data thread takes the
   messages out through the database thread.  So a thread that asked for the
   rows has its request or the reply under way.                            *)
QueryIsAnswered ==
    offPc = "await" =>
        qryQ # << >> \/ \E i \in DOMAIN dbQ : IsReq(i, "QUERY")

(* README.md:9, main.rs:705-707: a message stored while offline is uploaded
   once the network is back; only then is its row deleted.                 *)
StoredUntilSentAlways ==
    \A m \in Msg : "stored" \in fate[m] /\ sent[m] = 0
                   => \E row \in DOMAIN db : db[row] = m

(* Where a message is for someone who only knows what the gateway promises. *)
Stage(m) ==
    IF FreshInFlight(m) THEN "memory"
    ELSE IF m \in Range(db) THEN "table"
    ELSE IF m > nread THEN "new"
    ELSE "gone"

LostFates == {"unsaved", "rejected", "crashed"}

Promise == INSTANCE StoreAndForward WITH
    Messages <- Msg,
    stage <- [m \in Msg |-> Stage(m)],
    uploads <- sent,
    lost <- {m \in Msg : fate[m] \cap LostFates # {}},
    muddled <- overlapped

(* README.md:9, main.rs:702-707, at every step: a message is stored only if it
   was not uploaded, and leaves memory or the table only once it was, or with
   a loss that is on record.                                               *)
ImplementsStoreAndForward == Promise!Spec

=============================================================================
