---------------------------- MODULE GatewayLive ----------------------------
(***************************************************************************)
(* Gateway with a history variable for what it must upload in the end.     *)
(*                                                                         *)
(* The table is read again only when the data manager learns of a          *)
(* connection.  A message that stays in the table for another reason than  *)
(* a lost connection has to wait for the next one, however long that       *)
(* takes: publish() failed on a live connection (main.rs:738-753), or the  *)
(* row was passed over in the replay (main.rs:602-605).                    *)
(***************************************************************************)
EXTENDS Gateway

VARIABLE stranded   (* history: messages that wait for a connection to come *)

liveVars == <<vars, stranded>>

LiveInit == Init /\ stranded = {}

PublishFailsOnLink == PubMessage /\ link /\ resQ' = Append(resQ, FALSE)
RowPassedOver == OfflineSend /\ datumQ' = datumQ

(* A replay takes along all rows there are, also those whose INSERT is under
   way; only the message whose result the manager has not taken yet will be
   stored behind its QUERY.                                                *)
Stranded ==
    IF PublishFailsOnLink THEN stranded \cup {held.msg}
    ELSE IF RowPassedOver THEN stranded \cup {rows[FirstRow(rows)]}
    ELSE IF OfflineTrigger
         THEN IF resQ = << >> THEN {} ELSE stranded \cap {held.msg}
    ELSE stranded

LiveNext == Next /\ stranded' = Stranded

LiveSpec == LiveInit /\ [][LiveNext]_liveVars /\ Fairness

-----------------------------------------------------------------------------
(* Properties *)

(* m was uploaded, or lost with the loss on record, and needs nothing more.
   Replays that overlap may delete the row of an unsent message.           *)
Done(m) ==
    /\ sent[m] > 0 \/ fate[m] \cap LostFates # {} \/ overlapped
    /\ m \notin Range(db)
    /\ ~FreshInFlight(m)

(* README.md:9, main.rs:702-707: once the data manager knows for good that it
   is online, every message read is uploaded and leaves the table.  The one
   exception is a message that was stranded after the last replay had been
   asked for: nothing takes it out of the table while the connection lasts.
   A publish that failed because the connection was lost is no exception: a
   replay always follows it.                                               *)
BacklogDrained ==
    <>[]cloud => <>[](\A m \in 1..nread : m \in stranded \/ Done(m))

=============================================================================
