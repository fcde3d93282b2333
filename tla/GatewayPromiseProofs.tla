------------------------- MODULE GatewayPromiseProofs -------------------------
(***************************************************************************)
(* Proofs that Gateway keeps a stored message until it is published        *)
(* (StoredUntilSent), that a message is uploaded twice only for reasons    *)
(* DuplicatesExplained names, and that Gateway implements                  *)
(* StoreAndForward.                                                        *)
(***************************************************************************)
EXTENDS GatewayProofs

-----------------------------------------------------------------------------
(* Stored messages stay (StoredUntilSent).

   A row is deleted by the id it had when it was queried.  So the proof
   follows each row through a replay: while no replay overlaps another
   one, a row is in at most one place (RowOnce), and what the places say
   of it is what the table says (ReplaysMatch). *)

OnceIn(q, S) == \A i, j \in DOMAIN q : q[i] \in S /\ q[j] \in S => i = j

ReplaysOf(r) == {d \in Datum : d.type = "Message" /\ d.id = r}

(* The places of a row in a replay, from the reply to the manager. *)
Replied(r) == \E t \in Range(qryQ) : r \in DOMAIN t
Listed(r) == r \in DOMAIN rows
Queued(r) == \E d \in Range(datumQ) : d \in ReplaysOf(r)
InHand(r) == mgrPc # "idle" /\ held.id = r

RowOnce(r) ==
    /\ OnceIn(datumQ, ReplaysOf(r))
    /\ Queued(r) => ~Replied(r) /\ ~Listed(r) /\ ~InHand(r)
    /\ Listed(r) => ~InHand(r)
    /\ Replied(r) => ~InHand(r)

InTable(r, m) == r \in DOMAIN db /\ db[r] = m

ReplaysMatch ==
    /\ \A t \in Range(qryQ) : \A r \in DOMAIN t : InTable(r, t[r])
    /\ \A r \in DOMAIN rows : InTable(r, rows[r])
    /\ \A d \in Range(datumQ) :
           d.type = "Message" /\ d.id # 0 => InTable(d.id, d.msg)
    /\ mgrPc = "await_pub" /\ held.id # 0 => InTable(held.id, held.msg)
    /\ \A e \in Range(dbQ) : e \in Deletes => InTable(e.id, held.msg)

RowsWhileSending == offPc # "send" => DOMAIN rows = {}

DeletedWasSent ==
    \A e \in Range(dbQ) : e \in Deletes => sent[held.msg] > 0

StoreInv ==
    /\ RowsWhileSending
    /\ DeletedWasSent
    /\ ~overlapped => /\ \A r \in RowId : RowOnce(r)
                      /\ ReplaysMatch
                      /\ StoredUntilSent

-----------------------------------------------------------------------------

LEMMA OnceInTail ==
    ASSUME NEW T, NEW S, NEW q \in Seq(T), q # << >>, OnceIn(q, S)
    PROVE  /\ OnceIn(Tail(q), S)
           /\ Head(q) \in S => \A d \in Range(Tail(q)) : d \notin S
<1>1. \A i, j \in DOMAIN q : q[i] \in S /\ q[j] \in S => i = j
  BY DEF OnceIn
<1>2. LET t == Tail(q)
      IN  /\ \A i, j \in DOMAIN t : t[i] \in S /\ t[j] \in S => i = j
          /\ Head(q) \in S => \A i \in DOMAIN t : t[i] \notin S
  BY <1>1, TakeFromQueue
<1>3. QED
  BY <1>2 DEF OnceIn, Range

LEMMA OnceInAppend ==
    ASSUME NEW T, NEW S, NEW q \in Seq(T), NEW e \in T, OnceIn(q, S),
           e \in S => \A d \in Range(q) : d \notin S
    PROVE  OnceIn(Append(q, e), S)
<1> DEFINE r == Append(q, e)
<1>1. \A i, j \in DOMAIN q : q[i] \in S /\ q[j] \in S => i = j
  BY DEF OnceIn
<1>2. /\ e \notin S => /\ \A i \in DOMAIN q : r[i] = q[i]
                       /\ \A i \in DOMAIN r : r[i] \in S => i \in DOMAIN q
      /\ (\A i \in DOMAIN q : q[i] \notin S) =>
             \A i, j \in DOMAIN r : r[i] \in S /\ r[j] \in S => i = j
  BY PutInQueue
<1> HIDE DEF r
<1>3. CASE e \notin S
  BY <1>1, <1>2, <1>3 DEF OnceIn, r
<1>4. CASE e \in S
  <2>1. \A i \in DOMAIN q : q[i] \notin S
    BY <1>4 DEF Range
  <2>2. QED
    BY <1>2, <2>1 DEF OnceIn, r
<1>5. QED
  BY <1>3, <1>4

LEMMA EmptyOnce == ASSUME NEW S PROVE OnceIn(<< >>, S)
  BY DEF OnceIn

(* The DELETE under way is the one of the datum in the manager's hands. *)
LEMMA DeleteUnderWay ==
    ASSUME TypeOK, DeleteCall
    PROVE  /\ OnceIn(dbQ, Deletes)
           /\ \A e \in Range(dbQ) : e \in Deletes =>
                  /\ mgrPc = "await_del" /\ delQ = << >>
                  /\ e.id = held.id /\ e.id \in RowId
<1>1. /\ dbQ \in Seq(DbReq)
      /\ \A i \in DOMAIN dbQ : dbQ[i] \in DbReq
  BY DEF TypeOK, PipeTypeOK
<1>2. \A i \in DOMAIN dbQ : dbQ[i] \in Deletes <=> IsReq(i, "DELETE")
  BY <1>1 DEF Deletes, IsReq
<1>3. OnceIn(dbQ, Deletes)
  BY <1>2 DEF DeleteCall, AtMostOne, OnceIn
<1>4. \A i \in DOMAIN dbQ : dbQ[i] \in Deletes =>
          mgrPc = "await_del" /\ delQ = << >> /\ dbQ[i].id = held.id
  BY <1>2 DEF DeleteCall
<1>5. \A e \in Deletes : e.id \in RowId
  BY DEF Deletes, DbReq
<1>6. QED
  BY <1>3, <1>4, <1>5 DEF Range

(* While the reply to a QUERY or the QUERY is under way there are no rows. *)
LEMMA QueryUnderWay ==
    ASSUME TypeOK, QueryCall
    PROVE  /\ qryQ # << >> => offPc = "await" /\ Tail(qryQ) = << >>
           /\ dbQ # << >> /\ Head(dbQ).op = "QUERY" => offPc = "await" /\ qryQ = << >>
<1>1. dbQ \in Seq(DbReq) /\ qryQ \in Seq(Range(qryQ)) /\ Len(qryQ) <= 1
  BY DEF TypeOK, PipeTypeOK, QueryCall
<1>2. qryQ # << >> => Tail(qryQ) = << >>
  BY <1>1, ShortQueue
<1>3. ASSUME dbQ # << >>, Head(dbQ).op = "QUERY"
      PROVE  offPc = "await" /\ qryQ = << >>
  <2>1. 1 \in DOMAIN dbQ /\ dbQ[1] = Head(dbQ)
    BY <1>1, <1>3
  <2>2. QED
    BY <1>3, <2>1 DEF QueryCall, IsReq
<1>4. QED
  BY <1>2, <1>3 DEF QueryCall

-----------------------------------------------------------------------------
(* A row stays where it is, unless it is the one that is deleted. *)
LEMMA KeptAfterDelete ==
    ASSUME NEW t, IsTable(t, Msg), NEW x, NEW r \in DOMAIN t, r # x
    PROVE  r \in DOMAIN DeleteRow(t, x) /\ DeleteRow(t, x)[r] = t[r]
<1>1. /\ DOMAIN DeleteRow(t, x) = DOMAIN t \ {x}
      /\ \A s \in DOMAIN t \ {x} : DeleteRow(t, x)[s] = t[s]
  BY DeleteRowTable
<1>2. QED
  BY <1>1

LEMMA KeptAfterInsert ==
    ASSUME NEW t, IsTable(t, Msg), NEW m \in Msg
    PROVE  /\ \A r \in DOMAIN t :
                  r \in DOMAIN InsertRow(t, m) /\ InsertRow(t, m)[r] = t[r]
           /\ \E r \in DOMAIN InsertRow(t, m) : InsertRow(t, m)[r] = m
<1>1. /\ DOMAIN InsertRow(t, m) = DOMAIN t \cup {NextRowId(t)}
      /\ \A r \in DOMAIN t : InsertRow(t, m)[r] = t[r]
  BY InsertRowTable
<1>2. InsertRow(t, m)[NextRowId(t)] = m
  BY DEF InsertRow
<1>3. QED
  BY <1>1, <1>2

LEMMA KeptRow ==
    ASSUME TypeOK, [Next]_vars, NEW r, NEW m, InTable(r, m),
           DbDelete => Head(dbQ).id # r
    PROVE  r \in DOMAIN db' /\ db'[r] = m
<1>1. IsTable(db, Msg) /\ dbQ \in Seq(DbReq) /\ r \in DOMAIN db /\ db[r] = m
  BY DEF TypeOK, PipeTypeOK, InTable
<1>2. CASE UNCHANGED db
  BY <1>1, <1>2
<1>3. CASE DbInsert
  <2>1. CASE db' = InsertRow(db, Head(dbQ).msg)
    <3>1. Head(dbQ) \in DbReq /\ Head(dbQ).op = "INSERT"
      BY <1>1, <1>3, HeadTailProperties DEF DbInsert, NextReqIs
    <3>2. Head(dbQ).msg \in Msg
      BY <3>1 DEF DbReq
    <3>3. QED
      BY <1>1, <2>1, <3>2, KeptAfterInsert
  <2>2. QED
    BY <1>2, <1>3, <2>1 DEF DbInsert
<1>4. CASE DbDelete
  <2>1. CASE db' = DeleteRow(db, Head(dbQ).id)
    BY <1>1, <1>4, <2>1, KeptAfterDelete
  <2>2. QED
    BY <1>2, <1>4, <2>1 DEF DbDelete
<1>5. CASE \/ ReadInput \/ HandleInput \/ ManagerMessage \/ ManagerResult
           \/ ManagerDeleted \/ PubMessage \/ Offline \/ DbQuery \/ LinkStep
           \/ Crash \/ UNCHANGED vars
  BY <1>2, <1>5
  DEF ReadInput, HandleInput, ManagerMessage, ManagerResult, ManagerDeleted,
      PubMessage, Offline, OfflineTrigger, OfflineRows, OfflineSend, DbQuery,
      LinkStep, Crash, vars, pipeVars
<1>6. QED
  BY <1>3, <1>4, <1>5 DEF Next, Db

(* With no overlap a QUERY finds nothing of a replay under way. *)
LEMMA NothingReplayed ==
    ASSUME TypeOK, QueryCall, RowsWhileSending, DbQuery, ~overlapped'
    PROVE  /\ qryQ = << >> /\ DOMAIN rows = {}
           /\ \A r \in RowId : ~Queued(r) /\ ~InHand(r)
<1>1. dbQ # << >> /\ Head(dbQ).op = "QUERY" /\ ~ReplayUnderWay
  BY DEF DbQuery, NextReqIs
<1>2. offPc = "await" /\ qryQ = << >>
  BY <1>1, QueryUnderWay
<1>3. \A d \in Range(datumQ) : ~(d.type = "Message" /\ d.id # 0)
  BY <1>1 DEF ReplayUnderWay, Range
<1>4. mgrPc # "idle" => held.id = 0
  BY <1>1 DEF ReplayUnderWay
<1>5. QED
  BY <1>2, <1>3, <1>4 DEF RowsWhileSending, Queued, InHand, ReplaysOf, RowId

LEMMA RowStep ==
    ASSUME TypeOK, RepliesMatchRequests, StoreInv, [Next]_vars, ~overlapped',
           ~overlapped, NEW r \in RowId
    PROVE  RowOnce(r)'
<1> DEFINE S == ReplaysOf(r)
<1>1. /\ datumQ \in Seq(Datum) /\ qryQ \in Seq(Range(qryQ))
      /\ IsTable(rows, Msg) /\ r # 0
  BY DEF TypeOK, LinkTypeOK, PipeTypeOK, RowId
<1>2. /\ OnceIn(datumQ, S)
      /\ Queued(r) => ~Replied(r) /\ ~Listed(r) /\ ~InHand(r)
      /\ Listed(r) => ~InHand(r)
      /\ Replied(r) => ~InHand(r)
  BY DEF StoreInv, RowOnce
<1>3. ASSUME OnceIn(datumQ', S), Queued(r)' => Queued(r), InHand(r)' => InHand(r),
             UNCHANGED <<qryQ, rows>>
      PROVE  RowOnce(r)'
  BY <1>2, <1>3 DEF RowOnce, Replied, Listed
<1>4. ASSUME datumQ # << >>, datumQ' = Tail(datumQ)
      PROVE  /\ OnceIn(datumQ', S) /\ (Queued(r)' => Queued(r))
             /\ Head(datumQ) \in S => Queued(r) /\ ~Queued(r)'
  <2>1. Range(datumQ) = {Head(datumQ)} \cup Range(datumQ')
    BY <1>1, <1>4, RangeTail
  <2>2. /\ OnceIn(datumQ', S)
        /\ Head(datumQ) \in S => \A d \in Range(datumQ') : d \notin S
    BY <1>1, <1>2, <1>4, OnceInTail
  <2>3. QED
    BY <2>1, <2>2 DEF Queued
<1>5. ASSUME NEW d \in Datum, datumQ' = Append(datumQ, d), d \in S => ~Queued(r)
      PROVE  OnceIn(datumQ', S) /\ (Queued(r)' => Queued(r) \/ d \in S)
  <2>1. Range(datumQ') = Range(datumQ) \cup {d}
    BY <1>1, <1>5, RangeAppend
  <2>2. OnceIn(datumQ', S)
    BY <1>1, <1>2, <1>5, OnceInAppend DEF Queued
  <2>3. QED
    BY <2>1, <2>2 DEF Queued
<1>6. UNCHANGED datumQ => OnceIn(datumQ', S) /\ (Queued(r)' => Queued(r))
  BY <1>2 DEF Queued
<1>7. UNCHANGED <<mgrPc, held>> => (InHand(r)' => InHand(r))
  BY DEF InHand
<1> HIDE DEF S
<1>8. CASE HandleInput
  <2>1. CASE UNCHANGED datumQ
    BY <1>3, <1>6, <1>7, <1>8, <2>1 DEF HandleInput
  <2>2. CASE datumQ' = Append(datumQ, Message(0, Head(rawQ))) /\ rawQ # << >>
    <3>1. Head(rawQ) \in Msg
      BY <2>2, HeadTailProperties DEF TypeOK, PipeTypeOK
    <3>2. Message(0, Head(rawQ)) \in Datum /\ Message(0, Head(rawQ)) \notin S
      BY <1>1, <3>1 DEF Message, Datum, S, ReplaysOf
    <3>3. QED
      BY <1>3, <1>5, <1>7, <1>8, <2>2, <3>2 DEF HandleInput
  <2>3. QED
    BY <1>8, <2>1, <2>2 DEF HandleInput
<1>9. CASE LinkStep
  <2>1. UNCHANGED <<qryQ, rows, mgrPc, held>>
    BY <1>9 DEF LinkStep, pipeVars
  <2>2. \A d \in Datum : d.type = "Notice" => d \notin S
    BY DEF S, ReplaysOf
  <2>3. OnceIn(datumQ', S) /\ (Queued(r)' => Queued(r))
    BY <1>4, <1>5, <1>6, <1>9, <2>2, LinkData DEF TypeOK
  <2>4. QED
    BY <1>3, <1>7, <2>1, <2>3
<1>10. CASE ManagerMessage
  <2>1. /\ datumQ # << >> /\ datumQ' = Tail(datumQ) /\ mgrPc = "idle"
        /\ Head(datumQ).type = "Message" /\ UNCHANGED <<qryQ, rows>>
        /\ \/ held' = Head(datumQ)
           \/ UNCHANGED <<mgrPc, held>>
    BY <1>10 DEF ManagerMessage
  <2>2. Head(datumQ) \in Datum
    BY <1>1, <2>1, HeadTailProperties
  <2>3. InHand(r)' => InHand(r) \/ Head(datumQ) \in S
    BY <2>1, <2>2 DEF InHand, S, ReplaysOf
  <2>4. CASE Head(datumQ) \in S
    <3>1. /\ OnceIn(datumQ', S) /\ Queued(r) /\ ~Queued(r)'
      BY <1>4, <2>1, <2>4
    <3>2. ~Replied(r)' /\ ~Listed(r)'
      BY <1>2, <2>1, <3>1 DEF Replied, Listed
    <3>3. QED
      BY <3>1, <3>2 DEF RowOnce, S
  <2>5. QED
    BY <1>3, <1>4, <2>1, <2>3, <2>4
<1>11. CASE ManagerResult \/ ManagerDeleted
  <2>1. UNCHANGED <<datumQ, qryQ, rows>>
    BY <1>11 DEF ManagerResult, ManagerDeleted, linkVars
  <2>2. InHand(r)' => InHand(r)
    BY <1>1, <1>11 DEF InHand, ManagerResult, ManagerDeleted
  <2>3. QED
    BY <1>3, <1>6, <2>1, <2>2
<1>12. CASE OfflineRows
  <2>1. /\ qryQ # << >> /\ qryQ' = Tail(qryQ) /\ rows' = Head(qryQ)
        /\ UNCHANGED <<datumQ, mgrPc, held>>
    BY <1>12 DEF OfflineRows, linkVars
  <2>2. qryQ' = << >>
    BY <2>1, QueryUnderWay DEF RepliesMatchRequests
  <2>3. ~Replied(r)'
    BY <2>2, RangeEmpty DEF Replied
  <2>4. Listed(r)' => Replied(r)
    BY <1>1, <2>1, RangeTail DEF Listed, Replied
  <2>5. QED
    BY <1>2, <1>6, <1>7, <2>1, <2>3, <2>4 DEF RowOnce, S
<1>13. CASE OfflineSend
  <2>1. UNCHANGED <<qryQ, mgrPc, held>> /\ rows' = DeleteRow(rows, FirstRow(rows))
    BY <1>13 DEF OfflineSend
  <2>2. FirstRow(rows) \in DOMAIN rows
    BY <1>1, <1>13, FirstRowExists DEF OfflineSend, TypeOK, PipeTypeOK
  <2>3. DOMAIN rows' = DOMAIN rows \ {FirstRow(rows)}
    BY <1>1, <2>1, DeleteRowTable
  <2>4. Replied(r)' = Replied(r) /\ InHand(r)' = InHand(r)
    BY <2>1 DEF Replied, InHand
  <2>5. CASE datumQ' = Append(datumQ, Message(FirstRow(rows), rows[FirstRow(rows)]))
    <3> DEFINE d == Message(FirstRow(rows), rows[FirstRow(rows)])
    <3>1. d \in Datum /\ d.id = FirstRow(rows) /\ d.type = "Message"
      BY <1>1, <2>2 DEF IsTable, RowId, Message, Datum
    <3> HIDE DEF d
    <3>2. d \in S <=> FirstRow(rows) = r
      BY <3>1 DEF S, ReplaysOf
    <3>3. d \in S => Listed(r) /\ ~Listed(r)'
      BY <2>2, <2>3, <3>2 DEF Listed
    <3>4. OnceIn(datumQ', S) /\ (Queued(r)' => Queued(r) \/ d \in S)
      BY <1>2, <1>5, <2>5, <3>1, <3>3 DEF d
    <3>5. (Listed(r)' => Listed(r))
      BY <2>3 DEF Listed
    <3>6. Listed(r) => ~Replied(r)
      <4>1. qryQ # << >> => DOMAIN rows = {}
        BY QueryUnderWay DEF RepliesMatchRequests, StoreInv, RowsWhileSending
      <4>2. QED
        BY <4>1, RangeEmpty DEF Listed, Replied
    <3>7. QED
      BY <1>2, <2>4, <3>3, <3>4, <3>5, <3>6 DEF RowOnce, S
  <2>6. CASE UNCHANGED datumQ
    <3>1. Listed(r)' => Listed(r)
      BY <2>3 DEF Listed
    <3>2. QED
      BY <1>2, <1>6, <2>4, <2>6, <3>1 DEF RowOnce, S
  <2>7. QED
    BY <1>13, <2>5, <2>6 DEF OfflineSend
<1>14. CASE DbQuery
  <2>1. ~Queued(r) /\ ~InHand(r) /\ ~Listed(r)
    BY <1>14, NothingReplayed DEF RepliesMatchRequests, StoreInv, Listed
  <2>2. UNCHANGED <<datumQ, rows, mgrPc, held>>
    BY <1>14 DEF DbQuery, linkVars
  <2>3. ~Queued(r)' /\ ~InHand(r)' /\ ~Listed(r)' /\ OnceIn(datumQ', S)
    BY <1>2, <2>1, <2>2 DEF Queued, InHand, Listed
  <2>4. QED
    BY <2>3 DEF RowOnce, S
<1>15. CASE Crash
  <2>1. datumQ' = << >> /\ mgrPc' = "idle" /\ rows' = EmptyTable
    BY <1>15 DEF Crash, LinkRestart, PipeRestart
  <2>2. ~Queued(r)' /\ ~InHand(r)' /\ ~Listed(r)'
    BY <2>1, RangeEmpty DEF Queued, InHand, Listed, EmptyTable
  <2>3. QED
    BY <2>1, <2>2, EmptyOnce DEF RowOnce
<1>16. CASE \/ ReadInput \/ PubMessage \/ OfflineTrigger \/ DbInsert \/ DbDelete
            \/ UNCHANGED vars
  <2>1. UNCHANGED <<datumQ, qryQ, rows, mgrPc, held>>
    BY <1>16 DEF ReadInput, PubMessage, OfflineTrigger, DbInsert, DbDelete,
                 vars, linkVars, pipeVars
  <2>2. QED
    BY <1>3, <1>6, <1>7, <2>1
<1>17. QED
  BY <1>8, <1>9, <1>10, <1>11, <1>12, <1>13, <1>14, <1>15, <1>16
  DEF Next, Offline, Db

-----------------------------------------------------------------------------
(* What the table says of the rows of a replay. *)

InTableAfter(r, m) == r \in DOMAIN db' /\ db'[r] = m

LEMMA StillInTable ==
    ASSUME TypeOK, RepliesMatchRequests, StoreInv, [Next]_vars, ~overlapped
    PROVE  /\ \A t \in Range(qryQ) : \A r \in DOMAIN t : InTableAfter(r, t[r])
           /\ \A r \in DOMAIN rows : InTableAfter(r, rows[r])
           /\ \A d \in Range(datumQ) :
                  d.type = "Message" /\ d.id # 0 => InTableAfter(d.id, d.msg)
           /\ mgrPc = "await_pub" /\ held.id # 0 => InTableAfter(held.id, held.msg)
           /\ \A e \in Range(dbQ) :
                  e \in Deletes => DbDelete \/ InTableAfter(e.id, held.msg)
           /\ DbDelete => \A e \in Range(dbQ') : e \notin Deletes
<1>1. ReplaysMatch /\ \A r \in RowId : RowOnce(r)
  BY DEF StoreInv
<1>2. ASSUME NEW r, NEW m, InTable(r, m), DbDelete => Head(dbQ).id # r
      PROVE  InTableAfter(r, m)
  BY <1>2, KeptRow DEF InTableAfter
<1>3. ASSUME DbDelete
      PROVE  /\ mgrPc = "await_del" /\ Head(dbQ).id = held.id /\ held.id \in RowId
             /\ \A e \in Range(dbQ') : e \notin Deletes
  <2>1. dbQ \in Seq(DbReq) /\ dbQ # << >> /\ dbQ' = Tail(dbQ)
    BY <1>3 DEF TypeOK, PipeTypeOK, DbDelete, NextReqIs
  <2>2. Head(dbQ) \in Deletes /\ Head(dbQ) \in Range(dbQ)
    BY <1>3, <2>1, RangeTail, HeadTailProperties DEF DbDelete, NextReqIs, Deletes
  <2>3. OnceIn(dbQ, Deletes)
    BY DeleteUnderWay DEF RepliesMatchRequests
  <2>4. \A e \in Range(Tail(dbQ)) : e \notin Deletes
    BY <2>1, <2>2, <2>3, OnceInTail
  <2>5. mgrPc = "await_del" /\ Head(dbQ).id = held.id /\ held.id \in RowId
    BY <2>2, DeleteUnderWay DEF RepliesMatchRequests
  <2>6. QED
    BY <2>1, <2>4, <2>5
<1>4. DbDelete => ~Replied(held.id) /\ ~Listed(held.id) /\ ~Queued(held.id)
  BY <1>1, <1>3 DEF RowOnce, InHand
<1>5. \A t \in Range(qryQ) : \A r \in DOMAIN t : InTableAfter(r, t[r])
  BY <1>1, <1>2, <1>3, <1>4 DEF ReplaysMatch, Replied
<1>6. \A r \in DOMAIN rows : InTableAfter(r, rows[r])
  BY <1>1, <1>2, <1>3, <1>4 DEF ReplaysMatch, Listed
<1>7. ASSUME NEW d \in Range(datumQ), d.type = "Message", d.id # 0
      PROVE  InTableAfter(d.id, d.msg)
  <2>1. d \in Datum
    BY RangeOfSeq DEF TypeOK, LinkTypeOK
  <2>2. d \in ReplaysOf(d.id)
    BY <1>7, <2>1 DEF ReplaysOf
  <2>3. DbDelete => Head(dbQ).id # d.id
    BY <1>3, <1>4, <2>2 DEF Queued
  <2>4. QED
    BY <1>1, <1>2, <1>7, <2>3 DEF ReplaysMatch
<1>8. mgrPc = "await_pub" /\ held.id # 0 => InTableAfter(held.id, held.msg)
  BY <1>1, <1>2, <1>3 DEF ReplaysMatch
<1>9. \A e \in Range(dbQ) :
          e \in Deletes => DbDelete \/ InTableAfter(e.id, held.msg)
  BY <1>1, <1>2 DEF ReplaysMatch
<1>10. QED
  BY <1>3, <1>5, <1>6, <1>7, <1>8, <1>9

LEMMA MatchStep ==
    ASSUME TypeOK, RepliesMatchRequests, StoreInv, [Next]_vars, ~overlapped
    PROVE  ReplaysMatch'
<1> DEFINE
      Tables == /\ \A t \in Range(qryQ') : \A r \in DOMAIN t : InTableAfter(r, t[r])
                /\ \A r \in DOMAIN rows' : InTableAfter(r, rows'[r])
      Data == \A d \in Range(datumQ') :
                  d.type = "Message" /\ d.id # 0 => InTableAfter(d.id, d.msg)
      Held == mgrPc' = "await_pub" /\ held'.id # 0 => InTableAfter(held'.id, held'.msg)
      Asked == \A e \in Range(dbQ') : e \in Deletes => InTableAfter(e.id, held'.msg)
<1>1. SUFFICES Tables /\ Data /\ Held /\ Asked
  BY <1>1 DEF ReplaysMatch, InTable, InTableAfter, Deletes
<1>2. /\ \A t \in Range(qryQ) : \A r \in DOMAIN t : InTableAfter(r, t[r])
      /\ \A r \in DOMAIN rows : InTableAfter(r, rows[r])
      /\ \A d \in Range(datumQ) :
             d.type = "Message" /\ d.id # 0 => InTableAfter(d.id, d.msg)
      /\ mgrPc = "await_pub" /\ held.id # 0 => InTableAfter(held.id, held.msg)
      /\ \A e \in Range(dbQ) :
             e \in Deletes => DbDelete \/ InTableAfter(e.id, held.msg)
      /\ DbDelete => \A e \in Range(dbQ') : e \notin Deletes
  BY StillInTable
<1>3. /\ datumQ \in Seq(Datum) /\ rawQ \in Seq(Msg) /\ dbQ \in Seq(DbReq)
      /\ qryQ \in Seq(Range(qryQ)) /\ IsTable(db, Msg) /\ IsTable(rows, Msg)
  BY DEF TypeOK, LinkTypeOK, PipeTypeOK
<1>4. \A e \in Range(dbQ) : e \in Deletes => mgrPc = "await_del" /\ delQ = << >>
  BY DeleteUnderWay DEF RepliesMatchRequests
<1>5. UNCHANGED <<qryQ, rows>> => Tables
  BY <1>2
<1>6. UNCHANGED datumQ => Data
  BY <1>2
<1>7. UNCHANGED <<mgrPc, held>> => Held
  BY <1>2
<1>8. \/ UNCHANGED dbQ /\ ~DbDelete
      \/ dbQ # << >> /\ dbQ' = Tail(dbQ)
      \/ \E e \in DbReq : dbQ' = Append(dbQ, e) /\ e \notin Deletes /\ ~DbDelete
      => (UNCHANGED held => Asked) /\ (mgrPc # "await_del" => Asked)
  <2>1. ASSUME UNCHANGED dbQ /\ ~DbDelete
        PROVE  (UNCHANGED held => Asked) /\ (mgrPc # "await_del" => Asked)
    BY <1>2, <1>4, <2>1
  <2>2. ASSUME dbQ # << >>, dbQ' = Tail(dbQ)
        PROVE  (UNCHANGED held => Asked) /\ (mgrPc # "await_del" => Asked)
    <3>1. Range(dbQ) = {Head(dbQ)} \cup Range(dbQ')
      BY <1>3, <2>2, RangeTail
    <3>2. QED
      BY <1>2, <1>4, <3>1
  <2>3. ASSUME NEW e \in DbReq, dbQ' = Append(dbQ, e), e \notin Deletes, ~DbDelete
        PROVE  (UNCHANGED held => Asked) /\ (mgrPc # "await_del" => Asked)
    <3>1. Range(dbQ') = Range(dbQ) \cup {e}
      BY <1>3, <2>3, RangeAppend
    <3>2. QED
      BY <1>2, <1>4, <2>3, <3>1
  <2>4. QED
    BY <2>1, <2>2, <2>3
<1>9. ASSUME NEW d \in Datum, datumQ' = Append(datumQ, d),
             d.type = "Message" /\ d.id # 0 => InTableAfter(d.id, d.msg)
      PROVE  Data
  <2>1. Range(datumQ') = Range(datumQ) \cup {d}
    BY <1>3, <1>9, RangeAppend
  <2>2. QED
    BY <1>2, <1>9, <2>1
<1>10. ASSUME datumQ # << >>, datumQ' = Tail(datumQ)
       PROVE  Data /\ Head(datumQ) \in Range(datumQ)
  <2>1. Range(datumQ) = {Head(datumQ)} \cup Range(datumQ')
    BY <1>3, <1>10, RangeTail
  <2>2. QED
    BY <1>2, <2>1
<1>11. DbDelete => dbQ # << >> /\ dbQ' = Tail(dbQ)
  BY DEF DbDelete, NextReqIs
<1> HIDE DEF Tables, Data, Held, Asked
<1>12. UNCHANGED dbQ => ~DbDelete
  <2>1. dbQ # << >> => dbQ # Tail(dbQ)
    <3>1. dbQ # << >> => Len(Tail(dbQ)) = Len(dbQ) - 1 /\ Len(dbQ) \in Nat
      BY <1>3
    <3>2. QED
      BY <3>1
  <2>2. QED
    BY <1>11, <2>1
<1>13. CASE HandleInput
  <2>1. Data
    <3>1. CASE UNCHANGED datumQ
      BY <1>6, <3>1
    <3>2. CASE datumQ' = Append(datumQ, Message(0, Head(rawQ)))
      <4>1. Head(rawQ) \in Msg
        BY <1>3, <1>13, HeadTailProperties DEF HandleInput
      <4>2. Message(0, Head(rawQ)) \in Datum /\ Message(0, Head(rawQ)).id = 0
        BY <4>1 DEF Message, Datum
      <4>3. QED
        BY <1>9, <3>2, <4>2
    <3>3. QED
      BY <1>13, <3>1, <3>2 DEF HandleInput
  <2>2. QED
    BY <1>5, <1>7, <1>8, <1>12, <1>13, <2>1 DEF HandleInput
<1>14. CASE LinkStep
  <2>1. Data
    BY <1>6, <1>9, <1>10, <1>14, LinkData DEF TypeOK
  <2>2. QED
    BY <1>5, <1>7, <1>8, <1>12, <1>14, <2>1 DEF LinkStep, pipeVars
<1>15. CASE ManagerMessage
  <2>1. Data /\ Head(datumQ) \in Range(datumQ) /\ UNCHANGED <<qryQ, rows>>
    BY <1>10, <1>15 DEF ManagerMessage
  <2>2. Held
    <3>1. CASE held' = Head(datumQ)
      BY <1>2, <1>15, <2>1, <3>1 DEF ManagerMessage, Held
    <3>2. CASE UNCHANGED <<mgrPc, held>>
      BY <1>7, <3>2
    <3>3. QED
      BY <1>15, <3>1, <3>2 DEF ManagerMessage
  <2>3. \/ UNCHANGED dbQ
        \/ \E e \in DbReq : dbQ' = Append(dbQ, e) /\ e \notin Deletes
    BY <1>15, MessageRequests
  <2>4. ~DbDelete
    <3>1. Len(Tail(datumQ)) # Len(datumQ)
      BY <1>3, <1>15 DEF ManagerMessage
    <3>2. datumQ' # datumQ
      BY <1>15, <3>1 DEF ManagerMessage
    <3>3. QED
      BY <3>2 DEF DbDelete, linkVars
  <2>5. QED
    BY <1>5, <1>8, <1>15, <2>1, <2>2, <2>3, <2>4 DEF ManagerMessage
<1>16. CASE ManagerResult
  <2>1. /\ UNCHANGED <<datumQ, qryQ, rows>> /\ mgrPc = "await_pub"
        /\ mgrPc' # "await_pub"
    BY <1>16, ResultRequests DEF ManagerResult, linkVars
  <2>2. ~DbDelete
    BY <1>16, <2>1, <1>11, DeleteUnderWay, RangeTail, <1>3
    DEF RepliesMatchRequests, DbDelete, NextReqIs, Deletes
  <2>3. Held
    BY <2>1 DEF Held
  <2>4. Asked
    <3>1. CASE \/ UNCHANGED dbQ
               \/ \E e \in DbReq : dbQ' = Append(dbQ, e) /\ e \notin Deletes
      BY <1>8, <2>1, <2>2, <3>1
    <3>2. CASE held' = held /\ \E e \in Deletes : dbQ' = Append(dbQ, e) /\ e.id = held.id
      <4>1. PICK e \in Deletes : dbQ' = Append(dbQ, e) /\ e.id = held.id
        BY <3>2
      <4>2. e \in DbReq /\ e.id # 0
        BY DEF Deletes, DbReq, RowId
      <4>3. Range(dbQ') = Range(dbQ) \cup {e}
        BY <1>3, <4>1, <4>2, RangeAppend
      <4>4. InTableAfter(e.id, held'.msg)
        BY <1>2, <2>1, <3>2, <4>1, <4>2
      <4>5. QED
        BY <1>4, <2>1, <4>3, <4>4 DEF Asked
    <3>3. QED
      BY <1>16, <3>1, <3>2, ResultRequests
  <2>5. QED
    BY <1>5, <1>6, <2>1, <2>3, <2>4
<1>17. CASE ManagerDeleted
  <2>1. Held /\ UNCHANGED <<datumQ, qryQ, rows, dbQ>>
    BY <1>17 DEF ManagerDeleted, linkVars, Held
  <2>2. \A e \in Range(dbQ') : e \notin Deletes
    BY <1>4, <1>17, <2>1 DEF ManagerDeleted
  <2>3. QED
    BY <1>5, <1>6, <2>1, <2>2 DEF Asked
<1>18. CASE OfflineTrigger
  <2>1. QueryReq \in DbReq /\ QueryReq \notin Deletes
    BY RequestKinds DEF Queries
  <2>2. dbQ' = Append(dbQ, QueryReq) /\ UNCHANGED <<datumQ, qryQ, rows, mgrPc, held>>
    BY <1>18 DEF OfflineTrigger
  <2>3. ~DbDelete
    BY <1>18 DEF OfflineTrigger, DbDelete
  <2>4. QED
    BY <1>5, <1>6, <1>7, <1>8, <2>1, <2>2, <2>3
<1>19. CASE OfflineRows
  <2>1. Range(qryQ) = {Head(qryQ)} \cup Range(qryQ')
    BY <1>3, <1>19, RangeTail DEF OfflineRows
  <2>2. Tables
    BY <1>2, <1>19, <2>1 DEF OfflineRows, Tables
  <2>3. QED
    BY <1>6, <1>7, <1>8, <1>12, <1>19, <2>2 DEF OfflineRows, linkVars
<1>20. CASE OfflineSend
  <2>1. FirstRow(rows) \in DOMAIN rows
    BY <1>3, <1>20, FirstRowExists DEF OfflineSend, TypeOK, PipeTypeOK
  <2>2. Data
    <3>1. CASE datumQ' = Append(datumQ, Message(FirstRow(rows), rows[FirstRow(rows)]))
      <4> DEFINE d == Message(FirstRow(rows), rows[FirstRow(rows)])
      <4>1. /\ d \in Datum /\ d.id = FirstRow(rows)
            /\ d.msg = rows[FirstRow(rows)]
        BY <1>3, <2>1 DEF IsTable, RowId, Message, Datum
      <4>2. InTableAfter(d.id, d.msg)
        BY <1>2, <2>1, <4>1
      <4> HIDE DEF d
      <4>3. QED
        BY <1>9, <3>1, <4>1, <4>2 DEF d
    <3>2. CASE UNCHANGED datumQ
      BY <1>6, <3>2
    <3>3. QED
      BY <1>20, <3>1, <3>2 DEF OfflineSend
  <2>3. Tables
    <3>1. rows' = DeleteRow(rows, FirstRow(rows)) /\ UNCHANGED qryQ
      BY <1>20 DEF OfflineSend
    <3>2. \A row \in DOMAIN rows' : row \in DOMAIN rows /\ rows'[row] = rows[row]
      BY <1>3, <3>1, RowsLeft
    <3>3. QED
      BY <1>2, <3>1, <3>2 DEF Tables
  <2>4. QED
    BY <1>7, <1>8, <1>12, <1>20, <2>2, <2>3 DEF OfflineSend
<1>21. CASE DbInsert \/ DbDelete
  <2>1. /\ UNCHANGED <<datumQ, qryQ, rows, mgrPc, held>>
        /\ dbQ # << >> /\ dbQ' = Tail(dbQ)
    BY <1>21 DEF DbInsert, DbDelete, NextReqIs, linkVars
  <2>2. QED
    BY <1>5, <1>6, <1>7, <1>8, <2>1
<1>22. CASE DbQuery
  <2>1. /\ UNCHANGED <<datumQ, rows, mgrPc, held, db>>
        /\ dbQ # << >> /\ dbQ' = Tail(dbQ)
    BY <1>22 DEF DbQuery, NextReqIs, linkVars
  <2>2. Tables
    <3>1. CASE qryQ' = qryQ
      BY <1>5, <2>1, <3>1
    <3>2. CASE qryQ' = Append(qryQ, db)
      <4>1. qryQ \in Seq(Range(qryQ) \cup {db})
        BY <1>3
      <4>2. Range(qryQ') = Range(qryQ) \cup {db}
        BY <3>2, <4>1, RangeAppend
      <4>3. \A r \in DOMAIN db : InTableAfter(r, db[r])
        BY <2>1 DEF InTableAfter
      <4>4. QED
        BY <1>2, <2>1, <4>2, <4>3 DEF Tables
    <3>3. QED
      BY <1>22, <3>1, <3>2 DEF DbQuery
  <2>3. QED
    BY <1>6, <1>7, <1>8, <2>1, <2>2
<1>23. CASE Crash
  <2>1. /\ datumQ' = << >> /\ mgrPc' = "idle" /\ rows' = EmptyTable
        /\ qryQ' = << >> /\ dbQ' = << >>
    BY <1>23 DEF Crash, LinkRestart, PipeRestart
  <2>2. QED
    BY <2>1, RangeEmpty DEF Tables, Data, Held, Asked, EmptyTable
<1>24. CASE ReadInput \/ PubMessage \/ UNCHANGED vars
  BY <1>5, <1>6, <1>7, <1>8, <1>12, <1>24
  DEF ReadInput, PubMessage, vars, linkVars, pipeVars
<1>25. QED
  BY <1>13, <1>14, <1>15, <1>16, <1>17, <1>18, <1>19, <1>20, <1>21, <1>22,
     <1>23, <1>24
  DEF Next, Offline, Db

-----------------------------------------------------------------------------

LEMMA RowsStep ==
    TypeOK /\ RowsWhileSending /\ [Next]_vars => RowsWhileSending'
<1> SUFFICES ASSUME TypeOK, RowsWhileSending, [Next]_vars
             PROVE  RowsWhileSending'
  OBVIOUS
<1>1. CASE UNCHANGED <<offPc, rows>>
  BY <1>1 DEF RowsWhileSending
<1>2. CASE OfflineTrigger \/ OfflineRows
  BY <1>2 DEF RowsWhileSending, OfflineTrigger, OfflineRows
<1>3. CASE OfflineSend
  <2>1. IsTable(rows, Msg)
    BY DEF TypeOK, PipeTypeOK
  <2>2. rows' = DeleteRow(rows, FirstRow(rows))
    BY <1>3 DEF OfflineSend
  <2>3. DOMAIN rows' = DOMAIN rows \ {FirstRow(rows)}
    BY <2>1, <2>2, DeleteRowTable
  <2>4. QED
    BY <1>3, <2>3 DEF RowsWhileSending, OfflineSend
<1>4. CASE Crash
  BY <1>4 DEF RowsWhileSending, Crash, PipeRestart, EmptyTable
<1>5. CASE \/ ReadInput \/ HandleInput \/ ManagerMessage \/ ManagerResult
           \/ ManagerDeleted \/ PubMessage \/ Db \/ LinkStep \/ UNCHANGED vars
  BY <1>1, <1>5
  DEF ReadInput, HandleInput, ManagerMessage, ManagerResult, ManagerDeleted,
      PubMessage, Db, DbInsert, DbQuery, DbDelete, LinkStep, vars, pipeVars
<1>6. QED
  BY <1>2, <1>3, <1>4, <1>5 DEF Next, Offline

(* A DELETE follows a positive result. *)
LEMMA SentStep ==
    ASSUME TypeOK, RepliesMatchRequests, ResultIsTrue, DeletedWasSent, [Next]_vars
    PROVE  DeletedWasSent'
<1>1. dbQ \in Seq(DbReq) /\ resQ \in Seq(BOOLEAN) /\ sent \in [Msg -> Nat]
  BY DEF TypeOK, PipeTypeOK
<1>2. \A e \in Range(dbQ) : e \in Deletes =>
          mgrPc = "await_del" /\ delQ = << >> /\ sent'[held.msg] > 0
  <2>1. mgrPc = "await_del" => held.msg \in Msg
    BY DEF TypeOK, PipeTypeOK, Datum
  <2>2. mgrPc = "await_del" /\ sent[held.msg] > 0 => sent'[held.msg] > 0
    <3>1. \A m \in Msg : sent[m] \in Nat /\ sent'[m] \in Nat /\ sent[m] <= sent'[m]
      BY <1>1, HistoryGrows, TypeStep DEF TypeOK, PipeTypeOK
    <3>2. QED
      BY <2>1, <3>1
  <2>3. QED
    BY <2>2, DeleteUnderWay DEF DeletedWasSent, RepliesMatchRequests
<1>3. ASSUME \A e \in Range(dbQ') : e \in Deletes => e \in Range(dbQ),
             UNCHANGED held \/ mgrPc # "await_del" \/ delQ # << >>
      PROVE  DeletedWasSent'
  BY <1>2, <1>3 DEF DeletedWasSent, Deletes
<1>4. ASSUME NEW e \in DbReq, dbQ' = Append(dbQ, e)
      PROVE  Range(dbQ') = Range(dbQ) \cup {e}
  BY <1>1, <1>4, RangeAppend
<1>5. CASE UNCHANGED dbQ /\ (UNCHANGED held \/ ManagerDeleted)
  BY <1>3, <1>5 DEF ManagerDeleted
<1>6. CASE ManagerMessage
  <2>1. mgrPc = "idle"
    BY <1>6, MessageRequests
  <2>2. \A e \in Range(dbQ') : e \in Deletes => e \in Range(dbQ)
    BY <1>4, <1>6, MessageRequests
  <2>3. QED
    BY <1>3, <2>1, <2>2
<1>7. CASE ManagerResult
  <2>1. CASE \/ UNCHANGED dbQ
             \/ \E e \in DbReq : dbQ' = Append(dbQ, e) /\ e \notin Deletes
    <3>1. mgrPc = "await_pub"
      BY <1>7, ResultRequests
    <3>2. \A e \in Range(dbQ') : e \in Deletes => e \in Range(dbQ)
      BY <1>4, <2>1
    <3>3. QED
      BY <1>3, <3>1, <3>2
  <2>2. CASE /\ mgrPc' = "await_del" /\ held' = held
             /\ \E e \in Deletes : dbQ' = Append(dbQ, e)
    <3>1. resQ # << >> /\ mgrPc = "await_pub" /\ UNCHANGED sent
      BY <1>7 DEF ManagerResult
    <3>2. Head(resQ) \in BOOLEAN /\ Head(resQ) \in Range(resQ)
      BY <1>1, <3>1, HeadTailProperties, RangeTail
    <3>3. Head(resQ) = TRUE
      <4>1. CASE Head(resQ) = FALSE
        <5>1. WaitsForReply(AfterPublish(FALSE, held))
          BY <1>7, <2>2, <4>1 DEF ManagerResult
        <5>2. \/ AfterPublish(FALSE, held) = << >>
              \/ AfterPublish(FALSE, held) = <<InsertReq(held.msg)>>
          BY DEF AfterPublish
        <5>3. ~WaitsForReply(<< >>) /\ ~WaitsForReply(<<InsertReq(held.msg)>>)
          BY DEF WaitsForReply, InsertReq
        <5>4. QED
          BY <5>1, <5>2, <5>3
      <4>2. QED
        BY <3>2, <4>1
    <3>4. sent'[held'.msg] > 0
      BY <2>2, <3>1, <3>2, <3>3 DEF ResultIsTrue
    <3>5. QED
      BY <3>4 DEF DeletedWasSent
  <2>3. QED
    BY <1>7, <2>1, <2>2, ResultRequests
<1>8. CASE OfflineTrigger
  <2>1. QueryReq \in DbReq /\ QueryReq \notin Deletes
    BY RequestKinds DEF Queries
  <2>2. dbQ' = Append(dbQ, QueryReq) /\ UNCHANGED held
    BY <1>8 DEF OfflineTrigger
  <2>3. \A e \in Range(dbQ') : e \in Deletes => e \in Range(dbQ)
    BY <1>4, <2>1, <2>2
  <2>4. QED
    BY <1>3, <2>2, <2>3
<1>9. CASE Db
  <2>1. dbQ # << >> /\ dbQ' = Tail(dbQ) /\ UNCHANGED held
    BY <1>9 DEF Db, DbInsert, DbQuery, DbDelete, NextReqIs
  <2>2. Range(dbQ) = {Head(dbQ)} \cup Range(dbQ')
    BY <1>1, <2>1, RangeTail
  <2>3. QED
    BY <1>3, <2>1, <2>2
<1>10. CASE Crash
  <2>1. Range(dbQ') = {}
    BY <1>10, RangeEmpty DEF Crash, PipeRestart
  <2>2. QED
    BY <2>1 DEF DeletedWasSent
<1>11. CASE \/ ReadInput \/ HandleInput \/ PubMessage \/ OfflineRows
            \/ OfflineSend \/ LinkStep \/ UNCHANGED vars
  BY <1>5, <1>11
  DEF ReadInput, HandleInput, PubMessage, OfflineRows, OfflineSend, LinkStep,
      vars, pipeVars
<1>12. QED
  BY <1>5, <1>6, <1>7, <1>8, <1>9, <1>10, <1>11 DEF Next, Offline,
     ManagerDeleted

(* A row leaves the table only when its message was published. *)
LEMMA StoredStaysStep ==
    ASSUME TypeOK, RepliesMatchRequests, StoreInv, [Next]_vars,
           ~overlapped, ~overlapped'
    PROVE  StoredUntilSent'
<1> SUFFICES ASSUME NEW m \in Msg, "stored" \in fate'[m], sent'[m] = 0
             PROVE  \E row \in DOMAIN db' : db'[row] = m
  BY DEF StoredUntilSent
<1>1. /\ dbQ \in Seq(DbReq) /\ IsTable(db, Msg) /\ sent[m] \in Nat
      /\ fate \in [Msg -> SUBSET Fates]
  BY DEF TypeOK, PipeTypeOK
<1>2. sent[m] = 0
  BY <1>1, HistoryGrows
<1>3. CASE "stored" \in fate[m]
  <2>1. PICK row \in DOMAIN db : db[row] = m
    BY <1>2, <1>3 DEF StoreInv, StoredUntilSent
  <2>2. DbDelete => Head(dbQ).id # row
    <3>1. SUFFICES ASSUME DbDelete, Head(dbQ).id = row PROVE FALSE
      OBVIOUS
    <3>2. Head(dbQ) \in Deletes /\ Head(dbQ) \in Range(dbQ)
      BY <1>1, <3>1, RangeTail, HeadTailProperties DEF DbDelete, NextReqIs, Deletes
    <3>3. InTable(row, held.msg) /\ sent[held.msg] > 0
      BY <3>1, <3>2 DEF StoreInv, ReplaysMatch, DeletedWasSent
    <3>4. QED
      BY <1>2, <2>1, <3>3 DEF InTable
  <2>3. QED
    BY <2>1, <2>2, KeptRow DEF InTable
<1>4. CASE "stored" \notin fate[m]
  <2>1. UNCHANGED fate \/ HandleInput \/ DbInsert \/ Crash
    BY DEF Next, ReadInput, ManagerMessage, ManagerResult, ManagerDeleted,
           PubMessage, Offline, OfflineTrigger, OfflineRows, OfflineSend, Db,
           DbQuery, DbDelete, LinkStep, vars, pipeVars
  <2>2. DbInsert /\ Befalls(Head(dbQ).msg, "stored") /\ Head(dbQ).msg = m
    BY <1>1, <1>4, <2>1 DEF HandleInput, DbInsert, Crash, Befalls
  <2>3. db' = InsertRow(db, m)
    <3>1. fate' # [fate EXCEPT ![m] = @ \cup {"unsaved"}]
      BY <1>1, <1>4
    <3>2. QED
      BY <2>2, <3>1 DEF DbInsert, Befalls
  <2>4. QED
    BY <1>1, <2>3, KeptAfterInsert
<1>5. QED
  BY <1>3, <1>4

LEMMA StoreStep ==
    ASSUME TypeOK, RepliesMatchRequests, ResultIsTrue, StoreInv, [Next]_vars
    PROVE  StoreInv'
<1>1. RowsWhileSending' /\ DeletedWasSent'
  BY RowsStep, SentStep DEF StoreInv
<1>2. ~overlapped' => ~overlapped
  BY DEF Next, ReadInput, HandleInput, ManagerMessage, ManagerResult,
         ManagerDeleted, PubMessage, Offline, OfflineTrigger, OfflineRows,
         OfflineSend, Db, DbInsert, DbQuery, DbDelete, LinkStep, Crash, vars,
         pipeVars
<1>3. ASSUME ~overlapped'
      PROVE  /\ \A r \in RowId : RowOnce(r)'
             /\ ReplaysMatch' /\ StoredUntilSent'
  BY <1>2, <1>3, RowStep, MatchStep, StoredStaysStep
<1>4. QED
  BY <1>1, <1>3 DEF StoreInv

LEMMA StoreInit == Init => StoreInv
<1> SUFFICES ASSUME Init PROVE StoreInv
  OBVIOUS
<1>1. /\ datumQ = << >> /\ qryQ = << >> /\ dbQ = << >> /\ rows = EmptyTable
      /\ mgrPc = "idle" /\ fate = [m \in Msg |-> {}]
  BY DEF Init, LinkInit, LinkBoot, PipeBoot
<1>2. DOMAIN rows = {}
  BY <1>1 DEF EmptyTable
<1>3. RowsWhileSending /\ DeletedWasSent
  BY <1>1, <1>2, RangeEmpty DEF RowsWhileSending, DeletedWasSent
<1>4. ReplaysMatch
  BY <1>1, <1>2, RangeEmpty DEF ReplaysMatch
<1>5. \A r \in RowId : RowOnce(r)
  BY <1>1, <1>2, RangeEmpty, EmptyOnce
  DEF RowOnce, Replied, Listed, Queued, InHand
<1>6. StoredUntilSent
  BY <1>1 DEF StoredUntilSent
<1>7. QED
  BY <1>3, <1>4, <1>5, <1>6 DEF StoreInv

(* A message that was stored stays in the table until it was published: the
   replay asks for its row, publishes it and deletes it by its id, across the
   manager, the offline data thread and the database thread, and at any point
   the link, a publish or the process may fail (main.rs:610-649, 716-764).
   It holds while no QUERY ran during an earlier replay.                   *)
THEOREM StoredStays == Spec => []StoredUntilSent
<1>1. TypeOK /\ RepliesMatchRequests /\ ResultIsTrue /\ StoreInv /\ [Next]_vars
          => StoreInv'
  BY StoreStep
<1>2. TypeOK /\ RepliesMatchRequests /\ LossInv /\ [Next]_vars => LossInv'
  BY LossStep, ReplayStep, ResultStep DEF LossInv, RepliesMatchRequests
<1>3. LossInv => ResultIsTrue
  BY DEF LossInv
<1>4. StoreInv => StoredUntilSent
  BY DEF StoreInv, StoredUntilSent
<1>5. QED
  BY <1>1, <1>2, <1>3, <1>4, LossInit, StoreInit, TypeCorrect, CallsAnswered,
     PTL DEF Spec

-----------------------------------------------------------------------------
(* A message is uploaded twice only for the reasons
   named in DuplicatesExplained, and that Gateway implements
   StoreAndForward.

   Both rest on FreshInv: as long as a message has not been stored, it is
   in exactly one place, and its history is empty but for a publish whose
   positive result the manager has not taken yet. *)

InRaw(m) == m \in Range(rawQ)
InData(m) == Message(0, m) \in Range(datumQ)
InManager(m) == mgrPc # "idle" /\ held = Message(0, m)
InInsert(m) == InsertReq(m) \in Range(dbQ)

PositiveResult == resQ # << >> /\ Head(resQ) = TRUE

AtOnePlace(m) ==
    /\ OnceIn(rawQ, {m})
    /\ OnceIn(datumQ, {Message(0, m)})
    /\ OnceIn(dbQ, {InsertReq(m)})
    /\ InRaw(m) => ~InData(m) /\ ~InManager(m) /\ ~InInsert(m)
    /\ InData(m) => ~InManager(m) /\ ~InInsert(m)
    /\ InManager(m) => ~InInsert(m)

FreshIsNew(m) ==
    /\ InRaw(m) \/ InData(m) \/ InManager(m) \/ InInsert(m)
           => m <= nread /\ fate[m] = {}
    /\ InRaw(m) \/ InData(m) \/ InInsert(m) => sent[m] = 0
    /\ InManager(m) /\ sent[m] > 0 => PositiveResult
    /\ m > nread => fate[m] = {} /\ sent[m] = 0

OneRow(m) == \A r, s \in DOMAIN db : db[r] = m /\ db[s] = m => r = s

FreshInv(m) == AtOnePlace(m) /\ FreshIsNew(m) /\ OneRow(m)

-----------------------------------------------------------------------------

LEMMA HeadOne == ASSUME NEW e PROVE Head(<<e>>) = e /\ <<e>> # << >>
  OBVIOUS

LEMMA FreshPlaces ==
    ASSUME NEW m
    PROVE  FreshInFlight(m) <=> InRaw(m) \/ InData(m) \/ InManager(m) \/ InInsert(m)
  BY DEF FreshInFlight, InRaw, InData, InManager, InInsert, Range

LEMMA FreshDatum ==
    /\ \A m \in Msg : /\ Message(0, m) \in Datum /\ Message(0, m).type = "Message"
                      /\ Message(0, m).id = 0 /\ Message(0, m).msg = m
                      /\ InsertReq(m) \in DbReq /\ InsertReq(m).msg = m
                      /\ InsertReq(m).op = "INSERT"
    /\ \A d \in Datum : d.type = "Message" =>
           d.msg \in Msg /\ d.id \in Nat /\ (d.id = 0 => d = Message(0, d.msg))
    /\ \A e \in DbReq : e.op = "INSERT" => e.msg \in Msg /\ e = InsertReq(e.msg)
<1>1. \A m \in Msg : /\ Message(0, m) \in Datum /\ Message(0, m).type = "Message"
                     /\ Message(0, m).id = 0 /\ Message(0, m).msg = m
                     /\ InsertReq(m) \in DbReq /\ InsertReq(m).msg = m
                     /\ InsertReq(m).op = "INSERT"
  BY DEF Message, Datum, InsertReq, DbReq
<1>2. \A d \in Datum : d.type = "Message" => d \in [type : {"Message"}, id : Nat, msg : Msg]
  BY DEF Datum
<1>3. \A d \in [type : {"Message"}, id : Nat, msg : Msg] :
          d.msg \in Msg /\ d.id \in Nat /\ (d.id = 0 => d = Message(0, d.msg))
  BY DEF Message
<1>4. \A e \in DbReq : e.op = "INSERT" => e \in [op : {"INSERT"}, msg : Msg]
  BY DEF DbReq
<1>5. \A e \in [op : {"INSERT"}, msg : Msg] : e.msg \in Msg /\ e = InsertReq(e.msg)
  BY DEF InsertReq
<1>6. QED
  BY <1>1, <1>2, <1>3, <1>4, <1>5

(* The four outcomes of a publish, for a fresh datum and for a row. *)
LEMMA ResultOutcome ==
    ASSUME TypeOK, ManagerResult
    PROVE  /\ held.type = "Message" /\ held \in Datum /\ Head(resQ) \in BOOLEAN
           /\ \/ /\ held.id = 0 /\ Head(resQ) = TRUE
                 /\ dbQ' = dbQ /\ mgrPc' = "idle"
              \/ /\ held.id = 0 /\ Head(resQ) = FALSE
                 /\ dbQ' = Append(dbQ, InsertReq(held.msg)) /\ mgrPc' = "idle"
              \/ /\ held.id # 0 /\ Head(resQ) = FALSE
                 /\ dbQ' = dbQ /\ mgrPc' = "idle"
              \/ /\ held.id \in RowId /\ Head(resQ) = TRUE
                 /\ dbQ' = Append(dbQ, DeleteReq(held.id))
                 /\ mgrPc' = "await_del" /\ held' = held
<1> DEFINE asked == AfterPublish(Head(resQ), held)
<1>1. Head(resQ) \in BOOLEAN
  BY HeadTailProperties DEF ManagerResult, TypeOK, PipeTypeOK
<1>2. held \in Datum /\ held.type = "Message" /\ dbQ \in Seq(DbReq)
  BY DEF ManagerResult, TypeOK, PipeTypeOK
<1>3. /\ dbQ' = dbQ \o asked
      /\ mgrPc' = IF WaitsForReply(asked) THEN "await_del" ELSE "idle"
      /\ held' = IF WaitsForReply(asked) THEN held ELSE NoDatum
  BY DEF ManagerResult
<1>4. /\ \A e \in DbReq : dbQ \o <<e>> = Append(dbQ, e)
      /\ dbQ \o << >> = dbQ
  BY <1>2, AppendIsConcat, ConcatEmptySeq
<1>5. /\ held.id \in Nat /\ held.msg \in Msg
      /\ InsertReq(held.msg) \in DbReq
  BY <1>2, FreshDatum
<1>6. /\ ~WaitsForReply(<< >>) /\ ~WaitsForReply(<<InsertReq(held.msg)>>)
      /\ WaitsForReply(<<DeleteReq(held.id)>>)
  BY DEF WaitsForReply, InsertReq, DeleteReq
<1>7. CASE held.id = 0 /\ Head(resQ) = TRUE
  <2>1. asked = << >>
    BY <1>7 DEF AfterPublish
  <2>2. QED
    BY <1>1, <1>2, <1>3, <1>4, <1>6, <1>7, <2>1
<1>8. CASE held.id = 0 /\ Head(resQ) = FALSE
  <2>1. asked = <<InsertReq(held.msg)>>
    BY <1>8 DEF AfterPublish
  <2>2. QED
    BY <1>1, <1>2, <1>3, <1>4, <1>5, <1>6, <1>8, <2>1
<1>9. CASE held.id # 0 /\ Head(resQ) = FALSE
  <2>1. asked = << >>
    BY <1>9 DEF AfterPublish
  <2>2. QED
    BY <1>1, <1>2, <1>3, <1>4, <1>6, <1>9, <2>1
<1>10. CASE held.id # 0 /\ Head(resQ) = TRUE
  <2>1. asked = <<DeleteReq(held.id)>>
    BY <1>10 DEF AfterPublish
  <2>2. held.id \in RowId /\ DeleteReq(held.id) \in DbReq
    BY <1>5, <1>10 DEF RowId, DeleteReq, DbReq
  <2>3. QED
    BY <1>1, <1>2, <1>3, <1>4, <1>6, <1>10, <2>1, <2>2
<1>11. Head(resQ) = TRUE \/ Head(resQ) = FALSE
  BY <1>1
<1>12. QED
  BY <1>7, <1>8, <1>9, <1>10, <1>11

(* What a publish counts for: the datum in the manager's hands. *)
LEMMA PublishedIsHeld ==
    ASSUME TypeOK, PublishCall, PubMessage
    PROVE  /\ mgrPc = "await_pub" /\ resQ = << >> /\ Head(pubQ) = held.msg
           /\ held.msg \in Msg /\ held.id \in Nat
           /\ held.id = 0 => InManager(held.msg)
<1>1. pubQ \in Seq(Msg \cup {NoMsg}) /\ pubQ # << >> /\ Head(pubQ) # NoMsg
  BY DEF TypeOK, LinkTypeOK, PubMessage
<1>2. 1 \in DOMAIN pubQ /\ pubQ[1] = Head(pubQ)
  BY <1>1
<1>3. mgrPc = "await_pub" /\ resQ = << >> /\ Head(pubQ) = held.msg
  BY <1>1, <1>2 DEF PublishCall, IsMsg
<1>4. held \in Datum /\ held.type = "Message"
  BY <1>3 DEF TypeOK, PipeTypeOK
<1>5. QED
  BY <1>3, <1>4, FreshDatum DEF InManager

-----------------------------------------------------------------------------
(* A fresh message moves from one place to the next. *)
LEMMA FreshStep ==
    ASSUME TypeOK, PublishCall, ReplayedWereStored, [Next]_vars,
           NEW m \in Msg, AtOnePlace(m), FreshIsNew(m)
    PROVE  AtOnePlace(m)' /\ FreshIsNew(m)'
<1>1. /\ datumQ \in Seq(Datum) /\ rawQ \in Seq(Msg) /\ dbQ \in Seq(DbReq)
      /\ resQ \in Seq(BOOLEAN) /\ nread \in Nat /\ m \in Nat
      /\ fate \in [Msg -> SUBSET Fates] /\ sent \in [Msg -> Nat]
  BY CloudLinkAssumption DEF TypeOK, LinkTypeOK, PipeTypeOK, Msg
<1>2. /\ OnceIn(rawQ, {m}) /\ OnceIn(datumQ, {Message(0, m)})
      /\ OnceIn(dbQ, {InsertReq(m)})
      /\ InRaw(m) => ~InData(m) /\ ~InManager(m) /\ ~InInsert(m)
      /\ InData(m) => ~InManager(m) /\ ~InInsert(m)
      /\ InManager(m) => ~InInsert(m)
  BY DEF AtOnePlace
<1>3. /\ InRaw(m) \/ InData(m) \/ InManager(m) \/ InInsert(m) => m <= nread /\ fate[m] = {}
      /\ InRaw(m) \/ InData(m) \/ InInsert(m) => sent[m] = 0
      /\ InManager(m) /\ sent[m] > 0 => PositiveResult
      /\ m > nread => fate[m] = {} /\ sent[m] = 0
  BY DEF FreshIsNew
<1>4. /\ (UNCHANGED resQ => (PositiveResult => PositiveResult'))
      /\ (UNCHANGED rawQ => OnceIn(rawQ', {m}) /\ (InRaw(m)' <=> InRaw(m)))
      /\ (UNCHANGED datumQ => OnceIn(datumQ', {Message(0, m)}) /\ (InData(m)' <=> InData(m)))
      /\ (UNCHANGED dbQ => OnceIn(dbQ', {InsertReq(m)}) /\ (InInsert(m)' <=> InInsert(m)))
      /\ (UNCHANGED <<mgrPc, held>> => (InManager(m)' <=> InManager(m)))
  BY <1>2 DEF InRaw, InData, InInsert, InManager, PositiveResult
<1>5. ASSUME rawQ # << >>, rawQ' = Tail(rawQ)
      PROVE  /\ OnceIn(rawQ', {m}) /\ (InRaw(m)' => InRaw(m))
             /\ Head(rawQ) = m => InRaw(m) /\ ~InRaw(m)'
             /\ Head(rawQ) # m => (InRaw(m)' <=> InRaw(m))
  <2>1. Range(rawQ) = {Head(rawQ)} \cup Range(rawQ')
    BY <1>1, <1>5, RangeTail
  <2>2. /\ OnceIn(rawQ', {m})
        /\ Head(rawQ) \in {m} => \A d \in Range(rawQ') : d \notin {m}
    BY <1>1, <1>2, <1>5, OnceInTail
  <2>3. QED
    BY <2>1, <2>2 DEF InRaw
<1>6. ASSUME datumQ # << >>, datumQ' = Tail(datumQ)
      PROVE  /\ OnceIn(datumQ', {Message(0, m)})
             /\ Head(datumQ) = Message(0, m) => InData(m) /\ ~InData(m)'
             /\ Head(datumQ) # Message(0, m) => (InData(m)' <=> InData(m))
  <2>1. Range(datumQ) = {Head(datumQ)} \cup Range(datumQ')
    BY <1>1, <1>6, RangeTail
  <2>2. /\ OnceIn(datumQ', {Message(0, m)})
        /\ Head(datumQ) \in {Message(0, m)} =>
               \A d \in Range(datumQ') : d \notin {Message(0, m)}
    BY <1>1, <1>2, <1>6, OnceInTail
  <2>3. QED
    BY <2>1, <2>2 DEF InData
<1>7. ASSUME dbQ # << >>, dbQ' = Tail(dbQ)
      PROVE  /\ OnceIn(dbQ', {InsertReq(m)})
             /\ Head(dbQ) = InsertReq(m) => InInsert(m) /\ ~InInsert(m)'
             /\ Head(dbQ) # InsertReq(m) => (InInsert(m)' <=> InInsert(m))
  <2>1. Range(dbQ) = {Head(dbQ)} \cup Range(dbQ')
    BY <1>1, <1>7, RangeTail
  <2>2. /\ OnceIn(dbQ', {InsertReq(m)})
        /\ Head(dbQ) \in {InsertReq(m)} =>
               \A d \in Range(dbQ') : d \notin {InsertReq(m)}
    BY <1>1, <1>2, <1>7, OnceInTail
  <2>3. QED
    BY <2>1, <2>2 DEF InInsert
<1>8. ASSUME NEW d \in Datum, datumQ' = Append(datumQ, d),
             d = Message(0, m) => ~InData(m)
      PROVE  /\ OnceIn(datumQ', {Message(0, m)})
             /\ InData(m)' <=> InData(m) \/ d = Message(0, m)
  <2>1. Range(datumQ') = Range(datumQ) \cup {d}
    BY <1>1, <1>8, RangeAppend
  <2>2. d \in {Message(0, m)} => \A x \in Range(datumQ) : x \notin {Message(0, m)}
    BY <1>8 DEF InData
  <2>3. OnceIn(datumQ', {Message(0, m)})
    BY <1>1, <1>2, <1>8, <2>2, OnceInAppend
  <2>4. QED
    BY <2>1, <2>3 DEF InData
<1>9. ASSUME NEW e \in DbReq, dbQ' = Append(dbQ, e),
             e = InsertReq(m) => ~InInsert(m)
      PROVE  /\ OnceIn(dbQ', {InsertReq(m)})
             /\ InInsert(m)' <=> InInsert(m) \/ e = InsertReq(m)
  <2>1. Range(dbQ') = Range(dbQ) \cup {e}
    BY <1>1, <1>9, RangeAppend
  <2>2. e \in {InsertReq(m)} => \A x \in Range(dbQ) : x \notin {InsertReq(m)}
    BY <1>9 DEF InInsert
  <2>3. OnceIn(dbQ', {InsertReq(m)})
    BY <1>1, <1>2, <1>9, <2>2, OnceInAppend
  <2>4. QED
    BY <2>1, <2>3 DEF InInsert
<1>10. ASSUME OnceIn(rawQ', {m}), OnceIn(datumQ', {Message(0, m)}),
              OnceIn(dbQ', {InsertReq(m)}),
              UNCHANGED <<nread, fate, sent>>,
              \/ /\ (InRaw(m)' <=> InRaw(m)) /\ (InData(m)' <=> InData(m))
                 /\ (InInsert(m)' <=> InInsert(m)) /\ (InManager(m)' <=> InManager(m))
                 /\ (PositiveResult => PositiveResult') \/ ~InManager(m)
              \/ InRaw(m) /\ ~InRaw(m)' /\ ~InManager(m)' /\ ~InInsert(m)'
              \/ InData(m) /\ ~InRaw(m)' /\ ~InData(m)' /\ ~InInsert(m)'
              \/ /\ InData(m) \/ (InManager(m) /\ sent[m] = 0)
                 /\ ~InRaw(m)' /\ ~InData(m)' /\ ~InManager(m)'
              \/ ~InRaw(m)' /\ ~InData(m)' /\ ~InManager(m)' /\ ~InInsert(m)'
       PROVE  AtOnePlace(m)' /\ FreshIsNew(m)'
  <2>1. AtOnePlace(m)'
    BY <1>2, <1>10 DEF AtOnePlace
  <2>2. /\ InRaw(m)' \/ InData(m)' \/ InManager(m)' \/ InInsert(m)' =>
               InRaw(m) \/ InData(m) \/ InManager(m) \/ InInsert(m)
        /\ InRaw(m)' \/ InData(m)' \/ InInsert(m)' => sent[m] = 0
        /\ InManager(m)' /\ sent[m] > 0 => PositiveResult'
    BY <1>3, <1>10
  <2>3. QED
    BY <1>3, <1>10, <2>1, <2>2 DEF FreshIsNew
<1>11. ASSUME ~InRaw(m)', ~InData(m)', ~InManager(m)', ~InInsert(m)',
              OnceIn(rawQ', {m}), OnceIn(datumQ', {Message(0, m)}),
              OnceIn(dbQ', {InsertReq(m)}), m <= nread, UNCHANGED nread
       PROVE  AtOnePlace(m)' /\ FreshIsNew(m)'
  BY <1>1, <1>11 DEF AtOnePlace, FreshIsNew
<1>12. /\ Message(0, m) \in Datum /\ Message(0, m).type = "Message"
       /\ Message(0, m).id = 0 /\ Message(0, m).msg = m
       /\ InsertReq(m) \in DbReq /\ InsertReq(m).op = "INSERT" /\ InsertReq(m).msg = m
  BY FreshDatum
<1>13. CASE \/ UNCHANGED <<rawQ, datumQ, dbQ, mgrPc, held, resQ, nread, fate, sent>>
  BY <1>4, <1>10, <1>13
<1>14. CASE ReadInput
  <2>1. nread' = nread + 1 /\ rawQ' = Append(rawQ, nread + 1)
        /\ UNCHANGED <<datumQ, dbQ, mgrPc, held, resQ, fate, sent>>
    BY <1>14 DEF ReadInput, linkVars
  <2>2. nread + 1 \in Msg
    BY <1>1, <1>14, CloudLinkAssumption DEF ReadInput, Msg
  <2>3. Range(rawQ') = Range(rawQ) \cup {nread + 1}
    BY <1>1, <2>1, <2>2, RangeAppend
  <2>4. InRaw(m)' <=> InRaw(m) \/ m = nread + 1
    BY <2>3 DEF InRaw
  <2>5. nread + 1 \in {m} => \A x \in Range(rawQ) : x \notin {m}
    BY <1>1, <1>3 DEF InRaw
  <2>6. OnceIn(rawQ', {m})
    BY <1>1, <1>2, <2>1, <2>2, <2>5, OnceInAppend
  <2>7. /\ (InData(m)' <=> InData(m)) /\ (InInsert(m)' <=> InInsert(m))
        /\ (InManager(m)' <=> InManager(m))
    BY <1>4, <2>1
  <2>8. AtOnePlace(m)'
    BY <1>1, <1>2, <1>3, <1>4, <2>1, <2>4, <2>6, <2>7 DEF AtOnePlace
  <2>9. FreshIsNew(m)'
    BY <1>1, <1>3, <1>4, <2>1, <2>4, <2>7 DEF FreshIsNew
  <2>10. QED
    BY <2>8, <2>9
<1>15. CASE HandleInput
  <2>1. rawQ # << >> /\ rawQ' = Tail(rawQ)
        /\ UNCHANGED <<dbQ, mgrPc, held, resQ, nread, sent>>
    BY <1>15 DEF HandleInput
  <2>2. Head(rawQ) \in Msg
    BY <1>1, <2>1, HeadTailProperties
  <2>3. CASE Befalls(Head(rawQ), "rejected") /\ UNCHANGED datumQ
    <3>1. CASE Head(rawQ) = m
      BY <1>1, <1>2, <1>3, <1>4, <1>5, <1>11, <2>1, <2>3, <3>1
    <3>2. CASE Head(rawQ) # m
      <4>1. fate'[m] = fate[m]
        BY <1>1, <2>2, <2>3, <3>2 DEF Befalls
      <4>2. /\ (InRaw(m)' <=> InRaw(m)) /\ (InData(m)' <=> InData(m))
            /\ (InInsert(m)' <=> InInsert(m)) /\ (InManager(m)' <=> InManager(m))
        BY <1>4, <1>5, <2>1, <2>3, <3>2
          <4>3. AtOnePlace(m)'
        BY <1>2, <1>4, <1>5, <2>1, <2>3, <4>2 DEF AtOnePlace
      <4>4. QED
        BY <1>3, <1>4, <2>1, <4>1, <4>2, <4>3 DEF FreshIsNew
    <3>3. QED
      BY <3>1, <3>2
  <2>4. CASE datumQ' = Append(datumQ, Message(0, Head(rawQ))) /\ UNCHANGED fate
    <3>1. /\ Message(0, Head(rawQ)) \in Datum
          /\ Message(0, Head(rawQ)) = Message(0, m) <=> Head(rawQ) = m
      BY <2>2, FreshDatum
    <3>2. Message(0, Head(rawQ)) = Message(0, m) => ~InData(m)
      BY <1>2, <1>5, <2>1, <3>1
    <3>3. /\ OnceIn(datumQ', {Message(0, m)})
          /\ InData(m)' <=> InData(m) \/ Head(rawQ) = m
      BY <1>8, <2>4, <3>1, <3>2
    <3>4. CASE Head(rawQ) = m
      BY <1>2, <1>4, <1>5, <1>10, <2>1, <2>4, <3>3, <3>4
    <3>5. CASE Head(rawQ) # m
      BY <1>4, <1>5, <1>10, <2>1, <2>4, <3>3, <3>5
    <3>6. QED
      BY <3>4, <3>5
  <2>5. QED
    BY <1>15, <2>3, <2>4 DEF HandleInput
<1>16. CASE ManagerMessage
  <2>1. /\ mgrPc = "idle" /\ datumQ # << >> /\ datumQ' = Tail(datumQ)
        /\ Head(datumQ).type = "Message"
        /\ UNCHANGED <<rawQ, resQ, nread, fate, sent>>
    BY <1>16 DEF ManagerMessage
  <2>2. Head(datumQ) \in Datum
    BY <1>1, <2>1, HeadTailProperties
  <2>3. ~InManager(m)
    BY <2>1 DEF InManager
  <2>4. CASE mgrPc' = "await_pub" /\ held' = Head(datumQ) /\ dbQ' = dbQ
    <3>1. InManager(m)' <=> Head(datumQ) = Message(0, m)
      BY <2>4 DEF InManager
    <3>2. CASE Head(datumQ) = Message(0, m)
      BY <1>2, <1>4, <1>6, <1>10, <2>1, <2>4, <3>2
    <3>3. CASE Head(datumQ) # Message(0, m)
      BY <1>4, <1>6, <1>10, <2>1, <2>3, <2>4, <3>1, <3>3
    <3>4. QED
      BY <3>2, <3>3
  <2>5. CASE /\ Head(datumQ).id = 0 /\ UNCHANGED <<mgrPc, held>>
             /\ dbQ' = Append(dbQ, InsertReq(Head(datumQ).msg))
    <3>1. /\ Head(datumQ).msg \in Msg /\ Head(datumQ) = Message(0, Head(datumQ).msg)
      BY <2>1, <2>2, <2>5, FreshDatum
    <3>2. /\ InsertReq(Head(datumQ).msg) \in DbReq
          /\ InsertReq(Head(datumQ).msg) = InsertReq(m) <=> Head(datumQ).msg = m
          /\ Head(datumQ) = Message(0, m) <=> Head(datumQ).msg = m
      BY <3>1, FreshDatum
    <3>3. InsertReq(Head(datumQ).msg) = InsertReq(m) => ~InInsert(m)
      BY <1>2, <1>6, <2>1, <3>2
    <3>4. /\ OnceIn(dbQ', {InsertReq(m)})
          /\ InInsert(m)' <=> InInsert(m) \/ Head(datumQ).msg = m
      BY <1>9, <2>5, <3>2, <3>3
    <3>5. CASE Head(datumQ).msg = m
      BY <1>2, <1>4, <1>6, <1>10, <2>1, <2>3, <2>5, <3>2, <3>4, <3>5
    <3>6. CASE Head(datumQ).msg # m
      BY <1>4, <1>6, <1>10, <2>1, <2>5, <3>2, <3>4, <3>6
    <3>7. QED
      BY <3>5, <3>6
  <2>6. CASE Head(datumQ).id # 0 /\ UNCHANGED <<mgrPc, held, dbQ>>
    <3>1. Head(datumQ) # Message(0, m)
      BY <1>12, <2>6
    <3>2. QED
      BY <1>4, <1>6, <1>10, <2>1, <2>6, <3>1
  <2>7. QED
    BY <1>16, <2>4, <2>5, <2>6 DEF ManagerMessage
<1>17. CASE ManagerResult
  <2>1. /\ mgrPc = "await_pub" /\ resQ # << >>
        /\ UNCHANGED <<rawQ, datumQ, nread, fate, sent>>
    BY <1>17 DEF ManagerResult, linkVars
  <2>2. held.type = "Message" /\ held \in Datum /\ Head(resQ) \in BOOLEAN
    BY <1>17, ResultOutcome
  <2>3. held.id = 0 <=> held = Message(0, held.msg)
    BY <2>2, FreshDatum
  <2>4. InManager(m) <=> held.id = 0 /\ held.msg = m
    BY <1>12, <2>1, <2>3 DEF InManager
  <2>5. CASE held.id = 0 /\ Head(resQ) = TRUE /\ dbQ' = dbQ /\ mgrPc' = "idle"
    <3>1. ~InManager(m)'
      BY <2>5 DEF InManager
    <3>2. QED
      BY <1>2, <1>4, <1>10, <2>1, <2>5, <3>1
  <2>6. CASE /\ held.id = 0 /\ Head(resQ) = FALSE /\ mgrPc' = "idle"
             /\ dbQ' = Append(dbQ, InsertReq(held.msg))
    <3>1. ~InManager(m)'
      BY <2>6 DEF InManager
    <3>2. /\ InsertReq(held.msg) \in DbReq
          /\ InsertReq(held.msg) = InsertReq(m) <=> held.msg = m
      BY <2>2, FreshDatum
    <3>3. InsertReq(held.msg) = InsertReq(m) => ~InInsert(m)
      BY <1>2, <2>4, <2>6, <3>2
    <3>4. /\ OnceIn(dbQ', {InsertReq(m)})
          /\ InInsert(m)' <=> InInsert(m) \/ held.msg = m
      BY <1>9, <2>6, <3>2, <3>3
    <3>5. CASE held.msg = m
      <4>1. sent[m] = 0
        <5>1. ~PositiveResult
          BY <2>6 DEF PositiveResult
        <5>2. sent[m] \in Nat
          BY <1>1
        <5>3. InManager(m)
          BY <2>4, <2>6, <3>5
        <5>4. QED
          BY <1>3, <5>1, <5>2, <5>3
      <4>2. QED
        BY <1>2, <1>4, <1>10, <2>1, <2>4, <2>6, <3>1, <3>4, <3>5, <4>1
    <3>6. CASE held.msg # m
      BY <1>4, <1>10, <2>1, <2>4, <3>1, <3>4, <3>6
    <3>7. QED
      BY <3>5, <3>6
  <2>7. CASE held.id # 0 /\ mgrPc' = "idle" /\ dbQ' = dbQ
    <3>1. ~InManager(m)' /\ ~InManager(m)
      BY <2>4, <2>7 DEF InManager
    <3>2. QED
      BY <1>4, <1>10, <2>1, <2>7, <3>1
  <2>8. CASE /\ held.id \in RowId /\ held' = held
             /\ dbQ' = Append(dbQ, DeleteReq(held.id))
    <3>1. held.id # 0 /\ DeleteReq(held.id) \in DbReq
          /\ DeleteReq(held.id).op = "DELETE"
      BY <2>8 DEF RowId, DeleteReq, DbReq
    <3>2. DeleteReq(held.id) # InsertReq(m)
      BY <1>12, <3>1
    <3>3. ~InManager(m)' /\ ~InManager(m)
      BY <1>12, <2>4, <2>8, <3>1 DEF InManager
    <3>4. OnceIn(dbQ', {InsertReq(m)}) /\ (InInsert(m)' <=> InInsert(m))
      BY <1>9, <2>8, <3>1, <3>2
    <3>5. QED
      BY <1>4, <1>10, <2>1, <3>3, <3>4
  <2>9. QED
    BY <1>17, <2>5, <2>6, <2>7, <2>8, ResultOutcome
<1>18. CASE ManagerDeleted
  <2>1. /\ mgrPc = "await_del" /\ mgrPc' = "idle"
        /\ UNCHANGED <<rawQ, datumQ, dbQ, nread, fate, sent, resQ>>
    BY <1>18 DEF ManagerDeleted, linkVars
  <2>2. ~InManager(m) /\ ~InManager(m)'
    BY <1>12, <2>1 DEF InManager, ReplayedWereStored
  <2>3. QED
    BY <1>4, <1>10, <2>1, <2>2
<1>19. CASE PubMessage
  <2>1. /\ mgrPc = "await_pub" /\ resQ = << >> /\ Head(pubQ) = held.msg
        /\ held.msg \in Msg /\ held.id \in Nat
        /\ held.id = 0 => InManager(held.msg)
    BY <1>19, PublishedIsHeld
  <2>2. UNCHANGED <<rawQ, datumQ, dbQ, mgrPc, held, nread, fate>>
    BY <1>19 DEF PubMessage
  <2>3. /\ (InRaw(m)' <=> InRaw(m)) /\ (InData(m)' <=> InData(m))
        /\ (InInsert(m)' <=> InInsert(m)) /\ (InManager(m)' <=> InManager(m))
    BY <1>4, <2>2
  <2>4. AtOnePlace(m)'
    BY <1>2, <1>4, <2>2, <2>3 DEF AtOnePlace
  <2>5. InManager(m) => sent[m] = 0
    <3>1. ~PositiveResult
      BY <2>1 DEF PositiveResult
    <3>2. sent[m] \in Nat
      BY <1>1
    <3>3. QED
      BY <1>3, <3>1, <3>2
  <2>6. CASE resQ' = Append(resQ, TRUE) /\ sent' = [sent EXCEPT ![held.msg] = @ + 1]
    <3>1. PositiveResult'
      <4>1. resQ' = <<TRUE>>
        BY <2>1, <2>6
      <4>2. Head(<<TRUE>>) = TRUE /\ <<TRUE>> # << >>
        BY HeadOne
      <4>3. QED
        BY <4>1, <4>2 DEF PositiveResult
    <3>2. held.msg # m => sent'[m] = sent[m]
      BY <1>1, <2>1, <2>6
    <3>3. held.msg = m => \/ InManager(m)
                          \/ "stored" \in fate[m]
      BY <2>1 DEF ReplayedWereStored, Stored
    <3>4. held.msg = m => m <= nread
      BY <1>1, <1>3, <3>3
    <3>5. held.msg = m => ~InRaw(m) /\ ~InData(m) /\ ~InInsert(m)
      BY <1>2, <1>3, <3>3
    <3>6. QED
      BY <1>1, <1>3, <2>2, <2>3, <2>4, <3>1, <3>2, <3>4, <3>5 DEF FreshIsNew
  <2>7. CASE UNCHANGED sent
    BY <1>1, <1>3, <2>2, <2>3, <2>4, <2>5, <2>7 DEF FreshIsNew
  <2>8. QED
    BY <1>19, <2>1, <2>6, <2>7 DEF PubMessage
<1>20. CASE OfflineTrigger
  <2>1. QueryReq \in DbReq /\ QueryReq # InsertReq(m)
    BY <1>12, RequestKinds DEF Queries, QueryReq
  <2>2. dbQ' = Append(dbQ, QueryReq)
        /\ UNCHANGED <<rawQ, datumQ, mgrPc, held, resQ, nread, fate, sent>>
    BY <1>20 DEF OfflineTrigger
  <2>3. OnceIn(dbQ', {InsertReq(m)}) /\ (InInsert(m)' <=> InInsert(m))
    BY <1>9, <2>1, <2>2
  <2>4. QED
    BY <1>4, <1>10, <2>2, <2>3
<1>21. CASE OfflineSend
  <2>1. UNCHANGED <<rawQ, dbQ, mgrPc, held, resQ, nread, fate, sent>>
    BY <1>21 DEF OfflineSend
  <2>2. CASE datumQ' = Append(datumQ, Message(FirstRow(rows), rows[FirstRow(rows)]))
    <3> DEFINE d == Message(FirstRow(rows), rows[FirstRow(rows)])
    <3>1. FirstRow(rows) \in DOMAIN rows /\ IsTable(rows, Msg)
      BY <1>21, FirstRowExists DEF OfflineSend, TypeOK, PipeTypeOK
    <3>2. d \in Datum /\ d.id # 0
      BY <3>1 DEF IsTable, RowId, Message, Datum
    <3> HIDE DEF d
    <3>3. d # Message(0, m)
      BY <1>12, <3>2
    <3>4. OnceIn(datumQ', {Message(0, m)}) /\ (InData(m)' <=> InData(m))
      BY <1>8, <2>2, <3>2, <3>3 DEF d
    <3>5. QED
      BY <1>4, <1>10, <2>1, <3>4
  <2>3. CASE UNCHANGED datumQ
    BY <1>13, <2>1, <2>3
  <2>4. QED
    BY <1>21, <2>2, <2>3 DEF OfflineSend
<1>22. CASE DbInsert
  <2>1. /\ dbQ # << >> /\ dbQ' = Tail(dbQ)
        /\ Befalls(Head(dbQ).msg, "stored") \/ Befalls(Head(dbQ).msg, "unsaved")
        /\ UNCHANGED <<rawQ, datumQ, mgrPc, held, resQ, nread, sent>>
    BY <1>22 DEF DbInsert, NextReqIs, linkVars
  <2>2. Head(dbQ).msg \in Msg /\ Head(dbQ) = InsertReq(Head(dbQ).msg)
    BY <1>1, <1>22, HeadTailProperties, FreshDatum DEF DbInsert, NextReqIs
  <2>3. CASE Head(dbQ).msg = m
    BY <1>1, <1>2, <1>3, <1>4, <1>7, <1>11, <2>1, <2>2, <2>3
  <2>4. CASE Head(dbQ).msg # m
    <3>1. fate'[m] = fate[m]
      BY <1>1, <2>1, <2>2, <2>4 DEF Befalls
    <3>2. Head(dbQ) # InsertReq(m)
      BY <1>12, <2>4
    <3>3. /\ (InRaw(m)' <=> InRaw(m)) /\ (InData(m)' <=> InData(m))
          /\ (InInsert(m)' <=> InInsert(m)) /\ (InManager(m)' <=> InManager(m))
      BY <1>4, <1>7, <2>1, <3>2
      <3>4. AtOnePlace(m)'
      BY <1>2, <1>4, <1>7, <2>1, <3>3 DEF AtOnePlace
    <3>5. QED
      BY <1>3, <1>4, <2>1, <3>1, <3>3, <3>4 DEF FreshIsNew
  <2>5. QED
    BY <2>3, <2>4
<1>23. CASE DbQuery \/ DbDelete
  <2>1. /\ dbQ # << >> /\ dbQ' = Tail(dbQ) /\ Head(dbQ).op # "INSERT"
        /\ UNCHANGED <<rawQ, datumQ, mgrPc, held, resQ, nread, fate, sent>>
    BY <1>23 DEF DbQuery, DbDelete, NextReqIs, linkVars
  <2>2. Head(dbQ) # InsertReq(m)
    BY <1>12, <2>1
  <2>3. QED
    BY <1>4, <1>7, <1>10, <2>1, <2>2
<1>24. CASE LinkStep
  <2>1. UNCHANGED <<rawQ, dbQ, mgrPc, held, resQ, nread, fate, sent>>
    BY <1>24 DEF LinkStep, pipeVars
  <2>2. \A d \in Datum : d.type = "Notice" => d # Message(0, m)
    BY <1>12
  <2>3. OnceIn(datumQ', {Message(0, m)}) /\ (InData(m)' <=> InData(m))
    <3>1. CASE UNCHANGED datumQ
      BY <1>4, <3>1
    <3>2. CASE \E d \in Datum : d.type = "Notice" /\ datumQ' = Append(datumQ, d)
      BY <1>8, <2>2, <3>2
    <3>3. CASE datumQ # << >> /\ datumQ' = Tail(datumQ) /\ Head(datumQ).type = "Notice"
      BY <1>6, <1>12, <3>3
    <3>4. QED
      BY <1>24, <3>1, <3>2, <3>3, LinkData DEF TypeOK
  <2>4. QED
    BY <1>4, <1>10, <2>1, <2>3
<1>25. CASE Crash
  <2>1. /\ rawQ' = << >> /\ datumQ' = << >> /\ dbQ' = << >> /\ mgrPc' = "idle"
        /\ UNCHANGED <<nread, sent>>
    BY <1>25 DEF Crash, LinkRestart, PipeRestart
  <2>2. /\ OnceIn(rawQ', {m}) /\ OnceIn(datumQ', {Message(0, m)})
        /\ OnceIn(dbQ', {InsertReq(m)})
    BY <2>1, EmptyOnce
  <2>3. ~InRaw(m)' /\ ~InData(m)' /\ ~InManager(m)' /\ ~InInsert(m)'
    BY <2>1, RangeEmpty DEF InRaw, InData, InManager, InInsert
  <2>4. CASE m <= nread
    BY <1>11, <2>1, <2>2, <2>3, <2>4
  <2>5. CASE ~(m <= nread)
    <3>1. ~FreshInFlight(m)
      BY <1>3, <2>5, FreshPlaces
    <3>2. fate'[m] = fate[m]
      BY <1>25, <3>1 DEF Crash
    <3>3. QED
      BY <1>3, <2>1, <2>2, <2>3, <3>1, <3>2 DEF AtOnePlace, FreshIsNew
  <2>6. QED
    BY <2>4, <2>5
<1>26. CASE OfflineRows \/ UNCHANGED vars
  BY <1>13, <1>26 DEF OfflineRows, vars, linkVars, pipeVars
<1>27. QED
  BY <1>14, <1>15, <1>16, <1>17, <1>18, <1>19, <1>20, <1>21, <1>22, <1>23,
     <1>24, <1>25, <1>26
  DEF Next, Offline, Db

-----------------------------------------------------------------------------
(* A message has one row at most: it is stored once. *)

LEMMA FreshNotInTable ==
    ASSUME ReplayedWereStored, NEW m \in Msg, FreshIsNew(m), NEW r \in DOMAIN db,
           db[r] = m
    PROVE  ~InRaw(m) /\ ~InData(m) /\ ~InManager(m) /\ ~InInsert(m)
  BY DEF ReplayedWereStored, AllStored, Stored, FreshIsNew

LEMMA OneRowStep ==
    ASSUME TypeOK, ReplayedWereStored, [Next]_vars,
           NEW m \in Msg, FreshIsNew(m), OneRow(m)
    PROVE  OneRow(m)'
<1>1. dbQ \in Seq(DbReq) /\ IsTable(db, Msg)
  BY DEF TypeOK, PipeTypeOK
<1>2. CASE UNCHANGED db
  BY <1>2 DEF OneRow
<1>3. CASE DbInsert /\ db' = InsertRow(db, Head(dbQ).msg)
  <2>1. dbQ # << >> /\ Head(dbQ) \in DbReq /\ Head(dbQ).op = "INSERT"
    BY <1>1, <1>3, HeadTailProperties DEF DbInsert, NextReqIs
  <2>2. Head(dbQ).msg \in Msg /\ Head(dbQ) = InsertReq(Head(dbQ).msg)
    BY <2>1, FreshDatum
  <2>3. Head(dbQ) \in Range(dbQ)
    BY <1>1, <2>1, RangeTail
  <2>4. DOMAIN db' = DOMAIN db \cup {NextRowId(db)}
    BY <1>3 DEF InsertRow
  <2>5. \A r \in DOMAIN db' : db'[r] = IF r = NextRowId(db) THEN Head(dbQ).msg ELSE db[r]
    BY <1>3, <2>4 DEF InsertRow
  <2>6. CASE Head(dbQ).msg = m
    <3>1. \A r \in DOMAIN db : db[r] # m
      BY <2>2, <2>3, <2>6, FreshNotInTable DEF InInsert
    <3>2. QED
      BY <2>4, <2>5, <2>6, <3>1 DEF OneRow
  <2>7. CASE Head(dbQ).msg # m
    BY <2>4, <2>5, <2>7 DEF OneRow
  <2>8. QED
    BY <2>6, <2>7
<1>4. CASE DbDelete /\ db' = DeleteRow(db, Head(dbQ).id)
  <2>1. \A r \in DOMAIN db' : r \in DOMAIN db /\ db'[r] = db[r]
    BY <1>1, <1>4, RowsLeft
  <2>2. QED
    BY <2>1 DEF OneRow
<1>5. CASE \/ ReadInput \/ HandleInput \/ ManagerMessage \/ ManagerResult
           \/ ManagerDeleted \/ PubMessage \/ Offline \/ DbQuery \/ LinkStep
           \/ Crash \/ UNCHANGED vars
  BY <1>2, <1>5
  DEF ReadInput, HandleInput, ManagerMessage, ManagerResult, ManagerDeleted,
      PubMessage, Offline, OfflineTrigger, OfflineRows, OfflineSend, DbQuery,
      LinkStep, Crash, vars, pipeVars
<1>6. QED
  BY <1>2, <1>3, <1>4, <1>5 DEF Next, Db, DbInsert, DbDelete

AllFresh == \A m \in Msg : FreshInv(m)

LEMMA AllFreshStep ==
    TypeOK /\ RepliesMatchRequests /\ LossInv /\ AllFresh /\ [Next]_vars => AllFresh'
<1> SUFFICES ASSUME TypeOK, RepliesMatchRequests, LossInv, AllFresh, [Next]_vars,
                    NEW m \in Msg
             PROVE  FreshInv(m)'
  BY DEF AllFresh, Msg
<1>1. AtOnePlace(m) /\ FreshIsNew(m) /\ OneRow(m)
  BY DEF AllFresh, FreshInv
<1>2. AtOnePlace(m)' /\ FreshIsNew(m)' /\ OneRow(m)'
  BY <1>1, FreshStep, OneRowStep DEF RepliesMatchRequests, LossInv
<1>3. QED
  BY <1>2 DEF FreshInv

LEMMA AllFreshInit == Init => AllFresh
<1> SUFFICES ASSUME Init, NEW m \in Msg PROVE FreshInv(m)
  BY DEF AllFresh
<1>1. /\ rawQ = << >> /\ datumQ = << >> /\ dbQ = << >> /\ mgrPc = "idle"
      /\ db = EmptyTable /\ fate[m] = {} /\ sent[m] = 0
  BY DEF Init, LinkInit, LinkBoot, PipeBoot
<1>2. ~InRaw(m) /\ ~InData(m) /\ ~InManager(m) /\ ~InInsert(m)
  BY <1>1, RangeEmpty DEF InRaw, InData, InManager, InInsert
<1>3. AtOnePlace(m)
  BY <1>1, <1>2, EmptyOnce DEF AtOnePlace
<1>4. FreshIsNew(m)
  BY <1>1, <1>2 DEF FreshIsNew
<1>5. OneRow(m)
  BY <1>1 DEF OneRow, EmptyTable
<1>6. QED
  BY <1>3, <1>4, <1>5 DEF FreshInv

-----------------------------------------------------------------------------
(* Without overlaps, crashes and failed DELETEs the row of a published
   message is the one that is about to be deleted.                         *)

Clean == ~overlapped /\ crashes = 0 /\ "deleteErr" \notin Faults

RowGoes(r) ==
    /\ held.id = r
    /\ \/ mgrPc = "await_pub" /\ PositiveResult
       \/ mgrPc = "await_del" /\ \E e \in Range(dbQ) : e \in Deletes

SentOnce(m) ==
    /\ sent[m] <= 1
    /\ sent[m] > 0 => \A r \in DOMAIN db : db[r] = m => RowGoes(r)

LEMMA SentOnceStep ==
    ASSUME TypeOK, RepliesMatchRequests, ReplayedWereStored, StoreInv, [Next]_vars,
           Clean, Clean', NEW m \in Msg, FreshIsNew(m), OneRow(m), SentOnce(m)
    PROVE  SentOnce(m)'
<1>1. /\ dbQ \in Seq(DbReq) /\ IsTable(db, Msg) /\ sent \in [Msg -> Nat]
      /\ resQ \in Seq(BOOLEAN) /\ sent[m] \in Nat
  BY DEF TypeOK, PipeTypeOK
<1>2. sent[m] <= 1 /\ (sent[m] > 0 => \A r \in DOMAIN db : db[r] = m => RowGoes(r))
  BY DEF SentOnce
<1>3. ASSUME UNCHANGED <<sent, db>>, \A r \in DOMAIN db : RowGoes(r) => RowGoes(r)'
      PROVE  SentOnce(m)'
  BY <1>2, <1>3 DEF SentOnce
<1>4. UNCHANGED resQ => (PositiveResult => PositiveResult')
  BY DEF PositiveResult
<1>5. UNCHANGED <<held, mgrPc, resQ, dbQ>> => \A r : RowGoes(r) => RowGoes(r)'
  BY <1>4 DEF RowGoes, Deletes
<1>6. CASE ManagerMessage
  <2>1. mgrPc = "idle" /\ UNCHANGED <<sent, db>>
    BY <1>6 DEF ManagerMessage
  <2>2. QED
    BY <1>3, <2>1 DEF RowGoes
<1>7. CASE ManagerResult
  <2>1. mgrPc = "await_pub" /\ UNCHANGED <<sent, db>>
    BY <1>7 DEF ManagerResult
  <2>2. ASSUME NEW r \in DOMAIN db, RowGoes(r)
        PROVE  RowGoes(r)'
    <3>1. Head(resQ) = TRUE /\ held.id = r
      BY <2>1, <2>2 DEF RowGoes, PositiveResult
    <3>2. r # 0
      BY <1>1 DEF IsTable, RowId
    <3>3. Head(resQ) # FALSE
      BY <3>1
    <3>4. /\ held.id \in RowId /\ dbQ' = Append(dbQ, DeleteReq(held.id))
          /\ mgrPc' = "await_del" /\ held' = held
      BY <1>7, <3>1, <3>2, <3>3, ResultOutcome
    <3>5. DeleteReq(held.id) \in Deletes /\ DeleteReq(held.id) \in DbReq
      BY <3>4, RequestKinds DEF Deletes
    <3>6. DeleteReq(held.id) \in Range(dbQ')
      <4>1. Range(dbQ') = Range(dbQ) \cup {DeleteReq(held.id)}
        BY <1>1, <3>4, <3>5, RangeAppend
      <4>2. QED
        BY <4>1
    <3>7. \E e \in Range(dbQ') : e \in Deletes
      BY <3>5, <3>6
    <3>8. QED
      BY <3>1, <3>4, <3>7 DEF RowGoes, Deletes
  <2>3. QED
    BY <1>3, <2>1, <2>2
<1>8. CASE ManagerDeleted
  <2>1. mgrPc = "await_del" /\ delQ # << >> /\ UNCHANGED <<sent, db>>
    BY <1>8 DEF ManagerDeleted
  <2>2. \A e \in Range(dbQ) : e \notin Deletes
    BY <2>1, DeleteUnderWay DEF RepliesMatchRequests
  <2>3. QED
    BY <1>3, <2>1, <2>2 DEF RowGoes
<1>9. CASE PubMessage
  <2>1. /\ mgrPc = "await_pub" /\ resQ = << >> /\ Head(pubQ) = held.msg
        /\ held.msg \in Msg /\ held.id \in Nat
        /\ held.id = 0 => InManager(held.msg)
    BY <1>9, PublishedIsHeld DEF RepliesMatchRequests
  <2>2. ~PositiveResult
    BY <2>1 DEF PositiveResult
  <2>3. \A r : ~RowGoes(r)
    BY <2>1, <2>2 DEF RowGoes
  <2>4. UNCHANGED <<db, held, mgrPc>>
    BY <1>9 DEF PubMessage
  <2>5. CASE UNCHANGED sent
    BY <1>3, <2>3, <2>4, <2>5
  <2>6. CASE resQ' = Append(resQ, TRUE) /\ sent' = [sent EXCEPT ![held.msg] = @ + 1]
    <3>1. CASE held.msg # m
      <4>1. sent'[m] = sent[m]
        BY <1>1, <2>1, <2>6, <3>1
      <4>2. QED
        BY <1>2, <2>3, <2>4, <4>1 DEF SentOnce
    <3>2. CASE held.msg = m
      <4>1. held.id # 0 => held.id \in DOMAIN db /\ db[held.id] = m
        BY <2>1, <3>2 DEF StoreInv, Clean, ReplaysMatch, InTable
      <4>2. sent[m] = 0
        <5>1. CASE held.id = 0
          BY <1>1, <2>1, <2>2, <3>2, <5>1 DEF FreshIsNew
        <5>2. CASE held.id # 0
          BY <1>1, <1>2, <2>3, <4>1, <5>2
        <5>3. QED
          BY <5>1, <5>2
      <4>3. sent'[m] = 1
        BY <1>1, <2>6, <3>2, <4>2
      <4>4. PositiveResult'
        <5>1. resQ' = <<TRUE>>
          BY <2>1, <2>6
        <5>2. Head(<<TRUE>>) = TRUE /\ <<TRUE>> # << >>
          BY HeadOne
        <5>3. QED
          BY <5>1, <5>2 DEF PositiveResult
      <4>5. ASSUME NEW r \in DOMAIN db, db[r] = m
            PROVE  r = held.id
        <5>1. ~InManager(m)
          BY <4>5, FreshNotInTable
        <5>2. held.id # 0
          BY <2>1, <3>2, <5>1
        <5>3. QED
          BY <4>1, <4>5, <5>2 DEF OneRow
      <4>6. \A r \in DOMAIN db' : db'[r] = m => RowGoes(r)'
        BY <2>1, <2>4, <4>4, <4>5 DEF RowGoes
      <4>7. QED
        BY <4>3, <4>6 DEF SentOnce
    <3>3. QED
      BY <3>1, <3>2
  <2>7. QED
    BY <1>9, <2>1, <2>5, <2>6 DEF PubMessage
<1>10. CASE OfflineTrigger
  <2>1. QueryReq \in DbReq /\ dbQ' = Append(dbQ, QueryReq)
    BY <1>10, RequestKinds DEF OfflineTrigger, Queries
  <2>2. Range(dbQ) \subseteq Range(dbQ')
    BY <1>1, <2>1, RangeAppend
  <2>3. UNCHANGED <<held, mgrPc, resQ, sent, db>>
    BY <1>10 DEF OfflineTrigger
  <2>4. \A r : RowGoes(r) => RowGoes(r)'
    BY <1>4, <2>2, <2>3 DEF RowGoes, Deletes
  <2>5. QED
    BY <1>3, <2>3, <2>4
<1>11. CASE DbInsert \/ DbQuery
  <2>1. /\ dbQ # << >> /\ dbQ' = Tail(dbQ) /\ Head(dbQ).op # "DELETE"
        /\ UNCHANGED <<held, mgrPc, resQ, sent>>
    BY <1>11 DEF DbInsert, DbQuery, NextReqIs
  <2>2. Range(dbQ) = {Head(dbQ)} \cup Range(dbQ')
    BY <1>1, <2>1, RangeTail
  <2>3. \A r : RowGoes(r) => RowGoes(r)'
    BY <1>4, <2>1, <2>2 DEF RowGoes, Deletes
  <2>4. CASE UNCHANGED db
    BY <1>3, <2>1, <2>3, <2>4
  <2>5. CASE DbInsert /\ db' = InsertRow(db, Head(dbQ).msg)
    <3>1. Head(dbQ).msg \in Msg /\ Head(dbQ) = InsertReq(Head(dbQ).msg)
      BY <1>1, <2>1, <2>5, HeadTailProperties, FreshDatum DEF DbInsert, NextReqIs
    <3>2. \A r \in DOMAIN db' : \/ r \in DOMAIN db /\ db'[r] = db[r]
                                \/ db'[r] = Head(dbQ).msg
      BY <1>1, <2>5, <3>1, RowsAdded
    <3>3. Head(dbQ).msg = m => sent[m] = 0
      BY <2>2, <3>1 DEF FreshIsNew, InInsert
    <3>4. QED
      BY <1>1, <1>2, <2>1, <2>3, <3>2, <3>3 DEF SentOnce
  <2>6. QED
    BY <1>11, <2>4, <2>5 DEF DbInsert, DbQuery
<1>12. CASE DbDelete
  <2>1. db' = DeleteRow(db, Head(dbQ).id) /\ UNCHANGED sent
    BY <1>12 DEF DbDelete, Clean
  <2>2. dbQ # << >> /\ Head(dbQ) \in Deletes /\ Head(dbQ) \in Range(dbQ)
    BY <1>1, <1>12, HeadTailProperties, RangeTail DEF DbDelete, NextReqIs, Deletes
  <2>3. mgrPc = "await_del" /\ Head(dbQ).id = held.id
    BY <2>2, DeleteUnderWay DEF RepliesMatchRequests
  <2>4. \A r \in DOMAIN db' : r \in DOMAIN db /\ db'[r] = db[r]
    BY <1>1, <2>1, RowsLeft
  <2>5. DOMAIN db' = DOMAIN db \ {Head(dbQ).id}
    BY <1>1, <2>1, DeleteRowTable
  <2>6. \A r \in DOMAIN db' : ~RowGoes(r)
    BY <2>3, <2>5 DEF RowGoes
  <2>7. sent'[m] > 0 => \A r \in DOMAIN db' : db'[r] # m
    BY <1>2, <2>1, <2>4, <2>6
  <2>8. QED
    BY <1>2, <2>1, <2>7 DEF SentOnce
<1>13. CASE Crash
  <2>1. crashes' = crashes + 1 /\ crashes = 0 /\ crashes' = 0
    BY <1>13 DEF Crash, Clean
  <2>2. QED
    BY <2>1
<1>14. CASE \/ ReadInput \/ HandleInput \/ OfflineRows \/ OfflineSend \/ LinkStep
            \/ UNCHANGED vars
  <2>1. UNCHANGED <<held, mgrPc, resQ, dbQ, sent, db>>
    BY <1>14
    DEF ReadInput, HandleInput, OfflineRows, OfflineSend, LinkStep, vars, pipeVars
  <2>2. QED
    BY <1>3, <1>5, <2>1
<1>15. QED
  BY <1>6, <1>7, <1>8, <1>9, <1>10, <1>11, <1>12, <1>13, <1>14
  DEF Next, Offline, Db

DupInv == Clean => \A m \in Msg : SentOnce(m)

LEMMA DupStep ==
    TypeOK /\ RepliesMatchRequests /\ LossInv /\ StoreInv /\ AllFresh /\ DupInv
        /\ [Next]_vars => DupInv'
<1> SUFFICES ASSUME TypeOK, RepliesMatchRequests, LossInv, StoreInv, AllFresh, DupInv,
                    [Next]_vars, Clean', NEW m \in Msg
             PROVE  SentOnce(m)'
  BY DEF DupInv, Msg
<1>1. crashes \in Nat
  BY GatewayAssumption DEF TypeOK, PipeTypeOK
<1>2. Clean
  <2>1. UNCHANGED crashes \/ crashes' = crashes + 1
    BY DEF Next, ReadInput, HandleInput, ManagerMessage, ManagerResult,
           ManagerDeleted, PubMessage, Offline, OfflineTrigger, OfflineRows,
           OfflineSend, Db, DbInsert, DbQuery, DbDelete, LinkStep, Crash, vars,
           pipeVars
  <2>2. ~overlapped' => ~overlapped
    BY DEF Next, ReadInput, HandleInput, ManagerMessage, ManagerResult,
           ManagerDeleted, PubMessage, Offline, OfflineTrigger, OfflineRows,
           OfflineSend, Db, DbInsert, DbQuery, DbDelete, LinkStep, Crash, vars,
           pipeVars
  <2>3. QED
    BY <1>1, <2>1, <2>2 DEF Clean
<1>3. FreshIsNew(m) /\ OneRow(m) /\ SentOnce(m)
  BY <1>2 DEF AllFresh, FreshInv, DupInv
<1>4. QED
  BY <1>2, <1>3, SentOnceStep DEF LossInv

(* All that is known of the state of the gateway. *)
GatewayInv ==
    TypeOK /\ RepliesMatchRequests /\ LossInv /\ StoreInv /\ AllFresh /\ DupInv

LEMMA GatewayInvariant == Spec => []GatewayInv
<1>1. TypeOK /\ RepliesMatchRequests /\ LossInv /\ StoreInv /\ [Next]_vars
          => LossInv' /\ StoreInv'
  BY LossStep, ReplayStep, ResultStep, StoreStep DEF LossInv, RepliesMatchRequests
<1>2. Init => DupInv
  <2>1. SUFFICES ASSUME Init, NEW m \in Msg PROVE SentOnce(m)
    BY <2>1 DEF DupInv
  <2>2. sent[m] = 0
    BY <2>1 DEF Init
  <2>3. QED
    BY <2>2 DEF SentOnce
<1>3. GatewayInv <=>
          TypeOK /\ RepliesMatchRequests /\ LossInv /\ StoreInv /\ AllFresh /\ DupInv
  BY DEF GatewayInv
<1>4. QED
  BY <1>1, <1>2, <1>3, LossInit, StoreInit, AllFreshInit, AllFreshStep, DupStep,
     TypeCorrect, CallsAnswered, PTL DEF Spec

(* A message reaches the broker twice only if replays overlapped, a DELETE
   failed or the process died between the publish and the DELETE
   (main.rs:716-764): the positive result of a row always leads to its DELETE
   before the manager takes another datum, and a fresh datum that was published
   is never stored.                                                        *)
THEOREM PublishedOnce == Spec => []DuplicatesExplained
<1>1. GatewayInv => DuplicatesExplained
  BY DEF GatewayInv, DupInv, Clean, SentOnce, DuplicatesExplained
<1>2. QED
  BY <1>1, GatewayInvariant, PTL

-----------------------------------------------------------------------------
(* The promise. *)

StageInv ==
    \A m \in Msg :
        /\ FreshInFlight(m) => Stage(m) = "memory" /\ fate[m] = {}
        /\ m \in Range(db) => Stage(m) = "table" /\ Stored(m)
        /\ m > nread => Stage(m) = "new" /\ fate[m] = {} /\ sent[m] = 0
        /\ ~FreshInFlight(m) /\ m \notin Range(db) /\ m <= nread => Stage(m) = "gone"

LEMMA StagesAreClear == GatewayInv => StageInv
<1> SUFFICES ASSUME GatewayInv, NEW m \in Msg
             PROVE  /\ FreshInFlight(m) => Stage(m) = "memory" /\ fate[m] = {}
                    /\ m \in Range(db) => Stage(m) = "table" /\ Stored(m)
                    /\ m > nread => Stage(m) = "new" /\ fate[m] = {} /\ sent[m] = 0
                    /\ ~FreshInFlight(m) /\ m \notin Range(db) /\ m <= nread
                           => Stage(m) = "gone"
  BY DEF StageInv
<1>1. nread \in Nat /\ m \in Nat
  BY CloudLinkAssumption DEF GatewayInv, TypeOK, PipeTypeOK, Msg
<1>2. FreshInFlight(m) => m <= nread /\ fate[m] = {}
  BY FreshPlaces DEF GatewayInv, AllFresh, FreshInv, FreshIsNew
<1>3. m > nread => fate[m] = {} /\ sent[m] = 0
  BY DEF GatewayInv, AllFresh, FreshInv, FreshIsNew
<1>4. m \in Range(db) => "stored" \in fate[m]
  BY DEF GatewayInv, LossInv, ReplayedWereStored, AllStored, Stored, Range
<1>5. QED
  BY <1>1, <1>2, <1>3, <1>4 DEF Stage, Stored

LEMMA PromiseInit == Init => Promise!Init
<1> SUFFICES ASSUME Init PROVE Promise!Init
  OBVIOUS
<1>1. /\ rawQ = << >> /\ datumQ = << >> /\ dbQ = << >> /\ mgrPc = "idle"
      /\ db = EmptyTable /\ fate = [m \in Msg |-> {}] /\ nread = 0
      /\ sent = [m \in Msg |-> 0] /\ overlapped = FALSE
  BY DEF Init, LinkInit, LinkBoot, PipeBoot
<1>2. ASSUME NEW m \in Msg PROVE Stage(m) = "new"
  <2>1. ~FreshInFlight(m)
    BY <1>1 DEF FreshInFlight
  <2>2. m \notin Range(db)
    BY <1>1 DEF Range, EmptyTable
  <2>3. m > nread
    BY <1>1, <1>2 DEF Msg
  <2>4. QED
    BY <2>1, <2>2, <2>3 DEF Stage
<1>3. {m \in Msg : fate[m] \cap LostFates # {}} = {}
  BY <1>1
<1>4. [m \in Msg |-> Stage(m)] = [m \in Msg |-> "new"]
  BY <1>2
<1>5. QED
  BY <1>1, <1>3, <1>4 DEF Promise!Init

LEMMA PromiseStep ==
    ASSUME GatewayInv, StageInv, TypeOK', StageInv', [Next]_vars
    PROVE  [Promise!Next]_(Promise!promiseVars)
<1> DEFINE IsLost(m) == fate[m] \cap LostFates # {}
           Fresh(m) == FreshInFlight(m)
           InDb(m) == m \in Range(db)
<1>1. /\ datumQ \in Seq(Datum) /\ rawQ \in Seq(Msg) /\ dbQ \in Seq(DbReq)
      /\ resQ \in Seq(BOOLEAN) /\ nread \in Nat /\ nread' \in Nat /\ Msg \subseteq Nat
      /\ fate \in [Msg -> SUBSET Fates] /\ fate' \in [Msg -> SUBSET Fates]
      /\ sent \in [Msg -> Nat] /\ overlapped \in BOOLEAN /\ overlapped' \in BOOLEAN
      /\ IsTable(db, Msg) /\ IsTable(db', Msg) /\ TypeOK
  <2>1. TypeOK
    BY DEF GatewayInv
  <2>2. Msg \subseteq Nat /\ nread \in Nat /\ nread' \in Nat
    BY <2>1, CloudLinkAssumption DEF TypeOK, PipeTypeOK, Msg
  <2>3. /\ datumQ \in Seq(Datum) /\ rawQ \in Seq(Msg) /\ dbQ \in Seq(DbReq)
        /\ resQ \in Seq(BOOLEAN) /\ fate \in [Msg -> SUBSET Fates]
        /\ sent \in [Msg -> Nat] /\ overlapped \in BOOLEAN /\ IsTable(db, Msg)
    BY <2>1 DEF TypeOK, LinkTypeOK, PipeTypeOK
  <2>4. fate' \in [Msg -> SUBSET Fates] /\ overlapped' \in BOOLEAN /\ IsTable(db', Msg)
    BY DEF TypeOK, PipeTypeOK, IsTable, Msg, RowId
  <2>5. QED
    BY <2>1, <2>2, <2>3, <2>4
<1>2. \A m \in Msg :
          /\ Fresh(m) <=> InRaw(m) \/ InData(m) \/ InManager(m) \/ InInsert(m)
          /\ Fresh(m)' <=> InRaw(m)' \/ InData(m)' \/ InManager(m)' \/ InInsert(m)'
  BY DEF FreshInFlight, InRaw, InData, InManager, InInsert, Range
<1>3. \A m \in Msg :
          /\ Fresh(m) => Stage(m) = "memory" /\ fate[m] = {}
          /\ InDb(m) => Stage(m) = "table" /\ "stored" \in fate[m]
          /\ m > nread => Stage(m) = "new" /\ fate[m] = {} /\ sent[m] = 0
  BY DEF StageInv, Stored
<1>4. \A m \in Msg :
          /\ Fresh(m)' => Stage(m)' = "memory" /\ fate'[m] = {}
          /\ InDb(m)' => Stage(m)' = "table"
          /\ ~Fresh(m)' /\ ~InDb(m)' /\ m <= nread' => Stage(m)' = "gone"
  BY DEF StageInv
<1>5. ASSUME NEW m \in Msg, Fresh(m)' <=> Fresh(m), InDb(m)' <=> InDb(m),
             m > nread' <=> m > nread
      PROVE  Stage(m)' = Stage(m)
  BY <1>5 DEF Stage
<1>6. ASSUME \A m \in Msg : Stage(m)' = Stage(m),
             \A m \in Msg : IsLost(m)' <=> IsLost(m), UNCHANGED <<sent, overlapped>>
      PROVE  UNCHANGED Promise!promiseVars
  BY <1>6 DEF Promise!promiseVars
<1>7. ASSUME NEW m \in Msg, NEW from, NEW to, Stage(m) = from, Stage(m)' = to,
             \A x \in Msg \ {m} : Stage(x)' = Stage(x)
      PROVE  Promise!Moves(m, from, to)
  BY <1>7 DEF Promise!Moves
<1>8. ASSUME NEW S \in SUBSET Msg,
             \A m \in S : Stage(m) = "memory" /\ Stage(m)' = "gone",
             \A m \in Msg \ S : Stage(m)' = Stage(m),
             \A m \in Msg : IsLost(m)' <=> IsLost(m) \/ m \in S,
             UNCHANGED <<sent, overlapped>>
      PROVE  Promise!Next
  <2>1. {m \in Msg : IsLost(m)'} = {m \in Msg : IsLost(m)} \cup S
    BY <1>8
  <2>2. [m \in Msg |-> Stage(m)'] = [m \in Msg |-> IF m \in S THEN "gone" ELSE Stage(m)]
    BY <1>8
  <2>3. Promise!Lose(S)
    BY <1>8, <2>1, <2>2 DEF Promise!Lose
  <2>4. QED
    BY <2>3 DEF Promise!Next
<1>9. UNCHANGED fate => \A m \in Msg : IsLost(m)' <=> IsLost(m)
  OBVIOUS
<1>10. UNCHANGED db => \A m \in Msg : InDb(m)' <=> InDb(m)
  OBVIOUS
<1>11. /\ UNCHANGED rawQ => \A m \in Msg : InRaw(m)' <=> InRaw(m)
       /\ UNCHANGED datumQ => \A m \in Msg : InData(m)' <=> InData(m)
       /\ UNCHANGED dbQ => \A m \in Msg : InInsert(m)' <=> InInsert(m)
       /\ UNCHANGED <<mgrPc, held>> => \A m \in Msg : InManager(m)' <=> InManager(m)
  BY DEF InRaw, InData, InInsert, InManager
<1>12. ASSUME rawQ # << >>, rawQ' = Tail(rawQ)
       PROVE  /\ Head(rawQ) \in Msg
              /\ \A m \in Msg : InRaw(m) <=> m = Head(rawQ) \/ InRaw(m)'
  BY <1>1, <1>12, RangeTail, HeadTailProperties DEF InRaw
<1>13. ASSUME datumQ # << >>, datumQ' = Tail(datumQ)
       PROVE  \A m \in Msg : InData(m) <=> Message(0, m) = Head(datumQ) \/ InData(m)'
  BY <1>1, <1>13, RangeTail DEF InData
<1>14. ASSUME dbQ # << >>, dbQ' = Tail(dbQ)
       PROVE  \A m \in Msg : InInsert(m) <=> InsertReq(m) = Head(dbQ) \/ InInsert(m)'
  BY <1>1, <1>14, RangeTail DEF InInsert
<1>15. ASSUME NEW d \in Datum, datumQ' = Append(datumQ, d)
       PROVE  \A m \in Msg : InData(m)' <=> InData(m) \/ Message(0, m) = d
  <2>1. Range(datumQ') = Range(datumQ) \cup {d}
    BY <1>1, <1>15, RangeAppend
  <2>2. QED
    BY <2>1 DEF InData
<1>16. ASSUME NEW e \in DbReq, dbQ' = Append(dbQ, e)
       PROVE  \A m \in Msg : InInsert(m)' <=> InInsert(m) \/ InsertReq(m) = e
  <2>1. Range(dbQ') = Range(dbQ) \cup {e}
    BY <1>1, <1>16, RangeAppend
  <2>2. QED
    BY <2>1 DEF InInsert
<1>17. \A m \in Msg : /\ Message(0, m) \in Datum /\ Message(0, m).type = "Message"
                      /\ Message(0, m).id = 0 /\ Message(0, m).msg = m
                      /\ InsertReq(m) \in DbReq /\ InsertReq(m).msg = m
                      /\ InsertReq(m).op = "INSERT"
  BY FreshDatum
<1>18. \A m \in Msg : AtOnePlace(m) /\ FreshIsNew(m)
  BY DEF GatewayInv, AllFresh, FreshInv
<1> HIDE DEF IsLost, Fresh, InDb
(* Steps that are none for the promise. *)
<1>19. ASSUME \A m \in Msg : Fresh(m)' <=> Fresh(m),
              UNCHANGED <<nread, fate, sent, overlapped, db>>
       PROVE  UNCHANGED Promise!promiseVars
  <2>1. \A m \in Msg : Stage(m)' = Stage(m)
    BY <1>5, <1>10, <1>19
  <2>2. QED
    BY <1>6, <1>9, <1>19, <2>1
<1>20. CASE ReadInput
  <2>0. PICK n \in Msg : n = nread + 1
    BY <1>1, <1>20, CloudLinkAssumption DEF ReadInput, Msg
  <2>1. /\ nread' = n /\ rawQ' = Append(rawQ, n)
        /\ UNCHANGED <<datumQ, dbQ, mgrPc, held, resQ, fate, sent, db, overlapped>>
    BY <1>20, <2>0 DEF ReadInput, linkVars
  <2>2. Range(rawQ') = Range(rawQ) \cup {n}
    BY <1>1, <2>1, RangeAppend
  <2>3. \A m \in Msg : InRaw(m)' <=> InRaw(m) \/ m = n
    BY <2>2 DEF InRaw
  <2>4. \A m \in Msg \ {n} : Stage(m)' = Stage(m)
    <3>1. \A m \in Msg \ {n} : (Fresh(m)' <=> Fresh(m)) /\ (InDb(m)' <=> InDb(m))
      BY <1>2, <1>10, <1>11, <2>1, <2>3
    <3>2. \A m \in Msg \ {n} : m > nread' <=> m > nread
      BY <1>1, <2>0, <2>1
    <3>3. QED
      BY <1>5, <3>1, <3>2
  <2>5. Stage(n) = "new" /\ Stage(n)' = "memory"
    <3>1. n > nread
      BY <1>1, <2>0
    <3>2. Fresh(n)'
      BY <1>2, <2>1, <2>3
    <3>3. QED
      BY <1>3, <1>4, <2>1, <3>1, <3>2
  <2>6. Promise!Moves(n, "new", "memory")
    BY <1>7, <2>1, <2>4, <2>5
  <2>7. {m \in Msg : fate'[m] \cap LostFates # {}} = {m \in Msg : fate[m] \cap LostFates # {}}
    BY <2>1
  <2>8. Promise!Receive(n)
    BY <2>1, <2>6, <2>7 DEF Promise!Receive
  <2>9. QED
    BY <2>1, <2>8 DEF Promise!Next
<1>21. CASE HandleInput
  <2>1. rawQ # << >> /\ rawQ' = Tail(rawQ)
        /\ UNCHANGED <<dbQ, mgrPc, held, resQ, nread, sent, db, overlapped>>
    BY <1>21 DEF HandleInput
  <2>2. Head(rawQ) \in Msg /\ \A m \in Msg : InRaw(m) <=> m = Head(rawQ) \/ InRaw(m)'
    BY <1>12, <2>1
  <2>3. CASE Befalls(Head(rawQ), "rejected") /\ UNCHANGED datumQ
    <3>0. PICK h \in Msg : h = Head(rawQ)
      BY <2>2
    <3>1. /\ fate'[h] = fate[h] \cup {"rejected"}
          /\ \A m \in Msg \ {h} : fate'[m] = fate[m]
      BY <1>1, <2>3, <3>0 DEF Befalls
    <3>2. \A m \in Msg : IsLost(m)' <=> IsLost(m) \/ m \in {h}
      BY <3>1 DEF IsLost, LostFates
    <3>3. \A m \in Msg \ {h} : Stage(m)' = Stage(m)
      BY <1>2, <1>5, <1>10, <1>11, <2>1, <2>2, <2>3, <3>0
    <3>4. Stage(h) = "memory" /\ ~InDb(h) /\ ~(h > nread)
      BY <1>2, <1>3, <2>2, <3>0
    <3>5. Stage(h)' = "gone"
      <4>1. ~Fresh(h)'
        BY <1>4, <2>2, <3>1
      <4>2. ~InDb(h)'
        BY <1>10, <2>1, <2>2, <3>4
      <4>3. h <= nread'
        BY <1>1, <2>1, <2>2, <3>4
      <4>4. QED
        BY <1>4, <2>2, <4>1, <4>2, <4>3
    <3>6. {h} \in SUBSET Msg
      OBVIOUS
    <3>7. Promise!Next
      BY <1>8, <2>1, <3>2, <3>3, <3>4, <3>5, <3>6
    <3>8. QED
      BY <3>7
  <2>4. CASE datumQ' = Append(datumQ, Message(0, Head(rawQ))) /\ UNCHANGED fate
    <3>1. \A m \in Msg : InData(m)' <=> InData(m) \/ m = Head(rawQ)
      <4>1. \A m \in Msg : InData(m)' <=> InData(m) \/ Message(0, m) = Message(0, Head(rawQ))
        BY <1>15, <1>17, <2>2, <2>4
      <4>2. \A m \in Msg : Message(0, m) = Message(0, Head(rawQ)) <=> m = Head(rawQ)
        BY <1>17, <2>2
      <4>3. QED
        BY <4>1, <4>2
    <3>2. \A m \in Msg : Fresh(m)' <=> Fresh(m)
      BY <1>2, <1>11, <2>1, <2>2, <3>1
    <3>3. QED
      BY <1>19, <2>1, <2>4, <3>2
  <2>5. QED
    BY <1>21, <2>3, <2>4 DEF HandleInput
<1>22. CASE ManagerMessage
  <2>1. /\ mgrPc = "idle" /\ datumQ # << >> /\ datumQ' = Tail(datumQ)
        /\ Head(datumQ).type = "Message"
        /\ UNCHANGED <<rawQ, nread, fate, sent, db, overlapped>>
    BY <1>22 DEF ManagerMessage
  <2>2. Head(datumQ) \in Datum
    BY <1>1, <2>1, HeadTailProperties
  <2>3. \A m \in Msg : /\ ~InManager(m)
                       /\ InData(m) <=> Message(0, m) = Head(datumQ) \/ InData(m)'
    BY <1>13, <2>1 DEF InManager
  <2>4. CASE mgrPc' = "await_pub" /\ held' = Head(datumQ) /\ dbQ' = dbQ
    <3>1. \A m \in Msg : InManager(m)' <=> Message(0, m) = Head(datumQ)
      BY <2>4 DEF InManager
    <3>2. QED
      BY <1>2, <1>11, <1>19, <2>1, <2>3, <2>4, <3>1
  <2>5. CASE /\ Head(datumQ).id = 0 /\ UNCHANGED <<mgrPc, held>>
             /\ dbQ' = Append(dbQ, InsertReq(Head(datumQ).msg))
    <3>1. Head(datumQ).msg \in Msg /\ Head(datumQ) = Message(0, Head(datumQ).msg)
      BY <2>1, <2>2, <2>5, FreshDatum
    <3>2. \A m \in Msg : InInsert(m)' <=> InInsert(m) \/ InsertReq(m) = InsertReq(Head(datumQ).msg)
      BY <1>16, <1>17, <2>5, <3>1
    <3>3. \A m \in Msg : /\ InsertReq(m) = InsertReq(Head(datumQ).msg) <=> m = Head(datumQ).msg
                         /\ Message(0, m) = Head(datumQ) <=> m = Head(datumQ).msg
      BY <1>17, <3>1
    <3>4. QED
      BY <1>2, <1>11, <1>19, <2>1, <2>3, <2>5, <3>2, <3>3
  <2>6. CASE Head(datumQ).id # 0 /\ UNCHANGED <<mgrPc, held, dbQ>>
    <3>1. \A m \in Msg : Message(0, m) # Head(datumQ)
      BY <1>17, <2>6
    <3>2. QED
      BY <1>2, <1>11, <1>19, <2>1, <2>3, <2>6, <3>1
  <2>7. QED
    BY <1>22, <2>4, <2>5, <2>6 DEF ManagerMessage
<1>23. CASE ManagerResult
  <2>1. /\ mgrPc = "await_pub" /\ resQ # << >>
        /\ UNCHANGED <<rawQ, datumQ, nread, fate, sent, db, overlapped>>
    BY <1>23 DEF ManagerResult, linkVars
  <2>2. held.type = "Message" /\ held \in Datum
    BY <1>23, <1>1, ResultOutcome
  <2>3. held.msg \in Msg /\ (held.id = 0 <=> held = Message(0, held.msg))
    BY <1>17, <2>2, FreshDatum
  <2>4. \A m \in Msg : InManager(m) <=> held.id = 0 /\ held.msg = m
    BY <1>17, <2>1, <2>3 DEF InManager
  <2>5. CASE held.id = 0 /\ Head(resQ) = TRUE /\ dbQ' = dbQ /\ mgrPc' = "idle"
    <3>1. PICK h \in Msg : h = held.msg
      BY <2>3
    <3>2. \A m \in Msg : ~InManager(m)'
      BY <2>5 DEF InManager
    <3>3. \A m \in Msg \ {h} : Stage(m)' = Stage(m)
      BY <1>2, <1>5, <1>10, <1>11, <2>1, <2>4, <2>5, <3>1, <3>2
    <3>4. InManager(h) /\ ~InRaw(h) /\ ~InData(h) /\ ~InInsert(h)
      BY <1>18, <2>4, <2>5, <3>1 DEF AtOnePlace
    <3>5. Stage(h) = "memory" /\ ~InDb(h) /\ ~(h > nread)
      BY <1>2, <1>3, <3>4
    <3>6. Stage(h)' = "gone"
      <4>1. ~Fresh(h)' /\ ~InDb(h)'
        BY <1>2, <1>10, <1>11, <2>1, <2>5, <3>2, <3>4, <3>5
      <4>2. h <= nread'
        BY <1>1, <2>1, <3>5
      <4>3. QED
        BY <1>4, <4>1, <4>2
    <3>7. sent[h] > 0
      <4>1. Head(resQ) \in Range(resQ)
        BY <1>1, <2>1, RangeTail
      <4>2. TRUE \in Range(resQ)
        BY <2>5, <4>1
      <4>3. QED
        BY <3>1, <4>2 DEF GatewayInv, LossInv, ResultIsTrue
    <3>8. Promise!Moves(h, "memory", "gone")
      BY <1>7, <3>3, <3>5, <3>6
    <3>9. {m \in Msg : fate'[m] \cap LostFates # {}} = {m \in Msg : fate[m] \cap LostFates # {}}
      BY <2>1
    <3>10. Promise!Forget(h)
      BY <2>1, <3>7, <3>8, <3>9 DEF Promise!Forget
    <3>11. QED
      BY <3>10 DEF Promise!Next
  <2>6. CASE /\ held.id = 0 /\ mgrPc' = "idle"
             /\ dbQ' = Append(dbQ, InsertReq(held.msg))
    <3>1. \A m \in Msg : ~InManager(m)'
      BY <2>6 DEF InManager
    <3>2. \A m \in Msg : InInsert(m)' <=> InInsert(m) \/ InsertReq(m) = InsertReq(held.msg)
      BY <1>16, <1>17, <2>3, <2>6
    <3>3. \A m \in Msg : InsertReq(m) = InsertReq(held.msg) <=> m = held.msg
      BY <1>17, <2>3
    <3>4. QED
      BY <1>2, <1>11, <1>19, <2>1, <2>4, <2>6, <3>1, <3>2, <3>3
  <2>7. CASE held.id # 0 /\ mgrPc' = "idle" /\ dbQ' = dbQ
    <3>1. \A m \in Msg : ~InManager(m)' /\ ~InManager(m)
      BY <2>4, <2>7 DEF InManager
    <3>2. QED
      BY <1>2, <1>11, <1>19, <2>1, <2>7, <3>1
  <2>8. CASE /\ held.id \in RowId /\ held' = held
             /\ dbQ' = Append(dbQ, DeleteReq(held.id))
    <3>1. /\ held.id # 0 /\ DeleteReq(held.id) \in DbReq
          /\ DeleteReq(held.id).op = "DELETE"
      BY <2>8 DEF RowId, DeleteReq, DbReq
    <3>2. \A m \in Msg : InsertReq(m) # DeleteReq(held.id)
      BY <1>17, <3>1
    <3>3. \A m \in Msg : ~InManager(m)' /\ ~InManager(m)
      BY <1>17, <2>4, <2>8, <3>1 DEF InManager
    <3>4. \A m \in Msg : InInsert(m)' <=> InInsert(m)
      BY <1>16, <2>8, <3>1, <3>2
    <3>5. QED
      BY <1>2, <1>11, <1>19, <2>1, <3>3, <3>4
  <2>9. QED
    BY <1>1, <1>23, <2>5, <2>6, <2>7, <2>8, ResultOutcome
<1>24. CASE ManagerDeleted
  <2>1. /\ mgrPc = "await_del" /\ mgrPc' = "idle"
        /\ UNCHANGED <<rawQ, datumQ, dbQ, nread, fate, sent, db, overlapped>>
    BY <1>24 DEF ManagerDeleted, linkVars
  <2>2. held.id # 0
    BY <2>1 DEF GatewayInv, LossInv, ReplayedWereStored
  <2>3. \A m \in Msg : ~InManager(m) /\ ~InManager(m)'
    BY <1>17, <2>1, <2>2 DEF InManager
  <2>4. QED
    BY <1>2, <1>11, <1>19, <2>1, <2>3
<1>25. CASE PubMessage
  <2>1. /\ mgrPc = "await_pub" /\ resQ = << >> /\ Head(pubQ) = held.msg
        /\ held.msg \in Msg /\ held.id \in Nat
        /\ held.id = 0 => InManager(held.msg)
    BY <1>1, <1>25, PublishedIsHeld DEF GatewayInv, RepliesMatchRequests
  <2>2. UNCHANGED <<rawQ, datumQ, dbQ, mgrPc, held, nread, fate, db, overlapped>>
    BY <1>25 DEF PubMessage
  <2>3. \A m \in Msg : Fresh(m)' <=> Fresh(m)
    BY <1>2, <1>11, <2>2
  <2>4. CASE UNCHANGED sent
    BY <1>19, <2>2, <2>3, <2>4
  <2>5. CASE sent' = [sent EXCEPT ![held.msg] = @ + 1]
    <3>1. PICK h \in Msg : h = held.msg
      BY <2>1
    <3>2. \A m \in Msg : Stage(m)' = Stage(m)
      BY <1>5, <1>10, <2>2, <2>3
    <3>3. \/ Stage(h) = "memory" /\ sent[h] = 0
          \/ Stage(h) = "table"
          \/ overlapped
      <4>1. CASE held.id = 0
        <5>1. InManager(h)
          BY <2>1, <3>1, <4>1
        <5>2. ~PositiveResult
          BY <2>1 DEF PositiveResult
        <5>3. sent[h] = 0
          BY <1>1, <1>18, <5>1, <5>2 DEF FreshIsNew
        <5>4. QED
          BY <1>2, <1>3, <5>1, <5>3
      <4>2. CASE held.id # 0 /\ ~overlapped
        <5>1. InTable(held.id, held.msg)
          BY <2>1, <4>2 DEF GatewayInv, StoreInv, ReplaysMatch
        <5>2. InDb(h)
          BY <3>1, <5>1 DEF InTable, InDb, Range
        <5>3. QED
          BY <1>3, <5>2
      <4>3. QED
        BY <4>1, <4>2
    <3>4. [m \in Msg |-> Stage(m)'] = [m \in Msg |-> Stage(m)]
      BY <3>2
    <3>5. {m \in Msg : fate'[m] \cap LostFates # {}} = {m \in Msg : fate[m] \cap LostFates # {}}
      BY <2>2
    <3>6. Promise!Upload(h)
      BY <2>2, <2>5, <3>1, <3>3, <3>4, <3>5 DEF Promise!Upload
    <3>7. QED
      BY <3>6 DEF Promise!Next
  <2>6. QED
    BY <1>25, <2>1, <2>4, <2>5 DEF PubMessage
<1>26. CASE OfflineTrigger
  <2>1. /\ QueryReq \in DbReq /\ \A m \in Msg : InsertReq(m) # QueryReq
    BY <1>17, RequestKinds DEF Queries, QueryReq
  <2>2. dbQ' = Append(dbQ, QueryReq)
        /\ UNCHANGED <<rawQ, datumQ, mgrPc, held, nread, fate, sent, db, overlapped>>
    BY <1>26 DEF OfflineTrigger
  <2>3. \A m \in Msg : InInsert(m)' <=> InInsert(m)
    BY <1>16, <2>1, <2>2
  <2>4. QED
    BY <1>2, <1>11, <1>19, <2>2, <2>3
<1>27. CASE OfflineSend
  <2>1. UNCHANGED <<rawQ, dbQ, mgrPc, held, nread, fate, sent, db, overlapped>>
    BY <1>27 DEF OfflineSend
  <2>2. \A m \in Msg : InData(m)' <=> InData(m)
    <3>1. CASE datumQ' = Append(datumQ, Message(FirstRow(rows), rows[FirstRow(rows)]))
      <4> DEFINE d == Message(FirstRow(rows), rows[FirstRow(rows)])
      <4>1. FirstRow(rows) \in DOMAIN rows /\ IsTable(rows, Msg)
        BY <1>1, <1>27, FirstRowExists DEF OfflineSend, TypeOK, PipeTypeOK
      <4>2. d \in Datum /\ d.id # 0
        BY <4>1 DEF IsTable, RowId, Message, Datum
      <4> HIDE DEF d
      <4>3. \A m \in Msg : Message(0, m) # d
        BY <1>17, <4>2
      <4>4. QED
        BY <1>15, <3>1, <4>2, <4>3 DEF d
    <3>2. CASE UNCHANGED datumQ
      BY <1>11, <3>2
    <3>3. QED
      BY <1>27, <3>1, <3>2 DEF OfflineSend
  <2>3. QED
    BY <1>2, <1>11, <1>19, <2>1, <2>2
<1>28. CASE DbInsert
  <2>1. /\ dbQ # << >> /\ dbQ' = Tail(dbQ)
        /\ UNCHANGED <<rawQ, datumQ, mgrPc, held, nread, sent, overlapped>>
    BY <1>28 DEF DbInsert, NextReqIs, linkVars
  <2>2. PICK h \in Msg : h = Head(dbQ).msg /\ Head(dbQ) = InsertReq(h)
    BY <1>1, <1>28, HeadTailProperties, FreshDatum DEF DbInsert, NextReqIs
  <2>3. \A m \in Msg : InInsert(m) <=> m = h \/ InInsert(m)'
    <3>1. \A m \in Msg : InsertReq(m) = InsertReq(h) <=> m = h
      BY <1>17
    <3>2. QED
      BY <1>14, <2>1, <2>2, <3>1
  <2>4. \A m \in Msg \ {h} : Fresh(m)' <=> Fresh(m)
    BY <1>2, <1>11, <2>1, <2>3
  <2>5. Stage(h) = "memory" /\ ~InDb(h) /\ ~(h > nread) /\ sent[h] = 0
    BY <1>2, <1>3, <1>18, <2>3 DEF FreshIsNew
  <2>6. CASE db' = InsertRow(db, h) /\ Befalls(h, "stored")
    <3>1. \A m \in Msg : InDb(m)' <=> InDb(m) \/ m = h
      <4>1. \A r \in DOMAIN db' : (r \in DOMAIN db /\ db'[r] = db[r]) \/ db'[r] = h
        BY <1>1, <2>6, RowsAdded
      <4>2. /\ \A r \in DOMAIN db : r \in DOMAIN db' /\ db'[r] = db[r]
            /\ \E r \in DOMAIN db' : db'[r] = h
        BY <1>1, <2>6, KeptAfterInsert
      <4>3. QED
        BY <4>1, <4>2 DEF InDb, Range
    <3>2. \A m \in Msg \ {h} : Stage(m)' = Stage(m)
      BY <1>5, <2>1, <2>4, <3>1
    <3>3. Stage(h)' = "table"
      BY <1>4, <3>1
    <3>4. Promise!Moves(h, "memory", "table")
      BY <1>7, <2>5, <3>2, <3>3
    <3>5. {m \in Msg : fate'[m] \cap LostFates # {}} = {m \in Msg : fate[m] \cap LostFates # {}}
      <4>1. fate'[h] = fate[h] \cup {"stored"} /\ \A m \in Msg \ {h} : fate'[m] = fate[m]
        BY <1>1, <2>6 DEF Befalls
      <4>2. "stored" \notin LostFates
        BY DEF LostFates
      <4>3. QED
        BY <4>1, <4>2
    <3>6. Promise!Store(h)
      BY <2>1, <2>5, <3>4, <3>5 DEF Promise!Store
    <3>7. QED
      BY <3>6 DEF Promise!Next
  <2>7. CASE Befalls(h, "unsaved") /\ UNCHANGED db
    <3>1. fate'[h] = fate[h] \cup {"unsaved"} /\ \A m \in Msg \ {h} : fate'[m] = fate[m]
      BY <1>1, <2>7 DEF Befalls
    <3>2. \A m \in Msg : IsLost(m)' <=> IsLost(m) \/ m \in {h}
      BY <3>1 DEF IsLost, LostFates
    <3>3. \A m \in Msg \ {h} : Stage(m)' = Stage(m)
      BY <1>5, <1>10, <2>1, <2>4, <2>7
    <3>4. Stage(h)' = "gone"
      <4>1. ~Fresh(h)'
        BY <1>4, <3>1
      <4>2. ~InDb(h)' /\ h <= nread'
        BY <1>1, <1>10, <2>1, <2>5, <2>7
      <4>3. QED
        BY <1>4, <4>1, <4>2
    <3>5. {h} \in SUBSET Msg
      OBVIOUS
    <3>6. Promise!Next
      BY <1>8, <2>1, <2>5, <3>2, <3>3, <3>4, <3>5
    <3>7. QED
      BY <3>6
  <2>8. QED
    BY <1>28, <2>2, <2>6, <2>7 DEF DbInsert
<1>29. CASE DbQuery
  <2>1. /\ dbQ # << >> /\ dbQ' = Tail(dbQ) /\ Head(dbQ).op = "QUERY"
        /\ UNCHANGED <<rawQ, datumQ, mgrPc, held, nread, fate, sent, db>>
        /\ overlapped' = (overlapped \/ ReplayUnderWay)
    BY <1>29 DEF DbQuery, NextReqIs, linkVars
  <2>2. \A m \in Msg : InsertReq(m) # Head(dbQ)
    BY <1>17, <2>1
  <2>3. \A m \in Msg : Fresh(m)' <=> Fresh(m)
    BY <1>2, <1>11, <1>14, <2>1, <2>2
  <2>4. CASE overlapped' = overlapped
    BY <1>19, <2>1, <2>3, <2>4
  <2>5. CASE overlapped' = TRUE
    <3>1. \A m \in Msg : Stage(m)' = Stage(m)
      BY <1>5, <1>10, <2>1, <2>3
    <3>2. [m \in Msg |-> Stage(m)'] = [m \in Msg |-> Stage(m)]
      BY <3>1
    <3>3. {m \in Msg : fate'[m] \cap LostFates # {}} = {m \in Msg : fate[m] \cap LostFates # {}}
      BY <2>1
    <3>4. Promise!Muddle
      BY <2>1, <2>5, <3>2, <3>3 DEF Promise!Muddle
    <3>5. QED
      BY <3>4 DEF Promise!Next
  <2>6. overlapped' = overlapped \/ overlapped' = TRUE
    <3>1. overlapped => overlapped'
      BY <2>1
    <3>2. QED
      BY <1>1, <3>1
  <2>7. QED
    BY <2>4, <2>5, <2>6
<1>30. CASE DbDelete
  <2>1. /\ dbQ # << >> /\ dbQ' = Tail(dbQ) /\ Head(dbQ).op = "DELETE"
        /\ UNCHANGED <<rawQ, datumQ, mgrPc, held, nread, fate, sent, overlapped>>
    BY <1>30 DEF DbDelete, NextReqIs, linkVars
  <2>2. \A m \in Msg : InsertReq(m) # Head(dbQ)
    BY <1>17, <2>1
  <2>3. \A m \in Msg : Fresh(m)' <=> Fresh(m)
    BY <1>2, <1>11, <1>14, <2>1, <2>2
  <2>4. CASE \A m \in Msg : InDb(m)' <=> InDb(m)
    <3>1. \A m \in Msg : Stage(m)' = Stage(m)
      BY <1>5, <2>1, <2>3, <2>4
    <3>2. QED
      BY <1>6, <1>9, <2>1, <3>1
  <2>5. CASE db' = DeleteRow(db, Head(dbQ).id) /\ ~\A m \in Msg : InDb(m)' <=> InDb(m)
    <3>1. PICK r : r = Head(dbQ).id
      OBVIOUS
    <3>2. \A s \in DOMAIN db' : s \in DOMAIN db /\ db'[s] = db[s]
      BY <1>1, <2>5, RowsLeft
    <3>3. \A s \in DOMAIN db : s # r => s \in DOMAIN db' /\ db'[s] = db[s]
      BY <1>1, <2>5, <3>1, KeptAfterDelete
    <3>4. r \in DOMAIN db /\ db[r] \in Msg
      <4>1. r \in DOMAIN db
        BY <2>5, <3>2, <3>3 DEF InDb, Range
      <4>2. QED
        BY <1>1, <4>1 DEF IsTable
    <3>5. PICK h \in Msg : h = db[r]
      BY <3>4
    <3>6. \A m \in Msg \ {h} : InDb(m)' <=> InDb(m)
      BY <3>2, <3>3, <3>5 DEF InDb, Range
    <3>7. InDb(h) /\ ~InDb(h)'
      BY <2>5, <3>4, <3>5, <3>6 DEF InDb, Range
    <3>8. Stage(h) = "table" /\ ~Fresh(h) /\ ~(h > nread)
      BY <1>3, <3>7
    <3>9. Stage(h)' = "gone"
      <4>1. h <= nread'
        BY <1>1, <2>1, <3>8
      <4>2. QED
        BY <1>4, <2>3, <3>7, <3>8, <4>1
    <3>10. \A m \in Msg \ {h} : Stage(m)' = Stage(m)
      BY <1>5, <2>1, <2>3, <3>6
    <3>11. Promise!Moves(h, "table", "gone")
      BY <1>7, <3>8, <3>9, <3>10
    <3>12. sent[h] > 0 \/ overlapped
      <4>1. SUFFICES ASSUME ~overlapped PROVE sent[h] > 0
        OBVIOUS
      <4>2. Head(dbQ) \in Deletes /\ Head(dbQ) \in Range(dbQ)
        BY <1>1, <2>1, RangeTail, HeadTailProperties DEF Deletes
      <4>3. InTable(r, held.msg) /\ sent[held.msg] > 0
        BY <3>1, <4>1, <4>2 DEF GatewayInv, StoreInv, ReplaysMatch, DeletedWasSent
      <4>4. QED
        BY <3>5, <4>3 DEF InTable
    <3>13. {m \in Msg : fate'[m] \cap LostFates # {}} = {m \in Msg : fate[m] \cap LostFates # {}}
      BY <2>1
    <3>14. Promise!Remove(h)
      BY <2>1, <3>11, <3>12, <3>13 DEF Promise!Remove
    <3>15. QED
      BY <3>14 DEF Promise!Next
  <2>6. CASE UNCHANGED db
    BY <1>10, <2>4, <2>6
  <2>7. QED
    BY <1>30, <2>4, <2>5, <2>6 DEF DbDelete
<1>31. CASE LinkStep
  <2>1. UNCHANGED <<rawQ, dbQ, mgrPc, held, nread, fate, sent, db, overlapped>>
    BY <1>31 DEF LinkStep, pipeVars
  <2>2. \A m \in Msg : InData(m)' <=> InData(m)
    <3>1. \A d \in Datum : d.type = "Notice" => \A m \in Msg : Message(0, m) # d
      BY <1>17
    <3>2. CASE UNCHANGED datumQ
      BY <1>11, <3>2
    <3>3. CASE \E d \in Datum : d.type = "Notice" /\ datumQ' = Append(datumQ, d)
      BY <1>15, <3>1, <3>3
    <3>4. CASE datumQ # << >> /\ datumQ' = Tail(datumQ) /\ Head(datumQ).type = "Notice"
      BY <1>13, <1>17, <3>4
    <3>5. QED
      BY <1>1, <1>31, <3>2, <3>3, <3>4, LinkData DEF TypeOK
  <2>3. QED
    BY <1>2, <1>11, <1>19, <2>1, <2>2
<1>32. CASE Crash
  <2>1. /\ rawQ' = << >> /\ datumQ' = << >> /\ dbQ' = << >> /\ mgrPc' = "idle"
        /\ UNCHANGED <<nread, sent, db, overlapped>>
    BY <1>32 DEF Crash, LinkRestart, PipeRestart
  <2>2. \A m \in Msg : ~InRaw(m)' /\ ~InData(m)' /\ ~InManager(m)' /\ ~InInsert(m)'
    BY <2>1, RangeEmpty DEF InRaw, InData, InManager, InInsert
  <2>3. \A m \in Msg : ~Fresh(m)' /\ (InDb(m)' <=> InDb(m))
    BY <1>2, <1>10, <2>1, <2>2
  <2>4. PICK S \in SUBSET Msg : S = {m \in Msg : Fresh(m)}
    OBVIOUS
  <2>5. \A m \in S : Stage(m) = "memory" /\ Stage(m)' = "gone"
    <3>1. \A m \in S : m \in Msg /\ Stage(m) = "memory" /\ ~InDb(m) /\ ~(m > nread)
      BY <1>3, <2>4
    <3>2. \A m \in S : m <= nread'
      BY <1>1, <2>1, <3>1
    <3>3. QED
      BY <1>4, <2>3, <3>1, <3>2
  <2>6. \A m \in Msg \ S : Stage(m)' = Stage(m)
    BY <1>5, <2>1, <2>3, <2>4
  <2>7. \A m \in Msg : IsLost(m)' <=> IsLost(m) \/ m \in S
    <3>1. \A m \in Msg : fate'[m] = IF Fresh(m) THEN fate[m] \cup {"crashed"} ELSE fate[m]
      BY <1>32 DEF Crash, Fresh
    <3>2. QED
      BY <2>4, <3>1 DEF IsLost, LostFates
  <2>8. Promise!Next
    BY <1>8, <2>1, <2>5, <2>6, <2>7
  <2>9. QED
    BY <2>8
<1>33. CASE OfflineRows \/ UNCHANGED vars
  <2>1. UNCHANGED <<rawQ, datumQ, dbQ, mgrPc, held, nread, fate, sent, db, overlapped>>
    BY <1>33 DEF OfflineRows, vars, linkVars, pipeVars
  <2>2. QED
    BY <1>2, <1>11, <1>19, <2>1
<1>34. QED
  BY <1>20, <1>21, <1>22, <1>23, <1>24, <1>25, <1>26, <1>27, <1>28, <1>29,
     <1>30, <1>31, <1>32, <1>33
  DEF Next, Offline, Db

(* The whole path keeps the promise of StoreAndForward at every step: what is
   uploaded was in memory for the first time or in the table, what leaves
   memory or the table was uploaded or is on record as lost.               *)
THEOREM KeepsPromise == Spec => ImplementsStoreAndForward
<1>1. TypeOK' /\ GatewayInv /\ StageInv /\ StageInv' /\ [Next]_vars
          => [Promise!Next]_(Promise!promiseVars)
  BY PromiseStep
<1>2. GatewayInv => TypeOK
  BY DEF GatewayInv
<1>3. QED
  BY <1>1, <1>2, PromiseInit, StagesAreClear, GatewayInvariant, PTL
  DEF Spec, ImplementsStoreAndForward, Promise!Spec

=============================================================================
