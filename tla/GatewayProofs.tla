---------------------------- MODULE GatewayProofs ----------------------------
(***************************************************************************)
(* Proofs about Gateway, for any number of messages, losses and crashes    *)
(* and any set of faults: the row ids of the device's table, the types,    *)
(* that replies match requests, and that no message is lost silently.      *)
(***************************************************************************)
EXTENDS Gateway, CloudLinkProofs, FiniteSetTheorems, WellFoundedInduction

-----------------------------------------------------------------------------
(* The device's table: what its operations preserve, whatever its size. *)

(* Every non-empty set of naturals has a least element. *)
LEMMA LeastNatural ==
    ASSUME NEW T \in SUBSET Nat, T # {}
    PROVE  \E n \in T : \A m \in T : n <= m
<1>1. PICK n \in T : \A m \in T : ~(<<m, n>> \in OpToRel(<, Nat))
  BY NatLessThanWellFounded, WFMin
<1>2. \A m \in T : ~(m < n)
  BY <1>1 DEF OpToRel
<1>3. QED
  BY <1>2

(* A finite, non-empty set of naturals has a largest element: a smallest set
   without one would have one once an element is taken away, and then either
   that or the element is the largest of all.                              *)
LEMMA LargestNatural ==
    ASSUME NEW S \in SUBSET Nat, IsFiniteSet(S), S # {}
    PROVE  \E x \in S : \A y \in S : y <= x
<1> DEFINE Bounded(U) == \E x \in U : \A y \in U : y <= x
           Bad == {n \in Nat : \E U \in SUBSET Nat :
                      /\ IsFiniteSet(U) /\ U # {} /\ Cardinality(U) = n
                      /\ ~Bounded(U)}
<1>1. SUFFICES ASSUME ~Bounded(S) PROVE FALSE
  OBVIOUS
<1>2. Cardinality(S) \in Bad
  BY <1>1, FS_CardinalityType
<1>3. PICK n \in Bad : \A m \in Bad : n <= m
  BY <1>2, LeastNatural
<1>4. PICK U \in SUBSET Nat : /\ IsFiniteSet(U) /\ U # {} /\ Cardinality(U) = n
                              /\ ~Bounded(U)
  BY <1>3
<1>0. n \in Nat
  OBVIOUS
<1> HIDE DEF Bad
<1>5. PICK x \in U : TRUE
  BY <1>4
<1> DEFINE V == U \ {x}
<1>6. /\ IsFiniteSet(V) /\ Cardinality(V) = n - 1 /\ V \in SUBSET Nat
      /\ n - 1 \in Nat
  <2>1. IsFiniteSet(V) /\ Cardinality(V) = n - 1
    BY <1>4, <1>5, FS_RemoveElement
  <2>2. Cardinality(V) \in Nat
    BY <2>1, FS_CardinalityType
  <2>3. QED
    BY <2>1, <2>2
<1>7. CASE V = {}
  <2>1. U = {x} /\ x \in Nat
    BY <1>5, <1>7
  <2>2. QED
    BY <1>4, <2>1
<1>8. CASE V # {}
  <2>1. Bounded(V)
    <3>1. ~(n - 1 \in Bad)
      BY <1>0, <1>3, <1>6
    <3>2. QED
      BY <1>6, <1>8, <3>1 DEF Bad
  <2>2. PICK y \in V : \A z \in V : z <= y
    BY <2>1
  <2>3. y \in U /\ x \in Nat /\ y \in Nat /\ \A z \in U : z \in V \/ z = x
    BY <1>5, <2>2
  <2>4. CASE x <= y
    BY <1>4, <2>2, <2>3, <2>4
  <2>5. CASE y < x
    <3>1. \A z \in U : z <= x
      BY <2>2, <2>3, <2>5
    <3>2. QED
      BY <1>4, <1>5, <3>1
  <2>6. QED
    BY <2>3, <2>4, <2>5
<1>9. QED
  BY <1>7, <1>8

(* A new row never takes the place of a row that is still in the table, and
   never gets id 0, by which a fresh datum is told from a replayed one.    *)
THEOREM FreshRowId ==
    ASSUME NEW V, NEW t, IsTable(t, V)
    PROVE  NextRowId(t) \in RowId /\ NextRowId(t) \notin DOMAIN t
<1>1. CASE DOMAIN t = {}
  BY <1>1 DEF NextRowId, RowId
<1>2. CASE DOMAIN t # {}
  <2>1. \E x \in DOMAIN t : \A y \in DOMAIN t : x >= y
    <3>1. PICK x \in DOMAIN t : \A y \in DOMAIN t : y <= x
      BY <1>2, LargestNatural DEF IsTable, RowId
    <3>2. QED
      BY <3>1 DEF IsTable, RowId
  <2> DEFINE m == MaxOf!Max(DOMAIN t)
  <2>2. m \in DOMAIN t /\ \A y \in DOMAIN t : m >= y
    BY <2>1 DEF MaxOf!Max
  <2>3. m \in Nat \ {0} /\ m + 1 \notin DOMAIN t
    BY <2>2 DEF IsTable, RowId
  <2>4. QED
    BY <1>2, <2>3 DEF NextRowId, RowId
<1>3. QED
  BY <1>1, <1>2

LEMMA EmptyIsTable == ASSUME NEW V PROVE IsTable(EmptyTable, V)
  BY FS_EmptySet DEF IsTable, EmptyTable, RowId

(* INSERT adds its row and leaves all others as they are. *)
LEMMA InsertRowTable ==
    ASSUME NEW V, NEW t, IsTable(t, V), NEW v \in V
    PROVE  /\ IsTable(InsertRow(t, v), V)
           /\ DOMAIN InsertRow(t, v) = DOMAIN t \cup {NextRowId(t)}
           /\ InsertRow(t, v)[NextRowId(t)] = v
           /\ \A r \in DOMAIN t : InsertRow(t, v)[r] = t[r]
<1>1. NextRowId(t) \in RowId /\ NextRowId(t) \notin DOMAIN t
  BY FreshRowId
<1>2. DOMAIN InsertRow(t, v) = DOMAIN t \cup {NextRowId(t)}
  BY DEF InsertRow
<1>3. IsFiniteSet(DOMAIN t \cup {NextRowId(t)})
  BY FS_AddElement DEF IsTable
<1>4. /\ InsertRow(t, v)[NextRowId(t)] = v
      /\ \A r \in DOMAIN t : InsertRow(t, v)[r] = t[r]
  BY <1>1 DEF InsertRow
<1>5. InsertRow(t, v) \in [DOMAIN t \cup {NextRowId(t)} -> V]
  BY DEF InsertRow, IsTable
<1>6. QED
  BY <1>1, <1>2, <1>3, <1>4, <1>5 DEF IsTable

(* DELETE takes away the row it names and no other. *)
LEMMA DeleteRowTable ==
    ASSUME NEW V, NEW t, IsTable(t, V), NEW r
    PROVE  /\ IsTable(DeleteRow(t, r), V)
           /\ DOMAIN DeleteRow(t, r) = DOMAIN t \ {r}
           /\ \A s \in DOMAIN t \ {r} : DeleteRow(t, r)[s] = t[s]
<1>1. DOMAIN DeleteRow(t, r) = DOMAIN t \ {r}
  BY DEF DeleteRow, Restrict
<1>2. IsFiniteSet(DOMAIN t \ {r})
  BY FS_RemoveElement DEF IsTable
<1>3. QED
  BY <1>1, <1>2 DEF DeleteRow, Restrict, IsTable

(* The first row of a table that has rows is one of them. *)
LEMMA FirstRowExists ==
    ASSUME NEW V, NEW t, IsTable(t, V), DOMAIN t # {}
    PROVE  FirstRow(t) \in DOMAIN t
<1>1. \E x \in DOMAIN t : \A y \in DOMAIN t : x =< y
  BY LeastNatural DEF IsTable, RowId
<1>2. QED
  BY <1>1 DEF FirstRow, MaxOf!Min

-----------------------------------------------------------------------------
(* The types, and the calls that replies answer. *)

(* A sequence over its own elements stays one when an element is appended or
   taken away (SeqOfRange is the library's).                               *)
LEMMA SeqOfRangeAppend ==
    ASSUME NEW q, q \in Seq(Range(q)), NEW e
    PROVE  /\ Append(q, e) \in Seq(Range(Append(q, e)))
           /\ \A x \in Range(Append(q, e)) : x \in Range(q) \/ x = e
<1>1. Append(q, e) \in Seq(Range(q) \cup {e})
  BY AppendProperties
<1>2. Range(Append(q, e)) \subseteq Range(q) \cup {e}
  <2>1. \A i \in DOMAIN Append(q, e) : Append(q, e)[i] \in Range(q) \cup {e}
    BY <1>1
  <2>2. QED
    BY <2>1 DEF Range
<1>3. Append(q, e) \in Seq(Range(Append(q, e)))
  BY <1>1, SeqOfRange
<1>4. QED
  BY <1>2, <1>3

LEMMA SeqOfRangeTail ==
    ASSUME NEW q, q \in Seq(Range(q)), q # << >>
    PROVE  /\ Head(q) \in Range(q)
           /\ Tail(q) \in Seq(Range(Tail(q)))
           /\ \A x \in Range(Tail(q)) : x \in Range(q)
<1>1. Head(q) \in Range(q) /\ Tail(q) \in Seq(Range(q))
  BY HeadTailProperties
<1>2. Range(Tail(q)) \subseteq Range(q)
  <2>1. \A i \in DOMAIN Tail(q) : Tail(q)[i] \in Range(q)
    BY <1>1
  <2>2. QED
    BY <2>1 DEF Range
<1>3. Tail(q) \in Seq(Range(Tail(q)))
  BY <1>1, SeqOfRange
<1>4. QED
  BY <1>1, <1>2, <1>3

(* A queue of results, whatever is sent, is a queue of results. *)
LEMMA AppendBoolean ==
    ASSUME NEW q \in Seq(BOOLEAN), NEW b \in BOOLEAN
    PROVE  Append(q, b) \in Seq(BOOLEAN)
  BY AppendProperties

LEMMA TailBoolean ==
    ASSUME NEW q \in Seq(BOOLEAN), q # << >>
    PROVE  Tail(q) \in Seq(BOOLEAN)
  BY HeadTailProperties

-----------------------------------------------------------------------------

LEMMA TypeInit == Init => TypeOK
<1> SUFFICES ASSUME Init PROVE TypeOK
  OBVIOUS
<1> USE CloudLinkAssumption, GatewayAssumption DEF Init
<1>1. LinkTypeOK
  BY LinkTypeInit
<1>2. nread \in 0..MaxMsgs /\ crashes \in 0..MaxCrashes
  OBVIOUS
<1>10. overlapped \in BOOLEAN
  OBVIOUS
<1>3. rawQ \in Seq(Msg) /\ resQ \in Seq(BOOLEAN) /\ delQ \in Seq(BOOLEAN)
      /\ dbQ \in Seq(DbReq)
  BY DEF PipeBoot
<1>4. qryQ \in Seq(Range(qryQ)) /\ \A t \in Range(qryQ) : IsTable(t, Msg)
  BY DEF PipeBoot, Range
<1>5. mgrPc \in {"idle", "await_pub", "await_del"}
      /\ offPc \in {"idle", "await", "send"}
  BY DEF PipeBoot
<1>6. held \in Datum
  BY DEF PipeBoot, NoDatum, Notice, Datum
<1>7. IsTable(rows, Msg) /\ IsTable(db, Msg)
  BY EmptyIsTable DEF PipeBoot
<1>8. sent \in [Msg -> Nat] /\ fate \in [Msg -> SUBSET Fates]
  OBVIOUS
<1>9. QED
  BY <1>1, <1>2, <1>3, <1>4, <1>5, <1>6, <1>7, <1>8, <1>10
  DEF TypeOK, PipeTypeOK, PipeBoot

LEMMA AfterPublishType ==
    ASSUME NEW ok \in BOOLEAN, NEW datum \in Datum, datum.type = "Message"
    PROVE  AfterPublish(ok, datum) \in Seq(DbReq)
<1>1. datum.id \in Nat /\ datum.msg \in Msg
  BY DEF Datum
<1>2. InsertReq(datum.msg) \in DbReq
  BY <1>1 DEF InsertReq, DbReq
<1>3. CASE datum.id = 0
  <2>1. <<InsertReq(datum.msg)>> \in Seq(DbReq)
    BY <1>2
  <2>2. QED
    BY <1>3, <2>1, EmptySeq DEF AfterPublish
<1>4. CASE datum.id # 0
  <2>1. DeleteReq(datum.id) \in DbReq
    BY <1>1, <1>4 DEF DeleteReq, DbReq, RowId
  <2>2. <<DeleteReq(datum.id)>> \in Seq(DbReq)
    BY <2>1
  <2>3. QED
    BY <1>4, <2>2, EmptySeq DEF AfterPublish
<1>5. QED
  BY <1>3, <1>4

LEMMA TypeStep == TypeOK /\ [Next]_vars => TypeOK'
<1> SUFFICES ASSUME TypeOK, [Next]_vars
             PROVE  TypeOK'
  OBVIOUS
<1> USE CloudLinkAssumption, GatewayAssumption
<1>0. SUFFICES LinkTypeOK' /\ PipeTypeOK'
  BY DEF TypeOK
<1> PipeTypeOK /\ LinkTypeOK
  BY DEF TypeOK
<1>1. CASE ReadInput
  <2>1. nread' \in 0..MaxMsgs /\ nread + 1 \in Msg
    BY <1>1 DEF ReadInput, PipeTypeOK, Msg
  <2>2. rawQ' \in Seq(Msg)
    BY <1>1, <2>1 DEF ReadInput, PipeTypeOK
  <2>3. LinkTypeOK'
    BY <1>1 DEF ReadInput, linkVars, LinkTypeOK
  <2>4. QED
    BY <1>1, <2>1, <2>2, <2>3 DEF ReadInput, PipeTypeOK
<1>2. CASE HandleInput
  <2>1. Head(rawQ) \in Msg /\ rawQ' \in Seq(Msg)
    BY <1>2 DEF HandleInput, PipeTypeOK
  <2>2. Message(0, Head(rawQ)) \in Datum
    BY <2>1 DEF Message, Datum
  <2>3. datumQ' \in Seq(Datum)
    BY <1>2, <2>2 DEF HandleInput, LinkTypeOK
  <2>4. fate' \in [Msg -> SUBSET Fates]
    BY <1>2, <2>1 DEF HandleInput, Befalls, Fates, PipeTypeOK
  <2>5. LinkTypeOK'
    BY <1>2, <2>3 DEF HandleInput, LinkTypeOK
  <2>6. QED
    BY <1>2, <2>1, <2>4, <2>5 DEF HandleInput, PipeTypeOK
<1>3. CASE ManagerMessage
  <2>1. Head(datumQ) \in Datum /\ datumQ' \in Seq(Datum)
    BY <1>3 DEF ManagerMessage, LinkTypeOK
  <2>2. Head(datumQ).msg \in Msg
    BY <1>3, <2>1 DEF ManagerMessage, Datum
  <2>3. pubQ' \in Seq(Msg \cup {NoMsg})
    <3>1. CASE pubQ' = Append(pubQ, Head(datumQ).msg)
      BY <2>2, <3>1 DEF LinkTypeOK
    <3>2. CASE pubQ' = pubQ
      BY <3>2 DEF LinkTypeOK
    <3>3. QED
      BY <1>3, <3>1, <3>2 DEF ManagerMessage
  <2>4. dbQ' \in Seq(DbReq)
    <3>1. InsertReq(Head(datumQ).msg) \in DbReq
      BY <2>2 DEF InsertReq, DbReq
    <3>2. CASE dbQ' = Append(dbQ, InsertReq(Head(datumQ).msg))
      BY <3>1, <3>2 DEF PipeTypeOK
    <3>3. CASE dbQ' = dbQ
      BY <3>3 DEF PipeTypeOK
    <3>4. QED
      BY <1>3, <3>2, <3>3 DEF ManagerMessage
  <2>5. held' \in Datum /\ mgrPc' \in {"idle", "await_pub", "await_del"}
    BY <1>3, <2>1 DEF ManagerMessage, PipeTypeOK
  <2>6. LinkTypeOK'
    BY <1>3, <2>1, <2>3 DEF ManagerMessage, LinkTypeOK
  <2>7. QED
    BY <1>3, <2>4, <2>5, <2>6 DEF ManagerMessage, PipeTypeOK
<1>4. CASE ManagerResult
  <2>1. resQ' \in Seq(BOOLEAN)
    BY <1>4, TailBoolean DEF ManagerResult, PipeTypeOK
  <2>2. NoDatum \in Datum
    BY DEF NoDatum, Notice, Datum
  <2>3. held' \in Datum /\ mgrPc' \in {"idle", "await_pub", "await_del"}
    BY <1>4, <2>2 DEF ManagerResult, PipeTypeOK
  <2>4. dbQ' \in Seq(DbReq)
    <3>1. AfterPublish(Head(resQ), held) \in Seq(DbReq)
      <4>1. Head(resQ) \in BOOLEAN
        BY <1>4, HeadTailProperties DEF ManagerResult, PipeTypeOK
      <4>2. held \in Datum /\ held.type = "Message"
        BY <1>4 DEF ManagerResult, PipeTypeOK
      <4>3. QED
        BY <4>1, <4>2, AfterPublishType
    <3>2. dbQ' = dbQ \o AfterPublish(Head(resQ), held)
      BY <1>4 DEF ManagerResult
    <3>3. QED
      BY <3>1, <3>2, ConcatProperties DEF PipeTypeOK
  <2>5. LinkTypeOK'
    BY <1>4 DEF ManagerResult, linkVars, LinkTypeOK
  <2>6. QED
    BY <1>4, <2>1, <2>3, <2>4, <2>5 DEF ManagerResult, PipeTypeOK
<1>5. CASE ManagerDeleted
  <2>1. NoDatum \in Datum
    BY DEF NoDatum, Notice, Datum
  <2>2. LinkTypeOK'
    BY <1>5 DEF ManagerDeleted, linkVars, LinkTypeOK
  <2>3. delQ' \in Seq(BOOLEAN)
    BY <1>5, TailBoolean DEF ManagerDeleted, PipeTypeOK
  <2>4. QED
    BY <1>5, <2>1, <2>2, <2>3 DEF ManagerDeleted, PipeTypeOK
<1>6. CASE PubMessage
  <2>1. Head(pubQ) \in Msg /\ pubQ' \in Seq(Msg \cup {NoMsg})
    BY <1>6 DEF PubMessage, LinkTypeOK
  <2>2. resQ' \in Seq(BOOLEAN)
    BY <1>6, AppendBoolean DEF PubMessage, PipeTypeOK
  <2>3. sent' \in [Msg -> Nat]
    <3>1. CASE sent' = [sent EXCEPT ![Head(pubQ)] = @ + 1]
      BY <2>1, <3>1 DEF PipeTypeOK
    <3>2. CASE sent' = sent
      BY <3>2 DEF PipeTypeOK
    <3>3. QED
      BY <1>6, <3>1, <3>2 DEF PubMessage
  <2>4. LinkTypeOK'
    BY <1>6, <2>1 DEF PubMessage, LinkTypeOK, PubPc
  <2>5. QED
    BY <1>6, <2>2, <2>3, <2>4 DEF PubMessage, PipeTypeOK
<1>7. CASE OfflineTrigger
  <2>1. dbQ' \in Seq(DbReq)
    <3>1. QueryReq \in DbReq
      BY DEF QueryReq, DbReq
    <3>2. QED
      BY <1>7, <3>1 DEF OfflineTrigger, PipeTypeOK
  <2>2. LinkTypeOK'
    BY <1>7 DEF OfflineTrigger, LinkTypeOK
  <2>3. QED
    BY <1>7, <2>1, <2>2 DEF OfflineTrigger, PipeTypeOK
<1>8. CASE OfflineRows
  <2>1. /\ Head(qryQ) \in Range(qryQ) /\ qryQ' \in Seq(Range(qryQ'))
        /\ \A t \in Range(qryQ') : IsTable(t, Msg)
    BY <1>8, SeqOfRangeTail DEF OfflineRows, PipeTypeOK
  <2>2. IsTable(rows', Msg) /\ (offPc' = "send" => DOMAIN rows' # {})
    BY <1>8, <2>1 DEF OfflineRows, PipeTypeOK
  <2>3. LinkTypeOK'
    BY <1>8 DEF OfflineRows, linkVars, LinkTypeOK
  <2>4. QED
    BY <1>8, <2>1, <2>2, <2>3 DEF OfflineRows, PipeTypeOK
<1>9. CASE OfflineSend
  <2> DEFINE r == FirstRow(rows)
  <2>1. r \in DOMAIN rows /\ IsTable(rows, Msg)
    BY <1>9, FirstRowExists DEF OfflineSend, PipeTypeOK
  <2>2. r \in Nat /\ rows[r] \in Msg
    BY <2>1 DEF IsTable, RowId
  <2>3. Message(r, rows[r]) \in Datum
    BY <2>2 DEF Message, Datum
  <2>4. datumQ' \in Seq(Datum)
    BY <1>9, <2>3 DEF OfflineSend, LinkTypeOK
  <2>5. IsTable(rows', Msg) /\ DOMAIN rows' = DOMAIN rows \ {r}
    BY <1>9, <2>1, DeleteRowTable DEF OfflineSend
  <2>6. offPc' = "send" => DOMAIN rows' # {}
    BY <1>9, <2>1, <2>5 DEF OfflineSend
  <2>7. LinkTypeOK'
    BY <1>9, <2>4 DEF OfflineSend, LinkTypeOK
  <2>8. QED
    BY <1>9, <2>5, <2>6, <2>7 DEF OfflineSend, PipeTypeOK
<1>10. ASSUME dbQ # << >>
       PROVE  Head(dbQ) \in DbReq /\ Tail(dbQ) \in Seq(DbReq)
  BY <1>10 DEF PipeTypeOK
<1>11. CASE DbInsert
  <2>1. Head(dbQ).msg \in Msg /\ dbQ' \in Seq(DbReq)
    BY <1>10, <1>11 DEF DbInsert, NextReqIs, DbReq
  <2>2. IsTable(db', Msg)
    <3>1. IsTable(db, Msg)
      BY DEF PipeTypeOK
    <3>2. IsTable(InsertRow(db, Head(dbQ).msg), Msg)
      BY <2>1, <3>1, InsertRowTable
    <3>3. QED
      BY <1>11, <3>1, <3>2 DEF DbInsert
  <2>3. fate' \in [Msg -> SUBSET Fates]
    <3>1. \A f \in Fates : [fate EXCEPT ![Head(dbQ).msg] = @ \cup {f}]
                           \in [Msg -> SUBSET Fates]
      BY <2>1 DEF PipeTypeOK
    <3>2. QED
      BY <1>11, <3>1 DEF DbInsert, Befalls, Fates
  <2>4. LinkTypeOK'
    BY <1>11 DEF DbInsert, linkVars, LinkTypeOK
  <2>5. QED
    BY <1>11, <2>1, <2>2, <2>3, <2>4 DEF DbInsert, PipeTypeOK
<1>12. CASE DbQuery
  <2>1. dbQ' \in Seq(DbReq)
    BY <1>10, <1>12 DEF DbQuery, NextReqIs
  <2>2. qryQ' \in Seq(Range(qryQ')) /\ \A t \in Range(qryQ') : IsTable(t, Msg)
    <3>1. CASE qryQ' = qryQ
      BY <3>1 DEF PipeTypeOK
    <3>2. CASE qryQ' = Append(qryQ, db)
      BY <3>2, SeqOfRangeAppend DEF PipeTypeOK
    <3>3. QED
      BY <1>12, <3>1, <3>2 DEF DbQuery
  <2>3. LinkTypeOK'
    BY <1>12 DEF DbQuery, linkVars, LinkTypeOK
  <2>4. overlapped' \in BOOLEAN
    BY <1>12 DEF DbQuery
  <2>5. QED
    BY <1>12, <2>1, <2>2, <2>3, <2>4 DEF DbQuery, PipeTypeOK
<1>13. CASE DbDelete
  <2>1. dbQ' \in Seq(DbReq)
    BY <1>10, <1>13 DEF DbDelete, NextReqIs
  <2>2. IsTable(db', Msg)
    <3>1. IsTable(db, Msg) /\ IsTable(DeleteRow(db, Head(dbQ).id), Msg)
      BY DeleteRowTable DEF PipeTypeOK
    <3>2. QED
      BY <1>13, <3>1 DEF DbDelete
  <2>3. delQ' \in Seq(BOOLEAN)
    BY <1>13, AppendBoolean DEF DbDelete, PipeTypeOK
  <2>4. LinkTypeOK'
    BY <1>13 DEF DbDelete, linkVars, LinkTypeOK
  <2>5. QED
    BY <1>13, <2>1, <2>2, <2>3, <2>4 DEF DbDelete, PipeTypeOK
<1>14. CASE LinkStep
  <2>1. LinkNext
    BY <1>14 DEF LinkStep, LinkNext
  <2>2. LinkTypeOK'
    BY <2>1, LinkTypeStep
  <2>3. QED
    BY <1>14, <2>2 DEF LinkStep, pipeVars, PipeTypeOK
<1>15. CASE Crash
  <2>1. crashes' \in 0..MaxCrashes
    BY <1>15 DEF Crash, PipeTypeOK
  <2>2. fate' \in [Msg -> SUBSET Fates]
    BY <1>15 DEF Crash, Fates, PipeTypeOK
  <2>3. LinkTypeOK'
    <3>1. LinkRestart /\ drops' = drops
      BY <1>15 DEF Crash
    <3>2. pubQ' \in Seq(Msg \cup {NoMsg}) /\ datumQ' \in Seq(Datum)
      BY <3>1 DEF LinkRestart
    <3>3. consumerQ' \in Seq({"lost"}) /\ announceQ' \in Seq({"up", "down"})
      BY <3>1 DEF LinkRestart
    <3>4. QED
      BY <3>1, <3>2, <3>3 DEF LinkRestart, LinkTypeOK, PubPc
  <2>4. rawQ' \in Seq(Msg) /\ resQ' \in Seq(BOOLEAN) /\ delQ' \in Seq(BOOLEAN)
        /\ dbQ' \in Seq(DbReq)
    BY <1>15 DEF Crash, PipeRestart
  <2>5. qryQ' \in Seq(Range(qryQ')) /\ \A t \in Range(qryQ') : IsTable(t, Msg)
    BY <1>15 DEF Crash, PipeRestart, Range
  <2>6. IsTable(rows', Msg) /\ held' \in Datum
    BY <1>15, EmptyIsTable DEF Crash, PipeRestart, NoDatum, Notice, Datum
  <2>7. QED
    BY <1>15, <2>1, <2>2, <2>3, <2>4, <2>5, <2>6
    DEF Crash, PipeRestart, PipeTypeOK
<1>16. CASE UNCHANGED vars
  <2>1. LinkTypeOK'
    BY <1>16 DEF vars, linkVars, LinkTypeOK
  <2>2. QED
    BY <1>16, <2>1 DEF vars, pipeVars, PipeTypeOK
<1>17. QED
  BY <1>1, <1>2, <1>3, <1>4, <1>5, <1>6, <1>7, <1>8, <1>9, <1>11, <1>12, <1>13,
     <1>14, <1>15, <1>16
  DEF Next, Offline, Db

(* Every variable of the upstream path keeps its type: in particular a row in
   the table never has id 0, the id of a fresh datum.                      *)
THEOREM TypeCorrect == Spec => []TypeOK
  BY TypeInit, TypeStep, PTL DEF Spec

-----------------------------------------------------------------------------
(* Replies match requests (RepliesMatchRequests): each of the three calls is
   inductive on its own, next to the types.                                *)

(* A queue with at most one element in S: what taking its head leaves. *)
LEMMA TakeFromQueue ==
    ASSUME NEW T, NEW S, NEW q \in Seq(T), q # << >>,
           \A i, j \in DOMAIN q : q[i] \in S /\ q[j] \in S => i = j
    PROVE  LET t == Tail(q)
           IN  /\ \A i, j \in DOMAIN t : t[i] \in S /\ t[j] \in S => i = j
               /\ \A i \in DOMAIN t : t[i] \in S => \E k \in DOMAIN q : q[k] = t[i]
               /\ Head(q) \in S => \A i \in DOMAIN t : t[i] \notin S
               /\ Head(q) \notin S /\ (\E i \in DOMAIN q : q[i] \in S)
                      => \E i \in DOMAIN t : t[i] \in S
<1> DEFINE t == Tail(q)
<1>1. /\ Len(q) \in Nat \ {0} /\ DOMAIN q = 1..Len(q) /\ Head(q) = q[1]
      /\ DOMAIN t = 1..(Len(q) - 1)
      /\ \A i \in DOMAIN t : t[i] = q[i + 1] /\ i + 1 \in DOMAIN q /\ i + 1 # 1
  OBVIOUS
<1>2. ASSUME NEW i \in DOMAIN t, NEW j \in DOMAIN t, t[i] \in S, t[j] \in S
      PROVE  i = j
  <2>1. i + 1 = j + 1
    BY <1>1, <1>2
  <2>2. QED
    BY <1>1, <1>2, <2>1
<1>3. ASSUME Head(q) \in S, NEW i \in DOMAIN t, t[i] \in S
      PROVE  FALSE
  BY <1>1, <1>3
<1>4. ASSUME Head(q) \notin S, NEW k \in DOMAIN q, q[k] \in S
      PROVE  \E i \in DOMAIN t : t[i] \in S
  <2>1. k # 1 /\ k - 1 \in DOMAIN t /\ (k - 1) + 1 = k
    BY <1>1, <1>4
  <2>2. t[k - 1] \in S
    BY <1>1, <1>4, <2>1
  <2>3. QED
    BY <2>1, <2>2
<1>5. \A i \in DOMAIN t : \E k \in DOMAIN q : q[k] = t[i]
  BY <1>1
<1> HIDE DEF t
<1>6. QED
  BY <1>2, <1>3, <1>4, <1>5 DEF t

(* Appending something of no interest, or the first thing of interest. *)
LEMMA PutInQueue ==
    ASSUME NEW T, NEW S, NEW q \in Seq(T), NEW e \in T
    PROVE  LET r == Append(q, e)
           IN  /\ e \notin S =>
                      /\ DOMAIN q \subseteq DOMAIN r
                      /\ \A i \in DOMAIN q : r[i] = q[i]
                      /\ \A i \in DOMAIN r : r[i] \in S => i \in DOMAIN q
               /\ (\A i \in DOMAIN q : q[i] \notin S) =>
                      /\ \A i, j \in DOMAIN r : r[i] \in S /\ r[j] \in S => i = j
                      /\ \A i \in DOMAIN r : r[i] \in S => r[i] = e
               /\ \E i \in DOMAIN r : r[i] = e
<1> DEFINE r == Append(q, e)
<1>1. /\ Len(q) \in Nat /\ DOMAIN q = 1..Len(q) /\ DOMAIN r = 1..(Len(q) + 1)
      /\ r[Len(q) + 1] = e /\ \A i \in DOMAIN q : r[i] = q[i]
  OBVIOUS
<1>2. \A i \in DOMAIN r : i \in DOMAIN q \/ i = Len(q) + 1
  BY <1>1
<1> HIDE DEF r
<1>3. Len(q) + 1 \in DOMAIN r /\ DOMAIN q \subseteq DOMAIN r
  BY <1>1
<1>4. QED
  BY <1>1, <1>2, <1>3 DEF r

(* A queue of length at most one. *)
LEMMA ShortQueue ==
    ASSUME NEW T, NEW q \in Seq(T), Len(q) <= 1
    PROVE  /\ q # << >> => Tail(q) = << >>
           /\ \A e \in T : q = << >> => Len(Append(q, e)) = 1 /\ Append(q, e) # << >>
<1>1. ASSUME q # << >> PROVE Tail(q) = << >>
  <2>1. Len(q) = 1
    <3>1. Len(q) \in Nat \ {0}
      BY <1>1, EmptySeq
    <3>2. QED
      BY <3>1
  <2>2. Len(Tail(q)) = 0 /\ Tail(q) \in Seq(T)
    BY <1>1, <2>1
  <2>3. QED
    BY <2>2, EmptySeq
<1>2. ASSUME NEW e \in T, q = << >>
      PROVE  Len(Append(q, e)) = 1 /\ Append(q, e) # << >>
  BY <1>2
<1>3. QED
  BY <1>1, <1>2

-----------------------------------------------------------------------------
(* The call of the uploader. *)

LEMMA PublishStep ==
    TypeOK /\ PublishCall /\ [Next]_vars => PublishCall'
<1> SUFFICES ASSUME TypeOK, PublishCall, [Next]_vars
             PROVE  PublishCall'
  OBVIOUS
<1> DEFINE Call ==
      /\ pubQ \in Seq(Msg \cup {NoMsg})
      /\ \A i, j \in DOMAIN pubQ : pubQ[i] \in Msg /\ pubQ[j] \in Msg => i = j
      /\ Len(resQ) <= 1
      /\ \A i \in DOMAIN pubQ : pubQ[i] \in Msg =>
             mgrPc = "await_pub" /\ resQ = << >> /\ pubQ[i] = held.msg
      /\ resQ # << >> => mgrPc = "await_pub"
      /\ mgrPc = "await_pub" =>
             resQ # << >> \/ \E i \in DOMAIN pubQ : pubQ[i] \in Msg
<1>1. /\ pubQ \in Seq(Msg \cup {NoMsg}) /\ resQ \in Seq(BOOLEAN)
      /\ datumQ \in Seq(Datum) /\ mgrPc \in {"idle", "await_pub", "await_del"}
  BY DEF TypeOK, LinkTypeOK, PipeTypeOK
<1>2. NoMsg \notin Msg
  BY DEF NoMsg, Msg
<1>3. Call
  <2>1. \A i \in DOMAIN pubQ : pubQ[i] # NoMsg <=> pubQ[i] \in Msg
    BY <1>1, <1>2
  <2>2. QED
    BY <1>1, <2>1 DEF PublishCall, AtMostOne, IsMsg
<1>4. SUFFICES Call'
  <2>1. ASSUME pubQ' \in Seq(Msg \cup {NoMsg})
        PROVE  \A i \in DOMAIN pubQ' : pubQ'[i] # NoMsg <=> pubQ'[i] \in Msg
    BY <1>2, <2>1
  <2>2. QED
    BY <2>1, <1>4 DEF PublishCall, AtMostOne, IsMsg
<1>5. CASE UNCHANGED <<pubQ, resQ, mgrPc, held>>
  BY <1>1, <1>3, <1>5
<1>6. CASE ManagerMessage
  <2>1. CASE UNCHANGED <<pubQ, mgrPc, held>>
    BY <1>1, <1>3, <1>6, <2>1 DEF ManagerMessage
  <2>2. CASE /\ pubQ' = Append(pubQ, Head(datumQ).msg) /\ mgrPc' = "await_pub"
             /\ held' = Head(datumQ)
    <3>1. /\ mgrPc = "idle" /\ resQ' = resQ
          /\ datumQ # << >> /\ Head(datumQ).type = "Message"
      BY <1>6 DEF ManagerMessage
    <3>2. resQ = << >> /\ \A i \in DOMAIN pubQ : pubQ[i] \notin Msg
      BY <1>3, <3>1
    <3>3. Head(datumQ).msg \in Msg
      <4>1. Head(datumQ) \in Datum
        BY <1>1, <3>1
      <4>2. QED
        BY <3>1, <4>1 DEF Datum, Notice
    <3>4. pubQ' \in Seq(Msg \cup {NoMsg})
      BY <1>1, <2>2, <3>3
    <3>5. /\ \A i, j \in DOMAIN pubQ' : pubQ'[i] \in Msg /\ pubQ'[j] \in Msg => i = j
          /\ \A i \in DOMAIN pubQ' : pubQ'[i] \in Msg => pubQ'[i] = held'.msg
          /\ \E i \in DOMAIN pubQ' : pubQ'[i] = held'.msg
      BY <1>1, <2>2, <3>2, <3>3, PutInQueue
    <3>6. QED
      BY <1>1, <1>3, <2>2, <3>1, <3>2, <3>3, <3>4, <3>5
  <2>3. QED
    BY <1>6, <2>1, <2>2 DEF ManagerMessage
<1>7. CASE ManagerResult
  <2>1. /\ resQ # << >> /\ resQ' = Tail(resQ) /\ pubQ' = pubQ
        /\ mgrPc' # "await_pub"
    BY <1>7 DEF ManagerResult, linkVars
  <2>2. resQ' = << >>
    BY <1>1, <1>3, <2>1, ShortQueue
  <2>3. \A i \in DOMAIN pubQ' : pubQ'[i] \notin Msg
    BY <1>3, <2>1
  <2>4. pubQ' \in Seq(Msg \cup {NoMsg}) /\ Len(resQ') <= 1
    <3>1. pubQ' \in Seq(Msg \cup {NoMsg})
      BY <1>1, <2>1
    <3>2. Len(resQ') <= 1
      BY <2>2
    <3>3. QED
      BY <3>1, <3>2
  <2>5. QED
    BY <2>1, <2>2, <2>3, <2>4
<1>8. CASE ManagerDeleted
  <2>1. /\ mgrPc = "await_del" /\ mgrPc' = "idle"
        /\ UNCHANGED <<pubQ, resQ>>
    BY <1>8 DEF ManagerDeleted, linkVars
  <2>2. QED
    BY <1>1, <1>3, <2>1
<1>9. CASE PubMessage
  <2>1. /\ pubQ # << >> /\ Head(pubQ) \in Msg /\ pubQ' = Tail(pubQ)
        /\ UNCHANGED <<mgrPc, held>>
        /\ resQ' = Append(resQ, TRUE) \/ resQ' = Append(resQ, FALSE)
    <3>1. pubQ # << >> /\ Head(pubQ) # NoMsg /\ pubQ' = Tail(pubQ)
      BY <1>9 DEF PubMessage
    <3>2. Head(pubQ) \in Msg
      BY <1>1, <3>1
    <3>3. QED
      BY <1>9, <3>1, <3>2 DEF PubMessage
  <2>2. \A i \in DOMAIN pubQ' : pubQ'[i] \notin Msg
    BY <1>1, <1>3, <2>1, TakeFromQueue
  <2>3. mgrPc = "await_pub" /\ resQ = << >>
    <3>1. 1 \in DOMAIN pubQ /\ pubQ[1] = Head(pubQ)
      BY <1>1, <2>1
    <3>2. QED
      BY <1>3, <2>1, <3>1
  <2>4. Len(resQ') = 1 /\ resQ' # << >>
    <3>1. \A e \in BOOLEAN : Len(Append(resQ, e)) = 1 /\ Append(resQ, e) # << >>
      BY <1>1, <1>3, <2>3, ShortQueue
    <3>2. QED
      BY <2>1, <3>1
  <2>5. pubQ' \in Seq(Msg \cup {NoMsg})
    BY <1>1, <2>1
  <2>6. QED
    BY <2>1, <2>2, <2>3, <2>4, <2>5
<1>10. CASE UploaderIdle /\ UNCHANGED pipeVars
  <2>1. UNCHANGED <<resQ, mgrPc, held>>
    BY <1>10 DEF pipeVars
  <2>2. CASE pubQ' = pubQ
    BY <1>1, <1>3, <2>1, <2>2
  <2>3. CASE pubQ # << >> /\ Head(pubQ) = NoMsg /\ pubQ' = Tail(pubQ)
    <3>1. /\ \A i, j \in DOMAIN pubQ' : pubQ'[i] \in Msg /\ pubQ'[j] \in Msg => i = j
          /\ \A i \in DOMAIN pubQ' : pubQ'[i] \in Msg =>
                 \E k \in DOMAIN pubQ : pubQ[k] = pubQ'[i]
          /\ (\E i \in DOMAIN pubQ : pubQ[i] \in Msg)
                 => \E i \in DOMAIN pubQ' : pubQ'[i] \in Msg
      BY <1>1, <1>2, <1>3, <2>3, TakeFromQueue, SMTT(30)
    <3>2. pubQ' \in Seq(Msg \cup {NoMsg})
      BY <1>1, <2>3
    <3>3. QED
      BY <1>3, <2>1, <3>1, <3>2
  <2>4. QED
    BY <1>10, <2>2, <2>3 DEF UploaderIdle
<1>11. CASE BroadcastDown /\ UNCHANGED pipeVars
  <2>1. UNCHANGED <<resQ, mgrPc, held>> /\ pubQ' = Append(pubQ, NoMsg)
    BY <1>11 DEF pipeVars, BroadcastDown
  <2>2. /\ DOMAIN pubQ \subseteq DOMAIN pubQ'
        /\ \A i \in DOMAIN pubQ : pubQ'[i] = pubQ[i]
        /\ \A i \in DOMAIN pubQ' : pubQ'[i] \in Msg => i \in DOMAIN pubQ
    BY <1>1, <1>2, <2>1, PutInQueue
  <2>3. pubQ' \in Seq(Msg \cup {NoMsg})
    BY <1>1, <2>1
  <2>4. QED
    BY <1>3, <2>1, <2>2, <2>3
<1>12. CASE Crash
  <2>1. pubQ' = << >> /\ resQ' = << >> /\ mgrPc' = "idle"
    BY <1>12 DEF Crash, LinkRestart, PipeRestart
  <2>2. QED
    BY <2>1
<1>13. QED
  <2>1. CASE ReadInput \/ HandleInput \/ Offline \/ Db \/ UNCHANGED vars
    BY <2>1, <1>5 DEF ReadInput, HandleInput, Offline, OfflineTrigger, OfflineRows,
                      OfflineSend, Db, DbInsert, DbQuery, DbDelete, vars,
                      linkVars, pipeVars
  <2>2. CASE LinkStep
    <3>1. CASE Connect \/ Reconnected \/ ReconnectFailed \/ Announce \/ Subscribe
               \/ Handover \/ StillConnected \/ SubForwardLost \/ BroadcastUp
               \/ BroadcastDownNotice \/ ManagerNotice \/ Network
      BY <2>2, <3>1, <1>5
      DEF LinkStep, pipeVars, Connect, Reconnected, ReconnectFailed, Announce,
          Subscribe, Handover, StillConnected, SubForwardLost, BroadcastUp,
          BroadcastDownNotice, ManagerNotice, Network, LinkLost, LateConnect
    <3>2. QED
      BY <2>2, <3>1, <1>10, <1>11 DEF LinkStep, PubThread, Broadcaster
  <2>3. QED
    BY <2>1, <2>2, <1>6, <1>7, <1>8, <1>9, <1>12 DEF Next
-----------------------------------------------------------------------------
(* The calls of the database thread. *)

Deletes == {r \in DbReq : r.op = "DELETE"}
Queries == {r \in DbReq : r.op = "QUERY"}

LEMMA RequestKinds ==
    /\ \A m \in Msg : /\ InsertReq(m) \in DbReq
                      /\ InsertReq(m) \notin Deletes \cup Queries
    /\ \A row \in RowId : /\ DeleteReq(row) \in Deletes
                          /\ DeleteReq(row).id = row
    /\ QueryReq \in Queries
    /\ Deletes \cap Queries = {}
  BY DEF InsertReq, DeleteReq, QueryReq, DbReq, Deletes, Queries

(* What the manager asks once it knows a publish result. *)
LEMMA AfterPublishCases ==
    ASSUME NEW ok \in BOOLEAN, NEW datum \in Datum, datum.type = "Message"
    PROVE  LET asked == AfterPublish(ok, datum)
           IN  \/ asked = << >> /\ ~WaitsForReply(asked)
               \/ /\ asked = <<InsertReq(datum.msg)>> /\ ~WaitsForReply(asked)
                  /\ datum.msg \in Msg
               \/ /\ asked = <<DeleteReq(datum.id)>> /\ WaitsForReply(asked)
                  /\ datum.id \in RowId
<1>1. datum.id \in Nat /\ datum.msg \in Msg
  BY DEF Datum
<1>2. \A m : ~WaitsForReply(<<InsertReq(m)>>)
  BY DEF WaitsForReply, InsertReq
<1>3. \A row : WaitsForReply(<<DeleteReq(row)>>)
  BY DEF WaitsForReply, DeleteReq
<1>4. ~WaitsForReply(<< >>)
  BY DEF WaitsForReply
<1>5. CASE datum.id = 0
  BY <1>1, <1>2, <1>4, <1>5 DEF AfterPublish
<1>6. CASE datum.id # 0
  <2>1. datum.id \in RowId
    BY <1>1, <1>6 DEF RowId
  <2>2. QED
    BY <1>3, <1>4, <1>6, <2>1 DEF AfterPublish
<1>7. QED
  BY <1>5, <1>6

(* So ManagerResult appends at most one request, and waits for a DELETE. *)
LEMMA ResultRequests ==
    ASSUME TypeOK, ManagerResult
    PROVE  /\ mgrPc = "await_pub" /\ UNCHANGED <<delQ, qryQ, offPc>>
           /\ \/ dbQ' = dbQ /\ mgrPc' = "idle"
              \/ /\ mgrPc' = "idle"
                 /\ \E e \in DbReq : /\ dbQ' = Append(dbQ, e)
                                     /\ e \notin Deletes \cup Queries
              \/ /\ mgrPc' = "await_del" /\ held' = held
                 /\ \E e \in Deletes : dbQ' = Append(dbQ, e) /\ e.id = held.id
<1> DEFINE asked == AfterPublish(Head(resQ), held)
<1>1. Head(resQ) \in BOOLEAN
  BY HeadTailProperties DEF ManagerResult, TypeOK, PipeTypeOK
<1>2. held \in Datum /\ held.type = "Message" /\ dbQ \in Seq(DbReq)
  BY DEF ManagerResult, TypeOK, PipeTypeOK
<1>3. /\ mgrPc = "await_pub" /\ UNCHANGED <<delQ, qryQ, offPc>>
      /\ dbQ' = dbQ \o asked
      /\ mgrPc' = IF WaitsForReply(asked) THEN "await_del" ELSE "idle"
      /\ held' = IF WaitsForReply(asked) THEN held ELSE NoDatum
  BY DEF ManagerResult
<1>4. \A e \in DbReq : dbQ \o <<e>> = Append(dbQ, e)
  BY <1>2, AppendIsConcat
<1>5. CASE asked = << >> /\ ~WaitsForReply(asked)
  <2>1. dbQ \o << >> = dbQ
    BY <1>2, ConcatEmptySeq
  <2>2. QED
    BY <1>3, <1>5, <2>1
<1>6. CASE /\ asked = <<InsertReq(held.msg)>> /\ ~WaitsForReply(asked)
           /\ held.msg \in Msg
  <2>1. InsertReq(held.msg) \in DbReq /\ InsertReq(held.msg) \notin Deletes \cup Queries
    BY <1>6, RequestKinds
  <2>2. QED
    BY <1>3, <1>4, <1>6, <2>1
<1>7. CASE /\ asked = <<DeleteReq(held.id)>> /\ WaitsForReply(asked)
           /\ held.id \in RowId
  <2>1. DeleteReq(held.id) \in Deletes /\ DeleteReq(held.id).id = held.id
    BY <1>7, RequestKinds
  <2>2. DeleteReq(held.id) \in DbReq
    BY <2>1 DEF Deletes
  <2>3. dbQ' = Append(dbQ, DeleteReq(held.id))
    BY <1>3, <1>4, <1>7, <2>2
  <2>4. QED
    BY <1>3, <1>7, <2>1, <2>3
<1>8. QED
  BY <1>1, <1>2, <1>5, <1>6, <1>7, AfterPublishCases

(* ManagerMessage asks at most to INSERT a message. *)
LEMMA MessageRequests ==
    ASSUME TypeOK, ManagerMessage
    PROVE  /\ mgrPc = "idle" /\ mgrPc' # "await_del"
           /\ UNCHANGED <<delQ, qryQ, offPc>>
           /\ \/ dbQ' = dbQ
              \/ \E e \in DbReq : /\ dbQ' = Append(dbQ, e)
                                  /\ e \notin Deletes \cup Queries
<1>1. Head(datumQ) \in Datum /\ Head(datumQ).type = "Message"
  BY HeadTailProperties DEF ManagerMessage, TypeOK, LinkTypeOK
<1>2. Head(datumQ).msg \in Msg
  BY <1>1 DEF Datum, Notice
<1>3. InsertReq(Head(datumQ).msg) \in DbReq
      /\ InsertReq(Head(datumQ).msg) \notin Deletes \cup Queries
  BY <1>2, RequestKinds
<1>4. QED
  BY <1>3 DEF ManagerMessage
(* The steps that leave the queue and the reply of a call alone. *)
LEMMA OtherSteps ==
    ASSUME [Next]_vars
    PROVE  \/ UNCHANGED <<dbQ, delQ, qryQ, mgrPc, held, offPc>>
           \/ ManagerMessage \/ ManagerResult \/ ManagerDeleted
           \/ Offline \/ Db \/ Crash
<1>1. CASE ReadInput \/ HandleInput \/ PubMessage \/ UNCHANGED vars
  BY <1>1 DEF ReadInput, HandleInput, PubMessage, vars, pipeVars
<1>2. CASE LinkStep
  BY <1>2 DEF LinkStep, pipeVars
<1>3. QED
  BY <1>1, <1>2 DEF Next

LEMMA DeleteStep ==
    TypeOK /\ DeleteCall /\ [Next]_vars => DeleteCall'
<1> SUFFICES ASSUME TypeOK, DeleteCall, [Next]_vars
             PROVE  DeleteCall'
  OBVIOUS
<1> DEFINE Call ==
      /\ \A i, j \in DOMAIN dbQ : dbQ[i] \in Deletes /\ dbQ[j] \in Deletes => i = j
      /\ Len(delQ) <= 1
      /\ \A i \in DOMAIN dbQ : dbQ[i] \in Deletes =>
             mgrPc = "await_del" /\ delQ = << >> /\ dbQ[i].id = held.id
      /\ delQ # << >> => mgrPc = "await_del"
      /\ mgrPc = "await_del" =>
             delQ # << >> \/ \E i \in DOMAIN dbQ : dbQ[i] \in Deletes
<1>1. /\ dbQ \in Seq(DbReq) /\ delQ \in Seq(BOOLEAN)
      /\ mgrPc \in {"idle", "await_pub", "await_del"}
  BY DEF TypeOK, PipeTypeOK
<1>2. dbQ' \in Seq(DbReq)
  BY TypeStep DEF TypeOK, PipeTypeOK
<1>3. Call
  <2>1. \A i \in DOMAIN dbQ : dbQ[i].op = "DELETE" <=> dbQ[i] \in Deletes
    BY <1>1 DEF Deletes
  <2>2. QED
    BY <2>1 DEF DeleteCall, AtMostOne, IsReq
<1>4. SUFFICES Call'
  <2>1. \A i \in DOMAIN dbQ' : dbQ'[i].op = "DELETE" <=> dbQ'[i] \in Deletes
    BY <1>2 DEF Deletes
  <2>2. QED
    BY <2>1, <1>4 DEF DeleteCall, AtMostOne, IsReq
<1>5. CASE dbQ' = dbQ /\ UNCHANGED <<delQ, mgrPc, held>>
  BY <1>3, <1>5
<1>6. ASSUME NEW e \in DbReq, e \notin Deletes, dbQ' = Append(dbQ, e)
      PROVE  /\ DOMAIN dbQ \subseteq DOMAIN dbQ'
             /\ \A i \in DOMAIN dbQ : dbQ'[i] = dbQ[i]
             /\ \A i \in DOMAIN dbQ' : dbQ'[i] \in Deletes => i \in DOMAIN dbQ
  BY <1>1, <1>6, PutInQueue
<1>7. ASSUME mgrPc # "await_del", mgrPc' # "await_del", UNCHANGED delQ,
             \/ dbQ' = dbQ
             \/ \E e \in DbReq : e \notin Deletes /\ dbQ' = Append(dbQ, e)
      PROVE  Call'
  <2>1. delQ = << >> /\ \A i \in DOMAIN dbQ : dbQ[i] \notin Deletes
    BY <1>3, <1>7
  <2>2. \A i \in DOMAIN dbQ' : dbQ'[i] \notin Deletes
    BY <1>6, <1>7, <2>1
  <2>3. delQ' = << >> /\ Len(delQ') <= 1
    BY <1>3, <1>7, <2>1
  <2>4. QED
    BY <1>7, <2>2, <2>3
<1>8. CASE ManagerMessage
  BY <1>7, <1>8, MessageRequests
<1>9. CASE ManagerResult
  <2>1. CASE mgrPc' = "idle"
    BY <1>7, <1>9, <2>1, ResultRequests
  <2>2. CASE /\ mgrPc' = "await_del" /\ held' = held
             /\ \E e \in Deletes : dbQ' = Append(dbQ, e) /\ e.id = held.id
    <3>1. PICK e \in Deletes : dbQ' = Append(dbQ, e) /\ e.id = held.id
      BY <2>2
    <3>2. mgrPc = "await_pub" /\ delQ' = delQ
      BY <1>9, ResultRequests
    <3>3. delQ = << >> /\ \A i \in DOMAIN dbQ : dbQ[i] \notin Deletes
      BY <1>3, <3>2
    <3>4. /\ \A i, j \in DOMAIN dbQ' : dbQ'[i] \in Deletes /\ dbQ'[j] \in Deletes => i = j
          /\ \A i \in DOMAIN dbQ' : dbQ'[i] \in Deletes => dbQ'[i] = e
          /\ \E i \in DOMAIN dbQ' : dbQ'[i] = e
      <4>1. e \in DbReq
        BY DEF Deletes
      <4>2. QED
        BY <1>1, <3>1, <3>3, <4>1, PutInQueue
    <3>5. delQ' = << >> /\ Len(delQ') <= 1
      BY <1>3, <3>2, <3>3
    <3>6. QED
      BY <2>2, <3>1, <3>4, <3>5
  <2>3. QED
    BY <1>9, <2>1, <2>2, ResultRequests
<1>10. CASE ManagerDeleted
  <2>1. /\ mgrPc' = "idle" /\ dbQ' = dbQ /\ delQ # << >> /\ delQ' = Tail(delQ)
    BY <1>10 DEF ManagerDeleted
  <2>2. delQ' = << >>
    BY <1>1, <1>3, <2>1, ShortQueue
  <2>3. \A i \in DOMAIN dbQ' : dbQ'[i] \notin Deletes
    BY <1>3, <2>1
  <2>4. Len(delQ') <= 1
    BY <2>2
  <2>5. QED
    BY <2>1, <2>2, <2>3, <2>4
<1>11. CASE Offline
  <2>1. UNCHANGED <<delQ, mgrPc, held>>
    BY <1>11 DEF Offline, OfflineTrigger, OfflineRows, OfflineSend
  <2>2. CASE dbQ' = dbQ
    BY <1>5, <2>1, <2>2
  <2>3. CASE dbQ' = Append(dbQ, QueryReq)
    <3>1. QueryReq \in DbReq /\ QueryReq \notin Deletes
      BY RequestKinds DEF Queries
    <3>2. /\ DOMAIN dbQ \subseteq DOMAIN dbQ'
          /\ \A i \in DOMAIN dbQ : dbQ'[i] = dbQ[i]
          /\ \A i \in DOMAIN dbQ' : dbQ'[i] \in Deletes => i \in DOMAIN dbQ
      BY <1>6, <2>3, <3>1
    <3>3. QED
      BY <1>3, <2>1, <3>2
  <2>4. QED
    BY <1>11, <2>2, <2>3 DEF Offline, OfflineTrigger, OfflineRows, OfflineSend
<1>12. CASE Db
  <2>1. /\ dbQ # << >> /\ dbQ' = Tail(dbQ) /\ UNCHANGED <<mgrPc, held>>
    BY <1>12 DEF Db, DbInsert, DbQuery, DbDelete, NextReqIs
  <2>2. CASE Head(dbQ) \notin Deletes /\ delQ' = delQ
    <3>1. /\ \A i, j \in DOMAIN dbQ' : dbQ'[i] \in Deletes /\ dbQ'[j] \in Deletes => i = j
          /\ \A i \in DOMAIN dbQ' : dbQ'[i] \in Deletes =>
                 \E k \in DOMAIN dbQ : dbQ[k] = dbQ'[i]
          /\ (\E i \in DOMAIN dbQ : dbQ[i] \in Deletes)
                 => \E i \in DOMAIN dbQ' : dbQ'[i] \in Deletes
      BY <1>1, <1>3, <2>1, <2>2, TakeFromQueue
    <3>2. QED
      BY <1>3, <2>1, <2>2, <3>1
  <2>3. CASE /\ Head(dbQ) \in Deletes
             /\ \E b \in BOOLEAN : delQ' = Append(delQ, b)
    <3>1. \A i \in DOMAIN dbQ' : dbQ'[i] \notin Deletes
      BY <1>1, <1>3, <2>1, <2>3, TakeFromQueue
    <3>2. mgrPc = "await_del" /\ delQ = << >>
      <4>1. 1 \in DOMAIN dbQ /\ dbQ[1] = Head(dbQ)
        BY <1>1, <2>1
      <4>2. QED
        BY <1>3, <2>3, <4>1
    <3>3. Len(delQ') <= 1 /\ delQ' # << >>
      <4>1. \A b \in BOOLEAN : Len(Append(delQ, b)) = 1 /\ Append(delQ, b) # << >>
        BY <1>1, <1>3, <3>2, ShortQueue
      <4>2. QED
        BY <2>3, <4>1
    <3>4. QED
      BY <2>1, <3>1, <3>2, <3>3
  <2>4. Head(dbQ) \in DbReq
    BY <1>1, <2>1
  <2>5. QED
    BY <1>12, <2>2, <2>3, <2>4
    DEF Db, DbInsert, DbQuery, DbDelete, NextReqIs, Deletes
<1>13. CASE Crash
  <2>1. dbQ' = << >> /\ delQ' = << >> /\ mgrPc' = "idle"
    BY <1>13 DEF Crash, PipeRestart
  <2>2. QED
    BY <2>1
<1>14. QED
  BY <1>5, <1>8, <1>9, <1>10, <1>11, <1>12, <1>13, OtherSteps
LEMMA QueryStep ==
    TypeOK /\ QueryCall /\ [Next]_vars => QueryCall'
<1> SUFFICES ASSUME TypeOK, QueryCall, [Next]_vars
             PROVE  QueryCall'
  OBVIOUS
<1> DEFINE Call ==
      /\ \A i, j \in DOMAIN dbQ : dbQ[i] \in Queries /\ dbQ[j] \in Queries => i = j
      /\ Len(qryQ) <= 1
      /\ \A i \in DOMAIN dbQ : dbQ[i] \in Queries => offPc = "await" /\ qryQ = << >>
      /\ qryQ # << >> => offPc = "await"
<1>1. /\ dbQ \in Seq(DbReq) /\ qryQ \in Seq(Range(qryQ))
  BY DEF TypeOK, PipeTypeOK
<1>2. dbQ' \in Seq(DbReq)
  BY TypeStep DEF TypeOK, PipeTypeOK
<1>3. Call
  <2>1. \A i \in DOMAIN dbQ : dbQ[i].op = "QUERY" <=> dbQ[i] \in Queries
    BY <1>1 DEF Queries
  <2>2. QED
    BY <2>1 DEF QueryCall, AtMostOne, IsReq
<1>4. SUFFICES Call'
  <2>1. \A i \in DOMAIN dbQ' : dbQ'[i].op = "QUERY" <=> dbQ'[i] \in Queries
    BY <1>2 DEF Queries
  <2>2. QED
    BY <2>1, <1>4 DEF QueryCall, AtMostOne, IsReq
<1>5. ASSUME UNCHANGED <<qryQ, offPc>>,
             \/ dbQ' = dbQ
             \/ \E e \in DbReq : e \notin Queries /\ dbQ' = Append(dbQ, e)
      PROVE  Call'
  <2>1. CASE dbQ' = dbQ
    BY <1>3, <1>5, <2>1
  <2>2. CASE \E e \in DbReq : e \notin Queries /\ dbQ' = Append(dbQ, e)
    <3>1. /\ DOMAIN dbQ \subseteq DOMAIN dbQ'
          /\ \A i \in DOMAIN dbQ : dbQ'[i] = dbQ[i]
          /\ \A i \in DOMAIN dbQ' : dbQ'[i] \in Queries => i \in DOMAIN dbQ
      BY <1>1, <2>2, PutInQueue
    <3>2. QED
      BY <1>3, <1>5, <3>1
  <2>3. QED
    BY <1>5, <2>1, <2>2
<1>6. CASE ManagerMessage
  BY <1>5, <1>6, MessageRequests
<1>7. CASE ManagerResult
  <2>1. \A e \in Deletes : e \in DbReq /\ e \notin Queries
    BY DEF Deletes, Queries
  <2>2. QED
    BY <1>5, <1>7, <2>1, ResultRequests
<1>8. CASE ManagerDeleted
  BY <1>5, <1>8 DEF ManagerDeleted
<1>9. CASE OfflineTrigger
  <2>1. /\ offPc = "idle" /\ offPc' = "await" /\ qryQ' = qryQ
        /\ dbQ' = Append(dbQ, QueryReq)
    BY <1>9 DEF OfflineTrigger
  <2>2. qryQ = << >> /\ \A i \in DOMAIN dbQ : dbQ[i] \notin Queries
    BY <1>3, <2>1
  <2>3. \A i, j \in DOMAIN dbQ' : dbQ'[i] \in Queries /\ dbQ'[j] \in Queries => i = j
    <3>1. QueryReq \in DbReq
      BY RequestKinds DEF Queries
    <3>2. QED
      BY <1>1, <2>1, <2>2, <3>1, PutInQueue
  <2>4. QED
    BY <1>3, <2>1, <2>2, <2>3
<1>10. CASE OfflineRows
  <2>1. qryQ # << >> /\ qryQ' = Tail(qryQ) /\ dbQ' = dbQ
    BY <1>10 DEF OfflineRows
  <2>2. qryQ' = << >>
    BY <1>1, <1>3, <2>1, ShortQueue
  <2>3. \A i \in DOMAIN dbQ' : dbQ'[i] \notin Queries
    BY <1>3, <2>1
  <2>4. Len(qryQ') <= 1
    BY <2>2
  <2>5. QED
    BY <2>2, <2>3, <2>4
<1>11. CASE OfflineSend
  <2>1. offPc = "send" /\ UNCHANGED <<qryQ, dbQ>>
    BY <1>11 DEF OfflineSend
  <2>2. QED
    BY <1>3, <2>1
<1>12. CASE Db
  <2>1. dbQ # << >> /\ dbQ' = Tail(dbQ) /\ offPc' = offPc
    BY <1>12 DEF Db, DbInsert, DbQuery, DbDelete, NextReqIs
  <2>2. CASE qryQ' = qryQ
    <3>1. /\ \A i, j \in DOMAIN dbQ' : dbQ'[i] \in Queries /\ dbQ'[j] \in Queries => i = j
          /\ \A i \in DOMAIN dbQ' : dbQ'[i] \in Queries =>
                 \E k \in DOMAIN dbQ : dbQ[k] = dbQ'[i]
      BY <1>1, <1>3, <2>1, TakeFromQueue
    <3>2. QED
      BY <1>3, <2>1, <2>2, <3>1
  <2>3. CASE Head(dbQ) \in Queries /\ qryQ' = Append(qryQ, db)
    <3>1. \A i \in DOMAIN dbQ' : dbQ'[i] \notin Queries
      BY <1>1, <1>3, <2>1, <2>3, TakeFromQueue
    <3>2. offPc = "await" /\ qryQ = << >>
      <4>1. 1 \in DOMAIN dbQ /\ dbQ[1] = Head(dbQ)
        BY <1>1, <2>1
      <4>2. QED
        BY <1>3, <2>3, <4>1
    <3>3. Len(qryQ') = 1
      BY <2>3, <3>2
    <3>4. QED
      BY <2>1, <3>1, <3>2, <3>3
  <2>4. Head(dbQ) \in DbReq
    BY <1>1, <2>1
  <2>5. QED
    BY <1>12, <2>2, <2>3, <2>4
    DEF Db, DbInsert, DbQuery, DbDelete, NextReqIs, Queries
<1>13. CASE Crash
  <2>1. dbQ' = << >> /\ qryQ' = << >>
    BY <1>13 DEF Crash, PipeRestart
  <2>2. QED
    BY <2>1
<1>14. QED
  BY <1>5, <1>6, <1>7, <1>8, <1>9, <1>10, <1>11, <1>12, <1>13, OtherSteps
  DEF Offline

-----------------------------------------------------------------------------

LEMMA CallsInit == Init => RepliesMatchRequests
<1> SUFFICES ASSUME Init PROVE RepliesMatchRequests
  OBVIOUS
<1>1. /\ pubQ = << >> /\ resQ = << >> /\ dbQ = << >> /\ delQ = << >>
      /\ qryQ = << >> /\ mgrPc = "idle" /\ offPc = "idle"
  BY DEF Init, LinkInit, LinkBoot, PipeBoot
<1>2. QED
  BY <1>1
  DEF RepliesMatchRequests, PublishCall, DeleteCall, QueryCall, AtMostOne

(* No reply is taken for the answer to another request, however the threads
   interleave, requests fail and the process dies: publish_result, the delete
   and the query replies are bare values on shared channels, and each caller
   (main.rs:736, 763, 597) is the only one with a call open.                 *)
THEOREM CallsAnswered == Spec => []RepliesMatchRequests
<1>1. TypeOK /\ RepliesMatchRequests /\ [Next]_vars => RepliesMatchRequests'
  BY PublishStep, DeleteStep, QueryStep DEF RepliesMatchRequests
<1>2. QED
  BY <1>1, CallsInit, TypeCorrect, PTL DEF Spec

-----------------------------------------------------------------------------
(* No message is lost silently (NoSilentLoss).

   It is not inductive.  A datum with a row id is dropped without a trace
   by data_manager when it is offline or could not be published, which is
   no loss as its text is in the table: so one must know that every such
   datum was stored before (ReplayedWereStored).  A fresh datum is
   forgotten on a positive result, which must be its own (ResultIsTrue,
   from PublishCall). *)

Stored(m) == "stored" \in fate[m]

AllStored(t) == \A row \in DOMAIN t : Stored(t[row])

ReplayedWereStored ==
    /\ AllStored(db)
    /\ AllStored(rows)
    /\ \A t \in Range(qryQ) : AllStored(t)
    /\ \A d \in Range(datumQ) : d.type = "Message" /\ d.id # 0 => Stored(d.msg)
    /\ mgrPc # "idle" /\ held.id # 0 => Stored(held.msg)
    /\ mgrPc = "await_del" => held.id # 0

ResultIsTrue == TRUE \in Range(resQ) => sent[held.msg] > 0

LossInv == NoSilentLoss /\ ReplayedWereStored /\ ResultIsTrue

-----------------------------------------------------------------------------
(* Queues as sets of what is in them. *)

LEMMA RangeAppend ==
    ASSUME NEW T, NEW q \in Seq(T), NEW e \in T
    PROVE  Range(Append(q, e)) = Range(q) \cup {e}
<1>1. Append(q, e) = q \o <<e>>
  BY AppendIsConcat
<1>2. <<e>> \in Seq(T) /\ Range(<<e>>) = {e}
  BY DEF Range
<1>3. Range(q \o <<e>>) = Range(q) \cup Range(<<e>>)
  BY <1>2, RangeConcatenation, ZenonT(30)
<1>4. QED
  BY <1>1, <1>2, <1>3

LEMMA RangeTail ==
    ASSUME NEW T, NEW q \in Seq(T), q # << >>
    PROVE  Range(q) = {Head(q)} \cup Range(Tail(q))
<1> DEFINE h == <<Head(q)>>
           t == Tail(q)
<1>1. h \in Seq(T) /\ t \in Seq(T) /\ q = h \o t
  BY HeadTailProperties
<1>2. Range(h) = {Head(q)}
  BY DEF Range
<1> HIDE DEF h, t
<1>3. Range(h \o t) = Range(h) \cup Range(t)
  BY <1>1, RangeConcatenation
<1>4. QED
  BY <1>1, <1>2, <1>3 DEF t

LEMMA RangeOne == ASSUME NEW e PROVE Range(<<e>>) = {e}
  BY DEF Range

LEMMA RangeEmpty == Range(<< >>) = {}
  BY DEF Range

(* Of the other threads' data the manager sees only notices. *)
LEMMA LinkData ==
    ASSUME LinkTypeOK, LinkStep
    PROVE  \/ datumQ' = datumQ
           \/ \E d \in Datum : /\ d.type = "Notice"
                               /\ datumQ' = Append(datumQ, d)
           \/ /\ datumQ # << >> /\ datumQ' = Tail(datumQ)
              /\ Head(datumQ).type = "Notice"
<1>1. CASE PubThread \/ SubForwardLost \/ Network \/ BroadcastDown
  BY <1>1 DEF PubThread, SubForwardLost, Network, BroadcastDown, Connect,
              Reconnected, ReconnectFailed, Announce, Subscribe, Handover,
              UploaderIdle, StillConnected, LinkLost, LateConnect
<1>2. CASE BroadcastUp \/ BroadcastDownNotice
  <2>1. \A state \in {0, 1} : /\ Notice(state) \in Datum
                              /\ Notice(state).type = "Notice"
    BY DEF Notice, Datum
  <2>2. QED
    BY <1>2, <2>1 DEF BroadcastUp, BroadcastDownNotice
<1>3. CASE ManagerNotice
  BY <1>3 DEF ManagerNotice
<1>4. QED
  BY <1>1, <1>2, <1>3 DEF LinkStep, Broadcaster
-----------------------------------------------------------------------------

(* History only grows. *)
LEMMA HistoryGrows ==
    ASSUME TypeOK, [Next]_vars, NEW m \in Msg
    PROVE  /\ fate[m] \subseteq fate'[m]
           /\ sent[m] <= sent'[m]
<1>1. fate \in [Msg -> SUBSET Fates] /\ sent \in [Msg -> Nat] /\ sent[m] \in Nat
  BY DEF TypeOK, PipeTypeOK
<1>2. CASE UNCHANGED <<fate, sent>>
  BY <1>1, <1>2
<1>3. ASSUME NEW x, NEW what, fate' = [fate EXCEPT ![x] = @ \cup {what}],
             UNCHANGED sent
      PROVE  fate[m] \subseteq fate'[m] /\ sent[m] <= sent'[m]
  BY <1>1, <1>3
<1>4. CASE HandleInput
  BY <1>2, <1>3, <1>4 DEF HandleInput, Befalls
<1>5. CASE DbInsert
  BY <1>2, <1>3, <1>5 DEF DbInsert, Befalls
<1>6. CASE PubMessage
  <2>1. UNCHANGED fate
    BY <1>6 DEF PubMessage
  <2>2. CASE sent' = [sent EXCEPT ![Head(pubQ)] = @ + 1]
    BY <1>1, <2>1, <2>2
  <2>3. CASE UNCHANGED sent
    BY <1>2, <2>1, <2>3
  <2>4. QED
    BY <1>6, <2>2, <2>3 DEF PubMessage
<1>7. CASE Crash
  BY <1>1, <1>7 DEF Crash
<1>8. CASE \/ ReadInput \/ ManagerMessage \/ ManagerResult \/ ManagerDeleted
           \/ Offline \/ DbQuery \/ DbDelete \/ LinkStep \/ UNCHANGED vars
  BY <1>2, <1>8 DEF ReadInput, ManagerMessage, ManagerResult, ManagerDeleted,
     Offline, OfflineTrigger, OfflineRows, OfflineSend, DbQuery, DbDelete,
     LinkStep, vars, pipeVars
<1>9. QED
  BY <1>4, <1>5, <1>6, <1>7, <1>8 DEF Next, Db

(* What was stored before a step still was after it. *)
StoredAfter(m) == "stored" \in fate'[m]

LEMMA StoredStep ==
    ASSUME TypeOK, [Next]_vars, NEW m \in Msg, Stored(m)
    PROVE  StoredAfter(m)
  BY HistoryGrows DEF Stored, StoredAfter

LEMMA ReplayedStillStored ==
    ASSUME TypeOK, [Next]_vars, ReplayedWereStored
    PROVE  /\ \A row \in DOMAIN db : StoredAfter(db[row])
           /\ \A row \in DOMAIN rows : StoredAfter(rows[row])
           /\ \A t \in Range(qryQ) : \A row \in DOMAIN t : StoredAfter(t[row])
           /\ \A d \in Range(datumQ) :
                  d.type = "Message" /\ d.id # 0 => StoredAfter(d.msg)
           /\ mgrPc # "idle" /\ held.id # 0 => StoredAfter(held.msg)
<1>1. \A m \in Msg : Stored(m) => StoredAfter(m)
  BY StoredStep
<1>2. ASSUME NEW t, IsTable(t, Msg), AllStored(t)
      PROVE  \A row \in DOMAIN t : StoredAfter(t[row])
  <2>1. \A row \in DOMAIN t : t[row] \in Msg /\ Stored(t[row])
    BY <1>2 DEF IsTable, AllStored
  <2>2. QED
    BY <1>1, <2>1
<1>3. IsTable(db, Msg) /\ IsTable(rows, Msg)
      /\ \A t \in Range(qryQ) : IsTable(t, Msg)
  BY DEF TypeOK, PipeTypeOK
<1>4. AllStored(db) /\ AllStored(rows) /\ \A t \in Range(qryQ) : AllStored(t)
  BY DEF ReplayedWereStored
<1>5. \A d \in Range(datumQ) :
          d.type = "Message" /\ d.id # 0 => StoredAfter(d.msg)
  <2>1. \A d \in Range(datumQ) : d.type = "Message" => d.msg \in Msg
    <3>1. Range(datumQ) \subseteq Datum
      BY RangeOfSeq DEF TypeOK, LinkTypeOK
    <3>2. \A d \in Datum : d.type = "Message" => d.msg \in Msg
      BY DEF Datum
    <3>3. QED
      BY <3>1, <3>2
  <2>2. QED
    BY <1>1, <2>1 DEF ReplayedWereStored
<1>6. mgrPc # "idle" /\ held.id # 0 => StoredAfter(held.msg)
  <2>1. mgrPc # "idle" => held.msg \in Msg
    BY DEF TypeOK, PipeTypeOK, Datum
  <2>2. QED
    BY <1>1, <2>1 DEF ReplayedWereStored
<1>7. QED
  BY <1>2, <1>3, <1>4, <1>5, <1>6

(* The rows of a table after DELETE and INSERT. *)
LEMMA RowsLeft ==
    ASSUME NEW t, IsTable(t, Msg), NEW r, NEW row \in DOMAIN DeleteRow(t, r)
    PROVE  row \in DOMAIN t /\ DeleteRow(t, r)[row] = t[row]
<1>1. /\ DOMAIN DeleteRow(t, r) = DOMAIN t \ {r}
      /\ \A s \in DOMAIN t \ {r} : DeleteRow(t, r)[s] = t[s]
  BY DeleteRowTable
<1>2. QED
  BY <1>1

LEMMA RowsAdded ==
    ASSUME NEW t, IsTable(t, Msg), NEW m \in Msg, NEW row \in DOMAIN InsertRow(t, m)
    PROVE  \/ row \in DOMAIN t /\ InsertRow(t, m)[row] = t[row]
           \/ InsertRow(t, m)[row] = m
<1>1. DOMAIN InsertRow(t, m) = DOMAIN t \cup {NextRowId(t)}
  BY DEF InsertRow
<1>2. \A r \in DOMAIN InsertRow(t, m) :
          InsertRow(t, m)[r] = IF r = NextRowId(t) THEN m ELSE t[r]
  BY DEF InsertRow
<1>3. QED
  BY <1>1, <1>2

LEMMA ReplayStep ==
    TypeOK /\ ReplayedWereStored /\ [Next]_vars => ReplayedWereStored'
<1> SUFFICES ASSUME TypeOK, ReplayedWereStored, [Next]_vars
             PROVE  ReplayedWereStored'
  OBVIOUS
<1> DEFINE
      Tables == /\ \A row \in DOMAIN db' : StoredAfter(db'[row])
                /\ \A row \in DOMAIN rows' : StoredAfter(rows'[row])
                /\ \A t \in Range(qryQ') : \A row \in DOMAIN t : StoredAfter(t[row])
      Data == \A d \in Range(datumQ') :
                  d.type = "Message" /\ d.id # 0 => StoredAfter(d.msg)
      Held == /\ mgrPc' # "idle" /\ held'.id # 0 => StoredAfter(held'.msg)
              /\ mgrPc' = "await_del" => held'.id # 0
<1>1. SUFFICES Tables /\ Data /\ Held
  BY <1>1 DEF ReplayedWereStored, AllStored, Stored, StoredAfter
<1>2. /\ \A row \in DOMAIN db : StoredAfter(db[row])
      /\ \A row \in DOMAIN rows : StoredAfter(rows[row])
      /\ \A t \in Range(qryQ) : \A row \in DOMAIN t : StoredAfter(t[row])
      /\ \A d \in Range(datumQ) :
             d.type = "Message" /\ d.id # 0 => StoredAfter(d.msg)
      /\ mgrPc # "idle" /\ held.id # 0 => StoredAfter(held.msg)
      /\ mgrPc = "await_del" => held.id # 0
  BY ReplayedStillStored DEF ReplayedWereStored
<1>3. /\ datumQ \in Seq(Datum) /\ rawQ \in Seq(Msg) /\ dbQ \in Seq(DbReq)
      /\ qryQ \in Seq(Range(qryQ)) /\ IsTable(db, Msg) /\ IsTable(rows, Msg)
  BY DEF TypeOK, LinkTypeOK, PipeTypeOK
<1>4. UNCHANGED <<db, rows, qryQ>> => Tables
  BY <1>2
<1>5. UNCHANGED datumQ => Data
  BY <1>2
<1>6. UNCHANGED <<mgrPc, held>> => Held
  BY <1>2
<1>7. ASSUME NEW d \in Datum, datumQ' = Append(datumQ, d),
             d.type = "Message" /\ d.id # 0 => StoredAfter(d.msg)
      PROVE  Data
  <2>1. Range(datumQ') = Range(datumQ) \cup {d}
    BY <1>3, <1>7, RangeAppend
  <2>2. QED
    BY <1>2, <1>7, <2>1
<1>8. ASSUME datumQ # << >>, datumQ' = Tail(datumQ)
      PROVE  Data /\ Head(datumQ) \in Range(datumQ)
  <2>1. Range(datumQ) = {Head(datumQ)} \cup Range(datumQ')
    BY <1>3, <1>8, RangeTail
  <2>2. QED
    BY <1>2, <2>1
<1> HIDE DEF Tables, Data, Held
<1>9. CASE HandleInput
  <2>1. Data
    <3>1. CASE UNCHANGED datumQ
      BY <1>5, <3>1
    <3>2. CASE datumQ' = Append(datumQ, Message(0, Head(rawQ)))
      <4>1. Head(rawQ) \in Msg
        BY <1>3, <1>9, HeadTailProperties DEF HandleInput
      <4>2. Message(0, Head(rawQ)) \in Datum /\ Message(0, Head(rawQ)).id = 0
        BY <4>1 DEF Message, Datum
      <4>3. QED
        BY <1>7, <3>2, <4>2
    <3>3. QED
      BY <1>9, <3>1, <3>2 DEF HandleInput
  <2>2. QED
    BY <1>4, <1>6, <1>9, <2>1 DEF HandleInput
<1>10. CASE LinkStep
  <2>1. Data
    BY <1>5, <1>7, <1>8, <1>10, LinkData DEF TypeOK
  <2>2. QED
    BY <1>4, <1>6, <1>10, <2>1 DEF LinkStep, pipeVars
<1>11. CASE ManagerMessage
  <2>1. Data /\ Head(datumQ) \in Range(datumQ)
    BY <1>8, <1>11 DEF ManagerMessage
  <2>2. Held
    <3>1. CASE mgrPc' = "await_pub" /\ held' = Head(datumQ)
      <4>1. held'.id # 0 => StoredAfter(held'.msg)
        BY <1>2, <1>11, <2>1, <3>1 DEF ManagerMessage
      <4>2. QED
        BY <3>1, <4>1 DEF Held
    <3>2. CASE UNCHANGED <<mgrPc, held>>
      BY <1>6, <3>2
    <3>3. QED
      BY <1>11, <3>1, <3>2 DEF ManagerMessage
  <2>3. QED
    BY <1>4, <1>11, <2>1, <2>2 DEF ManagerMessage
<1>12. CASE ManagerResult
  <2>1. Held
    <3>1. CASE mgrPc' = "idle"
      BY <3>1 DEF Held
    <3>2. CASE mgrPc' = "await_del" /\ held' = held /\ held.id # 0
      <4>1. mgrPc = "await_pub"
        BY <1>12 DEF ManagerResult
      <4>2. QED
        BY <1>2, <3>2, <4>1 DEF Held
    <3>3. \A e \in Deletes : e.id # 0
      BY DEF Deletes, DbReq, RowId
    <3>4. QED
      BY <1>12, <3>1, <3>2, <3>3, ResultRequests
  <2>2. QED
    BY <1>4, <1>5, <1>12, <2>1 DEF ManagerResult, linkVars
<1>13. CASE ManagerDeleted
  <2>1. Held
    BY <1>13 DEF ManagerDeleted, Held
  <2>2. QED
    BY <1>4, <1>5, <1>13, <2>1 DEF ManagerDeleted, linkVars
<1>14. CASE OfflineRows
  <2>1. Range(qryQ) = {Head(qryQ)} \cup Range(qryQ')
    BY <1>3, <1>14, RangeTail DEF OfflineRows
  <2>2. Tables
    BY <1>2, <1>14, <2>1 DEF OfflineRows, Tables
  <2>3. QED
    BY <1>5, <1>6, <1>14, <2>2 DEF OfflineRows, linkVars
<1>15. CASE OfflineSend
  <2>1. DOMAIN rows # {}
    BY <1>15 DEF OfflineSend, TypeOK, PipeTypeOK
  <2>2. FirstRow(rows) \in DOMAIN rows
    BY <1>3, <2>1, FirstRowExists
  <2>3. Data
    <3>1. CASE datumQ' = Append(datumQ, Message(FirstRow(rows), rows[FirstRow(rows)]))
      <4>1. FirstRow(rows) \in Nat /\ rows[FirstRow(rows)] \in Msg
        BY <1>3, <2>2 DEF IsTable, RowId
      <4>2. /\ Message(FirstRow(rows), rows[FirstRow(rows)]) \in Datum
            /\ Message(FirstRow(rows), rows[FirstRow(rows)]).msg
                   = rows[FirstRow(rows)]
        BY <4>1 DEF Message, Datum
      <4>3. StoredAfter(rows[FirstRow(rows)])
        BY <1>2, <2>2
      <4>4. QED
        BY <1>7, <3>1, <4>2, <4>3
    <3>2. CASE UNCHANGED datumQ
      BY <1>5, <3>2
    <3>3. QED
      BY <1>15, <3>1, <3>2 DEF OfflineSend
  <2>4. Tables
    <3>1. rows' = DeleteRow(rows, FirstRow(rows)) /\ UNCHANGED <<db, qryQ>>
      BY <1>15 DEF OfflineSend
    <3>2. \A row \in DOMAIN rows' : row \in DOMAIN rows /\ rows'[row] = rows[row]
      BY <1>3, <3>1, RowsLeft
    <3>3. QED
      BY <1>2, <3>1, <3>2 DEF Tables
  <2>5. QED
    BY <1>6, <1>15, <2>3, <2>4 DEF OfflineSend
<1>16. CASE DbInsert
  <2>1. CASE UNCHANGED db
    BY <1>4, <1>5, <1>6, <1>16, <2>1 DEF DbInsert, linkVars
  <2>2. CASE /\ db' = InsertRow(db, Head(dbQ).msg)
             /\ Befalls(Head(dbQ).msg, "stored")
    <3>1. Head(dbQ).msg \in Msg
      <4>1. Head(dbQ) \in DbReq /\ Head(dbQ).op = "INSERT"
        BY <1>3, <1>16, HeadTailProperties DEF DbInsert, NextReqIs
      <4>2. QED
        BY <4>1 DEF DbReq
    <3>2. StoredAfter(Head(dbQ).msg)
      BY <2>2, <3>1 DEF Befalls, StoredAfter, TypeOK, PipeTypeOK
    <3>3. \A row \in DOMAIN db' : \/ row \in DOMAIN db /\ db'[row] = db[row]
                                  \/ db'[row] = Head(dbQ).msg
      BY <1>3, <2>2, <3>1, RowsAdded
    <3>4. Tables
      BY <1>2, <1>16, <3>2, <3>3 DEF DbInsert, Tables
    <3>5. QED
      BY <1>5, <1>6, <1>16, <3>4 DEF DbInsert, linkVars
  <2>3. QED
    BY <1>16, <2>1, <2>2 DEF DbInsert
<1>17. CASE DbQuery
  <2>1. Tables
    <3>1. CASE qryQ' = qryQ
      BY <1>4, <1>17, <3>1 DEF DbQuery
    <3>2. CASE qryQ' = Append(qryQ, db)
      <4>1. qryQ \in Seq(Range(qryQ) \cup {db})
        BY <1>3
      <4>2. Range(qryQ') = Range(qryQ) \cup {db}
        BY <3>2, <4>1, RangeAppend
      <4>3. QED
        BY <1>2, <1>17, <4>2 DEF DbQuery, Tables
    <3>3. QED
      BY <1>17, <3>1, <3>2 DEF DbQuery
  <2>2. QED
    BY <1>5, <1>6, <1>17, <2>1 DEF DbQuery, linkVars
<1>18. CASE DbDelete
  <2>1. Tables
    <3>1. \A row \in DOMAIN db' : row \in DOMAIN db /\ db'[row] = db[row]
      <4>1. CASE db' = DeleteRow(db, Head(dbQ).id)
        BY <1>3, <4>1, RowsLeft
      <4>2. CASE db' = db
        BY <4>2
      <4>3. QED
        BY <1>18, <4>1, <4>2 DEF DbDelete
    <3>2. QED
      BY <1>2, <1>18, <3>1 DEF DbDelete, Tables
  <2>2. QED
    BY <1>5, <1>6, <1>18, <2>1 DEF DbDelete, linkVars
<1>19. CASE Crash
  <2>1. Tables
    BY <1>2, <1>19, RangeEmpty DEF Crash, PipeRestart, Tables, EmptyTable
  <2>2. Data
    BY <1>19, RangeEmpty DEF Crash, LinkRestart, Data
  <2>3. Held
    BY <1>19 DEF Crash, PipeRestart, Held
  <2>4. QED
    BY <2>1, <2>2, <2>3
<1>20. CASE ReadInput \/ PubMessage \/ OfflineTrigger \/ UNCHANGED vars
  BY <1>4, <1>5, <1>6, <1>20
  DEF ReadInput, PubMessage, OfflineTrigger, vars, linkVars, pipeVars
<1>21. QED
  BY <1>9, <1>10, <1>11, <1>12, <1>13, <1>14, <1>15, <1>16, <1>17, <1>18,
     <1>19, <1>20
  DEF Next, Offline, Db
-----------------------------------------------------------------------------
(* A positive result is the one of the message in the manager's hands. *)

LEMMA ResultStep ==
    TypeOK /\ PublishCall /\ ResultIsTrue /\ [Next]_vars => ResultIsTrue'
<1> SUFFICES ASSUME TypeOK, PublishCall, ResultIsTrue, [Next]_vars
             PROVE  ResultIsTrue'
  OBVIOUS
<1>1. /\ resQ \in Seq(BOOLEAN) /\ pubQ \in Seq(Msg \cup {NoMsg})
      /\ sent \in [Msg -> Nat]
  BY DEF TypeOK, LinkTypeOK, PipeTypeOK
<1>2. Len(resQ) <= 1 /\ (resQ # << >> => mgrPc = "await_pub")
  BY DEF PublishCall
<1>3. resQ' = << >> => ResultIsTrue'
  BY RangeEmpty DEF ResultIsTrue
<1>4. CASE UNCHANGED <<resQ, held, sent>>
  BY <1>4 DEF ResultIsTrue
<1>5. CASE ManagerMessage \/ ManagerDeleted
  BY <1>2, <1>3, <1>5 DEF ManagerMessage, ManagerDeleted
<1>6. CASE ManagerResult
  BY <1>1, <1>2, <1>3, <1>6, ShortQueue DEF ManagerResult
<1>7. CASE PubMessage
  <2>1. pubQ # << >> /\ Head(pubQ) # NoMsg /\ held' = held
    BY <1>7 DEF PubMessage
  <2>2. 1 \in DOMAIN pubQ /\ pubQ[1] = Head(pubQ) /\ Head(pubQ) \in Msg
    BY <1>1, <2>1
  <2>3. resQ = << >> /\ Head(pubQ) = held.msg
    BY <2>1, <2>2 DEF PublishCall, IsMsg
  <2>4. CASE sent' = [sent EXCEPT ![Head(pubQ)] = @ + 1]
    <3>1. sent'[held.msg] > 0
      BY <1>1, <2>2, <2>3, <2>4
    <3>2. QED
      BY <2>1, <3>1 DEF ResultIsTrue
  <2>5. CASE resQ' = Append(resQ, FALSE)
    <3>1. Range(resQ') = {FALSE}
      <4>1. resQ' = <<FALSE>>
        BY <2>3, <2>5
      <4>2. QED
        BY <4>1, RangeOne
    <3>2. QED
      BY <3>1 DEF ResultIsTrue
  <2>6. QED
    BY <1>7, <2>4, <2>5 DEF PubMessage
<1>8. CASE Crash
  BY <1>3, <1>8 DEF Crash, PipeRestart
<1>9. CASE \/ ReadInput \/ HandleInput \/ Offline \/ Db \/ LinkStep
           \/ UNCHANGED vars
  BY <1>4, <1>9
  DEF ReadInput, HandleInput, Offline, OfflineTrigger, OfflineRows, OfflineSend,
      Db, DbInsert, DbQuery, DbDelete, LinkStep, vars, pipeVars
<1>10. QED
  BY <1>5, <1>6, <1>7, <1>8, <1>9 DEF Next

-----------------------------------------------------------------------------
(* No message is lost silently. *)

LEMMA LossStep ==
    TypeOK /\ LossInv /\ [Next]_vars => NoSilentLoss'
<1> SUFFICES ASSUME TypeOK, LossInv, [Next]_vars,
                    NEW m \in 1..nread', sent'[m] = 0, fate'[m] = {}
             PROVE  FreshInFlight(m)'
  BY DEF NoSilentLoss
<1> DEFINE
      Raw == m \in Range(rawQ)
      Data == Message(0, m) \in Range(datumQ)
      Held == mgrPc # "idle" /\ held = Message(0, m)
      Insert == InsertReq(m) \in Range(dbQ)
<1>1. (Raw \/ Data \/ Held \/ Insert)' => FreshInFlight(m)'
  BY DEF FreshInFlight, Range
<1>2. /\ datumQ \in Seq(Datum) /\ rawQ \in Seq(Msg) /\ dbQ \in Seq(DbReq)
      /\ resQ \in Seq(BOOLEAN) /\ nread \in 0..MaxMsgs /\ fate \in [Msg -> SUBSET Fates]
  BY DEF TypeOK, LinkTypeOK, PipeTypeOK
<1>3. nread' \in 0..MaxMsgs /\ m \in Msg
  <2>1. nread' \in 0..MaxMsgs
    BY TypeStep DEF TypeOK, PipeTypeOK
  <2>2. QED
    BY <2>1, CloudLinkAssumption DEF Msg
<1>4. fate[m] = {} /\ sent[m] = 0
  <2>1. fate[m] \subseteq fate'[m] /\ sent[m] <= sent'[m] /\ sent[m] \in Nat
    BY <1>3, HistoryGrows DEF TypeOK, PipeTypeOK
  <2>2. QED
    BY <2>1
<1>5. m \in 1..nread => Raw \/ Data \/ Held \/ Insert
  BY <1>4 DEF LossInv, NoSilentLoss, FreshInFlight, Range
<1>6. ASSUME rawQ # << >>, rawQ' = Tail(rawQ)
      PROVE  Range(rawQ) = {Head(rawQ)} \cup Range(rawQ')
  BY <1>2, <1>6, RangeTail
<1>7. ASSUME datumQ # << >>, datumQ' = Tail(datumQ)
      PROVE  Range(datumQ) = {Head(datumQ)} \cup Range(datumQ')
  BY <1>2, <1>7, RangeTail
<1>8. ASSUME dbQ # << >>, dbQ' = Tail(dbQ)
      PROVE  Range(dbQ) = {Head(dbQ)} \cup Range(dbQ')
  BY <1>2, <1>8, RangeTail
<1>9. ASSUME NEW d \in Datum, datumQ' = Append(datumQ, d)
      PROVE  Range(datumQ') = Range(datumQ) \cup {d}
  BY <1>2, <1>9, RangeAppend
<1>10. ASSUME NEW e \in DbReq, dbQ' = Append(dbQ, e)
       PROVE  Range(dbQ') = Range(dbQ) \cup {e}
  BY <1>2, <1>10, RangeAppend
<1>11. /\ Message(0, m) \in Datum /\ Message(0, m).type = "Message"
       /\ Message(0, m).id = 0 /\ Message(0, m).msg = m
  BY <1>3 DEF Message, Datum
<1>12. InsertReq(m) \in DbReq /\ InsertReq(m).op = "INSERT" /\ InsertReq(m).msg = m
  BY <1>3 DEF InsertReq, DbReq
<1> HIDE DEF Raw, Data, Held, Insert
<1>13. CASE ReadInput
  <2>1. nread + 1 \in Msg /\ nread' = nread + 1 /\ rawQ' = Append(rawQ, nread + 1)
    BY <1>2, <1>3, <1>13, CloudLinkAssumption DEF ReadInput, Msg
  <2>2. Range(rawQ') = Range(rawQ) \cup {nread + 1}
    BY <1>2, <2>1, RangeAppend
  <2>3. CASE m = nread + 1
    BY <1>1, <2>2, <2>3 DEF Raw
  <2>4. CASE m \in 1..nread
    BY <1>1, <1>5, <1>13, <2>2, <2>4 DEF ReadInput, Raw, Data, Held, Insert, linkVars
  <2>5. QED
    BY <1>2, <2>1, <2>3, <2>4
<1>14. nread' = nread \/ ReadInput
  BY DEF Next, HandleInput, ManagerMessage, ManagerResult, ManagerDeleted,
         PubMessage, Offline, OfflineTrigger, OfflineRows, OfflineSend, Db,
         DbInsert, DbQuery, DbDelete, LinkStep, Crash, vars, pipeVars
<1>15. SUFFICES ASSUME nread' = nread, Raw \/ Data \/ Held \/ Insert
                PROVE  FreshInFlight(m)'
  BY <1>5, <1>13, <1>14
<1>16. CASE UNCHANGED <<rawQ, datumQ, mgrPc, held, dbQ>>
  BY <1>1, <1>15, <1>16 DEF Raw, Data, Held, Insert
<1>17. CASE HandleInput
  <2>1. rawQ # << >> /\ rawQ' = Tail(rawQ) /\ UNCHANGED <<mgrPc, held, dbQ>>
    BY <1>17 DEF HandleInput
  <2>2. Range(rawQ) = {Head(rawQ)} \cup Range(rawQ')
    BY <1>6, <2>1
  <2>3. Head(rawQ) \in Msg
    BY <1>2, <2>1, HeadTailProperties
  <2>4. CASE Befalls(Head(rawQ), "rejected") /\ UNCHANGED datumQ
    <3>1. Head(rawQ) # m
      BY <1>2, <1>3, <2>4 DEF Befalls
    <3>2. QED
      BY <1>1, <1>15, <2>1, <2>2, <2>4, <3>1 DEF Raw, Data, Held, Insert
  <2>5. CASE datumQ' = Append(datumQ, Message(0, Head(rawQ)))
    <3>1. Message(0, Head(rawQ)) \in Datum
      BY <2>3 DEF Message, Datum
    <3>2. Range(datumQ') = Range(datumQ) \cup {Message(0, Head(rawQ))}
      BY <1>9, <2>5, <3>1
    <3>3. QED
      BY <1>1, <1>15, <2>1, <2>2, <3>2 DEF Raw, Data, Held, Insert
  <2>6. QED
    BY <1>17, <2>4, <2>5 DEF HandleInput
<1>18. CASE ManagerMessage
  <2>1. /\ mgrPc = "idle" /\ datumQ # << >> /\ datumQ' = Tail(datumQ)
        /\ rawQ' = rawQ
    BY <1>18 DEF ManagerMessage
  <2>2. Range(datumQ) = {Head(datumQ)} \cup Range(datumQ')
    BY <1>7, <2>1
  <2>3. CASE mgrPc' = "await_pub" /\ held' = Head(datumQ) /\ dbQ' = dbQ
    BY <1>1, <1>15, <2>1, <2>2, <2>3 DEF Raw, Data, Held, Insert
  <2>4. CASE Head(datumQ).id = 0 /\ dbQ' = Append(dbQ, InsertReq(Head(datumQ).msg))
    <3>1. InsertReq(Head(datumQ).msg) \in DbReq
      <4>1. Head(datumQ) \in Datum /\ Head(datumQ).type = "Message"
        BY <1>2, <1>18, HeadTailProperties DEF ManagerMessage
      <4>2. Head(datumQ).msg \in Msg
        BY <4>1 DEF Datum
      <4>3. QED
        BY <4>2 DEF InsertReq, DbReq
    <3>2. Range(dbQ') = Range(dbQ) \cup {InsertReq(Head(datumQ).msg)}
      BY <1>10, <2>4, <3>1
    <3>3. QED
      BY <1>1, <1>11, <1>15, <2>1, <2>2, <3>2 DEF Raw, Data, Held, Insert
  <2>5. CASE Head(datumQ).id # 0 /\ dbQ' = dbQ
    BY <1>1, <1>11, <1>15, <2>1, <2>2, <2>5 DEF Raw, Data, Held, Insert
  <2>6. QED
    BY <1>18, <2>3, <2>4, <2>5 DEF ManagerMessage
<1>19. CASE ManagerResult
  <2>1. UNCHANGED <<rawQ, datumQ>>
    BY <1>19 DEF ManagerResult, linkVars
  <2>2. CASE Raw \/ Data
    BY <1>1, <2>1, <2>2 DEF Raw, Data
  <2>3. CASE Insert
    <3>1. dbQ' = dbQ \/ \E e \in DbReq : dbQ' = Append(dbQ, e)
      BY <1>19, ResultRequests DEF Deletes
    <3>2. QED
      BY <1>1, <1>10, <2>3, <3>1 DEF Insert
  <2>4. CASE Held
    <3>1. resQ # << >> /\ dbQ' = dbQ \o AfterPublish(Head(resQ), held)
      BY <1>19 DEF ManagerResult
    <3>2. Head(resQ) = FALSE
      <4>1. Head(resQ) \in BOOLEAN /\ Head(resQ) \in Range(resQ)
        BY <1>2, <3>1, HeadTailProperties, RangeTail
      <4>2. TRUE \notin Range(resQ)
        <5>1. held.msg = m
          BY <1>11, <2>4 DEF Held
        <5>2. ~(sent[held.msg] > 0)
          BY <1>4, <5>1
        <5>3. QED
          BY <5>2 DEF LossInv, ResultIsTrue
      <4>3. QED
        BY <4>1, <4>2
    <3>3. AfterPublish(Head(resQ), held) = <<InsertReq(m)>>
      BY <1>11, <2>4, <3>2 DEF AfterPublish, Held
    <3>4. dbQ' = Append(dbQ, InsertReq(m))
      BY <1>2, <1>12, <3>1, <3>3, AppendIsConcat
    <3>5. QED
      BY <1>1, <1>10, <1>12, <3>4 DEF Insert
  <2>5. QED
    BY <1>15, <2>2, <2>3, <2>4
<1>20. CASE ManagerDeleted
  <2>1. ~Held
    BY <1>11, <1>20 DEF ManagerDeleted, LossInv, ReplayedWereStored, Held
  <2>2. QED
    BY <1>1, <1>15, <1>20, <2>1 DEF ManagerDeleted, linkVars, Raw, Data, Insert
<1>21. CASE OfflineTrigger
  <2>1. QueryReq \in DbReq /\ dbQ' = Append(dbQ, QueryReq)
    BY <1>21, RequestKinds DEF OfflineTrigger, Queries
  <2>2. Range(dbQ') = Range(dbQ) \cup {QueryReq}
    BY <1>10, <2>1
  <2>3. QED
    BY <1>1, <1>15, <1>21, <2>2 DEF OfflineTrigger, Raw, Data, Held, Insert
<1>22. CASE OfflineSend
  <2>1. Range(datumQ) \subseteq Range(datumQ')
    <3>1. FirstRow(rows) \in DOMAIN rows /\ IsTable(rows, Msg)
      BY <1>22, FirstRowExists DEF OfflineSend, TypeOK, PipeTypeOK
    <3>2. Message(FirstRow(rows), rows[FirstRow(rows)]) \in Datum
      BY <3>1 DEF IsTable, RowId, Message, Datum
    <3>3. QED
      BY <1>9, <1>22, <3>2 DEF OfflineSend
  <2>2. QED
    BY <1>1, <1>15, <1>22, <2>1 DEF OfflineSend, Raw, Data, Held, Insert
<1>23. CASE Db
  <2>1. dbQ # << >> /\ dbQ' = Tail(dbQ) /\ UNCHANGED <<rawQ, datumQ, mgrPc, held>>
    BY <1>23 DEF Db, DbInsert, DbQuery, DbDelete, NextReqIs, linkVars
  <2>2. Range(dbQ) = {Head(dbQ)} \cup Range(dbQ')
    BY <1>8, <2>1
  <2>3. Head(dbQ) # InsertReq(m)
    <3>1. CASE DbInsert
      <4>1. fate'[Head(dbQ).msg] # {} \/ Head(dbQ).msg \notin Msg
        BY <1>2, <3>1 DEF DbInsert, Befalls
      <4>2. QED
        BY <1>3, <1>12, <4>1
    <3>2. CASE DbQuery \/ DbDelete
      BY <1>12, <3>2 DEF DbQuery, DbDelete, NextReqIs
    <3>3. QED
      BY <1>23, <3>1, <3>2 DEF Db
  <2>4. QED
    BY <1>1, <1>15, <2>1, <2>2, <2>3 DEF Raw, Data, Held, Insert
<1>24. CASE LinkStep
  <2>1. Data => Message(0, m) \in Range(datumQ')
    BY <1>7, <1>9, <1>11, <1>24, LinkData DEF TypeOK, Data
  <2>2. QED
    BY <1>1, <1>15, <1>24, <2>1 DEF LinkStep, pipeVars, Raw, Data, Held, Insert
<1>25. CASE Crash
  <2>1. FreshInFlight(m)
    BY <1>15 DEF FreshInFlight, Range, Raw, Data, Held, Insert
  <2>2. fate'[m] = fate[m] \cup {"crashed"}
    BY <1>3, <1>25, <2>1 DEF Crash
  <2>3. QED
    BY <2>2
<1>26. QED
  <2>1. CASE OfflineRows \/ PubMessage \/ UNCHANGED vars
    BY <1>16, <2>1 DEF OfflineRows, PubMessage, vars, linkVars, pipeVars
  <2>2. QED
    BY <1>13, <1>17, <1>18, <1>19, <1>20, <1>21, <1>22, <1>23, <1>24, <1>25, <2>1
    DEF Next, Offline

LEMMA LossInit == Init => LossInv
<1> SUFFICES ASSUME Init PROVE LossInv
  OBVIOUS
<1>1. /\ nread = 0 /\ resQ = << >> /\ qryQ = << >> /\ datumQ = << >>
      /\ mgrPc = "idle" /\ db = EmptyTable /\ rows = EmptyTable
  BY DEF Init, LinkInit, LinkBoot, PipeBoot
<1>2. NoSilentLoss
  BY <1>1 DEF NoSilentLoss
<1>3. ReplayedWereStored
  BY <1>1, RangeEmpty DEF ReplayedWereStored, AllStored, EmptyTable
<1>4. QED
  BY <1>1, <1>2, <1>3, RangeEmpty DEF LossInv, ResultIsTrue

(* Every message read from the devices is in memory, published, or known to
   be stored, rejected, refused by SQLite or lost in a crash: whatever the
   link, the publish results, the database and the process do, the path
   through the four threads (main.rs:555-800) never just drops one.        *)
THEOREM NothingLostSilently == Spec => []NoSilentLoss
<1>1. TypeOK /\ PublishCall /\ LossInv /\ [Next]_vars => LossInv'
  BY LossStep, ReplayStep, ResultStep DEF LossInv
<1>2. RepliesMatchRequests => PublishCall
  BY DEF RepliesMatchRequests
<1>3. LossInv => NoSilentLoss
  BY DEF LossInv
<1>4. QED
  BY <1>1, <1>2, <1>3, LossInit, TypeCorrect, CallsAnswered, PTL DEF Spec

=============================================================================
