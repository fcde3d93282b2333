--------------------------- MODULE CloudLinkProofs ---------------------------
(***************************************************************************)
(* Proofs about CloudLink, for any number of losses and any set of faults. *)
(***************************************************************************)
EXTENDS CloudLink, SequenceTheorems, TLAPS

LEMMA LinkTypeInit == LinkInit => LinkTypeOK
<1> SUFFICES ASSUME LinkInit PROVE LinkTypeOK
  OBVIOUS
<1> USE CloudLinkAssumption DEF LinkInit, LinkBoot
<1>1. drops \in 0..MaxDrops /\ triggers \in Nat
  OBVIOUS
<1>2. consumerQ \in Seq({"lost"}) /\ announceQ \in Seq({"up", "down"})
  OBVIOUS
<1>3. pubQ \in Seq(Msg \cup {NoMsg})
  OBVIOUS
<1>4. datumQ \in Seq(Datum)
  OBVIOUS
<1>5. pubPc \in PubPc /\ bcPc \in {"recv", "notify"}
  BY DEF PubPc
<1>6. link \in BOOLEAN /\ subscribed \in BOOLEAN /\ handed \in BOOLEAN
  OBVIOUS
<1>7. cloud \in BOOLEAN /\ misreported \in BOOLEAN
  OBVIOUS
<1>8. QED
  BY <1>1, <1>2, <1>3, <1>4, <1>5, <1>6, <1>7 DEF LinkTypeOK

LEMMA LinkTypeStep == LinkTypeOK /\ [LinkNext]_linkVars => LinkTypeOK'
<1> SUFFICES ASSUME LinkTypeOK, [LinkNext]_linkVars
             PROVE  LinkTypeOK'
  OBVIOUS
<1> USE CloudLinkAssumption DEF LinkTypeOK
<1>1. CASE Connect
  BY <1>1 DEF Connect, PubPc
<1>2. CASE Reconnected
  BY <1>2 DEF Reconnected, PubPc
<1>3. CASE ReconnectFailed
  BY <1>3 DEF ReconnectFailed, PubPc
<1>4. CASE Announce
  BY <1>4 DEF Announce, AfterAnnounce, PubPc
<1>5. CASE Subscribe
  BY <1>5 DEF Subscribe, PubPc
<1>6. CASE Handover
  BY <1>6 DEF Handover, PubPc
<1>7. CASE UploaderIdle
  <2>1. pubQ' \in Seq(Msg \cup {NoMsg})
    <3>1. CASE pubQ' = pubQ
      BY <3>1
    <3>2. CASE pubQ # << >> /\ pubQ' = Tail(pubQ)
      BY <3>2
    <3>3. QED
      BY <1>7, <3>1, <3>2 DEF UploaderIdle
  <2>2. pubPc' \in PubPc
    BY <1>7 DEF UploaderIdle, PubPc
  <2>3. QED
    BY <1>7, <2>1, <2>2 DEF UploaderIdle
<1>8. CASE StillConnected
  BY <1>8 DEF StillConnected, PubPc
<1>9. CASE SubForwardLost
  BY <1>9 DEF SubForwardLost
<1>10. CASE BroadcastUp
  BY <1>10 DEF BroadcastUp, Datum, Notice
<1>11. CASE BroadcastDown
  BY <1>11 DEF BroadcastDown, NoMsg
<1>12. CASE BroadcastDownNotice
  BY <1>12 DEF BroadcastDownNotice, Datum, Notice
<1>13. CASE ManagerNotice
  BY <1>13 DEF ManagerNotice, OnlineAfter
<1>14. CASE LinkLost
  <2>1. drops' \in 0..MaxDrops
    BY <1>14 DEF LinkLost
  <2>2. consumerQ' \in Seq({"lost"})
    BY <1>14 DEF LinkLost
  <2>3. QED
    BY <1>14, <2>1, <2>2 DEF LinkLost
<1>15. CASE LateConnect
  BY <1>15 DEF LateConnect
<1>16. CASE UNCHANGED linkVars
  BY <1>16 DEF linkVars
<1>17. QED
  BY <1>1, <1>2, <1>3, <1>4, <1>5, <1>6, <1>7, <1>8, <1>9, <1>10, <1>11,
     <1>12, <1>13, <1>14, <1>15, <1>16
  DEF LinkNext, PubThread, Broadcaster, Network

(* Every variable of the connection tracking keeps its type. *)
THEOREM LinkTypeCorrect == LinkSpec => []LinkTypeOK
  BY LinkTypeInit, LinkTypeStep, PTL DEF LinkSpec

-----------------------------------------------------------------------------

(* A live connection that the uploader serves has its subscription.  The
   property is inductive: every way into the main loop passes Subscribe.   *)
THEOREM SubscribedWhenConnected == LinkSpec => []ConnectedImpliesSubscribed
<1>1. LinkInit => ConnectedImpliesSubscribed
  BY DEF LinkInit, LinkBoot, ConnectedImpliesSubscribed
<1>2. ConnectedImpliesSubscribed /\ [LinkNext]_linkVars
      => ConnectedImpliesSubscribed'
  <2> SUFFICES ASSUME ConnectedImpliesSubscribed, [LinkNext]_linkVars
               PROVE  ConnectedImpliesSubscribed'
    OBVIOUS
  <2> USE DEF ConnectedImpliesSubscribed
  <2>1. CASE Connect
    BY <2>1 DEF Connect
  <2>2. CASE Reconnected \/ Announce
    BY <2>2 DEF Reconnected, Announce, AfterAnnounce
  <2>3. CASE Subscribe
    BY <2>3 DEF Subscribe
  <2>4. CASE Handover \/ UploaderIdle \/ StillConnected \/ ReconnectFailed
    BY <2>4 DEF Handover, UploaderIdle, StillConnected, ReconnectFailed
  <2>5. CASE SubForwardLost \/ Broadcaster \/ ManagerNotice
    BY <2>5 DEF SubForwardLost, Broadcaster, BroadcastUp, BroadcastDown,
                BroadcastDownNotice, ManagerNotice
  <2>6. CASE LinkLost \/ LateConnect
    BY <2>6 DEF LinkLost, LateConnect
  <2>7. CASE UNCHANGED linkVars
    BY <2>7 DEF linkVars
  <2>8. QED
    BY <2>1, <2>2, <2>3, <2>4, <2>5, <2>6, <2>7
    DEF LinkNext, PubThread, Network
<1>3. QED
  BY <1>1, <1>2, PTL DEF LinkSpec

-----------------------------------------------------------------------------
(* What the data manager will believe. *)

(* Before the first attempt there is no link: so a failed connect() leaves a
   belief that was right as it was.                                        *)
NotYetConnected == pubPc = "connect" => ~link

(* The inductive invariant: BeliefFollowsLink needs only NotYetConnected. *)
BeliefInv ==
    /\ LinkTypeOK
    /\ NotYetConnected
    /\ BeliefFollowsLink

(* The last element of a queue once its head is gone. *)
LEMMA LastOfTail ==
    ASSUME NEW S, NEW q \in Seq(S), q # << >>
    PROVE  /\ Tail(q) = << >> => q[Len(q)] = Head(q)
           /\ Tail(q) # << >> => Tail(q)[Len(Tail(q))] = q[Len(q)]
<1>1. /\ Len(q) \in Nat \ {0} /\ Len(Tail(q)) = Len(q) - 1 /\ Head(q) = q[1]
      /\ \A k \in 1..(Len(q) - 1) : Tail(q)[k] = q[k + 1]
  OBVIOUS
<1>2. Tail(q) = << >> <=> Len(Tail(q)) = 0
  <2>1. Tail(q) \in Seq(S)
    OBVIOUS
  <2>2. QED
    BY <2>1, EmptySeq
<1>3. QED
  BY <1>1, <1>2

(* Appending a Notice makes it the last. *)
LEMMA AppendNotice ==
    ASSUME NEW q \in Seq(Datum), NEW s \in {0, 1}
    PROVE  /\ LastNotice(Append(q, Notice(s)), s # 0)
           /\ ~NoNotice(Append(q, Notice(s)))
<1> DEFINE r == Append(q, Notice(s))
<1>1. /\ Len(r) = Len(q) + 1 /\ DOMAIN r = 1..Len(q) + 1
      /\ r[Len(q) + 1] = Notice(s) /\ Len(q) \in Nat
  BY DEF Notice, Datum
<1>2. Len(q) + 1 \in DOMAIN r /\ \A j \in DOMAIN r : ~(j > Len(q) + 1)
  BY <1>1
<1>3. IsNotice(r, Len(q) + 1, s # 0)
  BY <1>1 DEF IsNotice, Notice
<1>4. QED
  BY <1>2, <1>3 DEF LastNotice, NoNotice, IsNotice

(* Taking a Notice off the head leaves the last Notice where it was, if there
   is another one, and otherwise it was itself the last.                   *)
LEMMA TakeNotice ==
    ASSUME NEW q \in Seq(Datum), q # << >>, Head(q).type = "Notice",
           NEW b \in BOOLEAN, LastNotice(q, b)
    PROVE  /\ ~NoNotice(q)
           /\ NoNotice(Tail(q)) => (Head(q).id # 0) = b
           /\ ~NoNotice(Tail(q)) => LastNotice(Tail(q), b)
<1>1. /\ Len(q) \in Nat \ {0} /\ DOMAIN q = 1..Len(q) /\ Head(q) = q[1]
      /\ Len(Tail(q)) = Len(q) - 1 /\ DOMAIN Tail(q) = 1..(Len(q) - 1)
      /\ \A k \in 1..(Len(q) - 1) : Tail(q)[k] = q[k + 1]
  OBVIOUS
<1>2. PICK i \in DOMAIN q : /\ IsNotice(q, i, b)
                            /\ \A j \in DOMAIN q : j > i => q[j].type # "Notice"
  BY DEF LastNotice
<1>3. ~NoNotice(q)
  BY <1>2 DEF NoNotice, IsNotice
<1>4. CASE i = 1
  <2>1. NoNotice(Tail(q))
    <3> SUFFICES ASSUME NEW k \in DOMAIN Tail(q)
                 PROVE  Tail(q)[k].type # "Notice"
      BY DEF NoNotice
    <3>1. k + 1 \in DOMAIN q /\ k + 1 > i /\ Tail(q)[k] = q[k + 1]
      BY <1>1, <1>4
    <3>2. QED
      BY <3>1, <1>2
  <2>2. (Head(q).id # 0) = b
    BY <1>1, <1>2, <1>4 DEF IsNotice
  <2>3. QED
    BY <1>3, <2>1, <2>2
<1>5. CASE i # 1
  <2>1. i - 1 \in DOMAIN Tail(q) /\ Tail(q)[i - 1] = q[i]
    BY <1>1, <1>2, <1>5
  <2>2. IsNotice(Tail(q), i - 1, b)
    BY <1>2, <2>1 DEF IsNotice
  <2>3. \A j \in DOMAIN Tail(q) : j > i - 1 => Tail(q)[j].type # "Notice"
    <3> SUFFICES ASSUME NEW j \in DOMAIN Tail(q), j > i - 1
                 PROVE  Tail(q)[j].type # "Notice"
      OBVIOUS
    <3>1. j + 1 \in DOMAIN q /\ j + 1 > i /\ Tail(q)[j] = q[j + 1]
      BY <1>1, <1>2
    <3>2. QED
      BY <3>1, <1>2
  <2>4. LastNotice(Tail(q), b) /\ ~NoNotice(Tail(q))
    BY <2>1, <2>2, <2>3 DEF LastNotice, NoNotice, IsNotice
  <2>5. QED
    BY <1>3, <2>4
<1>6. QED
  BY <1>4, <1>5

(* If the reports of the network are unchanged, so is what they say. *)
ReportVars == <<consumerQ, announceQ, bcPc, datumQ, cloud>>

LEMMA SameReports ==
    ASSUME UNCHANGED ReportVars, NEW b, WillBelieve(b)
    PROVE  WillBelieve(b)'
  BY DEF ReportVars, WillBelieve, NoNotice, LastNotice, IsNotice

LEMMA BeliefStep == BeliefInv /\ [LinkNext]_linkVars => BeliefInv'
<1> SUFFICES ASSUME BeliefInv, [LinkNext]_linkVars
             PROVE  BeliefInv'
  OBVIOUS
<1>1. LinkTypeOK'
  BY LinkTypeStep DEF BeliefInv
<1> SUFFICES NotYetConnected' /\ BeliefFollowsLink'
  BY <1>1 DEF BeliefInv
<1>2. NotYetConnected
  BY DEF BeliefInv
<1>3. ASSUME pubPc # "announce", ~misreported
      PROVE  WillBelieve(link)
  BY <1>3 DEF BeliefInv, BeliefFollowsLink
<1>4. SUFFICES /\ NotYetConnected'
               /\ pubPc' # "announce" /\ ~misreported' => WillBelieve(link)'
  BY DEF BeliefFollowsLink
<1> USE DEF NotYetConnected
<1>5. link \in BOOLEAN /\ cloud \in BOOLEAN /\ datumQ \in Seq(Datum)
      /\ announceQ \in Seq({"up", "down"}) /\ consumerQ \in Seq({"lost"})
      /\ bcPc \in {"recv", "notify"}
  BY DEF BeliefInv, LinkTypeOK
<1>6. CASE Connect
  <2>1. UNCHANGED ReportVars
    BY <1>6 DEF Connect, ReportVars
  <2>2. CASE pubPc' = "announce"
    BY <2>2
  <2>3. CASE pubPc' = "handover"
    BY <1>6, <2>3 DEF Connect
  <2>4. CASE pubPc' = "retry"
    <3>1. ~link /\ ~link' /\ pubPc = "connect"
      BY <1>2, <1>6, <2>4 DEF Connect
    <3>2. link' = link /\ misreported' = misreported
      BY <3>1, <1>6, <1>5, <2>4 DEF Connect
    <3>3. QED
      BY <1>3, <2>1, <2>4, <3>1, <3>2, SameReports
  <2>5. QED
    BY <1>6, <2>2, <2>3, <2>4 DEF Connect
<1>7. CASE Reconnected
  BY <1>7 DEF Reconnected
<1>8. CASE ReconnectFailed \/ Handover \/ UploaderIdle \/ StillConnected
           \/ Subscribe \/ UNCHANGED linkVars
  <2>1. UNCHANGED <<ReportVars, misreported, link>>
    BY <1>8 DEF ReconnectFailed, Handover, UploaderIdle, StillConnected,
                Subscribe, linkVars, ReportVars
  <2>2. /\ pubPc' # "announce" => pubPc # "announce"
        /\ pubPc' = "connect" => pubPc = "connect"
    BY <1>8 DEF ReconnectFailed, Handover, UploaderIdle, StillConnected,
                Subscribe, linkVars
  <2>3. QED
    BY <1>2, <1>3, <2>1, <2>2, SameReports
<1>9. CASE Announce
  <2>1. NotYetConnected'
    BY <1>9 DEF Announce, AfterAnnounce
  <2>2. ASSUME ~misreported'
        PROVE  WillBelieve(link)'
    <3>1. link' = TRUE /\ consumerQ' = << >> /\ announceQ' = Append(announceQ, "up")
      BY <1>5, <1>9, <2>2 DEF Announce
    <3>2. announceQ' # << >> /\ announceQ'[Len(announceQ')] = "up"
      BY <1>5, <3>1
    <3>3. QED
      BY <3>1, <3>2 DEF WillBelieve
  <2>3. QED
    BY <2>1, <2>2
<1>10. CASE LinkLost
  <2>1. NotYetConnected'
    BY <1>10 DEF LinkLost
  <2>2. link' = FALSE /\ consumerQ' # << >>
    BY <1>5, <1>10 DEF LinkLost
  <2>3. QED
    BY <2>1, <2>2 DEF WillBelieve
<1>11. CASE LateConnect
  BY <1>11 DEF LateConnect
<1>12. CASE SubForwardLost
  <2>1. NotYetConnected'
    BY <1>2, <1>12 DEF SubForwardLost
  <2>2. ASSUME pubPc' # "announce", ~misreported'
        PROVE  WillBelieve(link)'
    <3>1. link' = FALSE
      BY <1>3, <1>5, <1>12, <2>2 DEF SubForwardLost, WillBelieve
    <3>2. announceQ' # << >> /\ announceQ'[Len(announceQ')] = "down"
      BY <1>5, <1>12 DEF SubForwardLost
    <3>3. QED
      BY <3>1, <3>2 DEF WillBelieve
  <2>3. QED
    BY <2>1, <2>2
<1>13. CASE BroadcastUp
  <2>1. NotYetConnected'
    BY <1>2, <1>13 DEF BroadcastUp
  <2>2. ASSUME pubPc' # "announce", ~misreported'
        PROVE  WillBelieve(link)'
    <3>1. /\ WillBelieve(link) /\ bcPc = "recv" /\ announceQ # << >>
          /\ UNCHANGED <<link, consumerQ, bcPc>> /\ announceQ' = Tail(announceQ)
          /\ Head(announceQ) = "up" /\ datumQ' = Append(datumQ, Notice(1))
      BY <1>3, <1>13, <2>2 DEF BroadcastUp
    <3>2. CASE consumerQ # << >>
      BY <3>1, <3>2 DEF WillBelieve
    <3>3. CASE consumerQ = << >> /\ Tail(announceQ) # << >>
      <4>1. announceQ'[Len(announceQ')] = announceQ[Len(announceQ)]
        BY <1>5, <3>1, <3>3
      <4>2. QED
        BY <3>1, <3>3, <4>1 DEF WillBelieve
    <3>4. CASE consumerQ = << >> /\ Tail(announceQ) = << >>
      <4>1. announceQ[Len(announceQ)] = Head(announceQ)
        BY <1>5, <3>1, <3>4, LastOfTail
      <4>2. link = TRUE
        BY <1>5, <3>1, <3>4, <4>1 DEF WillBelieve
      <4>3. LastNotice(datumQ', TRUE) /\ ~NoNotice(datumQ')
        <5>1. 1 \in {0, 1} /\ (1 # 0) = TRUE
          OBVIOUS
        <5>2. QED
          BY <1>5, <3>1, <5>1, AppendNotice
      <4>4. QED
        BY <3>1, <3>4, <4>2, <4>3 DEF WillBelieve
    <3>5. QED
      BY <3>2, <3>3, <3>4
  <2>3. QED
    BY <2>1, <2>2
<1>14. CASE BroadcastDown
  <2>1. NotYetConnected'
    BY <1>2, <1>14 DEF BroadcastDown
  <2>2. ASSUME pubPc' # "announce", ~misreported'
        PROVE  WillBelieve(link)'
    <3>1. /\ WillBelieve(link) /\ announceQ # << >> /\ bcPc' = "notify"
          /\ UNCHANGED <<link, consumerQ>> /\ announceQ' = Tail(announceQ)
          /\ Head(announceQ) = "down"
      BY <1>3, <1>14, <2>2 DEF BroadcastDown
    <3>2. CASE consumerQ # << >>
      BY <3>1, <3>2 DEF WillBelieve
    <3>3. CASE consumerQ = << >> /\ Tail(announceQ) # << >>
      <4>1. announceQ'[Len(announceQ')] = announceQ[Len(announceQ)]
        BY <1>5, <3>1, <3>3
      <4>2. QED
        BY <3>1, <3>3, <4>1 DEF WillBelieve
    <3>4. CASE consumerQ = << >> /\ Tail(announceQ) = << >>
      <4>1. announceQ[Len(announceQ)] = Head(announceQ)
        BY <1>5, <3>1, <3>4, LastOfTail
      <4>2. link = FALSE
        BY <1>5, <3>1, <3>4, <4>1 DEF WillBelieve
      <4>3. QED
        BY <3>1, <3>4, <4>2 DEF WillBelieve
    <3>5. QED
      BY <3>2, <3>3, <3>4
  <2>3. QED
    BY <2>1, <2>2
<1>15. CASE BroadcastDownNotice
  <2>1. NotYetConnected'
    BY <1>2, <1>15 DEF BroadcastDownNotice
  <2>2. ASSUME pubPc' # "announce", ~misreported'
        PROVE  WillBelieve(link)'
    <3>1. /\ WillBelieve(link) /\ bcPc = "notify" /\ bcPc' = "recv"
          /\ UNCHANGED <<link, consumerQ, announceQ>>
          /\ datumQ' = Append(datumQ, Notice(0))
      BY <1>3, <1>15, <2>2 DEF BroadcastDownNotice
    <3>2. CASE consumerQ # << >> \/ announceQ # << >>
      BY <3>1, <3>2 DEF WillBelieve
    <3>3. CASE consumerQ = << >> /\ announceQ = << >>
      <4>1. link = FALSE
        BY <3>1, <3>3 DEF WillBelieve
      <4>2. LastNotice(datumQ', FALSE) /\ ~NoNotice(datumQ')
        BY <1>5, <3>1, AppendNotice
      <4>3. QED
        BY <3>1, <3>3, <4>1, <4>2 DEF WillBelieve
    <3>4. QED
      BY <3>2, <3>3
  <2>3. QED
    BY <2>1, <2>2
<1>16. CASE ManagerNotice
  <2>1. NotYetConnected'
    BY <1>2, <1>16 DEF ManagerNotice
  <2>2. ASSUME pubPc' # "announce", ~misreported'
        PROVE  WillBelieve(link)'
    <3>1. /\ WillBelieve(link) /\ datumQ # << >> /\ Head(datumQ).type = "Notice"
          /\ UNCHANGED <<link, consumerQ, announceQ, bcPc>>
          /\ datumQ' = Tail(datumQ) /\ cloud' = (Head(datumQ).id # 0)
      BY <1>3, <1>16, <2>2 DEF ManagerNotice, OnlineAfter
    <3>2. CASE consumerQ # << >> \/ announceQ # << >> \/ bcPc = "notify"
      BY <3>1, <3>2 DEF WillBelieve
    <3>3. CASE consumerQ = << >> /\ announceQ = << >> /\ bcPc # "notify"
      <4>1. ~NoNotice(datumQ)
        BY <1>5, <3>1 DEF NoNotice
      <4>2. LastNotice(datumQ, link)
        BY <3>1, <3>3, <4>1 DEF WillBelieve
      <4>3. /\ NoNotice(datumQ') => cloud' = link
            /\ ~NoNotice(datumQ') => LastNotice(datumQ', link)
        BY <1>5, <3>1, <4>2, TakeNotice
      <4>4. QED
        BY <3>1, <3>3, <4>3 DEF WillBelieve
    <3>4. QED
      BY <3>2, <3>3
  <2>3. QED
    BY <2>1, <2>2
<1>17. QED
  BY <1>6, <1>7, <1>8, <1>9, <1>10, <1>11, <1>12, <1>13, <1>14, <1>15, <1>16
  DEF LinkNext, PubThread, Broadcaster, Network

(* The reports reach the data manager in the order of the events: it ends up
   believing what is_connected() says unless the last connection was announced
   before a loss that came first, or not at all.                                  *)
THEOREM BeliefIsOrdered == LinkSpec => []BeliefFollowsLink
<1>1. LinkInit => BeliefInv
  <2> SUFFICES ASSUME LinkInit PROVE BeliefInv
    OBVIOUS
  <2>1. WillBelieve(link)
    <3>1. NoNotice(datumQ)
      BY DEF LinkInit, LinkBoot, NoNotice
    <3>2. QED
      BY <3>1 DEF LinkInit, LinkBoot, WillBelieve
  <2>2. NotYetConnected
    BY DEF LinkInit, LinkBoot, NotYetConnected
  <2>3. QED
    BY <2>1, <2>2, LinkTypeInit DEF BeliefInv, BeliefFollowsLink
<1>2. BeliefInv => BeliefFollowsLink
  BY DEF BeliefInv
<1>3. QED
  BY <1>1, <1>2, BeliefStep, PTL DEF LinkSpec
=============================================================================
