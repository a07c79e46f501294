---------------------------- MODULE Senders_proofs ----------------------------
(***************************************************************************)
(* Proofs about Senders and EventClient for every size of blocks, buffers  *)
(* and events: the room the records need, the order in which the events of *)
(* the event server are returned and acknowledged, what the records of a   *)
(* block say of its events, and what the spies get of them.                *)
(***************************************************************************)
EXTENDS Senders, NumberLemmas

-----------------------------------------------------------------------------
(* The client of the event server                                           *)

\* What is known of the client between two steps
ClientInv == EventClientTypeOK /\ ReturnedInOrder

\* Returning the next event keeps the order and counts it.
LEMMA EventReturnedKeeps ==
  ASSUME ClientInv, EventReturned
  PROVE  ClientInv' /\ (channel' = "server" => last' = last + 1)
                    /\ (acked' # acked => acked' = last)
<1>1. /\ channel \in {"server", "astray", "closed", "reset", "sink"}
      /\ l_events \in 0 .. BufferEvents /\ l_evt_buf_posi \in 0 .. BufferEvents
      /\ sent \in 0 .. MaxEvents /\ acked \in 0 .. sent /\ last \in 0 .. sent
      /\ channel = "server" => last = sent - (IF AtHand THEN l_events - l_evt_buf_posi ELSE 0)
      /\ BufferEvents \in Nat /\ BufferEvents >= 1 /\ MaxEvents \in Nat
  BY EventClientAssumption DEF ClientInv, EventClientTypeOK, ReturnedInOrder
<1>2. CASE f_evcli_evt
  BY <1>1, <1>2 DEF f_evcli_evt, AtHand, ClientInv, EventClientTypeOK, ReturnedInOrder
<1>3. CASE \E n \in 1 .. BufferEvents : EventBuffer(n) \/ BufferMisread(n) \/ BufferAstray(n)
  BY <1>1, <1>3 DEF EventBuffer, BufferMisread, BufferAstray, f_send_ackn, AtHand, ClientInv,
                    EventClientTypeOK, ReturnedInOrder
<1> QED
  BY <1>2, <1>3 DEF EventReturned

\* A call that returns no event keeps the order, and acknowledges the last event.
LEMMA NothingReturnedKeeps ==
  ASSUME ClientInv, NothingReturned
  PROVE  ClientInv' /\ (acked' # acked => acked' = last)
<1>1. /\ channel \in {"server", "astray", "closed", "reset", "sink"}
      /\ l_events \in 0 .. BufferEvents /\ l_evt_buf_posi \in 0 .. BufferEvents
      /\ sent \in 0 .. MaxEvents /\ acked \in 0 .. sent /\ last \in 0 .. sent
      /\ channel = "server" => last = sent - (IF AtHand THEN l_events - l_evt_buf_posi ELSE 0)
      /\ BufferEvents \in Nat /\ BufferEvents >= 1 /\ MaxEvents \in Nat
  BY EventClientAssumption DEF ClientInv, EventClientTypeOK, ReturnedInOrder
<1>2. CASE NoEventData
  BY <1>1, <1>2 DEF NoEventData, f_send_ackn, AtHand, ClientInv, EventClientTypeOK, ReturnedInOrder
<1>3. CASE AckFails
  BY <1>1, <1>3 DEF AckFails, f_stc_close, AtHand, ClientInv, EventClientTypeOK, ReturnedInOrder
<1>4. CASE ReadFails
  <2>1. /\ l_events' \in 0 .. BufferEvents /\ channel' \in {"closed", "reset"}
        /\ acked' = (IF channel = "server" THEN sent ELSE acked) /\ ~AtHand
        /\ UNCHANGED <<l_evt_buf_posi, sent, last>>
    BY <1>1, <1>4 DEF ReadFails, f_send_ackn, f_stc_close
  <2>2. channel = "server" => last = sent
    BY <1>1, <2>1
  <2>3. acked' \in 0 .. sent' /\ last' \in 0 .. sent' /\ sent' \in 0 .. MaxEvents
    BY <1>1, <2>1
  <2>4. acked' # acked => acked' = last
    BY <2>1, <2>2
  <2> QED
    BY <1>1, <2>1, <2>3, <2>4 DEF ClientInv, EventClientTypeOK, ReturnedInOrder
<1> QED
  BY <1>2, <1>3, <1>4 DEF NothingReturned

\* A descriptor that changes hands, and a new start, keep the order.
LEMMA OtherClientKeeps ==
  ASSUME ClientInv, UNCHANGED client \/ DescriptorReused \/ Reopened
  PROVE  ClientInv'
  BY EventClientAssumption
  DEF ClientInv, EventClientTypeOK, ReturnedInOrder, client, DescriptorReused, Reopened, AtHand

\* A step of a sender is, for the client, one call, a change of hands or a new start.
LEMMA ClientSteps ==
  ASSUME Next
  PROVE  \/ pc = "collect" /\ (EventReturned \/ NothingReturned)
         \/ UNCHANGED client
         \/ pc # "collect" /\ (DescriptorReused \/ Reopened)
  BY DEF Next, Ridf, Eurica, Collect, GetEvent, GetNothing, Killed, StartAgain, FillBlock, Send,
         Collecting

\* The order of the events, in every state.
THEOREM ClientInvHolds == Spec => []ClientInv
<1>1. Init => ClientInv
  BY EventClientAssumption
  DEF Init, ClientInit, ClientInv, EventClientTypeOK, ReturnedInOrder, AtHand
<1>2. ClientInv /\ [Next]_vars => ClientInv'
  <2> SUFFICES ASSUME ClientInv, [Next]_vars PROVE ClientInv'
    OBVIOUS
  <2>1. CASE Next
    BY <2>1, ClientSteps, EventReturnedKeeps, NothingReturnedKeeps, OtherClientKeeps
  <2>2. CASE UNCHANGED vars
    BY <2>2, OtherClientKeeps DEF vars
  <2> QED
    BY <2>1, <2>2
<1> QED
  BY <1>1, <1>2, PTL DEF Spec

\* Every event is returned after the one before it, over the ends of buffers and
\* the messages between them, and the buffer is acknowledged when its last event was
\* returned, for as long as the connection lasts.
THEOREM EventsComeInOrder == Spec => EventsInOrder
<1>1. ClientInv /\ [Next]_vars =>
        [pc = "collect" =>
           /\ EventReturned /\ channel' = "server" => last' = last + 1
           /\ acked' # acked => acked' = last]_vars
  <2> SUFFICES ASSUME ClientInv, Next, pc = "collect"
               PROVE  /\ EventReturned /\ channel' = "server" => last' = last + 1
                      /\ acked' # acked => acked' = last
    OBVIOUS
  <2>1. EventReturned \/ NothingReturned \/ UNCHANGED client
    BY ClientSteps
  <2>2. CASE EventReturned
    BY <2>2, EventReturnedKeeps
  <2>3. CASE ~EventReturned /\ NothingReturned
    BY <2>3, NothingReturnedKeeps
  <2>4. CASE ~EventReturned /\ UNCHANGED client
    BY <2>4 DEF client
  <2> QED
    BY <2>1, <2>2, <2>3, <2>4
<1> QED
  BY <1>1, ClientInvHolds, PTL DEF Spec, EventsInOrder

-----------------------------------------------------------------------------
(* The time stamps of an event                                              *)

\* Tk is the function of the time stamps of the first 0, 1, .. n subevents of event e.
IsTaken(Tk, e, n) ==
  Tk = [m \in 0 .. n |->
          IF m = 0 THEN <<>>
          ELSE IF m \in Unpacked(e) THEN Append(Tk[m - 1], e[m].value) ELSE Tk[m - 1]]

\* There is such a function, for every number of subevents.
LEMMA TakenExists ==
  ASSUME NEW e, NEW n \in Nat
  PROVE  \E Tk : IsTaken(Tk, e, n)
<1> DEFINE without == {m \in Nat : ~\E Tk : IsTaken(Tk, e, m)}
<1>1. SUFFICES ASSUME without # {} PROVE FALSE
  OBVIOUS
<1>2. PICK m \in without : \A k \in without : m <= k
  BY <1>1, LeastNumber
<1>3. CASE m = 0
  <2> DEFINE Tk == [k \in 0 .. 0 |-> <<>>]
  <2>1. IsTaken(Tk, e, 0)
    BY DEF IsTaken
  <2> QED
    BY <1>3, <2>1
<1>4. CASE m # 0
  <2>1. m - 1 \in Nat /\ m - 1 \notin without
    BY <1>2, <1>4
  <2>2. PICK Tk : IsTaken(Tk, e, m - 1)
    BY <2>1
  <2> DEFINE More == [k \in 0 .. m |->
                        IF k = m THEN (IF m \in Unpacked(e) THEN Append(Tk[m - 1], e[m].value) ELSE Tk[m - 1])
                        ELSE Tk[k]]
  <2>3. \A k \in 0 .. m - 1 : More[k] = Tk[k]
    BY <2>1
  <2>4. \A k \in 0 .. m - 1 :
          Tk[k] = IF k = 0 THEN <<>>
                  ELSE IF k \in Unpacked(e) THEN Append(Tk[k - 1], e[k].value) ELSE Tk[k - 1]
    BY <2>2 DEF IsTaken
  <2>5. \A k \in 0 .. m :
          More[k] = IF k = 0 THEN <<>>
                    ELSE IF k \in Unpacked(e) THEN Append(More[k - 1], e[k].value) ELSE More[k - 1]
    BY <1>4, <2>1, <2>3, <2>4
  <2>6. IsTaken(More, e, m)
    BY <2>5 DEF IsTaken
  <2> QED
    BY <2>6
<1> QED
  BY <1>3, <1>4

\* The time stamps of an event are no more than its subevents.
LEMMA UnpackedLength ==
  ASSUME NEW e \in MbsEvents
  PROVE  unpackmbs(e) \in Seq(Lupos) /\ Len(unpackmbs(e)) <= MaxSubevents
<1>1. PICK n \in 0 .. MaxSubevents : e \in [1 .. n -> Subevents]
  BY DEF MbsEvents
<1>2. n \in Nat /\ MaxSubevents \in Nat /\ Len(e) = n /\ DOMAIN e = 1 .. n
  BY <1>1, SendersAssumption
<1> DEFINE Tk == Taken(e)
<1>3. IsTaken(Tk, e, n)
  <2>1. \E f : f = [m \in 0 .. n |->
                      IF m = 0 THEN <<>>
                      ELSE IF m \in Unpacked(e) THEN Append(f[m - 1], e[m].value) ELSE f[m - 1]]
    <3>1. PICK f : IsTaken(f, e, n)
      BY <1>2, TakenExists
    <3> QED
      BY <3>1 DEF IsTaken
  <2> QED
    BY <1>2, <2>1 DEF IsTaken, Taken
<1>4. \A i \in Unpacked(e) : e[i].value \in Lupos
  BY <1>1, <1>2 DEF Unpacked, Subevents
<1> HIDE DEF Tk
<1>5. /\ Tk[0] = <<>>
      /\ \A m \in 1 .. n : Tk[m] = IF m \in Unpacked(e) THEN Append(Tk[m - 1], e[m].value) ELSE Tk[m - 1]
  <2>1. PICK f : f = Tk /\ IsTaken(f, e, n)
    BY <1>3
  <2>2. \A m \in 0 .. n : f[m] = IF m = 0 THEN <<>>
          ELSE IF m \in Unpacked(e) THEN Append(f[m - 1], e[m].value) ELSE f[m - 1]
    BY ONLY <2>1 DEF IsTaken
  <2>3. /\ 0 \in 0 .. n
        /\ \A m \in 1 .. n : m \in 0 .. n /\ m # 0
    BY <1>2
  <2>4. /\ f[0] = <<>>
        /\ \A m \in 1 .. n : f[m] = IF m \in Unpacked(e) THEN Append(f[m - 1], e[m].value) ELSE f[m - 1]
    BY ONLY <2>2, <2>3
  <2> QED
    BY ONLY <2>1, <2>4
<1> DEFINE wrong == {m \in 0 .. n : ~(Tk[m] \in Seq(Lupos) /\ Len(Tk[m]) <= m)}
<1>6. wrong = {}
  <2>1. SUFFICES ASSUME wrong # {} PROVE FALSE
    OBVIOUS
  <2>2. wrong \in SUBSET Nat
    BY <1>2
  <2>3. PICK m \in wrong : \A k \in wrong : m <= k
    BY <2>1, <2>2, LeastNumber
  <2>4. m # 0
    <3>1. Tk[0] \in Seq(Lupos) /\ Len(Tk[0]) = 0
      BY <1>5, EmptySeq
    <3> QED
      BY <3>1
  <2>5. m - 1 \in 0 .. n /\ m - 1 \notin wrong /\ m \in 1 .. n
    BY <1>2, <2>3, <2>4
  <2>6. Tk[m - 1] \in Seq(Lupos) /\ Len(Tk[m - 1]) <= m - 1
    BY <2>5
  <2>7. Len(Tk[m - 1]) \in Nat
    BY <2>6, LenProperties
  <2>8. m \in Unpacked(e) =>
          /\ Append(Tk[m - 1], e[m].value) \in Seq(Lupos)
          /\ Len(Append(Tk[m - 1], e[m].value)) = Len(Tk[m - 1]) + 1
    BY <1>4, <2>6, AppendProperties
  <2>9. Tk[m] \in Seq(Lupos) /\ Len(Tk[m]) <= m
    <3>1. CASE m \in Unpacked(e)
      <4>1. Tk[m] = Append(Tk[m - 1], e[m].value)
        BY <1>5, <2>5, <3>1
      <4>2. Len(Tk[m - 1]) + 1 <= m
        BY <2>5, <2>6, <2>7
      <4> QED
        BY <2>8, <3>1, <4>1, <4>2
    <3>2. CASE m \notin Unpacked(e)
      <4>1. Tk[m] = Tk[m - 1]
        BY <1>5, <2>5, <3>2
      <4>2. Len(Tk[m - 1]) <= m
        BY <2>5, <2>6, <2>7
      <4> QED
        BY <2>6, <4>1, <4>2
    <3> QED
      BY <3>1, <3>2
  <2> QED
    BY <2>9
<1>7. Tk[n] \in Seq(Lupos) /\ Len(Tk[n]) <= n
  BY <1>2, <1>6
<1>8. Len(Tk[n]) \in Nat
  BY <1>7, LenProperties
<1> QED
  BY <1>2, <1>7, <1>8 DEF unpackmbs, Tk

-----------------------------------------------------------------------------
(* Types                                                                    *)

\* What the segments of an event leave, and the records made of it
Datas   == [adc : Adcs \cup {NoAdc}, ts : 0 .. TsMod - 1 \cup {NoTs}]
Records == [id : {0, 1}, adc : Adcs \cup {NoAdc, 10}, ts : 0 .. TsMod - 1 \cup {NoTs}]

\* The sizes of segments; those the records are made from are longer than one.
LEMMA SizeOf ==
  ASSUME NEW s \in Segments
  PROVE  /\ Size(s) \in Nat /\ Size(s) >= 6 /\ (s.kind = "ts" => Size(s) = 9)
         /\ (s.kind = "adc" /\ program = "test" => Size(s) = 10)
<1>1. s.kind \in {"ts", "adc", "coin", "other"}
  BY DEF Segments
<1>2. CASE s.kind = "ts"
  BY <1>2 DEF Size, HeaderSize
<1>3. CASE s.kind = "adc"
  BY <1>3 DEF Size, HeaderSize
<1>4. CASE s.kind = "coin"
  BY <1>4 DEF Size, HeaderSize
<1>5. CASE s.kind = "other"
  BY <1>5 DEF Size, HeaderSize
<1> QED
  BY <1>1, <1>2, <1>3, <1>4, <1>5

\* A shifted time stamp is one.
LEMMA ShiftedIsStamp ==
  ASSUME NEW x \in Nat
  PROVE  Shifted(x) \in 0 .. TsMod - 1
<1>1. TsMod \in Nat /\ TsMod >= 1
  BY SendersAssumption
<1>2. x \div 4 \in Int
  OBVIOUS
<1> QED
  BY <1>1, <1>2, DivMod DEF Shifted

\* A time stamp segment gives a time stamp.
LEMMA StampOfTs ==
  ASSUME NEW s \in Segments, s.kind = "ts"
  PROVE  /\ s.value \in Nat /\ Stamp(s) \in 0 .. TsMod - 1 /\ Shifted(s.value) \in 0 .. TsMod - 1
<1>1. TsMod \in Nat /\ TsMod >= 1
  BY SendersAssumption
<1>2. s.value \in Nat
  BY SendersAssumption DEF Segments
<1>3. s.value % TsMod \in Nat
  BY <1>1, <1>2, DivMod
<1> QED
  BY <1>2, <1>3, ShiftedIsStamp DEF Stamp

\* What a segment changes of syncdata is of its type, and so are the records.
LEMMA DataTypes ==
  ASSUME syncdata \in Datas, NEW s \in Segments
  PROVE  /\ WithAdc(s) \in Datas
         /\ s.kind = "ts" => /\ WithTs(s) \in Datas
                             /\ [syncdata EXCEPT !.ts = Shifted(s.value)] \in Datas
<1>1. WithAdc(s) \in Datas
  BY DEF WithAdc, Segments, Datas
<1>2. ASSUME s.kind = "ts"
      PROVE  WithTs(s) \in Datas /\ [syncdata EXCEPT !.ts = Shifted(s.value)] \in Datas
  BY <1>2, StampOfTs DEF WithTs, Datas
<1> QED
  BY <1>1, <1>2

\* A record of data that is all right is all right.
LEMMA RecordType ==
  ASSUME NEW d \in Datas
  PROVE  RecordOf(d) \in Records
  BY DEF RecordOf, Record, Datas, Records

\* The records of a block, one more when there is one.
LEMMA BatchMore ==
  ASSUME batch \in Seq(Records), NEW d \in Datas, batch' \in {batch, Append(batch, RecordOf(d))}
  PROVE  /\ batch' \in Seq(Records) /\ Len(batch) \in Nat /\ Len(batch') \in Nat
         /\ Len(batch') = Len(batch) + (IF batch' = batch THEN 0 ELSE 1)
<1>1. RecordOf(d) \in Records
  BY RecordType
<1>2. /\ Append(batch, RecordOf(d)) \in Seq(Records)
      /\ Len(Append(batch, RecordOf(d))) = Len(batch) + 1 /\ Len(batch) \in Nat
  BY <1>1, AppendProperties, LenProperties
<1> QED
  BY <1>2

\* What every RIDF sender does with a segment
LEMMA SegmentFacts ==
  ASSUME SendersTypeOK, NEW s \in Segments, Segment(s)
  PROVE  /\ Step(s) /\ walked' \in Nat /\ walked' = walked + Size(s) /\ walked' <= BlockSize
         /\ syncdata' \in Datas /\ tsok' \in BOOLEAN /\ coinok' \in BOOLEAN
         /\ pts' \in 0 .. TsMod - 1 /\ batch' \in {batch, Append(batch, RecordOf(syncdata'))}
         /\ batch' # batch => Size(s) >= 9 /\ program # "nov17"
         /\ program = "nov17" /\ tsok' /\ ~tsok => Size(s) >= 9
<1>1. /\ syncdata \in Datas /\ tsok \in BOOLEAN /\ coinok \in BOOLEAN /\ pts \in 0 .. TsMod - 1
      /\ walked \in 0 .. BlockSize /\ BlockSize \in Nat
  BY SendersAssumption DEF SendersTypeOK, Datas
<1>2. Step(s)
  BY DEF Segment, RibfSegment, Nov17Segment, TestSegment
<1>3. walked' \in Nat /\ walked' = walked + Size(s) /\ walked' <= BlockSize
  BY <1>1, <1>2, SizeOf DEF Step
<1>4. Fresh(s) => s.kind = "ts"
  BY DEF Fresh
<1>5. /\ WithAdc(s) \in Datas /\ (s.kind = "ts" => WithTs(s) \in Datas)
      /\ (s.kind = "ts" => [syncdata EXCEPT !.ts = Shifted(s.value)] \in Datas)
      /\ (s.kind = "ts" => Stamp(s) \in 0 .. TsMod - 1)
  BY <1>1, DataTypes, StampOfTs
<1>6. syncdata' \in Datas
  BY <1>1, <1>4, <1>5 DEF Segment, RibfSegment, Nov17Segment, TestSegment
<1>7. tsok' \in BOOLEAN /\ coinok' \in BOOLEAN /\ pts' \in 0 .. TsMod - 1
  BY <1>1, <1>4, <1>5 DEF Segment, RibfSegment, Nov17Segment, TestSegment
<1>8. batch' \in {batch, Append(batch, RecordOf(syncdata'))}
  BY DEF Segment, RibfSegment, Nov17Segment, TestSegment
<1>9. batch' # batch => Size(s) >= 9 /\ program # "nov17"
  <2>1. /\ s.kind = "ts" => Size(s) = 9
        /\ s.kind = "adc" /\ program = "test" => Size(s) = 10
    BY SizeOf
  <2>2. CASE RibfSegment(s)
    <3>1. batch' # batch => Fresh(s) /\ program = "ribf"
      BY <2>2 DEF RibfSegment
    <3> QED
      BY <1>4, <2>1, <3>1
  <2>3. CASE Nov17Segment(s)
    BY <2>3 DEF Nov17Segment
  <2>4. CASE TestSegment(s)
    <3>1. batch' # batch => s.kind = "adc" /\ program = "test"
      BY <2>4 DEF TestSegment
    <3> QED
      BY <2>1, <3>1
  <2> QED
    BY <2>2, <2>3, <2>4 DEF Segment
<1>10. program = "nov17" /\ tsok' /\ ~tsok => Size(s) >= 9
  <2>1. s.kind = "ts" => Size(s) = 9
    BY SizeOf
  <2>2. program = "nov17" => Nov17Segment(s)
    BY DEF Segment, RibfSegment, TestSegment
  <2>3. Nov17Segment(s) /\ tsok' /\ ~tsok => Fresh(s)
    BY DEF Nov17Segment
  <2> QED
    BY <1>4, <2>1, <2>2, <2>3
<1> QED
  BY <1>2, <1>3, <1>6, <1>7, <1>8, <1>9, <1>10

\* The types of all but the client, in a step.
LEMMA TypesStep ==
  ASSUME SendersTypeOK, OwnLoops, Next, EventClientTypeOK'
  PROVE  SendersTypeOK'
<1>1. /\ program \in Programs /\ coinmode \in BOOLEAN
      /\ pc \in {"wait", "block", "event", "collect", "send", "killed"}
      /\ walked \in 0 .. BlockSize /\ syncdata \in Datas /\ tsok \in BOOLEAN /\ coinok \in BOOLEAN
      /\ pts \in 0 .. TsMod - 1 /\ pts0 \in 0 .. TsMod - 1 /\ batch \in Seq(Records)
      /\ mbsbuff \in Seq(Lupos) /\ event \in Nat /\ read \in Seq([event : Nat, seg : Segments])
  BY DEF SendersTypeOK, Datas, Records
<1>2. BlockSize \in Nat /\ BlockSize >= 4 /\ TsMod \in Nat
  BY SendersAssumption
<1>3. CASE Receive
  <2>1. walked' \in 0 .. BlockSize /\ batch' \in Seq(Records) /\ event' \in Nat
        /\ read' \in Seq([event : Nat, seg : Segments])
    BY <1>2, <1>3, EmptySeq DEF Receive, HeaderSize
  <2> QED
    BY <1>1, <1>3, <2>1 DEF Receive, SendersTypeOK, Datas, Records
<1>4. ASSUME NEW class \in {"event", "event_ts"}, Event(class)
      PROVE  SendersTypeOK'
  <2>1. walked' \in 0 .. BlockSize /\ event' \in Nat /\ syncdata' \in Datas
    BY <1>1, <1>2, <1>4 DEF Event, EventHeader, HeaderSize, Datas
  <2> QED
    BY <1>1, <1>4, <2>1 DEF Event, SendersTypeOK, Datas, Records
<1>5. CASE SkipEvent
  <2>1. walked' \in 0 .. BlockSize
    BY <1>1, <1>2, <1>5 DEF SkipEvent, EventHeader, HeaderSize
  <2> QED
    BY <1>1, <1>5, <2>1 DEF SkipEvent, sender, SendersTypeOK, Datas, Records
<1>6. ASSUME NEW s \in Segments, Segment(s)
      PROVE  SendersTypeOK'
  <2>1. /\ Step(s) /\ walked' \in 0 .. BlockSize
        /\ syncdata' \in Datas /\ tsok' \in BOOLEAN /\ coinok' \in BOOLEAN
        /\ pts' \in 0 .. TsMod - 1 /\ batch' \in {batch, Append(batch, RecordOf(syncdata'))}
    BY <1>2, <1>6, SegmentFacts
  <2>2. batch' \in Seq(Records)
    BY <1>1, <2>1, BatchMore
  <2>3. read' \in Seq([event : Nat, seg : Segments])
    <3>1. [event |-> event, seg |-> s] \in [event : Nat, seg : Segments]
      BY <1>1
    <3> QED
      BY <1>1, <2>1, <3>1, AppendProperties DEF Step
  <2> QED
    BY <1>1, <2>1, <2>2, <2>3 DEF Step, SendersTypeOK, Datas, Records
<1>7. CASE EndEvent
  <2>1. batch' \in {batch, Append(batch, RecordOf(syncdata))}
    BY <1>7 DEF EndEvent
  <2>2. batch' \in Seq(Records)
    BY <1>1, <2>1, BatchMore
  <2> QED
    BY <1>1, <1>7, <2>2 DEF EndEvent, SendersTypeOK, Datas, Records
<1>8. CASE EndBlock \/ Send
  BY <1>1, <1>8 DEF EndBlock, Send, sender, SendersTypeOK, Datas, Records
<1>9. CASE Collect \/ StartAgain
  <2>1. mbsbuff' = <<>> /\ batch' = <<>> /\ pc' \in {"wait", "collect"} /\ UNCHANGED ridf
    BY <1>9 DEF Collect, StartAgain
  <2>2. mbsbuff' \in Seq(Lupos) /\ batch' \in Seq(Records)
    BY <2>1, EmptySeq
  <2> QED
    BY <1>1, <2>1, <2>2 DEF ridf, SendersTypeOK, Datas, Records
<1>10. ASSUME NEW e \in MbsEvents, GetEvent(e)
       PROVE  SendersTypeOK'
  <2>1. mbsbuff' \in Seq(Lupos)
    BY <1>1, <1>10, UnpackedLength, ConcatProperties DEF GetEvent
  <2> QED
    BY <1>1, <1>10, <2>1 DEF GetEvent, ridf, SendersTypeOK, Datas, Records
<1>11. CASE GetNothing \/ Killed
  BY <1>1, <1>11 DEF GetNothing, Killed, ridf, SendersTypeOK, Datas, Records
<1>12. CASE FillBlock
  <2> DEFINE n == IF Len(mbsbuff) < Room THEN Len(mbsbuff) ELSE Room
  <2>1. Len(mbsbuff) \in Nat /\ Room \in Nat /\ n \in Nat /\ n <= Len(mbsbuff)
    BY <1>1, LenProperties, SendersAssumption DEF Room
  <2>2. \A i \in 1 .. n : mbsbuff[i] \in Nat
    <3>1. \A i \in 1 .. Len(mbsbuff) : mbsbuff[i] \in Lupos
      BY <1>1, ElementOfSeq
    <3>2. Lupos \subseteq Nat
      BY SendersAssumption
    <3>3. \A i \in 1 .. n : i \in 1 .. Len(mbsbuff)
      BY <2>1
    <3> QED
      BY ONLY <3>1, <3>2, <3>3
  <2>3. \A i \in 1 .. n : Record(0, 10, Shifted(mbsbuff[i])) \in Records
    BY <2>2, ShiftedIsStamp DEF Record, Records
  <2> HIDE DEF n
  <2>4. [i \in 1 .. n |-> Record(0, 10, Shifted(mbsbuff[i]))] \in Seq(Records)
    BY <2>1, <2>3
  <2>5. batch' \in Seq(Records)
    BY <1>12, <2>4 DEF FillBlock, n
  <2> QED
    BY <1>1, <1>12, <2>5 DEF FillBlock, ridf, SendersTypeOK, Datas, Records
<1> QED
  BY <1>3, <1>4, <1>5, <1>6, <1>7, <1>8, <1>9, <1>10, <1>11, <1>12 DEF Next, Ridf, Eurica

-----------------------------------------------------------------------------
(* The room of the records                                                  *)

\* A program keeps to its own loops.
LEMMA OwnLoopsStep ==
  ASSUME OwnLoops, Next
  PROVE  OwnLoops' /\ program' = program
<1>1. CASE Ridf
  <2>1. CASE Receive
    BY <2>1 DEF Receive, OwnLoops
  <2>2. ASSUME NEW class \in {"event", "event_ts"}, Event(class)
        PROVE  OwnLoops' /\ program' = program
    BY <2>2 DEF Event, OwnLoops
  <2>3. CASE SkipEvent \/ EndEvent \/ EndBlock
    BY <2>3 DEF SkipEvent, EndEvent, EndBlock, OwnLoops
  <2>4. ASSUME NEW s \in Segments, Segment(s)
        PROVE  OwnLoops' /\ program' = program
    BY <2>4 DEF Segment, RibfSegment, Nov17Segment, TestSegment, Step, OwnLoops
  <2> QED
    BY <1>1, <2>1, <2>2, <2>3, <2>4 DEF Ridf
<1>2. CASE Eurica
  BY <1>2 DEF Eurica, Collect, GetEvent, GetNothing, Killed, StartAgain, FillBlock, Collecting, ridf,
              OwnLoops
<1>3. CASE Send
  BY <1>3 DEF Send, OwnLoops
<1> QED
  BY <1>1, <1>2, <1>3 DEF Next

\* A turn of a loop of euricatssender is for euricatssender alone.
LEMMA EuricaIsEurica ==
  ASSUME OwnLoops, Eurica
  PROVE  program = "eurica"
BY DEF Eurica, Collect, GetEvent, GetNothing, Killed, StartAgain, FillBlock, Collecting, OwnLoops

\* Every record a RIDF sender makes has been walked for.
LEMMA PaidStep ==
  ASSUME SendersTypeOK, OwnLoops, Paid, Next
  PROVE  Paid'
<1>1. /\ batch \in Seq(Records) /\ Len(batch) \in Nat /\ walked \in Nat /\ BlockSize \in Nat
      /\ syncdata \in Datas /\ tsok \in BOOLEAN
  BY LenProperties, SendersAssumption DEF SendersTypeOK, Records, Datas
<1>2. program' = program
  BY OwnLoopsStep
<1> SUFFICES ASSUME program # "eurica", pc' \in {"block", "event"} \/ batch' # <<>>
             PROVE  8 * (Len(batch') + (IF Pending' THEN 1 ELSE 0)) + HeaderSize <= walked'
  BY <1>2 DEF Paid
<1>3. CASE Receive
  <2>1. Len(batch') = 0 /\ walked' = HeaderSize /\ pc' = "block"
    BY <1>3, EmptySeq DEF Receive
  <2> QED
    BY <2>1 DEF Pending, HeaderSize
<1>4. ASSUME NEW class \in {"event", "event_ts"}, Event(class)
      PROVE  8 * (Len(batch') + (IF Pending' THEN 1 ELSE 0)) + HeaderSize <= walked'
  <2>1. /\ walked' >= walked /\ batch' = batch /\ tsok' = FALSE /\ pc = "block"
    BY <1>1, <1>4 DEF Event, EventHeader, HeaderSize
  <2>2. 8 * Len(batch) + HeaderSize <= walked
    BY <1>1, <2>1 DEF Paid, Pending
  <2>3. ~Pending' /\ walked' \in Nat
    BY <1>1, <1>4, <2>1 DEF Pending, Event, EventHeader, HeaderSize
  <2> QED
    BY <1>1, <2>1, <2>2, <2>3 DEF HeaderSize
<1>5. CASE SkipEvent
  <2>1. /\ walked' = walked + 6 /\ batch' = batch /\ pc = "block" /\ pc' = "block"
    BY <1>1, <1>5 DEF SkipEvent, sender, EventHeader, HeaderSize
  <2>2. 8 * Len(batch) + HeaderSize <= walked
    BY <1>1, <2>1 DEF Paid, Pending
  <2> QED
    BY <1>1, <2>1, <2>2 DEF Pending, HeaderSize
<1>6. ASSUME NEW s \in Segments, Segment(s)
      PROVE  8 * (Len(batch') + (IF Pending' THEN 1 ELSE 0)) + HeaderSize <= walked'
  <2>1. /\ Step(s) /\ walked' = walked + Size(s) /\ syncdata' \in Datas
        /\ batch' \in {batch, Append(batch, RecordOf(syncdata'))}
        /\ batch' # batch => Size(s) >= 9 /\ program # "nov17"
        /\ program = "nov17" /\ tsok' /\ ~tsok => Size(s) >= 9
        /\ Size(s) \in Nat
    BY <1>6, SegmentFacts, SizeOf
  <2>2. PICK d \in Datas : d = syncdata'
    BY <2>1
  <2>3. /\ Len(batch') \in Nat
        /\ Len(batch') = Len(batch) + (IF batch' = batch THEN 0 ELSE 1)
    BY <1>1, <2>1, <2>2, BatchMore
  <2>4. pc = "event" /\ pc' = "event"
    BY <2>1 DEF Step
  <2>5. 8 * (Len(batch) + (IF Pending THEN 1 ELSE 0)) + 4 <= walked
    BY <2>4 DEF Paid, HeaderSize
  <2>6. PICK p \in {0, 1} : p = (IF Pending THEN 1 ELSE 0)
    OBVIOUS
  <2>7. PICK q \in {0, 1} : q = (IF Pending' THEN 1 ELSE 0)
    OBVIOUS
  <2>8. q = 1 => program = "nov17" /\ (p = 1 \/ Size(s) >= 9)
    <3>1. q = 1 => Pending'
      BY <2>7
    <3>2. q = 1 => program = "nov17" /\ tsok'
      BY <1>2, <3>1 DEF Pending
    <3>3. p # 1 => ~Pending
      BY <2>6
    <3>4. program = "nov17" /\ p # 1 => ~tsok
      BY <2>4, <3>3 DEF Pending
    <3> QED
      BY <2>1, <3>2, <3>4
  <2>9. 8 * (Len(batch) + p) + 4 <= walked
    BY <2>5, <2>6
  <2>10. 8 * (Len(batch') + q) + 4 <= walked'
    <3>1. CASE batch' # batch
      <4>1. q = 0 /\ Size(s) >= 9 /\ Len(batch') = Len(batch) + 1
        BY <2>1, <2>3, <2>8, <3>1
      <4> QED
        BY <1>1, <2>1, <2>9, <4>1
    <3>2. CASE batch' = batch
      <4>1. Len(batch') = Len(batch)
        BY <3>2
      <4> QED
        BY <1>1, <2>1, <2>8, <2>9, <4>1
    <3> QED
      BY <3>1, <3>2
  <2> QED
    BY <2>7, <2>10 DEF HeaderSize
<1>7. CASE EndEvent
  <2>1. /\ pc = "event" /\ pc' = "block" /\ walked' = walked
        /\ batch' \in {batch, Append(batch, RecordOf(syncdata))}
        /\ batch' # batch => Pending
    BY <1>7 DEF EndEvent, Pending, Wanted
  <2>2. /\ Len(batch') \in Nat
        /\ Len(batch') = Len(batch) + (IF batch' = batch THEN 0 ELSE 1)
    BY <1>1, <2>1, BatchMore
  <2>3. 8 * (Len(batch) + (IF Pending THEN 1 ELSE 0)) + HeaderSize <= walked
    BY <2>1 DEF Paid
  <2>4. ~Pending'
    BY <2>1 DEF Pending
  <2> QED
    BY <1>1, <2>1, <2>2, <2>3, <2>4 DEF HeaderSize
<1>8. CASE EndBlock \/ Send
  <2>1. /\ walked' = walked /\ batch' = batch /\ pc \in {"block", "send"} /\ pc' \in {"send", "wait"}
        /\ pc = "block" \/ batch # <<>>
    BY <1>8 DEF EndBlock, Send, sender
  <2>2. ~Pending /\ ~Pending'
    BY <2>1 DEF Pending
  <2> QED
    BY <1>1, <2>1, <2>2 DEF Paid
<1> QED
  BY <1>3, <1>4, <1>5, <1>6, <1>7, <1>8, EuricaIsEurica DEF Next, Ridf

\* A step leaves the records room.
LEMMA RecordsFitStep ==
  ASSUME SendersInv, Next, SendersTypeOK', Paid'
  PROVE  RecordsFit'
<1>1. /\ batch \in Seq(Records) /\ Len(batch) \in Nat /\ Len(batch) <= MaxRecords
      /\ mbsbuff \in Seq(Lupos) /\ Len(mbsbuff) \in Nat /\ Len(mbsbuff) <= MAXTSBUFF
      /\ MAXTSBUFF \in Nat /\ MAXTSCNT \in Nat /\ MaxSubevents \in Nat /\ MaxRecords \in Nat
      /\ MAXTSBUFF >= MAXTSCNT + MaxSubevents
  BY LenProperties, SendersAssumption DEF SendersInv, SendersTypeOK, RecordsFit, Records
<1>2. program' = program
  BY OwnLoopsStep DEF SendersInv
<1>3. Len(batch') <= MaxRecords
  <2>1. CASE program # "eurica"
    <3>1. /\ Len(batch') \in Nat /\ walked' \in Nat /\ walked' <= BlockSize /\ BlockSize \in Nat
          /\ 8 * MaxRecords + 4 >= BlockSize
      BY LenProperties, SendersAssumption DEF SendersTypeOK
    <3>2. CASE batch' = <<>>
      BY <1>1, <3>2
    <3>3. CASE batch' # <<>>
      <4>1. PICK q \in {0, 1} : q = (IF Pending' THEN 1 ELSE 0)
        OBVIOUS
      <4>2. 8 * (Len(batch') + q) + 4 <= walked'
        BY <1>2, <2>1, <3>3, <4>1 DEF Paid, HeaderSize
      <4> QED
        BY <1>1, <3>1, <4>2
    <3> QED
      BY <3>2, <3>3
  <2>2. CASE FillBlock
    <3>1. batch' = [i \in 1 .. (IF Len(mbsbuff) < Room THEN Len(mbsbuff) ELSE Room) |->
                      Record(0, 10, Shifted(mbsbuff[i]))]
      BY <2>2 DEF FillBlock
    <3> DEFINE n == IF Len(mbsbuff) < Room THEN Len(mbsbuff) ELSE Room
    <3>2. n \in Nat /\ n <= MaxRecords
      BY <1>1 DEF Room
    <3> HIDE DEF n
    <3>3. batch' = [i \in 1 .. n |-> Record(0, 10, Shifted(mbsbuff[i]))]
      BY <3>1 DEF n
    <3>4. Len(batch') = n
      BY <3>2, <3>3
    <3> QED
      BY <3>2, <3>4
  <2>3. CASE Eurica /\ ~FillBlock
    <3>1. batch' = batch \/ batch' = <<>>
      BY <2>3 DEF Eurica, Collect, GetEvent, GetNothing, Killed, StartAgain
    <3> QED
      BY <1>1, <3>1
  <2>4. CASE Send
    BY <1>1, <2>4 DEF Send, sender
  <2>5. CASE Ridf /\ program = "eurica"
    <3>1. pc \notin {"block", "event"}
      BY <2>5 DEF SendersInv, OwnLoops
    <3> QED
      BY <2>5, <3>1 DEF Ridf, Receive, Event, SkipEvent, Segment, RibfSegment, Nov17Segment,
                        TestSegment, Step, EndEvent, EndBlock
  <2> QED
    BY <2>1, <2>2, <2>3, <2>4, <2>5 DEF Next
<1>4. Len(mbsbuff') <= MAXTSBUFF
  <2>1. ASSUME NEW e \in MbsEvents, GetEvent(e)
        PROVE  Len(mbsbuff') <= MAXTSBUFF
    <3>1. /\ mbsbuff' = mbsbuff \o unpackmbs(e) /\ Len(mbsbuff) <= MAXTSCNT
      BY <2>1 DEF GetEvent, Collecting
    <3>2. /\ unpackmbs(e) \in Seq(Lupos) /\ Len(unpackmbs(e)) <= MaxSubevents
      BY UnpackedLength
    <3>3. /\ Len(mbsbuff') = Len(mbsbuff) + Len(unpackmbs(e)) /\ Len(unpackmbs(e)) \in Nat
      BY <1>1, <3>1, <3>2, ConcatProperties, LenProperties
    <3> QED
      BY <1>1, <3>1, <3>2, <3>3
  <2>2. CASE Eurica /\ ~\E e \in MbsEvents : GetEvent(e)
    <3>1. mbsbuff' = mbsbuff \/ mbsbuff' = <<>>
      BY <2>2 DEF Eurica, Collect, GetNothing, Killed, StartAgain, FillBlock
    <3> QED
      BY <1>1, <3>1
  <2>3. CASE Ridf \/ Send
    <3>1. mbsbuff' = mbsbuff
      BY <2>3 DEF Ridf, Receive, Event, SkipEvent, Segment, RibfSegment, Nov17Segment, TestSegment,
                  Step, EndEvent, EndBlock, Send, sender
    <3> QED
      BY <1>1, <3>1
  <2> QED
    BY <2>1, <2>2, <2>3 DEF Next
<1> QED
  BY <1>3, <1>4 DEF RecordsFit

\* The inductive invariant of the senders, in every state.
THEOREM SendersInvHolds == Spec => []SendersInv
<1>1. Init => SendersInv
  <2> SUFFICES ASSUME Init PROVE SendersInv
    OBVIOUS
  <2>1. BlockSize \in Nat /\ TsMod \in Nat /\ TsMod >= 1 /\ MaxRecords \in Nat /\ MAXTSBUFF \in Nat
    BY SendersAssumption
  <2>2. EventClientTypeOK /\ ReturnedInOrder
    BY EventClientAssumption DEF Init, ClientInit, EventClientTypeOK, ReturnedInOrder, AtHand
  <2>3. batch = <<>> /\ mbsbuff = <<>> /\ read = <<>> /\ pc = "wait"
    BY DEF Init
  <2>4. /\ batch \in Seq(Records) /\ mbsbuff \in Seq(Lupos) /\ read \in Seq([event : Nat, seg : Segments])
        /\ Len(batch) = 0 /\ Len(mbsbuff) = 0
    BY <2>3, EmptySeq
  <2>5. coinmode \in BOOLEAN
    BY DEF Init
  <2>6. SendersTypeOK
    <3>1. /\ NoAdc \in Adcs \cup {NoAdc} /\ NoTs \in 0 .. TsMod - 1 \cup {NoTs}
          /\ 0 \in 0 .. TsMod - 1 /\ 0 \in 0 .. BlockSize
      BY <2>1
    <3>2. [adc |-> NoAdc, ts |-> NoTs] \in [adc : Adcs \cup {NoAdc}, ts : 0 .. TsMod - 1 \cup {NoTs}]
      BY <3>1
    <3>3. /\ program \in Programs /\ pc \in {"wait", "block", "event", "collect", "send", "killed"}
          /\ walked = 0 /\ syncdata = [adc |-> NoAdc, ts |-> NoTs] /\ tsok \in BOOLEAN
          /\ coinok \in BOOLEAN /\ pts = 0 /\ pts0 = 0 /\ event \in Nat
      BY DEF Init
    <3> QED
      BY <2>2, <2>4, <2>5, <3>1, <3>2, <3>3 DEF SendersTypeOK, Records
  <2>7. OwnLoops /\ Paid /\ RecordsFit
    BY <2>1, <2>3, <2>4 DEF OwnLoops, Paid, RecordsFit
  <2> QED
    BY <2>2, <2>6, <2>7 DEF SendersInv
<1>2. SendersInv /\ [Next]_vars => SendersInv'
  <2> SUFFICES ASSUME SendersInv, [Next]_vars PROVE SendersInv'
    OBVIOUS
  <2>1. CASE Next
    <3>1. ClientInv
      BY DEF SendersInv, SendersTypeOK, ClientInv
    <3>2. ClientInv'
      BY <2>1, <3>1, ClientSteps, EventReturnedKeeps, NothingReturnedKeeps, OtherClientKeeps
    <3>3. SendersTypeOK' /\ OwnLoops' /\ Paid'
      BY <2>1, <3>2, TypesStep, OwnLoopsStep, PaidStep DEF SendersInv, ClientInv
    <3>4. RecordsFit'
      BY <2>1, <3>3, RecordsFitStep
    <3> QED
      BY <3>2, <3>3, <3>4 DEF SendersInv, ClientInv
  <2>2. CASE UNCHANGED vars
    BY <2>2 DEF vars, sender, client, SendersInv, SendersTypeOK, EventClientTypeOK, ReturnedInOrder,
                AtHand, OwnLoops, Paid, Pending, RecordsFit
  <2> QED
    BY <2>1, <2>2
<1> QED
  BY <1>1, <1>2, PTL DEF Spec

\* The walks of the RIDF senders do not look at the room left, and never need to;
\* the time stamps of euricatssender stay in their buffer.
THEOREM RecordsAlwaysFit == Spec => []RecordsFit
<1>1. SendersInv => RecordsFit
  BY DEF SendersInv
<1> QED
  BY <1>1, SendersInvHolds, PTL

-----------------------------------------------------------------------------
(* The records tell the events of the block                                 *)

-----------------------------------------------------------------------------
(* What was read                                                            *)

\* The last place of a set is the greatest, 0 if there is none.
LEMMA LatestIs ==
  ASSUME NEW n \in Nat, NEW S \in SUBSET (1 .. n)
  PROVE  /\ Latest(S) \in S \cup {0} /\ (Latest(S) = 0 <=> S = {})
         /\ \A j \in S : j <= Latest(S)
         /\ \A i \in S : (\A j \in S : j <= i) => Latest(S) = i
<1> DEFINE above == {u \in Nat : \A j \in S : j <= u}
<1>1. n \in above
  OBVIOUS
<1>2. PICK u \in above : \A v \in above : u <= v
  BY <1>1, LeastNumber
<1>3. u \in S \cup {0}
  <2>1. CASE u = 0
    BY <2>1
  <2>2. CASE u # 0
    <3>1. u - 1 \in Nat /\ u - 1 \notin above
      BY <1>2, <2>2
    <3>2. PICK j \in S : ~(j <= u - 1)
      BY <3>1
    <3>3. j <= u /\ j \in Int
      BY <1>2
    <3>4. j = u
      BY <1>2, <3>2, <3>3
    <3> QED
      BY <3>4
  <2> QED
    BY <2>1, <2>2
<1>4. PICK l : l = Latest(S)
  OBVIOUS
<1>5. l \in S \cup {0} /\ \A j \in S : j <= l
  BY <1>2, <1>3, <1>4 DEF Latest
<1>6. \A i \in S : i \in Nat /\ i >= 1
  OBVIOUS
<1>7. l \in Nat /\ (l = 0 <=> S = {})
  BY ONLY <1>5, <1>6
<1>8. ASSUME NEW i \in S, \A j \in S : j <= i
      PROVE  l = i
  <2>1. l \in S
    BY <1>5, <1>7
  <2>2. i <= l /\ l <= i
    BY <1>5, <1>8, <2>1
  <2> QED
    BY <1>6, <1>7, <2>2
<1> QED
  BY <1>4, <1>5, <1>7, <1>8

\* A place behind those of a set is the last one when it is added.
LEMMA LatestMore ==
  ASSUME NEW n \in Nat, NEW S \in SUBSET (1 .. n)
  PROVE  Latest(S \cup {n + 1}) = n + 1
<1> DEFINE m == n + 1
           T == S \cup {m}
<1>1. T \in SUBSET (1 .. m) /\ m \in Nat /\ m \in T
  OBVIOUS
<1>2. \A j \in T : j <= m
  BY <1>1
<1> HIDE DEF m, T
<1>3. Latest(T) = m
  BY <1>1, <1>2, LatestIs
<1> QED
  BY <1>3 DEF m, T

\* Two functions have the same values on a set.
Agree(F, G, S) == \A x \in S : G[x] = F[x]

\* The records of a set of places, in their order, and one more
LEMMA RecordsMore ==
  ASSUME NEW S \in SUBSET Int, IsFiniteSet(S), NEW m \in Int, \A x \in S : x < m,
         NEW F, NEW G, Agree(F, G, S)
  PROVE  InOrder(G, S \cup {m}) = Append(InOrder(F, S), G[m])
<1> DEFINE n == Cardinality(S)
           t == Ascending(S)
           T == S \cup {m}
           b == [k \in 1 .. n |-> F[t[k]]]
           A == {F[t[k]] : k \in 1 .. n} \cup {G[m]}
<1>1. n \in Nat /\ t \in Seq(S) /\ Len(t) = n /\ \A k \in 1 .. n : t[k] \in S
  BY AscendingElements
<1>2. Cardinality(T) = n + 1 /\ Ascending(T) = Append(t, m)
  BY AscendingMore
<1>3. t \in Seq(Int) /\ m \in Int
  BY <1>1, SeqMonotonic
<1>4. /\ \A k \in 1 .. n : Append(t, m)[k] = t[k]
      /\ Append(t, m)[n + 1] = m
  BY <1>1, <1>3, AppendProperties
<1> HIDE DEF n, t, T
<1>5. b \in Seq(A) /\ Len(b) = n /\ G[m] \in A
  BY <1>1
<1>6. /\ Append(b, G[m]) \in Seq(A) /\ Len(Append(b, G[m])) = n + 1
      /\ \A k \in 1 .. n : Append(b, G[m])[k] = b[k]
      /\ Append(b, G[m])[n + 1] = G[m]
  <2> HIDE DEF b, A
  <2>1. PICK g \in A : g = G[m]
    BY <1>5
  <2>2. /\ Append(b, g) \in Seq(A) /\ Len(Append(b, g)) = Len(b) + 1
        /\ \A k \in 1 .. Len(b) : Append(b, g)[k] = b[k]
        /\ Append(b, g)[Len(b) + 1] = g
    BY <1>5, AppendProperties
  <2> QED
    BY ONLY <1>5, <2>1, <2>2
<1>7. Append(b, G[m]) = [k \in 1 .. n + 1 |-> Append(b, G[m])[k]]
  BY <1>1, <1>6
<1>8. \A k \in 1 .. n : b[k] = F[t[k]]
  OBVIOUS
<1> HIDE DEF b, A
<1>9. \A k \in 1 .. n + 1 : G[Append(t, m)[k]] = Append(b, G[m])[k]
  <2> SUFFICES ASSUME NEW k \in 1 .. n + 1
               PROVE  G[Append(t, m)[k]] = Append(b, G[m])[k]
    OBVIOUS
  <2>1. CASE k = n + 1
    BY <1>4, <1>6, <2>1
  <2>2. CASE k # n + 1
    <3>1. k \in 1 .. n
      BY <1>1, <2>2
    <3> QED
      BY ZenonT(40), <1>1, <1>4, <1>6, <1>8, <3>1 DEF Agree
  <2> QED
    BY <2>1, <2>2
<1>10. [k \in 1 .. Cardinality(T) |-> G[Ascending(T)[k]]] = Append(b, G[m])
  BY <1>2, <1>7, <1>9
<1> QED
  BY <1>10 DEF T, b, n, t, InOrder

\* A segment is read at the next place; the others are as they were.
LEMMA ReadMore ==
  ASSUME SendersTypeOK, NEW s \in Segments, Step(s), NEW n, n = Len(read) + 1
  PROVE  /\ n \in Nat /\ n >= 1 /\ Len(read) = n - 1 /\ Len(read') = n
         /\ DOMAIN read = 1 .. n - 1 /\ DOMAIN read' = 1 .. n
         /\ read'[n] = [event |-> event, seg |-> s]
         /\ \A i \in 1 .. n - 1 : read'[i] = read[i] /\ read[i] \in [event : Nat, seg : Segments]
         /\ event' = event /\ event \in Nat /\ pts0' = pts0 /\ pc = "event" /\ pc' = "event"
         /\ program' = program /\ coinmode' = coinmode
<1> DEFINE R == [event : Nat, seg : Segments]
<1>1. /\ read \in Seq(R) /\ event \in Nat /\ read' = Append(read, [event |-> event, seg |-> s])
      /\ event' = event /\ pts0' = pts0 /\ pc = "event" /\ pc' = "event"
      /\ program' = program /\ coinmode' = coinmode
  BY DEF SendersTypeOK, Step
<1>2. [event |-> event, seg |-> s] \in R
  BY <1>1
<1> HIDE DEF R
<1>3. /\ Len(read) \in Nat /\ DOMAIN read = 1 .. Len(read) /\ read' \in Seq(R)
      /\ Len(read') = Len(read) + 1
      /\ \A i \in 1 .. Len(read) : read'[i] = read[i]
      /\ read'[Len(read) + 1] = [event |-> event, seg |-> s]
  BY <1>1, <1>2, AppendProperties, LenProperties
<1>4. DOMAIN read' = 1 .. Len(read')
  BY <1>3, LenProperties
<1>5. \A i \in 1 .. Len(read) : read[i] \in R
  BY <1>1, ElementOfSeq
<1>6. n \in Nat /\ n >= 1 /\ Len(read) = n - 1
  BY <1>3
<1> QED
  BY <1>1, <1>3, <1>4, <1>5, <1>6 DEF R

\* What is said of earlier places does not change.
LEMMA OldPlaces ==
  ASSUME SendersTypeOK, NEW s \in Segments, Step(s), NEW n, n = Len(read) + 1
  PROVE  /\ \A i \in 1 .. n - 1 : IsTs(i)' = IsTs(i)
         /\ \A i \in 1 .. n : Before(i)' = Before(i)
         /\ \A i \in 1 .. n - 1 : \A j \in 1 .. n - 1 : AdcOf(i, j)' = AdcOf(i, j)
         /\ \A i \in 1 .. n - 1 : TsOf(i)' = TsOf(i)
         /\ \A i \in 1 .. n - 1 : \A j \in 1 .. n - 1 : SameEvent(i, j)' = SameEvent(i, j)
         /\ \A i \in 1 .. n - 1 : SameEvent(i, n)' = (read[i].event = event)
         /\ IsTs(n)' <=> s.kind = "ts" /\ s.value % TsMod # 0
<1>1. /\ n \in Nat /\ n >= 1 /\ DOMAIN read = 1 .. n - 1
      /\ read'[n] = [event |-> event, seg |-> s] /\ pts0' = pts0
      /\ \A i \in 1 .. n - 1 : read'[i] = read[i]
  BY ReadMore
<1>2. \A i \in 1 .. n - 1 : IsTs(i)' = IsTs(i)
  BY <1>1 DEF IsTs
<1>3. ASSUME NEW i \in 1 .. n
      PROVE  Before(i)' = Before(i)
  <2> DEFINE S == {k \in 1 .. i - 1 : IsTs(k)}
  <2>1. \A k \in 1 .. i - 1 : k \in 1 .. n - 1
    BY <1>1
  <2>2. {k \in 1 .. i - 1 : IsTs(k)}' = S
    BY <1>2, <2>1
  <2>3. i - 1 \in Nat /\ S \in SUBSET (1 .. i - 1)
    BY <1>1
  <2>4. Latest(S) \in S \cup {0}
    BY ZenonT(40), <2>3, LatestIs
  <2>5. Latest(S) = 0 \/ read'[Latest(S)] = read[Latest(S)]
    BY <1>1, <2>1, <2>3, <2>4
  <2> HIDE DEF S
  <2>6. /\ Before(i)' = IF Latest(S) = 0 THEN pts0' ELSE Stamp(read'[Latest(S)].seg)
    BY <2>2 DEF Before
  <2>7. /\ Before(i) = IF Latest(S) = 0 THEN pts0 ELSE Stamp(read[Latest(S)].seg)
    BY DEF Before, S
  <2> QED
    BY <1>1, <2>5, <2>6, <2>7
<1>4. \A i, j \in 1 .. n - 1 : SameEvent(i, j)' = SameEvent(i, j)
  BY <1>1 DEF SameEvent
<1>5. ASSUME NEW i \in 1 .. n - 1, NEW j \in 1 .. n - 1
      PROVE  AdcOf(i, j)' = AdcOf(i, j)
  <2> DEFINE S == {m \in 1 .. j : SameEvent(i, m) /\ read[m].seg.kind = "adc" /\ read[m].seg.value >= 0}
  <2>1. \A m \in 1 .. j : m \in 1 .. n - 1
    BY <1>1
  <2>2. {m \in 1 .. j : SameEvent(i, m) /\ read[m].seg.kind = "adc" /\ read[m].seg.value >= 0}' = S
    BY <1>1, <1>4, <2>1
  <2>3. j \in Nat /\ S \in SUBSET (1 .. j)
    BY <1>1
  <2>4. Latest(S) \in S \cup {0}
    BY <2>3, LatestIs
  <2>5. Latest(S) = 0 \/ read'[Latest(S)] = read[Latest(S)]
    BY <1>1, <2>1, <2>3, <2>4
  <2> HIDE DEF S
  <2>6. /\ AdcOf(i, j)' = IF Latest(S) = 0 THEN NoAdc ELSE read'[Latest(S)].seg.value
    BY <2>2 DEF AdcOf
  <2>7. /\ AdcOf(i, j) = IF Latest(S) = 0 THEN NoAdc ELSE read[Latest(S)].seg.value
    BY DEF AdcOf, S
  <2> QED
    BY <2>5, <2>6, <2>7
<1>6. ASSUME NEW i \in 1 .. n - 1
      PROVE  TsOf(i)' = TsOf(i)
  <2> DEFINE S == {m \in 1 .. i : SameEvent(i, m) /\ read[m].seg.kind = "ts"}
  <2>1. \A m \in 1 .. i : m \in 1 .. n - 1
    BY <1>1
  <2>2. {m \in 1 .. i : SameEvent(i, m) /\ read[m].seg.kind = "ts"}' = S
    BY <1>1, <1>4, <2>1
  <2>3. i \in Nat /\ S \in SUBSET (1 .. i)
    BY <1>1
  <2>4. Latest(S) \in S \cup {0}
    BY <2>3, LatestIs
  <2>5. Latest(S) = 0 \/ read'[Latest(S)] = read[Latest(S)]
    BY <1>1, <2>1, <2>3, <2>4
  <2> HIDE DEF S
  <2>6. /\ TsOf(i)' = IF Latest(S) = 0 THEN NoTs ELSE Shifted(read'[Latest(S)].seg.value)
    BY <2>2 DEF TsOf
  <2>7. /\ TsOf(i) = IF Latest(S) = 0 THEN NoTs ELSE Shifted(read[Latest(S)].seg.value)
    BY DEF TsOf, S
  <2> QED
    BY <2>5, <2>6, <2>7
<1>7. \A i \in 1 .. n - 1 : SameEvent(i, n)' = (read[i].event = event)
  BY <1>1 DEF SameEvent
<1>8. IsTs(n)' <=> s.kind = "ts" /\ s.value % TsMod # 0
  BY <1>1 DEF IsTs
<1> QED
  BY <1>2, <1>3, <1>4, <1>5, <1>6, <1>7, <1>8

\* What a segment adds to the places with a change, a value, or of the event under way
LEMMA PlacesMore ==
  ASSUME SendersTypeOK, NEW s \in Segments, Step(s), NEW n, n = Len(read) + 1
  PROVE  /\ Changes \subseteq 1 .. n - 1 /\ Values \subseteq 1 .. n - 1 /\ Here \subseteq 1 .. n - 1
         /\ Changes' = IF IsTs(n)' /\ Stamp(s) # Before(n) THEN Changes \cup {n} ELSE Changes
         /\ Values' = IF s.kind = "adc" /\ s.value >= 0 THEN Values \cup {n} ELSE Values
         /\ Here' = Here \cup {n}
         /\ HereAdc' = IF s.kind = "adc" /\ s.value >= 0 THEN HereAdc \cup {n} ELSE HereAdc
         /\ HereTs' = IF s.kind = "ts" THEN HereTs \cup {n} ELSE HereTs
         /\ HereChange' = IF IsTs(n)' /\ Stamp(s) # Before(n) THEN HereChange \cup {n} ELSE HereChange
<1>1. /\ n \in Nat /\ n >= 1 /\ DOMAIN read = 1 .. n - 1 /\ DOMAIN read' = 1 .. n
      /\ read'[n] = [event |-> event, seg |-> s] /\ event' = event
      /\ \A i \in 1 .. n - 1 : read'[i] = read[i]
  BY ReadMore
<1>2. /\ \A i \in 1 .. n - 1 : IsTs(i)' = IsTs(i) /\ Before(i)' = Before(i)
      /\ Before(n)' = Before(n)
  <2>1. \A i \in 1 .. n - 1 : i \in 1 .. n
    BY <1>1
  <2>2. n \in 1 .. n
    BY <1>1
  <2> QED
    BY <2>1, <2>2, OldPlaces
<1>3. /\ \A i : i \in 1 .. n <=> i \in 1 .. n - 1 \/ i = n
      /\ n \notin 1 .. n - 1
  BY <1>1
<1>4. read'[n].seg = s /\ read'[n].event = event
  BY <1>1
<1>5. \A i : i \in Changes' <=> i \in Changes \/ (i = n /\ IsTs(n)' /\ Stamp(s) # Before(n))
  <2> SUFFICES ASSUME NEW i
               PROVE  i \in Changes' <=> i \in Changes \/ (i = n /\ IsTs(n)' /\ Stamp(s) # Before(n))
    OBVIOUS
  <2>1. i \in Changes' <=> i \in 1 .. n /\ IsTs(i)' /\ Stamp(read'[i].seg) # Before(i)'
    BY <1>1 DEF Changes
  <2>2. i \in Changes <=> i \in 1 .. n - 1 /\ IsTs(i) /\ Stamp(read[i].seg) # Before(i)
    BY <1>1 DEF Changes
  <2>3. CASE i = n
    BY <1>2, <1>3, <1>4, <2>1, <2>2, <2>3
  <2>4. CASE i # n
    BY <1>1, <1>2, <1>3, <2>1, <2>2, <2>4
  <2> QED
    BY <2>3, <2>4
<1>6. \A i : i \in Values' <=> i \in Values \/ (i = n /\ s.kind = "adc" /\ s.value >= 0)
  BY <1>1, <1>3, <1>4 DEF Values
<1>7. \A i : i \in Here' <=> i \in Here \/ i = n
  BY <1>1, <1>3, <1>4 DEF Here
<1>8. Changes \subseteq 1 .. n - 1 /\ Values \subseteq 1 .. n - 1 /\ Here \subseteq 1 .. n - 1
  BY <1>1 DEF Changes, Values, Here
<1>9. \A i : i \in HereAdc' <=> i \in HereAdc \/ (i = n /\ s.kind = "adc" /\ s.value >= 0)
  <2> SUFFICES ASSUME NEW i
               PROVE  i \in HereAdc' <=> i \in HereAdc \/ (i = n /\ s.kind = "adc" /\ s.value >= 0)
    OBVIOUS
  <2>1. i \in HereAdc' <=> i \in Here' /\ read'[i].seg.kind = "adc" /\ read'[i].seg.value >= 0
    BY DEF HereAdc
  <2>2. i \in HereAdc <=> i \in Here /\ read[i].seg.kind = "adc" /\ read[i].seg.value >= 0
    BY DEF HereAdc
  <2> QED
    BY <1>1, <1>3, <1>4, <1>7, <1>8, <2>1, <2>2
<1>10. \A i : i \in HereTs' <=> i \in HereTs \/ (i = n /\ s.kind = "ts")
  <2> SUFFICES ASSUME NEW i
               PROVE  i \in HereTs' <=> i \in HereTs \/ (i = n /\ s.kind = "ts")
    OBVIOUS
  <2>1. i \in HereTs' <=> i \in Here' /\ read'[i].seg.kind = "ts"
    BY DEF HereTs
  <2>2. i \in HereTs <=> i \in Here /\ read[i].seg.kind = "ts"
    BY DEF HereTs
  <2> QED
    BY <1>1, <1>3, <1>4, <1>7, <1>8, <2>1, <2>2
<1>11. \A i : i \in HereChange' <=> i \in HereChange \/ (i = n /\ IsTs(n)' /\ Stamp(s) # Before(n))
  <2>1. \A i : i \in HereChange' <=> i \in Changes' /\ i \in Here'
    BY DEF HereChange
  <2>2. \A i : i \in HereChange <=> i \in Changes /\ i \in Here
    BY DEF HereChange
  <2>3. n \notin Changes /\ n \notin Here
    BY <1>3, <1>8
  <2> QED
    BY <1>3, <1>5, <1>7, <1>8, <2>1, <2>2, <2>3
<1> QED
  BY <1>5, <1>6, <1>7, <1>8, <1>9, <1>10, <1>11

\* The time stamp read last, after one more segment
LEMMA BeforeNext ==
  ASSUME SendersTypeOK, NEW s \in Segments, Step(s), NEW n, n = Len(read) + 1
  PROVE  Before(n + 1)' = IF IsTs(n)' THEN Stamp(s) ELSE Before(n)
<1>1. /\ n \in Nat /\ n >= 1 /\ read'[n] = [event |-> event, seg |-> s] /\ pts0' = pts0
      /\ \A i \in 1 .. n - 1 : read'[i] = read[i]
  BY ReadMore
<1>2. \A i \in 1 .. n - 1 : IsTs(i)' = IsTs(i)
  BY OldPlaces
<1> DEFINE S == {k \in 1 .. n - 1 : IsTs(k)}
           T == {k \in 1 .. n : IsTs(k)}'
<1>3. (n + 1) - 1 = n /\ n - 1 \in Nat /\ (n - 1) + 1 = n
  BY <1>1
<1>4. Before(n + 1)' = IF Latest(T) = 0 THEN pts0' ELSE Stamp(read'[Latest(T)].seg)
  BY <1>3 DEF Before
<1>5. Before(n) = IF Latest(S) = 0 THEN pts0 ELSE Stamp(read[Latest(S)].seg)
  BY DEF Before
<1>6. S \in SUBSET (1 .. n - 1)
  OBVIOUS
<1>7. \A i : i \in T <=> i \in S \/ (i = n /\ IsTs(n)')
  <2>1. \A i : i \in 1 .. n <=> i \in 1 .. n - 1 \/ i = n
    BY <1>1
  <2>2. n \notin 1 .. n - 1
    BY <1>1
  <2> QED
    BY <1>2, <2>1, <2>2
<1> HIDE DEF S, T
<1>8. CASE IsTs(n)'
  <2>1. T = S \cup {(n - 1) + 1}
    BY <1>3, <1>7, <1>8
  <2>2. Latest(T) = n
    BY <1>3, <1>6, <2>1, LatestMore
  <2>3. n # 0 /\ read'[n].seg = s
    BY <1>1
  <2> QED
    BY <1>4, <1>8, <2>2, <2>3
<1>9. CASE ~IsTs(n)'
  <2>1. T = S
    BY <1>7, <1>9
  <2>2. Latest(S) \in S \cup {0}
    BY <1>3, <1>6, LatestIs
  <2>3. Latest(S) = 0 \/ read'[Latest(S)] = read[Latest(S)]
    BY <1>1, <1>6, <2>2
  <2> QED
    BY <1>1, <1>4, <1>5, <1>9, <2>1, <2>3
<1> QED
  BY <1>8, <1>9

\* pts stays the time stamp read last.
LEMMA PtsStep ==
  ASSUME SendersTypeOK, PtsIsLast, NEW s \in Segments, Segment(s), NEW n, n = Len(read) + 1
  PROVE  /\ PtsIsLast'
         /\ program \in {"ribf", "nov17"} => (Fresh(s) <=> IsTs(n)' /\ Stamp(s) # Before(n))
<1>1. Step(s)
  BY DEF Segment, RibfSegment, Nov17Segment, TestSegment
<1>2. Len(read') = n /\ pc = "event" /\ program' = program
  BY <1>1, ReadMore
<1>3. IsTs(n)' <=> s.kind = "ts" /\ s.value % TsMod # 0
  BY <1>1, OldPlaces
<1>4. Before(n + 1)' = IF IsTs(n)' THEN Stamp(s) ELSE Before(n)
  BY <1>1, BeforeNext
<1>5. ASSUME program \in {"ribf", "nov17"}
      PROVE  /\ Fresh(s) <=> IsTs(n)' /\ Stamp(s) # Before(n)
             /\ pts' = Before(n + 1)'
  <2>1. pts = Before(n)
    BY <1>2, <1>5 DEF PtsIsLast
  <2>2. Fresh(s) <=> IsTs(n)' /\ Stamp(s) # Before(n)
    BY <1>3, <2>1 DEF Fresh
  <2>3. pts' = IF Fresh(s) THEN Stamp(s) ELSE pts
    BY <1>5 DEF Segment, RibfSegment, Nov17Segment, TestSegment
  <2> QED
    BY <1>4, <2>1, <2>2, <2>3
<1>6. Before(Len(read) + 1)' = Before(n + 1)'
  BY <1>2 DEF Before
<1>7. PtsIsLast'
  BY <1>2, <1>5, <1>6 DEF PtsIsLast
<1> QED
  BY <1>5, <1>7

\* What a segment leaves in the variables of the loop
LEMMA HeardStep ==
  ASSUME SendersTypeOK, PtsIsLast, HeardSoFar, program # "eurica",
         NEW s \in Segments, Segment(s), NEW n, n = Len(read) + 1
  PROVE  HeardSoFar'
<1>1. Step(s) /\ syncdata \in Datas
  BY DEF Segment, RibfSegment, Nov17Segment, TestSegment, SendersTypeOK, Datas
<1>2. /\ n \in Nat /\ n >= 1 /\ n - 1 \in Nat /\ (n - 1) + 1 = n
      /\ read'[n] = [event |-> event, seg |-> s] /\ event' = event
      /\ \A i \in 1 .. n - 1 : read'[i] = read[i]
      /\ program' = program /\ pc = "event"
  BY <1>1, ReadMore
<1>3. read'[n].seg = s
  BY <1>2
<1>4. /\ Changes \subseteq 1 .. n - 1 /\ Here \subseteq 1 .. n - 1
      /\ Here' = Here \cup {n}
      /\ HereAdc' = IF s.kind = "adc" /\ s.value >= 0 THEN HereAdc \cup {n} ELSE HereAdc
      /\ HereTs' = IF s.kind = "ts" THEN HereTs \cup {n} ELSE HereTs
      /\ HereChange' = IF IsTs(n)' /\ Stamp(s) # Before(n) THEN HereChange \cup {n} ELSE HereChange
  BY <1>1, PlacesMore
<1>5. program = "nov17" => (Fresh(s) <=> IsTs(n)' /\ Stamp(s) # Before(n))
  BY PtsStep
<1>6. /\ HereAdc \in SUBSET (1 .. n - 1) /\ HereTs \in SUBSET (1 .. n - 1)
      /\ HereChange \in SUBSET (1 .. n - 1)
  BY <1>4 DEF HereAdc, HereTs, HereChange
<1>7. \A S \in SUBSET (1 .. n - 1) :
        /\ Latest(S \cup {n}) = n
        /\ S # {} => Latest(S) \in S /\ read'[Latest(S)] = read[Latest(S)]
  <2> SUFFICES ASSUME NEW S \in SUBSET (1 .. n - 1)
               PROVE  /\ Latest(S \cup {n}) = n
                      /\ S # {} => Latest(S) \in S /\ read'[Latest(S)] = read[Latest(S)]
    OBVIOUS
  <2>1. Latest(S \cup {(n - 1) + 1}) = (n - 1) + 1
    BY <1>2, LatestMore
  <2>2. Latest(S) \in S \cup {0} /\ (Latest(S) = 0 <=> S = {})
    BY <1>2, LatestIs
  <2>3. S # {} => Latest(S) \in S
    BY <2>2
  <2> QED
    BY <1>2, <2>1, <2>3
<1>8. /\ syncdata.adc = IF HereAdc = {} THEN NoAdc ELSE read[Latest(HereAdc)].seg.value
      /\ program = "test" =>
           syncdata.ts = IF HereTs = {} THEN NoTs ELSE Shifted(read[Latest(HereTs)].seg.value)
      /\ program = "nov17" =>
           /\ tsok <=> HereChange # {}
           /\ tsok => syncdata.ts = Stamp(read[Latest(HereChange)].seg)
           /\ coinok <=> \E m \in Here : read[m].seg.kind = "coin"
  BY <1>2 DEF HeardSoFar
<1>9. Fresh(s) => s.kind = "ts"
  BY DEF Fresh
<1>10. /\ syncdata'.adc = IF s.kind = "adc" /\ s.value >= 0 THEN s.value ELSE syncdata.adc
       /\ program = "test" => syncdata'.ts = IF s.kind = "ts" THEN Shifted(s.value) ELSE syncdata.ts
       /\ program = "nov17" => syncdata'.ts = IF Fresh(s) THEN Stamp(s) ELSE syncdata.ts
  <2>1. /\ WithAdc(s).adc = IF s.kind = "adc" /\ s.value >= 0 THEN s.value ELSE syncdata.adc
        /\ WithAdc(s).ts = syncdata.ts
    BY <1>1 DEF WithAdc, Datas
  <2>2. WithTs(s).adc = syncdata.adc /\ WithTs(s).ts = Stamp(s)
    BY <1>1 DEF WithTs, Datas
  <2>3. /\ [syncdata EXCEPT !.ts = Shifted(s.value)].adc = syncdata.adc
        /\ [syncdata EXCEPT !.ts = Shifted(s.value)].ts = Shifted(s.value)
    BY <1>1 DEF Datas
  <2>4. CASE RibfSegment(s)
    <3>1. program = "ribf" /\ syncdata' = IF Fresh(s) THEN WithTs(s) ELSE WithAdc(s)
      BY <2>4 DEF RibfSegment
    <3> QED
      BY <1>9, <2>1, <2>2, <3>1
  <2>5. CASE Nov17Segment(s)
    <3>1. program = "nov17" /\ syncdata' = IF Fresh(s) THEN WithTs(s) ELSE WithAdc(s)
      BY <2>5 DEF Nov17Segment
    <3> QED
      BY <1>9, <2>1, <2>2, <3>1
  <2>6. CASE TestSegment(s)
    <3>1. /\ program = "test"
          /\ syncdata' = IF s.kind = "ts" THEN [syncdata EXCEPT !.ts = Shifted(s.value)] ELSE WithAdc(s)
      BY <2>6 DEF TestSegment
    <3> QED
      BY <2>1, <2>3, <3>1
  <2> QED
    BY <2>4, <2>5, <2>6 DEF Segment
<1>11. program = "nov17" => /\ tsok' = (tsok \/ Fresh(s))
                            /\ coinok' = (coinok \/ s.kind = "coin")
  <2>1. tsok \in BOOLEAN /\ Fresh(s) \in BOOLEAN
    BY DEF SendersTypeOK, Fresh
  <2> QED
    BY <2>1 DEF Segment, RibfSegment, Nov17Segment, TestSegment
<1>12. syncdata'.adc = IF HereAdc' = {} THEN NoAdc ELSE read'[Latest(HereAdc')].seg.value
  <2>1. CASE s.kind = "adc" /\ s.value >= 0
    <3>1. HereAdc' = HereAdc \cup {n} /\ HereAdc' # {} /\ Latest(HereAdc') = n
      BY <1>4, <1>6, <1>7, <2>1
    <3> QED
      BY <1>3, <1>10, <2>1, <3>1
  <2>2. CASE ~(s.kind = "adc" /\ s.value >= 0)
    <3>1. HereAdc' = HereAdc
      BY <1>4, <2>2
    <3>2. HereAdc # {} => read'[Latest(HereAdc)] = read[Latest(HereAdc)]
      BY <1>6, <1>7
    <3> QED
      BY <1>8, <1>10, <2>2, <3>1, <3>2
  <2> QED
    BY <2>1, <2>2
<1>13. ASSUME program = "test"
       PROVE  syncdata'.ts = IF HereTs' = {} THEN NoTs ELSE Shifted(read'[Latest(HereTs')].seg.value)
  <2>1. CASE s.kind = "ts"
    <3>1. HereTs' = HereTs \cup {n} /\ HereTs' # {} /\ Latest(HereTs') = n
      BY <1>4, <1>6, <1>7, <2>1
    <3> QED
      BY <1>3, <1>10, <1>13, <2>1, <3>1
  <2>2. CASE s.kind # "ts"
    <3>1. HereTs' = HereTs
      BY <1>4, <2>2
    <3>2. HereTs # {} => read'[Latest(HereTs)] = read[Latest(HereTs)]
      BY <1>6, <1>7
    <3> QED
      BY <1>8, <1>10, <1>13, <2>2, <3>1, <3>2
  <2> QED
    BY <2>1, <2>2
<1>14. ASSUME program = "nov17"
       PROVE  /\ tsok' <=> HereChange' # {}
              /\ tsok' => syncdata'.ts = Stamp(read'[Latest(HereChange')].seg)
              /\ coinok' <=> \E m \in Here' : read'[m].seg.kind = "coin"
  <2>1. coinok' <=> \E m \in Here' : read'[m].seg.kind = "coin"
    <3>1. \A m \in Here : read'[m] = read[m]
      BY <1>2, <1>4
    <3> QED
      BY <1>3, <1>4, <1>8, <1>11, <1>14, <3>1
  <2>2. CASE Fresh(s)
    <3>1. HereChange' = HereChange \cup {n} /\ HereChange' # {} /\ Latest(HereChange') = n
      BY <1>4, <1>5, <1>6, <1>7, <1>14, <2>2
    <3> QED
      BY <1>3, <1>10, <1>11, <1>14, <2>1, <2>2, <3>1
  <2>3. CASE ~Fresh(s)
    <3>1. HereChange' = HereChange
      BY <1>4, <1>5, <1>14, <2>3
    <3>2. HereChange # {} => read'[Latest(HereChange)] = read[Latest(HereChange)]
      BY <1>6, <1>7
    <3>3. (tsok' <=> tsok) /\ syncdata'.ts = syncdata.ts
      BY <1>10, <1>11, <1>14, <2>3
    <3> QED
      BY <1>8, <1>14, <2>1, <3>1, <3>2, <3>3
  <2> QED
    BY <2>2, <2>3
<1> QED
  BY <1>12, <1>13, <1>14, <1>2 DEF HeardSoFar

\* Places come in the order of their events.
LEMMA ReadInOrderStep ==
  ASSUME SendersTypeOK, ReadInOrder, NEW s \in Segments, Step(s)
  PROVE  ReadInOrder'
<1>1. PICK n : n = Len(read) + 1
  OBVIOUS
<1>2. /\ n \in Nat /\ n >= 1 /\ DOMAIN read = 1 .. n - 1 /\ DOMAIN read' = 1 .. n
      /\ read'[n] = [event |-> event, seg |-> s] /\ event' = event /\ event \in Nat
      /\ \A i \in 1 .. n - 1 : read'[i] = read[i] /\ read[i] \in [event : Nat, seg : Segments]
  BY <1>1, ReadMore
<1>3. read'[n].event = event
  BY <1>2
<1>4. \A j, k \in 1 .. n - 1 : read'[j].event <= event /\ (j <= k => read'[j].event <= read'[k].event)
  BY <1>2 DEF ReadInOrder
<1>5. \A j, k \in 1 .. n : read'[j].event <= event /\ (j <= k => read'[j].event <= read'[k].event)
  <2> SUFFICES ASSUME NEW j \in 1 .. n, NEW k \in 1 .. n
               PROVE  read'[j].event <= event /\ (j <= k => read'[j].event <= read'[k].event)
    OBVIOUS
  <2>1. j = n \/ j \in 1 .. n - 1
    BY <1>2
  <2>2. k = n \/ k \in 1 .. n - 1
    BY <1>2
  <2>3. read'[j].event <= event
    BY <1>2, <1>3, <1>4, <2>1
  <2>4. CASE k = n
    BY <1>3, <2>3, <2>4
  <2>5. CASE k # n
    <3>1. j <= k => j \in 1 .. n - 1
      BY <1>2, <2>2, <2>5
    <3> QED
      BY <1>4, <2>2, <2>3, <2>5, <3>1
  <2> QED
    BY <2>4, <2>5
<1> QED
  BY <1>2, <1>5 DEF ReadInOrder

\* The places records are made for are among those read.
LEMMA RecordedPlaces ==
  ASSUME SendersTypeOK, program # "eurica"
  PROVE  /\ Recorded \subseteq DOMAIN read /\ Recorded \in SUBSET Int /\ IsFiniteSet(Recorded)
         /\ DOMAIN read = 1 .. Len(read) /\ Len(read) \in Nat
<1>1. DOMAIN read = 1 .. Len(read) /\ Len(read) \in Nat
  BY LenProperties DEF SendersTypeOK
<1>2. Recorded \subseteq DOMAIN read
  BY DEF SendersTypeOK, Programs, Recorded, Changes, Kept, Values
<1>3. IsFiniteSet(1 .. Len(read))
  BY <1>1, FS_Interval
<1>4. IsFiniteSet(Recorded)
  BY <1>1, <1>2, <1>3, FS_Subset
<1> QED
  BY <1>1, <1>2, <1>4

\* Records of the same places that are the same
LEMMA AgreeInOrder ==
  ASSUME NEW S \in SUBSET Int, IsFiniteSet(S), NEW F, NEW G, Agree(F, G, S)
  PROVE  InOrder(G, S) = InOrder(F, S)
<1>1. \A k \in 1 .. Cardinality(S) : Ascending(S)[k] \in S
  BY AscendingElements
<1>2. \A k \in 1 .. Cardinality(S) : G[Ascending(S)[k]] = F[Ascending(S)[k]]
  BY <1>1 DEF Agree
<1> QED
  BY <1>2 DEF InOrder

\* A segment for which a record is made, or not
LEMMA ToldMore ==
  ASSUME SendersTypeOK, ToldSoFar, program # "eurica", NEW s \in Segments, Step(s),
         NEW n, n = Len(read) + 1, NEW b \in BOOLEAN,
         Recorded' = IF b THEN Recorded \cup {n} ELSE Recorded,
         \A i \in Recorded : Told'[i] = Told[i],
         batch' = IF b THEN Append(batch, Told'[n]) ELSE batch
  PROVE  ToldSoFar'
<1>1. pc = "event"
  BY DEF Step
<1>2. batch = InOrder(Told, Recorded)
  BY <1>1 DEF ToldSoFar
<1>3. /\ Recorded \in SUBSET Int /\ IsFiniteSet(Recorded) /\ n \in Int
      /\ \A x \in Recorded : x < n
  BY RecordedPlaces
<1>4. PICK F, G, S : F = Told /\ G = Told' /\ S = Recorded
  OBVIOUS
<1>5. CASE b
  <2>0. S \in SUBSET Int /\ IsFiniteSet(S) /\ Agree(F, G, S)
    BY <1>3, <1>4 DEF Agree
  <2>a. PICK m \in Int : m = n
    BY <1>3
  <2>b. \A x \in S : x < m
    BY <1>3, <1>4, <2>a
  <2>c. InOrder(G, S \cup {m}) = Append(InOrder(F, S), G[m])
    BY ONLY ZenonT(40), <2>0, <2>b, RecordsMore
  <2>1. InOrder(G, S \cup {n}) = Append(InOrder(F, S), G[n])
    BY <2>a, <2>c
  <2>2. batch' = InOrder(Told', Recorded')
    BY <1>2, <1>4, <1>5, <2>1
  <2> QED
    BY <2>2 DEF ToldSoFar
<1>6. CASE ~b
  <2>1. S \in SUBSET Int /\ IsFiniteSet(S) /\ Agree(F, G, S)
    BY <1>3, <1>4 DEF Agree
  <2>2. InOrder(G, S) = InOrder(F, S)
    BY ONLY <2>1, AgreeInOrder
  <2>3. batch' = InOrder(Told', Recorded')
    BY <1>2, <1>4, <1>6, <2>2
  <2> QED
    BY <2>3 DEF ToldSoFar
<1> QED
  BY <1>5, <1>6

\* ribftssender makes a record of the change it has just read.
LEMMA RibfTells ==
  ASSUME SendersTypeOK, TellInv, NEW s \in Segments, RibfSegment(s)
  PROVE  ToldSoFar'
<1>1. PICK n : n = Len(read) + 1
  OBVIOUS
<1>2. Step(s) /\ Segment(s) /\ program = "ribf" /\ program' = program
  BY DEF RibfSegment, Segment, Step
<1>3. /\ n \in Nat /\ n >= 1 /\ DOMAIN read = 1 .. n - 1 /\ DOMAIN read' = 1 .. n
      /\ read'[n] = [event |-> event, seg |-> s] /\ event' = event
      /\ \A i \in 1 .. n - 1 : read'[i] = read[i]
  BY <1>1, <1>2, ReadMore
<1>4. read'[n].seg = s /\ read'[n].event = event /\ n \in 1 .. n
  BY <1>3
<1>5. Fresh(s) <=> IsTs(n)' /\ Stamp(s) # Before(n)
  BY <1>1, <1>2, PtsStep DEF TellInv
<1>6. /\ Changes \subseteq 1 .. n - 1
      /\ Changes' = IF IsTs(n)' /\ Stamp(s) # Before(n) THEN Changes \cup {n} ELSE Changes
      /\ Here' = Here \cup {n}
  BY <1>1, <1>2, PlacesMore
<1>7. HeardSoFar'
  BY <1>1, <1>2, HeardStep DEF TellInv
<1>8. /\ Recorded = Changes /\ Recorded' = Changes'
      /\ \A i \in Changes : Told[i] = Record(1, AdcOf(i, i), Stamp(read[i].seg))
      /\ \A i \in Changes' : Told'[i] = Record(1, AdcOf(i, i)', Stamp(read'[i].seg))
  BY <1>2 DEF Recorded, Told
<1>9. \A i \in Changes : Told'[i] = Told[i]
  <2>1. \A i \in 1 .. n - 1 : AdcOf(i, i)' = AdcOf(i, i)
    BY <1>1, <1>2, OldPlaces
  <2>2. Changes \subseteq Changes'
    BY <1>6
  <2> QED
    BY <1>3, <1>6, <1>8, <2>1, <2>2
<1>10. AdcOf(n, n)' = syncdata'.adc
  <2> DEFINE T == {m \in 1 .. n : SameEvent(n, m) /\ read[m].seg.kind = "adc" /\ read[m].seg.value >= 0}'
  <2>1. T = HereAdc'
    <3>1. \A m \in 1 .. n : SameEvent(n, m)' <=> m \in Here'
      BY <1>3, <1>4 DEF SameEvent, Here
    <3>2. Here' \subseteq 1 .. n
      BY <1>3 DEF Here
    <3> QED
      BY <3>1, <3>2 DEF HereAdc
  <2>2. AdcOf(n, n)' = IF Latest(T) = 0 THEN NoAdc ELSE read'[Latest(T)].seg.value
    BY DEF AdcOf
  <2>3. T \in SUBSET (1 .. n)
    OBVIOUS
  <2> HIDE DEF T
  <2>4. Latest(T) = 0 <=> T = {}
    BY <1>3, <2>3, LatestIs
  <2>5. syncdata'.adc = IF HereAdc' = {} THEN NoAdc ELSE read'[Latest(HereAdc')].seg.value
    BY <1>2, <1>7 DEF HeardSoFar, Step
  <2> QED
    BY <2>1, <2>2, <2>4, <2>5
<1>11. Fresh(s) => Told'[n] = RecordOf(syncdata')
  <2>1. Fresh(s) => Told'[n] = Record(1, syncdata'.adc, Stamp(s))
    BY <1>4, <1>5, <1>6, <1>8, <1>10
  <2>2. Fresh(s) => syncdata'.ts = Stamp(s)
    BY DEF RibfSegment, WithTs, SendersTypeOK
  <2> QED
    BY <2>1, <2>2 DEF RecordOf
<1>12. batch' = IF Fresh(s) THEN Append(batch, Told'[n]) ELSE batch
  BY <1>11 DEF RibfSegment
<1>13. PICK b \in BOOLEAN : b <=> Fresh(s)
  OBVIOUS
<1>14. Recorded' = IF b THEN Recorded \cup {n} ELSE Recorded
  BY <1>5, <1>6, <1>8, <1>13
<1>15. ToldSoFar
  BY DEF TellInv
<1> QED
  BY <1>1, <1>2, <1>8, <1>9, <1>12, <1>13, <1>14, <1>15, ToldMore

\* testsender makes a record of the ADC value it has just read.
LEMMA TestTells ==
  ASSUME SendersTypeOK, TellInv, NEW s \in Segments, TestSegment(s)
  PROVE  ToldSoFar'
<1>1. PICK n : n = Len(read) + 1
  OBVIOUS
<1>2. Step(s) /\ Segment(s) /\ program = "test" /\ program' = program
  BY DEF TestSegment, Segment, Step
<1>3. /\ n \in Nat /\ n >= 1 /\ DOMAIN read = 1 .. n - 1 /\ DOMAIN read' = 1 .. n
      /\ read'[n] = [event |-> event, seg |-> s] /\ event' = event
      /\ \A i \in 1 .. n - 1 : read'[i] = read[i]
  BY <1>1, <1>2, ReadMore
<1>4. read'[n].seg = s /\ read'[n].event = event /\ n \in 1 .. n
  BY <1>3
<1>5. s.kind = "adc" => (s.value # -1 <=> s.value >= 0)
  <2>1. PICK q \in Int : q = -1
    OBVIOUS
  <2>2. s.kind = "adc" => s.value = 7 \/ s.value = q
    BY <2>1 DEF Segments, Adcs
  <2> QED
    BY <2>1, <2>2
<1>6. /\ Values \subseteq 1 .. n - 1
      /\ Values' = IF s.kind = "adc" /\ s.value >= 0 THEN Values \cup {n} ELSE Values
      /\ Here' = Here \cup {n}
  BY <1>1, <1>2, PlacesMore
<1>7. HeardSoFar'
  BY <1>1, <1>2, HeardStep DEF TellInv
<1>8. /\ Recorded = Values /\ Recorded' = Values'
      /\ \A i \in Values : Told[i] = Record(1, read[i].seg.value, TsOf(i))
      /\ \A i \in Values' : Told'[i] = Record(1, read'[i].seg.value, TsOf(i)')
  BY <1>2 DEF Recorded, Told
<1>9. \A i \in Values : Told'[i] = Told[i]
  <2>1. \A i \in 1 .. n - 1 : TsOf(i)' = TsOf(i)
    BY <1>1, <1>2, OldPlaces
  <2>2. Values \subseteq Values'
    BY <1>6
  <2> QED
    BY <1>3, <1>6, <1>8, <2>1, <2>2
<1>10. TsOf(n)' = syncdata'.ts
  <2> DEFINE T == {m \in 1 .. n : SameEvent(n, m) /\ read[m].seg.kind = "ts"}'
  <2>1. T = HereTs'
    <3>1. \A m \in 1 .. n : SameEvent(n, m)' <=> m \in Here'
      BY <1>3, <1>4 DEF SameEvent, Here
    <3>2. Here' \subseteq 1 .. n
      BY <1>3 DEF Here
    <3> QED
      BY <3>1, <3>2 DEF HereTs
  <2>2. TsOf(n)' = IF Latest(T) = 0 THEN NoTs ELSE Shifted(read'[Latest(T)].seg.value)
    BY DEF TsOf
  <2>3. T \in SUBSET (1 .. n)
    OBVIOUS
  <2> HIDE DEF T
  <2>4. Latest(T) = 0 <=> T = {}
    BY <1>3, <2>3, LatestIs
  <2>5. syncdata'.ts = IF HereTs' = {} THEN NoTs ELSE Shifted(read'[Latest(HereTs')].seg.value)
    BY <1>2, <1>7 DEF HeardSoFar, Step
  <2> QED
    BY <2>1, <2>2, <2>4, <2>5
<1> DEFINE told == s.kind = "adc" /\ s.value >= 0
<1>11. told => Told'[n] = RecordOf(syncdata')
  <2>1. told => Told'[n] = Record(1, s.value, syncdata'.ts)
    BY <1>4, <1>6, <1>8, <1>10
  <2>2. told => syncdata'.adc = s.value
    BY DEF TestSegment, WithAdc, SendersTypeOK
  <2> QED
    BY <2>1, <2>2 DEF RecordOf
<1>12. batch' = IF told THEN Append(batch, Told'[n]) ELSE batch
  BY <1>5, <1>11 DEF TestSegment
<1>13. PICK b \in BOOLEAN : b <=> told
  OBVIOUS
<1>14. Recorded' = IF b THEN Recorded \cup {n} ELSE Recorded
  BY <1>6, <1>8, <1>13
<1>15. ToldSoFar
  BY DEF TellInv
<1>16. batch' = IF b THEN Append(batch, Told'[n]) ELSE batch
  BY <1>12, <1>13
<1> HIDE DEF told
<1> QED
  BY <1>1, <1>2, <1>8, <1>9, <1>13, <1>14, <1>15, <1>16, ToldMore

\* ribftssender_nov17 makes none while it reads an event, and what is said of the
\* events before does not change.
LEMMA Nov17Tells ==
  ASSUME SendersTypeOK, TellInv, NEW s \in Segments, Nov17Segment(s)
  PROVE  ToldSoFar'
<1>1. PICK n : n = Len(read) + 1
  OBVIOUS
<1>2. /\ Step(s) /\ Segment(s) /\ program = "nov17" /\ program' = program /\ coinmode' = coinmode
      /\ batch' = batch /\ pc = "event" /\ pc' = "event"
  BY DEF Nov17Segment, Segment, Step
<1>3. /\ n \in Nat /\ n >= 1 /\ DOMAIN read = 1 .. n - 1 /\ DOMAIN read' = 1 .. n
      /\ read'[n] = [event |-> event, seg |-> s] /\ event' = event
      /\ \A i \in 1 .. n - 1 : read'[i] = read[i]
      /\ Len(read) = n - 1 /\ Len(read') = n
  BY <1>1, <1>2, ReadMore
<1>4. /\ \A i : i \in 1 .. n <=> i \in 1 .. n - 1 \/ i = n
      /\ n \notin 1 .. n - 1
  BY <1>3
<1>5. /\ Changes \subseteq 1 .. n - 1 /\ (Changes' = Changes \/ Changes' = Changes \cup {n})
      /\ Here' = Here \cup {n} /\ Here \subseteq 1 .. n - 1
  BY <1>1, <1>2, PlacesMore
<1>6. /\ \A i \in 1 .. n - 1 : \A j \in 1 .. n - 1 : SameEvent(i, j)' = SameEvent(i, j)
      /\ \A i \in 1 .. n - 1 : i \notin Here => ~SameEvent(i, n)'
  <2>1. \A i \in 1 .. n - 1 : i \notin Here => ~(read[i].event = event)
    BY <1>3 DEF Here
  <2> QED
    BY <1>1, <1>2, <2>1, OldPlaces
<1>7. /\ Recorded = Kept \ Here /\ Recorded' = Kept' \ Here'
      /\ \A i \in Recorded : Told[i] = Record(1, AdcOf(i, Len(read)), Stamp(read[i].seg))
      /\ \A i \in Recorded' : Told'[i] = Record(1, AdcOf(i, Len(read))', Stamp(read'[i].seg))
  BY <1>2 DEF Recorded, Told
<1>8. Recorded' = Recorded
  <2> SUFFICES ASSUME NEW i
               PROVE  i \in Kept' \ Here' <=> i \in Kept \ Here
    BY <1>7
  <2>1. i \in Kept' <=> /\ i \in Changes' /\ \A j \in Changes' : SameEvent(i, j)' => j <= i
                        /\ coinmode => \E j \in 1 .. n : SameEvent(i, j)' /\ read'[j].seg.kind = "coin"
    BY <1>2, <1>3 DEF Kept
  <2>2. i \in Kept <=> /\ i \in Changes /\ \A j \in Changes : SameEvent(i, j) => j <= i
                       /\ coinmode => \E j \in 1 .. n - 1 : SameEvent(i, j) /\ read[j].seg.kind = "coin"
    BY <1>3 DEF Kept
  <2>3. CASE i \in Changes /\ i \notin Here
    <3>1. i \in 1 .. n - 1 /\ i \notin Here' /\ ~SameEvent(i, n)' /\ i \in Changes'
      BY <1>4, <1>5, <1>6, <2>3
    <3>2. (\A j \in Changes' : SameEvent(i, j)' => j <= i) <=> (\A j \in Changes : SameEvent(i, j) => j <= i)
      <4>1. \A j \in Changes : SameEvent(i, j)' = SameEvent(i, j)
        BY <1>5, <1>6, <3>1
      <4> QED
        BY <1>5, <3>1, <4>1
    <3>3. (\E j \in 1 .. n : SameEvent(i, j)' /\ read'[j].seg.kind = "coin")
            <=> (\E j \in 1 .. n - 1 : SameEvent(i, j) /\ read[j].seg.kind = "coin")
      <4>1. \A j \in 1 .. n - 1 : SameEvent(i, j)' = SameEvent(i, j) /\ read'[j] = read[j]
        BY <1>3, <1>6, <3>1
      <4> QED
        BY <1>4, <3>1, <4>1
    <3> QED
      BY <2>1, <2>2, <2>3, <3>1, <3>2, <3>3
  <2>4. CASE ~(i \in Changes /\ i \notin Here)
    BY <1>4, <1>5, <2>1, <2>2, <2>4
  <2> QED
    BY <2>3, <2>4
<1>9. ASSUME NEW i \in Recorded
      PROVE  Told'[i] = Told[i]
  <2>1. i \in 1 .. n - 1 /\ i \notin Here
    BY <1>5, <1>7 DEF Kept
  <2> DEFINE S == {m \in 1 .. n - 1 : SameEvent(i, m) /\ read[m].seg.kind = "adc" /\ read[m].seg.value >= 0}
             T == {m \in 1 .. n : SameEvent(i, m)' /\ read'[m].seg.kind = "adc" /\ read'[m].seg.value >= 0}
  <2>2. AdcOf(i, Len(read)) = IF Latest(S) = 0 THEN NoAdc ELSE read[Latest(S)].seg.value
    BY <1>3 DEF AdcOf
  <2>3. AdcOf(i, Len(read))' = IF Latest(T) = 0 THEN NoAdc ELSE read'[Latest(T)].seg.value
    BY <1>3 DEF AdcOf, SameEvent
  <2>4. \A m : m \in T <=> m \in S
    <3>1. \A m \in 1 .. n - 1 : SameEvent(i, m)' = SameEvent(i, m) /\ read'[m] = read[m]
      BY <1>3, <1>6, <2>1
    <3>2. ~SameEvent(i, n)'
      BY <1>6, <2>1
    <3> QED
      BY <1>4, <3>1, <3>2
  <2>5. S \in SUBSET (1 .. n - 1) /\ n - 1 \in Nat
    BY <1>3
  <2> HIDE DEF S, T
  <2>6. T = S
    BY <2>4, <2>5
  <2>7. Latest(S) = 0 \/ read'[Latest(S)] = read[Latest(S)]
    <3>1. Latest(S) \in S \cup {0}
      BY <2>5, LatestIs
    <3> QED
      BY <1>3, <2>5, <3>1
  <2>8. AdcOf(i, Len(read))' = AdcOf(i, Len(read))
    BY <2>2, <2>3, <2>6, <2>7
  <2> QED
    BY <1>3, <1>7, <1>8, <2>1, <2>8
<1>10. PICK b \in BOOLEAN : ~b
  OBVIOUS
<1>11. ToldSoFar
  BY DEF TellInv
<1> QED
  BY <1>1, <1>2, <1>8, <1>9, <1>10, <1>11, ToldMore

\* What is said of what was read does not change while nothing is read.
LEMMA SameRead ==
  ASSUME read' = read, pts0' = pts0, coinmode' = coinmode
  PROVE  /\ Changes' = Changes /\ Values' = Values /\ Kept' = Kept
         /\ \A i : Before(i)' = Before(i) /\ TsOf(i)' = TsOf(i)
         /\ \A i, j : AdcOf(i, j)' = AdcOf(i, j)
<1>1. \A i, j : SameEvent(i, j)' = SameEvent(i, j)
  BY DEF SameEvent
<1>2. \A i : IsTs(i)' = IsTs(i)
  BY DEF IsTs
<1>3. \A i : Before(i)' = Before(i)
  BY <1>2 DEF Before
<1>4. Changes' = Changes
  BY <1>2, <1>3 DEF Changes
<1>5. Kept' = Kept
  BY <1>1, <1>4 DEF Kept
<1>6. \A i : TsOf(i)' = TsOf(i)
  BY <1>1 DEF TsOf
<1>7. \A i, j : AdcOf(i, j)' = AdcOf(i, j)
  BY <1>1 DEF AdcOf
<1> QED
  BY <1>3, <1>4, <1>5, <1>6, <1>7 DEF Values

\* ribftssender_nov17 makes its record when the event has ended: the last change of the
\* event, which Kept did not count while the event was under way.
LEMMA EventTells ==
  ASSUME SendersTypeOK, TellInv, EndEvent, program = "nov17"
  PROVE  ToldSoFar'
<1>1. PICK n : n = Len(read)
  OBVIOUS
<1>2. /\ n \in Nat /\ DOMAIN read = 1 .. n /\ pc = "event" /\ pc' = "block"
      /\ read' = read /\ pts0' = pts0 /\ event' = event /\ program' = program /\ coinmode' = coinmode
  BY <1>1, LenProperties DEF SendersTypeOK, EndEvent
<1>3. /\ HereAdc \in SUBSET (1 .. n) /\ HereChange \in SUBSET (1 .. n) /\ Here \in SUBSET (1 .. n)
      /\ Changes \in SUBSET (1 .. n) /\ Kept \in SUBSET Changes
  BY <1>2 DEF HereAdc, HereChange, Here, Changes, Kept
<1>4. PICK c : c = Latest(HereChange)
  OBVIOUS
<1>5. /\ (c = 0 <=> HereChange = {}) /\ c \in HereChange \cup {0} /\ \A j \in HereChange : j <= c
      /\ \A i \in HereChange : (\A j \in HereChange : j <= i) => c = i
  BY <1>2, <1>3, <1>4, LatestIs
<1>6. /\ syncdata.adc = IF HereAdc = {} THEN NoAdc ELSE read[Latest(HereAdc)].seg.value
      /\ tsok <=> HereChange # {}
      /\ tsok => syncdata.ts = Stamp(read[c].seg)
      /\ coinok <=> \E m \in Here : read[m].seg.kind = "coin"
  BY <1>2, <1>4 DEF TellInv, HeardSoFar
<1>7. \A i \in Here : \A j \in 1 .. n : SameEvent(i, j) <=> j \in Here
  BY <1>2 DEF SameEvent, Here
<1>8. \A i \in Here : i \in Kept <=> i = c /\ tsok /\ Wanted
  <2> SUFFICES ASSUME NEW i \in Here
               PROVE  i \in Kept <=> i = c /\ tsok /\ Wanted
    OBVIOUS
  <2>1. i \in Kept <=> /\ i \in Changes /\ \A j \in Changes : SameEvent(i, j) => j <= i
                       /\ coinmode => \E j \in 1 .. n : SameEvent(i, j) /\ read[j].seg.kind = "coin"
    BY <1>2 DEF Kept
  <2>2. \A j \in 1 .. n : SameEvent(i, j) <=> j \in Here
    BY <1>7
  <2>3. (\A j \in Changes : SameEvent(i, j) => j <= i) <=> \A j \in HereChange : j <= i
    BY <1>3, <2>2 DEF HereChange
  <2>4. (\E j \in 1 .. n : SameEvent(i, j) /\ read[j].seg.kind = "coin") <=> coinok
    BY <1>3, <1>6, <2>2
  <2>5. i \in Changes <=> i \in HereChange
    BY DEF HereChange
  <2>6. i \in HereChange /\ (\A j \in HereChange : j <= i) <=> i = c /\ tsok
    <3>1. i # 0
      BY <1>2, <1>3
    <3> QED
      BY <1>5, <1>6, <3>1
  <2> QED
    BY <2>1, <2>3, <2>4, <2>5, <2>6 DEF Wanted
<1>9. Wanted => tsok /\ c \in Here /\ c # 0
  BY <1>5, <1>6 DEF Wanted, HereChange
<1>10. /\ Recorded = Kept \ Here /\ Kept' = Kept /\ Recorded' = Kept
       /\ \A i \in Recorded : Told[i] = Record(1, AdcOf(i, n), Stamp(read[i].seg))
       /\ \A i \in Recorded' : Told'[i] = Record(1, AdcOf(i, n), Stamp(read[i].seg))
  <2>1. Kept' = Kept /\ \A i : AdcOf(i, n)' = AdcOf(i, n)
    BY <1>2, SameRead
  <2>2. Recorded' = Kept' /\ Recorded = Kept \ Here
    BY <1>2 DEF Recorded
  <2>3. \A i \in Recorded : Told[i] = Record(1, AdcOf(i, n), Stamp(read[i].seg))
    BY <1>1, <1>2 DEF Told
  <2>4. \A i \in Recorded' : Told'[i] = Record(1, AdcOf(i, n)', Stamp(read'[i].seg))
    BY <1>1, <1>2 DEF Told
  <2> QED
    BY <1>2, <2>1, <2>2, <2>3, <2>4
<1>11. Kept = IF Wanted THEN Recorded \cup {c} ELSE Recorded
  <2>1. \A i : i \in Kept <=> i \in Recorded \/ (Wanted /\ i = c)
    BY <1>8, <1>9, <1>10
  <2>2. CASE Wanted
    BY <2>1, <2>2
  <2>3. CASE ~Wanted
    BY <2>1, <2>3
  <2> QED
    BY <2>2, <2>3
<1>12. Wanted => \A i \in Recorded : i < c
  <2> SUFFICES ASSUME Wanted, NEW i \in Recorded PROVE i < c
    OBVIOUS
  <2>1. i \in 1 .. n /\ i \notin Here /\ c \in 1 .. n /\ c \in Here
    BY <1>3, <1>9, <1>10
  <2>2. read[i].event # event /\ read[c].event = event
    BY <1>2, <2>1 DEF Here
  <2>3. read[i].event <= event /\ (c <= i => read[c].event <= read[i].event)
    BY <1>2, <2>1 DEF TellInv, ReadInOrder
  <2>4. read[i].event \in Nat /\ event \in Nat
    <3>1. read[i] \in [event : Nat, seg : Segments]
      BY <1>1, <1>2, <2>1, ElementOfSeq DEF SendersTypeOK
    <3> QED
      BY <3>1 DEF SendersTypeOK
  <2> QED
    BY <2>1, <2>2, <2>3, <2>4
<1>13. Wanted => Told'[c] = RecordOf(syncdata)
  <2> SUFFICES ASSUME Wanted PROVE Told'[c] = RecordOf(syncdata)
    OBVIOUS
  <2>1. Told'[c] = Record(1, AdcOf(c, n), Stamp(read[c].seg))
    BY <1>10, <1>11
  <2> DEFINE T == {m \in 1 .. n : SameEvent(c, m) /\ read[m].seg.kind = "adc" /\ read[m].seg.value >= 0}
  <2>2. AdcOf(c, n) = IF Latest(T) = 0 THEN NoAdc ELSE read[Latest(T)].seg.value
    BY DEF AdcOf
  <2>3. T = HereAdc
    <3>1. \A m \in 1 .. n : SameEvent(c, m) <=> m \in Here
      BY <1>7, <1>9
    <3> QED
      BY <1>3, <3>1 DEF HereAdc
  <2> HIDE DEF T
  <2>4. Latest(T) = 0 <=> T = {}
    BY <1>2, <1>3, <2>3, LatestIs
  <2>5. AdcOf(c, n) = syncdata.adc
    BY <1>6, <2>2, <2>3, <2>4
  <2>6. syncdata.ts = Stamp(read[c].seg)
    BY <1>6, <1>9
  <2> QED
    BY <2>1, <2>5, <2>6 DEF RecordOf
<1>14. batch = InOrder(Told, Recorded)
  BY <1>2 DEF TellInv, ToldSoFar
<1>15. Recorded \in SUBSET Int /\ IsFiniteSet(Recorded)
  BY <1>2, RecordedPlaces
<1>16. \A i \in Recorded : i \in Recorded' /\ Told'[i] = Told[i]
  BY <1>10
<1>17. PICK F, G, S : F = Told /\ G = Told' /\ S = Recorded
  OBVIOUS
<1>18. S \in SUBSET Int /\ IsFiniteSet(S) /\ Agree(F, G, S)
  BY <1>15, <1>16, <1>17 DEF Agree
<1>19. CASE Wanted
  <2>0. c \in Here
    BY <1>9, <1>19
  <2>1. PICK m \in Int : m = c
    <3>1. c \in 1 .. n
      BY <1>3, <2>0
    <3> QED
      BY <1>2, <3>1
  <2>2. \A x \in S : x < m
    BY <1>12, <1>17, <1>19, <2>1
  <2>3. InOrder(G, S \cup {m}) = Append(InOrder(F, S), G[m])
    BY ONLY ZenonT(40), <1>18, <2>2, RecordsMore
  <2>4. batch' = Append(batch, RecordOf(syncdata))
    BY <1>19 DEF EndEvent
  <2>5. batch' = Append(InOrder(F, S), G[m])
    BY <1>13, <1>14, <1>17, <1>19, <2>1, <2>4
  <2>6. Recorded' = S \cup {m}
    BY <1>10, <1>11, <1>17, <1>19, <2>1
  <2>7. batch' = InOrder(Told', Recorded')
    BY <1>17, <2>3, <2>5, <2>6
  <2> QED
    BY <2>7 DEF ToldSoFar
<1>20. CASE ~Wanted
  <2>1. batch' = batch
    BY <1>20 DEF EndEvent
  <2>2. Recorded' = S
    BY <1>10, <1>11, <1>17, <1>20
  <2>3. InOrder(G, S) = InOrder(F, S)
    BY ONLY <1>18, AgreeInOrder
  <2>4. batch' = InOrder(Told', Recorded')
    BY <1>14, <1>17, <2>1, <2>2, <2>3
  <2> QED
    BY <2>4 DEF ToldSoFar
<1> QED
  BY <1>19, <1>20

\* A step that neither reads nor records
Quiet == UNCHANGED <<program, coinmode, pts0, read, batch>>

\* The records of the same places stay the same.
LEMMA QuietTells ==
  ASSUME SendersTypeOK, Quiet, Recorded' = Recorded, batch = InOrder(Told, Recorded),
         program # "eurica"
  PROVE  ToldSoFar'
<1>1. /\ read' = read /\ pts0' = pts0 /\ coinmode' = coinmode /\ program' = program /\ batch' = batch
  BY DEF Quiet
<1>2. (\A i : TsOf(i)' = TsOf(i)) /\ (\A i, j : AdcOf(i, j)' = AdcOf(i, j))
  BY <1>1, SameRead
<1>3. ASSUME NEW i \in Recorded PROVE Told'[i] = Told[i]
  <2>1. program \in {"ribf", "nov17", "test"} /\ i \in Recorded'
    BY DEF SendersTypeOK, Programs
  <2>2. CASE program = "ribf"
    <3>1. Told[i] = Record(1, AdcOf(i, i), Stamp(read[i].seg))
      BY <2>2 DEF Told
    <3>2. Told'[i] = Record(1, AdcOf(i, i)', Stamp(read[i].seg))
      BY <1>1, <2>1, <2>2 DEF Told
    <3> QED
      BY <1>2, <3>1, <3>2
  <2>3. CASE program = "nov17"
    <3>1. Told[i] = Record(1, AdcOf(i, Len(read)), Stamp(read[i].seg))
      BY <2>3 DEF Told
    <3>2. Told'[i] = Record(1, AdcOf(i, Len(read))', Stamp(read[i].seg))
      BY <1>1, <2>1, <2>3 DEF Told
    <3>3. AdcOf(i, Len(read))' = AdcOf(i, Len(read))
      BY <1>1, <1>2 DEF AdcOf, SameEvent
    <3> QED
      BY <3>1, <3>2, <3>3
  <2>4. CASE program = "test"
    <3>1. Told[i] = Record(1, read[i].seg.value, TsOf(i))
      BY <2>4 DEF Told
    <3>2. Told'[i] = Record(1, read[i].seg.value, TsOf(i)')
      BY <1>1, <2>1, <2>4 DEF Told
    <3> QED
      BY <1>2, <3>1, <3>2
  <2> QED
    BY <2>1, <2>2, <2>3, <2>4
<1>4. PICK F, G, S : F = Told /\ G = Told' /\ S = Recorded
  OBVIOUS
<1>5. S \in SUBSET Int /\ IsFiniteSet(S) /\ Agree(F, G, S)
  BY <1>3, <1>4, RecordedPlaces DEF Agree
<1>6. InOrder(G, S) = InOrder(F, S)
  BY ONLY <1>5, AgreeInOrder
<1>7. batch' = InOrder(Told', Recorded')
  BY <1>1, <1>4, <1>6
<1> QED
  BY <1>7 DEF ToldSoFar

\* The loop over the events: a header, a block of another class, the end of the block
LEMMA BlockTells ==
  ASSUME SendersTypeOK, TellInv, pc = "block", program # "eurica", Quiet, pts' = pts,
         \/ pc' = "event" /\ event' = event + 1 /\ syncdata' = [adc |-> NoAdc, ts |-> NoTs]
            /\ tsok' = FALSE /\ coinok' = FALSE
         \/ pc' \in {"block", "send"} /\ event' = event
  PROVE  TellInv'
<1>1. /\ read' = read /\ pts0' = pts0 /\ coinmode' = coinmode /\ program' = program /\ batch' = batch
      /\ event \in Nat /\ event' \in {event, event + 1}
  BY DEF Quiet, SendersTypeOK
<1>2. /\ Changes' = Changes /\ Values' = Values /\ Kept' = Kept
      /\ \A i : Before(i)' = Before(i)
  BY <1>1, SameRead
<1>3. \A m \in DOMAIN read : read[m].event \in Nat /\ read[m].event <= event
  <2>1. \A m \in DOMAIN read : read[m] \in [event : Nat, seg : Segments]
    <3>1. read \in Seq([event : Nat, seg : Segments]) /\ DOMAIN read = 1 .. Len(read)
      BY LenProperties DEF SendersTypeOK
    <3> QED
      BY <3>1, ElementOfSeq
  <2> QED
    BY <2>1 DEF TellInv, ReadInOrder
<1>4. ReadInOrder'
  BY <1>1, <1>3 DEF TellInv, ReadInOrder
<1>5. PtsIsLast'
  BY <1>1, <1>2 DEF TellInv, PtsIsLast
<1>6. pc' = "event" => Here' = {}
  BY <1>1, <1>3 DEF Here
<1>7. HeardSoFar'
  <2> SUFFICES ASSUME pc' = "event" PROVE HeardSoFar'
    BY DEF HeardSoFar
  <2>1. syncdata' = [adc |-> NoAdc, ts |-> NoTs] /\ tsok' = FALSE /\ coinok' = FALSE
    OBVIOUS
  <2>2. Here' = {} /\ HereAdc' = {} /\ HereTs' = {} /\ HereChange' = {}
    BY <1>6 DEF HereAdc, HereTs, HereChange
  <2> QED
    BY <2>1, <2>2 DEF HeardSoFar
<1>8. Recorded' = Recorded
  <2>1. program \in {"ribf", "nov17", "test"}
    BY DEF SendersTypeOK, Programs
  <2>2. CASE program = "ribf"
    BY <1>1, <1>2, <2>2 DEF Recorded
  <2>3. CASE program = "test"
    BY <1>1, <1>2, <2>3 DEF Recorded
  <2>4. CASE program = "nov17"
    <3>1. Recorded = Kept
      BY <2>4 DEF Recorded
    <3>2. Recorded' = IF pc' = "event" THEN Kept' \ Here' ELSE Kept'
      BY <1>1, <2>4 DEF Recorded
    <3> QED
      BY <1>2, <1>6, <3>1, <3>2
  <2> QED
    BY <2>1, <2>2, <2>3, <2>4
<1>9. ToldSoFar'
  <2>1. batch = InOrder(Told, Recorded)
    BY DEF TellInv, ToldSoFar
  <2> QED
    BY <1>8, <2>1, QuietTells
<1> QED
  BY <1>4, <1>5, <1>7, <1>9 DEF TellInv

\* A new datagram
LEMMA ReceiveTells ==
  ASSUME SendersTypeOK, Receive
  PROVE  TellInv'
<1>1. /\ read' = <<>> /\ batch' = <<>> /\ pts0' = pts /\ pts' = pts /\ pc' = "block" /\ event' = 0
      /\ program' = program /\ program # "eurica"
  BY DEF Receive
<1>2. DOMAIN read' = {} /\ Len(read') = 0
  BY <1>1, EmptySeq, LenProperties
<1>3. ReadInOrder' /\ HeardSoFar'
  BY <1>1, <1>2 DEF ReadInOrder, HeardSoFar
<1>4. Before(1)' = pts0'
  <2> DEFINE S == {k \in 1 .. 1 - 1 : IsTs(k)'}
  <2>1. S = {} /\ S \in SUBSET (1 .. 0)
    OBVIOUS
  <2>2. Before(1)' = IF Latest(S) = 0 THEN pts0' ELSE Stamp(read'[Latest(S)].seg)
    BY DEF Before
  <2> HIDE DEF S
  <2>3. Latest(S) = 0
    BY <2>1, LatestIs
  <2> QED
    BY <2>2, <2>3
<1>5. PtsIsLast'
  BY <1>1, <1>2, <1>4 DEF PtsIsLast
<1>6. Changes' = {} /\ Values' = {} /\ Kept' = {}
  BY <1>2 DEF Changes, Values, Kept
<1>7. Recorded' = {}
  BY <1>1, <1>6 DEF Recorded, SendersTypeOK, Programs
<1>8. ToldSoFar'
  <2>1. Cardinality({}) = 0
    BY FS_EmptySet
  <2>2. \A F : InOrder(F, {}) = <<>>
    BY <2>1 DEF InOrder
  <2> QED
    BY <1>1, <1>7, <2>2 DEF ToldSoFar
<1> QED
  BY <1>3, <1>5, <1>8 DEF TellInv

\* The end of an event: the records of ribftssender and testsender are made already.
LEMMA EndEventTells ==
  ASSUME SendersTypeOK, TellInv, EndEvent, program # "eurica"
  PROVE  TellInv'
<1>1. /\ read' = read /\ pts0' = pts0 /\ coinmode' = coinmode /\ program' = program
      /\ event' = event /\ pts' = pts /\ pc = "event" /\ pc' = "block"
  BY DEF EndEvent
<1>2. /\ Changes' = Changes /\ Values' = Values
      /\ \A i : Before(i)' = Before(i)
  BY <1>1, SameRead
<1>3. ReadInOrder' /\ PtsIsLast' /\ HeardSoFar'
  BY <1>1, <1>2 DEF TellInv, ReadInOrder, PtsIsLast, HeardSoFar
<1>4. CASE program = "nov17"
  BY <1>3, <1>4, EventTells DEF TellInv
<1>5. CASE program # "nov17"
  <2>1. Quiet
    BY <1>1, <1>5 DEF EndEvent, Quiet
  <2>2. program \in {"ribf", "test"}
    BY <1>5 DEF SendersTypeOK, Programs
  <2>3. Recorded' = Recorded
    BY <1>1, <1>2, <2>2 DEF Recorded
  <2>4. batch = InOrder(Told, Recorded)
    BY <1>1 DEF TellInv, ToldSoFar
  <2>5. ToldSoFar'
    BY <2>1, <2>3, <2>4, QuietTells
  <2> QED
    BY <1>3, <2>5 DEF TellInv
<1> QED
  BY <1>4, <1>5

\* A segment
LEMMA SegmentTells ==
  ASSUME SendersTypeOK, TellInv, NEW s \in Segments, Segment(s)
  PROVE  TellInv'
<1>1. PICK n : n = Len(read) + 1
  OBVIOUS
<1>2. Step(s) /\ program # "eurica"
  BY DEF Segment, RibfSegment, Nov17Segment, TestSegment
<1>3. ReadInOrder'
  BY <1>2, ReadInOrderStep DEF TellInv
<1>4. PtsIsLast'
  BY <1>1, PtsStep DEF TellInv
<1>5. HeardSoFar'
  BY <1>1, <1>2, HeardStep DEF TellInv
<1>6. ToldSoFar'
  BY RibfTells, TestTells, Nov17Tells DEF Segment
<1> QED
  BY <1>3, <1>4, <1>5, <1>6 DEF TellInv

\* Nothing happens.
LEMMA SameVars ==
  ASSUME SendersTypeOK, TellInv, UNCHANGED vars
  PROVE  TellInv'
<1>1. /\ program' = program /\ coinmode' = coinmode /\ pc' = pc /\ syncdata' = syncdata
      /\ tsok' = tsok /\ coinok' = coinok /\ pts' = pts /\ batch' = batch
      /\ pts0' = pts0 /\ event' = event /\ read' = read
  BY DEF vars, sender
<1>2. /\ Changes' = Changes /\ Values' = Values /\ Kept' = Kept
      /\ \A i : Before(i)' = Before(i) /\ TsOf(i)' = TsOf(i)
      /\ \A i, j : AdcOf(i, j)' = AdcOf(i, j)
  BY <1>1, SameRead
<1>3. ReadInOrder' /\ PtsIsLast'
  BY <1>1, <1>2 DEF TellInv, ReadInOrder, PtsIsLast
<1>4. Here' = Here
  BY <1>1 DEF Here
<1>5. HereAdc' = HereAdc /\ HereTs' = HereTs /\ HereChange' = HereChange
  BY <1>1, <1>2, <1>4 DEF HereAdc, HereTs, HereChange
<1>6. HeardSoFar'
  BY <1>1, <1>4, <1>5 DEF TellInv, HeardSoFar
<1>7. Recorded' = Recorded
  BY <1>1, <1>2, <1>4 DEF Recorded
<1>8. ToldSoFar'
  <2> SUFFICES ASSUME program # "eurica", pc \in {"block", "event", "send"} PROVE ToldSoFar'
    BY <1>1 DEF ToldSoFar
  <2>1. batch = InOrder(Told, Recorded)
    BY DEF TellInv, ToldSoFar
  <2> QED
    BY <1>1, <1>7, <2>1, QuietTells DEF Quiet
<1> QED
  BY <1>3, <1>6, <1>8 DEF TellInv

\* What has been read and recorded of the block under way is told event by event.
THEOREM TellInvHolds == Spec => []TellInv
<1>1. Init => TellInv
  <2> SUFFICES ASSUME Init PROVE TellInv
    OBVIOUS
  <2>1. pc = "wait" /\ read = <<>>
    BY DEF Init
  <2>2. DOMAIN read = {}
    BY <2>1, EmptySeq, LenProperties
  <2> QED
    BY <2>1, <2>2 DEF TellInv, ReadInOrder, PtsIsLast, HeardSoFar, ToldSoFar
<1>2. SendersInv /\ TellInv /\ [Next]_vars => TellInv'
  <2> SUFFICES ASSUME SendersInv, TellInv, [Next]_vars PROVE TellInv'
    OBVIOUS
  <2>1. SendersTypeOK /\ OwnLoops
    BY DEF SendersInv
  <2>2. CASE Receive
    BY <2>1, <2>2, ReceiveTells
  <2>3. ASSUME NEW class \in {"event", "event_ts"}, Event(class)
        PROVE  TellInv'
    <3>1. pc = "block" /\ program # "eurica" /\ Quiet /\ pts' = pts
      BY <2>1, <2>3 DEF Event, OwnLoops, Quiet
    <3>2. pc' = "event" /\ event' = event + 1 /\ syncdata' = [adc |-> NoAdc, ts |-> NoTs]
          /\ tsok' = FALSE /\ coinok' = FALSE
      BY <2>3 DEF Event
    <3> QED
      BY <2>1, <3>1, <3>2, BlockTells
  <2>4. CASE SkipEvent \/ EndBlock
    <3>1. pc = "block" /\ program # "eurica" /\ Quiet /\ pts' = pts
      BY <2>1, <2>4 DEF SkipEvent, EndBlock, OwnLoops, Quiet, sender
    <3>2. pc' \in {"block", "send"} /\ event' = event
      BY <2>4, <3>1 DEF SkipEvent, EndBlock
    <3> QED
      BY <2>1, <3>1, <3>2, BlockTells
  <2>5. ASSUME NEW s \in Segments, Segment(s)
        PROVE  TellInv'
    BY <2>1, <2>5, SegmentTells
  <2>6. CASE EndEvent
    <3>1. program # "eurica"
      BY <2>1, <2>6 DEF EndEvent, OwnLoops
    <3> QED
      BY <2>1, <2>6, <3>1, EndEventTells
  <2>7. CASE Eurica
    <3>1. program = "eurica" /\ program' = program /\ read' = read /\ event' = event
      BY <2>1, <2>7 DEF Eurica, Collect, GetEvent, GetNothing, Killed, StartAgain, FillBlock,
                        Collecting, OwnLoops, ridf
    <3> QED
      BY <3>1 DEF TellInv, ReadInOrder, PtsIsLast, HeardSoFar, ToldSoFar
  <2>8. CASE Send
    <3>1. pc' = "wait" /\ read' = read /\ event' = event
      BY <2>8 DEF Send
    <3> QED
      BY <3>1 DEF TellInv, ReadInOrder, PtsIsLast, HeardSoFar, ToldSoFar
  <2>9. CASE UNCHANGED vars
    BY <2>1, <2>9, SameVars
  <2> QED
    BY <2>2, <2>3, <2>4, <2>5, <2>6, <2>7, <2>8, <2>9 DEF Next, Ridf
<1> QED
  BY <1>1, <1>2, SendersInvHolds, PTL DEF Spec

\* At the end of a block its records tell its events, one by one and in order.
THEOREM RecordsTell == Spec => []RecordsTellEvents
<1>1. SendersInv /\ TellInv => RecordsTellEvents
  <2> SUFFICES ASSUME SendersInv, TellInv, pc = "send", program # "eurica"
               PROVE  RecordsTellEvents
    BY DEF RecordsTellEvents
  <2>1. SendersTypeOK
    BY DEF SendersInv
  <2>2. /\ batch = InOrder(Told, Recorded)
        /\ Recorded \in SUBSET Int /\ IsFiniteSet(Recorded)
        /\ program \in {"ribf", "nov17", "test"}
    BY <2>1, RecordedPlaces DEF TellInv, ToldSoFar, SendersTypeOK, Programs
  <2>3. PICK S : S = Recorded
    OBVIOUS
  <2>4. /\ DOMAIN Ascending(S) = 1 .. Cardinality(S)
        /\ \A k \in 1 .. Cardinality(S) : Ascending(S)[k] \in S
    <3>1. S \in SUBSET Int /\ IsFiniteSet(S)
      BY <2>2, <2>3
    <3> QED
      BY <3>1, AscendingElements, LenProperties
  <2>5. batch = [k \in DOMAIN Ascending(S) |-> Told[Ascending(S)[k]]]
    BY <2>2, <2>3, <2>4 DEF InOrder
  <2>6. CASE program = "ribf"
    <3>1. S = Changes /\ \A i \in S : Told[i] = Record(1, AdcOf(i, i), Stamp(read[i].seg))
      BY <2>3, <2>6 DEF Recorded, Told
    <3>2. batch = [k \in DOMAIN Ascending(S) |->
                     Record(1, AdcOf(Ascending(S)[k], Ascending(S)[k]), Stamp(read[Ascending(S)[k]].seg))]
      BY <2>4, <2>5, <3>1
    <3> QED
      BY <2>6, <3>1, <3>2 DEF RecordsTellEvents
  <2>7. CASE program = "nov17"
    <3>1. S = Kept /\ \A i \in S : Told[i] = Record(1, AdcOf(i, Len(read)), Stamp(read[i].seg))
      BY <2>3, <2>7 DEF Recorded, Told
    <3>2. batch = [k \in DOMAIN Ascending(S) |->
                     Record(1, AdcOf(Ascending(S)[k], Len(read)), Stamp(read[Ascending(S)[k]].seg))]
      BY <2>4, <2>5, <3>1
    <3> QED
      BY <2>7, <3>1, <3>2 DEF RecordsTellEvents
  <2>8. CASE program = "test"
    <3>1. S = Values /\ \A i \in S : Told[i] = Record(1, read[i].seg.value, TsOf(i))
      BY <2>3, <2>8 DEF Recorded, Told
    <3>2. batch = [k \in DOMAIN Ascending(S) |->
                     Record(1, read[Ascending(S)[k]].seg.value, TsOf(Ascending(S)[k]))]
      BY <2>4, <2>5, <3>1
    <3> QED
      BY <2>8, <3>1, <3>2 DEF RecordsTellEvents
  <2> QED
    BY <2>2, <2>6, <2>7, <2>8
<1> QED
  BY <1>1, SendersInvHolds, TellInvHolds, PTL

-----------------------------------------------------------------------------
(* The spies get the records                                                *)

\* Every fourth place, as many as the numbers of S say
Stretched(S, c) == {4 * x + c : x \in S}

\* The places of an ascending sequence of records are ascending.
LEMMA StretchedAscending ==
  ASSUME NEW S \in SUBSET Int, IsFiniteSet(S), NEW c \in Int
  PROVE  /\ Ascending(Stretched(S, c)) = [k \in 1 .. Cardinality(S) |-> 4 * Ascending(S)[k] + c]
         /\ Cardinality(S) \in Nat /\ \A k \in 1 .. Cardinality(S) : Ascending(S)[k] \in S
<1>1. /\ Cardinality(S) \in Nat
      /\ \A i \in 1 .. Cardinality(S) : Ascending(S)[i] \in S
      /\ \A i, j \in 1 .. Cardinality(S) : i < j => Ascending(S)[i] < Ascending(S)[j]
      /\ \A x \in S : \E i \in 1 .. Cardinality(S) : Ascending(S)[i] = x
  BY AscendingSorts
<1>2. PICK n, a : n = Cardinality(S) /\ a = Ascending(S)
  OBVIOUS
<1> DEFINE T == Stretched(S, c)
           s == [k \in 1 .. n |-> 4 * a[k] + c]
<1>3. \A y : y \in T <=> \E x \in S : y = 4 * x + c
  BY DEF Stretched
<1>4. \A k \in 1 .. n : a[k] \in S /\ a[k] \in Int /\ s[k] = 4 * a[k] + c
  BY <1>1, <1>2
<1>5. T \in SUBSET Int
  <2>1. \A x \in S : 4 * x + c \in Int
    OBVIOUS
  <2> QED
    BY <1>3, <2>1
<1>6. s \in [1 .. n -> T]
  <2>1. \A k \in 1 .. n : 4 * a[k] + c \in T
    BY <1>3, <1>4
  <2> QED
    BY <2>1
<1>7. \A i, j \in 1 .. n : i < j => s[i] < s[j]
  <2> SUFFICES ASSUME NEW i \in 1 .. n, NEW j \in 1 .. n, i < j PROVE s[i] < s[j]
    OBVIOUS
  <2>1. a[i] < a[j]
    BY <1>1, <1>2
  <2>2. \A p, q \in Int : p < q => 4 * p + c < 4 * q + c
    OBVIOUS
  <2> QED
    BY <1>4, <2>1, <2>2
<1>8. \A y \in T : \E i \in 1 .. n : s[i] = y
  <2> SUFFICES ASSUME NEW y \in T PROVE \E i \in 1 .. n : s[i] = y
    OBVIOUS
  <2>1. PICK x \in S : y = 4 * x + c
    BY <1>3
  <2>2. PICK i \in 1 .. n : a[i] = x
    BY <1>1, <1>2
  <2> QED
    BY <1>4, <2>1, <2>2
<1>9. n \in Nat
  BY <1>1, <1>2
<1> HIDE DEF s, T
<1>10. Ascending(T) = s
  BY <1>5, <1>6, <1>7, <1>8, <1>9, AscendingUnique
<1> QED
  BY <1>1, <1>2, <1>10 DEF s, T

\* A buffer holds the words v of the records H, one every fourth place, and zeros at
\* the other of the places K.
Mirrors(b, v, H, K, c) ==
  /\ \A k \in H : b[4 * k + c] = v[k]
  /\ \A k \in K \ H : b[4 * k + c] = 0

\* A loop that stops at the first zero stops at that of the records, or behind the last.
LEMMA UntilZeroStretched ==
  ASSUME NEW lo \in Int, NEW hi \in Int, NEW c \in Int, NEW H \in SUBSET (lo .. hi),
         \A k \in H : \A j \in lo .. k : j \in H,
         NEW b, NEW v, Mirrors(b, v, H, lo .. hi, c)
  PROVE  UntilZero(b, Stretched(lo .. hi, c)) = Stretched(UntilZero(v, H), c)
<1> DEFINE P == Stretched(lo .. hi, c)
<1>1. /\ \A k \in H : b[4 * k + c] = v[k]
      /\ \A k \in lo .. hi : k \notin H => b[4 * k + c] = 0
      /\ \A k \in H : k \in Int
  BY DEF Mirrors
<1>2. \A k, j \in Int : (4 * k + c <= 4 * j + c <=> k <= j)
  OBVIOUS
<1>3. \A y : y \in P <=> \E k \in lo .. hi : y = 4 * k + c
  BY DEF Stretched
<1>4. \A y : y \in UntilZero(b, P) <=> \E k \in UntilZero(v, H) : y = 4 * k + c
  <2>1. ASSUME NEW y \in UntilZero(b, P)
        PROVE  \E k \in UntilZero(v, H) : y = 4 * k + c
    <3>1. y \in P /\ \A z \in P : z <= y => b[z] # 0
      BY <2>1 DEF UntilZero
    <3>2. PICK k \in lo .. hi : y = 4 * k + c
      BY <1>3, <3>1
    <3>3. \A j \in lo .. hi : j <= k => b[4 * j + c] # 0
      <4>1. \A j \in lo .. hi : 4 * j + c \in P
        BY <1>3
      <4>2. \A j \in lo .. hi : j <= k => 4 * j + c <= y
        BY <1>2, <3>2
      <4> QED
        BY <3>1, <4>1, <4>2
    <3>4. k \in H
      BY <1>1, <3>3
    <3>5. \A j \in H : j <= k => v[j] # 0
      BY <1>1, <3>3
    <3> QED
      BY <3>2, <3>4, <3>5 DEF UntilZero
  <2>2. ASSUME NEW k \in UntilZero(v, H), NEW y, y = 4 * k + c
        PROVE  y \in UntilZero(b, P)
    <3>1. k \in H /\ k \in lo .. hi /\ \A j \in H : j <= k => v[j] # 0
      BY <2>2 DEF UntilZero
    <3>2. y \in P
      BY <1>3, <2>2, <3>1
    <3>3. ASSUME NEW z \in P, z <= y PROVE b[z] # 0
      <4>1. PICK j \in lo .. hi : z = 4 * j + c
        BY <1>3
      <4>2. j <= k
        BY <1>2, <2>2, <3>1, <3>3, <4>1
      <4>3. j \in H
        BY <3>1, <4>2
      <4> QED
        BY <1>1, <3>1, <4>1, <4>2, <4>3
    <3> QED
      BY <3>2, <3>3 DEF UntilZero
  <2> QED
    BY <2>1, <2>2
<1>5. \A y : y \in Stretched(UntilZero(v, H), c) <=> \E k \in UntilZero(v, H) : y = 4 * k + c
  BY DEF Stretched
<1> HIDE DEF P
<1>6. \A y : y \in UntilZero(b, P) <=> y \in Stretched(UntilZero(v, H), c)
  BY <1>4, <1>5
<1>7. UntilZero(b, P) = Stretched(UntilZero(v, H), c)
  BY <1>6
<1> QED
  BY <1>7 DEF P

\* The places a loop of a Spy looks at
LEMMA PlacesStretched ==
  ASSUME NEW i \in Int, NEW c \in Int, NEW lo \in Int, NEW hi \in Int, NEW bound \in Int,
         i = 4 * lo + c, 4 * hi + c < bound, bound <= 4 * hi + c + 4
  PROVE  Places(i, bound) = Stretched(lo .. hi, c)
<1>1. ASSUME NEW j \in Places(i, bound)
      PROVE  \E k \in lo .. hi : j = 4 * k + c
  <2>1. j \in Int /\ i <= j /\ j <= bound - 1 /\ (j - i) % 4 = 0
    BY <1>1 DEF Places
  <2>2. PICK d \in Int : j - i = 4 * d
    <3>1. PICK e \in Int : e = j - i
      BY <2>1
    <3>2. e = 4 * (e \div 4) + (e % 4) /\ e \div 4 \in Int
      BY DivMod
    <3> QED
      BY <2>1, <3>1, <3>2
  <2>3. lo + d \in lo .. hi /\ j = 4 * (lo + d) + c
    BY <2>1, <2>2
  <2> QED
    BY <2>3
<1>2. ASSUME NEW k \in lo .. hi
      PROVE  4 * k + c \in Places(i, bound)
  <2>1. 4 * k + c \in i .. bound - 1
    OBVIOUS
  <2>2. (4 * (k - lo) + 0) % 4 = 0
    <3>1. k - lo \in Int /\ 0 \in 0 .. 4 - 1
      OBVIOUS
    <3> QED
      BY <3>1, DivModOfSum
  <2>3. 4 * k + c - i = 4 * (k - lo) + 0
    OBVIOUS
  <2>4. (4 * k + c - i) % 4 = 0
    BY <2>2, <2>3
  <2> QED
    BY <2>1, <2>4 DEF Places
<1>3. \A j : j \in Places(i, bound) <=> j \in Stretched(lo .. hi, c)
  BY <1>1, <1>2 DEF Stretched
<1> QED
  BY <1>3

\* The numbers up to m, in ascending order
LEMMA AscendingUpTo ==
  ASSUME NEW m \in Nat
  PROVE  Cardinality(1 .. m) = m /\ Ascending(1 .. m) = [k \in 1 .. m |-> k]
<1> DEFINE s == [k \in 1 .. m |-> k]
           T == 1 .. m
<1>1. T \in SUBSET Int /\ s \in [1 .. m -> T]
  OBVIOUS
<1>2. /\ \A i, j \in 1 .. m : i < j => s[i] < s[j]
      /\ \A x \in T : \E i \in 1 .. m : s[i] = x
  OBVIOUS
<1> HIDE DEF s, T
<1>3. Cardinality(T) = m /\ Ascending(T) = s
  BY <1>1, <1>2, AscendingUnique
<1> QED
  BY <1>3 DEF s, T

\* The numbers up to some bound are counted by themselves.
LEMMA AscendingInterval ==
  ASSUME NEW n \in Nat, NEW S \in SUBSET (1 .. n), \A k \in S : \A j \in 1 .. k : j \in S
  PROVE  /\ S = 1 .. Cardinality(S)
         /\ Ascending(S) = [k \in 1 .. Cardinality(S) |-> k]
<1>1. PICK m \in Nat : S = 1 .. m
  <2> DEFINE above == {u \in Nat : \A j \in S : j <= u}
  <2>1. n \in above
    OBVIOUS
  <2>2. PICK u \in above : \A w \in above : u <= w
    BY <2>1, LeastNumber
  <2>3. u \in S \cup {0}
    <3>1. CASE u = 0
      BY <3>1
    <3>2. CASE u # 0
      <4>1. u - 1 \in Nat /\ u - 1 \notin above
        BY <2>2, <3>2
      <4>2. PICK j \in S : ~(j <= u - 1)
        BY <4>1
      <4>3. j <= u /\ j \in Nat
        BY <2>2
      <4>4. j = u
        BY <2>2, <4>2, <4>3
      <4> QED
        BY <4>4
    <3> QED
      BY <3>1, <3>2
  <2>4. \A k : k \in S => k \in 1 .. u
    BY <2>2
  <2>5. \A k : k \in 1 .. u => k \in S
    BY <2>2, <2>3
  <2> QED
    BY <2>2, <2>4, <2>5
<1>0. Cardinality(1 .. m) = m /\ Ascending(1 .. m) = [k \in 1 .. m |-> k]
  BY AscendingUpTo
<1> QED
  BY <1>0, <1>1

\* A time stamp is put together from its two words.
LEMMA HitOfWords ==
  ASSUME NEW t \in Nat
  PROVE  Hit(t % LowMod, t \div LowMod) = t
<1>1. PICK n \in Nat : n = LowMod /\ n >= 1
  BY SendersAssumption
<1>2. t \in Int
  OBVIOUS
<1> DEFINE q == t \div n
           s == t % n
<1>3. q \in Int /\ s \in 0 .. n - 1 /\ t = n * q + s
  BY <1>1, <1>2, DivMod
<1> HIDE DEF q, s
<1>4. t = q * n + s
  BY <1>3
<1> QED
  BY <1>1, <1>4 DEF Hit, q, s

\* A record in the slot of the ring, word by word, and zeros behind the last one
LEMMA SlotOf ==
  ASSUME SendersTypeOK, RecordsFit
  PROVE  /\ Len(batch) \in Nat /\ MaxRecords \in Nat /\ Len(batch) <= MaxRecords
         /\ DOMAIN batch = 1 .. Len(batch)
         /\ \A k \in 1 .. Len(batch) :
              /\ Slot[4 * k + 3] = batch[k].adc
              /\ Slot[4 * k + 4] = batch[k].ts % LowMod
              /\ Slot[4 * k + 5] = batch[k].ts \div LowMod
              /\ Hit(Slot[4 * k + 4], Slot[4 * k + 5]) = batch[k].ts
         /\ \A k \in 1 .. MaxRecords : k > Len(batch) => Slot[4 * k + 4] = 0
<1>1. /\ Len(batch) \in Nat /\ MaxRecords \in Nat /\ Len(batch) <= MaxRecords
      /\ DOMAIN batch = 1 .. Len(batch) /\ batch \in Seq(Records)
  BY SendersAssumption, LenProperties DEF SendersTypeOK, RecordsFit, Records
<1>2. SlotWords = 4 * MaxRecords + 8 /\ DataHeader = 6
  BY <1>1 DEF SlotWords, DataHeader
<1>3. \A i \in 0 .. SlotWords - 1 :
        Slot[i] = IF i - 6 < 0 THEN 1
                  ELSE IF i - 6 < 4 * Len(batch)
                       THEN Words(batch[((i - 6) \div 4) + 1])[((i - 6) % 4) + 1] ELSE 0
  BY <1>2 DEF Slot
<1>4. ASSUME NEW k \in 1 .. Len(batch)
      PROVE  /\ Slot[4 * k + 3] = batch[k].adc
             /\ Slot[4 * k + 4] = batch[k].ts % LowMod
             /\ Slot[4 * k + 5] = batch[k].ts \div LowMod
             /\ Hit(Slot[4 * k + 4], Slot[4 * k + 5]) = batch[k].ts
  <2>1. \A r \in 1 .. 3 : Slot[4 * k + 2 + r] = Words(batch[k])[r + 1]
    <3> SUFFICES ASSUME NEW r \in 1 .. 3 PROVE Slot[4 * k + 2 + r] = Words(batch[k])[r + 1]
      OBVIOUS
    <3>1. PICK i : i = 4 * k + 2 + r
      OBVIOUS
    <3>2. /\ i \in 0 .. SlotWords - 1 /\ ~(i - 6 < 0) /\ i - 6 < 4 * Len(batch)
          /\ i - 6 = 4 * (k - 1) + r
      BY <1>1, <1>2, <3>1
    <3>3. (i - 6) \div 4 = k - 1 /\ (i - 6) % 4 = r
      <4>1. k - 1 \in Int /\ r \in 0 .. 4 - 1
        OBVIOUS
      <4>2. (4 * (k - 1) + r) \div 4 = k - 1 /\ (4 * (k - 1) + r) % 4 = r
        BY <4>1, DivModOfSum
      <4> QED
        BY <3>2, <4>2
    <3>4. Slot[i] = Words(batch[((i - 6) \div 4) + 1])[((i - 6) % 4) + 1]
      BY <1>3, <3>2
    <3>5. (k - 1) + 1 = k
      OBVIOUS
    <3> QED
      BY <3>1, <3>3, <3>4, <3>5
  <2>2. 4 * k + 3 = 4 * k + 2 + 1 /\ 4 * k + 4 = 4 * k + 2 + 2 /\ 4 * k + 5 = 4 * k + 2 + 3
    OBVIOUS
  <2>3. /\ Slot[4 * k + 3] = Words(batch[k])[2] /\ Slot[4 * k + 4] = Words(batch[k])[3]
        /\ Slot[4 * k + 5] = Words(batch[k])[4]
    <3>1. /\ Slot[4 * k + 2 + 1] = Words(batch[k])[1 + 1] /\ Slot[4 * k + 2 + 2] = Words(batch[k])[2 + 1]
          /\ Slot[4 * k + 2 + 3] = Words(batch[k])[3 + 1]
      BY <2>1
    <3> QED
      BY <2>2, <3>1
  <2>4. batch[k].ts \in Nat
    <3>1. batch[k] \in Records
      BY <1>1, ElementOfSeq
    <3>2. batch[k].ts \in 0 .. TsMod - 1 \cup {NoTs} /\ NoTs \in Nat /\ TsMod \in Nat
      BY <3>1, SendersAssumption DEF Records
    <3> QED
      BY <3>2
  <2>5. /\ Slot[4 * k + 3] = batch[k].adc
        /\ Slot[4 * k + 4] = batch[k].ts % LowMod
        /\ Slot[4 * k + 5] = batch[k].ts \div LowMod
    BY <2>3 DEF Words
  <2>6. Hit(batch[k].ts % LowMod, batch[k].ts \div LowMod) = batch[k].ts
    <3>1. PICK t \in Nat : t = batch[k].ts
      BY <2>4
    <3> QED
      BY <3>1, HitOfWords
  <2> QED
    BY <2>5, <2>6
<1>5. ASSUME NEW k \in 1 .. MaxRecords, k > Len(batch)
      PROVE  Slot[4 * k + 4] = 0
  <2>1. PICK i : i = 4 * k + 4
    OBVIOUS
  <2>2. i \in 0 .. SlotWords - 1 /\ ~(i - 6 < 0) /\ ~(i - 6 < 4 * Len(batch))
    BY <1>1, <1>2, <1>5, <2>1
  <2> QED
    BY <1>3, <2>1, <2>2
<1> QED
  BY <1>1, <1>4, <1>5

\* SyncCheck_seg gets the records that can be read.
LEMMA SegHitsAre ==
  ASSUME SendersTypeOK, RecordsFit
  PROVE  SegHits = [k \in 1 .. Cardinality(Readable) |-> Decoded(batch[k])]
<1> DEFINE v == [k \in DOMAIN batch |-> batch[k].ts % LowMod]
           H == DOMAIN batch
           M == MaxRecords
<1>1. /\ Len(batch) \in Nat /\ M \in Nat /\ Len(batch) <= M /\ H = 1 .. Len(batch)
      /\ \A k \in H : Slot[4 * k + 4] = v[k]
      /\ \A k \in 1 .. M : k \notin H => Slot[4 * k + 4] = 0
  <2>1. /\ Len(batch) \in Nat /\ M \in Nat /\ Len(batch) <= M /\ H = 1 .. Len(batch)
        /\ \A k \in H : Slot[4 * k + 4] = v[k]
    BY SlotOf
  <2>2. ASSUME NEW k \in 1 .. M, k \notin H PROVE Slot[4 * k + 4] = 0
    <3>1. k > Len(batch)
      BY <2>1, <2>2
    <3> QED
      BY <3>1, SlotOf
  <2> QED
    BY <2>1, <2>2
<1>2. Readable = UntilZero(v, H)
  BY DEF Readable
<1>3. Mirrors(Slot, v, H, 1 .. M, 4)
  BY <1>1 DEF Mirrors
<1>4. Places(8, SlotWords) = Stretched(1 .. M, 4)
  <2>1. SlotWords = 4 * M + 8
    BY <1>1 DEF SlotWords, DataHeader
  <2>2. 8 = 4 * 1 + 4 /\ 4 * M + 4 < SlotWords /\ SlotWords <= 4 * M + 4 + 4 /\ SlotWords \in Int
    BY <1>1, <2>1
  <2> HIDE DEF M
  <2> QED
    BY <1>1, <2>2, PlacesStretched
<1>5. H \in SUBSET (1 .. M) /\ \A k \in H : \A j \in 1 .. k : j \in H
  BY <1>1
<1> HIDE DEF v, H, M
<1>6. UntilZero(Slot, Stretched(1 .. M, 4)) = Stretched(Readable, 4)
  <2>1. UntilZero(Slot, Stretched(1 .. M, 4)) = Stretched(UntilZero(v, H), 4)
    BY <1>1, <1>3, <1>5, UntilZeroStretched
  <2> QED
    BY <1>2, <2>1
<1>7. Readable \in SUBSET (1 .. Len(batch)) /\ \A k \in Readable : \A j \in 1 .. k : j \in Readable
  BY <1>1, <1>2 DEF UntilZero
<1>8. /\ Ascending(Readable) = [k \in 1 .. Cardinality(Readable) |-> k]
      /\ Readable = 1 .. Cardinality(Readable)
  BY <1>1, <1>7, AscendingInterval
<1>9. Readable \in SUBSET Int /\ IsFiniteSet(Readable)
  <2>1. IsFiniteSet(1 .. Len(batch))
    BY <1>1, FS_Interval
  <2>2. Readable \in SUBSET (1 .. Len(batch))
    BY <1>7
  <2>3. IsFiniteSet(Readable)
    BY ONLY <2>1, <2>2, FS_Subset
  <2> QED
    BY <2>2, <2>3
<1>10. PICK m \in Nat : m = Cardinality(Readable)
  BY <1>9, FS_CardinalityType
<1>11. PICK at : at = Ascending(UntilZero(Slot, Places(8, SlotWords)))
  OBVIOUS
<1>12. at = [k \in 1 .. m |-> 4 * k + 4]
  <2>1. Ascending(Stretched(Readable, 4)) = [k \in 1 .. m |-> 4 * Ascending(Readable)[k] + 4]
    BY <1>9, <1>10, StretchedAscending
  <2>2. \A k \in 1 .. m : Ascending(Readable)[k] = k
    BY <1>8, <1>10
  <2>3. at = Ascending(Stretched(Readable, 4))
    BY <1>4, <1>6, <1>11
  <2> QED
    BY <2>1, <2>2, <2>3
<1>13. SegHits = [k \in DOMAIN at |-> [E |-> Slot[at[k] - 1], TS |-> Hit(Slot[at[k]], Slot[at[k] + 1])]]
  BY <1>11 DEF SegHits
<1>14. ASSUME NEW k \in 1 .. m
       PROVE  /\ k \in DOMAIN at
              /\ [E |-> Slot[at[k] - 1], TS |-> Hit(Slot[at[k]], Slot[at[k] + 1])] = Decoded(batch[k])
  <2>1. k \in 1 .. Len(batch)
    BY <1>7, <1>8, <1>10
  <2>2. /\ Slot[4 * k + 3] = batch[k].adc
        /\ Hit(Slot[4 * k + 4], Slot[4 * k + 5]) = batch[k].ts
    BY <2>1, SlotOf
  <2>3. at[k] = 4 * k + 4 /\ at[k] - 1 = 4 * k + 3 /\ at[k] + 1 = 4 * k + 5
    BY <1>12
  <2> QED
    BY <1>12, <2>2, <2>3 DEF Decoded
<1>15. DOMAIN at = 1 .. m
  BY <1>12
<1> QED
  BY <1>10, <1>13, <1>14, <1>15

\* The records the direct spy holds with both words of their time stamp
Held == {k \in DOMAIN batch : 4 * k - 2 <= Filled}

\* A record in the buffer of the direct spy, and zeros behind the last one it holds
LEMMA BufferOf ==
  ASSUME SendersTypeOK, RecordsFit, NEW b, b = Buffer(0)
  PROVE  \E N \in Nat :
           /\ BUFFERSIZE = 4 * N /\ Held \in SUBSET (1 .. N) /\ IsFiniteSet(Held)
           /\ \A k \in Held : \A j \in 1 .. k : j \in Held
           /\ \A k \in Held : /\ b[4 * k - 4] = batch[k].ts % LowMod
                              /\ Hit(b[4 * k - 4], b[4 * k - 3]) = batch[k].ts
                              /\ k >= 2 => b[4 * k - 5] = batch[k].adc
           /\ \A k \in 1 .. N : k \notin Held => b[4 * k - 4] = 0
<1>1. PICK B \in Nat, n \in Nat, N \in Int, q \in Int :
        B = Filled /\ n = Len(batch) /\ BUFFERSIZE = 4 * N /\ B = 4 * q + 2
  <2>1. BUFFERSIZE \in Nat /\ BUFFERSIZE % 4 = 0 /\ Filled \in Nat /\ Filled % 4 = 2
    BY SendersAssumption
  <2>2. \A x \in Nat : x = 4 * (x \div 4) + (x % 4) /\ x \div 4 \in Int
    OBVIOUS
  <2>3. BUFFERSIZE = 4 * (BUFFERSIZE \div 4) /\ BUFFERSIZE \div 4 \in Int
    BY <2>1, <2>2
  <2>4. Filled = 4 * (Filled \div 4) + 2 /\ Filled \div 4 \in Int
    BY <2>1, <2>2
  <2>5. Len(batch) \in Nat
    BY SlotOf
  <2> QED
    BY <2>1, <2>3, <2>4, <2>5
<1>2. /\ DOMAIN batch = 1 .. n /\ MaxRecords \in Nat /\ n <= MaxRecords
      /\ B <= 4 * MaxRecords /\ B <= 4 * N /\ N \in Nat
  <2>1. B <= 4 * MaxRecords /\ B <= 4 * N
    BY <1>1, SendersAssumption
  <2>2. DOMAIN batch = 1 .. n /\ MaxRecords \in Nat /\ n <= MaxRecords
    BY <1>1, SlotOf
  <2> QED
    BY <2>1, <2>2
<1>3. \A k : k \in Held <=> k \in 1 .. n /\ 4 * k - 2 <= B
  BY <1>1, <1>2 DEF Held
<1>4. \A k \in 1 .. n : 4 * k - 2 <= B <=> k <= q + 1
  BY <1>1
<1>5. Held \in SUBSET (1 .. N) /\ \A k \in Held : \A j \in 1 .. k : j \in Held
  <2>1. q + 1 <= N
    BY <1>1, <1>2
  <2> QED
    BY SMTT(15), <1>1, <1>3, <1>4, <2>1
<1>6. \A i \in 0 .. 4 * N - 1 : b[i] = IF i < B THEN Slot[i + 8] ELSE 0
  <2>1. b = [i \in 0 .. 4 * N - 1 |-> IF i < B THEN Slot[i + 6 + 2] ELSE 0]
    BY <1>1 DEF Buffer, DataHeader
  <2>2. \A i \in 0 .. 4 * N - 1 : i + 6 + 2 = i + 8
    OBVIOUS
  <2> QED
    BY <2>1, <2>2
<1>7. ASSUME NEW k \in Held
      PROVE  /\ b[4 * k - 4] = batch[k].ts % LowMod
             /\ Hit(b[4 * k - 4], b[4 * k - 3]) = batch[k].ts
             /\ k >= 2 => b[4 * k - 5] = batch[k].adc
  <2>1. k \in 1 .. n /\ 4 * k - 2 <= B
    BY <1>3
  <2>2. /\ Slot[4 * k + 3] = batch[k].adc
        /\ Slot[4 * k + 4] = batch[k].ts % LowMod
        /\ Hit(Slot[4 * k + 4], Slot[4 * k + 5]) = batch[k].ts
    BY <1>1, <2>1, SlotOf
  <2>3. b[4 * k - 4] = Slot[4 * k + 4]
    <3>1. PICK i \in Int : i = 4 * k - 4
      BY <2>1
    <3>2. i \in 0 .. 4 * N - 1 /\ i < B /\ i + 8 = 4 * k + 4
      BY <1>2, <2>1, <3>1
    <3> QED
      BY <1>6, <3>1, <3>2
  <2>4. b[4 * k - 3] = Slot[4 * k + 5]
    <3>1. PICK i \in Int : i = 4 * k - 3
      BY <2>1
    <3>2. i \in 0 .. 4 * N - 1 /\ i < B /\ i + 8 = 4 * k + 5
      BY <1>2, <2>1, <3>1
    <3> QED
      BY <1>6, <3>1, <3>2
  <2>5. k >= 2 => b[4 * k - 5] = Slot[4 * k + 3]
    <3>1. PICK i \in Int : i = 4 * k - 5
      BY <2>1
    <3>2. k >= 2 => i \in 0 .. 4 * N - 1 /\ i < B /\ i + 8 = 4 * k + 3
      BY <1>2, <2>1, <3>1
    <3> QED
      BY <1>6, <3>1, <3>2
  <2> QED
    BY <2>2, <2>3, <2>4, <2>5
<1>8. ASSUME NEW k \in 1 .. N, k \notin Held
      PROVE  b[4 * k - 4] = 0
  <2>1. PICK i \in Int : i = 4 * k - 4
    OBVIOUS
  <2>2. i \in 0 .. 4 * N - 1
    BY <1>2, <2>1
  <2>3. CASE i < B
    <3>1. k \in 1 .. MaxRecords /\ 4 * k - 2 <= B
      BY <1>1, <1>2, <2>1, <2>3
    <3>2. k > Len(batch)
      BY <1>1, <1>3, <1>8, <3>1
    <3>3. Slot[4 * k + 4] = 0
      BY <3>1, <3>2, SlotOf
    <3>4. i + 8 = 4 * k + 4
      BY <2>1
    <3> QED
      BY <1>6, <2>1, <2>2, <2>3, <3>3, <3>4
  <2>4. CASE ~(i < B)
    BY <1>6, <2>1, <2>2, <2>4
  <2> QED
    BY <2>3, <2>4
<1>9. IsFiniteSet(Held)
  <2>1. IsFiniteSet(1 .. N)
    BY <1>2, FS_Interval
  <2> QED
    BY <1>5, <2>1, FS_Subset
<1> QED
  BY <1>1, <1>2, <1>5, <1>7, <1>8, <1>9

\* SyncCheckTAS gets the time stamps held, but for those with a low word of 0.
LEMMA TasHitsAre ==
  ASSUME SendersTypeOK, RecordsFit, NEW S, S = {k \in Held : batch[k].ts % LowMod # 0}
  PROVE  TasHits(0) = [k \in DOMAIN Ascending(S) |-> batch[Ascending(S)[k]].ts]
<1>0. PICK b : b = Buffer(0)
  OBVIOUS
<1>1. PICK c \in Int : c = 0 - 4
  OBVIOUS
<1>2. PICK N \in Nat :
           /\ BUFFERSIZE = 4 * N /\ Held \in SUBSET (1 .. N) /\ IsFiniteSet(Held)
           /\ \A k \in Held : /\ b[4 * k - 4] = batch[k].ts % LowMod
                              /\ Hit(b[4 * k - 4], b[4 * k - 3]) = batch[k].ts
           /\ \A k \in 1 .. N : k \notin Held => b[4 * k - 4] = 0
  BY <1>0, BufferOf
<1>3. \A k \in 1 .. N : 4 * k + c = 4 * k - 4 /\ 4 * k + c + 1 = 4 * k - 3
  BY <1>1
<1>4. Places(0, BUFFERSIZE) = Stretched(1 .. N, c)
  <2>1. 0 = 4 * 1 + c /\ 4 * N + c < BUFFERSIZE /\ BUFFERSIZE <= 4 * N + c + 4 /\ BUFFERSIZE \in Int
    BY <1>1, <1>2
  <2> QED
    BY <2>1, PlacesStretched
<1>5. S \in SUBSET Int /\ IsFiniteSet(S)
  <2>1. S \in SUBSET Held
    OBVIOUS
  <2>2. IsFiniteSet(S)
    BY <1>2, <2>1, FS_Subset
  <2>3. \A k \in S : k \in Int
    BY <1>2
  <2> QED
    BY <2>2, <2>3
<1>6. {j \in Stretched(1 .. N, c) : b[j] # 0} = Stretched(S, c)
  <2>1. \A j : j \in Stretched(1 .. N, c) /\ b[j] # 0 <=> \E k \in S : j = 4 * k + c
    <3>1. \A j : j \in Stretched(1 .. N, c) <=> \E k \in 1 .. N : j = 4 * k + c
      BY DEF Stretched
    <3>2. \A k \in 1 .. N : b[4 * k + c] # 0 <=> k \in S
      BY <1>2, <1>3
    <3>3. \A k \in S : k \in 1 .. N
      BY <1>2
    <3> QED
      BY <3>1, <3>2, <3>3
  <2>2. \A j : j \in Stretched(S, c) <=> \E k \in S : j = 4 * k + c
    BY DEF Stretched
  <2> QED
    BY <2>1, <2>2
<1>7. PICK m, a, at : /\ m = Cardinality(S) /\ a = Ascending(S)
                      /\ at = Ascending({j \in Places(0, BUFFERSIZE) : b[j] # 0})
  OBVIOUS
<1>8. /\ at = [k \in 1 .. m |-> 4 * a[k] + c] /\ \A k \in 1 .. m : a[k] \in S
      /\ DOMAIN a = 1 .. m
  <2>1. at = Ascending(Stretched(S, c))
    BY <1>4, <1>6, <1>7
  <2>2. /\ Ascending(Stretched(S, c)) = [k \in 1 .. Cardinality(S) |-> 4 * Ascending(S)[k] + c]
        /\ \A k \in 1 .. Cardinality(S) : Ascending(S)[k] \in S
    BY <1>5, StretchedAscending
  <2>3. DOMAIN Ascending(S) = 1 .. Cardinality(S)
    BY <1>5, AscendingElements
  <2> QED
    BY <1>7, <2>1, <2>2, <2>3
<1>9. TasHits(0) = [k \in DOMAIN at |-> Hit(b[at[k]], b[at[k] + 1])]
  BY <1>0, <1>7 DEF TasHits
<1>10. \A k \in 1 .. m : Hit(b[at[k]], b[at[k] + 1]) = batch[a[k]].ts
  <2> SUFFICES ASSUME NEW k \in 1 .. m PROVE Hit(b[at[k]], b[at[k] + 1]) = batch[a[k]].ts
    OBVIOUS
  <2>1. PICK x \in S : x = a[k]
    BY <1>8
  <2>2. x \in Held /\ x \in 1 .. N
    BY <1>2
  <2>3. at[k] = 4 * x - 4 /\ at[k] + 1 = 4 * x - 3
    BY <1>3, <1>8, <2>1, <2>2
  <2>4. Hit(b[4 * x - 4], b[4 * x - 3]) = batch[x].ts
    BY <1>2, <2>2
  <2> QED
    BY <2>1, <2>3, <2>4
<1>11. DOMAIN at = 1 .. m
  BY <1>8
<1> QED
  BY ZenonT(40), <1>7, <1>8, <1>9, <1>10, <1>11

\* Those of them that SyncCheck_nwNova can read
NovaHeld == UntilZero([k \in Held |-> batch[k].ts % LowMod], Held \ {1, 2})

\* SyncCheck_nwNova gets the records held from the third one on, up to a low word of 0.
LEMMA NovaHitsAre ==
  ASSUME SendersTypeOK, RecordsFit,
         NEW S, S = NovaHeld
  PROVE  NovaHits(0) = [k \in DOMAIN Ascending(S) |-> Decoded(batch[Ascending(S)[k]])]
<1>0. PICK b : b = Buffer(0)
  OBVIOUS
<1>1. PICK c \in Int : c = 0 - 4
  OBVIOUS
<1>2. PICK N \in Nat :
           /\ BUFFERSIZE = 4 * N /\ Held \in SUBSET (1 .. N) /\ IsFiniteSet(Held)
           /\ \A k \in Held : \A j \in 1 .. k : j \in Held
           /\ \A k \in Held : /\ b[4 * k - 4] = batch[k].ts % LowMod
                              /\ Hit(b[4 * k - 4], b[4 * k - 3]) = batch[k].ts
                              /\ k >= 2 => b[4 * k - 5] = batch[k].adc
           /\ \A k \in 1 .. N : k \notin Held => b[4 * k - 4] = 0
  BY <1>0, BufferOf
<1>3. \A k \in 1 .. N : /\ 4 * k + c = 4 * k - 4 /\ 4 * k + c + 1 = 4 * k - 3
                        /\ 4 * k + c - 1 = 4 * k - 5
  BY <1>1
<1> DEFINE v == [k \in Held |-> batch[k].ts % LowMod]
           H == Held \ {1, 2}
<1>4. Places(8, BUFFERSIZE) = Stretched(3 .. N, c)
  <2>1. 8 = 4 * 3 + c /\ 4 * N + c < BUFFERSIZE /\ BUFFERSIZE <= 4 * N + c + 4 /\ BUFFERSIZE \in Int
    BY <1>1, <1>2
  <2> QED
    BY <2>1, PlacesStretched
<1>5. H \in SUBSET (3 .. N) /\ \A k \in H : \A j \in 3 .. k : j \in H
  <2>1. \A k \in H : k \in 3 .. N
    BY <1>2
  <2>2. ASSUME NEW k \in H, NEW j \in 3 .. k PROVE j \in H
    <3>1. k \in Held /\ j \in 1 .. k /\ j # 1 /\ j # 2
      BY <2>1
    <3> QED
      BY <1>2, <3>1
  <2> QED
    BY <2>1, <2>2
<1>6. Mirrors(b, v, H, 3 .. N, c)
  <2>1. \A k \in H : b[4 * k + c] = v[k]
    BY <1>2, <1>3
  <2>2. ASSUME NEW k \in (3 .. N) \ H PROVE b[4 * k + c] = 0
    <3>1. k \in 1 .. N /\ k \notin Held
      OBVIOUS
    <3> QED
      BY <1>2, <1>3, <3>1
  <2> HIDE DEF v, H
  <2> QED
    BY <2>1, <2>2 DEF Mirrors
<1>7. S \in SUBSET Held /\ S = UntilZero(v, H) /\ \A k \in S : k \in 3 .. N
  <2>1. S = UntilZero(v, H)
    BY DEF NovaHeld
  <2> HIDE DEF v
  <2>2. \A k \in S : k \in H
    BY <2>1 DEF UntilZero
  <2> QED
    BY <1>5, <2>1, <2>2
<1> HIDE DEF v, H
<1>8. UntilZero(b, Stretched(3 .. N, c)) = Stretched(S, c)
  BY <1>5, <1>6, <1>7, UntilZeroStretched
<1>9. S \in SUBSET Int /\ IsFiniteSet(S)
  <2>1. S \in SUBSET Held /\ IsFiniteSet(Held)
    BY <1>2, <1>7
  <2>2. IsFiniteSet(S)
    BY ONLY <2>1, FS_Subset
  <2>3. \A k \in S : k \in Int
    BY <1>7
  <2> QED
    BY ONLY <2>2, <2>3
<1>10. PICK m, a, at : /\ m = Cardinality(S) /\ a = Ascending(S)
                       /\ at = Ascending(UntilZero(b, Places(8, BUFFERSIZE)))
  OBVIOUS
<1>11. /\ at = [k \in 1 .. m |-> 4 * a[k] + c] /\ \A k \in 1 .. m : a[k] \in S
       /\ DOMAIN a = 1 .. m
  <2>1. at = Ascending(Stretched(S, c))
    BY <1>4, <1>8, <1>10
  <2>2. /\ Ascending(Stretched(S, c)) = [k \in 1 .. Cardinality(S) |-> 4 * Ascending(S)[k] + c]
        /\ \A k \in 1 .. Cardinality(S) : Ascending(S)[k] \in S
    BY <1>9, StretchedAscending
  <2>3. DOMAIN Ascending(S) = 1 .. Cardinality(S)
    BY <1>9, AscendingElements
  <2> QED
    BY <1>10, <2>1, <2>2, <2>3
<1>12. NovaHits(0) = [k \in DOMAIN at |-> [E |-> b[at[k] - 1], TS |-> Hit(b[at[k]], b[at[k] + 1])]]
  BY <1>0, <1>10 DEF NovaHits
<1>13. \A k \in 1 .. m : [E |-> b[at[k] - 1], TS |-> Hit(b[at[k]], b[at[k] + 1])] = Decoded(batch[a[k]])
  <2> SUFFICES ASSUME NEW k \in 1 .. m
               PROVE  [E |-> b[at[k] - 1], TS |-> Hit(b[at[k]], b[at[k] + 1])] = Decoded(batch[a[k]])
    OBVIOUS
  <2>1. PICK x \in Int : x = a[k] /\ x \in S
    BY <1>9, <1>11
  <2>2. x \in Held /\ x \in 1 .. N /\ x >= 2
    BY <1>2, <1>7, <2>1
  <2>3. at[k] = 4 * x - 4 /\ at[k] + 1 = 4 * x - 3 /\ at[k] - 1 = 4 * x - 5
    <3>1. at[k] = 4 * x + c
      BY <1>11, <2>1
    <3>2. 4 * x + c = 4 * x - 4 /\ 4 * x + c + 1 = 4 * x - 3 /\ 4 * x + c - 1 = 4 * x - 5
      BY <1>3, <2>2
    <3>3. at[k] = 4 * x - 4
      BY <3>1, <3>2
    <3>4. 4 * x - 4 + 1 = 4 * x - 3 /\ 4 * x - 4 - 1 = 4 * x - 5
      OBVIOUS
    <3> QED
      BY ONLY <3>3, <3>4
  <2>4. Hit(b[4 * x - 4], b[4 * x - 3]) = batch[x].ts /\ b[4 * x - 5] = batch[x].adc
    BY <1>2, <2>2
  <2> QED
    BY <2>1, <2>3, <2>4 DEF Decoded
<1>14. DOMAIN at = 1 .. m
  BY <1>11
<1> QED
  BY ZenonT(40), <1>10, <1>11, <1>12, <1>13, <1>14

\* The spies get out of a slot or buffer what the sender put into the block, whatever
\* the sizes of slot and buffer and however much of it the direct spy fills.
THEOREM HitsStayRecords == Spec => []HitsAreRecords
<1>1. SendersInv => HitsAreRecords
  <2> SUFFICES ASSUME SendersInv PROVE HitsAreRecords
    OBVIOUS
  <2>1. SendersTypeOK /\ RecordsFit
    BY DEF SendersInv
  <2>2. PICK S, T : /\ S = {k \in Held : batch[k].ts % LowMod # 0}
                    /\ T = NovaHeld
    OBVIOUS
  <2>3. SegHits = [k \in 1 .. Cardinality(Readable) |-> Decoded(batch[k])]
    BY <2>1, SegHitsAre
  <2>4. TasHits(0) = [k \in DOMAIN Ascending(S) |-> batch[Ascending(S)[k]].ts]
    BY <2>1, <2>2, TasHitsAre
  <2>5. NovaHits(0) = [k \in DOMAIN Ascending(T) |-> Decoded(batch[Ascending(T)[k]])]
    BY <2>1, <2>2, NovaHitsAre
  <2> QED
    BY <2>2, <2>3, <2>4, <2>5 DEF HitsAreRecords, Held, NovaHeld
<1> QED
  BY <1>1, SendersInvHolds, PTL

=============================================================================
