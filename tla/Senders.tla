------------------------------- MODULE Senders -------------------------------
(***************************************************************************)
(* The programs that feed DataSink with time stamps.  ribftssender, its    *)
(* variant ribftssender_nov17 and testsender walk the RIDF block of a      *)
(* datagram, event by event and segment by segment; euricatssender collects*)
(* Lupo time stamps from the events of an MBS event server, with the client*)
(* of EventClient.  Each makes 16 byte records (struct stsyncdata) of what it finds and hands transferMultiTxData a    *)
(* zero-padded block of them.  The spies of the SyncCheck programs take    *)
(* the records apart again by word offsets.                                *)
(*                                                                         *)
(* What a datagram contains is chosen as it is walked; its sizes are those *)
(* of a well-formed block, in the 16 bit units of blksize.  Nothing runs   *)
(* beside a sender: an action is one turn of one of its loops.             *)
(***************************************************************************)
EXTENDS EventClient, AscendingOrder, Sequences, SequencesExt

CONSTANTS
  Raws,         \* raw time stamps
  Lupos,        \* those of EURICA
  TsMod,        \* 2^48, the range of a time stamp
  LowMod,       \* 2^32, the range of its low word
  NoTs,         \* 0x8000000000000000, a time stamp not seen; its low word is 0
  BlockSize,    \* size of the largest block a datagram holds
  MAXTSCNT, MAXTSBUFF,
  MaxSubevents, \* bound: subevents of one MBS event
  MaxRecords,   \* records that fit a block: (buffersize - 32) / 16
  BUFFERSIZE,   \* words of the buffer a SyncCheck hands the direct spy
  Filled        \* how many of them it fills: 1024 - 402

ASSUME SendersAssumption ==
  /\ Raws \subseteq Nat /\ Lupos \subseteq Raws
  /\ TsMod \in Nat \ {0} /\ LowMod \in Nat \ {0}
  /\ NoTs \in Nat /\ NoTs % LowMod = 0
  /\ BlockSize \in Nat /\ BlockSize >= 4 /\ 8 * MaxRecords + 4 >= BlockSize
  /\ MAXTSCNT \in Nat /\ MaxSubevents \in Nat /\ MAXTSBUFF >= MAXTSCNT + MaxSubevents
  /\ MAXTSBUFF \in Nat /\ MaxRecords \in Nat
  /\ BUFFERSIZE \in Nat /\ BUFFERSIZE % 4 = 0
  /\ Filled \in 0 .. BUFFERSIZE /\ Filled % 4 = 2 /\ Filled <= 4 * MaxRecords

NoAdc == 32768                        \* 0x8000
Adcs  == {7}                          \* a reading of the ADC

VARIABLES
  program, coinmode,
  pc,           \* "wait", "block" (idx loop), "event" (tidx loop), "collect", "send", "killed"
  walked,       \* idx + tidx: how much of the block has been walked
  syncdata, tsok, coinok, pts,
  batch,        \* the records written to data[32..]
  mbsbuff,      \* euricatssender
  pts0, event, read   \* history: pts at the start of the block, events begun, segments read

sender == <<syncdata, tsok, coinok, pts, batch, mbsbuff>>
vars   == <<program, coinmode, pc, walked, sender, pts0, event, read, client>>

Programs == {"ribf", "nov17", "test", "eurica"}

Segments ==
  [kind : {"ts"}, value : Raws] \cup [kind : {"adc"}, value : Adcs \cup {-1}]
    \cup [kind : {"coin", "other"}, value : {0}]

Record(i, a, t) == [id |-> i, adc |-> a, ts |-> t]

SendersTypeOK ==
  /\ EventClientTypeOK
  /\ program \in Programs /\ coinmode \in BOOLEAN
  /\ pc \in {"wait", "block", "event", "collect", "send", "killed"}
  /\ walked \in 0 .. BlockSize
  /\ syncdata \in [adc : Adcs \cup {NoAdc}, ts : 0 .. TsMod - 1 \cup {NoTs}]
  /\ tsok \in BOOLEAN /\ coinok \in BOOLEAN
  /\ pts \in 0 .. TsMod - 1 /\ pts0 \in 0 .. TsMod - 1
  /\ batch \in Seq([id : {0, 1}, adc : Adcs \cup {NoAdc, 10}, ts : 0 .. TsMod - 1 \cup {NoTs}])
  /\ mbsbuff \in Seq(Lupos)
  /\ event \in Nat
  /\ read \in Seq([event : Nat, seg : Segments])

Init ==
  /\ program \in Programs
  /\ coinmode \in (IF program = "nov17" THEN BOOLEAN ELSE {FALSE})
  /\ pc = "wait" /\ walked = 0
  /\ syncdata = [adc |-> NoAdc, ts |-> NoTs] /\ tsok = FALSE /\ coinok = FALSE
  /\ pts = 0 /\ batch = <<>> /\ mbsbuff = <<>>
  /\ pts0 = 0 /\ event = 0 /\ read = <<>>
  /\ ClientInit

-----------------------------------------------------------------------------
(* The loops of the RIDF senders                                            *)

HeaderSize  == 4                                   \* sizeof(hd)
EventHeader(class) == HeaderSize + 2 + IF class = "event_ts" THEN 4 ELSE 0

\* The least sizes of the segments the programs look for: header, segment
\* identification and the data they take.
Size(s) == HeaderSize + 2 + (CASE s.kind = "ts" -> 3
                               [] s.kind = "adc" -> IF program = "test" THEN 4 ELSE 1
                               [] s.kind = "coin" -> 1
                               [] s.kind = "other" -> 0)

\* A datagram with a block header of one of the three block classes; any other
\* one is reported and dropped.
Receive ==
  /\ program # "eurica" /\ pc = "wait"
  /\ pc' = "block" /\ walked' = HeaderSize /\ batch' = <<>>
  /\ pts0' = pts /\ event' = 0 /\ read' = <<>>
  /\ UNCHANGED <<program, coinmode, syncdata, tsok, coinok, pts, mbsbuff>>

\* Mutant: what an event said is kept for the next one.
EventKeeps(class) ==
  /\ pc = "block" /\ walked + EventHeader(class) <= BlockSize
  /\ walked' = walked + EventHeader(class)
  /\ event' = event + 1
  /\ pc' = "event"
  /\ UNCHANGED <<program, coinmode, syncdata, tsok, coinok, pts, batch, mbsbuff, pts0, read>>

\* The header of an event that is analysed
Event(class) ==
  /\ pc = "block" /\ walked + EventHeader(class) <= BlockSize
  /\ walked' = walked + EventHeader(class)
  /\ event' = event + 1
  /\ syncdata' = [adc |-> NoAdc, ts |-> NoTs]
  /\ tsok' = FALSE /\ coinok' = FALSE
  /\ pc' = "event"
  /\ UNCHANGED <<program, coinmode, pts, batch, mbsbuff, pts0, read>>

\* Any other block is stepped over.
SkipEvent ==
  /\ pc = "block" /\ walked + EventHeader("comment") <= BlockSize
  /\ walked' = walked + EventHeader("comment")
  /\ UNCHANGED <<program, coinmode, pc, sender, pts0, event, read>>

Step(s) ==
  /\ pc = "event" /\ walked + Size(s) <= BlockSize
  /\ walked' = walked + Size(s)
  /\ read' = Append(read, [event |-> event, seg |-> s])
  /\ UNCHANGED <<program, coinmode, pc, mbsbuff, pts0, event>>

Shifted(x) == (x \div 4) % TsMod                   \* (x >> 2) & 48 bits
Stamp(s)   == Shifted(s.value % TsMod)

\* A time stamp that is there, and not the one before it
Fresh(s) == s.kind = "ts" /\ s.value % TsMod # 0 /\ Stamp(s) # pts

WithTs(s)  == [syncdata EXCEPT !.ts = Stamp(s)]
WithAdc(s) == IF s.kind = "adc" /\ s.value >= 0 THEN [syncdata EXCEPT !.adc = s.value] ELSE syncdata

RecordOf(data) == Record(1, data.adc, data.ts)

\* ribftssender: a record for every new time stamp, with the ADC value read
\* before it in the event
RibfSegment(s) ==
  /\ program = "ribf" /\ Step(s)
  /\ IF Fresh(s)
     THEN /\ syncdata' = WithTs(s) /\ pts' = Stamp(s) /\ tsok' = TRUE
          /\ batch' = Append(batch, RecordOf(syncdata'))
     ELSE /\ syncdata' = WithAdc(s) /\ tsok' = FALSE
          /\ UNCHANGED <<pts, batch>>
  /\ UNCHANGED coinok

\* ribftssender_nov17: the event is read to its end first
Nov17Segment(s) ==
  /\ program = "nov17" /\ Step(s)
  /\ IF Fresh(s)
     THEN syncdata' = WithTs(s) /\ pts' = Stamp(s) /\ tsok' = TRUE
     ELSE syncdata' = WithAdc(s) /\ UNCHANGED <<pts, tsok>>
  /\ coinok' = (coinok \/ s.kind = "coin")
  /\ UNCHANGED batch

\* testsender: a record for every ADC value, with whatever time stamp was read
\* before it (tts is never the value it is compared with)
TestSegment(s) ==
  /\ program = "test" /\ Step(s)
  /\ syncdata' = IF s.kind = "ts" THEN [syncdata EXCEPT !.ts = Shifted(s.value)] ELSE WithAdc(s)
  /\ batch' = IF s.kind = "adc" /\ s.value # -1 THEN Append(batch, RecordOf(syncdata')) ELSE batch
  /\ UNCHANGED <<tsok, coinok, pts>>

Wanted == tsok /\ (coinmode => coinok)

\* The event is walked; nov17 records it.
EndEvent ==
  /\ pc = "event"
  /\ batch' = IF program = "nov17" /\ Wanted THEN Append(batch, RecordOf(syncdata)) ELSE batch
  /\ pc' = "block"
  /\ UNCHANGED <<program, coinmode, walked, syncdata, tsok, coinok, pts, mbsbuff,
                 pts0, event, read>>

\* The block is walked.
EndBlock ==
  /\ pc = "block"
  /\ pc' = "send"
  /\ UNCHANGED <<program, coinmode, walked, sender, pts0, event, read>>

Segment(s) == RibfSegment(s) \/ Nov17Segment(s) \/ TestSegment(s)

Ridf ==
  /\ \/ Receive
     \/ \E class \in {"event", "event_ts"} : Event(class)
     \/ SkipEvent \/ (\E s \in Segments : Segment(s)) \/ EndEvent \/ EndBlock
  /\ UNCHANGED client

-----------------------------------------------------------------------------
(* euricatssender                                                           *)

\* procid 11 is Lupo; "known" are the other unpackers, "empty" has no data
Subevents == [kind : {"ts"}, value : Lupos] \cup [kind : {"known", "empty", "unknown"}, value : {0}]

MbsEvents == UNION {[1 .. n -> Subevents] : n \in 0 .. MaxSubevents}

\* What euricatssender has no use for
ridf == <<program, coinmode, walked, syncdata, tsok, coinok, pts, pts0, event, read>>

\* The block of the round before is not looked at any more.
Collect ==
  /\ program = "eurica" /\ pc = "wait"
  /\ pc' = "collect" /\ mbsbuff' = <<>> /\ batch' = <<>>
  /\ UNCHANGED <<ridf, client>>

\* An unknown subevent ends the event.
Unpacked(e) == {i \in DOMAIN e : e[i].kind = "ts" /\ \A k \in 1 .. i : e[k].kind # "unknown"}

\* the time stamps of the first n subevents of an event, for each n
Taken(e) ==
  LET taken[n \in 0 .. Len(e)] ==
        IF n = 0 THEN <<>>
        ELSE IF n \in Unpacked(e) THEN Append(taken[n - 1], e[n].value) ELSE taken[n - 1]
  IN taken

unpackmbs(e) == Taken(e)[Len(e)]

\* The loop goes on until more than MAXTSCNT time stamps have been taken.
Collecting == pc = "collect" /\ Len(mbsbuff) <= MAXTSCNT

\* Bytes that are no event are unpacked like one.
GetEvent(e) ==
  /\ Collecting /\ EventReturned
  /\ mbsbuff' = mbsbuff \o unpackmbs(e)
  /\ UNCHANGED <<ridf, pc, batch>>

GetNothing ==
  /\ Collecting /\ NothingReturned
  /\ UNCHANGED <<ridf, pc, batch, mbsbuff>>

Killed ==
  /\ Collecting /\ Fatal
  /\ pc' = "killed"
  /\ UNCHANGED <<ridf, batch, mbsbuff, client>>

StartAgain ==
  /\ pc = "killed" /\ pc' = "wait"
  /\ mbsbuff' = <<>> /\ batch' = <<>>
  /\ Reopened
  /\ UNCHANGED ridf

\* Mutant: the block is filled past its end.
RoomMore == MaxRecords + 1

\* buffersize > 32 + dataidx
Room == MaxRecords

\* Two seconds are over, or there are too many: fill the block with the first ones.
FillBlock ==
  /\ pc = "collect"
  /\ batch' = [i \in 1 .. (IF Len(mbsbuff) < Room THEN Len(mbsbuff) ELSE Room) |->
                Record(0, 10, Shifted(mbsbuff[i]))]
  /\ pc' = IF mbsbuff = <<>> THEN "wait" ELSE "send"
  /\ UNCHANGED <<ridf, mbsbuff, client>>

Eurica ==
  Collect \/ (\E e \in MbsEvents : GetEvent(e)) \/ GetNothing \/ Killed \/ StartAgain \/ FillBlock

\* transferMultiTxData, whose result is ignored; it may have to connect again.
Send ==
  /\ pc = "send"
  /\ pc' = "wait"
  /\ UNCHANGED client \/ (program = "eurica" /\ DescriptorReused)
  /\ UNCHANGED <<program, coinmode, walked, sender, pts0, event, read>>

Next == Ridf \/ Eurica \/ Send

Spec == Init /\ [][Next]_vars

-----------------------------------------------------------------------------
(* The block as the spies of SyncCheck see it, word by word                 *)

\* struct stsyncdata in the memory of a little-endian machine
Words(r) == <<r.id, r.adc, r.ts % LowMod, r.ts \div LowMod>>

DataHeader == 6                       \* words of DATA_HEADER before the data

SlotWords == DataHeader + 4 * MaxRecords + 2

\* The slot of the ring: DATA_HEADER, the records, zeros
Slot ==
  [i \in 0 .. SlotWords - 1 |->
     LET w == i - DataHeader IN
     IF w < 0 THEN 1
     ELSE IF w < 4 * Len(batch) THEN Words(batch[(w \div 4) + 1])[(w % 4) + 1] ELSE 0]

\* Mutant: the buffer starts with the first record.
BufferWhole(tail) == [i \in 0 .. BUFFERSIZE - 1 |->
                        IF i < Filled THEN Slot[i + DataHeader] ELSE tail]

\* the buffer of SpyDataSink::Spy starts at the first low word of a time stamp;
\* tail is what the words it does not fill happen to be
Buffer(tail) == [i \in 0 .. BUFFERSIZE - 1 |->
                   IF i < Filled THEN Slot[i + DataHeader + 2] ELSE tail]

Hit(lo, hi) == hi * LowMod + lo

\* the places i, i + 4, ... below bound at which a loop of a Spy stops to look
Places(i, bound) == {j \in i .. bound - 1 : (j - i) % 4 = 0}

\* those before the first place where the word is 0
UntilZero(b, places) == {j \in places : \A k \in places : k <= j => b[k] # 0}

\* SyncCheck_seg.cpp Spy, over a slot read with dataSpyRead
SegHits ==
  LET at == Ascending(UntilZero(Slot, Places(8, SlotWords))) IN
  [k \in DOMAIN at |-> [E |-> Slot[at[k] - 1], TS |-> Hit(Slot[at[k]], Slot[at[k] + 1])]]

\* SyncCheckTAS.cpp Spy, over the buffer of the direct spy
TasHits(tail) ==
  LET b == Buffer(tail)
      at == Ascending({j \in Places(0, BUFFERSIZE) : b[j] # 0}) IN
  [k \in DOMAIN at |-> Hit(b[at[k]], b[at[k] + 1])]

\* SyncCheck_nwNova.cpp Spy, over the same buffer with the offsets of a slot
NovaHits(tail) ==
  LET b == Buffer(tail)
      at == Ascending(UntilZero(b, Places(8, BUFFERSIZE))) IN
  [k \in DOMAIN at |-> [E |-> b[at[k] - 1], TS |-> Hit(b[at[k]], b[at[k] + 1])]]

\* SyncCheck.cpp Spy, over the same buffer
SyncHits(tail) ==
  LET b == Buffer(tail)
      at == Ascending({j \in Places(8, BUFFERSIZE) : b[j + 2] # 0}) IN
  [k \in DOMAIN at |-> [E |-> b[at[k] + 1], TS |-> Hit(b[at[k] + 2], b[at[k] + 3])]]

-----------------------------------------------------------------------------
(* Properties                                                               *)

\* What the walk has made never outgrows the block it is sent in, though neither
\* RIDF walk looks at the room left: every record stands for a segment longer than
\* it.  The time stamps of euricatssender stay in their buffer, which has room
\* for the event that passes the limit.
RecordsFit ==
  /\ Len(batch) <= MaxRecords
  /\ Len(mbsbuff) <= MAXTSBUFF

IsTs(i) == read[i].seg.kind = "ts" /\ read[i].seg.value % TsMod # 0

SameEvent(i, j) == read[i].event = read[j].event

\* the last one of a set of places in what was read, 0 if there is none
Latest(S) == CHOOSE i \in S \cup {0} : \A j \in S : j <= i

\* the time stamp read before place i, in this block or an earlier one
Before(i) ==
  LET j == Latest({k \in 1 .. i - 1 : IsTs(k)})
  IN IF j = 0 THEN pts0 ELSE Stamp(read[j].seg)

Changes == {i \in DOMAIN read : IsTs(i) /\ Stamp(read[i].seg) # Before(i)}

\* the ADC value of the event of place i, read no later than place j
AdcOf(i, j) ==
  LET k == Latest({m \in 1 .. j : SameEvent(i, m) /\ read[m].seg.kind = "adc" /\ read[m].seg.value >= 0})
  IN IF k = 0 THEN NoAdc ELSE read[k].seg.value

\* nov17 keeps the last change of an event, in coincidence mode of a coincidence
Kept ==
  {i \in Changes :
     /\ \A j \in Changes : SameEvent(i, j) => j <= i
     /\ coinmode => \E j \in DOMAIN read : SameEvent(i, j) /\ read[j].seg.kind = "coin"}

Values == {i \in DOMAIN read : read[i].seg.kind = "adc" /\ read[i].seg.value >= 0}

\* the time stamp of the event of place i, read before it
TsOf(i) ==
  LET k == Latest({m \in 1 .. i : SameEvent(i, m) /\ read[m].seg.kind = "ts"})
  IN IF k = 0 THEN NoTs ELSE Shifted(read[k].seg.value)

\* At the end of a block its records are the changes of the time stamp against
\* the one read before, across blocks, each with the ADC value of its own event:
\* the one read so far (ribftssender) or that of the whole event (nov17).  Those of
\* testsender are the ADC values, each with the time stamp read before it in its
\* own event.  A reset of syncdata, tsok or coinok forgotten mixes events.
RecordsTellEvents ==
  pc = "send" /\ program # "eurica" =>
    LET changes == Ascending(Changes)
        kept    == Ascending(Kept)
        values  == Ascending(Values)
    IN batch = CASE program = "ribf" ->
                      [k \in DOMAIN changes |->
                         Record(1, AdcOf(changes[k], changes[k]), Stamp(read[changes[k]].seg))]
                 [] program = "nov17" ->
                      [k \in DOMAIN kept |->
                         Record(1, AdcOf(kept[k], Len(read)), Stamp(read[kept[k]].seg))]
                 [] program = "test" ->
                      [k \in DOMAIN values |->
                         Record(1, read[values[k]].seg.value, TsOf(values[k]))]

Decoded(r) == [E |-> r.adc, TS |-> r.ts]

\* the records before the first whose low word is 0
Readable == UntilZero([k \in DOMAIN batch |-> batch[k].ts % LowMod], DOMAIN batch)

\* Layouts, headers and the steps of the loops agree between sender and spies.
\* SyncCheck_seg gets from its slot the records that were sent, ADC values
\* included, up to the first time stamp with a low word of 0.  SyncCheckTAS gets the
\* time stamps of the records the direct spy holds, skipping those with a low word
\* of 0; SyncCheck_nwNova gets those from the third one on, up to a low word of 0.
\* This is as far as the direct spy fills the buffer.
HitsAreRecords ==
  LET held == {k \in DOMAIN batch : 4 * k - 2 <= Filled}
      tas  == Ascending({k \in held : batch[k].ts % LowMod # 0})
      nova == Ascending(UntilZero([k \in held |-> batch[k].ts % LowMod], held \ {1, 2}))
  IN /\ SegHits = [k \in 1 .. Cardinality(Readable) |-> Decoded(batch[k])]
     /\ TasHits(0) = [k \in DOMAIN tas |-> batch[tas[k]].ts]
     /\ NovaHits(0) = [k \in DOMAIN nova |-> Decoded(batch[nova[k]])]

\* Every event of the event server is unpacked once and in order, over the buffers it
\* comes in and the messages between them, and acknowledged when the last one of its
\* buffer has been, not before: the server may forget it then.  This holds up to the
\* failure of the connection, and from the next start on.
EventsInOrder ==
  [][pc = "collect" =>
       /\ EventReturned /\ channel' = "server" => last' = last + 1
       /\ acked' # acked => acked' = last]_vars

(* What comments say                                                         *)

\* f_evcli.c:384, 1667 the acknowledgement goes to the server: DataSink gets none of it.
DataSinkGetsNone == [][channel = "sink" => channel' = "sink" \/ pc = "killed"]_vars

\* f_evt.c:912 GETEVT__SUCCESS is success: bytes that are no event are not unpacked.
OnlyEvents == [][Len(mbsbuff') > Len(mbsbuff) => channel' = "server"]_vars

\* SyncCheckTAS.cpp, over the whole buffer: every hit is a time stamp that was sent.
\* The words that neither memset nor the spy writes are hits as well.
HitsWereSent ==
  \A tail \in {0, 1} : \A k \in DOMAIN TasHits(tail) :
    \E i \in DOMAIN batch : TasHits(tail)[k] = batch[i].ts

\* syncSpyClass.hpp:53 the buffer begins with the first time stamp: SyncCheck gets
\* the time stamps that were sent.
SyncHitsAreRecords ==
  \A k \in DOMAIN SyncHits(0) : \E i \in DOMAIN batch : SyncHits(0)[k] = Decoded(batch[i])

-----------------------------------------------------------------------------
(* The inductive invariant behind RecordsFit and EventsInOrder              *)

\* The last event returned is the one the position in the buffer says, and all of
\* them when the buffer is used up.
ReturnedInOrder ==
  channel = "server" => last = sent - (IF AtHand THEN l_events - l_evt_buf_posi ELSE 0)

\* nov17 has a record to write when the event ends.
Pending == program = "nov17" /\ pc = "event" /\ tsok

\* Every record, and the one that is pending, stands for eight units walked.
Paid ==
  program # "eurica" /\ (pc \in {"block", "event"} \/ batch # <<>>) =>
    8 * (Len(batch) + (IF Pending THEN 1 ELSE 0)) + HeaderSize <= walked

\* The loops of one program are not those of another.
OwnLoops ==
  /\ pc \in {"block", "event"} => program # "eurica"
  /\ pc \in {"collect", "killed"} => program = "eurica"

SendersInv == SendersTypeOK /\ ReturnedInOrder /\ OwnLoops /\ Paid /\ RecordsFit

-----------------------------------------------------------------------------
(* The inductive invariant behind RecordsTellEvents                         *)

\* The events of the block are walked one after the other.
ReadInOrder ==
  \A j, k \in DOMAIN read : read[j].event <= event /\ (j <= k => read[j].event <= read[k].event)

\* What was read of the event under way, its ADC values, time stamps and changes
Here       == {m \in DOMAIN read : read[m].event = event}
HereAdc    == {m \in Here : read[m].seg.kind = "adc" /\ read[m].seg.value >= 0}
HereTs     == {m \in Here : read[m].seg.kind = "ts"}
HereChange == Changes \cap Here

\* pts is the time stamp read last, in this block or an earlier one.
PtsIsLast ==
  program \in {"ribf", "nov17"} /\ pc \in {"block", "event"} => pts = Before(Len(read) + 1)

\* The variables of the loop hold what the event under way has said so far.
HeardSoFar ==
  program # "eurica" /\ pc = "event" =>
    /\ syncdata.adc = IF HereAdc = {} THEN NoAdc ELSE read[Latest(HereAdc)].seg.value
    /\ program = "test" =>
         syncdata.ts = IF HereTs = {} THEN NoTs ELSE Shifted(read[Latest(HereTs)].seg.value)
    /\ program = "nov17" =>
         /\ tsok <=> HereChange # {}
         /\ tsok => syncdata.ts = Stamp(read[Latest(HereChange)].seg)
         /\ coinok <=> \E m \in Here : read[m].seg.kind = "coin"

\* The places a record was made for, and their records; nov17 makes that of an event
\* when it has ended.
Recorded ==
  CASE program = "ribf"  -> Changes
    [] program = "nov17" -> IF pc = "event" THEN Kept \ Here ELSE Kept
    [] program = "test"  -> Values

Told ==
  [i \in Recorded |->
     CASE program = "ribf"  -> Record(1, AdcOf(i, i), Stamp(read[i].seg))
       [] program = "nov17" -> Record(1, AdcOf(i, Len(read)), Stamp(read[i].seg))
       [] program = "test"  -> Record(1, read[i].seg.value, TsOf(i))]

\* the values of a function on a set of places, in their order
InOrder(F, S) == [k \in 1 .. Cardinality(S) |-> F[Ascending(S)[k]]]

ToldSoFar ==
  program # "eurica" /\ pc \in {"block", "event", "send"} =>
    batch = InOrder(Told, Recorded)

TellInv == ReadInOrder /\ PtsIsLast /\ HeardSoFar /\ ToldSoFar

=============================================================================
