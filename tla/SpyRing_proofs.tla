--------------------------- MODULE SpyRing_proofs ---------------------------
(***************************************************************************)
(* Proofs about SpyRing for every number of slots, words, spies, blocks    *)
(* and runs of initialise_buffer_area: that no accepted block is torn,     *)
(* that the ring holds the last NBLOCKS blocks and every spy is given them *)
(* in order, and that SpyRing implements LossyFeed.  The last part is      *)
(* about DirectSpy, the spy that reads the ring without its ages.          *)
(***************************************************************************)
EXTENDS DirectSpy, NumberLemmas, FiniteSetTheorems, SequenceTheorems

-----------------------------------------------------------------------------
(* What a copy may hold                                                     *)

\* Stepping an index stays inside the ring (the mask with NBLOCKS - 1).
LEMMA SuccInSlots == ASSUME NEW i \in Slots PROVE Succ(i) \in Slots
  BY RingAssumption DEF Slots, Succ

\* Block 0 has a slot.
LEMMA ZeroInSlots == 0 \in Slots
  BY RingAssumption DEF Slots

\* The initial state is well typed.
LEMMA InitTypeOK == Init => TypeOK
<1> SUFFICES ASSUME Init PROVE TypeOK
  OBVIOUS
<1>1. NoBlock \in [Words -> Stamps]
  BY DEF NoBlock, NoStamp, Stamps
<1>2. BlockSize \in Sizes /\ 0 \in 0 .. NBlocks /\ 0 \in 0 .. NWords
  BY RingAssumption
<1> QED
  BY <1>1, <1>2, ZeroInSlots DEF Init, TypeOK

\* A block of the current epoch is a stamp.
LEMMA CopiedStamp == ASSUME TypeOK PROVE <<epoch, currentage>> \in Stamps
  BY DEF TypeOK, Stamps

\* The age before the current one, -1 when there is none.
LEMMA PredInLast == ASSUME TypeOK PROVE currentage - 1 \in Nat \cup {-1}
  BY DEF TypeOK

\* Every step keeps the types.
LEMMA TypeOKStep == ASSUME TypeOK, PhaseClean, SpyCopying, [Next]_vars PROVE TypeOK'
<1> USE DEF TypeOK, shared, writer, reader, history
<1>1. CASE Rewind
  <2>1. next' \in Slots /\ epoch' \in Nat /\ stored' \in Nat \cup {-1}
    BY <1>1, ZeroInSlots DEF Rewind
  <2>2. /\ calm' \in [Readers -> BOOLEAN]
        /\ last' \in [Readers -> Nat \cup {-1}]
        /\ instep' \in [Readers -> BOOLEAN]
    BY <1>1 DEF Rewind
  <2> QED
    BY <1>1, <2>1, <2>2 DEF Rewind
<1>2. CASE ResetAge
  BY <1>2, RingAssumption DEF ResetAge
<1>3. CASE ClearAge
  <2>1. cleared' \in 0 .. NBlocks
    BY <1>3, RingAssumption DEF ClearAge, PhaseClean
  <2>2. age' \in [Slots -> Nat]
    BY <1>3 DEF ClearAge
  <2>3. wpc' \in {"clear", "mark", "idle"} /\ clean' \in BOOLEAN
    BY <1>3 DEF ClearAge
  <2> QED
    BY <1>3, <2>1, <2>2, <2>3 DEF ClearAge
<1>4. CASE TsDataTransfer
  BY <1>4 DEF TsDataTransfer
<1>5. CASE Mark
  BY <1>5 DEF Mark
<1>6. ASSUME NEW w \in Words, CopyIn(w) PROVE TypeOK'
  BY <1>6, CopiedStamp DEF CopyIn
<1>7. CASE Stamp
  BY <1>7 DEF Stamp
<1>8. CASE Bump
  BY <1>8 DEF Bump
<1>9. CASE Advance
  BY <1>9, SuccInSlots DEF Advance
<1>10. ASSUME NEW s \in Sizes, Resize(s) PROVE TypeOK'
  BY <1>10 DEF Resize
<1>11. CASE Crash
  BY <1>11 DEF Crash
<1>12. CASE Restart
  BY <1>12, RingAssumption DEF Restart
<1>13. ASSUME NEW r \in Readers, OpenIndex(r) PROVE TypeOK'
  BY <1>13 DEF OpenIndex
<1>14. ASSUME NEW r \in Readers, OpenAge(r) PROVE TypeOK'
  BY <1>14, PredInLast DEF OpenAge
<1>15. ASSUME NEW r \in Readers, ReadNothing(r) PROVE TypeOK'
  <2>1. len' \in [Readers -> BOOLEAN]
    BY <1>15 DEF ReadNothing, KeptLen
  <2> QED
    BY <1>15, <2>1 DEF ReadNothing
<1>16. ASSUME NEW r \in Readers, ReadAge(r) PROVE TypeOK'
  BY <1>16, RingAssumption DEF ReadAge
<1>17. ASSUME NEW r \in Readers, CopyOut(r) PROVE TypeOK'
  <2>1. word[r] \in Words /\ word[r] + 1 \in 0 .. NWords
    BY <1>17, RingAssumption DEF CopyOut, SpyCopying, CopySound, Words
  <2>2. data[next_index[r]][word[r]] \in Stamps
    BY <2>1
  <2>3. buf' \in [Readers -> [Words -> Stamps]]
    BY <1>17, <2>1, <2>2 DEF CopyOut
  <2> QED
    BY <1>17, <2>1, <2>3 DEF CopyOut
<1>18. ASSUME NEW r \in Readers, Accept(r) PROVE TypeOK'
  BY <1>18, SuccInSlots DEF Accept
<1>19. ASSUME NEW r \in Readers, Reject(r) PROVE TypeOK'
  BY <1>19 DEF Reject
<1>20. ASSUME NEW r \in Readers, Close(r) PROVE TypeOK'
  BY <1>20 DEF Close
<1>21. CASE UNCHANGED vars
  BY <1>21 DEF vars, writer, history
<1> QED
  BY <1>1, <1>2, <1>3, <1>4, <1>5, <1>6, <1>7, <1>8, <1>9, <1>10, <1>11, <1>12, <1>13, <1>14, <1>15, <1>16, <1>17, <1>18, <1>19, <1>20, <1>21 DEF Next, Writer, Reader, Read

\* Only a served area is clean, and it is cleared slot by slot.
LEMMA PhaseCleanStep == ASSUME TypeOK, PhaseClean, [Next]_vars PROVE PhaseClean'
<1> USE DEF PhaseClean, Settled, TypeOK, Slots, shared, writer, history
<1>1. CASE Rewind
  BY <1>1 DEF Rewind
<1>2. CASE ResetAge
  BY <1>2, RingAssumption DEF ResetAge
<1>3. CASE ClearAge
  BY <1>3 DEF ClearAge
<1>4. CASE TsDataTransfer
  BY <1>4 DEF TsDataTransfer
<1>5. CASE Mark
  BY <1>5 DEF Mark
<1>6. ASSUME NEW w \in Words, CopyIn(w) PROVE PhaseClean'
  BY <1>6 DEF CopyIn
<1>7. CASE Stamp
  BY <1>7 DEF Stamp
<1>8. CASE Bump
  BY <1>8 DEF Bump
<1>9. CASE Advance
  BY <1>9 DEF Advance
<1>10. ASSUME NEW s \in Sizes, Resize(s) PROVE PhaseClean'
  BY <1>10 DEF Resize
<1>11. CASE Crash
  BY <1>11 DEF Crash
<1>12. CASE Restart
  BY <1>12 DEF Restart
<1>13. ASSUME NEW r \in Readers, OpenIndex(r) PROVE PhaseClean'
  BY <1>13 DEF OpenIndex
<1>14. ASSUME NEW r \in Readers, OpenAge(r) PROVE PhaseClean'
  BY <1>14 DEF OpenAge
<1>15. ASSUME NEW r \in Readers, ReadNothing(r) PROVE PhaseClean'
  BY <1>15 DEF ReadNothing
<1>16. ASSUME NEW r \in Readers, ReadAge(r) PROVE PhaseClean'
  BY <1>16 DEF ReadAge
<1>17. ASSUME NEW r \in Readers, CopyOut(r) PROVE PhaseClean'
  BY <1>17 DEF CopyOut
<1>18. ASSUME NEW r \in Readers, Accept(r) PROVE PhaseClean'
  BY <1>18 DEF Accept
<1>19. ASSUME NEW r \in Readers, Reject(r) PROVE PhaseClean'
  BY <1>19 DEF Reject
<1>20. ASSUME NEW r \in Readers, Close(r) PROVE PhaseClean'
  BY <1>20 DEF Close
<1>21. CASE UNCHANGED vars
  BY <1>21 DEF vars, writer, history
<1> QED
  BY <1>1, <1>2, <1>3, <1>4, <1>5, <1>6, <1>7, <1>8, <1>9, <1>10, <1>11, <1>12, <1>13, <1>14, <1>15, <1>16, <1>17, <1>18, <1>19, <1>20, <1>21 DEF Next, Writer, Reader, Read

\* The slot being written carries no age and only words of the new block.
LEMMA SlotBeingWrittenStep ==
  ASSUME TypeOK, PhaseClean, SlotBeingWritten, [Next]_vars PROVE SlotBeingWritten'
<1> USE DEF SlotBeingWritten, TypeOK, shared, writer, history
<1>1. CASE Rewind
  BY <1>1 DEF Rewind
<1>2. CASE ResetAge
  BY <1>2 DEF ResetAge
<1>3. CASE ClearAge
  BY <1>3 DEF ClearAge
<1>4. CASE TsDataTransfer
  BY <1>4 DEF TsDataTransfer
<1>5. CASE Mark
  BY <1>5 DEF Mark
<1>6. ASSUME NEW w \in Words, CopyIn(w) PROVE SlotBeingWritten'
  BY <1>6 DEF CopyIn
<1>7. CASE Stamp
  BY <1>7 DEF Stamp
<1>8. CASE Bump
  BY <1>8 DEF Bump
<1>9. CASE Advance
  BY <1>9 DEF Advance
<1>10. ASSUME NEW s \in Sizes, Resize(s) PROVE SlotBeingWritten'
  BY <1>10 DEF Resize
<1>11. CASE Crash
  BY <1>11 DEF Crash
<1>12. CASE Restart
  BY <1>12 DEF Restart
<1>13. ASSUME NEW r \in Readers, OpenIndex(r) PROVE SlotBeingWritten'
  BY <1>13 DEF OpenIndex
<1>14. ASSUME NEW r \in Readers, OpenAge(r) PROVE SlotBeingWritten'
  BY <1>14 DEF OpenAge
<1>15. ASSUME NEW r \in Readers, ReadNothing(r) PROVE SlotBeingWritten'
  BY <1>15 DEF ReadNothing
<1>16. ASSUME NEW r \in Readers, ReadAge(r) PROVE SlotBeingWritten'
  BY <1>16 DEF ReadAge
<1>17. ASSUME NEW r \in Readers, CopyOut(r) PROVE SlotBeingWritten'
  BY <1>17 DEF CopyOut
<1>18. ASSUME NEW r \in Readers, Accept(r) PROVE SlotBeingWritten'
  BY <1>18 DEF Accept
<1>19. ASSUME NEW r \in Readers, Reject(r) PROVE SlotBeingWritten'
  BY <1>19 DEF Reject
<1>20. ASSUME NEW r \in Readers, Close(r) PROVE SlotBeingWritten'
  BY <1>20 DEF Close
<1>21. CASE UNCHANGED vars
  BY <1>21 DEF vars, writer, history
<1> QED
  BY <1>1, <1>2, <1>3, <1>4, <1>5, <1>6, <1>7, <1>8, <1>9, <1>10, <1>11, <1>12, <1>13, <1>14, <1>15, <1>16, <1>17, <1>18, <1>19, <1>20, <1>21 DEF Next, Writer, Reader, Read

\* Slots with an age stay whole.
LEMMA SlotsWholeStep ==
  ASSUME TypeOK, PhaseClean, SlotBeingWritten, SlotsWhole, [Next]_vars PROVE SlotsWhole'
<1> USE DEF SlotsWhole, SlotBeingWritten, PhaseClean, Whole, Settled, TypeOK, Slots, shared, writer, history
<1>1. CASE Rewind
  BY <1>1 DEF Rewind
<1>2. CASE ResetAge
  BY <1>2 DEF ResetAge
<1>3. CASE ClearAge
  <2>1. ~clean
    BY <1>3 DEF ClearAge
  <2>2. CASE cleared + 1 < NBlocks
    BY <1>3, <2>1, <2>2 DEF ClearAge
  <2>3. CASE ~(cleared + 1 < NBlocks)
    <3>1. \A i \in Slots : age'[i] = 0
      BY <1>3, <2>3, RingAssumption DEF ClearAge
    <3> QED
      BY <1>3, <3>1 DEF ClearAge
  <2> QED
    BY <2>2, <2>3
<1>4. CASE TsDataTransfer
  BY <1>4 DEF TsDataTransfer
<1>5. CASE Mark
  BY <1>5 DEF Mark
<1>6. ASSUME NEW w \in Words, CopyIn(w) PROVE SlotsWhole'
  BY <1>6 DEF CopyIn
<1>7. CASE Stamp
  BY <1>7 DEF Stamp
<1>8. CASE Bump
  <2>1. clean
    BY <1>8 DEF Bump
  <2>2. \A i \in Slots : age[i] \in Nat /\ age[i] <= currentage
    BY <2>1
  <2>3. \A i \in Slots : age'[i] = age[i] /\ data'[i] = data[i]
    BY <1>8 DEF Bump
  <2>4. currentage \in Nat /\ currentage' = currentage + 1 /\ epoch' = epoch /\ clean' = clean
    BY <1>8 DEF Bump
  <2>5. \A i \in Slots : age'[i] <= currentage' /\ age'[i] < currentage'
    BY <2>2, <2>3, <2>4
  <2>6. \A i \in Slots : age'[i] # 0 => Whole(data[i], epoch, age[i])
    BY <2>1, <2>3
  <2> QED
    BY <2>3, <2>4, <2>5, <2>6
<1>9. CASE Advance
  BY <1>9 DEF Advance
<1>10. ASSUME NEW s \in Sizes, Resize(s) PROVE SlotsWhole'
  BY <1>10 DEF Resize
<1>11. CASE Crash
  BY <1>11 DEF Crash
<1>12. CASE Restart
  BY <1>12 DEF Restart
<1>13. ASSUME NEW r \in Readers, OpenIndex(r) PROVE SlotsWhole'
  BY <1>13 DEF OpenIndex
<1>14. ASSUME NEW r \in Readers, OpenAge(r) PROVE SlotsWhole'
  BY <1>14 DEF OpenAge
<1>15. ASSUME NEW r \in Readers, ReadNothing(r) PROVE SlotsWhole'
  BY <1>15 DEF ReadNothing
<1>16. ASSUME NEW r \in Readers, ReadAge(r) PROVE SlotsWhole'
  BY <1>16 DEF ReadAge
<1>17. ASSUME NEW r \in Readers, CopyOut(r) PROVE SlotsWhole'
  BY <1>17 DEF CopyOut
<1>18. ASSUME NEW r \in Readers, Accept(r) PROVE SlotsWhole'
  BY <1>18 DEF Accept
<1>19. ASSUME NEW r \in Readers, Reject(r) PROVE SlotsWhole'
  BY <1>19 DEF Reject
<1>20. ASSUME NEW r \in Readers, Close(r) PROVE SlotsWhole'
  BY <1>20 DEF Close
<1>21. CASE UNCHANGED vars
  BY <1>21 DEF vars, writer, history
<1> QED
  BY <1>1, <1>2, <1>3, <1>4, <1>5, <1>6, <1>7, <1>8, <1>9, <1>10, <1>11, <1>12, <1>13, <1>14, <1>15, <1>16, <1>17, <1>18, <1>19, <1>20, <1>21 DEF Next, Writer, Reader, Read

\* A step that touches nothing a spy's copy depends on leaves the copy sound.
LEMMA CopyUntouched ==
  ASSUME NEW q \in Readers, TypeOK, CopySound(q),
         UNCHANGED <<age, currentage, wpc, epoch, clean>>,
         current_age'[q] = current_age[q], next_index'[q] = next_index[q],
         buf'[q] = buf[q], word'[q] = word[q], rpc'[q] = rpc[q], calm'[q] = calm[q]
  PROVE  CopySound(q)'
BY DEF CopySound

\* No step of one spy disturbs the copy of another.
LEMMA SpyCopyingOther ==
  ASSUME TypeOK, SpyCopying, NEW r \in Readers, Reader(r), NEW q \in Readers, q # r
  PROVE  CopySound(q)'
<1>1. CopySound(q)
  BY DEF SpyCopying
<1>2. UNCHANGED <<age, currentage, wpc, epoch, clean>>
  BY DEF Reader, OpenIndex, OpenAge, Read, ReadNothing, ReadAge, CopyOut, Accept, Reject, Close, shared, writer, history
<1>3. current_age'[q] = current_age[q] /\ next_index'[q] = next_index[q]
  BY DEF Reader, OpenIndex, OpenAge, Read, ReadNothing, ReadAge, CopyOut, Accept, Reject, Close, history, TypeOK
<1>4. buf'[q] = buf[q] /\ word'[q] = word[q]
  BY DEF Reader, OpenIndex, OpenAge, Read, ReadNothing, ReadAge, CopyOut, Accept, Reject, Close, history, TypeOK
<1>5. rpc'[q] = rpc[q] /\ calm'[q] = calm[q]
  BY DEF Reader, OpenIndex, OpenAge, Read, ReadNothing, ReadAge, CopyOut, Accept, Reject, Close, history, TypeOK
<1> QED
  BY <1>1, <1>2, <1>3, <1>4, <1>5, CopyUntouched

\* The copy a spy is making stays that of the block it loaded the age of.
LEMMA SpyCopyingOwn ==
  ASSUME TypeOK, SlotsWhole, SpyCopying, NEW r \in Readers, Reader(r)
  PROVE  CopySound(r)'
<1> USE DEF TypeOK
<1>1. CASE OpenIndex(r) \/ OpenAge(r) \/ ReadNothing(r) \/ Accept(r) \/ Reject(r) \/ Close(r)
  <2>1. rpc'[r] \notin {"copy", "check"}
    BY <1>1 DEF OpenIndex, OpenAge, ReadNothing, Accept, Reject, Close
  <2> QED
    BY <2>1 DEF CopySound
<1>2. CASE ReadAge(r)
  <2>1. /\ current_age'[r] = age[next_index[r]] /\ age[next_index[r]] # 0
        /\ word'[r] = 0 /\ rpc'[r] = "copy" /\ calm'[r] = clean
    BY <1>2 DEF ReadAge, Readable
  <2>2. next_index[r] \in Slots /\ 0 < NWords
    BY RingAssumption
  <2>3. clean => /\ current_age'[r] <= currentage
                 /\ wpc \in Settled => current_age'[r] < currentage
    BY <2>1, <2>2 DEF SlotsWhole
  <2>4. UNCHANGED <<currentage, wpc, clean>>
    BY <1>2 DEF ReadAge, shared, writer
  <2>5. \A w \in Words : ~(w < word'[r])
    BY <2>1, RingAssumption DEF Words
  <2> QED
    BY <2>1, <2>2, <2>3, <2>4, <2>5 DEF CopySound
<1>3. CASE CopyOut(r)
  <2>1. word[r] \in Words /\ word[r] < NWords
    BY <1>3, RingAssumption DEF CopyOut, SpyCopying, CopySound, Words
  <2>2. /\ word'[r] = word[r] + 1
        /\ rpc'[r] = IF word[r] + 1 = NWords THEN "check" ELSE "copy"
        /\ buf'[r] = [buf[r] EXCEPT ![word[r]] = data[next_index[r]][word[r]]]
    BY <1>3 DEF CopyOut
  <2>3. calm[r] /\ age[next_index[r]] = current_age[r] =>
          data[next_index[r]][word[r]] = <<epoch, current_age[r]>>
    BY <1>3, <2>1 DEF CopyOut, SpyCopying, CopySound, SlotsWhole, Whole
  <2>4. calm[r] /\ age[next_index[r]] = current_age[r] =>
          \A w \in Words : w < word'[r] => buf'[r][w] = <<epoch, current_age[r]>>
    <3>1. SUFFICES ASSUME calm[r], age[next_index[r]] = current_age[r],
                          NEW w \in Words, w < word'[r]
                   PROVE  buf'[r][w] = <<epoch, current_age[r]>>
      OBVIOUS
    <3>2. CASE w = word[r]
      <4>1. data[next_index[r]][word[r]] = <<epoch, current_age[r]>>
        BY <2>3, <3>1
      <4>2. buf[r] \in [Words -> Stamps]
        OBVIOUS
      <4>3. buf'[r][word[r]] = data[next_index[r]][word[r]]
        BY <2>1, <2>2, <4>2
      <4> QED
        BY <3>2, <4>1, <4>3
    <3>3. CASE w # word[r]
      <4>1. w < word[r]
        BY <2>1, <2>2, <3>1, <3>3, RingAssumption DEF Words
      <4>2. buf[r][w] = <<epoch, current_age[r]>>
        BY <1>3, <3>1, <4>1 DEF CopyOut, SpyCopying, CopySound
      <4> QED
        BY <2>1, <2>2, <3>3, <4>2
    <3> QED
      BY <3>2, <3>3
  <2>5. UNCHANGED <<age, currentage, next_index, current_age, calm, wpc, epoch, clean>>
    BY <1>3 DEF CopyOut, shared, writer, history
  <2>6. /\ rpc'[r] = "copy" => word'[r] < NWords
        /\ rpc'[r] = "check" => word'[r] = NWords
    <3> HIDE DEF TypeOK
    <3>1. word[r] \in Nat /\ NWords \in Nat
      BY <2>1, RingAssumption DEF Words
    <3>2. CASE word[r] + 1 = NWords
      BY <2>2, <3>2
    <3>3. CASE word[r] + 1 # NWords
      BY <2>1, <2>2, <3>1, <3>3
    <3> QED
      BY <3>2, <3>3
  <2>7. rpc[r] = "copy" /\ CopySound(r)
    BY <1>3 DEF CopyOut, SpyCopying
  <2> QED
    BY <2>4, <2>5, <2>6, <2>7 DEF CopySound
<1> QED
  BY <1>1, <1>2, <1>3 DEF Reader, Read

\* A copying spy's words stay those of the block it loaded the age of.
LEMMA SpyCopyingStep ==
  ASSUME TypeOK, PhaseClean, SlotBeingWritten, SlotsWhole, SpyCopying, [Next]_vars
  PROVE SpyCopying'
<1>1. ASSUME NEW r \in Readers, Reader(r) PROVE SpyCopying'
  <2>1. \A q \in Readers : CopySound(q)'
    BY <1>1, SpyCopyingOwn, SpyCopyingOther
  <2> QED
    BY <2>1 DEF SpyCopying
<1> USE DEF SpyCopying, CopySound, SlotsWhole, SlotBeingWritten, PhaseClean, Whole, Settled, TypeOK, Slots, Words, shared, writer, reader, history
<1>2. CASE Rewind
  BY <1>2 DEF Rewind
<1>3. CASE ResetAge
  BY <1>3 DEF ResetAge
<1>4. CASE ClearAge
  BY <1>4 DEF ClearAge
<1>5. CASE TsDataTransfer
  BY <1>5 DEF TsDataTransfer
<1>6. CASE Mark
  BY <1>6 DEF Mark
<1>7. ASSUME NEW w \in Words, CopyIn(w) PROVE SpyCopying'
  BY <1>7 DEF CopyIn
<1>8. CASE Stamp
  BY <1>8 DEF Stamp
<1>9. CASE Bump
  BY <1>9 DEF Bump
<1>10. CASE Advance
  BY <1>10 DEF Advance
<1>11. ASSUME NEW s \in Sizes, Resize(s) PROVE SpyCopying'
  BY <1>11 DEF Resize
<1>12. CASE Crash
  BY <1>12 DEF Crash
<1>13. CASE Restart
  BY <1>13 DEF Restart
<1>14. CASE UNCHANGED vars
  BY <1>14 DEF vars, writer, history
<1> QED
  BY <1>1, <1>2, <1>3, <1>4, <1>5, <1>6, <1>7, <1>8, <1>9, <1>10, <1>11, <1>12, <1>13, <1>14 DEF Next, Writer

\* What is accepted is whole.
LEMMA AcceptedIntactStep ==
  ASSUME TypeOK, SpyCopying, AcceptedIntact, [Next]_vars PROVE AcceptedIntact'
<1> USE DEF AcceptedIntact, SpyCopying, CopySound, Whole, Words, TypeOK, shared, writer, reader, history
<1>1. CASE Rewind
  BY <1>1 DEF Rewind
<1>2. CASE ResetAge
  BY <1>2 DEF ResetAge
<1>3. CASE ClearAge
  BY <1>3 DEF ClearAge
<1>4. CASE TsDataTransfer
  BY <1>4 DEF TsDataTransfer
<1>5. CASE Mark
  BY <1>5 DEF Mark
<1>6. ASSUME NEW w \in Words, CopyIn(w) PROVE AcceptedIntact'
  BY <1>6 DEF CopyIn
<1>7. CASE Stamp
  BY <1>7 DEF Stamp
<1>8. CASE Bump
  BY <1>8 DEF Bump
<1>9. CASE Advance
  BY <1>9 DEF Advance
<1>10. ASSUME NEW s \in Sizes, Resize(s) PROVE AcceptedIntact'
  BY <1>10 DEF Resize
<1>11. CASE Crash
  BY <1>11 DEF Crash
<1>12. CASE Restart
  BY <1>12 DEF Restart
<1>13. ASSUME NEW r \in Readers, OpenIndex(r) PROVE AcceptedIntact'
  BY <1>13 DEF OpenIndex
<1>14. ASSUME NEW r \in Readers, OpenAge(r) PROVE AcceptedIntact'
  BY <1>14 DEF OpenAge
<1>15. ASSUME NEW r \in Readers, ReadNothing(r) PROVE AcceptedIntact'
  BY <1>15 DEF ReadNothing
<1>16. ASSUME NEW r \in Readers, ReadAge(r) PROVE AcceptedIntact'
  BY <1>16 DEF ReadAge
<1>17. ASSUME NEW r \in Readers, CopyOut(r) PROVE AcceptedIntact'
  BY <1>17 DEF CopyOut
<1>18. ASSUME NEW r \in Readers, Accept(r) PROVE AcceptedIntact'
  BY <1>18 DEF Accept
<1>19. ASSUME NEW r \in Readers, Reject(r) PROVE AcceptedIntact'
  BY <1>19 DEF Reject
<1>20. ASSUME NEW r \in Readers, Close(r) PROVE AcceptedIntact'
  BY <1>20 DEF Close
<1>21. CASE UNCHANGED vars
  BY <1>21 DEF vars, writer, history
<1> QED
  BY <1>1, <1>2, <1>3, <1>4, <1>5, <1>6, <1>7, <1>8, <1>9, <1>10, <1>11, <1>12, <1>13, <1>14, <1>15, <1>16, <1>17, <1>18, <1>19, <1>20, <1>21 DEF Next, Writer, Reader, Read

\* The initial state satisfies the inductive invariant.
LEMMA CopyInvInit == Init => CopyInv
  BY InitTypeOK DEF Init, CopyInv, PhaseClean, SlotBeingWritten, SlotsWhole, SpyCopying, CopySound,
    AcceptedIntact, Settled

\* The inductive invariant is preserved by every step.
LEMMA CopyInvStep == CopyInv /\ [Next]_vars => CopyInv'
  BY TypeOKStep, PhaseCleanStep, SlotBeingWrittenStep, SlotsWholeStep, SpyCopyingStep,
    AcceptedIntactStep DEF CopyInv

\* The invariant holds in every reachable state.
THEOREM CopyInvHolds == Spec => []CopyInv
<1>1. Init => CopyInv
  BY CopyInvInit
<1>2. CopyInv /\ [Next]_vars => CopyInv'
  BY CopyInvStep
<1> QED
  BY <1>1, <1>2, PTL DEF Spec

\* The types of the ring, the sink and the spies hold for every ring size,
\* block size, number of spies and number of restarts.
THEOREM TypeCorrect == Spec => []TypeOK
<1>1. CopyInv => TypeOK
  BY DEF CopyInv
<1> QED
  BY <1>1, CopyInvHolds, PTL

\* A block dataSpyRead accepts was copied whole, however the sink and the spies
\* interleave their accesses, unless the area was initialised during the copy.
THEOREM AcceptedBlocksIntact == Spec => []AcceptedIntact
<1>1. CopyInv => AcceptedIntact
  BY DEF CopyInv
<1> QED
  BY <1>1, CopyInvHolds, PTL

-----------------------------------------------------------------------------
(* The slots of successive ages                                             *)

\* Every age has a slot of the ring.
LEMMA SlotOfInSlots == ASSUME NEW a \in Int PROVE SlotOf(a) \in Slots
  BY DivMod, RingAssumption DEF SlotOf, Slots

\* Block 0 goes to slot 0.
LEMMA SlotOfZero == SlotOf(0) = 0
<1>1. 0 \in 0 .. NBlocks - 1 /\ NBlocks * 0 + 0 = 0
  BY RingAssumption
<1>2. (NBlocks * 0 + 0) % NBlocks = 0
  BY <1>1, DivModOfSum, RingAssumption
<1> QED
  BY <1>1, <1>2 DEF SlotOf

\* The next block goes to the next slot.
LEMMA SlotOfNext == ASSUME NEW a \in Int PROVE SlotOf(a + 1) = Succ(SlotOf(a))
<1> DEFINE q == a \div NBlocks
           s == a % NBlocks
<1>1. a = NBlocks * q + s /\ q \in Int /\ s \in 0 .. NBlocks - 1
  BY DivMod, RingAssumption
<1> HIDE DEF q, s
<1>2. CASE s + 1 = NBlocks
  <2>1. a + 1 = NBlocks * (q + 1) + 0
    BY <1>1, <1>2, RingAssumption, SMT
  <2>2. q + 1 \in Int /\ 0 \in 0 .. NBlocks - 1
    BY <1>1, RingAssumption
  <2>3. (NBlocks * (q + 1) + 0) % NBlocks = 0
    BY <2>2, DivModOfSum, RingAssumption
  <2> QED
    BY <1>2, <2>1, <2>3 DEF s, SlotOf, Succ
<1>3. CASE s + 1 # NBlocks
  <2>1. a + 1 = NBlocks * q + (s + 1) /\ s + 1 \in 0 .. NBlocks - 1
    BY <1>1, <1>3, RingAssumption, SMT
  <2>2. (NBlocks * q + (s + 1)) % NBlocks = s + 1
    BY <1>1, <2>1, DivModOfSum, RingAssumption
  <2>3. (a + 1) % NBlocks = s + 1
    BY <2>1, <2>2
  <2> QED
    BY <1>3, <2>3 DEF s, SlotOf, Succ
<1> QED
  BY <1>2, <1>3

\* Two blocks of the same slot are a whole lap apart.
LEMMA SlotOfApart ==
  ASSUME NEW a \in Int, NEW b \in Int, SlotOf(a) = SlotOf(b), a < b
  PROVE  a + NBlocks <= b
<1> DEFINE q == a \div NBlocks
           p == b \div NBlocks
           s == a % NBlocks
<1>1. /\ a = NBlocks * q + s /\ b = NBlocks * p + s
      /\ q \in Int /\ p \in Int /\ s \in Int /\ NBlocks \in Nat /\ NBlocks >= 2
  BY DivMod, RingAssumption DEF SlotOf
<1> HIDE DEF q, p, s
<1>2. b - a = NBlocks * (p - q)
  BY <1>1, SMT
<1>3. p - q >= 1
  BY <1>1, <1>2, SMT
<1>4. NBlocks * (p - q) >= NBlocks
  BY <1>1, <1>3, SMT
<1> QED
  BY <1>1, <1>2, <1>4, SMT

\* A block and the one a lap before it share a slot.
LEMMA SlotOfLap == ASSUME NEW a \in Int PROVE SlotOf(a - NBlocks) = SlotOf(a)
<1> DEFINE q == a \div NBlocks
           s == a % NBlocks
<1>1. a = NBlocks * q + s /\ q \in Int /\ s \in 0 .. NBlocks - 1 /\ NBlocks \in Nat
  BY DivMod, RingAssumption
<1> HIDE DEF q, s
<1>2. a - NBlocks = NBlocks * (q - 1) + s
  BY <1>1, SMT
<1>3. q - 1 \in Int
  BY <1>1
<1>4. (NBlocks * (q - 1) + s) % NBlocks = s
  BY <1>1, <1>3, DivModOfSum, RingAssumption
<1> QED
  BY <1>2, <1>4 DEF s, SlotOf

\* Among any NBLOCKS successive blocks there is one of each slot.
LEMMA SlotOfHit ==
  ASSUME NEW m \in Int, NEW i \in Slots
  PROVE  \E a \in m - NBlocks + 1 .. m : SlotOf(a) = i
<1> DEFINE q == m \div NBlocks
           s == m % NBlocks
<1>1. /\ m = NBlocks * q + s /\ q \in Int /\ s \in 0 .. NBlocks - 1
      /\ i \in 0 .. NBlocks - 1 /\ NBlocks \in Nat /\ NBlocks >= 2
  BY DivMod, RingAssumption DEF Slots
<1> HIDE DEF q, s
<1>2. CASE i <= s
  <2>1. NBlocks * q + i \in m - NBlocks + 1 .. m
    BY <1>1, <1>2, SMT
  <2>2. SlotOf(NBlocks * q + i) = i
    BY <1>1, DivModOfSum DEF SlotOf
  <2> QED
    BY <2>1, <2>2
<1>3. CASE i > s
  <2>1. NBlocks * (q - 1) + i \in m - NBlocks + 1 .. m /\ q - 1 \in Int
    BY <1>1, <1>3, SMT
  <2>2. SlotOf(NBlocks * (q - 1) + i) = i
    BY <1>1, <2>1, DivModOfSum DEF SlotOf
  <2> QED
    BY <2>1, <2>2
<1> QED
  BY <1>1, <1>2, <1>3

-----------------------------------------------------------------------------
(* Who writes what                                                          *)

\* No step of a spy writes the ring or the sink.
LEMMA ReaderLeavesRing ==
  ASSUME NEW r \in Readers, Reader(r)
  PROVE  UNCHANGED <<shared, writer, epoch, clean, stored>>
BY DEF Reader, OpenIndex, OpenAge, Read, ReadNothing, ReadAge, CopyOut, Accept, Reject, Close, history

\* A step of the sink writes a spy's history only when it starts a new epoch.
LEMMA WriterLeavesSpies ==
  ASSUME Writer, ~Rewind
  PROVE  UNCHANGED <<reader, calm, last, instep>>
BY DEF Writer, Rewind, ResetAge, ClearAge, TsDataTransfer, Mark, CopyIn, Stamp, Bump, Advance,
       Resize, Crash, Restart, history

\* What a spy's step changes is its own.
LEMMA ReaderLeavesOthers ==
  ASSUME TypeOK, NEW r \in Readers, Reader(r), NEW q \in Readers, q # r
  PROVE  /\ rpc'[q] = rpc[q] /\ next_index'[q] = next_index[q]
         /\ current_age'[q] = current_age[q] /\ calm'[q] = calm[q]
         /\ last'[q] = last[q] /\ instep'[q] = instep[q]
BY DEF Reader, OpenIndex, OpenAge, Read, ReadNothing, ReadAge, CopyOut, Accept, Reject, Close, history, TypeOK

\* Within an epoch the stored age never falls and a clean area stays clean.
LEMMA StoredGrows ==
  ASSUME TypeOK, PhaseClean, StoreProgress, Writer, ~Rewind
  PROVE  stored' \in Int /\ stored' >= stored /\ (clean => clean')
<1>1. CASE Stamp
  <2>1. clean /\ clean' /\ stored = currentage - 1 /\ stored' = currentage /\ currentage \in Nat
    BY <1>1 DEF Stamp, PhaseClean, StoreProgress, Settled, TypeOK
  <2> QED
    BY <2>1
<1>2. CASE ~Stamp
  BY <1>2 DEF TypeOK, Writer, Rewind, ResetAge, ClearAge, TsDataTransfer, Mark, CopyIn, Bump, Advance,
       Resize, Crash, Restart, history
<1> QED
  BY <1>1, <1>2

-----------------------------------------------------------------------------
(* One lemma per conjunct of FeedInv                                        *)

\* next, currentage and the newest stored age stay in step.
LEMMA StoreProgressStep ==
  ASSUME TypeOK, PhaseClean, StoreProgress, [Next]_vars PROVE StoreProgress'
<1>1. CASE UNCHANGED <<next, currentage, wpc, clean, stored>>
  BY <1>1 DEF StoreProgress
<1>2. ASSUME NEW r \in Readers, Reader(r) PROVE StoreProgress'
  BY <1>1, <1>2, ReaderLeavesRing DEF shared, writer
<1> USE DEF StoreProgress, TypeOK, shared, writer, history
<1>3. CASE Rewind
  BY <1>3 DEF Rewind
<1>4. CASE ResetAge
  BY <1>4 DEF ResetAge, PhaseClean
<1>5. CASE ClearAge
  <2>1. ~clean /\ stored = -1 /\ next = 0 /\ currentage = 0
    BY <1>5 DEF ClearAge, PhaseClean
  <2>2. wpc' \in {"clear", "mark", "idle"} /\ (wpc' # "clear" => clean') /\ (wpc' = "clear" => clean' = clean)
    BY <1>5 DEF ClearAge
  <2>3. UNCHANGED <<stored, next, currentage>>
    BY <1>5 DEF ClearAge
  <2> QED
    BY <2>1, <2>2, <2>3, SlotOfZero
<1>6. CASE TsDataTransfer
  BY <1>6 DEF TsDataTransfer, PhaseClean, Settled
<1>7. CASE Mark
  BY <1>7 DEF Mark, PhaseClean, Settled
<1>8. ASSUME NEW w \in Words, CopyIn(w) PROVE StoreProgress'
  BY <1>8 DEF CopyIn, PhaseClean, Settled
<1>9. CASE Stamp
  BY <1>9 DEF Stamp, PhaseClean, Settled
<1>10. CASE Bump
  <2>1. clean /\ stored = currentage /\ next = SlotOf(currentage)
    BY <1>10 DEF Bump, PhaseClean
  <2>2. wpc' = "advance" /\ currentage' = currentage + 1 /\ UNCHANGED <<stored, next, clean>>
    BY <1>10 DEF Bump
  <2>3. stored' = currentage' - 1 /\ next' = SlotOf(stored')
    BY <2>1, <2>2
  <2> QED
    BY <2>1, <2>2, <2>3
<1>11. CASE Advance
  <2>1. clean /\ stored = currentage - 1 /\ next = SlotOf(stored) /\ currentage = stored + 1 /\ stored \in Int
    BY <1>11 DEF Advance, PhaseClean, Settled
  <2>2. wpc' = "idle" /\ next' = Succ(next) /\ UNCHANGED <<stored, currentage, clean>>
    BY <1>11 DEF Advance
  <2>3. next' = SlotOf(currentage')
    BY <2>1, <2>2, SlotOfNext
  <2> QED
    BY <2>1, <2>2, <2>3
<1>12. ASSUME NEW s \in Sizes, Resize(s) PROVE StoreProgress'
  BY <1>12, <1>1 DEF Resize
<1>13. CASE Crash
  BY <1>13 DEF Crash
<1>14. CASE Restart
  BY <1>14 DEF Restart
<1>15. CASE UNCHANGED vars
  BY <1>15, <1>1 DEF vars, writer, history
<1> QED
  BY <1>2, <1>3, <1>4, <1>5, <1>6, <1>7, <1>8, <1>9, <1>10, <1>11, <1>12, <1>13, <1>14, <1>15 DEF Next, Writer

\* A stamped slot belongs to its block and to the last NBLOCKS.
LEMMA SlotsInPlaceStep ==
  ASSUME TypeOK, PhaseClean, SlotBeingWritten, StoreProgress, SlotsInPlace, [Next]_vars
  PROVE  SlotsInPlace'
<1>1. CASE UNCHANGED <<age, clean, stored>>
  BY <1>1 DEF SlotsInPlace
<1>2. ASSUME NEW r \in Readers, Reader(r) PROVE SlotsInPlace'
  BY <1>1, <1>2, ReaderLeavesRing DEF shared
<1>3. CASE Rewind
  BY <1>3 DEF Rewind, SlotsInPlace
<1>4. CASE ClearAge
  <2>1. CASE cleared + 1 < NBlocks
    BY <1>4, <2>1 DEF ClearAge, PhaseClean, SlotsInPlace
  <2>2. CASE ~(cleared + 1 < NBlocks)
    <3>1. \A i \in Slots : age'[i] = 0
      BY <1>4, <2>2, RingAssumption DEF ClearAge, PhaseClean, Slots, TypeOK
    <3> QED
      BY <3>1 DEF SlotsInPlace
  <2> QED
    BY <2>1, <2>2
<1>5. CASE Mark
  <2>1. \A i \in Slots : age'[i] # 0 => age'[i] = age[i]
    BY <1>5 DEF Mark, TypeOK
  <2>2. UNCHANGED <<clean, stored>>
    BY <1>5 DEF Mark, history
  <2> QED
    BY <2>1, <2>2 DEF SlotsInPlace
<1>6. CASE Stamp
  <2>1. /\ clean /\ clean' = clean /\ stored = currentage - 1 /\ next = SlotOf(currentage)
        /\ stored' = currentage /\ currentage \in Nat
    BY <1>6 DEF Stamp, PhaseClean, StoreProgress, Settled, TypeOK
  <2>2. SUFFICES ASSUME NEW i \in Slots, age'[i] # 0
                 PROVE  age'[i] \in currentage - NBlocks + 1 .. currentage /\ SlotOf(age'[i]) = i
    BY <2>1 DEF SlotsInPlace
  <2>3. CASE i = next
    <3>1. age'[i] = currentage
      BY <1>6, <2>3 DEF Stamp, TypeOK
    <3> QED
      BY <2>1, <2>3, <3>1, RingAssumption
  <2>4. CASE i # next
    <3>1. age'[i] = age[i] /\ age[i] \in Nat
      BY <1>6, <2>4 DEF Stamp, TypeOK
    <3>2. age[i] \in currentage - NBlocks .. currentage - 1 /\ SlotOf(age[i]) = i
      BY <2>1, <2>2, <3>1, RingAssumption DEF SlotsInPlace
    <3>3. age[i] # currentage - NBlocks
      <4>1. SUFFICES ASSUME age[i] = currentage - NBlocks PROVE FALSE
        OBVIOUS
      <4> QED
        BY <2>1, <2>4, <3>2, <4>1, SlotOfLap, RingAssumption
    <3> QED
      BY <2>1, <3>1, <3>2, <3>3, RingAssumption
  <2> QED
    BY <2>3, <2>4
<1>7. CASE UNCHANGED vars
  BY <1>1, <1>7 DEF vars, shared, history
<1>8. CASE ResetAge \/ TsDataTransfer \/ (\E w \in Words : CopyIn(w)) \/ Bump \/ Advance
           \/ (\E s \in Sizes : Resize(s)) \/ Crash \/ Restart
  BY <1>1, <1>8 DEF ResetAge, TsDataTransfer, CopyIn, Bump, Advance, Resize, Crash, Restart, shared, history
<1> QED
  BY <1>2, <1>3, <1>4, <1>5, <1>6, <1>7, <1>8 DEF Next, Writer

\* The last NBLOCKS blocks stay in the ring until their slot is taken.
LEMMA LastBlocksThereStep ==
  ASSUME TypeOK, PhaseClean, StoreProgress, LastBlocksThere, [Next]_vars
  PROVE  LastBlocksThere'
<1>1. CASE /\ UNCHANGED <<age, clean, stored>>
           /\ wpc \in {"copy", "stamp", "down", "rewind"} => wpc' \in {"copy", "stamp", "down", "rewind"}
  BY <1>1 DEF LastBlocksThere
<1>2. ASSUME NEW r \in Readers, Reader(r) PROVE LastBlocksThere'
  BY <1>1, <1>2, ReaderLeavesRing DEF shared, writer
<1>3. CASE Rewind
  BY <1>3 DEF Rewind, LastBlocksThere
<1>4. CASE ClearAge
  <2>1. stored' = -1
    BY <1>4 DEF ClearAge, PhaseClean, StoreProgress
  <2>2. \A a \in stored' - NBlocks + 1 .. stored' : ~(a >= 1)
    BY <2>1, RingAssumption
  <2> QED
    BY <2>2 DEF LastBlocksThere
<1>5. CASE Mark
  <2>1. /\ clean /\ clean' = clean /\ stored = currentage - 1 /\ next = SlotOf(currentage)
        /\ stored' = stored /\ currentage \in Nat /\ wpc' = "copy" /\ wpc = "mark"
    BY <1>5 DEF Mark, PhaseClean, StoreProgress, Settled, TypeOK, history
  <2>2. SUFFICES ASSUME NEW a \in stored - NBlocks + 1 .. stored, a >= 1
                 PROVE  age'[SlotOf(a)] = a \/ a = stored - NBlocks + 1
    BY <2>1 DEF LastBlocksThere
  <2>3. a \in Int /\ a < currentage /\ age[SlotOf(a)] = a
    BY <2>1, <2>2, RingAssumption DEF LastBlocksThere
  <2>4. CASE SlotOf(a) = next
    <3>1. a + NBlocks <= currentage
      BY <2>1, <2>3, <2>4, SlotOfApart
    <3> QED
      BY <2>1, <2>2, <3>1, RingAssumption
  <2>5. CASE SlotOf(a) # next
    BY <1>5, <2>3, <2>5 DEF Mark, TypeOK
  <2> QED
    BY <2>4, <2>5
<1>6. CASE Stamp
  <2>1. /\ clean /\ clean' = clean /\ stored = currentage - 1 /\ next = SlotOf(currentage)
        /\ stored' = currentage /\ currentage \in Nat
    BY <1>6 DEF Stamp, PhaseClean, StoreProgress, Settled, TypeOK
  <2>2. SUFFICES ASSUME NEW a \in currentage - NBlocks + 1 .. currentage, a >= 1
                 PROVE  age'[SlotOf(a)] = a
    BY <2>1 DEF LastBlocksThere
  <2>3. CASE a = currentage
    BY <1>6, <2>1, <2>3 DEF Stamp, TypeOK
  <2>4. CASE a # currentage
    <3>1. a \in stored - NBlocks + 1 .. stored /\ a # stored - NBlocks + 1 /\ a \in Int /\ a < currentage
      BY <2>1, <2>2, <2>4, RingAssumption
    <3>2. age[SlotOf(a)] = a
      BY <2>1, <2>2, <3>1 DEF LastBlocksThere
    <3>3. SlotOf(a) # next
      <4>1. SUFFICES ASSUME SlotOf(a) = SlotOf(currentage) PROVE FALSE
        BY <2>1
      <4>2. a + NBlocks <= currentage
        BY <2>1, <3>1, <4>1, SlotOfApart
      <4> QED
        BY <2>1, <3>1, <4>2, RingAssumption
    <3> QED
      BY <1>6, <3>2, <3>3 DEF Stamp, TypeOK
  <2> QED
    BY <2>3, <2>4
<1>7. CASE UNCHANGED vars
  BY <1>1, <1>7 DEF vars, shared, writer, history
<1>8. CASE ResetAge \/ TsDataTransfer \/ (\E w \in Words : CopyIn(w)) \/ Bump \/ Advance
           \/ (\E s \in Sizes : Resize(s)) \/ Crash \/ Restart
  BY <1>1, <1>8 DEF ResetAge, TsDataTransfer, CopyIn, Bump, Advance, Resize, Crash, Restart, shared, history
<1> QED
  BY <1>2, <1>3, <1>4, <1>5, <1>6, <1>7, <1>8 DEF Next, Writer

\* The age a spy finds in the ring is at most that of the newest stored block.
LEMMA AgeStored ==
  ASSUME TypeOK, SlotsInPlace, clean, NEW i \in Slots, age[i] # 0
  PROVE  /\ age[i] <= stored /\ age[i] > stored - NBlocks
         /\ SlotOf(age[i]) = i /\ age[i] \in Nat /\ stored \in Int
BY RingAssumption DEF SlotsInPlace, TypeOK

\* A spy that may read is offered an age above the one it was last given: in
\* step, its slot cannot hold that same block again.
LEMMA ReadableIsNewer ==
  ASSUME TypeOK, SlotsInPlace, NEW r \in Readers, SpyInOrder(r), Begins(r), Readable(r)
  PROVE  last[r] < age[next_index[r]]
<1>1. /\ age[next_index[r]] >= current_age[r] /\ next_index[r] \in Slots
      /\ age[next_index[r]] # 0 /\ age[next_index[r]] \in Nat
      /\ last[r] \in Int /\ current_age[r] \in Nat
  BY DEF Readable, TypeOK
<1>2. CASE last[r] < current_age[r]
  BY <1>1, <1>2
<1>3. CASE last[r] = current_age[r] /\ instep[r]
  <2>1. clean /\ SlotOf(last[r] + 1) = next_index[r] /\ SlotOf(age[next_index[r]]) = next_index[r]
    BY <1>1, <1>3, AgeStored DEF SpyInOrder
  <2>2. SlotOf(last[r]) # SlotOf(last[r] + 1)
    <3>1. SlotOf(last[r]) = SlotOf(last[r] + 1) => last[r] + NBlocks <= last[r] + 1
      BY <1>1, SlotOfApart
    <3> QED
      BY <1>1, <3>1, RingAssumption
  <2>3. age[next_index[r]] # last[r]
    BY <2>1, <2>2
  <2> QED
    BY <1>1, <1>3, <2>3
<1> QED
  BY <1>2, <1>3 DEF Begins, SpyInOrder

\* A spy's own step keeps its index and its ages in order.
LEMMA SpyInOrderOwn ==
  ASSUME TypeOK, PhaseClean, SpyCopying, StoreProgress, SlotsInPlace,
         NEW r \in Readers, SpyInOrder(r), Reader(r)
  PROVE  SpyInOrder(r)'
<1> USE DEF TypeOK
<1>1. UNCHANGED <<age, next, currentage, clean, stored>>
  BY ReaderLeavesRing DEF shared
<1>2. CASE OpenIndex(r)
  <2>1. UNCHANGED <<last, instep>> /\ rpc'[r] = "opening" /\ ~instep[r]
    BY <1>2 DEF OpenIndex, SpyInOrder, history
  <2> QED
    BY <1>1, <2>1 DEF SpyInOrder
<1>3. CASE OpenAge(r)
  <2>1. /\ last'[r] = (IF clean THEN currentage - 1 ELSE -1) /\ current_age'[r] = currentage
        /\ instep'[r] = (clean /\ SlotOf(currentage) = next_index[r])
        /\ next_index'[r] = next_index[r] /\ rpc'[r] = "idle"
    BY <1>3 DEF OpenAge, SlotOf
  <2>2. clean => stored = currentage - 1 \/ stored = currentage
    BY DEF StoreProgress
  <2>3. ~clean => stored = -1
    BY DEF StoreProgress
  <2> HIDE DEF TypeOK
  <2>4. currentage \in Nat /\ clean \in BOOLEAN /\ instep'[r] \in BOOLEAN
    BY <2>1 DEF TypeOK
  <2>5. CASE clean
    <3>1. last'[r] = currentage - 1 /\ currentage = last'[r] + 1 /\ last'[r] < current_age'[r] /\ last'[r] <= stored
      BY <2>1, <2>2, <2>4, <2>5
    <3> QED
      BY <1>1, <2>1, <2>4, <2>5, <3>1 DEF SpyInOrder
  <2>6. CASE ~clean
    <3>1. last'[r] = -1 /\ ~instep'[r] /\ last'[r] < current_age'[r] /\ last'[r] <= stored
      BY <2>1, <2>3, <2>4, <2>6
    <3> QED
      BY <1>1, <2>1, <3>1 DEF SpyInOrder
  <2> QED
    BY <2>5, <2>6
<1>4. CASE ReadNothing(r)
  <2>1. UNCHANGED <<last, instep, next_index, current_age>> /\ rpc'[r] = "idle"
        /\ rpc[r] \notin {"closed", "opening"}
    BY <1>4 DEF ReadNothing, Begins, history
  <2> QED
    BY <1>1, <2>1 DEF SpyInOrder
<1>5. CASE ReadAge(r)
  <2>1. /\ Begins(r) /\ Readable(r) /\ UNCHANGED <<last, instep, next_index>>
        /\ current_age'[r] = age[next_index[r]] /\ rpc'[r] = "copy" /\ calm'[r] = clean
        /\ age[next_index[r]] # 0 /\ next_index[r] \in Slots
    BY <1>5 DEF ReadAge, Readable
  <2>2. last'[r] < current_age'[r]
    BY <2>1, ReadableIsNewer
  <2>3. clean => SlotOf(current_age'[r]) = next_index'[r] /\ current_age'[r] <= stored'
    BY <1>1, <2>1, AgeStored
  <2>4. instep'[r] => clean /\ calm'[r]
    BY <2>1 DEF SpyInOrder
  <2> QED
    BY <1>1, <2>1, <2>2, <2>3, <2>4 DEF SpyInOrder
<1>6. CASE CopyOut(r)
  <2>1. UNCHANGED <<last, instep, next_index, current_age, calm>> /\ rpc'[r] \in {"copy", "check"}
        /\ rpc[r] = "copy"
    BY <1>6 DEF CopyOut, history
  <2> QED
    BY <1>1, <2>1 DEF SpyInOrder
<1>7. CASE Accept(r)
  <2>1. /\ next_index'[r] = Succ(next_index[r]) /\ rpc'[r] = "idle" /\ rpc[r] = "check"
        /\ last'[r] = (IF calm[r] THEN current_age[r] ELSE last[r])
        /\ instep'[r] = (instep[r] \/ calm[r]) /\ UNCHANGED current_age
    BY <1>7 DEF Accept
  <2>2. CASE calm[r]
    <3>1. clean /\ SlotOf(current_age[r]) = next_index[r] /\ current_age[r] <= stored
      BY <2>1, <2>2 DEF SpyInOrder, SpyCopying, CopySound
    <3>2. last'[r] = current_age[r] /\ instep'[r] /\ SlotOf(last'[r] + 1) = next_index'[r]
      BY <2>1, <2>2, <3>1, SlotOfNext
    <3> QED
      BY <1>1, <2>1, <3>1, <3>2 DEF SpyInOrder
  <2>3. CASE ~calm[r]
    <3>1. ~instep[r] /\ ~instep'[r] /\ last'[r] = last[r] /\ last[r] < current_age[r]
      BY <2>1, <2>3 DEF SpyInOrder
    <3> QED
      BY <1>1, <2>1, <3>1 DEF SpyInOrder
  <2> QED
    BY <2>2, <2>3
<1>8. CASE Reject(r)
  <2>1. UNCHANGED <<last, instep, next_index, current_age>> /\ rpc'[r] = "retry" /\ rpc[r] = "check"
    BY <1>8 DEF Reject, history
  <2> QED
    BY <1>1, <2>1 DEF SpyInOrder
<1>9. CASE Close(r)
  <2>1. ~instep'[r] /\ last'[r] = last[r] /\ rpc'[r] = "closed"
    BY <1>9 DEF Close
  <2> QED
    BY <1>1, <2>1 DEF SpyInOrder
<1> QED
  BY <1>2, <1>3, <1>4, <1>5, <1>6, <1>7, <1>8, <1>9 DEF Reader, Read

\* No step of the sink or of another spy puts a spy out of order.
LEMMA SpiesInOrderStep ==
  ASSUME TypeOK, PhaseClean, SpyCopying, StoreProgress, SlotsInPlace, SpiesInOrder, [Next]_vars
  PROVE  SpiesInOrder'
<1>1. ASSUME NEW r \in Readers, Reader(r) PROVE SpiesInOrder'
  <2>1. ASSUME NEW q \in Readers PROVE SpyInOrder(q)'
    <3>1. SpyInOrder(q)
      BY DEF SpiesInOrder
    <3>2. CASE q = r
      BY <1>1, <3>1, <3>2, SpyInOrderOwn
    <3>3. CASE q # r
      <4>1. UNCHANGED <<clean, stored>>
        BY <1>1, ReaderLeavesRing
      <4>2. /\ rpc'[q] = rpc[q] /\ next_index'[q] = next_index[q]
            /\ current_age'[q] = current_age[q] /\ calm'[q] = calm[q]
            /\ last'[q] = last[q] /\ instep'[q] = instep[q]
        BY <1>1, <3>3, ReaderLeavesOthers
      <4> QED
        BY <3>1, <4>1, <4>2 DEF SpyInOrder
    <3> QED
      BY <3>2, <3>3
  <2> QED
    BY <2>1 DEF SpiesInOrder
<1>2. CASE Rewind
  <2>1. ASSUME NEW q \in Readers PROVE SpyInOrder(q)'
    <3>1. last'[q] = -1 /\ stored' = -1 /\ ~instep'[q] /\ ~calm'[q] /\ current_age'[q] = current_age[q]
      BY <1>2 DEF Rewind, reader
    <3>2. current_age[q] \in Nat
      BY DEF TypeOK
    <3> QED
      BY <3>1, <3>2 DEF SpyInOrder
  <2> QED
    BY <2>1 DEF SpiesInOrder
<1>3. CASE Writer /\ ~Rewind
  <2>1. UNCHANGED <<reader, calm, last, instep>>
    BY <1>3, WriterLeavesSpies
  <2>2. stored' >= stored /\ stored \in Int /\ stored' \in Int /\ (clean => clean')
    BY <1>3, StoredGrows DEF TypeOK
  <2>3. ASSUME NEW q \in Readers PROVE SpyInOrder(q)'
    <3>1. SpyInOrder(q)
      BY DEF SpiesInOrder
    <3>2. last[q] \in Int /\ current_age[q] \in Int
      BY DEF TypeOK
    <3> QED
      BY <2>1, <2>2, <3>1, <3>2 DEF SpyInOrder, reader
  <2> QED
    BY <2>3 DEF SpiesInOrder
<1>4. CASE UNCHANGED vars
  BY <1>4 DEF SpiesInOrder, SpyInOrder, vars, reader, history
<1> QED
  BY <1>1, <1>2, <1>3, <1>4 DEF Next

-----------------------------------------------------------------------------
(* The theorems                                                             *)

\* Nothing is stored, nothing is clean and no spy is open at the start.
LEMMA FeedInvInit == Init => FeedInv
<1> SUFFICES ASSUME Init PROVE FeedInv
  OBVIOUS
<1>1. ~clean /\ stored = -1 /\ wpc = "rewind"
  BY DEF Init
<1>2. SpiesInOrder
  BY <1>1 DEF Init, SpiesInOrder, SpyInOrder
<1> QED
  BY <1>1, <1>2, CopyInvInit DEF FeedInv, StoreProgress, SlotsInPlace, LastBlocksThere

\* Every step keeps the invariant of the order of the ring.
LEMMA FeedInvStep == FeedInv /\ [Next]_vars => FeedInv'
  BY CopyInvStep, StoreProgressStep, SlotsInPlaceStep, LastBlocksThereStep, SpiesInOrderStep
     DEF FeedInv, CopyInv

\* The invariant of the order of the ring holds in every reachable state.
THEOREM FeedInvHolds == Spec => []FeedInv
<1>1. Init => FeedInv
  BY FeedInvInit
<1>2. FeedInv /\ [Next]_vars => FeedInv'
  BY FeedInvStep
<1> QED
  BY <1>1, <1>2, PTL DEF Spec

\* Outside initialise_buffer_area, every slot with an age holds exactly the
\* block of that age, one of the last NBLOCKS stored, in its place.
THEOREM RingHoldsLast == Spec => []RingHoldsLastBlocks
<1>1. FeedInv => RingHoldsLastBlocks
  BY DEF FeedInv, CopyInv, SlotsWhole, SlotsInPlace, SlotOf, RingHoldsLastBlocks
<1> QED
  BY <1>1, FeedInvHolds, PTL

\* A spy in step stands at the slot of the block after the last it was given,
\* however often it is lapped or retried.
THEOREM IndexStaysInStep == Spec => []IndexInStep
<1>1. FeedInv => IndexInStep
  BY DEF FeedInv, SpiesInOrder, SpyInOrder, SlotOf, IndexInStep
<1> QED
  BY <1>1, FeedInvHolds, PTL

\* A spy whose age is ahead of the ring waits no longer than until the ring is
\* a lap past that age, at whatever slot it stands.
THEOREM StarvationAlwaysEnds == Spec => []StarvationEnds
<1>1. FeedInv => StarvationEnds
  <2>1. SUFFICES ASSUME FeedInv, NEW r \in Readers, clean, wpc = "idle",
                        stored >= NBlocks, stored >= current_age[r] + NBlocks - 1
                 PROVE  Readable(r)
    BY DEF StarvationEnds
  <2>2. /\ stored \in Int /\ next_index[r] \in Slots /\ current_age[r] \in Nat
        /\ NBlocks \in Nat /\ NBlocks >= 2
    BY <2>1, RingAssumption DEF FeedInv, CopyInv, TypeOK
  <2>3. PICK a \in stored - NBlocks + 1 .. stored : SlotOf(a) = next_index[r]
    BY <2>2, SlotOfHit
  <2>4. a \in Int /\ a >= 1 /\ a >= current_age[r]
    BY <2>1, <2>2, <2>3
  <2>5. age[next_index[r]] = a
    BY <2>1, <2>3, <2>4 DEF FeedInv, LastBlocksThere
  <2> QED
    BY <2>4, <2>5 DEF Readable
<1> QED
  BY <1>1, FeedInvHolds, PTL

\* Blocks are accepted in the order they were stored, none twice, over any
\* number of laps, retries and restarts of datasink.
THEOREM AcceptedStayInOrder == Spec => AcceptedInOrder
<1>1. FeedInv /\ [Next]_vars =>
        [\A r \in Readers : Accept(r) /\ calm[r] => last[r] < last'[r]]_vars
  <2>1. SUFFICES ASSUME FeedInv, NEW r \in Readers, Accept(r), calm[r]
                 PROVE  last[r] < last'[r]
    OBVIOUS
  <2>2. rpc[r] = "check" /\ last'[r] = current_age[r]
    BY <2>1 DEF Accept, FeedInv, CopyInv, TypeOK
  <2> QED
    BY <2>1, <2>2 DEF FeedInv, SpiesInOrder, SpyInOrder
<1> QED
  BY <1>1, FeedInvHolds, PTL DEF Spec, AcceptedInOrder

\* A first-time "no data" tells a spy in step the truth, but for a spy a whole
\* lap behind whose slot is being rewritten, and for block 0.
THEOREM EmptyTellsTruth == Spec => EmptyMeansCaughtUp
<1> DEFINE Truth(r) == \/ last[r] = stored
                       \/ last[r] + NBlocks <= stored /\ age[next_index[r]] = 0
                       \/ last[r] = -1 /\ stored < NBlocks
<1>1. ASSUME FeedInv, NEW r \in Readers, ReadNothing(r), ~KeptLen(r), clean, instep[r]
      PROVE  Truth(r)
  <2> DEFINE i == next_index[r]
             b == last[r] + 1
  <2>1. /\ stored \in Nat \cup {-1} /\ last[r] \in Nat \cup {-1} /\ current_age[r] \in Nat
        /\ age[i] \in Nat /\ i \in Slots /\ NBlocks \in Nat /\ NBlocks >= 2
    BY <1>1, RingAssumption DEF FeedInv, CopyInv, TypeOK
  <2>2. last[r] <= stored /\ SlotOf(b) = i /\ ~Readable(r) /\ rpc[r] \in {"idle", "retry"}
    BY <1>1 DEF FeedInv, SpiesInOrder, SpyInOrder, ReadNothing, Begins
  <2>3. CASE age[i] = 0
    <3>1. SUFFICES ASSUME last[r] # stored, last[r] + NBlocks > stored, b # 0 PROVE FALSE
      BY <2>1, <2>2, <2>3
    <3>2. b \in stored - NBlocks + 1 .. stored /\ b >= 1 /\ b # stored - NBlocks + 1
      BY <2>1, <2>2, <3>1
    <3>3. age[SlotOf(b)] = b
      BY <1>1, <3>2 DEF FeedInv, LastBlocksThere
    <3> QED
      BY <2>2, <2>3, <3>2, <3>3
  <2>4. CASE age[i] # 0
    <3>1. age[i] < current_age[r]
      BY <2>1, <2>2, <2>4 DEF Readable
    <3>2. age[i] > stored - NBlocks /\ SlotOf(age[i]) = i
      BY <1>1, <2>1, <2>4, AgeStored DEF FeedInv, CopyInv
    <3>3. CASE last[r] = current_age[r]
      <4>1. age[i] + NBlocks <= b
        BY <2>1, <2>2, <3>1, <3>2, <3>3, SlotOfApart
      <4> QED
        BY <2>1, <2>2, <3>2, <4>1
    <3>4. CASE last[r] # current_age[r]
      <4>1. SlotOf(current_age[r]) = i /\ (current_age[r] <= stored \/ current_age[r] = b)
        BY <1>1, <2>2, <3>4 DEF FeedInv, SpiesInOrder, SpyInOrder
      <4>2. age[i] + NBlocks <= current_age[r]
        BY <2>1, <3>1, <3>2, <4>1, SlotOfApart
      <4> QED
        BY <2>1, <2>2, <3>2, <4>1, <4>2
    <3> QED
      BY <3>3, <3>4
  <2> QED
    BY <2>3, <2>4
<1>2. FeedInv /\ [Next]_vars =>
        [\A r \in Readers : ReadNothing(r) /\ ~KeptLen(r) /\ clean /\ instep[r] => Truth(r)]_vars
  BY <1>1
<1> QED
  BY <1>2, FeedInvHolds, PTL DEF Spec, EmptyMeansCaughtUp

-----------------------------------------------------------------------------
(* SpyRing implements LossyFeed                                             *)

\* The ring starts as a feed with nothing published.
LEMMA FeedInit == Init => Feed!Init
BY DEF Init, Feed!Init

\* The sink publishes a block when it stamps its slot, starts the feed again
\* when it rewinds, and does nothing visible otherwise.
LEMMA WriterFeeds ==
  ASSUME FeedInv, Writer PROVE [Feed!Next]_(Feed!feed)
<1>1. CASE Rewind
  <2>1. Feed!Forget
    BY <1>1 DEF Rewind, Feed!Forget
  <2> QED
    BY <2>1 DEF Feed!Next
<1>2. CASE Stamp
  <2>1. stored' = stored + 1
    <3>1. stored = currentage - 1 /\ stored' = currentage /\ currentage \in Nat
      BY <1>2 DEF Stamp, FeedInv, CopyInv, PhaseClean, StoreProgress, Settled, TypeOK
    <3> QED
      BY <3>1
  <2>2. Feed!Publish
    BY <1>2, <2>1 DEF Stamp, Feed!Publish
  <2> QED
    BY <2>2 DEF Feed!Next
<1>3. CASE ~Rewind /\ ~Stamp
  BY <1>3 DEF Writer, ResetAge, ClearAge, TsDataTransfer, Mark, CopyIn, Bump, Advance,
    Resize, Crash, Restart, history, Feed!feed
<1> QED
  BY <1>1, <1>2, <1>3

\* A spy joins the feed when it loads the current age, is given a block when it
\* accepts one, and does nothing visible otherwise.
LEMMA ReaderFeeds ==
  ASSUME FeedInv, NEW r \in Readers, Reader(r) PROVE [Feed!Next]_(Feed!feed)
<1>1. stored' = stored
  BY ReaderLeavesRing
<1>2. CASE OpenAge(r)
  <2>1. /\ last' = [last EXCEPT ![r] = IF clean THEN currentage - 1 ELSE -1]
        /\ currentage \in Nat /\ last \in [Readers -> Nat \cup {-1}] /\ stored \in Nat \cup {-1}
    BY <1>2 DEF OpenAge, FeedInv, CopyInv, TypeOK
  <2>2. clean => stored = currentage - 1 \/ stored - 1 = currentage - 1
    BY <2>1 DEF FeedInv, StoreProgress
  <2>3. ~clean => stored = -1
    BY DEF FeedInv, StoreProgress
  <2>4. last' = [last EXCEPT ![r] = stored] \/ last' = [last EXCEPT ![r] = stored - 1]
    BY <2>1, <2>2, <2>3
  <2>5. last'[r] >= -1
    BY <2>1
  <2>6. Feed!Join(r)
    BY <1>1, <2>4, <2>5 DEF Feed!Join
  <2> QED
    BY <2>6 DEF Feed!Next
<1>3. CASE Accept(r) /\ calm[r]
  <2>1. /\ rpc[r] = "check" /\ age[next_index[r]] = current_age[r]
        /\ last' = [last EXCEPT ![r] = current_age[r]]
    BY <1>3 DEF Accept
  <2>2. /\ clean /\ current_age[r] # 0 /\ current_age[r] \in Nat /\ next_index[r] \in Slots
        /\ last[r] < current_age[r]
    BY <1>3, <2>1 DEF FeedInv, CopyInv, TypeOK, SpyCopying, CopySound, SpiesInOrder, SpyInOrder
  <2>3. current_age[r] \in stored - NBlocks + 1 .. stored
    BY <2>1, <2>2 DEF FeedInv, SlotsInPlace
  <2>4. \E n \in stored - NBlocks + 1 .. stored :
          n > last[r] /\ n >= 1 /\ last' = [last EXCEPT ![r] = n]
    <3>1. current_age[r] > last[r] /\ current_age[r] >= 1
      BY <2>2 DEF FeedInv, CopyInv, TypeOK
    <3> WITNESS current_age[r] \in stored - NBlocks + 1 .. stored
    <3> QED
      BY <2>1, <3>1
  <2>5. Feed!Give(r)
    BY <1>1, <2>4 DEF Feed!Give
  <2> QED
    BY <2>5 DEF Feed!Next
<1>4. CASE Accept(r) /\ ~calm[r]
  <2>1. last' = last
    BY <1>4 DEF Accept, FeedInv, CopyInv, TypeOK
  <2> QED
    BY <1>1, <2>1 DEF Feed!feed
<1>5. CASE OpenIndex(r) \/ ReadNothing(r) \/ ReadAge(r) \/ CopyOut(r) \/ Reject(r) \/ Close(r)
  <2>1. last' = last
    BY <1>5 DEF OpenIndex, ReadNothing, ReadAge, CopyOut, Reject, Close, history
  <2> QED
    BY <1>1, <2>1 DEF Feed!feed
<1> QED
  BY <1>2, <1>3, <1>4, <1>5 DEF Reader, Read

\* The ring of any size, with any number of spies, sink crashes and restarts,
\* implements the lossy feed of its last NBLOCKS blocks.
THEOREM RingImplementsFeed == Spec => ImplementsFeed
<1>1. Init => Feed!Init
  BY FeedInit
<1>2. FeedInv /\ [Next]_vars => [Feed!Next]_(Feed!feed)
  <2>1. ASSUME FeedInv, UNCHANGED vars PROVE UNCHANGED Feed!feed
    BY <2>1 DEF vars, history, Feed!feed
  <2> QED
    BY <2>1, WriterFeeds, ReaderFeeds DEF Next
<1> QED
  BY <1>1, <1>2, FeedInvHolds, PTL DEF Spec, ImplementsFeed, Feed!Spec

-----------------------------------------------------------------------------
(* The direct spy: blocks in order, repeats bounded                         *)

\* The order of blocks is total.
LEMMA LaterOrder ==
  ASSUME NEW s \in Stamps, NEW t \in Stamps, NEW u \in Stamps
  PROVE  /\ Later(s, t) \/ s = t \/ Later(t, s)
         /\ ~(Later(s, t) /\ Later(t, s)) /\ ~Later(s, s)
         /\ Later(s, t) /\ Later(t, u) => Later(s, u)
BY DEF Later, Stamps

\* The words of the first slot are stamps.
LEMMA FirstSlotTyped == ASSUME TypeOK, NEW w \in Words PROVE data[0][w] \in Stamps
  BY ZeroInSlots DEF TypeOK

\* A word is the first one or behind it.
LEMMA WordsAreCounted ==
  /\ 0 \in Words
  /\ \A w \in Words : w \in Nat /\ w < NWords
  BY RingAssumption DEF Words

\* Of the first slot datasink writes one word of a new block, or nothing.
LEMMA SlotWrites ==
  ASSUME TypeOK, Writer
  PROVE  \/ data'[0] = data[0]
         \/ \E w \in Words :
              /\ CopyIn(w) /\ next = 0
              /\ data'[0] = [data[0] EXCEPT ![w] = <<epoch, currentage>>]
<1>1. CASE \E w \in Words : CopyIn(w)
  <2>1. PICK w \in Words : CopyIn(w)
    BY <1>1
  <2>2. next \in Slots /\ 0 \in Slots /\ data \in [Slots -> [Words -> Stamps]]
    BY ZeroInSlots DEF TypeOK
  <2>3. CASE next = 0
    BY <2>1, <2>2, <2>3 DEF CopyIn
  <2>4. CASE next # 0
    BY <2>1, <2>2, <2>4 DEF CopyIn
  <2> QED
    BY <2>1, <2>3, <2>4
<1>2. CASE ~ \E w \in Words : CopyIn(w)
  BY <1>2 DEF Writer, Rewind, ResetAge, ClearAge, TsDataTransfer, Mark, Stamp, Bump, Advance,
     Resize, Crash, Restart, shared
<1> QED
  BY <1>1, <1>2

\* A word copied into the first slot is later than the one it replaces, and none
\* there is later than it.
LEMMA CopiedIsLater ==
  ASSUME TypeOK, SlotNotAhead, NEW w \in Words, CopyIn(w), next = 0
  PROVE  /\ Later(<<epoch, currentage>>, data[0][w])
         /\ \A v \in Words : ~Later(data[0][v], <<epoch, currentage>>)
<1>1. \A v \in Words : data[0][v] \in Stamps
  BY FirstSlotTyped
<1>2. epoch \in Nat /\ currentage \in Nat
  BY DEF TypeOK
<1>3. wpc = "copy" /\ w \notin copied
  BY DEF CopyIn
<1> QED
  BY <1>1, <1>2, <1>3 DEF SlotNotAhead, Later, Stamps

\* The slot is never ahead of the sink.
LEMMA SlotNotAheadStep ==
  ASSUME TypeOK, PhaseClean, SlotNotAhead, Writer PROVE SlotNotAhead'
<1> USE DEF SlotNotAhead
<1>1. \A w \in Words : data[0][w] \in Stamps /\ data[0][w][1] \in Nat /\ data[0][w][2] \in Nat
  BY FirstSlotTyped DEF Stamps
<1>2. epoch \in Nat /\ currentage \in Nat
  BY DEF TypeOK
<1>3. CASE \E w \in Words : CopyIn(w)
  <2>1. PICK w \in Words : CopyIn(w)
    BY <1>3
  <2>2. /\ wpc = "copy" /\ wpc' = (IF copied' = Words THEN "stamp" ELSE "copy")
        /\ copied' = copied \cup {w} /\ UNCHANGED <<next, epoch, currentage>>
    BY <2>1 DEF CopyIn, history
  <2>3. CASE next = 0
    <3>1. data'[0] = [data[0] EXCEPT ![w] = <<epoch, currentage>>] /\ data[0] \in [Words -> Stamps]
      BY <2>1, <2>3, ZeroInSlots DEF CopyIn, TypeOK
    <3>2. \A v \in Words : data'[0][v] = IF v = w THEN <<epoch, currentage>> ELSE data[0][v]
      BY <3>1
    <3>3. <<epoch, currentage>>[1] = epoch /\ <<epoch, currentage>>[2] = currentage
      OBVIOUS
    <3> QED
      BY <1>1, <1>2, <2>2, <2>3, <3>2, <3>3
  <2>4. CASE next # 0
    <3>1. data'[0] = data[0]
      BY <2>1, <2>4, ZeroInSlots DEF CopyIn, TypeOK
    <3> QED
      BY <1>1, <1>2, <2>2, <2>4, <3>1
  <2> QED
    BY <2>3, <2>4
<1>4. CASE Rewind
  BY <1>1, <1>2, <1>4 DEF Rewind
<1>5. CASE ResetAge
  BY <1>1, <1>2, <1>5 DEF ResetAge, history
<1>6. CASE ClearAge
  BY <1>1, <1>2, <1>6 DEF ClearAge, history
<1>7. CASE TsDataTransfer \/ Mark \/ Advance \/ Crash \/ Restart
  BY <1>1, <1>2, <1>7 DEF TsDataTransfer, Mark, Advance, Crash, Restart, history, shared
<1>8. CASE Stamp
  BY <1>1, <1>2, <1>8 DEF Stamp
<1>9. CASE Bump
  BY <1>1, <1>2, <1>9 DEF Bump, history
<1>10. ASSUME NEW s \in Sizes, Resize(s) PROVE SlotNotAhead'
  BY <1>10 DEF Resize, history, shared
<1> QED
  BY <1>3, <1>4, <1>5, <1>6, <1>7, <1>8, <1>9, <1>10 DEF Writer

\* Only a block under way, or one datasink was stopped in, is torn.
LEMMA SlotTornStep ==
  ASSUME TypeOK, PhaseClean, SlotBeingWritten, SlotNotAhead, SlotTorn, Writer PROVE SlotTorn'
<1> USE DEF SlotTorn
<1>1. \A w \in Words : data[0][w] \in Stamps /\ data[0][w][1] \in Nat /\ data[0][w][2] \in Nat
  BY FirstSlotTyped DEF Stamps
<1>2. epoch \in Nat /\ currentage \in Nat /\ 0 \in Words
  BY WordsAreCounted DEF TypeOK
<1>3. CASE \E w \in Words : CopyIn(w)
  <2>1. PICK w \in Words : CopyIn(w)
    BY <1>3
  <2>2. /\ wpc = "copy" /\ wpc' = (IF copied' = Words THEN "stamp" ELSE "copy")
        /\ copied' = copied \cup {w} /\ UNCHANGED <<next, epoch, currentage>> /\ w \notin copied
    BY <2>1 DEF CopyIn, history
  <2>3. CASE next = 0
    <3>1. data'[0] = [data[0] EXCEPT ![w] = <<epoch, currentage>>] /\ data[0] \in [Words -> Stamps]
      BY <2>1, <2>3, ZeroInSlots DEF CopyIn, TypeOK
    <3>2. \A v \in Words : data'[0][v] = IF v = w THEN <<epoch, currentage>> ELSE data[0][v]
      BY <3>1
    <3>3. \A v \in copied : data[0][v] = <<epoch, currentage>>
      BY <2>2, <2>3 DEF SlotBeingWritten
    <3>4. SUFFICES ASSUME NEW v \in Words, data'[0][0][1] = epoch, Later(data'[0][0], data'[0][v]),
                          ~(wpc' = "copy" /\ 0 \in copied')
                   PROVE  FALSE
      BY <2>2, <2>3
    <3>5. CASE copied' = Words
      <4>1. data'[0][v] = <<epoch, currentage>> /\ data'[0][0] = <<epoch, currentage>>
        BY <1>2, <2>2, <3>2, <3>3, <3>5
      <4> QED
        BY <1>2, <3>4, <4>1 DEF Later
    <3>6. CASE copied' # Words
      <4>1. 0 \notin copied /\ w # 0 /\ data'[0][0] = data[0][0]
        BY <1>2, <2>2, <3>2, <3>4, <3>6
      <4>2. CASE v = w
        <5>1. Later(data[0][0], <<epoch, currentage>>)
          BY <3>2, <3>4, <4>1, <4>2
        <5> QED
          BY <1>2, <2>1, <2>3, <5>1, CopiedIsLater
      <4>3. CASE v # w
        BY <2>2, <2>3, <3>2, <3>4, <4>1, <4>3
      <4> QED
        BY <4>2, <4>3
    <3> QED
      BY <3>5, <3>6
  <2>4. CASE next # 0
    <3>1. data'[0] = data[0]
      BY <2>1, <2>4, ZeroInSlots DEF CopyIn, TypeOK
    <3> QED
      BY <2>2, <2>4, <3>1
  <2> QED
    BY <2>3, <2>4
<1>4. CASE Rewind
  BY <1>1, <1>2, <1>4 DEF Rewind, SlotNotAhead
<1>5. CASE ResetAge \/ ClearAge \/ TsDataTransfer \/ Mark \/ Stamp \/ Bump \/ Advance \/ Crash \/ Restart
  BY <1>5 DEF ResetAge, ClearAge, TsDataTransfer, Mark, Stamp, Bump, Advance, Crash, Restart, history, shared
<1>6. ASSUME NEW s \in Sizes, Resize(s) PROVE SlotTorn'
  BY <1>6 DEF Resize, history, shared
<1> QED
  BY <1>3, <1>4, <1>5, <1>6 DEF Writer

\* The direct spy's own variables keep their types.
LEMMA DirectTypeOKStep ==
  ASSUME TypeOK, TypeOK', DirectTypeOK, DirectNext PROVE DirectTypeOK'
<1> USE DEF DirectTypeOK
<1>1. CASE Writer /\ UNCHANGED direct
  BY <1>1 DEF direct
<1>2. CASE Spy
  <2>1. data[0][pos] \in Stamps
    BY FirstSlotTyped
  <2>2. buffer' = [buffer EXCEPT ![pos] = data[0][pos]] /\ pos' = (pos + 1) % NWords
        /\ taken' = IF pos' = 0 THEN Append(taken, buffer') ELSE taken
    BY <1>2 DEF Spy, ReadFirst, ReadNext, Keep, Here
  <2>3. buffer' \in [Words -> Stamps]
    BY <2>1, <2>2
  <2>4. pos' \in Words
    <3>1. NWords \in Nat /\ NWords >= 1 /\ pos \in Nat
      BY RingAssumption DEF Words
    <3> QED
      BY <2>2, <3>1 DEF Words
  <2>5. taken' \in Seq([Words -> Stamps])
    BY <2>2, <2>3, AppendProperties
  <2>6. LastTimestamp' \in Stamps
    BY <1>2, <2>1 DEF Spy, ReadFirst, ReadNext, Here
  <2> QED
    BY <2>3, <2>4, <2>5, <2>6
<1> QED
  BY <1>1, <1>2 DEF DirectNext

\* What a step of the spy does: one word of the slot goes into the buffer, the
\* last one ends the call.
LEMMA SpyReads ==
  ASSUME DirectTypeOK, Spy
  PROVE  /\ UNCHANGED <<data, epoch>>
         /\ buffer' = [buffer EXCEPT ![pos] = data[0][pos]]
         /\ \/ /\ pos + 1 < NWords /\ pos' = pos + 1 /\ taken' = taken
            \/ /\ pos + 1 = NWords /\ pos' = 0 /\ taken' = Append(taken, buffer')
         /\ \/ pos = 0 /\ data[0][0] # LastTimestamp /\ LastTimestamp' = data[0][0]
            \/ pos > 0 /\ LastTimestamp' = LastTimestamp
<1>1. NWords \in Nat /\ NWords >= 1 /\ pos \in Nat /\ pos < NWords
  BY RingAssumption DEF DirectTypeOK, Words
<1>2. UNCHANGED <<data, epoch>>
  BY DEF Spy, ReadFirst, ReadNext, vars, shared, history
<1>3. buffer' = [buffer EXCEPT ![pos] = data[0][pos]] /\ pos' = (pos + 1) % NWords
      /\ taken' = IF pos' = 0 THEN Append(taken, buffer') ELSE taken
  BY DEF Spy, ReadFirst, ReadNext, Keep, Here
<1>4. CASE pos + 1 < NWords
  <2>1. (pos + 1) % NWords = pos + 1
    BY <1>1, <1>4
  <2> QED
    BY <1>1, <1>2, <1>3, <1>4, <2>1 DEF Spy, ReadFirst, ReadNext, Unread, Here
<1>5. CASE pos + 1 = NWords
  <2>1. (pos + 1) % NWords = 0
    BY <1>1, <1>5
  <2> QED
    BY <1>1, <1>2, <1>3, <1>5, <2>1 DEF Spy, ReadFirst, ReadNext, Unread, Here
<1> QED
  BY <1>1, <1>4, <1>5

\* The word remembered begins the call under way, or the block taken last.
LEMMA FirstWordStep ==
  ASSUME TypeOK, DirectTypeOK, SlotNotAhead, FirstWord, DirectNext PROVE FirstWord'
<1>1. LastTimestamp \in Stamps /\ data[0][0] \in Stamps /\ 0 \in Words
  BY FirstSlotTyped, WordsAreCounted DEF DirectTypeOK
<1>2. CASE Writer /\ UNCHANGED direct
  <2>1. UNCHANGED <<pos, LastTimestamp, buffer, taken>>
    BY <1>2 DEF direct
  <2>2. CASE data'[0] = data[0]
    BY <2>1, <2>2 DEF FirstWord
  <2>3. ASSUME NEW w \in Words, CopyIn(w), next = 0,
               data'[0] = [data[0] EXCEPT ![w] = <<epoch, currentage>>]
        PROVE  FirstWord'
    <3>1. data[0] \in [Words -> Stamps] /\ <<epoch, currentage>> \in Stamps
      BY ZeroInSlots, CopiedStamp DEF TypeOK
    <3>2. CASE w = 0
      <4>1. data'[0][0] = <<epoch, currentage>> /\ Later(<<epoch, currentage>>, data[0][0])
        BY <1>1, <2>3, <3>1, <3>2, CopiedIsLater
      <4> QED
        BY <1>1, <2>1, <3>1, <4>1, LaterOrder DEF FirstWord
    <3>3. CASE w # 0
      <4>1. data'[0][0] = data[0][0]
        BY <1>1, <2>3, <3>1, <3>3
      <4> QED
        BY <2>1, <4>1 DEF FirstWord
    <3> QED
      BY <3>2, <3>3
  <2> QED
    BY <1>2, <2>2, <2>3, SlotWrites
<1>3. CASE Spy
  <2>1. data' = data /\ buffer' = [buffer EXCEPT ![pos] = data[0][pos]]
    BY <1>3, SpyReads
  <2>2. pos \in Words /\ pos \in Nat /\ buffer \in [Words -> Stamps] /\ taken \in Seq([Words -> Stamps])
    BY WordsAreCounted DEF DirectTypeOK
  <2>3. CASE pos = 0
    <3>1. LastTimestamp' = data[0][0] /\ data[0][0] # LastTimestamp /\ buffer'[0] = data[0][0]
      BY <1>1, <1>3, <2>1, <2>2, <2>3, SpyReads
    <3>2. taken # <<>> => Later(LastTimestamp', taken[Len(taken)][0])
      BY <2>3, <3>1 DEF FirstWord
    <3>3. CASE pos + 1 < NWords /\ pos' = pos + 1 /\ taken' = taken
      BY <2>1, <2>2, <2>3, <3>1, <3>2, <3>3 DEF FirstWord
    <3>4. CASE pos' = 0 /\ taken' = Append(taken, buffer')
      <4>1. taken'[Len(taken')] = buffer'
        BY <2>1, <2>2, <3>4, AppendProperties
      <4> QED
        BY <2>1, <3>1, <3>4, <4>1 DEF FirstWord
    <3> QED
      BY <1>3, <3>3, <3>4, SpyReads
  <2>4. CASE pos > 0
    <3>1. LastTimestamp' = LastTimestamp /\ buffer'[0] = buffer[0]
      BY <1>1, <1>3, <2>1, <2>2, <2>4, SpyReads
    <3>2. CASE pos + 1 < NWords /\ pos' = pos + 1 /\ taken' = taken
      BY <2>1, <2>2, <2>4, <3>1, <3>2 DEF FirstWord
    <3>3. CASE pos' = 0 /\ taken' = Append(taken, buffer')
      <4>1. taken'[Len(taken')] = buffer'
        BY <2>1, <2>2, <3>3, AppendProperties
      <4> QED
        BY <2>1, <2>2, <2>4, <3>1, <3>3, <4>1 DEF FirstWord
    <3> QED
      BY <1>3, <3>2, <3>3, SpyReads
  <2> QED
    BY <2>2, <2>3, <2>4
<1> QED
  BY <1>2, <1>3 DEF DirectNext

\* A block is taken after those with earlier first words.
LEMMA FirstHitsInOrderStep ==
  ASSUME DirectTypeOK, FirstWord, FirstHitsInOrder, DirectNext PROVE FirstHitsInOrder'
<1>1. CASE UNCHANGED taken
  BY <1>1 DEF FirstHitsInOrder
<1>2. CASE Spy /\ taken' = Append(taken, buffer')
  <2>1. pos \in Nat /\ pos \in Words /\ taken \in Seq([Words -> Stamps]) /\ 0 \in Words
        /\ buffer \in [Words -> Stamps]
    BY WordsAreCounted DEF DirectTypeOK
  <2>2. buffer' = [buffer EXCEPT ![pos] = data[0][pos]]
    BY <1>2, SpyReads
  <2>3. taken # <<>> => Later(buffer'[0], taken[Len(taken)][0])
    <3>1. CASE pos = 0
      <4>1. buffer'[0] = data[0][0] /\ data[0][0] # LastTimestamp
        BY <1>2, <2>1, <2>2, <3>1, SpyReads
      <4> QED
        BY <3>1, <4>1 DEF FirstWord
    <3>2. CASE pos > 0
      BY <2>1, <2>2, <3>2 DEF FirstWord
    <3> QED
      BY <2>1, <3>1, <3>2
  <2>4. /\ Len(taken) \in Nat /\ Len(taken') = Len(taken) + 1
        /\ \A k \in 1 .. Len(taken) : taken'[k] = taken[k]
        /\ taken'[Len(taken) + 1] = buffer'
        /\ Len(taken) > 0 => taken # <<>>
    BY <1>2, <2>1, <2>2, AppendProperties, LenProperties
  <2>5. ASSUME NEW k \in 1 .. Len(taken') - 1 PROVE Later(taken'[k + 1][0], taken'[k][0])
    <3>1. CASE k = Len(taken)
      BY <2>3, <2>4, <2>5, <3>1
    <3>2. CASE k \in 1 .. Len(taken) - 1
      <4>1. taken'[k] = taken[k] /\ taken'[k + 1] = taken[k + 1]
        BY <2>4, <3>2
      <4> QED
        BY <3>2, <4>1 DEF FirstHitsInOrder
    <3> QED
      BY <2>4, <2>5, <3>1, <3>2
  <2> QED
    BY <2>5 DEF FirstHitsInOrder
<1> QED
  BY <1>1, <1>2, SpyReads DEF DirectNext, direct

\* One buffer more counts where its word is s.
LEMMA TimesAppended ==
  ASSUME DirectTypeOK, buffer' \in [Words -> Stamps], taken' = Append(taken, buffer'),
         NEW w \in Words, NEW s
  PROVE  Times(w, s)' = Times(w, s) + (IF buffer'[w] = s THEN 1 ELSE 0)
<1> DEFINE old == {l \in 1 .. Len(taken) : taken[l][w] = s}
           new == {l \in 1 .. Len(taken') : taken'[l][w] = s}
<1>1. /\ Len(taken) \in Nat /\ Len(taken') = Len(taken) + 1
      /\ \A l \in 1 .. Len(taken) : taken'[l] = taken[l]
      /\ taken'[Len(taken) + 1] = buffer'
  BY AppendProperties, LenProperties DEF DirectTypeOK
<1>2. IsFiniteSet(old) /\ Len(taken) + 1 \notin old /\ Cardinality(old) \in Nat
  <2>1. IsFiniteSet(1 .. Len(taken)) /\ old \in SUBSET (1 .. Len(taken))
    BY <1>1, FS_Interval
  <2>2. IsFiniteSet(old)
    BY <2>1, FS_Subset
  <2>3. Cardinality(old) \in Nat
    BY <2>2, FS_CardinalityType
  <2>4. Len(taken) + 1 \notin 1 .. Len(taken)
    BY <1>1
  <2> QED
    BY <2>1, <2>2, <2>3, <2>4
<1>3. new = IF buffer'[w] = s THEN old \cup {Len(taken) + 1} ELSE old
  BY <1>1
<1>4. Times(w, s) = Cardinality(old) /\ Times(w, s)' = Cardinality(new)
  BY DEF Times
<1> HIDE DEF old, new
<1>5. CASE buffer'[w] = s
  BY ZenonT(40), <1>2, <1>3, <1>4, <1>5, FS_AddElement
<1>6. CASE buffer'[w] # s
  BY <1>2, <1>3, <1>4, <1>6
<1> QED
  BY <1>5, <1>6

\* The count of a word is a number, and none when no call took it.
LEMMA TimesIsNumber ==
  ASSUME DirectTypeOK, NEW w \in Words, NEW s
  PROVE  /\ Times(w, s) \in Nat /\ Kept(w, s) \in {0, 1} /\ Coming(w) \in {0, 1}
         /\ (\E l \in 1 .. Len(taken) : taken[l][w] = s) => Times(w, s) > 0
<1> DEFINE at == {l \in 1 .. Len(taken) : taken[l][w] = s}
<1>1. IsFiniteSet(1 .. Len(taken)) /\ at \in SUBSET (1 .. Len(taken))
  BY LenProperties, FS_Interval DEF DirectTypeOK
<1>2. IsFiniteSet(at)
  BY <1>1, FS_Subset
<1>3. Cardinality(at) \in Nat /\ (Cardinality(at) = 0 <=> at = {})
  BY <1>2, FS_CardinalityType, FS_EmptySet
<1>4. Times(w, s) = Cardinality(at)
  BY DEF Times
<1>5. (\E l \in 1 .. Len(taken) : taken[l][w] = s) => at # {}
  OBVIOUS
<1> HIDE DEF at
<1>6. Times(w, s) \in Nat /\ ((\E l \in 1 .. Len(taken) : taken[l][w] = s) => Times(w, s) > 0)
  BY <1>3, <1>4, <1>5
<1> QED
  BY <1>6 DEF Kept, Coming

\* A call counts a word when it reads it, and was coming for it since it began.
LEMMA SpyCounts ==
  ASSUME TypeOK, DirectTypeOK, Spy, NEW w \in Words \ {0}, NEW s \in Stamps
  PROVE  /\ Times(w, s)' + Kept(w, s)'
              = Times(w, s) + Kept(w, s) + (IF pos = w /\ data[0][w] = s THEN 1 ELSE 0)
         /\ Coming(w)' = Coming(w) + (IF pos = 0 THEN 1 ELSE 0) - (IF pos = w THEN 1 ELSE 0)
<1>1. /\ pos \in Nat /\ pos \in Words /\ w \in Nat /\ w >= 1 /\ w < NWords /\ NWords \in Nat
      /\ buffer \in [Words -> Stamps] /\ taken \in Seq([Words -> Stamps]) /\ w \in Words
  BY WordsAreCounted, RingAssumption DEF DirectTypeOK
<1>2. buffer' = [buffer EXCEPT ![pos] = data[0][pos]] /\ data[0][pos] \in Stamps
  BY <1>1, SpyReads, FirstSlotTyped
<1>3. buffer' \in [Words -> Stamps] /\ buffer'[w] = IF pos = w THEN data[0][w] ELSE buffer[w]
  BY <1>1, <1>2
<1>4. Times(w, s) \in Nat
  BY <1>1, TimesIsNumber
<1>5. CASE pos + 1 < NWords /\ pos' = pos + 1 /\ taken' = taken
  <2>1. Times(w, s)' = Times(w, s)
    BY <1>5 DEF Times
  <2> QED
    BY <1>1, <1>3, <1>4, <1>5, <2>1 DEF Kept, Coming
<1>6. CASE pos + 1 = NWords /\ pos' = 0 /\ taken' = Append(taken, buffer')
  <2>1. Times(w, s)' = Times(w, s) + (IF buffer'[w] = s THEN 1 ELSE 0)
    BY <1>1, <1>3, <1>6, TimesAppended
  <2> QED
    BY <1>1, <1>3, <1>4, <1>6, <2>1 DEF Kept, Coming
<1> QED
  BY <1>5, <1>6, SpyReads

\* A word is met again only beside a new first word of the slot.
LEMMA RepeatsStep ==
  ASSUME TypeOK, DirectTypeOK, SlotNotAhead, SlotTorn, Repeats, DirectNext PROVE Repeats'
<1> SUFFICES ASSUME NEW w \in Words \ {0}, NEW s \in Stamps \ {NoStamp} PROVE Met(w, s)'
  BY DEF Repeats
<1>1. Met(w, s) /\ w \in Words /\ w # 0 /\ 0 \in Words /\ s \in Stamps
  BY WordsAreCounted DEF Repeats
<1>2. /\ data[0][0] \in Stamps /\ data[0][w] \in Stamps /\ LastTimestamp \in Stamps
      /\ epoch \in Nat /\ currentage \in Nat
      /\ data[0][0][1] <= epoch /\ data[0][w][1] <= epoch
  BY <1>1, FirstSlotTyped DEF DirectTypeOK, TypeOK, SlotNotAhead
<1>3. Times(w, s) \in Nat /\ Kept(w, s) \in {0, 1} /\ Coming(w) \in {0, 1}
  BY <1>1, TimesIsNumber
<1>4. CASE Spy
  <2>1. /\ UNCHANGED <<data, epoch>>
        /\ \/ pos = 0 /\ data[0][0] # LastTimestamp /\ LastTimestamp' = data[0][0]
           \/ pos > 0 /\ LastTimestamp' = LastTimestamp
    BY <1>4, SpyReads
  <2>2. Calls(s)' = Calls(s) + (IF pos = 0 THEN 1 ELSE 0)
    BY <1>1, <1>2, <2>1 DEF Calls, Stamps
  <2>3. /\ Times(w, s)' + Kept(w, s)'
              = Times(w, s) + Kept(w, s) + (IF pos = w /\ data[0][w] = s THEN 1 ELSE 0)
        /\ Coming(w)' = Coming(w) + (IF pos = 0 THEN 1 ELSE 0) - (IF pos = w THEN 1 ELSE 0)
    BY <1>1, <1>4, SpyCounts
  <2>4. Calls(s) \in Int
    BY <1>1, <1>2 DEF Calls, Stamps
  <2>5. CASE Later(s, data[0][w])
    <3>1. Times(w, s)' + Kept(w, s)' = 0 /\ data'[0][w] # s /\ ~Later(data'[0][w], s)
      BY <1>1, <1>2, <1>3, <2>1, <2>3, <2>5, LaterOrder DEF Met
    <3> QED
      BY <3>1 DEF Met
  <2>6. CASE data[0][w] = s
    <3>1. Times(w, s)' + Kept(w, s)' + Coming(w)' <= Calls(s)'
      BY <1>1, <1>3, <2>2, <2>3, <2>4, <2>6 DEF Met
    <3>2. data'[0][w] = s /\ ~Later(s, data'[0][w]) /\ ~Later(data'[0][w], s)
      BY <1>1, <2>1, <2>6, LaterOrder
    <3> QED
      BY <3>1, <3>2 DEF Met
  <2>7. CASE Later(data[0][w], s)
    <3>1. data'[0][w] # s /\ ~Later(s, data'[0][w])
      BY <1>1, <1>2, <2>1, <2>7, LaterOrder
    <3>2. Times(w, s)' + Kept(w, s)' <= 4 + epoch' - s[1]
      BY <1>1, <1>3, <2>1, <2>3, <2>7, <3>1 DEF Met
    <3> QED
      BY <3>1, <3>2 DEF Met
  <2> QED
    BY <1>1, <1>2, <2>5, <2>6, <2>7, LaterOrder
<1>5. CASE Writer /\ UNCHANGED direct
  <2>1. /\ UNCHANGED <<pos, LastTimestamp, buffer, taken>>
        /\ Times(w, s)' = Times(w, s) /\ Kept(w, s)' = Kept(w, s) /\ Coming(w)' = Coming(w)
    BY <1>5 DEF direct, Times, Kept, Coming
  <2>2. epoch' \in Nat /\ epoch' >= epoch
    BY <1>2, <1>5 DEF Writer, Rewind, ResetAge, ClearAge, TsDataTransfer, Mark, CopyIn, Stamp, Bump,
       Advance, Resize, Crash, Restart, history
  <2>3. CASE data'[0] = data[0]
    <3>1. Calls(s)' = Calls(s)
      BY <2>1, <2>3 DEF Calls
    <3> QED
      BY <1>1, <1>2, <1>3, <2>1, <2>2, <2>3, <3>1 DEF Met, Stamps
  <2>4. ASSUME NEW v \in Words, CopyIn(v), next = 0,
               data'[0] = [data[0] EXCEPT ![v] = <<epoch, currentage>>]
        PROVE  Met(w, s)'
    <3> DEFINE t == <<epoch, currentage>>
    <3>1. /\ data[0] \in [Words -> Stamps] /\ t \in Stamps /\ t[1] = epoch
          /\ UNCHANGED epoch
      BY <2>4, ZeroInSlots, CopiedStamp DEF TypeOK, CopyIn, history
    <3>2. Later(t, data[0][v]) /\ \A u \in Words : ~Later(data[0][u], t)
      BY <2>4, CopiedIsLater
    <3>3. \A u \in Words : data'[0][u] = IF u = v THEN t ELSE data[0][u]
      BY <2>4, <3>1
    <3>4. wpc = "copy" /\ v \notin copied
      BY <2>4 DEF CopyIn
    <3>5. SlotTorn => (v = 0 /\ Later(data[0][0], data[0][w]) => data[0][0][1] # epoch)
      BY <1>1, <3>4 DEF SlotTorn
    <3> HIDE DEF t
    <3>6. CASE v = 0
      <4>1. data'[0][0] = t /\ data'[0][w] = data[0][w]
        BY <1>1, <3>3, <3>6
      <4>2. ASSUME data[0][w] = s PROVE Calls(s) <= Calls(s)' /\ Calls(s) \in Int /\ Calls(s)' \in Int
        <5>1. ~Later(s, t)
          BY <1>1, <3>2, <4>2
        <5>2. Later(data[0][0], s) => data[0][0][1] < t[1]
          BY <1>1, <1>2, <3>1, <3>5, <3>6, <4>2 DEF Stamps
        <5>3. Later(t, data[0][0])
          BY <3>2, <3>6
        <5>4. data[0][0] = s \/ Later(data[0][0], s) \/ Later(s, data[0][0])
          BY <1>1, <1>2, LaterOrder
        <5> QED
          BY <1>1, <1>2, <2>1, <3>1, <4>1, <5>1, <5>2, <5>3, <5>4 DEF Calls, Later, Stamps
      <4> QED
        BY <1>1, <1>2, <1>3, <2>1, <3>1, <4>1, <4>2 DEF Met, Stamps
    <3>7. CASE v = w
      <4>1. data'[0][0] = data[0][0] /\ data'[0][w] = t
        BY <1>1, <3>3, <3>7
      <4>2. Calls(s)' = Calls(s)
        BY <2>1, <4>1 DEF Calls
      <4>3. CASE Later(s, t)
        <5>1. Later(s, data[0][w])
          BY <1>1, <1>2, <3>1, <3>2, <3>7, <4>3, LaterOrder
        <5>2. s # t /\ ~Later(t, s)
          BY <1>1, <3>1, <4>3, LaterOrder
        <5> QED
          BY <1>1, <2>1, <4>1, <5>1, <5>2 DEF Met
      <4>4. CASE s = t
        <5>1. Later(s, data[0][w]) /\ ~Later(s, s)
          BY <1>1, <3>2, <3>7, <4>4, LaterOrder
        <5>2. Calls(s) >= 1 /\ Calls(s) \in Int
          <6>1. ~Later(data[0][0], s)
            BY <1>1, <3>2, <4>4
          <6>2. data[0][0] = s \/ Later(s, data[0][0])
            BY <1>1, <1>2, <6>1, LaterOrder
          <6> QED
            BY <6>2 DEF Calls
        <5> QED
          BY <1>1, <1>3, <2>1, <4>1, <4>2, <4>4, <5>1, <5>2 DEF Met
      <4>5. CASE Later(t, s)
        <5>1. s # t /\ ~Later(s, t) /\ s[1] \in Nat /\ s[1] <= epoch
          BY <1>1, <1>2, <3>1, <4>5, LaterOrder DEF Later, Stamps
        <5>2. Times(w, s) + Kept(w, s) <= 4 + epoch - s[1]
          <6>1. CASE Later(s, data[0][w])
            BY <1>1, <1>2, <5>1, <6>1 DEF Met
          <6>2. CASE data[0][w] = s
            <7>1. Calls(s) <= 4 + epoch - s[1] /\ Calls(s) \in Int
              BY <1>1, <1>2, <5>1 DEF Calls, Stamps
            <7> QED
              BY <1>1, <1>2, <1>3, <5>1, <6>2, <7>1 DEF Met
          <6>3. CASE Later(data[0][w], s)
            BY <1>1, <6>3 DEF Met
          <6> QED
            BY <1>1, <1>2, <6>1, <6>2, <6>3, LaterOrder
        <5> QED
          BY <2>1, <3>1, <4>1, <5>1, <5>2 DEF Met
      <4> QED
        BY <1>1, <3>1, <4>3, <4>4, <4>5, LaterOrder
    <3>8. CASE v # 0 /\ v # w
      <4>1. data'[0][0] = data[0][0] /\ data'[0][w] = data[0][w]
        BY <1>1, <3>3, <3>8
      <4>2. Calls(s)' = Calls(s)
        BY <2>1, <4>1 DEF Calls
      <4> QED
        BY <1>1, <2>1, <3>1, <4>1, <4>2 DEF Met
    <3> QED
      BY <3>6, <3>7, <3>8
  <2> QED
    BY <1>5, <2>3, <2>4, SlotWrites
<1> QED
  BY <1>4, <1>5 DEF DirectNext

\* The invariant holds of a segment just created and a spy that has read nothing.
LEMMA DirectInvInit == DirectInit => DirectInv
<1> SUFFICES ASSUME DirectInit PROVE DirectInv
  OBVIOUS
<1>1. CopyInv /\ TypeOK
  BY CopyInvInit DEF DirectInit, CopyInv
<1>2. NoBlock \in [Words -> Stamps] /\ NoTimestamp \in Stamps /\ NoStamp \in Stamps
      /\ 0 \in Words /\ 0 \in Slots
  BY WordsAreCounted, ZeroInSlots DEF NoBlock, NoStamp, NoTimestamp, Stamps
<1>3. /\ pos = 0 /\ LastTimestamp = NoTimestamp /\ buffer = NoBlock /\ taken = <<>>
      /\ wpc = "rewind" /\ epoch = 0
  BY DEF DirectInit, Init
<1>4. \A w \in Words : data[0][w] = NoStamp
  BY <1>2 DEF DirectInit, Init, NoBlock
<1>5. DirectTypeOK
  BY <1>1, <1>2, <1>3 DEF DirectTypeOK
<1>6. SlotNotAhead /\ SlotTorn
  BY <1>3, <1>4 DEF SlotNotAhead, SlotTorn, NoStamp
<1>7. FirstWord /\ FirstHitsInOrder
  BY <1>3 DEF FirstWord, FirstHitsInOrder
<1>8. ASSUME NEW w \in Words \ {0}, NEW s \in Stamps \ {NoStamp} PROVE Met(w, s)
  <2>1. Later(s, NoStamp) /\ ~Later(NoStamp, s)
    BY DEF Later, Stamps, NoStamp
  <2>2. Kept(w, s) = 0
    BY <1>3, WordsAreCounted DEF Kept
  <2>3. Times(w, s) = 0
    <3>1. {l \in 1 .. Len(taken) : taken[l][w] = s} = {}
      BY <1>3
    <3> QED
      BY <3>1, FS_EmptySet DEF Times
  <2>4. data[0][w] = NoStamp
    BY <1>4
  <2> QED
    BY <2>1, <2>2, <2>3, <2>4 DEF Met
<1> QED
  BY <1>1, <1>5, <1>6, <1>7, <1>8 DEF DirectInv, Repeats

\* Every step keeps it.
LEMMA DirectInvStep == DirectInv /\ [DirectNext]_directVars => DirectInv'
<1> SUFFICES ASSUME DirectInv, [DirectNext]_directVars PROVE DirectInv'
  OBVIOUS
<1>1. CASE DirectNext
  <2>1. [Next]_vars
    BY <1>1 DEF DirectNext, Next, Spy, ReadFirst, ReadNext
  <2>2. CopyInv' /\ TypeOK'
    BY <2>1, CopyInvStep DEF DirectInv, CopyInv
  <2>3. TypeOK /\ PhaseClean /\ SlotBeingWritten
    BY DEF DirectInv, CopyInv
  <2>4. SlotNotAhead' /\ SlotTorn'
    <3>1. CASE Writer
      BY <2>3, <3>1, SlotNotAheadStep, SlotTornStep DEF DirectInv
    <3>2. CASE UNCHANGED vars
      BY <3>2 DEF DirectInv, SlotNotAhead, SlotTorn, vars, shared, writer, history
    <3> QED
      BY <1>1, <3>1, <3>2 DEF DirectNext, Spy, ReadFirst, ReadNext
  <2>5. DirectTypeOK' /\ FirstWord' /\ FirstHitsInOrder' /\ Repeats'
    BY <1>1, <2>2, <2>3, DirectTypeOKStep, FirstWordStep, FirstHitsInOrderStep, RepeatsStep DEF DirectInv
  <2> QED
    BY <2>2, <2>4, <2>5 DEF DirectInv
<1>2. CASE UNCHANGED directVars
  <2>1. UNCHANGED vars /\ UNCHANGED <<pos, LastTimestamp, buffer, taken>>
    BY <1>2 DEF directVars, direct
  <2>2. CopyInv' /\ TypeOK'
    BY <2>1, CopyInvStep DEF DirectInv, CopyInv
  <2>3. UNCHANGED <<data, epoch, wpc, next, copied, currentage>>
    BY <2>1 DEF vars, shared, writer, history
  <2>4. DirectTypeOK' /\ SlotNotAhead' /\ SlotTorn' /\ FirstWord' /\ FirstHitsInOrder'
    BY <2>1, <2>2, <2>3 DEF DirectInv, DirectTypeOK, SlotNotAhead, SlotTorn, FirstWord, FirstHitsInOrder
  <2>5. Repeats'
    BY <2>1, <2>3 DEF DirectInv, Repeats, Met, Times, Kept, Coming, Calls
  <2> QED
    BY <2>2, <2>4, <2>5 DEF DirectInv
<1> QED
  BY <1>1, <1>2

\* The invariant of the direct spy holds in every reachable state: what the first
\* slot may hold, the word remembered, and how often each word was met.
THEOREM DirectInvHolds == DirectSpec => []DirectInv
<1>1. DirectInit => DirectInv
  BY DirectInvInit
<1>2. DirectInv /\ [DirectNext]_directVars => DirectInv'
  BY DirectInvStep
<1> QED
  BY <1>1, <1>2, PTL DEF DirectSpec

\* The blocks SyncCheck's direct spy takes have first words in storing order, each
\* once, though it looks at no age and remembers only the last (SpyDataSink::Spy).
THEOREM FirstHitsStayInOrder == DirectSpec => []FirstHitsInOrder
<1>1. DirectInv => FirstHitsInOrder
  BY DEF DirectInv
<1> QED
  BY <1>1, DirectInvHolds, PTL

\* Another word of a block is handed over at most four times, and once more for each
\* later run of datasink, for every size of blocks and every interleaving.
THEOREM RepeatsStayBounded == DirectSpec => []RepeatsBounded
<1>1. ASSUME DirectInv PROVE RepeatsBounded
  <2>1. SUFFICES ASSUME NEW w \in Words \ {0}, NEW k \in 1 .. Len(taken), taken[k][w] # NoStamp
                 PROVE  Times(w, taken[k][w]) <= 4 + epoch - taken[k][w][1]
    BY DEF RepeatsBounded, Times
  <2>2. TypeOK /\ DirectTypeOK /\ SlotNotAhead
    BY <1>1 DEF DirectInv, CopyInv
  <2>3. taken[k][w] \in Stamps
    <3>1. taken \in Seq([Words -> Stamps]) /\ w \in Words
      BY <2>2 DEF DirectTypeOK
    <3>2. taken[k] \in [Words -> Stamps]
      BY <3>1, ElementOfSeq
    <3> QED
      BY <3>1, <3>2
  <2>4. PICK s \in Stamps \ {NoStamp} : s = taken[k][w]
    BY <2>1, <2>3
  <2>5. Met(w, s)
    BY <1>1 DEF DirectInv, Repeats
  <2>6. Times(w, s) \in Nat /\ Kept(w, s) \in {0, 1} /\ Coming(w) \in {0, 1} /\ Times(w, s) > 0
    BY <2>2, <2>4, TimesIsNumber
  <2>7. /\ data[0][0] \in Stamps /\ data[0][w] \in Stamps /\ epoch \in Nat
        /\ data[0][0][1] <= epoch /\ data[0][w][1] <= epoch
    BY <2>2, FirstSlotTyped, WordsAreCounted DEF SlotNotAhead, TypeOK
  <2>8. CASE Later(s, data[0][w])
    BY <2>5, <2>6, <2>8 DEF Met
  <2>9. CASE data[0][w] = s
    <3>0. s[1] \in Nat /\ s[1] <= epoch /\ data[0][0][1] \in Nat
      BY <2>4, <2>7, <2>9 DEF Stamps
    <3>1. Calls(s) <= 4 + epoch - s[1] /\ Calls(s) \in Int
      <4>1. CASE Later(s, data[0][0]) \/ data[0][0] = s
        BY <2>7, <3>0, <4>1 DEF Calls
      <4>2. CASE ~Later(s, data[0][0]) /\ data[0][0] # s
        <5>1. PICK n \in Nat : n = data[0][0][1]
          BY <3>0
        <5>2. PICK m \in Nat : m = s[1]
          BY <3>0
        <5>3. Calls(s) = (3 + n - m) + (IF LastTimestamp = data[0][0] THEN 1 ELSE 0)
          BY <4>2, <5>1, <5>2 DEF Calls
        <5>4. n <= epoch /\ epoch \in Nat
          BY <2>7, <5>1
        <5>5. PICK x \in {0, 1} : Calls(s) = (3 + n - m) + x
          BY <5>3
        <5>6. Calls(s) \in Int /\ Calls(s) <= 4 + epoch - m
          BY <5>4, <5>5
        <5> QED
          BY <5>2, <5>6
      <4> QED
        BY <4>1, <4>2
    <3> QED
      BY <2>4, <2>5, <2>6, <2>7, <2>9, <3>1, SMTT(20) DEF Met, Stamps
  <2>10. CASE Later(data[0][w], s)
    BY <2>4, <2>5, <2>6, <2>7, <2>10, SMTT(20) DEF Met, Stamps
  <2> QED
    BY <2>7, <2>8, <2>9, <2>10, LaterOrder
<1> QED
  BY <1>1, DirectInvHolds, PTL

=============================================================================
