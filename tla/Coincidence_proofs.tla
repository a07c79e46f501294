-------------------------- MODULE Coincidence_proofs --------------------------
(***************************************************************************)
(* Proofs about the merge maps of SyncCheck and SyncCheckTAS for every      *)
(* master, window, lifetime, range of time stamps and number of hits: what  *)
(* the erasing loop may drop, how often a hit is sent alone, and that the   *)
(* matching loops find the coincidences there are.                          *)
(***************************************************************************)
EXTENDS CoincidenceTAS, NumberLemmas

-----------------------------------------------------------------------------
(* The steps both programs share                                            *)

\* What is known of a hit
Hits == [PCtime : 0 .. MaxPasses, Mark : {0, 1, 2}, singly : Nat]

\* Hit r with mark m, counted as sent d times more
Marked(r, m, d) == [PCtime |-> r.PCtime, Mark |-> m, singly |-> r.singly + d]

\* Marking a hit, and counting it as sent, changes nothing else of it.
LEMMA MarkedHit ==
  \A r \in Hits, m \in {0, 1, 2}, d \in {0, 1} :
    [r EXCEPT !.Mark = m, !.singly = @ + d] = Marked(r, m, d)
<1> SUFFICES ASSUME NEW r \in Hits, NEW m \in {0, 1, 2}, NEW d \in {0, 1}
             PROVE  [r EXCEPT !.Mark = m, !.singly = @ + d] = Marked(r, m, d)
  OBVIOUS
<1>1. PICK time \in 0 .. MaxPasses, mark \in {0, 1, 2}, n \in Nat :
        r = [PCtime |-> time, Mark |-> mark, singly |-> n]
  BY DEF Hits
<1>2. r.PCtime = time /\ r.singly = n
  BY <1>1
<1>3. [r EXCEPT !.Mark = m, !.singly = @ + d] = [PCtime |-> time, Mark |-> m, singly |-> n + d]
  <2>1. PICK t : t = [r EXCEPT !.Mark = m]
    OBVIOUS
  <2>2. t = [PCtime |-> time, Mark |-> m, singly |-> n]
    BY <1>1, <2>1
  <2>3. [t EXCEPT !.singly = @ + d] = [PCtime |-> time, Mark |-> m, singly |-> n + d]
    BY <2>2
  <2>4. [r EXCEPT !.Mark = m, !.singly = @ + d] = [t EXCEPT !.singly = r.singly + d]
    BY ONLY <2>1, Zenon
  <2>5. t.singly = r.singly
    BY <1>2, <2>2
  <2> QED
    BY ONLY <2>3, <2>4, <2>5, Zenon
<1> QED
  BY <1>2, <1>3 DEF Marked

\* It stays a hit, and one marked as it was is the one it was.
LEMMA MarkedIsHit ==
  ASSUME NEW r \in Hits, NEW m \in {0, 1, 2}, NEW d \in {0, 1}
  PROVE  Marked(r, m, d) \in Hits /\ (r.Mark = m => Marked(r, m, 0) = r)
  BY DEF Marked, Hits

\* Hits that arrive are unmarked and due from now on; the others stay as they are.
LEMMA ArriveKeeps ==
  ASSUME HitsInv, Arrive, program' = program
  PROVE  HitsInv'
<1>1. PICK hits : Insert(hits)
  BY DEF Arrive
<1>2. /\ pc = "collect" /\ pc' = "erase" /\ now < MaxPasses /\ now' = now + 1
      /\ now \in Nat /\ MaxPasses \in Nat /\ MapTime \in Nat /\ now' \in 0 .. MaxPasses
  BY CoincidenceAssumption DEF HitsInv, MapOK, Arrive
<1>3. /\ Stored' = Stored \cup hits /\ DOMAIN due' = (hits \ Stored) \cup DOMAIN due
      /\ \A k \in Stored : MergeMap'[k] = MergeMap[k]
      /\ \A k \in hits \ Stored : MergeMap'[k] = [PCtime |-> now, Mark |-> 0, singly |-> 0]
      /\ \A k \in hits \ Stored : due'[k] = now
      /\ \A k \in DOMAIN due : k \notin hits \ Stored => due'[k] = due[k]
      /\ MergeMap' = [k \in Stored' |-> MergeMap'[k]]
  BY <1>1 DEF Insert, Stored
<1>4. \A k \in Stored' : MergeMap'[k] \in [PCtime : 0 .. MaxPasses, Mark : {0, 1, 2}, singly : Nat]
  BY <1>2, <1>3 DEF HitsInv, MapOK
<1>5. MapOK'
  BY <1>2, <1>3, <1>4 DEF HitsInv, MapOK
<1>6. SentIsMarked'
  BY <1>3 DEF HitsInv, SentIsMarked
<1>7. DueIsUnused'
  <2>1. \A k \in DOMAIN due' : due'[k] \in 0 .. now'
    BY <1>2, <1>3 DEF HitsInv, DueIsUnused
  <2>2. \A k \in DOMAIN due' \cap Stored' : due'[k] = MergeMap'[k].PCtime
    BY <1>3 DEF HitsInv, DueIsUnused
  <2>3. \A k \in DOMAIN due' \cap Stored' : Unused(k)'
    BY <1>2, <1>3 DEF HitsInv, DueIsUnused, Unused
  <2> QED
    BY <2>1, <2>2, <2>3 DEF DueIsUnused
<1>8. HitsStay'
  <2>1. \A k \in DOMAIN due : due[k] \in Nat
    BY <1>2 DEF HitsInv, DueIsUnused
  <2> QED
    BY <1>2, <1>3, <2>1 DEF HitsInv, HitsStay
<1> QED
  BY <1>5, <1>6, <1>7, <1>8 DEF HitsInv

\* A pass without a hit lets time go by.
LEMMA IdleKeeps ==
  ASSUME HitsInv, Idle, program' = program
  PROVE  HitsInv'
<1>1. /\ now' = now + 1 /\ now \in Nat /\ MaxPasses \in Nat /\ MapTime \in Nat
      /\ now' \in 0 .. MaxPasses /\ \A k \in DOMAIN due : due[k] \in 0 .. now
      /\ UNCHANGED <<MergeMap, pc, due>>
  BY CoincidenceAssumption DEF HitsInv, MapOK, DueIsUnused, Idle
<1>2. MapOK' /\ SentIsMarked'
  BY <1>1 DEF HitsInv, MapOK, SentIsMarked, Stored
<1>3. DueIsUnused'
  BY <1>1 DEF HitsInv, DueIsUnused, Unused, Stored
<1>4. HitsStay'
  BY <1>1 DEF HitsInv, HitsStay, Stored
<1> QED
  BY <1>2, <1>3, <1>4 DEF HitsInv

\* An erasing loop drops a hit that is too old or used up, wherever it goes next.
LEMMA DropKeeps ==
  ASSUME HitsInv, NEW k \in Stored, TooOld(k) \/ ~Unused(k),
         pc = "erase", pc' \in {"erase", "crashed"}, MergeMap' = Without(k),
         UNCHANGED <<now, due, program>>
  PROVE  HitsInv'
<1>1. /\ Stored' = Stored \ {k} /\ \A l \in Stored' : MergeMap'[l] = MergeMap[l]
      /\ MergeMap' = [l \in Stored' |-> MergeMap'[l]]
  BY DEF Without, Stored
<1>2. MapOK' /\ SentIsMarked'
  BY <1>1 DEF HitsInv, MapOK, SentIsMarked
<1>3. DueIsUnused'
  BY <1>1 DEF HitsInv, DueIsUnused, Unused
<1>4. k \in DOMAIN due => TooOld(k) /\ due[k] = MergeMap[k].PCtime
  BY DEF HitsInv, DueIsUnused
<1>5. k \in DOMAIN due => due[k] \in Nat /\ now \in Nat /\ MapTime \in Nat /\ due[k] < now - MapTime
  BY <1>4, CoincidenceAssumption DEF HitsInv, DueIsUnused, MapOK, TooOld
<1>6. HitsStay'
  BY <1>1, <1>5 DEF HitsInv, HitsStay
<1> QED
  BY <1>2, <1>3, <1>6 DEF HitsInv

\* A step that only moves an iterator keeps what is known of the hits.
LEMMA MoveKeeps ==
  ASSUME HitsInv, UNCHANGED <<MergeMap, now, due, program>>,
         pc' = pc \/ pc' \notin {"collect", "erase"}
  PROVE  HitsInv'
<1>1. MapOK' /\ SentIsMarked' /\ HitsStay'
  BY DEF HitsInv, MapOK, SentIsMarked, HitsStay, Stored
<1>2. DueIsUnused'
  BY DEF HitsInv, DueIsUnused, Unused, Stored
<1> QED
  BY <1>1, <1>2 DEF HitsInv

\* A matching loop sends hits that carry no mark and marks them.
LEMMA MatchKeeps ==
  ASSUME HitsInv, pc = "match", pc' = pc, UNCHANGED <<now, due, program>>,
         NEW sent \in SUBSET Stored, NEW marks \in [Stored -> {0, 1, 2}],
         \A k \in sent : MergeMap[k].Mark = 0 /\ marks[k] # 0,
         \A k \in Stored \ sent : marks[k] = 0 => MergeMap[k].Mark = 0,
         MergeMap' = [k \in Stored |->
           [MergeMap[k] EXCEPT !.Mark = marks[k],
                               !.singly = @ + (IF k \in sent THEN 1 ELSE 0)]]
  PROVE  HitsInv' /\ Stored' = Stored
<1>1. \A k \in Stored : MergeMap[k] \in Hits
  BY DEF HitsInv, MapOK, Hits
<1>2. Stored' = Stored /\ MergeMap' = [k \in Stored |-> MergeMap'[k]]
  BY DEF Stored
<1>3. ASSUME NEW k \in Stored
      PROVE  /\ MergeMap'[k] \in Hits
             /\ MergeMap'[k].Mark = marks[k] /\ MergeMap'[k].PCtime = MergeMap[k].PCtime
             /\ MergeMap'[k].singly = MergeMap[k].singly + (IF k \in sent THEN 1 ELSE 0)
  <2> DEFINE d == IF k \in sent THEN 1 ELSE 0
  <2>1. MergeMap'[k] = [MergeMap[k] EXCEPT !.Mark = marks[k], !.singly = @ + d]
    BY <1>3
  <2>2. MergeMap[k] \in Hits /\ marks[k] \in {0, 1, 2} /\ d \in {0, 1}
    BY <1>1, <1>3
  <2> HIDE DEF d
  <2>3. MergeMap'[k] = Marked(MergeMap[k], marks[k], d)
    BY ONLY <2>1, <2>2, MarkedHit, Zenon
  <2>4. MergeMap'[k] \in Hits
    BY ONLY <2>2, <2>3, MarkedIsHit
  <2>5. /\ MergeMap'[k].Mark = marks[k] /\ MergeMap'[k].PCtime = MergeMap[k].PCtime
        /\ MergeMap'[k].singly = MergeMap[k].singly + d
    BY ONLY <2>3 DEF Marked
  <2> QED
    BY <2>4, <2>5 DEF d
<1>4. MapOK'
  <2>1. MergeMap' \in [Stored -> Hits]
    BY <1>2, <1>3
  <2>2. now' \in 0 .. MaxPasses /\ program' \in {"SyncCheck", "SyncCheckTAS"}
    BY DEF HitsInv, MapOK
  <2> QED
    BY <1>2, <2>1, <2>2 DEF MapOK, Hits
<1>5. SentIsMarked'
  <2> SUFFICES ASSUME NEW k \in Stored
               PROVE  MergeMap'[k].singly <= (IF MergeMap'[k].Mark = 0 THEN 0 ELSE 1)
    BY <1>2 DEF SentIsMarked
  <2>1. MergeMap[k].singly \in Nat /\ MergeMap[k].singly <= (IF MergeMap[k].Mark = 0 THEN 0 ELSE 1)
    BY <1>1 DEF HitsInv, SentIsMarked, Hits
  <2>2. k \in sent => marks[k] # 0 /\ MergeMap[k].Mark = 0
    OBVIOUS
  <2>3. k \notin sent => MergeMap'[k].singly = MergeMap[k].singly + 0
    BY <1>3
  <2>4. k \notin sent /\ marks[k] = 0 => MergeMap[k].Mark = 0
    OBVIOUS
  <2>5. k \in sent => MergeMap'[k].singly = MergeMap[k].singly + 1
    BY <1>3
  <2>6. MergeMap'[k].Mark = marks[k]
    BY <1>3
  <2> QED
    BY ONLY <2>1, <2>2, <2>3, <2>4, <2>5, <2>6
<1>6. DueIsUnused'
  <2>1. \A k \in DOMAIN due \cap Stored : due[k] = MergeMap'[k].PCtime
    BY <1>3 DEF HitsInv, DueIsUnused
  <2> QED
    BY <1>2, <2>1 DEF HitsInv, DueIsUnused
<1>7. HitsStay'
  BY <1>2 DEF HitsInv, HitsStay
<1> QED
  BY <1>2, <1>3, <1>4, <1>5, <1>6, <1>7 DEF HitsInv

\* At the end of a pass the hits used in it are not due any more.
LEMMA PassKeeps ==
  ASSUME HitsInv, UNCHANGED <<MergeMap, now, program>>,
         due' = [k \in {l \in DOMAIN due : l \in Stored => Unused(l)} |-> due[k]]
  PROVE  HitsInv'
<1>1. /\ DOMAIN due' \subseteq DOMAIN due /\ \A k \in DOMAIN due' : due'[k] = due[k]
      /\ \A k \in DOMAIN due' \cap Stored : Unused(k)
  OBVIOUS
<1>2. MapOK' /\ SentIsMarked'
  BY DEF HitsInv, MapOK, SentIsMarked, Stored
<1>3. DueIsUnused'
  BY <1>1 DEF HitsInv, DueIsUnused, Unused, Stored
<1>4. HitsStay'
  BY <1>1 DEF HitsInv, HitsStay, Stored
<1> QED
  BY <1>2, <1>3, <1>4 DEF HitsInv

-----------------------------------------------------------------------------
(* The two loops                                                            *)

\* A round of SyncCheck's loop marks the hits around the master as MarkAfter says.
LEMMA CompareKeeps ==
  ASSUME HitsInv, Compare, program' = program
  PROVE  /\ HitsInv' /\ Stored' = Stored
         /\ \A l \in Stored :
              MergeMap'[l].Mark = IF l \in Around(itx) THEN MarkAfter(itx, l) ELSE MergeMap[l].Mark
<1> DEFINE marks == [l \in Stored |-> IF l \in Around(itx) THEN MarkAfter(itx, l) ELSE MergeMap[l].Mark]
<1>1. Fresh(itx) \subseteq Around(itx) /\ Around(itx) \subseteq Stored
      /\ \A l \in Fresh(itx) : MergeMap[l].Mark = 0
  BY DEF Fresh, Others, Around
<1>2. \A l \in Stored : MergeMap[l] \in Hits
  BY DEF HitsInv, MapOK, Hits
<1>3. /\ marks \in [Stored -> {0, 1, 2}]
      /\ \A l \in Fresh(itx) : marks[l] # 0
      /\ \A l \in Stored \ Fresh(itx) : marks[l] = 0 => MergeMap[l].Mark = 0
  BY <1>1, <1>2 DEF MarkAfter, Hits
<1>4. \A l \in Stored : l \notin Around(itx) =>
         MergeMap[l] = [MergeMap[l] EXCEPT !.Mark = marks[l],
                                           !.singly = @ + (IF l \in Fresh(itx) THEN 1 ELSE 0)]
  <2> SUFFICES ASSUME NEW l \in Stored, l \notin Around(itx)
               PROVE  MergeMap[l] = [MergeMap[l] EXCEPT !.Mark = marks[l], !.singly = @ + 0]
    BY <1>1
  <2>1. MergeMap[l] \in Hits /\ marks[l] \in {0, 1, 2} /\ marks[l] = MergeMap[l].Mark
    BY <1>2, <1>3
  <2>2. 0 \in {0, 1} /\ Marked(MergeMap[l], marks[l], 0) = MergeMap[l]
    BY ONLY <2>1, MarkedIsHit
  <2> QED
    BY ONLY <2>1, <2>2, MarkedHit, Zenon
<1>5. MergeMap' = [l \in Stored |->
         [MergeMap[l] EXCEPT !.Mark = marks[l],
                             !.singly = @ + (IF l \in Fresh(itx) THEN 1 ELSE 0)]]
  BY <1>4 DEF Compare
<1>6. pc = "match" /\ pc' = pc /\ UNCHANGED <<now, due>>
  BY DEF Compare
<1> HIDE DEF marks
<1>7. Fresh(itx) \in SUBSET Stored
  BY <1>1
<1>8. HitsInv'
  BY <1>1, <1>3, <1>5, <1>6, <1>7, MatchKeeps
<1>9. Stored' = Stored
  BY <1>1, <1>3, <1>5, <1>6, <1>7, MatchKeeps
<1>10. \A l \in Stored : MergeMap'[l].Mark = marks[l]
  <2> SUFFICES ASSUME NEW l \in Stored PROVE MergeMap'[l].Mark = marks[l]
    OBVIOUS
  <2> DEFINE d == IF l \in Fresh(itx) THEN 1 ELSE 0
  <2>1. MergeMap'[l] = [MergeMap[l] EXCEPT !.Mark = marks[l], !.singly = @ + d]
    BY <1>5
  <2>2. MergeMap[l] \in Hits /\ marks[l] \in {0, 1, 2} /\ d \in {0, 1}
    BY <1>2, <1>3
  <2> HIDE DEF d
  <2>3. MergeMap'[l] = Marked(MergeMap[l], marks[l], d)
    BY ONLY <2>1, <2>2, MarkedHit, Zenon
  <2> QED
    BY ONLY <2>3 DEF Marked
<1> QED
  BY <1>8, <1>9, <1>10 DEF marks

\* A round of SyncCheckTAS's loop marks the hits it sends, and no other.
LEMMA TasCompareKeeps ==
  ASSUME HitsInv, TasCompare, program' = program
  PROVE  /\ HitsInv' /\ Stored' = Stored
         /\ \A l \in Stored :
              MergeMap'[l].Mark =
                IF l \in Unsent(itx, compare1) \cup Unsent(itx, compare2) THEN 1 ELSE MergeMap[l].Mark
<1> DEFINE sent == Unsent(itx, compare1) \cup Unsent(itx, compare2)
           marks == [l \in Stored |-> IF l \in sent THEN 1 ELSE MergeMap[l].Mark]
<1>1. sent \subseteq Stored /\ \A l \in sent : MergeMap[l].Mark = 0
  BY DEF Unsent, Beside, OfSystem
<1> HIDE DEF sent
<1>2. \A l \in Stored : MergeMap[l] \in Hits
  BY DEF HitsInv, MapOK, Hits
<1>3. /\ marks \in [Stored -> {0, 1, 2}]
      /\ \A l \in sent : marks[l] # 0
      /\ \A l \in Stored \ sent : marks[l] = 0 => MergeMap[l].Mark = 0
  BY <1>1, <1>2 DEF Hits
<1>4. \A l \in Stored :
         (IF l \in sent THEN [MergeMap[l] EXCEPT !.Mark = 1, !.singly = @ + 1] ELSE MergeMap[l])
           = [MergeMap[l] EXCEPT !.Mark = marks[l], !.singly = @ + (IF l \in sent THEN 1 ELSE 0)]
  <2> SUFFICES ASSUME NEW l \in Stored, l \notin sent
               PROVE  MergeMap[l] = [MergeMap[l] EXCEPT !.Mark = marks[l], !.singly = @ + 0]
    OBVIOUS
  <2>1. MergeMap[l] \in Hits /\ marks[l] \in {0, 1, 2} /\ marks[l] = MergeMap[l].Mark
    BY <1>2, <1>3
  <2>2. 0 \in {0, 1} /\ Marked(MergeMap[l], marks[l], 0) = MergeMap[l]
    BY ONLY <2>1, MarkedIsHit
  <2> QED
    BY ONLY <2>1, <2>2, MarkedHit, Zenon
<1>5. MergeMap' = [l \in Stored |->
         [MergeMap[l] EXCEPT !.Mark = marks[l], !.singly = @ + (IF l \in sent THEN 1 ELSE 0)]]
  BY <1>4 DEF TasCompare, sent
<1>6. pc = "match" /\ pc' = pc /\ UNCHANGED <<now, due>>
  BY DEF TasCompare
<1> HIDE DEF marks
<1>7. sent \in SUBSET Stored
  BY <1>1
<1>8. HitsInv'
  BY <1>1, <1>3, <1>5, <1>6, <1>7, MatchKeeps
<1>9. Stored' = Stored
  BY <1>1, <1>3, <1>5, <1>6, <1>7, MatchKeeps
<1>10. \A l \in Stored : MergeMap'[l].Mark = marks[l]
  <2> SUFFICES ASSUME NEW l \in Stored PROVE MergeMap'[l].Mark = marks[l]
    OBVIOUS
  <2> DEFINE d == IF l \in sent THEN 1 ELSE 0
  <2>1. MergeMap'[l] = [MergeMap[l] EXCEPT !.Mark = marks[l], !.singly = @ + d]
    BY <1>5
  <2>2. MergeMap[l] \in Hits /\ marks[l] \in {0, 1, 2} /\ d \in {0, 1}
    BY <1>2, <1>3
  <2> HIDE DEF d
  <2>3. MergeMap'[l] = Marked(MergeMap[l], marks[l], d)
    BY ONLY <2>1, <2>2, MarkedHit, Zenon
  <2> QED
    BY ONLY <2>3 DEF Marked
<1> QED
  BY <1>8, <1>9, <1>10 DEF marks, sent

\* A step of SyncCheck keeps the invariant.
LEMMA NextKeeps ==
  ASSUME HitsInv, Next, program = "SyncCheck", program' = program
  PROVE  HitsInv'
<1>1. CASE Collect
  BY <1>1, ArriveKeeps DEF Collect
<1>2. CASE Idle
  BY <1>2, IdleKeeps
<1>3. CASE Erase
  <2>1. /\ pc = "erase" /\ pc' \in {"erase", "crashed"} /\ MergeMap' = Without(itx)
        /\ UNCHANGED <<now, due>> /\ (TooOld(itx) \/ ~Unused(itx))
    BY <1>3 DEF Erase, Used, Unused
  <2>2. CASE itx \in Stored
    BY <2>1, <2>2, DropKeeps
  <2>3. CASE itx \notin Stored
    <3>1. MergeMap' = MergeMap
      BY <2>1, <2>3 DEF Without, HitsInv, MapOK
    <3> QED
      BY <2>1, <3>1, MoveKeeps
  <2> QED
    BY <2>2, <2>3
<1>4. CASE Keep
  BY <1>4, MoveKeeps DEF Keep
<1>5. CASE EraseDone
  BY <1>5, MoveKeeps DEF EraseDone
<1>6. CASE Compare
  BY <1>6, CompareKeeps
<1>7. CASE RunsWild
  BY <1>7, MoveKeeps DEF RunsWild
<1>8. CASE NotMaster
  BY <1>8, MoveKeeps DEF NotMaster
<1>9. CASE PassDone
  BY <1>9, PassKeeps DEF PassDone, Unused
<1> QED
  BY <1>1, <1>2, <1>3, <1>4, <1>5, <1>6, <1>7, <1>8, <1>9 DEF Next

\* A step of SyncCheckTAS keeps the invariant.
LEMMA TasNextKeeps ==
  ASSUME HitsInv, TasNext, program = "SyncCheckTAS", program' = program
  PROVE  HitsInv'
<1>1. CASE TasCollect
  BY <1>1, ArriveKeeps DEF TasCollect
<1>2. CASE Idle
  BY <1>2, IdleKeeps
<1>3. CASE TasErase
  <2>1. /\ pc = "erase" /\ pc' \in {"erase", "crashed"} /\ MergeMap' = Without(itx)
        /\ UNCHANGED <<now, due>> /\ (TooOld(itx) \/ ~Unused(itx))
    BY <1>3 DEF TasErase, TasUsed, Unused
  <2>2. CASE itx \in Stored
    BY <2>1, <2>2, DropKeeps
  <2>3. CASE itx \notin Stored
    <3>1. MergeMap' = MergeMap
      BY <2>1, <2>3 DEF Without, HitsInv, MapOK
    <3> QED
      BY <2>1, <3>1, MoveKeeps
  <2> QED
    BY <2>2, <2>3
<1>4. CASE TasKeep
  BY <1>4, MoveKeeps DEF TasKeep
<1>5. CASE TasEraseDone
  BY <1>5, MoveKeeps DEF TasEraseDone
<1>6. CASE TasCompare
  BY <1>6, TasCompareKeeps
<1>7. CASE TasRunsWild
  BY <1>7, MoveKeeps DEF TasRunsWild
<1>8. CASE TasPassDone
  BY <1>8, PassKeeps DEF TasPassDone, Unused
<1> QED
  BY <1>1, <1>2, <1>3, <1>4, <1>5, <1>6, <1>7, <1>8 DEF TasNext

\* What is known of the hits, in every state of either program.
THEOREM HitsInvHolds == BothSpec => []HitsInv
<1>1. BothInit => HitsInv
  <2> SUFFICES ASSUME BothInit PROVE HitsInv
    OBVIOUS
  <2>1. Stored = {} /\ DOMAIN due = {} /\ now = 0 /\ MergeMap \in [{} -> {}]
    BY DEF BothInit, Init, Stored
  <2> QED
    BY <2>1, CoincidenceAssumption
    DEF BothInit, HitsInv, MapOK, SentIsMarked, DueIsUnused, HitsStay
<1>2. HitsInv /\ [BothNext]_bothVars => HitsInv'
  <2> SUFFICES ASSUME HitsInv, [BothNext]_bothVars PROVE HitsInv'
    OBVIOUS
  <2>1. CASE BothNext
    BY <2>1, NextKeeps, TasNextKeeps DEF BothNext
  <2>2. CASE UNCHANGED bothVars
    BY <2>2, MoveKeeps DEF bothVars, vars
  <2> QED
    BY <2>1, <2>2
<1> QED
  BY <1>1, <1>2, PTL DEF BothSpec

\* A hit is sent alone at most once, in either program, by however many masters
\* and in however many passes it is seen.
THEOREM SinglesOnce == BothSpec => []SentAloneOnce
<1>1. HitsInv => SentAloneOnce
  BY DEF HitsInv, MapOK, SentIsMarked, SentAloneOnce
<1> QED
  BY <1>1, HitsInvHolds, PTL

\* A hit that was not used up stays for MapTime seconds, wherever the erasing
\* loop goes after it has freed the element it stands on.
THEOREM YoungHitsStay == BothSpec => []HitsStay
<1>1. HitsInv => HitsStay
  BY DEF HitsInv
<1> QED
  BY <1>1, HitsInvHolds, PTL

-----------------------------------------------------------------------------
(* Keys and iterators                                                       *)

\* A key is between 0 and the end, and its system and time stamp come out of it.
LEMMA KeyFacts ==
  ASSUME NEW k \in Keys
  PROVE  /\ k \in Nat /\ k <= Key(MaxStamp, 2) /\ Key(MaxStamp, 2) \in Nat
         /\ k < End /\ End = 2 * (Window + Key(MaxStamp, 2) + 1) /\ End \in Nat
         /\ SystemOf(k) \in Systems /\ StampOf(k) \in Nat
<1>1. PICK ts \in 0 .. MaxStamp, id \in Systems : k = ts * Shift + id
  BY DEF Keys, Key
<1>2. MaxStamp \in Nat /\ Shift \in Nat /\ Shift > 2 /\ Window \in Nat
  BY CoincidenceAssumption
<1>3. ts \in Nat /\ MaxStamp - ts \in Nat /\ id \in 0 .. 2
  BY <1>1, <1>2 DEF Systems
<1>4. ts * Shift \in Nat /\ (MaxStamp - ts) * Shift \in Nat /\ MaxStamp * Shift \in Nat
  BY <1>2, <1>3, SMT
<1>5. MaxStamp * Shift = ts * Shift + (MaxStamp - ts) * Shift
  BY <1>2, <1>3, SMT
<1>6. k \in Nat /\ k <= MaxStamp * Shift + 2
  BY <1>1, <1>3, <1>4, <1>5
<1>7. SystemOf(k) = id /\ StampOf(k) = ts
  <2>1. k = Shift * ts + id /\ id \in 0 .. Shift - 1 /\ ts \in Int /\ Shift >= 1
    BY <1>1, <1>2, <1>3, SMT
  <2>2. (Shift * ts + id) \div Shift = ts /\ (Shift * ts + id) % Shift = id
    BY <1>2, <2>1, DivModOfSum
  <2> QED
    BY <2>1, <2>2 DEF SystemOf, StampOf
<1>8. Key(MaxStamp, 2) = MaxStamp * Shift + 2
  BY DEF Key
<1>9. KeyMod = 2 * (Window + Key(MaxStamp, 2) + 1)
  BY DEF KeyMod
<1> QED
  BY <1>1, <1>2, <1>3, <1>4, <1>6, <1>7, <1>8, <1>9 DEF End

\* A set of keys is finite.
LEMMA KeysFinite ==
  ASSUME NEW S \in SUBSET Keys
  PROVE  S \in SUBSET Nat /\ IsFiniteSet(S)
<1>1. \A k \in S : k \in Nat /\ k <= Key(MaxStamp, 2) /\ Key(MaxStamp, 2) \in Nat
  BY KeyFacts
<1>2. CASE S = {}
  BY <1>2, FS_EmptySet
<1>3. CASE S # {}
  BY <1>1, <1>3, FS_BoundedSetOfNaturals
<1> QED
  BY <1>2, <1>3

\* begin() is the least key of a set, or the end.
LEMMA FirstIs ==
  ASSUME NEW S \in SUBSET Keys
  PROVE  /\ First(S) \in S \cup {End} /\ (First(S) = End <=> S = {})
         /\ First(S) \in Int
         /\ \A k \in S : First(S) <= k /\ k < End
<1>1. \A k \in S : k \in Nat /\ k < End /\ End \in Nat
  BY KeyFacts
<1>2. CASE S = {}
  <2>1. End \in Int
    BY CoincidenceAssumption DEF End, KeyMod, Key
  <2> QED
    BY <1>2, <2>1 DEF First
<1>3. CASE S # {}
  <2>1. PICK n \in S : \A m \in S : n <= m
    BY <1>1, <1>3, LeastNumber
  <2>2. First(S) = CHOOSE k \in S : \A l \in S : k <= l
    BY <1>3 DEF First
  <2>3. First(S) \in S /\ \A l \in S : First(S) <= l
    BY <2>1, <2>2
  <2>4. First(S) # End
    BY <1>1, <2>3
  <2> QED
    BY <1>1, <1>3, <2>3, <2>4
<1> QED
  BY <1>2, <1>3

\* What lower_bound returns: the keys from it on are those not below c.
LEMMA LowerBound ==
  ASSUME NEW S \in SUBSET Keys, NEW c \in Int, NEW l \in S
  PROVE  First({k \in S : k >= c}) <= l <=> l >= c
<1> DEFINE T == {k \in S : k >= c}
<1>1. T \in SUBSET Keys /\ l \in Int /\ (l \in T <=> l >= c)
  BY KeyFacts
<1>2. /\ First(T) \in T \cup {End} /\ First(T) \in Int /\ l < End /\ End \in Int
      /\ l \in T => First(T) <= l
      /\ First(T) \in T => First(T) >= c
  <2>1. l < End /\ End \in Int
    BY KeyFacts
  <2>2. First(T) \in T => First(T) >= c
    OBVIOUS
  <2> HIDE DEF T
  <2> QED
    BY <1>1, <2>1, <2>2, FirstIs
<1> HIDE DEF T
<1>3. First(T) <= l <=> l >= c
  BY <1>1, <1>2
<1> QED
  BY <1>3 DEF T

\* What upper_bound returns: the keys before it are those not above c.
LEMMA UpperBound ==
  ASSUME NEW S \in SUBSET Keys, NEW c \in Int, NEW l \in S
  PROVE  l < First({k \in S : k > c}) <=> l <= c
<1> DEFINE T == {k \in S : k > c}
<1>1. T \in SUBSET Keys /\ l \in Int /\ (l \in T <=> l > c)
  BY KeyFacts
<1>2. /\ First(T) \in T \cup {End} /\ First(T) \in Int /\ l < End /\ End \in Int
      /\ l \in T => First(T) <= l
      /\ First(T) \in T => First(T) > c
  <2>1. l < End /\ End \in Int
    BY KeyFacts
  <2>2. First(T) \in T => First(T) > c
    OBVIOUS
  <2> HIDE DEF T
  <2> QED
    BY <1>1, <2>1, <2>2, FirstIs
<1> HIDE DEF T
<1>3. l < First(T) <=> l <= c
  BY <1>1, <1>2
<1> QED
  BY <1>3 DEF T

\* The successor of a key: what is before it is that key or before it.
LEMMA SuccIs ==
  ASSUME NEW S \in SUBSET Keys, NEW k \in S
  PROVE  /\ Succ(S, k) \in S \cup {End}
         /\ \A l \in S : l < Succ(S, k) <=> l <= k
<1>1. k \in Int
  BY KeyFacts
<1>2. First({l \in S : l > k}) \in S \cup {End}
  BY FirstIs
<1>3. \A l \in S : l < First({x \in S : x > k}) <=> l <= k
  BY <1>1, UpperBound
<1> QED
  BY <1>2, <1>3 DEF Succ

-----------------------------------------------------------------------------
(* The maps under the loops                                                 *)

\* The iterator the loops of SyncCheckTAS begin with, or go on with
LEMMA FirstFromIs ==
  ASSUME Stored \subseteq Keys, NEW s \in Int
  PROVE  FirstFrom(s) \in Stored \cup {End}
<1> DEFINE filled == {j \in s .. 2 : OfSystem(j) # {}}
           j == First(filled)
<1> HIDE DEF j
<1>1. OfSystem(j) \in SUBSET Keys /\ OfSystem(j) \subseteq Stored
  BY DEF OfSystem
<1>2. First(OfSystem(j)) \in Stored \cup {End}
  BY <1>1, FirstIs
<1> QED
  BY <1>2 DEF FirstFrom, j

\* What a master hit sends alone: an element for each fresh hit.
LEMMA SinglesAre ==
  ASSUME Stored \subseteq Keys, NEW m \in Stored
  PROVE  /\ Singles(m) \in Seq(Outputs) /\ Len(Singles(m)) = Cardinality(Fresh(m))
         /\ Cardinality(Fresh(m)) \in Nat
         /\ \A y : Has(Singles(m), y) <=> \E l \in Fresh(m) : y = Single(m, l)
<1> DEFINE s == Ascending(Fresh(m))
           n == Cardinality(Fresh(m))
<1>1. Fresh(m) \in SUBSET Keys /\ Fresh(m) \subseteq Stored
  BY DEF Fresh, Others, Around
<1>2. Fresh(m) \in SUBSET Int /\ IsFiniteSet(Fresh(m))
  BY <1>1, KeysFinite
<1>3. /\ Len(s) = n /\ n \in Nat
      /\ \A i \in 1 .. n : s[i] \in Fresh(m)
      /\ \A l : Has(s, l) <=> l \in Fresh(m)
  BY <1>2, AscendingElements
<1>4. Singles(m) = [i \in 1 .. n |-> Single(m, s[i])]
  BY <1>3 DEF Singles
<1>5. \A l \in Fresh(m) : Single(m, l) \in Outputs
  BY <1>1 DEF Single, Outputs
<1> HIDE DEF s, n
<1>6. Singles(m) \in Seq(Outputs) /\ Len(Singles(m)) = n
  BY <1>3, <1>4, <1>5
<1>7. \A y : Has(Singles(m), y) <=> \E l \in Fresh(m) : y = Single(m, l)
  BY <1>3, <1>4, <1>6 DEF Has
<1> QED
  BY <1>3, <1>6, <1>7 DEF n

\* The element a master hit sends for a pair
LEMMA DoubleIs ==
  ASSUME Stored \subseteq Keys, NEW m \in Stored
  PROVE  /\ Double(m) \in Seq(Outputs) /\ Others(m) \subseteq Stored
         /\ Ncoinc(m) = 3 /\ Cardinality(Others(m)) = 2 =>
              /\ Len(Double(m)) = 1 /\ Double(m)[1].master = m
              /\ Double(m)[1].x \in Keys /\ Double(m)[1].y \in Keys
              /\ {Double(m)[1].x, Double(m)[1].y} = Others(m)
         /\ ~(Ncoinc(m) = 3 /\ Cardinality(Others(m)) = 2) => Double(m) = <<>>
<1> DEFINE two == Ascending(Others(m))
           d == [master |-> m, x |-> two[1], y |-> two[2]]
<1>1. Others(m) \in SUBSET Keys /\ Others(m) \subseteq Stored
  BY DEF Others, Around
<1>2. Others(m) \in SUBSET Int /\ IsFiniteSet(Others(m))
  BY <1>1, KeysFinite
<1>3. /\ Len(two) = Cardinality(Others(m))
      /\ \A i \in 1 .. Len(two) : two[i] \in Others(m)
      /\ \A l : Has(two, l) <=> l \in Others(m)
  BY <1>2, AscendingElements
<1>4. Double(m) = IF Ncoinc(m) = 3 /\ Len(two) = 2 THEN <<d>> ELSE <<>>
  BY DEF Double
<1> HIDE DEF two
<1>5. CASE Ncoinc(m) = 3 /\ Len(two) = 2
  <2>1. two[1] \in Others(m) /\ two[2] \in Others(m) /\ two[1] \in Keys /\ two[2] \in Keys
    BY <1>1, <1>3, <1>5
  <2>2. \A l \in Others(m) : l = two[1] \/ l = two[2]
    BY <1>3, <1>5 DEF Has
  <2>3. /\ d \in Outputs /\ d.master = m /\ d.x = two[1] /\ d.y = two[2]
    BY <1>1, <2>1 DEF Outputs
  <2> HIDE DEF d
  <2>4. Double(m) \in Seq(Outputs) /\ Len(Double(m)) = 1 /\ Double(m)[1] = d
    BY <1>4, <1>5, <2>3
  <2>5. {d.x, d.y} = Others(m)
    BY <2>1, <2>2, <2>3
  <2> QED
    BY <1>1, <1>3, <1>5, <2>1, <2>3, <2>4, <2>5
<1>6. CASE ~(Ncoinc(m) = 3 /\ Len(two) = 2)
  BY <1>1, <1>3, <1>4, <1>6
<1> QED
  BY <1>5, <1>6

\* The two systems a master is compared with are the others.
LEMMA ComparedWith ==
  /\ compare1 \in Systems /\ compare2 \in Systems /\ compare1 # compare2
  /\ \A s \in Systems : s # Master <=> s = compare1 \/ s = compare2
  BY CoincidenceAssumption DEF compare1, compare2, Systems

\* What a master hit sends in SyncCheckTAS: an element for each unsent hit.
LEMMA TasSinglesAre ==
  ASSUME Stored \subseteq Keys, NEW m \in Stored
  PROVE  LET sent == Unsent(m, compare1) \cup Unsent(m, compare2) IN
         /\ TasSingles(m) \in Seq(Outputs) /\ Len(TasSingles(m)) = Cardinality(sent)
         /\ sent \subseteq Stored /\ IsFiniteSet(sent)
         /\ \A y : Has(TasSingles(m), y) <=> \E l \in sent : y = TasSingle(m, l)
<1> DEFINE U == Unsent(m, compare1)
           V == Unsent(m, compare2)
           s == Ascending(U) \o Ascending(V)
           n == Cardinality(U \cup V)
<1>1. /\ U \in SUBSET Keys /\ V \in SUBSET Keys /\ U \cup V \subseteq Stored
      /\ \A l \in U : SystemOf(l) = compare1
      /\ \A l \in V : SystemOf(l) = compare2
  BY DEF Unsent, Beside, OfSystem
<1>2. TasSingles(m) = [i \in DOMAIN s |-> TasSingle(m, s[i])]
  BY DEF TasSingles
<1> HIDE DEF U, V
<1>3. /\ U \in SUBSET Int /\ IsFiniteSet(U) /\ V \in SUBSET Int /\ IsFiniteSet(V)
  BY <1>1, KeysFinite
<1>4. /\ Ascending(U) \in Seq(U) /\ Len(Ascending(U)) = Cardinality(U)
      /\ \A x : Has(Ascending(U), x) <=> x \in U
  BY <1>3, AscendingElements
<1>5. /\ Ascending(V) \in Seq(V) /\ Len(Ascending(V)) = Cardinality(V)
      /\ \A x : Has(Ascending(V), x) <=> x \in V
  BY <1>3, AscendingElements
<1>6. Ascending(U) \in Seq(Keys) /\ Ascending(V) \in Seq(Keys)
  BY <1>1, <1>4, <1>5, SeqMonotonic
<1>7. s \in Seq(Keys) /\ Len(s) = Cardinality(U) + Cardinality(V)
  <2>1. s \in Seq(Keys) /\ Len(s) = Len(Ascending(U)) + Len(Ascending(V))
    BY <1>6, ConcatElements
  <2> QED
    BY <1>4, <1>5, <2>1
<1>8. \A y : Has(s, y) <=> y \in U \cup V
  BY <1>4, <1>5, <1>6, ConcatElements
<1> HIDE DEF s
<1>9. IsFiniteSet(U \cup V) /\ n \in Nat /\ Len(s) = n
  <2>1. \A l \in U : l \notin V
    BY <1>1, ComparedWith
  <2>2. /\ IsFiniteSet(U \cup V) /\ Cardinality(U) \in Nat /\ Cardinality(V) \in Nat
        /\ n = Cardinality(U) + Cardinality(V)
    BY <1>3, <2>1, DisjointUnion
  <2> QED
    BY <1>4, <1>5, <1>7, <2>2
<1>10. TasSingles(m) = [i \in 1 .. n |-> TasSingle(m, s[i])]
  BY <1>2, <1>7, <1>9, LenProperties
<1>11. \A l \in U \cup V : TasSingle(m, l) \in Outputs
  BY <1>1 DEF TasSingle, Outputs
<1>12. \A i \in 1 .. n : s[i] \in U \cup V
  BY <1>8, <1>9 DEF Has
<1> HIDE DEF n
<1>13. TasSingles(m) \in Seq(Outputs) /\ Len(TasSingles(m)) = n
  BY <1>9, <1>10, <1>11, <1>12
<1>14. \A y : Has(TasSingles(m), y) <=> \E l \in U \cup V : y = TasSingle(m, l)
  BY <1>8, <1>9, <1>10, <1>12, <1>13 DEF Has
<1> QED
  BY <1>1, <1>9, <1>13, <1>14 DEF n, U, V

\* A step of either program keeps the maps and the iterator in bounds.
LEMMA WalkKeeps ==
  ASSUME HitsInv, WalkOK, BothNext
  PROVE  WalkOK'
<1>1. /\ Stored \subseteq Keys /\ DOMAIN before \subseteq Keys /\ itx \in Keys \cup {End}
      /\ out \in Seq(Outputs) /\ (pc = "erase" => out = <<>>)
      /\ pc = "match" => Stored = DOMAIN before /\ (itx # End => itx \in Stored)
  BY DEF WalkOK
<1>2. \A S \in SUBSET Keys : First(S) \in S \cup {End}
  BY FirstIs
<1>3. \A S \in SUBSET Keys : \A k : Succ(S, k) \in S \cup {End}
  BY <1>2 DEF Succ
<1>4. \A s \in Int : FirstFrom(s) \in Stored \cup {End}
  BY <1>1, FirstFromIs
<1>5. <<>> \in Seq(Outputs)
  OBVIOUS
<1>6. ASSUME Arrive, itx' = First(Stored') \/ itx' = FirstFrom(0)'
      PROVE  WalkOK'
  <2>1. Stored' \subseteq Keys /\ out' = <<>> /\ pc' = "erase" /\ before' = before
    <3>1. PICK hits : hits \subseteq Keys /\ Insert(hits)
      BY <1>6 DEF Arrive, kSubset
    <3>2. hits \subseteq Keys
      BY <3>1
    <3> QED
      BY <1>1, <1>6, <3>1, <3>2 DEF Arrive, Insert, Stored
  <2>2. First(Stored') \in Stored' \cup {End}
    BY <2>1, FirstIs
  <2>3. FirstFrom(0)' \in Keys \cup {End}
    <3> DEFINE j == First({i \in 0 .. 2 : OfSystem(i)' # {}})
               held == {k \in Stored' : SystemOf(k) = j}
    <3>1. FirstFrom(0)' = IF {i \in 0 .. 2 : OfSystem(i)' # {}} = {} THEN End ELSE First(held)
      BY DEF FirstFrom, OfSystem
    <3>2. held \in SUBSET Keys
      BY <2>1
    <3> HIDE DEF held
    <3>3. First(held) \in Keys \cup {End}
      BY <3>2, FirstIs
    <3> QED
      BY <3>1, <3>3
  <2> QED
    BY <1>1, <1>5, <1>6, <2>1, <2>2, <2>3 DEF WalkOK
<1>7. ASSUME MergeMap' = Without(itx), UNCHANGED <<out, before>>, pc = "erase",
             pc' \in {"erase", "crashed"}, itx' \in Stored \cup {End, itx}
      PROVE  WalkOK'
  <2>1. Stored' \subseteq Stored
    BY <1>7 DEF Without, Stored
  <2> QED
    BY <1>1, <1>7, <2>1 DEF WalkOK
<1>8. ASSUME UNCHANGED <<MergeMap, out, before>>, itx' \in Stored \cup {End, itx},
             pc' = pc \/ pc' \in {"wild", "collect"}, pc = "match" => itx' \in Stored \cup {End}
      PROVE  WalkOK'
  BY <1>1, <1>8 DEF WalkOK, Stored
<1>9. ASSUME EraseDone \/ TasEraseDone PROVE WalkOK'
  <2>1. itx' \in Stored \cup {End}
    <3>1. Stored \in SUBSET Keys /\ OfSystem(Master) \in SUBSET Keys /\ OfSystem(Master) \subseteq Stored
      BY <1>1 DEF OfSystem
    <3> QED
      BY <1>2, <1>9, <3>1 DEF EraseDone, TasEraseDone
  <2>2. DOMAIN before' = Stored' /\ Stored' = Stored /\ out' = out
    BY <1>9 DEF EraseDone, TasEraseDone, Stored
  <2>3. pc' = "match"
    BY <1>9 DEF EraseDone, TasEraseDone
  <2> QED
    BY <1>1, <2>1, <2>2, <2>3 DEF WalkOK
<1>10. ASSUME pc = "match", pc' = pc, Stored' = Stored, before' = before, NEW s \in Seq(Outputs),
              out' = out \o s, itx' \in Stored \cup {End}
       PROVE  WalkOK'
  <2>1. out \o s \in Seq(Outputs)
    BY <1>1, <1>10, ConcatProperties
  <2> QED
    BY <1>1, <1>10, <2>1 DEF WalkOK
<1>11. CASE program = "SyncCheck" /\ Next
  <2>1. CASE Collect
    BY <1>6, <2>1 DEF Collect
  <2>2. CASE Idle
    BY <1>1, <1>5, <2>2 DEF Idle, WalkOK, Stored
  <2>3. CASE Erase
    BY <1>7, <2>3 DEF Erase
  <2>4. CASE Keep
    BY <1>1, <1>3, <1>8, <2>4 DEF Keep
  <2>5. CASE EraseDone
    BY <1>9, <2>5
  <2>6. CASE Compare
    <3>1. itx \in Stored /\ pc = "match" /\ pc' = pc /\ before' = before
          /\ itx' = Succ(Stored, itx) /\ out' = out \o Singles(itx) \o Double(itx)
      BY <1>1, <2>6 DEF Compare
    <3>2. Singles(itx) \in Seq(Outputs) /\ Double(itx) \in Seq(Outputs)
      BY <1>1, <3>1, SinglesAre, DoubleIs
    <3>3. Singles(itx) \o Double(itx) \in Seq(Outputs)
      BY <3>2, ConcatProperties
    <3>4. out' = out \o (Singles(itx) \o Double(itx))
      <4>1. out \in Seq(Outputs) /\ out' = out \o Singles(itx) \o Double(itx)
        BY <1>1, <3>1
      <4> QED
        BY ONLY <3>2, <4>1, ConcatAssociative
    <3>5. Stored' = Stored
      BY <1>11, <2>6, CompareKeeps DEF BothNext
    <3> QED
      BY <1>1, <1>3, <1>10, <3>1, <3>3, <3>4, <3>5
  <2>7. CASE RunsWild
    BY <1>1, <1>8, <2>7 DEF RunsWild
  <2>8. CASE NotMaster
    BY <1>1, <1>3, <1>8, <2>8 DEF NotMaster
  <2>9. CASE PassDone
    BY <1>1, <1>8, <2>9 DEF PassDone
  <2> QED
    BY <1>11, <2>1, <2>2, <2>3, <2>4, <2>5, <2>6, <2>7, <2>8, <2>9 DEF Next
<1>12. CASE program = "SyncCheckTAS" /\ TasNext
  <2>0. \A s : OfSystem(s) \in SUBSET Keys /\ OfSystem(s) \subseteq Stored
    BY <1>1 DEF OfSystem
  <2>1. CASE TasCollect
    BY <1>6, <2>1 DEF TasCollect
  <2>2. CASE Idle
    BY <1>1, <1>5, <2>2 DEF Idle, WalkOK, Stored
  <2>3. ASSUME itx \in Keys PROVE FirstFrom(SystemOf(itx) + 1) \in Stored \cup {End}
    <3>1. SystemOf(itx) + 1 \in Int
      BY <2>3, KeyFacts DEF Systems
    <3> QED
      BY <1>4, <3>1
  <2>4. CASE TasErase
    <3>1. itx \in Keys
      BY <1>1, <2>4 DEF TasErase
    <3> QED
      BY <1>7, <2>0, <2>3, <2>4, <3>1 DEF TasErase
  <2>5. CASE TasKeep
    <3>1. itx \in Keys
      BY <1>1, <2>5 DEF TasKeep
    <3>2. Succ(OfSystem(SystemOf(itx)), itx) \in Stored \cup {End}
      BY <1>3, <2>0
    <3>3. Behind(itx) \in Stored \cup {End}
      BY <2>3, <3>1, <3>2 DEF Behind
    <3> QED
      BY <1>1, <1>8, <2>5, <3>3 DEF TasKeep
  <2>6. CASE TasEraseDone
    BY <1>9, <2>6
  <2>7. CASE TasCompare
    <3>1. itx \in Stored /\ pc = "match" /\ pc' = pc /\ before' = before
          /\ itx' = Succ(OfSystem(Master), itx) /\ out' = out \o TasSingles(itx)
      BY <1>1, <2>7 DEF TasCompare
    <3>2. TasSingles(itx) \in Seq(Outputs)
      BY <1>1, <3>1, TasSinglesAre
    <3>3. Stored' = Stored
      BY <1>12, <2>7, TasCompareKeeps DEF BothNext
    <3>4. Succ(OfSystem(Master), itx) \in Stored \cup {End}
      BY <1>3, <2>0
    <3> QED
      BY <1>10, <3>1, <3>2, <3>3, <3>4
  <2>8. CASE TasRunsWild
    BY <1>1, <1>8, <2>8 DEF TasRunsWild
  <2>9. CASE TasPassDone
    BY <1>1, <1>8, <2>9 DEF TasPassDone
  <2> QED
    BY <1>12, <2>1, <2>2, <2>4, <2>5, <2>6, <2>7, <2>8, <2>9 DEF TasNext
<1> QED
  BY <1>11, <1>12 DEF BothNext

-----------------------------------------------------------------------------
(* The loop of SyncCheckTAS                                                 *)

\* A loop that begins at the first key of a set has none of the set before it.
LEMMA FirstHasNoneBefore ==
  ASSUME NEW S \in SUBSET Keys, NEW m \in S
  PROVE  ~(m < First(S))
<1>1. First(S) <= m /\ First(S) \in Int
  BY FirstIs
<1>2. m \in Int
  BY KeyFacts
<1> QED
  BY <1>1, <1>2

\* The unsent hits of a master are those of other systems near it.
LEMMA UnsentAreNear ==
  ASSUME WalkOK, pc = "match", NEW m \in Stored, SystemOf(m) = Master, NEW l \in Stored
  PROVE  l \in Unsent(m, compare1) \cup Unsent(m, compare2)
           <=> SystemOf(l) # Master /\ MergeMap[l].Mark = 0 /\ m \in TasMasters(l)
<1>1. m \in Keys /\ l \in Keys /\ Stored = DOMAIN before
  BY DEF WalkOK
<1>2. StampOf(m) \in Nat /\ StampOf(l) \in Nat /\ SystemOf(l) \in Systems
  BY <1>1, KeyFacts
<1>3. Reach \in Int
  <2>1. Window \in Int /\ Shift \in Nat /\ Shift >= 1
    BY CoincidenceAssumption
  <2> QED
    BY <2>1, DivMod DEF Reach
<1>4. StampOf(l) \in StampOf(m) - Reach .. StampOf(m) + Reach
        <=> StampOf(l) - StampOf(m) \in -Reach .. Reach
  BY <1>2, <1>3
<1>5. SystemOf(l) # Master <=> SystemOf(l) = compare1 \/ SystemOf(l) = compare2
  BY <1>2, ComparedWith
<1>6. Wraps(m) <=> ~(StampOf(m) >= Reach)
  BY <1>2, <1>3 DEF Wraps
<1>7. m \in TasMasters(l)
        <=> StampOf(m) >= Reach /\ StampOf(l) \in StampOf(m) - Reach .. StampOf(m) + Reach
  BY <1>1, <1>4 DEF TasMasters
<1>8. \A c : l \in Unsent(m, c)
          <=> /\ SystemOf(l) = c /\ MergeMap[l].Mark = 0 /\ ~Wraps(m)
              /\ StampOf(l) \in StampOf(m) - Reach .. StampOf(m) + Reach
  BY DEF Unsent, Beside, OfSystem
<1> QED
  BY <1>5, <1>6, <1>7, <1>8

\* A round of the loop sends the hits near its master that none before it has seen.
LEMMA TasRound ==
  ASSUME HitsInv, WalkOK, TasWalk, program = "SyncCheckTAS", program' = program, TasCompare
  PROVE  TasWalk'
<1> DEFINE m == itx
           U == Unsent(m, compare1) \cup Unsent(m, compare2)
           D == DueBefore(itx)
           E == DueBefore(itx)'
<1>1. /\ pc = "match" /\ m \in Stored /\ SystemOf(m) = Master /\ m \in Keys
      /\ Stored = DOMAIN before /\ Stored \subseteq Keys /\ out \in Seq(Outputs)
      /\ before' = before /\ itx' = Succ(OfSystem(Master), m) /\ out' = out \o TasSingles(m)
  BY DEF WalkOK, TasWalk, TasCompare
<1>2. /\ \A l \in Stored : SystemOf(l) # Master =>
           (MergeMap[l].Mark = 0 <=> before[l].Mark = 0 /\ l \notin D)
      /\ Len(out) = Cardinality(D)
      /\ {out[i] : i \in DOMAIN out} = {TasSingle(First(TasMasters(l)), l) : l \in D}
  BY <1>1 DEF TasWalk
<1>3. /\ itx' \in OfSystem(Master) \cup {End}
      /\ \A k \in OfSystem(Master) : k < itx' <=> k <= m
  <2>1. OfSystem(Master) \in SUBSET Keys /\ m \in OfSystem(Master)
    BY <1>1 DEF OfSystem
  <2> QED
    BY <1>1, <2>1, SuccIs
<1>4. \A l \in Stored : l \in U <=> SystemOf(l) # Master /\ MergeMap[l].Mark = 0 /\ m \in TasMasters(l)
  BY <1>1, UnsentAreNear
<1>5. /\ TasSingles(m) \in Seq(Outputs) /\ Len(TasSingles(m)) = Cardinality(U)
      /\ U \subseteq Stored /\ IsFiniteSet(U)
      /\ \A y : Has(TasSingles(m), y) <=> \E l \in U : y = TasSingle(m, l)
  BY <1>1, TasSinglesAre
<1>6. \A l : TasMasters(l) \subseteq OfSystem(Master)
  BY <1>1 DEF TasMasters, OfSystem
<1>7. \A l : l \in D <=> /\ l \in Stored /\ SystemOf(l) # Master /\ before[l].Mark = 0
                         /\ \E k \in TasMasters(l) : k < m
  BY <1>1 DEF DueBefore
<1>8. \A l : l \in E <=> /\ l \in Stored /\ SystemOf(l) # Master /\ before[l].Mark = 0
                         /\ \E k \in TasMasters(l) : k < itx'
  BY <1>1 DEF DueBefore, TasMasters
<1>9. \A k \in OfSystem(Master) : k \in Int /\ (k <= m <=> k < m \/ k = m)
  <2> SUFFICES ASSUME NEW k \in OfSystem(Master) PROVE k \in Int /\ (k <= m <=> k < m \/ k = m)
    OBVIOUS
  <2>1. k \in Int /\ m \in Int
    BY <1>1, KeyFacts DEF OfSystem
  <2> QED
    BY <2>1
<1> HIDE DEF U, D, E, m
<1>10. E = D \cup U
  <2>1. \A l : l \in E <=> l \in D \/ l \in U
    <3> SUFFICES ASSUME NEW l PROVE l \in E <=> l \in D \/ l \in U
      OBVIOUS
    <3>1. \A k \in TasMasters(l) : k < itx' <=> k < m \/ k = m
      BY <1>3, <1>6, <1>9
    <3>2. (\E k \in TasMasters(l) : k < itx') <=> (\E k \in TasMasters(l) : k < m) \/ m \in TasMasters(l)
      BY <3>1, <1>1 DEF m
    <3>3. CASE l \in Stored /\ SystemOf(l) # Master
      BY <1>2, <1>4, <1>7, <1>8, <3>2, <3>3
    <3>4. CASE ~(l \in Stored /\ SystemOf(l) # Master)
      BY <1>4, <1>5, <1>7, <1>8, <3>4
    <3> QED
      BY <3>3, <3>4
  <2> QED
    BY <2>1
<1>11. \A l \in U : l \in Stored /\ l \notin D /\ First(TasMasters(l)) = m
  <2> SUFFICES ASSUME NEW l \in U PROVE l \in Stored /\ l \notin D /\ First(TasMasters(l)) = m
    OBVIOUS
  <2>1. l \in Stored /\ SystemOf(l) # Master /\ before[l].Mark = 0 /\ l \notin D /\ m \in TasMasters(l)
    BY <1>2, <1>4, <1>5
  <2>2. TasMasters(l) \in SUBSET Keys
    BY <1>1, <1>6 DEF OfSystem
  <2>3. /\ First(TasMasters(l)) \in TasMasters(l) /\ First(TasMasters(l)) <= m
    BY <2>1, <2>2, FirstIs
  <2>4. ~(First(TasMasters(l)) < m)
    BY <1>7, <2>1, <2>3
  <2>5. First(TasMasters(l)) \in Int /\ m \in Int
    BY <1>6, <1>9, <2>1, <2>3
  <2> QED
    BY <2>1, <2>3, <2>4, <2>5
<1>12. IsFiniteSet(D)
  <2>1. D \in SUBSET Keys
    BY <1>1, <1>7
  <2> QED
    BY <2>1, KeysFinite
<1>13. Cardinality(E) = Cardinality(D) + Cardinality(U)
  BY <1>5, <1>10, <1>11, <1>12, DisjointUnion
<1>14. /\ Stored' = Stored
       /\ \A l \in Stored : MergeMap'[l].Mark = IF l \in U THEN 1 ELSE MergeMap[l].Mark
  BY TasCompareKeeps DEF U, m
<1>15. \A l \in Stored : SystemOf(l) # Master =>
         (MergeMap'[l].Mark = 0 <=> before[l].Mark = 0 /\ l \notin E)
  BY <1>2, <1>4, <1>10, <1>11, <1>14
<1>16. /\ out' \in Seq(Outputs) /\ Len(out') = Len(out) + Len(TasSingles(m))
       /\ \A y : Has(out', y) <=> Has(out, y) \/ Has(TasSingles(m), y)
  <2>1. out \in Seq(Outputs) /\ TasSingles(m) \in Seq(Outputs)
    BY <1>1, <1>5
  <2>2. /\ out \o TasSingles(m) \in Seq(Outputs)
        /\ Len(out \o TasSingles(m)) = Len(out) + Len(TasSingles(m))
        /\ \A y : Has(out \o TasSingles(m), y) <=> Has(out, y) \/ Has(TasSingles(m), y)
    BY <2>1, ConcatElements
  <2> QED
    BY <1>1, <2>2 DEF m
<1>17. {out'[i] : i \in DOMAIN out'} = {TasSingle(First(TasMasters(l)), l) : l \in E}
  <2>1. DOMAIN out = 1 .. Len(out) /\ DOMAIN out' = 1 .. Len(out')
    BY <1>1, <1>16, LenProperties
  <2>2. \A y : y \in {out'[i] : i \in DOMAIN out'} <=> Has(out', y)
    BY <2>1 DEF Has
  <2>3. \A y : y \in {out[i] : i \in DOMAIN out} <=> Has(out, y)
    BY <2>1 DEF Has
  <2>4. \A y : Has(out, y) <=> \E l \in D : y = TasSingle(First(TasMasters(l)), l)
    BY <1>2, <2>3
  <2>5. \A y : Has(TasSingles(m), y) <=> \E l \in U : y = TasSingle(First(TasMasters(l)), l)
    BY <1>5, <1>11
  <2>6. \A y : Has(out', y) <=> \E l \in E : y = TasSingle(First(TasMasters(l)), l)
    BY <1>10, <1>16, <2>4, <2>5
  <2> QED
    BY <2>2, <2>6
<1>18. itx' # End => SystemOf(itx') = Master
  BY <1>3 DEF OfSystem
<1>19. \A l : TasMasters(l)' = TasMasters(l)
  BY <1>1 DEF TasMasters
<1>20. Len(out') = Cardinality(E)
  BY <1>2, <1>5, <1>13, <1>16
<1>21. {TasSingle(First(TasMasters(l)), l) : l \in DueBefore(itx)}'
          = {TasSingle(First(TasMasters(l)), l) : l \in E}
  BY <1>19 DEF E
<1>22. \A l \in Stored' : SystemOf(l) # Master =>
         (MergeMap'[l].Mark = 0 <=> before'[l].Mark = 0 /\ l \notin DueBefore(itx)')
  BY <1>1, <1>14, <1>15 DEF E
<1>23. Len(out') = Cardinality(DueBefore(itx)')
  BY <1>20 DEF E
<1> QED
  BY <1>17, <1>18, <1>21, <1>22, <1>23 DEF TasWalk

\* A step of SyncCheckTAS keeps what its loop has found.
LEMMA TasWalkKeeps ==
  ASSUME HitsInv, WalkOK, TasWalk, BothNext
  PROVE  TasWalk'
<1>1. CASE program' # "SyncCheckTAS" \/ pc' # "match"
  BY <1>1 DEF TasWalk
<1>2. CASE program = "SyncCheckTAS" /\ program' = program /\ pc' = "match"
  <2>1. TasEraseDone \/ TasCompare
    BY <1>2 DEF BothNext, TasNext, TasCollect, Arrive, Idle, TasErase, TasKeep, TasRunsWild, TasPassDone
  <2>2. CASE TasEraseDone
    <3>1. /\ pc = "erase" /\ itx' = First(OfSystem(Master)) /\ before' = MergeMap
          /\ MergeMap' = MergeMap /\ out' = <<>> /\ Stored \subseteq Keys
      BY <2>2 DEF TasEraseDone, WalkOK
    <3>2. OfSystem(Master) \in SUBSET Keys
      BY <3>1 DEF OfSystem
    <3>3. \A l : TasMasters(l)' \subseteq OfSystem(Master)
      BY <3>1 DEF TasMasters, OfSystem, Stored
    <3>4. DueBefore(itx)' = {}
      <4>1. \A k \in OfSystem(Master) : ~(k < itx')
        BY <3>1, <3>2, FirstHasNoneBefore
      <4> QED
        BY <3>3, <4>1 DEF DueBefore
    <3>5. itx' # End => SystemOf(itx') = Master
      BY <3>1, <3>2, FirstIs DEF OfSystem
    <3>6. Stored' = Stored /\ \A l \in Stored : before'[l] = MergeMap'[l]
      BY <3>1 DEF Stored
    <3>7. Len(out') = Cardinality(DueBefore(itx)')
      BY <3>1, <3>4, FS_EmptySet
    <3>8. {out'[i] : i \in DOMAIN out'} = {}
      BY <3>1
    <3> QED
      BY <3>4, <3>5, <3>6, <3>7, <3>8 DEF TasWalk
  <2>3. CASE TasCompare
    BY <1>2, <2>3, TasRound
  <2> QED
    BY <2>1, <2>2, <2>3
<1>3. program' = program
  BY DEF BothNext
<1> QED
  BY <1>1, <1>2, <1>3

-----------------------------------------------------------------------------
(* The loop of SyncCheck                                                    *)

\* The range of the iterators is the neighbourhood of the master, or empty
\* when the lower end of the window wraps.
LEMMA AroundIs ==
  ASSUME WalkOK, pc = "match", NEW m \in Stored
  PROVE  /\ m >= Window => Around(m) = Near(m)
         /\ ~(m >= Window) => Around(m) = {}
<1>1. Stored \in SUBSET Keys /\ Stored = DOMAIN before /\ m \in Keys
  BY DEF WalkOK
<1> DEFINE K == Key(MaxStamp, 2)
           c == (m - Window) % KeyMod
<1>2. /\ m \in Nat /\ m <= K /\ K \in Nat /\ Window \in Nat /\ KeyMod = 2 * (Window + K + 1)
      /\ \A l \in Stored : l \in Nat /\ l <= K /\ l < End
  BY <1>1, KeyFacts, CoincidenceAssumption DEF End
<1> HIDE DEF K
<1>3. KeyMod \in Nat /\ KeyMod >= 1
  BY <1>2
<1>4. CASE m >= Window
  <2>1. m - Window \in 0 .. KeyMod - 1 /\ m - Window = KeyMod * 0 + (m - Window)
    BY <1>2, <1>4
  <2>2. (KeyMod * 0 + (m - Window)) % KeyMod = m - Window
    BY <1>3, <2>1, DivModOfSum
  <2>3. c = m - Window
    BY <2>1, <2>2
  <2>4. m - Window \in Int /\ m + Window \in Int
    BY <1>2
  <2>5. \A l \in Stored : itlow(m) <= l <=> l >= m - Window
    BY <1>1, <2>3, <2>4, LowerBound DEF itlow
  <2>6. \A l \in Stored : l < itup(m) <=> l <= m + Window
    BY <1>1, <2>4, UpperBound DEF itup
  <2>7. \A l \in Stored : l \in Around(m) <=> l \in Near(m)
    <3> SUFFICES ASSUME NEW l \in Stored PROVE l \in Around(m) <=> l \in Near(m)
      OBVIOUS
    <3>1. l >= m - Window /\ l <= m + Window <=> l - m <= Window /\ m - l <= Window
      BY <1>2
    <3> QED
      BY <1>1, <2>5, <2>6, <3>1 DEF Around, Near
  <2> QED
    BY <1>1, <1>4, <2>7 DEF Around, Near
<1>5. CASE ~(m >= Window)
  <2>1. /\ KeyMod + m - Window \in 0 .. KeyMod - 1
        /\ KeyMod + m - Window > K
    BY <1>2, <1>5
  <2>2. (m - Window) % KeyMod = KeyMod + m - Window
    <3>1. PICK q \in Int : q = -1
      OBVIOUS
    <3>2. m - Window = KeyMod * q + (KeyMod + m - Window)
      <4>1. KeyMod * q = -KeyMod
        BY <1>3, <3>1
      <4> QED
        BY <1>2, <1>3, <4>1
    <3>3. (KeyMod * q + (KeyMod + m - Window)) % KeyMod = KeyMod + m - Window
      BY <1>3, <2>1, DivModOfSum
    <3> QED
      BY <3>2, <3>3
  <2>3. c = KeyMod + m - Window
    BY <2>1, <2>2
  <2>4. c > K /\ c \in Int
    BY <1>2, <2>1, <2>3
  <2>5. \A l \in Stored : ~(l >= c)
    BY <1>2, <2>4
  <2>6. \A l \in Stored : ~(itlow(m) <= l)
    BY <1>1, <2>4, <2>5, LowerBound DEF itlow
  <2> QED
    BY <1>5, <2>6 DEF Around
<1> QED
  BY <1>4, <1>5

\* A hit is to be sent alone to a master before x.
LEMMA SinglesBeforeAre ==
  ASSUME NEW x
  PROVE  \A l : l \in SinglesBefore(x)
           <=> /\ before[l].Mark = 0
               /\ \E k \in Masters : k < x /\ Cardinality(Near(k)) <= 3 /\ l \in Partner(k)
BY DEF SinglesBefore, MastersBefore

\* A pair is to be sent to a master before x.
LEMMA DoublesBeforeAre ==
  ASSUME NEW x
  PROVE  \A d : d \in DoublesBefore(x)
           <=> \E k \in Masters : /\ k < x /\ d = <<k, Partner(k)>>
                                  /\ Cardinality(Near(k)) = 3 /\ Cardinality(Partner(k)) = 2
BY DEF DoublesBefore, MastersBefore

\* There are finitely many of both.
LEMMA BeforeFinite ==
  ASSUME WalkOK, NEW x
  PROVE  IsFiniteSet(SinglesBefore(x)) /\ IsFiniteSet(DoublesBefore(x))
<1>1. DOMAIN before \in SUBSET Keys
  BY DEF WalkOK
<1>2. SinglesBefore(x) \subseteq DOMAIN before
  BY DEF SinglesBefore, Partner, Near
<1> DEFINE T == {n \in MastersBefore(x) : Cardinality(Near(n)) = 3 /\ Cardinality(Partner(n)) = 2}
           f == [k \in T |-> <<k, Partner(k)>>]
<1>3. T \in SUBSET Keys
  BY <1>1 DEF MastersBefore, Masters
<1>4. DoublesBefore(x) = {<<k, Partner(k)>> : k \in T}
  BY DEF DoublesBefore
<1> HIDE DEF T
<1>5. f \in Surjection(T, DoublesBefore(x))
  BY <1>4 DEF Surjection
<1>6. IsFiniteSet(T)
  BY <1>3, KeysFinite
<1>7. IsFiniteSet(DoublesBefore(x))
  BY <1>5, <1>6, FS_Surjection
<1>8. IsFiniteSet(SinglesBefore(x))
  BY <1>1, <1>2, KeysFinite, FS_Subset
<1> QED
  BY <1>7, <1>8

\* What a round of the loop adds to the hits and pairs that were to be sent.
LEMMA SyncRoundFinds ==
  ASSUME HitsInv, WalkOK, SyncWalk, program = "SyncCheck", program' = program, Compare
  PROVE  /\ SinglesBefore(itx)' = SinglesBefore(itx) \cup Fresh(itx)
         /\ \A l \in Fresh(itx) : l \notin SinglesBefore(itx) /\ l \in Partner(itx)
         /\ DoublesBefore(itx)' =
              IF Ncoinc(itx) = 3 /\ Cardinality(Others(itx)) = 2
              THEN DoublesBefore(itx) \cup {<<itx, Partner(itx)>>} ELSE DoublesBefore(itx)
         /\ <<itx, Partner(itx)>> \notin DoublesBefore(itx)
         /\ Ncoinc(itx) = 3 => Others(itx) = Partner(itx)
         /\ \A l \in Stored : SystemOf(l) # Master =>
              (MergeMap'[l].Mark = 0 <=> before[l].Mark = 0 /\ l \notin SinglesBefore(itx)')
<1> DEFINE m == itx
           F == Fresh(m)
           S == SinglesBefore(m)
           D == DoublesBefore(m)
           E == SinglesBefore(itx)'
           dbl == Ncoinc(m) = 3 /\ Cardinality(Others(m)) = 2
<1>1. /\ pc = "match" /\ m \in Stored /\ SystemOf(m) = Master /\ m \in Keys
      /\ Stored = DOMAIN before /\ Stored \subseteq Keys
      /\ before' = before /\ itx' = Succ(Stored, m)
  BY DEF WalkOK, SyncWalk, Compare
<1>2. \A l \in Stored : SystemOf(l) # Master =>
        (MergeMap[l].Mark = 0 <=> before[l].Mark = 0 /\ l \notin S)
  BY <1>1 DEF SyncWalk
<1>3. \A k \in Masters : k \in Stored /\ (k < itx' <=> k < m \/ k = m)
  <2>1. \A k \in Stored : k < itx' <=> k <= m
    BY <1>1, SuccIs
  <2> SUFFICES ASSUME NEW k \in Masters PROVE k \in Stored /\ (k < itx' <=> k < m \/ k = m)
    OBVIOUS
  <2>2. k \in Stored /\ k \in Int /\ m \in Int
    BY <1>1, KeyFacts DEF Masters
  <2> QED
    BY <2>1, <2>2
<1>4. m \in Masters <=> m >= Window
  BY <1>1 DEF Masters
<1>5. /\ m >= Window => Around(m) = Near(m)
      /\ ~(m >= Window) => Around(m) = {}
  BY <1>1, AroundIs
<1>6. /\ Masters' = Masters /\ \A k : Near(k)' = Near(k) /\ Partner(k)' = Partner(k)
  BY <1>1 DEF Masters, Near, Partner
<1>7. \A l : l \in E <=> /\ before[l].Mark = 0
                         /\ \E k \in Masters : k < itx' /\ Cardinality(Near(k)) <= 3 /\ l \in Partner(k)
  BY <1>1, <1>6 DEF SinglesBefore, MastersBefore
<1>8. \A l : l \in S <=> /\ before[l].Mark = 0
                         /\ \E k \in Masters : k < m /\ Cardinality(Near(k)) <= 3 /\ l \in Partner(k)
  BY SinglesBeforeAre
<1>9. \A d : d \in DoublesBefore(itx)'
         <=> \E k \in Masters : /\ k < itx' /\ d = <<k, Partner(k)>>
                                /\ Cardinality(Near(k)) = 3 /\ Cardinality(Partner(k)) = 2
  BY <1>1, <1>6 DEF DoublesBefore, MastersBefore
<1>10. \A d : d \in D
         <=> \E k \in Masters : /\ k < m /\ d = <<k, Partner(k)>>
                                /\ Cardinality(Near(k)) = 3 /\ Cardinality(Partner(k)) = 2
  BY DoublesBeforeAre
<1>11. <<m, Partner(m)>> \notin D
  <2>1. \A k \in Masters : k < m => k # m
    <3>1. m \in Int
      BY <1>1, KeyFacts
    <3> QED
      BY <3>1
  <2> QED
    BY <1>10, <2>1
<1>12. \A l : l \in F <=> l \in Others(m) /\ Ncoinc(m) <= 3 /\ MergeMap[l].Mark = 0
  BY DEF Fresh
<1>13. /\ Stored' = Stored
       /\ \A l \in Stored :
            MergeMap'[l].Mark = IF l \in Around(m) THEN MarkAfter(m, l) ELSE MergeMap[l].Mark
  BY CompareKeeps
<1>14. CASE m >= Window
  <2>1. /\ Ncoinc(m) = Cardinality(Near(m)) /\ Others(m) = Partner(m)
        /\ Partner(m) \subseteq Stored /\ \A l \in Partner(m) : SystemOf(l) # Master
        /\ \A l \in Around(m) : SystemOf(l) # Master => l \in Partner(m)
    BY <1>1, <1>5, <1>14 DEF Ncoinc, Others, Partner, Near
  <2>2. \A l : l \in E <=> l \in S \/ (l \in Partner(m) /\ Ncoinc(m) <= 3 /\ before[l].Mark = 0)
    <3> HIDE DEF m, E, S
    <3>1. \A l : (\E k \in Masters : k < itx' /\ Cardinality(Near(k)) <= 3 /\ l \in Partner(k))
              <=> \/ \E k \in Masters : k < m /\ Cardinality(Near(k)) <= 3 /\ l \in Partner(k)
                  \/ Cardinality(Near(m)) <= 3 /\ l \in Partner(m)
      BY <1>3, <1>4, <1>14
    <3> QED
      BY <1>7, <1>8, <2>1, <3>1
  <2>3. \A l \in F : l \notin S /\ l \in Partner(m)
    BY <1>2, <1>12, <2>1
  <2>4. \A l : l \in E <=> l \in S \/ l \in F
    <3> HIDE DEF m, E, S, F
    <3> QED
      BY <1>2, <1>12, <2>1, <2>2
  <2>5. DoublesBefore(itx)' = IF dbl THEN D \cup {<<m, Partner(m)>>} ELSE D
    <3> HIDE DEF m, D
    <3>1. \A d : d \in DoublesBefore(itx)' <=> d \in D \/ (dbl /\ d = <<m, Partner(m)>>)
      <4>1. dbl <=> Cardinality(Near(m)) = 3 /\ Cardinality(Partner(m)) = 2
        BY <2>1
      <4> HIDE DEF dbl
      <4> QED
        BY <1>3, <1>4, <1>9, <1>10, <1>14, <4>1
    <3> HIDE DEF dbl
    <3> QED
      BY <3>1
  <2>6. ASSUME NEW l \in Stored, SystemOf(l) # Master
        PROVE  MergeMap'[l].Mark = 0 <=> before[l].Mark = 0 /\ l \notin E
    <3> HIDE DEF m, E, S, F
    <3>1. CASE l \notin Around(m)
      <4>1. l \notin F
        BY <1>12, <3>1 DEF Others
      <4> QED
        BY <1>2, <1>13, <2>4, <2>6, <3>1, <4>1
    <3>2. CASE l \in Around(m) /\ Ncoinc(m) = 3
      <4>1. MergeMap'[l].Mark = 2 /\ l \in Partner(m)
        BY <1>13, <2>1, <2>6, <3>2 DEF MarkAfter
      <4> QED
        BY <2>2, <3>2, <4>1
    <3>3. CASE l \in Around(m) /\ Ncoinc(m) # 3 /\ l \in F
      <4>1. MergeMap'[l].Mark = 1
        BY <1>13, <3>3 DEF MarkAfter, F, m
      <4> QED
        BY <2>4, <3>3, <4>1
    <3>4. CASE l \in Around(m) /\ Ncoinc(m) # 3 /\ l \notin F
      <4>1. MergeMap'[l].Mark = MergeMap[l].Mark
        BY <1>13, <3>4 DEF MarkAfter, F, m
      <4> QED
        BY <1>2, <2>4, <2>6, <3>4, <4>1
    <3> QED
      BY <3>1, <3>2, <3>3, <3>4
  <2>7. E = S \cup F
    BY <2>4
  <2> QED
    BY <1>11, <2>1, <2>3, <2>5, <2>6, <2>7
<1>15. CASE ~(m >= Window)
  <2>1. Around(m) = {} /\ Others(m) = {} /\ Ncoinc(m) = 0
    BY <1>5, <1>15, FS_EmptySet DEF Others, Ncoinc
  <2>2. F = {}
    BY <1>12, <2>1
  <2>3. E = S
    BY <1>3, <1>4, <1>7, <1>8, <1>15
  <2>4. DoublesBefore(itx)' = D
    BY <1>3, <1>4, <1>9, <1>10, <1>15
  <2>5. \A l \in Stored : MergeMap'[l].Mark = MergeMap[l].Mark
    BY <1>13, <2>1
  <2>6. \A l \in Stored : SystemOf(l) # Master =>
          (MergeMap'[l].Mark = 0 <=> before[l].Mark = 0 /\ l \notin E)
    BY <1>2, <2>3, <2>5
  <2>7. Ncoinc(m) # 3
    BY <2>1
  <2> QED
    BY <1>11, <2>2, <2>3, <2>4, <2>6, <2>7
<1> QED
  BY <1>14, <1>15

\* The elements of a sequence that stand for one hit, and those for a pair
LEMMA OutcomesOf ==
  ASSUME NEW s \in Seq(Outputs)
  PROVE  /\ \A r : r \in {s[i] : i \in {j \in 1 .. Len(s) : IsDouble(s[j]) = FALSE}}
                     <=> Has(s, r) /\ ~IsDouble(r)
         /\ \A r : r \in {s[i] : i \in {j \in 1 .. Len(s) : IsDouble(s[j]) = TRUE}}
                     <=> Has(s, r) /\ IsDouble(r)
<1>1. Len(s) \in Nat /\ DOMAIN s = 1 .. Len(s)
  BY LenProperties
<1>2. \A r : IsDouble(r) \in BOOLEAN
  BY DEF IsDouble
<1>3. \A r : (IsDouble(r) = FALSE <=> ~IsDouble(r)) /\ (IsDouble(r) = TRUE <=> IsDouble(r))
  BY <1>2
<1> QED
  BY <1>1, <1>3 DEF Has

\* An element for one hit, and one for a pair
LEMMA ElementFacts ==
  /\ \A m, l \in Keys : LET r == Single(m, l) IN
        ~IsDouble(r) /\ Partners(r) = {l} /\ r.master = m
  /\ \A r : r.x \in Keys /\ r.y \in Keys => IsDouble(r) /\ Partners(r) = {r.x, r.y}
<1>1. \A k \in Keys : k # None
  <2> SUFFICES ASSUME NEW k \in Keys PROVE k # None
    OBVIOUS
  <2>1. k \in Nat
    BY KeyFacts
  <2> QED
    BY <2>1 DEF None
<1>2. ASSUME NEW m \in Keys, NEW l \in Keys
      PROVE  ~IsDouble(Single(m, l)) /\ Partners(Single(m, l)) = {l} /\ Single(m, l).master = m
  <2>1. l # None
    BY <1>1
  <2> QED
    BY <2>1 DEF Single, IsDouble, Partners
<1>3. ASSUME NEW r, r.x \in Keys, r.y \in Keys
      PROVE  IsDouble(r) /\ Partners(r) = {r.x, r.y}
  BY <1>1, <1>3 DEF IsDouble, Partners
<1> QED
  BY <1>2, <1>3

\* What a round of the loop sends.
LEMMA SyncRoundSends ==
  ASSUME HitsInv, WalkOK, SyncWalk, program = "SyncCheck", Compare,
         NEW dbl \in BOOLEAN, dbl <=> Ncoinc(itx) = 3 /\ Cardinality(Others(itx)) = 2,
         dbl => Others(itx) = Partner(itx)
  PROVE  /\ out' \in Seq(Outputs) /\ Fresh(itx) \subseteq Keys /\ IsFiniteSet(Fresh(itx))
         /\ Len(out') = Len(out) + Cardinality(Fresh(itx)) + (IF dbl THEN 1 ELSE 0)
         /\ \E d : /\ dbl => IsDouble(d) /\ Partners(d) = Partner(itx) /\ d.master = itx
                   /\ \A y : Has(out', y) <=> \/ Has(out, y)
                                              \/ \E l \in Fresh(itx) : y = Single(itx, l)
                                              \/ dbl /\ y = d
<1> DEFINE m == itx
           F == Fresh(m)
           d == Double(m)[1]
<1>1. /\ m \in Stored /\ Stored \subseteq Keys /\ out \in Seq(Outputs)
      /\ out' = out \o Singles(m) \o Double(m)
  BY DEF WalkOK, Compare
<1>2. /\ Singles(m) \in Seq(Outputs) /\ Len(Singles(m)) = Cardinality(F)
      /\ Cardinality(F) \in Nat
      /\ \A y : Has(Singles(m), y) <=> \E l \in F : y = Single(m, l)
  BY <1>1, SinglesAre
<1>3. /\ Double(m) \in Seq(Outputs)
      /\ dbl => /\ Len(Double(m)) = 1 /\ d.master = m
                /\ d.x \in Keys /\ d.y \in Keys
                /\ {d.x, d.y} = Others(m)
      /\ ~dbl => Double(m) = <<>>
  BY <1>1, DoubleIs
<1>4. F \in SUBSET Keys /\ IsFiniteSet(F)
  <2>1. F \in SUBSET Keys
    BY <1>1 DEF Fresh, Others, Around
  <2> QED
    BY <2>1, KeysFinite
<1> HIDE DEF m, F
<1>5. /\ out \o Singles(m) \in Seq(Outputs)
      /\ Len(out \o Singles(m)) = Len(out) + Cardinality(F)
      /\ \A y : Has(out \o Singles(m), y) <=> Has(out, y) \/ Has(Singles(m), y)
  BY <1>1, <1>2, ConcatElements
<1>6. /\ out' \in Seq(Outputs)
      /\ Len(out') = Len(out \o Singles(m)) + Len(Double(m))
      /\ \A y : Has(out', y) <=> Has(out \o Singles(m), y) \/ Has(Double(m), y)
  <2> DEFINE s == out \o Singles(m)
  <2>1. s \in Seq(Outputs)
    BY <1>5
  <2> HIDE DEF s
  <2>2. /\ s \o Double(m) \in Seq(Outputs) /\ Len(s \o Double(m)) = Len(s) + Len(Double(m))
        /\ \A y : Has(s \o Double(m), y) <=> Has(s, y) \/ Has(Double(m), y)
    BY <1>3, <2>1, ConcatElements
  <2> QED
    BY <1>1, <2>2 DEF s
<1>7. /\ Len(Double(m)) = IF dbl THEN 1 ELSE 0
      /\ \A y : Has(Double(m), y) <=> dbl /\ y = d
  <2>1. CASE dbl
    <3>1. Len(Double(m)) = 1 /\ 1 .. 1 = {1}
      BY <1>3, <2>1
    <3>2. \A y : Has(Double(m), y) <=> y = d
      BY <3>1 DEF Has
    <3> QED
      BY <2>1, <3>1, <3>2
  <2>2. CASE ~dbl
    BY <1>3, <2>2 DEF Has
  <2> QED
    BY <2>1, <2>2
<1>8. dbl => IsDouble(d) /\ Partners(d) = Partner(m) /\ d.master = m
  BY <1>3, ElementFacts DEF m
<1> HIDE DEF d
<1>9. \A y : Has(out', y) <=> \/ Has(out, y)
                              \/ \E l \in F : y = Single(m, l)
                              \/ dbl /\ y = d
  BY <1>2, <1>5, <1>6, <1>7
<1>10. Len(out') = Len(out) + Cardinality(F) + (IF dbl THEN 1 ELSE 0)
  <2>1. Len(out) \in Nat
    BY <1>1, LenProperties
  <2> QED
    BY <1>2, <1>5, <1>6, <1>7, <2>1
<1> QED
  BY <1>4, <1>6, <1>8, <1>9, <1>10 DEF m, F

\* A round of the loop sends what is due between its master and the next.
LEMMA SyncRound ==
  ASSUME HitsInv, WalkOK, SyncWalk, program = "SyncCheck", program' = program, Compare
  PROVE  SyncWalk'
<1> DEFINE m == itx
           F == Fresh(m)
           S == SinglesBefore(m)
           D == DoublesBefore(m)
           E == SinglesBefore(itx)'
           G == DoublesBefore(itx)'
           dbl == Ncoinc(m) = 3 /\ Cardinality(Others(m)) = 2
           P == Partner(m)
<1>1. /\ E = S \cup F
      /\ \A l \in F : l \notin S /\ l \in P
      /\ G = IF dbl THEN D \cup {<<m, P>>} ELSE D
      /\ <<m, P>> \notin D
      /\ dbl => Others(m) = P
      /\ \A l \in Stored : SystemOf(l) # Master =>
           (MergeMap'[l].Mark = 0 <=> before[l].Mark = 0 /\ l \notin E)
  BY SyncRoundFinds
<1>2. PICK b \in BOOLEAN : b <=> dbl
  OBVIOUS
<1>3. PICK d :
      /\ out' \in Seq(Outputs) /\ F \subseteq Keys /\ IsFiniteSet(F)
      /\ Len(out') = Len(out) + Cardinality(F) + (IF b THEN 1 ELSE 0)
      /\ b => IsDouble(d) /\ Partners(d) = P /\ d.master = m
      /\ \A y : Has(out', y) <=> \/ Has(out, y)
                                 \/ \E l \in F : y = Single(m, l)
                                 \/ b /\ y = d
  <2>1. (b <=> Ncoinc(itx) = 3 /\ Cardinality(Others(itx)) = 2) /\ (b => Others(itx) = Partner(itx))
    BY <1>1, <1>2
  <2> QED
    BY <2>1, SyncRoundSends
<1>4. /\ out \in Seq(Outputs) /\ m \in Keys /\ before' = before /\ Stored' = Stored /\ pc = "match"
  BY CompareKeeps DEF WalkOK, Compare
<1>5. /\ Len(out) = Cardinality(S) + Cardinality(D)
      /\ {Partners(r) : r \in Outcomes(FALSE)} = {{l} : l \in S}
      /\ \A r \in Outcomes(FALSE) : Partners(r) \subseteq Partner(r.master)
      /\ {<<r.master, Partners(r)>> : r \in Outcomes(TRUE)} = D
  BY <1>4 DEF SyncWalk
<1>6. /\ \A r : r \in Outcomes(FALSE) <=> Has(out, r) /\ ~IsDouble(r)
      /\ \A r : r \in Outcomes(TRUE) <=> Has(out, r) /\ IsDouble(r)
  BY <1>4, OutcomesOf DEF Outcomes
<1>7. /\ \A r : r \in Outcomes(FALSE)' <=> Has(out', r) /\ ~IsDouble(r)
      /\ \A r : r \in Outcomes(TRUE)' <=> Has(out', r) /\ IsDouble(r)
  BY <1>3, OutcomesOf DEF Outcomes
<1>8. \A l \in F : ~IsDouble(Single(m, l)) /\ Partners(Single(m, l)) = {l} /\ Single(m, l).master = m
  BY <1>3, <1>4, ElementFacts
<1>9. \A k : Partner(k)' = Partner(k)
  BY <1>4 DEF Partner, Near
<1>10. IsFiniteSet(S) /\ IsFiniteSet(D)
  BY BeforeFinite
<1> HIDE DEF m, F, S, D, E, G, dbl, P
<1>11. \A r : r \in Outcomes(FALSE)' <=> r \in Outcomes(FALSE) \/ \E l \in F : r = Single(m, l)
  BY <1>3, <1>6, <1>7, <1>8
<1>12. \A r : r \in Outcomes(TRUE)' <=> r \in Outcomes(TRUE) \/ (b /\ r = d)
  <2> SUFFICES ASSUME NEW r
               PROVE  r \in Outcomes(TRUE)' <=> r \in Outcomes(TRUE) \/ (b /\ r = d)
    OBVIOUS
  <2>1. r \in Outcomes(TRUE)' <=> Has(out', r) /\ IsDouble(r)
    BY <1>7
  <2>2. r \in Outcomes(TRUE) <=> Has(out, r) /\ IsDouble(r)
    BY <1>6
  <2>3. Has(out', r) <=> Has(out, r) \/ (\E l \in F : r = Single(m, l)) \/ (b /\ r = d)
    BY <1>3
  <2>4. (\E l \in F : r = Single(m, l)) => ~IsDouble(r)
    BY <1>8
  <2>5. b => IsDouble(d)
    BY <1>3
  <2> QED
    BY <2>1, <2>2, <2>3, <2>4, <2>5
<1>13. Len(out') = Cardinality(E) + Cardinality(G)
  <2>1. /\ Cardinality(E) = Cardinality(S) + Cardinality(F)
        /\ Cardinality(S) \in Nat /\ Cardinality(F) \in Nat
    BY <1>1, <1>3, <1>10, DisjointUnion
  <2>2. Cardinality(D) \in Nat
    BY <1>10, FS_CardinalityType
  <2>3. Cardinality(G) = Cardinality(D) + (IF b THEN 1 ELSE 0)
    <3>1. CASE b
      <4>1. Cardinality(D \cup {<<m, P>>}) = Cardinality(D) + 1
        BY <1>1, <1>10, FS_AddElement
      <4> QED
        BY <1>1, <1>2, <3>1, <4>1
    <3>2. CASE ~b
      BY <1>1, <1>2, <2>2, <3>2
    <3> QED
      BY <3>1, <3>2
  <2> QED
    BY <1>3, <1>5, <2>1, <2>2, <2>3
<1>14. {Partners(r) : r \in Outcomes(FALSE)'} = {{l} : l \in E}
  <2>1. \A p : p \in {Partners(r) : r \in Outcomes(FALSE)'}
               <=> (\E r \in Outcomes(FALSE) : p = Partners(r)) \/ \E l \in F : p = {l}
    <3>1. \A p : (\E r \in Outcomes(FALSE)' : p = Partners(r))
                 <=> (\E r \in Outcomes(FALSE) : p = Partners(r)) \/ \E l \in F : p = {l}
      <4> SUFFICES ASSUME NEW p
                   PROVE  (\E r \in Outcomes(FALSE)' : p = Partners(r))
                     <=> (\E r \in Outcomes(FALSE) : p = Partners(r)) \/ \E l \in F : p = {l}
        OBVIOUS
      <4>1. (\E r \in Outcomes(FALSE)' : p = Partners(r))
              <=> \/ \E r \in Outcomes(FALSE) : p = Partners(r)
                  \/ \E l \in F : p = Partners(Single(m, l))
        BY <1>11, Zenon
      <4>2. \A l \in F : Partners(Single(m, l)) = {l}
        BY <1>8
      <4> QED
        BY <4>1, <4>2
    <3> QED
      BY <3>1
  <2>2. \A p : (\E r \in Outcomes(FALSE) : p = Partners(r)) <=> \E l \in S : p = {l}
    BY <1>5
  <2>3. \A p : p \in {{l} : l \in E} <=> (\E l \in S : p = {l}) \/ \E l \in F : p = {l}
    BY <1>1
  <2> QED
    BY <2>1, <2>2, <2>3
<1>15. \A r \in Outcomes(FALSE)' : Partners(r) \subseteq Partner(r.master)
  <2> SUFFICES ASSUME NEW r \in Outcomes(FALSE)' PROVE Partners(r) \subseteq Partner(r.master)
    OBVIOUS
  <2>1. CASE r \in Outcomes(FALSE)
    BY <1>5, <2>1
  <2>2. ASSUME NEW l \in F, r = Single(m, l) PROVE Partners(r) \subseteq Partner(r.master)
    <3>1. Partners(r) = {l} /\ r.master = m /\ l \in Partner(m)
      BY <1>1, <1>8, <2>2 DEF P
    <3> QED
      BY <3>1
  <2> QED
    BY <1>11, <2>1, <2>2
<1>16. {<<r.master, Partners(r)>> : r \in Outcomes(TRUE)'} = G
  <2>1. \A p : p \in {<<r.master, Partners(r)>> : r \in Outcomes(TRUE)'}
               <=> p \in {<<r.master, Partners(r)>> : r \in Outcomes(TRUE)} \/ (b /\ p = <<m, P>>)
    <3>1. b => <<d.master, Partners(d)>> = <<m, P>>
      BY <1>3
    <3> QED
      BY <1>12, <3>1
  <2> QED
    BY <1>1, <1>2, <1>5, <2>1
<1>17. \A l \in Stored' : SystemOf(l) # Master =>
         (MergeMap'[l].Mark = 0 <=> before'[l].Mark = 0 /\ l \notin SinglesBefore(itx)')
  BY <1>1, <1>4 DEF E
<1>18. Len(out') = Cardinality(SinglesBefore(itx)') + Cardinality(DoublesBefore(itx)')
  BY <1>13 DEF E, G
<1>19. {Partners(r) : r \in Outcomes(FALSE)'} = {{l} : l \in SinglesBefore(itx)'}
  BY <1>14 DEF E
<1>20. {<<r.master, Partners(r)>> : r \in Outcomes(TRUE)'} = DoublesBefore(itx)'
  BY <1>16 DEF G
<1>21. \A r \in Outcomes(FALSE)' : Partners(r) \subseteq Partner(r.master)'
  BY <1>9, <1>15
<1> QED
  BY <1>17, <1>18, <1>19, <1>20, <1>21 DEF SyncWalk

\* The hits and pairs to be sent depend on the map the loop started with and on
\* the masters that are before the iterator.
LEMMA BeforeKeeps ==
  ASSUME before' = before, MastersBefore(itx)' = MastersBefore(itx)
  PROVE  SinglesBefore(itx)' = SinglesBefore(itx) /\ DoublesBefore(itx)' = DoublesBefore(itx)
<1>1. \A k : Near(k)' = Near(k) /\ Partner(k)' = Partner(k)
  BY DEF Partner, Near
<1> DEFINE M == MastersBefore(itx)
<1>2. MastersBefore(itx)' = M
  OBVIOUS
<1> HIDE DEF M
<1>3. \A l : l \in SinglesBefore(itx)'
          <=> before[l].Mark = 0 /\ \E k \in M : Cardinality(Near(k)) <= 3 /\ l \in Partner(k)
  BY <1>1, <1>2 DEF SinglesBefore
<1>4. \A l : l \in SinglesBefore(itx)
          <=> before[l].Mark = 0 /\ \E k \in M : Cardinality(Near(k)) <= 3 /\ l \in Partner(k)
  BY DEF SinglesBefore, M
<1>5. \A d : d \in DoublesBefore(itx)'
          <=> \E k \in M : /\ d = <<k, Partner(k)>>
                          /\ Cardinality(Near(k)) = 3 /\ Cardinality(Partner(k)) = 2
  BY <1>1, <1>2 DEF DoublesBefore
<1>6. \A d : d \in DoublesBefore(itx)
          <=> \E k \in M : /\ d = <<k, Partner(k)>>
                          /\ Cardinality(Near(k)) = 3 /\ Cardinality(Partner(k)) = 2
  BY DEF DoublesBefore, M
<1>7. /\ \A l : l \in SinglesBefore(itx)' <=> l \in SinglesBefore(itx)
      /\ \A d : d \in DoublesBefore(itx)' <=> d \in DoublesBefore(itx)
  BY <1>3, <1>4, <1>5, <1>6
<1>8. SinglesBefore(itx)' = SinglesBefore(itx)
  BY <1>7, Zenon DEF SinglesBefore
<1>9. DoublesBefore(itx)' = DoublesBefore(itx)
  BY <1>7, Zenon DEF DoublesBefore
<1> QED
  BY <1>8, <1>9

\* A step of SyncCheck keeps what its loop has found.
LEMMA SyncWalkKeeps ==
  ASSUME HitsInv, WalkOK, SyncWalk, BothNext
  PROVE  SyncWalk'
<1>1. CASE program' # "SyncCheck" \/ pc' # "match"
  BY <1>1 DEF SyncWalk
<1>2. CASE program = "SyncCheck" /\ program' = program /\ pc' = "match"
  <2>1. EraseDone \/ Compare \/ NotMaster
    BY <1>2 DEF BothNext, Next, Collect, Arrive, Idle, Erase, Keep, RunsWild, PassDone
  <2>2. CASE EraseDone
    <3>1. /\ pc = "erase" /\ itx' = First(Stored) /\ before' = MergeMap
          /\ MergeMap' = MergeMap /\ out' = <<>> /\ Stored \subseteq Keys
      BY <2>2 DEF EraseDone, WalkOK
    <3>2. Stored' = Stored /\ Masters' \subseteq Stored /\ \A l \in Stored : before'[l] = MergeMap'[l]
      BY <3>1 DEF Stored, Masters
    <3>3. \A k \in Masters' : ~(k < itx')
      BY <3>1, <3>2, FirstHasNoneBefore
    <3>4. MastersBefore(itx)' = {}
      BY <3>3 DEF MastersBefore
    <3>5. SinglesBefore(itx)' = {} /\ DoublesBefore(itx)' = {}
      BY <3>4 DEF SinglesBefore, DoublesBefore
    <3>6. \A b : Outcomes(b)' = {}
      BY <3>1 DEF Outcomes
    <3>7. Len(out') = Cardinality(SinglesBefore(itx)') + Cardinality(DoublesBefore(itx)')
      BY <3>1, <3>5, FS_EmptySet
    <3> QED
      BY <3>2, <3>5, <3>6, <3>7 DEF SyncWalk
  <2>3. CASE Compare
    BY <1>2, <2>3, SyncRound
  <2>4. CASE NotMaster
    <3>1. /\ pc = "match" /\ itx \in Stored /\ SystemOf(itx) # Master /\ itx \in Keys
          /\ Stored = DOMAIN before /\ Stored \in SUBSET Keys
          /\ itx' = Succ(Stored, itx) /\ UNCHANGED <<MergeMap, out, before>>
      BY <2>4 DEF WalkOK, NotMaster
    <3>2. \A k \in Stored : k < itx' <=> k <= itx
      BY <3>1, SuccIs
    <3>3. \A k \in Masters : k < itx' <=> k < itx
      <4> SUFFICES ASSUME NEW k \in Masters PROVE k < itx' <=> k < itx
        OBVIOUS
      <4>1. k \in Stored /\ k # itx
        BY <3>1 DEF Masters
      <4>2. k \in Int /\ itx \in Int
        BY <3>1, <4>1, KeyFacts
      <4> QED
        BY <3>2, <4>1, <4>2
    <3>4. MastersBefore(itx)' = MastersBefore(itx)
      BY <3>1, <3>3 DEF MastersBefore, Masters
    <3>5. SinglesBefore(itx)' = SinglesBefore(itx) /\ DoublesBefore(itx)' = DoublesBefore(itx)
      BY <3>1, <3>4, BeforeKeeps
    <3>6. \A b : Outcomes(b)' = Outcomes(b)
      BY <3>1 DEF Outcomes
    <3>7. \A k : Partner(k)' = Partner(k)
      BY <3>1 DEF Partner, Near
    <3>8. Stored' = Stored
      BY <3>1 DEF Stored
    <3> QED
      BY <1>2, <3>1, <3>5, <3>6, <3>7, <3>8 DEF SyncWalk
  <2> QED
    BY <2>1, <2>2, <2>3, <2>4
<1>3. program' = program
  BY DEF BothNext
<1> QED
  BY <1>1, <1>2, <1>3

\* What the loops have found so far, in every state of either program.
THEOREM FindsInvHolds == BothSpec => []FindsInv
<1>1. BothInit => WalkOK /\ TasWalk /\ SyncWalk
  <2> SUFFICES ASSUME BothInit PROVE WalkOK /\ TasWalk /\ SyncWalk
    OBVIOUS
  <2>1. Stored = {} /\ DOMAIN before = {} /\ itx = End /\ out = <<>> /\ pc = "collect"
    BY DEF BothInit, Init, Stored
  <2> QED
    BY <2>1 DEF WalkOK, TasWalk, SyncWalk
<1>2. HitsInv /\ WalkOK /\ TasWalk /\ SyncWalk /\ [BothNext]_bothVars
        => (WalkOK /\ TasWalk /\ SyncWalk)'
  <2> SUFFICES ASSUME HitsInv, WalkOK, TasWalk, SyncWalk, [BothNext]_bothVars
               PROVE  (WalkOK /\ TasWalk /\ SyncWalk)'
    OBVIOUS
  <2>1. CASE BothNext
    BY <2>1, WalkKeeps, TasWalkKeeps, SyncWalkKeeps
  <2>2. CASE UNCHANGED bothVars
    <3>1. UNCHANGED <<MergeMap, pc, itx, out, before, program>>
      BY <2>2 DEF bothVars, vars
    <3>2. WalkOK'
      BY <3>1 DEF WalkOK, Stored
    <3>3. TasWalk'
      <4>1. \A l : TasMasters(l)' = TasMasters(l)
        BY <3>1 DEF TasMasters
      <4>2. DueBefore(itx)' = DueBefore(itx) /\ Stored' = Stored
        BY <3>1, <4>1 DEF DueBefore, Stored
      <4>3. {TasSingle(First(TasMasters(l)), l) : l \in DueBefore(itx)}'
              = {TasSingle(First(TasMasters(l)), l) : l \in DueBefore(itx)}
        BY <4>1, <4>2
      <4>4. {out'[i] : i \in DOMAIN out'} = {out[i] : i \in DOMAIN out}
        BY <3>1
      <4> QED
        BY <3>1, <4>2, <4>3, <4>4 DEF TasWalk
    <3>4. SyncWalk'
      <4>1. MastersBefore(itx)' = MastersBefore(itx)
        BY <3>1 DEF MastersBefore, Masters
      <4>2. SinglesBefore(itx)' = SinglesBefore(itx) /\ DoublesBefore(itx)' = DoublesBefore(itx)
        BY <3>1, <4>1, BeforeKeeps
      <4>3. \A b : Outcomes(b)' = Outcomes(b)
        BY <3>1 DEF Outcomes
      <4>4. Stored' = Stored /\ \A k : Partner(k)' = Partner(k)
        BY <3>1 DEF Stored, Partner, Near
      <4> QED
        BY <3>1, <4>2, <4>3, <4>4 DEF SyncWalk
    <3> QED
      BY <3>2, <3>3, <3>4
  <2> QED
    BY <2>1, <2>2
<1>3. FindsInv <=> HitsInv /\ WalkOK /\ TasWalk /\ SyncWalk
  BY DEF FindsInv
<1> QED
  BY <1>1, <1>2, <1>3, HitsInvHolds, PTL DEF BothSpec

\* At the end of a pass SyncCheck has found exactly the coincidences that are
\* in its map, each once: its range of iterators is the neighbourhood of the
\* master, wherever the subtraction of the window wraps.
THEOREM SyncCheckFindsAll == BothSpec => []SyncCheckFinds
<1>1. FindsInv => SyncCheckFinds
  <2> SUFFICES ASSUME FindsInv, program = "SyncCheck", pc = "match", itx = End
               PROVE  /\ Len(out) = Cardinality(ExpectedSingles) + Cardinality(ExpectedDoubles)
                      /\ {Partners(r) : r \in Outcomes(FALSE)} = {{l} : l \in ExpectedSingles}
                      /\ \A r \in Outcomes(FALSE) : Partners(r) \subseteq Partner(r.master)
                      /\ {<<r.master, Partners(r)>> : r \in Outcomes(TRUE)} = ExpectedDoubles
    BY DEF SyncCheckFinds, FindsWhatIsThere
  <2>1. WalkOK /\ SyncWalk
    BY DEF FindsInv
  <2>2. \A k \in Masters : k < itx
    BY <2>1, KeyFacts DEF WalkOK, Masters
  <2>3. MastersBefore(itx) = Masters
    BY <2>2 DEF MastersBefore
  <2>4. SinglesBefore(itx) = ExpectedSingles /\ DoublesBefore(itx) = ExpectedDoubles
    BY <2>3 DEF SinglesBefore, DoublesBefore, ExpectedSingles, ExpectedDoubles
  <2> QED
    BY <2>1, <2>4 DEF SyncWalk
<1> QED
  BY <1>1, FindsInvHolds, PTL

\* At the end of a pass SyncCheckTAS has sent every hit that was not sent before
\* and has a master near, once, with the earliest of them.
THEOREM TasFindsAll == BothSpec => []TasFinds
<1>1. FindsInv => TasFinds
  <2> SUFFICES ASSUME FindsInv, program = "SyncCheckTAS", pc = "match", itx = End
               PROVE  TasFinds
    BY DEF TasFinds
  <2>1. WalkOK /\ TasWalk
    BY DEF FindsInv
  <2>2. \A l : \A m \in TasMasters(l) : m < itx
    BY <2>1, KeyFacts DEF WalkOK, TasMasters
  <2> DEFINE sent == {l \in DOMAIN before : /\ SystemOf(l) # Master /\ before[l].Mark = 0
                                            /\ TasMasters(l) # {}}
  <2>3. DueBefore(itx) = sent
    BY <2>2 DEF DueBefore
  <2> QED
    BY <2>1, <2>3 DEF TasWalk, TasFinds
<1> QED
  BY <1>1, FindsInvHolds, PTL

=============================================================================
