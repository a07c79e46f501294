-------------------------- MODULE SyncThreads_proofs --------------------------
(***************************************************************************)
(* Proofs about SyncThreads for every number of blocks and waits: the      *)
(* mutexes of the spies, the vectors they protect, and the histograms,     *)
(* which are filled from vectors nothing protects when they are cleared.   *)
(***************************************************************************)
EXTENDS SyncThreads, SequenceTheorems, FiniteSetTheorems, TLAPS

-----------------------------------------------------------------------------
(* Counting in sequences                                                    *)

\* Counts are numbers.
LEMMA PlacesFinite ==
  ASSUME NEW n \in Nat, NEW S \in SUBSET (1 .. n)
  PROVE  IsFiniteSet(S) /\ Cardinality(S) \in Nat
<1>1. IsFiniteSet(1 .. n)
  BY FS_Interval
<1>2. IsFiniteSet(S)
  BY <1>1, FS_Subset
<1> QED
  BY <1>2, FS_CardinalityType

\* One place more.
LEMMA PlaceMore ==
  ASSUME NEW n \in Nat, NEW S \in SUBSET (1 .. n), NEW yes \in BOOLEAN
  PROVE  Cardinality(S \cup (IF yes THEN {n + 1} ELSE {}))
           = Cardinality(S) + (IF yes THEN 1 ELSE 0)
<1>1. IsFiniteSet(S) /\ Cardinality(S) \in Nat
  BY PlacesFinite
<1>2. n + 1 \notin S
  OBVIOUS
<1>3. CASE yes
  <2>1. Cardinality(S \cup {n + 1}) = Cardinality(S) + 1
    BY <1>1, <1>2, FS_AddElement
  <2> QED
    BY <1>3, <2>1
<1>4. CASE ~yes
  <2>1. S \cup {} = S
    OBVIOUS
  <2> QED
    BY <1>1, <1>4, <2>1
<1> QED
  BY <1>3, <1>4

\* How often an element occurs is a number, none in the empty sequence.
LEMMA OccursNat ==
  ASSUME NEW s, Len(s) \in Nat, NEW a
  PROVE  Occurs(s, a) \in Nat /\ (Len(s) = 0 => Occurs(s, a) = 0)
<1>1. {k \in 1 .. Len(s) : s[k] = a} \in SUBSET (1 .. Len(s))
  OBVIOUS
<1>2. Occurs(s, a) \in Nat
  BY <1>1, PlacesFinite DEF Occurs
<1>3. Len(s) = 0 => {k \in 1 .. Len(s) : s[k] = a} = {}
  OBVIOUS
<1> QED
  BY <1>2, <1>3, FS_EmptySet DEF Occurs

\* An element appended occurs once more.
LEMMA OccursAppend ==
  ASSUME NEW S, NEW s \in Seq(S), NEW x \in S, NEW a
  PROVE  Occurs(Append(s, x), a) = Occurs(s, a) + (IF x = a THEN 1 ELSE 0)
<1> DEFINE at == {k \in 1 .. Len(s) : s[k] = a}
           yes == x = a
<1>1. /\ Len(s) \in Nat /\ Len(Append(s, x)) = Len(s) + 1
      /\ \A k \in 1 .. Len(s) : Append(s, x)[k] = s[k]
      /\ Append(s, x)[Len(s) + 1] = x
  BY AppendProperties, LenProperties
<1>2. {k \in 1 .. Len(Append(s, x)) : Append(s, x)[k] = a}
        = at \cup (IF yes THEN {Len(s) + 1} ELSE {})
  BY <1>1
<1>3. at \in SUBSET (1 .. Len(s)) /\ yes \in BOOLEAN
  OBVIOUS
<1> HIDE DEF at, yes
<1>4. Cardinality(at \cup (IF yes THEN {Len(s) + 1} ELSE {}))
        = Cardinality(at) + (IF yes THEN 1 ELSE 0)
  BY <1>1, <1>3, PlaceMore
<1> QED
  BY <1>2, <1>4 DEF Occurs, at, yes

\* A coincidence pushed is one more on either axis it has a hit on.
LEMMA PushedAppend ==
  ASSUME TypeOK, NEW c \in Pairs, pushed' = Append(pushed, c), NEW x \in {1, 2}, NEW h
  PROVE  Pushed(x, h)' = Pushed(x, h) + (IF c[x] = h THEN 1 ELSE 0)
<1> DEFINE at == {k \in 1 .. Len(pushed) : pushed[k][x] = h}
           yes == c[x] = h
<1>1. pushed \in Seq(Pairs)
  BY DEF TypeOK
<1>2. /\ Len(pushed) \in Nat /\ Len(pushed') = Len(pushed) + 1
      /\ \A k \in 1 .. Len(pushed) : pushed'[k] = pushed[k]
      /\ pushed'[Len(pushed) + 1] = c
  BY <1>1, AppendProperties, LenProperties
<1>3. {k \in 1 .. Len(pushed') : pushed'[k][x] = h}
        = at \cup (IF yes THEN {Len(pushed) + 1} ELSE {})
  BY <1>2
<1>4. at \in SUBSET (1 .. Len(pushed)) /\ yes \in BOOLEAN
  OBVIOUS
<1> HIDE DEF at, yes
<1>5. Cardinality(at \cup (IF yes THEN {Len(pushed) + 1} ELSE {}))
        = Cardinality(at) + (IF yes THEN 1 ELSE 0)
  BY <1>2, <1>4, PlaceMore
<1> QED
  BY <1>3, <1>5 DEF Pushed, at, yes

\* The number of coincidences with a hit is a number.
LEMMA PushedNat ==
  ASSUME TypeOK, NEW x, NEW h
  PROVE  Pushed(x, h) \in Nat
<1>1. pushed \in Seq(Pairs)
  BY DEF TypeOK
<1>2. Len(pushed) \in Nat /\ {k \in 1 .. Len(pushed) : pushed[k][x] = h} \in SUBSET (1 .. Len(pushed))
  BY <1>1, LenProperties
<1> QED
  BY <1>2, PlacesFinite DEF Pushed

-----------------------------------------------------------------------------
(* The mutexes of the spies                                                 *)

\* A step of the interface, or a crash, leaves spies and merge thread alone.
LEMMA GuiFrame ==
  ASSUME GuiRuns \/ Crash
  PROVE  UNCHANGED <<Spymtx, spyVars, mergeVars, merged, pushed>>
  BY DEF GuiRuns, Test, GuiLocks, FillX, FillY, FillXY, ClearX, ClearY, GuiOther, Crash

\* Who holds the mutex of a spy does not change when a step leaves all of it alone.
LEMMA OneHolderKept ==
  ASSUME OneHolder, UNCHANGED <<Spymtx, reads, j>>,
         \A i \in Spies : spyPc'[i] \in {"pushV", "pushE"} <=> spyPc[i] \in {"pushV", "pushE"},
         mergePc' \in {"insert", "clear"} <=> mergePc \in {"insert", "clear"},
         mergePc' = "lockSpy" => mergePc = "lockSpy" \/ j \in Spies
  PROVE  OneHolder'
<1>1. \A i \in Spies : SpyHolds(i)' = SpyHolds(i) /\ MergeHolds(i)' = MergeHolds(i)
  BY DEF SpyHolds, MergeHolds
<1> QED
  BY <1>1 DEF OneHolder

\* A spy's mutex has one holder, whatever the threads see of each other.
LEMMA OneHolderStep ==
  ASSUME ThreadsInv, Next
  PROVE  OneHolder'
<1> USE DEF ThreadsInv
<1>0. OneHolder
  OBVIOUS
<1>1. spyPc \in [Spies -> {"poll", "want", "wantSpy", "pushV", "pushE", "nap", "unlock"}]
      /\ Spymtx \in [Spies -> BOOLEAN] /\ reads \in [Spies -> 0 .. MaxReads] /\ j \in Spies \cup {2}
      /\ MaxReads \in Nat
  BY ThreadsAssumption DEF TypeOK
<1>2. ASSUME NEW i \in Spies, Block(i)
      PROVE  OneHolder'
  <2>1. reads'[0] + reads'[1] <= MaxReads
    BY <1>1, <1>2 DEF Block, Spies
  <2>2. \A l \in Spies : SpyHolds(l)' = SpyHolds(l) /\ MergeHolds(l)' = MergeHolds(l)
    BY <1>1, <1>2 DEF Block, SpyAt, SpyOther, mergeVars, SpyHolds, MergeHolds
  <2> QED
    BY <1>2, <2>1, <2>2 DEF Block, SpyOther, mergeVars, OneHolder
<1>3. ASSUME NEW i \in Spies, GivesUp(i) \/ SpyLocks(i) \/ PushV(i) \/ Nap(i) \/ SpyUnlocks(i)
      PROVE  OneHolder'
  <2>1. /\ UNCHANGED <<Spymtx, reads, j, mergePc>>
        /\ \A l \in Spies : spyPc'[l] \in {"pushV", "pushE"} <=> spyPc[l] \in {"pushV", "pushE"}
    BY <1>1, <1>3 DEF GivesUp, SpyLocks, PushV, Nap, SpyUnlocks, SpyAt, SpyOther, mergeVars
  <2> QED
    BY <1>0, <2>1, OneHolderKept
<1>4. ASSUME NEW i \in Spies, SpyLocksOwn(i) \/ PushE(i)
      PROVE  OneHolder'
  <2>1. /\ UNCHANGED <<reads, j, mergePc>>
        /\ \A l \in Spies : l # i => spyPc'[l] = spyPc[l] /\ Spymtx'[l] = Spymtx[l]
    BY <1>1, <1>4 DEF SpyLocksOwn, PushE, SpyAt, SpyOther, mergeVars
  <2>2. (Spymtx'[i] <=> SpyHolds(i)') /\ ~MergeHolds(i)
    <3>1. CASE SpyLocksOwn(i)
      BY <1>0, <1>1, <3>1 DEF SpyLocksOwn, SpyAt, OneHolder, SpyHolds
    <3>2. CASE PushE(i)
      BY <1>0, <1>1, <3>2 DEF PushE, SpyAt, OneHolder, SpyHolds
    <3> QED
      BY <1>4, <3>1, <3>2
  <2>3. \A l \in Spies : MergeHolds(l)' = MergeHolds(l) /\ (l # i => SpyHolds(l)' = SpyHolds(l))
    BY <2>1 DEF MergeHolds, SpyHolds
  <2>4. (mergePc \in {"lockSpy", "insert", "clear"} => j \in Spies) /\ reads[0] + reads[1] <= MaxReads
    BY <1>0 DEF OneHolder
  <2>5. \A l \in Spies : (Spymtx'[l] <=> SpyHolds(l)' \/ MergeHolds(l)') /\ ~(SpyHolds(l)' /\ MergeHolds(l)')
    BY <1>0, <2>1, <2>2, <2>3 DEF OneHolder
  <2> QED
    BY <2>1, <2>4, <2>5 DEF OneHolder
<1>5. CASE Wakes \/ SeesHits \/ SeesNone \/ Match \/ NothingNew \/ MatchDone \/ MergeLocks \/ PushX \/ PushY
  <2>1. /\ UNCHANGED <<Spymtx, spyPc, reads>>
        /\ mergePc \notin {"insert", "clear"} /\ mergePc' \notin {"insert", "clear"}
        /\ mergePc' = "lockSpy" => j' \in Spies
    BY <1>1, <1>5 DEF Wakes, SeesHits, SeesNone, Match, NothingNew, MatchDone, MergeLocks, PushX,
                      PushY, MergeAt, MergeOther, Spies
  <2>2. \A l \in Spies : SpyHolds(l)' = SpyHolds(l) /\ ~MergeHolds(l) /\ ~MergeHolds(l)'
    BY <2>1 DEF SpyHolds, MergeHolds
  <2> QED
    BY <2>1, <2>2 DEF OneHolder
<1>6. CASE MergeLocksSpy
  <2>1. /\ UNCHANGED <<spyPc, reads, j>> /\ j \in Spies /\ mergePc = "lockSpy" /\ mergePc' = "insert"
        /\ Spymtx' = [Spymtx EXCEPT ![j] = TRUE] /\ ~Spymtx[j]
    BY <1>6 DEF MergeLocksSpy, MergeAt, MergeOther, OneHolder
  <2>2. \A l \in Spies : SpyHolds(l)' = SpyHolds(l) /\ ~MergeHolds(l) /\ (MergeHolds(l)' <=> l = j)
    BY <2>1 DEF SpyHolds, MergeHolds
  <2> QED
    BY <1>1, <2>1, <2>2 DEF OneHolder
<1>7. CASE Insert
  <2>1. UNCHANGED <<Spymtx, spyPc, reads, j>> /\ mergePc = "insert" /\ mergePc' = "clear"
    BY <1>7 DEF Insert, MergeAt, MergeOther
  <2> QED
    BY <1>0, <2>1, OneHolderKept
<1>8. CASE Clear
  <2>1. /\ UNCHANGED <<spyPc, reads>> /\ j \in Spies /\ mergePc = "clear" /\ mergePc' = "scan"
        /\ Spymtx' = [Spymtx EXCEPT ![j] = FALSE]
    BY <1>8 DEF Clear, MergeAt, MergeOther, OneHolder
  <2>2. \A l \in Spies : SpyHolds(l)' = SpyHolds(l) /\ ~MergeHolds(l)' /\ (MergeHolds(l) <=> l = j)
    BY <2>1 DEF SpyHolds, MergeHolds
  <2> QED
    BY <1>1, <2>1, <2>2 DEF OneHolder
<1>9. CASE GuiRuns \/ Crash
  BY <1>0, <1>9, GuiFrame, OneHolderKept DEF spyVars, mergeVars
<1> QED
  BY <1>2, <1>3, <1>4, <1>5, <1>6, <1>7, <1>8, <1>9 DEF Next, SpyRuns, MergeRuns

-----------------------------------------------------------------------------
(* Vectors and map                                                          *)

\* Counting on is appending.
LEMMA UpToNext ==
  ASSUME NEW n \in Nat
  PROVE  Append([k \in 1 .. n |-> k], n + 1) = [k \in 1 .. n + 1 |-> k]
<1> DEFINE s == [k \in 1 .. n |-> k]
<1>1. s \in Seq(Nat) /\ Len(s) = n
  BY LenProperties
<1>2. Append(s, n + 1) = [k \in 1 .. n + 1 |-> IF k = n + 1 THEN n + 1 ELSE s[k]]
  BY <1>1
<1> QED
  BY <1>2

\* Appending to what is put behind is appending to the whole.
LEMMA AppendBehind ==
  ASSUME NEW S, NEW s \in Seq(S), NEW t \in Seq(S), NEW x \in S
  PROVE  s \o Append(t, x) = Append(s \o t, x)
<1>1. Append(t, x) = t \o <<x>>
  BY AppendIsConcat
<1>2. s \o t \in Seq(S) /\ <<x>> \in Seq(S)
  BY ConcatProperties
<1>3. Append(s \o t, x) = (s \o t) \o <<x>>
  BY <1>2, AppendIsConcat
<1>4. (s \o t) \o <<x>> = s \o (t \o <<x>>)
  BY <1>2, ConcatAssociative
<1> QED
  BY <1>1, <1>3, <1>4

\* The hits of a spy that no step touches stay in step.
LEMMA InStepKept ==
  ASSUME ThreadsInv, NEW i \in Spies,
         v'[i] = v[i], e'[i] = e[i], merged'[i] = merged[i], reads'[i] = reads[i],
         spyPc'[i] = spyPc[i]
           \/ (/\ spyPc[i] \in {"want", "wantSpy"} /\ spyPc'[i] \in {"want", "wantSpy", "pushV"})
           \/ (/\ spyPc[i] \in {"poll", "nap", "unlock"} /\ spyPc'[i] \in {"poll", "nap", "unlock"}),
         (mergePc' = "clear" /\ j' = i) <=> (mergePc = "clear" /\ j = i)
  PROVE  /\ Given(i)' \in Nat /\ Taken(i)' = [k \in 1 .. Given(i)' |-> k]
         /\ v'[i] = IF spyPc'[i] = "pushE" THEN Append(e'[i], reads'[i]) ELSE e'[i]
<1>1. Given(i)' = Given(i) /\ Taken(i)' = Taken(i)
  BY DEF Given, Taken
<1> QED
  BY <1>1 DEF ThreadsInv, InStep

\* What is in the vector of a spy and in the map are its hits, once and in order.
LEMMA InStepStep ==
  ASSUME ThreadsInv, Next
  PROVE  InStep'
<1>1. /\ spyPc \in [Spies -> {"poll", "want", "wantSpy", "pushV", "pushE", "nap", "unlock"}]
      /\ reads \in [Spies -> 0 .. MaxReads] /\ j \in Spies \cup {2} /\ MaxReads \in Nat
      /\ v \in [Spies -> Seq(1 .. MaxReads)] /\ e \in [Spies -> Seq(1 .. MaxReads)]
      /\ merged \in [Spies -> Seq(1 .. MaxReads)]
  BY ThreadsAssumption DEF ThreadsInv, TypeOK
<1>2. \A i \in Spies :
        /\ Given(i) \in Nat /\ Taken(i) = [k \in 1 .. Given(i) |-> k]
        /\ v[i] = IF spyPc[i] = "pushE" THEN Append(e[i], reads[i]) ELSE e[i]
  BY DEF ThreadsInv, InStep
<1>3. \A i \in Spies : (Spymtx[i] <=> SpyHolds(i) \/ MergeHolds(i)) /\ ~(SpyHolds(i) /\ MergeHolds(i))
  BY DEF ThreadsInv, OneHolder
<1> SUFFICES ASSUME NEW i \in Spies
             PROVE  /\ Given(i)' \in Nat /\ Taken(i)' = [k \in 1 .. Given(i)' |-> k]
                    /\ v'[i] = IF spyPc'[i] = "pushE" THEN Append(e'[i], reads'[i]) ELSE e'[i]
  BY DEF InStep
<1>4. CASE \E l \in Spies : Block(l)
  <2>1. PICK l \in Spies : Block(l)
    BY <1>4
  <2>2. UNCHANGED <<v, e, merged, mergePc, j>>
    BY <2>1 DEF Block, SpyOther, mergeVars
  <2>3. CASE i = l
    <3>1. /\ spyPc[i] = "poll" /\ spyPc'[i] = "want" /\ reads'[i] = reads[i] + 1
      BY <1>1, <2>1, <2>3 DEF Block, SpyAt
    <3>2. Given(i)' = Given(i) /\ Taken(i)' = Taken(i)
      BY <1>1, <2>2, <3>1 DEF Given, Taken
    <3> QED
      BY <1>2, <2>2, <3>1, <3>2
  <2>4. CASE i # l
    <3>1. spyPc'[i] = spyPc[i] /\ reads'[i] = reads[i]
      BY <1>1, <2>1, <2>4 DEF Block, SpyAt
    <3> QED
      BY <2>2, <3>1, InStepKept
  <2> QED
    BY <2>3, <2>4
<1>5. CASE \E l \in Spies : GivesUp(l) \/ SpyLocks(l) \/ SpyLocksOwn(l) \/ Nap(l) \/ SpyUnlocks(l)
  <2>1. PICK l \in Spies : GivesUp(l) \/ SpyLocks(l) \/ SpyLocksOwn(l) \/ Nap(l) \/ SpyUnlocks(l)
    BY <1>5
  <2>2. UNCHANGED <<v, e, merged, mergePc, j, reads>>
    BY <2>1 DEF GivesUp, SpyLocks, SpyLocksOwn, Nap, SpyUnlocks, SpyOther, mergeVars
  <2>3. spyPc'[i] = spyPc[i]
           \/ (/\ spyPc[i] \in {"want", "wantSpy"} /\ spyPc'[i] \in {"want", "wantSpy", "pushV"})
           \/ (/\ spyPc[i] \in {"poll", "nap", "unlock"} /\ spyPc'[i] \in {"poll", "nap", "unlock"})
    BY <1>1, <2>1 DEF GivesUp, SpyLocks, SpyLocksOwn, Nap, SpyUnlocks, SpyAt
  <2> QED
    BY <2>2, <2>3, InStepKept
<1>6. CASE \E l \in Spies : PushV(l) \/ PushE(l)
  <2>1. PICK l \in Spies : PushV(l) \/ PushE(l)
    BY <1>6
  <2>2. UNCHANGED <<merged, mergePc, j, reads>>
    BY <2>1 DEF PushV, PushE, SpyOther, mergeVars
  <2>3. CASE i # l
    <3>1. spyPc'[i] = spyPc[i] /\ v'[i] = v[i] /\ e'[i] = e[i]
      BY <1>1, <2>1, <2>3 DEF PushV, PushE, SpyAt
    <3> QED
      BY <2>2, <3>1, InStepKept
  <2>4. CASE i = l /\ PushV(l)
    <3>1. /\ spyPc[i] = "pushV" /\ spyPc'[i] = "pushE" /\ v'[i] = Append(v[i], reads[i]) /\ e'[i] = e[i]
      BY <1>1, <2>4 DEF PushV, SpyAt
    <3>2. ~(mergePc = "clear" /\ j = i)
      BY <1>3, <3>1 DEF SpyHolds, MergeHolds
    <3>3. Given(i) = reads[i] - 1 /\ Given(i)' = reads[i] /\ reads[i] \in Nat /\ reads[i] - 1 \in Nat
      BY <1>1, <1>2, <2>2, <3>1 DEF Given
    <3>4. Taken(i) = merged[i] \o v[i] /\ Taken(i)' = merged[i] \o v'[i]
      BY <2>2, <3>2 DEF Taken
    <3>5. merged[i] \in Seq(Nat) /\ v[i] \in Seq(Nat)
      BY SMTT(15), <1>1
    <3>6. merged[i] \o Append(v[i], reads[i]) = Append(merged[i] \o v[i], reads[i])
      <4>1. PICK m \in Seq(Nat), t \in Seq(Nat), r \in Nat : m = merged[i] /\ t = v[i] /\ r = reads[i]
        BY <3>3, <3>5
      <4>2. m \o Append(t, r) = Append(m \o t, r)
        BY AppendBehind
      <4> QED
        BY <4>1, <4>2
    <3>7. Append([k \in 1 .. reads[i] - 1 |-> k], reads[i]) = [k \in 1 .. reads[i] |-> k]
      <4>1. PICK n \in Nat : n = reads[i] - 1
        BY <3>3
      <4>2. reads[i] = n + 1
        BY <3>3, <4>1
      <4> QED
        BY <4>1, <4>2, UpToNext
    <3>8. Taken(i)' = [k \in 1 .. Given(i)' |-> k]
      BY <1>2, <3>1, <3>3, <3>4, <3>6, <3>7
    <3> QED
      BY <1>2, <2>2, <3>1, <3>3, <3>8
  <2>5. CASE i = l /\ PushE(l)
    <3>1. /\ spyPc[i] = "pushE" /\ spyPc'[i] = "nap" /\ e'[i] = Append(e[i], reads[i]) /\ v'[i] = v[i]
      BY <1>1, <2>5 DEF PushE, SpyAt
    <3>2. Given(i)' = Given(i) /\ Taken(i)' = Taken(i)
      BY <2>2, <3>1 DEF Given, Taken
    <3> QED
      BY <1>2, <3>1, <3>2
  <2> QED
    BY <2>1, <2>3, <2>4, <2>5
<1>7. CASE Wakes \/ SeesHits \/ SeesNone \/ MergeLocksSpy \/ Match \/ NothingNew \/ MatchDone
             \/ MergeLocks \/ PushX \/ PushY
  <2>1. UNCHANGED <<v, e, merged, reads, spyPc>> /\ mergePc # "clear" /\ mergePc' # "clear"
    BY <1>7 DEF Wakes, SeesHits, SeesNone, MergeLocksSpy, Match, NothingNew, MatchDone, MergeLocks,
                PushX, PushY, MergeAt, MergeOther
  <2> QED
    BY <2>1, InStepKept
<1>8. CASE Insert
  <2>1. /\ UNCHANGED <<v, e, reads, spyPc, j>> /\ mergePc = "insert" /\ mergePc' = "clear"
        /\ merged' = [merged EXCEPT ![j] = merged[j] \o v[j]]
    BY <1>8 DEF Insert, MergeAt, MergeOther
  <2>2. Given(i)' = Given(i) /\ Taken(i)' = Taken(i)
    BY <1>1, <2>1 DEF Given, Taken
  <2> QED
    BY <1>2, <2>1, <2>2
<1>9. CASE Clear
  <2>1. /\ UNCHANGED <<merged, reads, spyPc>> /\ mergePc = "clear" /\ mergePc' = "scan"
        /\ v' = [v EXCEPT ![j] = <<>>] /\ e' = [e EXCEPT ![j] = <<>>]
    BY <1>9 DEF Clear, MergeAt, MergeOther
  <2>2. CASE i # j
    <3>1. v'[i] = v[i] /\ e'[i] = e[i]
      BY <1>1, <2>1, <2>2
    <3> QED
      BY <2>1, <2>2, <3>1, InStepKept
  <2>3. CASE i = j
    <3>1. v'[i] = <<>> /\ e'[i] = <<>>
      BY <1>1, <2>1, <2>3
    <3>2. merged[i] \o <<>> = merged[i]
      BY <1>1
    <3>3. Taken(i)' = Taken(i) /\ Given(i)' = Given(i)
      BY <2>1, <2>3, <3>1, <3>2 DEF Taken, Given
    <3>4. spyPc[i] # "pushE"
      BY <1>3, <2>1, <2>3 DEF SpyHolds, MergeHolds
    <3> QED
      BY <1>2, <2>1, <3>1, <3>3, <3>4
  <2> QED
    BY <2>2, <2>3
<1>10. CASE GuiRuns \/ Crash
  BY <1>10, GuiFrame, InStepKept DEF spyVars, mergeVars
<1> QED
  BY <1>4, <1>5, <1>6, <1>7, <1>8, <1>9, <1>10 DEF Next, SpyRuns, MergeRuns

-----------------------------------------------------------------------------
(* Types                                                                    *)

\* What a pass finds are coincidences of hits.
LEMMA FindingsArePairs ==
  ASSUME ThreadsInv
  PROVE  Findings \subseteq Seq(Pairs)
<1>1. merged \in [Spies -> Seq(1 .. MaxReads)]
  BY DEF ThreadsInv, TypeOK
<1>2. \A i \in Spies : \A k \in 1 .. Len(merged[i]) : merged[i][k] \in 1 .. MaxReads
  BY <1>1, ElementOfSeq
<1>3. \A i \in Spies : Unpushed(i) \subseteq Hits
  BY <1>2 DEF Unpushed, Hits
<1>4. 0 \in Spies /\ 1 \in Spies
  BY DEF Spies
<1>5. Unpushed(0) \subseteq Hits /\ Unpushed(1) \subseteq Hits
  BY <1>3, <1>4
<1>6. \A a \in Hits, b \in Hits : <<a, None>> \in Pairs /\ <<None, b>> \in Pairs /\ <<a, b>> \in Pairs
  BY DEF Pairs
<1>7. \A f \in Findings : f \in Seq(Pairs)
  <2> SUFFICES ASSUME NEW f \in Findings PROVE f \in Seq(Pairs)
    OBVIOUS
  <2>1. CASE f = <<>>
    BY <2>1, EmptySeq
  <2>2. CASE (\E a \in Unpushed(0) : f = << <<a, None>> >>) \/ (\E b \in Unpushed(1) : f = << <<None, b>> >>)
    <3>1. PICK c \in Pairs : f = <<c>>
      BY <1>5, <1>6, <2>2
    <3> QED
      BY <3>1
  <2>4. CASE \E a \in Unpushed(0), b \in Unpushed(1) : f = << <<a, None>>, <<None, b>>, <<a, b>> >>
    <3>1. PICK a \in Hits, b \in Hits : f = << <<a, None>>, <<None, b>>, <<a, b>> >>
      BY <1>5, <2>4
    <3>2. PICK c \in Pairs, d \in Pairs, g \in Pairs : f = <<c, d, g>>
      BY <1>6, <3>1
    <3> QED
      BY <3>2
  <2> QED
    BY <2>1, <2>2, <2>4 DEF Findings
<1> QED
  BY <1>7

\* Filling a histogram counts on.
LEMMA FillNat ==
  ASSUME NEW h1 \in [Hits -> Nat], NEW s, Len(s) \in Nat
  PROVE  Fill(h1, s) \in [Hits -> Nat]
  BY OccursNat DEF Fill

\* The types of what spies and merge thread share, when the others stay.
LEMMA TypesStep ==
  ASSUME ThreadsInv, Next
  PROVE  TypeOK'
<1>1. TypeOK /\ MaxReads \in Nat /\ MaxWaits \in Nat
  BY ThreadsAssumption DEF ThreadsInv
<1>2. ASSUME NEW i \in Spies, Block(i)
      PROVE  TypeOK'
  <2>1. reads[0] \in Nat /\ reads[1] \in Nat /\ reads[0] + reads[1] < MaxReads
    BY <1>1, <1>2 DEF Block, TypeOK, Spies
  <2>2. reads[i] + 1 \in 0 .. MaxReads
    BY <1>1, <2>1 DEF Spies
  <2>3. reads' \in [Spies -> 0 .. MaxReads]
    BY <1>1, <1>2, <2>2 DEF Block, TypeOK
  <2>4. spyPc' \in [Spies -> {"poll", "want", "wantSpy", "pushV", "pushE", "nap", "unlock"}]
    BY <1>1, <1>2 DEF Block, SpyAt, TypeOK
  <2> QED
    BY ZenonT(40), <1>1, <1>2, <2>3, <2>4 DEF Block, SpyOther, mergeVars, hists, TypeOK
<1>3. ASSUME NEW i \in Spies, GivesUp(i)
      PROVE  TypeOK'
  <2>1. /\ spyPc' \in [Spies -> {"poll", "want", "wantSpy", "pushV", "pushE", "nap", "unlock"}]
        /\ waits' \in 0 .. MaxWaits
    BY <1>1, <1>3 DEF GivesUp, SpyAt, TypeOK
  <2> QED
    BY ZenonT(40), <1>1, <1>3, <2>1 DEF GivesUp, mergeVars, hists, TypeOK
<1>4. ASSUME NEW i \in Spies, SpyLocks(i) \/ SpyLocksOwn(i) \/ Nap(i) \/ SpyUnlocks(i)
      PROVE  TypeOK'
  <2>1. /\ spyPc' \in [Spies -> {"poll", "want", "wantSpy", "pushV", "pushE", "nap", "unlock"}]
        /\ mtx' \in BOOLEAN /\ Spymtx' \in [Spies -> BOOLEAN]
    BY <1>1, <1>4 DEF SpyLocks, SpyLocksOwn, Nap, SpyUnlocks, SpyAt, TypeOK
  <2>2. UNCHANGED <<v, e, reads, SpyOther>>
    BY <1>4 DEF SpyLocks, SpyLocksOwn, Nap, SpyUnlocks
  <2> QED
    BY <1>1, <2>1, <2>2 DEF SpyOther, mergeVars, hists, TypeOK
<1>5. ASSUME NEW i \in Spies, PushV(i) \/ PushE(i)
      PROVE  TypeOK'
  <2>1. /\ spyPc' \in [Spies -> {"poll", "want", "wantSpy", "pushV", "pushE", "nap", "unlock"}]
        /\ Spymtx' \in [Spies -> BOOLEAN]
    BY <1>1, <1>5 DEF PushV, PushE, SpyAt, TypeOK
  <2>2. reads[i] \in 1 .. MaxReads
    <3>1. spyPc[i] = "pushV" => reads[i] - 1 \in Nat
      BY DEF ThreadsInv, InStep, Given
    <3>2. spyPc[i] = "pushE" => Given(i) = reads[i] /\ v[i] = Append(e[i], reads[i])
      BY DEF ThreadsInv, InStep, Given
    <3>3. v[i] \in Seq(1 .. MaxReads) /\ e[i] \in Seq(1 .. MaxReads) /\ reads[i] \in 0 .. MaxReads
      BY <1>1 DEF TypeOK
    <3>4. spyPc[i] = "pushE" => reads[i] \in 1 .. MaxReads
      <4> SUFFICES ASSUME spyPc[i] = "pushE" PROVE reads[i] \in 1 .. MaxReads
        OBVIOUS
      <4>1. e[i] \in Seq(Nat) /\ Len(e[i]) \in Nat /\ reads[i] \in Nat
        BY <1>1, <3>3
      <4>2. Len(v[i]) = Len(e[i]) + 1 /\ v[i][Len(e[i]) + 1] = reads[i]
        BY <3>2, <4>1, AppendProperties
      <4>3. \A k \in 1 .. Len(v[i]) : v[i][k] \in 1 .. MaxReads
        BY <3>3, ElementOfSeq
      <4> QED
        BY <4>1, <4>2, <4>3
    <3>5. spyPc[i] \in {"pushV", "pushE"}
      BY <1>5 DEF PushV, PushE, SpyAt
    <3> QED
      BY <1>1, <3>1, <3>3, <3>4, <3>5
  <2>3. v' \in [Spies -> Seq(1 .. MaxReads)] /\ e' \in [Spies -> Seq(1 .. MaxReads)]
    <3>1. /\ v \in [Spies -> Seq(1 .. MaxReads)] /\ e \in [Spies -> Seq(1 .. MaxReads)]
          /\ v[i] \in Seq(1 .. MaxReads) /\ e[i] \in Seq(1 .. MaxReads)
      BY <1>1 DEF TypeOK
    <3>2. Append(v[i], reads[i]) \in Seq(1 .. MaxReads) /\ Append(e[i], reads[i]) \in Seq(1 .. MaxReads)
      BY <2>2, <3>1, AppendProperties
    <3>3. v' \in {v, [v EXCEPT ![i] = Append(v[i], reads[i])]}
          /\ e' \in {e, [e EXCEPT ![i] = Append(e[i], reads[i])]}
      BY <1>5 DEF PushV, PushE
    <3> QED
      BY <3>1, <3>2, <3>3
  <2>4. UNCHANGED <<mtx, reads, SpyOther>>
    BY <1>5 DEF PushV, PushE
  <2> QED
    BY ZenonT(40), <1>1, <2>1, <2>3, <2>4 DEF SpyOther, mergeVars, hists, TypeOK
<1>6. CASE Wakes \/ SeesHits \/ SeesNone \/ MergeLocksSpy \/ NothingNew \/ MatchDone \/ MergeLocks
  <2>0. j \in {0, 1, 2} /\ vsize \in Nat /\ mtx \in BOOLEAN /\ Spymtx \in [Spies -> BOOLEAN]
    BY <1>1 DEF TypeOK, Spies
  <2>3. mergePc' \in {"sleep", "scan", "lockSpy", "insert", "clear", "match", "pushX", "pushY"}
    BY <1>6 DEF Wakes, SeesHits, SeesNone, MergeLocksSpy, NothingNew, MatchDone, MergeLocks, MergeAt
  <2>4. j' \in {0, 1, 2} /\ vsize' \in Nat
    BY <1>6, <2>0 DEF Wakes, SeesHits, SeesNone, MergeLocksSpy, NothingNew, MatchDone, MergeLocks
  <2>5. mtx' \in BOOLEAN /\ Spymtx' \in [Spies -> BOOLEAN]
    BY <1>6, <2>0 DEF Wakes, SeesHits, SeesNone, MergeLocksSpy, NothingNew, MatchDone, MergeLocks
  <2>1. /\ mergePc' \in {"sleep", "scan", "lockSpy", "insert", "clear", "match", "pushX", "pushY"}
        /\ j' \in Spies \cup {2} /\ vsize' \in Nat /\ mtx' \in BOOLEAN /\ Spymtx' \in [Spies -> BOOLEAN]
    BY <2>3, <2>4, <2>5 DEF Spies
  <2>2. UNCHANGED <<v, e, todo, X, Y, merged, pushed, MergeOther>>
    BY <1>6 DEF Wakes, SeesHits, SeesNone, MergeLocksSpy, NothingNew, MatchDone, MergeLocks
  <2> QED
    BY <1>1, <2>1, <2>2 DEF MergeOther, hists, TypeOK
<1>7. CASE Insert
  <2>1. j \in Spies
    BY <1>7 DEF ThreadsInv, OneHolder, Insert, MergeAt
  <2>2. merged[j] \in Seq(1 .. MaxReads) /\ v[j] \in Seq(1 .. MaxReads)
    BY <1>1, <2>1 DEF TypeOK
  <2>3. merged[j] \o v[j] \in Seq(1 .. MaxReads) /\ Len(v[j]) \in Nat
    BY <2>2, ConcatProperties, LenProperties
  <2>4. merged' \in [Spies -> Seq(1 .. MaxReads)] /\ vsize' \in Nat /\ mergePc' = "clear"
    <3>1. merged \in [Spies -> Seq(1 .. MaxReads)] /\ vsize \in Nat
      BY <1>1 DEF TypeOK
    <3>2. /\ merged' = [merged EXCEPT ![j] = merged[j] \o v[j]] /\ vsize' = vsize + Len(v[j])
          /\ mergePc' = "clear"
      BY <1>7 DEF Insert, MergeAt
    <3>3. PICK m \in Seq(1 .. MaxReads), n \in Nat : m = merged[j] \o v[j] /\ n = Len(v[j])
      BY <2>3
    <3>4. merged' = [merged EXCEPT ![j] = m] /\ vsize' = vsize + n
      BY <3>2, <3>3
    <3>5. [merged EXCEPT ![j] = m] \in [Spies -> Seq(1 .. MaxReads)]
      BY <2>1, <3>1
    <3> QED
      BY ONLY <3>1, <3>2, <3>3, <3>4, <3>5
  <2> QED
    BY <1>1, <1>7, <2>4 DEF Insert, MergeOther, hists, TypeOK
<1>8. CASE Clear
  <2>1. j \in Spies
    BY <1>8 DEF ThreadsInv, OneHolder, Clear, MergeAt
  <2>2. /\ v' \in [Spies -> Seq(1 .. MaxReads)] /\ e' \in [Spies -> Seq(1 .. MaxReads)]
        /\ Spymtx' \in [Spies -> BOOLEAN] /\ mergePc' = "scan"
    BY <1>1, <1>8, <2>1 DEF Clear, MergeAt, TypeOK
  <2>3. j' \in Spies \cup {2}
    BY <1>8, <2>1 DEF Clear, Spies
  <2> QED
    BY <1>1, <1>8, <2>2, <2>3 DEF Clear, MergeOther, hists, TypeOK
<1>9. CASE Match
  <2>1. todo' \in Seq(Pairs) /\ mergePc' = "match"
    BY <1>9, FindingsArePairs DEF Match, MergeAt
  <2> QED
    BY <1>1, <1>9, <2>1 DEF Match, MergeOther, hists, TypeOK
<1>10. CASE PushX \/ PushY
  <2>1. todo \in Seq(Pairs) /\ todo # <<>>
    BY <1>1, <1>10 DEF ThreadsInv, HasTodo, PushX, PushY, MergeAt, TypeOK
  <2>2. Head(todo) \in Pairs /\ Tail(todo) \in Seq(Pairs)
    BY <2>1, HeadTailProperties
  <2>3. Head(todo)[1] \in Hits \cup {None} /\ Head(todo)[2] \in Hits \cup {None}
    BY <2>2 DEF Pairs
  <2>4. /\ X' \in Seq(Hits \cup {None}) /\ Y' \in Seq(Hits \cup {None})
        /\ pushed' \in Seq(Pairs) /\ todo' \in Seq(Pairs)
    <3>1. X \in Seq(Hits \cup {None}) /\ Y \in Seq(Hits \cup {None}) /\ pushed \in Seq(Pairs)
      BY <1>1 DEF TypeOK
    <3>2. Append(X, Head(todo)[1]) \in Seq(Hits \cup {None})
      BY <2>3, <3>1, AppendProperties
    <3>3. Append(Y, Head(todo)[2]) \in Seq(Hits \cup {None})
      BY <2>3, <3>1, AppendProperties
    <3>4. Append(pushed, Head(todo)) \in Seq(Pairs)
      BY <2>2, <3>1, AppendProperties
    <3>5. /\ X' \in {X, Append(X, Head(todo)[1])} /\ Y' \in {Y, Append(Y, Head(todo)[2])}
          /\ pushed' \in {pushed, Append(pushed, Head(todo))} /\ todo' \in {todo, Tail(todo)}
      BY <1>10 DEF PushX, PushY
    <3> QED
      BY <2>1, <2>2, <3>1, <3>2, <3>3, <3>4, <3>5
  <2>5. mergePc' \in {"match", "pushY"} /\ mtx' \in BOOLEAN
    BY <1>1, <1>10 DEF PushX, PushY, MergeAt, MergeReleases, TypeOK
  <2>6. UNCHANGED <<Spymtx, v, e, j, vsize, merged, MergeOther>>
    BY <1>10 DEF PushX, PushY
  <2> QED
    BY <1>1, <2>4, <2>5, <2>6 DEF MergeOther, hists, TypeOK
<1>11. CASE GuiRuns
  <2>1. UNCHANGED GuiOther
    BY <1>11 DEF GuiRuns, Test, GuiLocks, FillX, FillY, FillXY, ClearX, ClearY
  <2>2. mtx' \in BOOLEAN /\ guiPc' \in {"idle", "lockX", "fillX", "testY", "lockY", "fillY", "testXY",
                                        "lockXY", "fillXY", "clearX", "clearY"}
    BY <1>1, <1>11 DEF GuiRuns, Test, GuiLocks, FillX, FillY, FillXY, ClearX, ClearY, GuiAt, TypeOK
  <2>3. X' \in Seq(Hits \cup {None}) /\ Y' \in Seq(Hits \cup {None})
    <3>1. X' \in {X, <<>>} /\ Y' \in {Y, <<>>}
      BY <1>11 DEF GuiRuns, Test, GuiLocks, FillX, FillY, FillXY, ClearX, ClearY
    <3>2. X \in Seq(Hits \cup {None}) /\ Y \in Seq(Hits \cup {None})
      BY <1>1 DEF TypeOK
    <3>3. <<>> \in Seq(Hits \cup {None})
      BY EmptySeq
    <3> QED
      BY <3>1, <3>2, <3>3
  <2>4. Len(X) \in Nat /\ Len(Y) \in Nat
    BY <1>1, LenProperties DEF TypeOK
  <2>5. h1X' \in [Hits -> Nat] /\ h1Y' \in [Hits -> Nat]
    <3>1. h1X' \in {h1X, Fill(h1X, X)} /\ h1Y' \in {h1Y, Fill(h1Y, Y)}
      BY <1>11 DEF GuiRuns, Test, GuiLocks, FillX, FillY, FillXY, ClearX, ClearY, hists
    <3>2. h1X \in [Hits -> Nat] /\ h1Y \in [Hits -> Nat]
      BY <1>1 DEF TypeOK
    <3>3. Fill(h1X, X) \in [Hits -> Nat] /\ Fill(h1Y, Y) \in [Hits -> Nat]
      BY <2>4, <3>2, FillNat
    <3> QED
      BY <3>1, <3>2, <3>3
  <2>6. h2' \in [Cells -> Nat]
    <3>1. CASE FillXY
      <4>1. PICK rows \in Rows : h2' = [c \in Cells |-> h2[c] + Occurs(rows, c)]
        BY <3>1 DEF FillXY
      <4>2. Len(rows) = Len(X)
        BY <2>4, <4>1 DEF Rows
      <4>3. \A c \in Cells : Occurs(rows, c) \in Nat
        BY <2>4, <4>2, OccursNat
      <4> QED
        BY <1>1, <4>1, <4>3 DEF TypeOK
    <3>2. CASE ~FillXY
      BY <1>1, <1>11, <3>2 DEF GuiRuns, Test, GuiLocks, FillX, FillY, ClearX, ClearY, hists, TypeOK
    <3> QED
      BY <3>1, <3>2
  <2> QED
    BY <1>1, <2>1, <2>2, <2>3, <2>5, <2>6 DEF GuiOther, spyVars, mergeVars, TypeOK
<1>12. CASE Crash
  BY <1>1, <1>12 DEF Crash, spyVars, mergeVars, hists, TypeOK
<1> QED
  BY <1>2, <1>3, <1>4, <1>5, <1>6, <1>7, <1>8, <1>9, <1>10, <1>11, <1>12 DEF Next, SpyRuns, MergeRuns

\* The merge thread pushes what it has.
LEMMA HasTodoStep ==
  ASSUME ThreadsInv, Next
  PROVE  HasTodo'
<1>1. CASE MergeRuns
  BY <1>1 DEF ThreadsInv, HasTodo, MergeRuns, Wakes, SeesHits, SeesNone, MergeLocksSpy, Insert, Clear,
              Match, NothingNew, MatchDone, MergeLocks, PushX, PushY, MergeAt
<1>2. CASE GuiRuns \/ Crash
  BY <1>2, GuiFrame DEF ThreadsInv, HasTodo, mergeVars
<1>3. CASE \E i \in Spies : Block(i) \/ GivesUp(i) \/ SpyRuns(i)
  BY <1>3 DEF ThreadsInv, HasTodo, Block, GivesUp, SpyRuns, SpyLocks, SpyLocksOwn, PushV, PushE, Nap,
              SpyUnlocks, SpyOther, mergeVars
<1> QED
  BY <1>1, <1>2, <1>3 DEF Next

-----------------------------------------------------------------------------
(* Histograms                                                               *)

\* What is filled or may be filled was pushed, for hit h: the facts of NotTwice and
\* their types.
LEMMA CountsOf ==
  ASSUME ThreadsInv, NEW h \in Hits
  PROVE  /\ h1X[h] \in Nat /\ h1Y[h] \in Nat /\ Occurs(X, h) \in Nat /\ Occurs(Y, h) \in Nat
         /\ Pushed(1, h) \in Nat /\ Pushed(2, h) \in Nat
         /\ h1X[h] + (IF MayFillX THEN Occurs(X, h) ELSE 0) <= Pushed(1, h)
         /\ h1Y[h] + (IF MayFillY THEN Occurs(Y, h) ELSE 0)
              + (IF mergePc = "pushY" /\ Head(todo)[2] = h THEN 1 ELSE 0) <= Pushed(2, h)
<1>1. TypeOK /\ NotTwice
  BY DEF ThreadsInv
<1>2. /\ h1X \in [Hits -> Nat] /\ h1Y \in [Hits -> Nat]
      /\ X \in Seq(Hits \cup {None}) /\ Y \in Seq(Hits \cup {None})
  BY <1>1 DEF TypeOK
<1>3. Len(X) \in Nat /\ Len(Y) \in Nat
  BY <1>2, LenProperties
<1>4. Occurs(X, h) \in Nat /\ Occurs(Y, h) \in Nat
  BY <1>3, OccursNat
<1>5. Pushed(1, h) \in Nat /\ Pushed(2, h) \in Nat
  BY <1>1, PushedNat
<1> QED
  BY <1>1, <1>2, <1>4, <1>5 DEF NotTwice

\* No hit is filled more often than it was pushed, on either axis.
LEMMA NotTwiceStep ==
  ASSUME ThreadsInv, Next
  PROVE  NotTwice'
<1>0. TypeOK /\ HasTodo
  BY DEF ThreadsInv
<1> SUFFICES ASSUME NEW h \in Hits
             PROVE  /\ h1X'[h] + (IF MayFillX' THEN Occurs(X', h) ELSE 0) <= Pushed(1, h)'
                    /\ h1Y'[h] + (IF MayFillY' THEN Occurs(Y', h) ELSE 0)
                         + (IF mergePc' = "pushY" /\ Head(todo')[2] = h THEN 1 ELSE 0) <= Pushed(2, h)'
  BY DEF NotTwice
<1> DEFINE coming == IF mergePc = "pushY" /\ Head(todo)[2] = h THEN 1 ELSE 0
           x == Occurs(X, h)
           y == Occurs(Y, h)
<1>1. /\ h1X[h] \in Nat /\ h1Y[h] \in Nat /\ x \in Nat /\ y \in Nat /\ coming \in {0, 1}
      /\ Pushed(1, h) \in Nat /\ Pushed(2, h) \in Nat
      /\ h1X[h] + (IF MayFillX THEN x ELSE 0) <= Pushed(1, h)
      /\ h1Y[h] + (IF MayFillY THEN y ELSE 0) + coming <= Pushed(2, h)
  BY CountsOf
<1>2. CASE (\E i \in Spies : Block(i) \/ GivesUp(i) \/ SpyRuns(i)) \/ Crash
  <2>1. UNCHANGED <<X, Y, pushed, hists, guiPc, mergePc, todo>>
    BY <1>2 DEF Block, GivesUp, SpyRuns, SpyLocks, SpyLocksOwn, PushV, PushE, Nap, SpyUnlocks,
                SpyOther, Crash, mergeVars
  <2> QED
    BY <1>1, <2>1 DEF MayFillX, MayFillY, Pushed, hists
<1>3. CASE Wakes \/ SeesHits \/ SeesNone \/ MergeLocksSpy \/ Insert \/ Clear \/ Match
             \/ NothingNew \/ MatchDone \/ MergeLocks
  <2>1. UNCHANGED <<X, Y, pushed, hists, guiPc>> /\ mergePc' # "pushY"
    BY <1>3 DEF Wakes, SeesHits, SeesNone, MergeLocksSpy, Insert, Clear, Match, NothingNew, MatchDone,
                MergeLocks, MergeAt, MergeOther
  <2>2. Pushed(1, h)' = Pushed(1, h) /\ Pushed(2, h)' = Pushed(2, h)
    BY <2>1 DEF Pushed
  <2>3. h1Y[h] + (IF MayFillY THEN y ELSE 0) <= Pushed(2, h)
    BY <1>1
  <2> QED
    BY <1>1, <2>1, <2>2, <2>3 DEF MayFillX, MayFillY, hists
<1>4. CASE PushX \/ PushY
  <2>1. /\ X \in Seq(Hits \cup {None}) /\ Y \in Seq(Hits \cup {None})
        /\ todo \in Seq(Pairs) /\ todo # <<>>
    BY <1>0, <1>4 DEF TypeOK, HasTodo, PushX, PushY, MergeAt
  <2>2. Head(todo) \in Pairs
    BY <2>1, HeadTailProperties
  <2>3. Head(todo)[1] \in Hits \cup {None} /\ Head(todo)[2] \in Hits \cup {None}
    BY <2>2 DEF Pairs
  <2>4. CASE PushX
    <3>1. /\ X' = Append(X, Head(todo)[1]) /\ pushed' = Append(pushed, Head(todo))
          /\ UNCHANGED <<Y, todo, hists, guiPc>> /\ mergePc = "pushX" /\ mergePc' = "pushY"
      BY <2>4 DEF PushX, MergeAt, MergeOther
    <3>2. Occurs(X', h) = x + (IF Head(todo)[1] = h THEN 1 ELSE 0)
      BY <2>1, <2>3, <3>1, OccursAppend
    <3>3. Pushed(1, h)' = Pushed(1, h) + (IF Head(todo)[1] = h THEN 1 ELSE 0)
      BY <1>0, <2>2, <3>1, PushedAppend
    <3>4. Pushed(2, h)' = Pushed(2, h) + (IF Head(todo)[2] = h THEN 1 ELSE 0)
      BY <1>0, <2>2, <3>1, PushedAppend
    <3>5. /\ h1X' = h1X /\ h1Y' = h1Y /\ Occurs(Y', h) = y /\ coming = 0
          /\ MayFillX' = MayFillX /\ MayFillY' = MayFillY
      BY <3>1 DEF MayFillX, MayFillY, hists
    <3> HIDE DEF coming, x, y
    <3>6. h1X'[h] + (IF MayFillX' THEN Occurs(X', h) ELSE 0) <= Pushed(1, h)'
      BY <1>1, <3>2, <3>3, <3>5
    <3>7. h1Y'[h] + (IF MayFillY' THEN Occurs(Y', h) ELSE 0)
            + (IF Head(todo)[2] = h THEN 1 ELSE 0) <= Pushed(2, h)'
      BY <1>1, <3>4, <3>5
    <3> QED
      BY <3>1, <3>6, <3>7
  <2>5. CASE PushY
    <3>1. /\ Y' = Append(Y, Head(todo)[2]) /\ UNCHANGED <<X, pushed, hists, guiPc>>
          /\ mergePc = "pushY" /\ mergePc' = "match"
      BY <2>5 DEF PushY, MergeAt, MergeOther
    <3>2. Occurs(Y', h) = y + coming
      BY SMTT(15), <2>1, <2>3, <3>1, OccursAppend
    <3>3. /\ h1X' = h1X /\ h1Y' = h1Y /\ Occurs(X', h) = x
          /\ MayFillX' = MayFillX /\ MayFillY' = MayFillY
          /\ Pushed(1, h)' = Pushed(1, h) /\ Pushed(2, h)' = Pushed(2, h)
      BY <3>1 DEF MayFillX, MayFillY, Pushed, hists
    <3> HIDE DEF coming, x, y
    <3>4. h1Y'[h] + (IF MayFillY' THEN Occurs(Y', h) ELSE 0) <= Pushed(2, h)'
      BY <1>1, <3>2, <3>3
    <3>5. h1Y'[h] + (IF MayFillY' THEN Occurs(Y', h) ELSE 0) + 0 = h1Y'[h] + (IF MayFillY' THEN Occurs(Y', h) ELSE 0)
      BY <1>1, <3>2, <3>3
    <3> QED
      BY <1>1, <3>1, <3>3, <3>4, <3>5
  <2> QED
    BY <1>4, <2>4, <2>5
<1>5. CASE GuiRuns
  <2>1. UNCHANGED <<mergePc, todo, pushed>>
    BY <1>5, GuiFrame DEF mergeVars
  <2>2. Pushed(1, h)' = Pushed(1, h) /\ Pushed(2, h)' = Pushed(2, h)
    BY <2>1 DEF Pushed
  <2>3. h1X'[h] + (IF MayFillX' THEN Occurs(X', h) ELSE 0) <= h1X[h] + (IF MayFillX THEN x ELSE 0)
    <3>1. CASE FillX
      <4>1. h1X'[h] = h1X[h] + x /\ MayFillX /\ ~MayFillX'
        BY <3>1 DEF FillX, GuiAt, Fill, MayFillX
      <4> QED
        BY <1>1, <4>1
    <3>2. CASE ClearX
      <4>1. h1X' = h1X /\ Len(X') = 0
        BY <3>2 DEF ClearX, hists
      <4>2. Occurs(X', h) = 0
        BY <4>1, OccursNat
      <4> QED
        BY <1>1, <4>1, <4>2
    <3>3. CASE GuiRuns /\ ~FillX /\ ~ClearX
      <4>1. h1X' = h1X /\ X' = X /\ (MayFillX' => MayFillX)
        BY <3>3 DEF GuiRuns, Test, GuiLocks, FillY, FillXY, ClearY, GuiAt, MayFillX, hists
      <4> QED
        BY <1>1, <4>1
    <3> QED
      BY <1>5, <3>1, <3>2, <3>3
  <2>4. h1Y'[h] + (IF MayFillY' THEN Occurs(Y', h) ELSE 0) <= h1Y[h] + (IF MayFillY THEN y ELSE 0)
    <3>1. CASE FillY
      <4>1. h1Y'[h] = h1Y[h] + y /\ MayFillY /\ ~MayFillY'
        BY <3>1 DEF FillY, GuiAt, Fill, MayFillY
      <4> QED
        BY <1>1, <4>1
    <3>2. CASE ClearY
      <4>1. h1Y' = h1Y /\ Len(Y') = 0
        BY <3>2 DEF ClearY, hists
      <4>2. Occurs(Y', h) = 0
        BY <4>1, OccursNat
      <4> QED
        BY <1>1, <4>1, <4>2
    <3>3. CASE GuiRuns /\ ~FillY /\ ~ClearY
      <4>1. h1Y' = h1Y /\ Y' = Y /\ (MayFillY' => MayFillY)
        BY <3>3 DEF GuiRuns, Test, GuiLocks, FillX, FillXY, ClearX, GuiAt, MayFillY, hists
      <4> QED
        BY <1>1, <4>1
    <3> QED
      BY <1>5, <3>1, <3>2, <3>3
  <2>5. h1X'[h] + (IF MayFillX' THEN Occurs(X', h) ELSE 0) \in Int
        /\ h1Y'[h] + (IF MayFillY' THEN Occurs(Y', h) ELSE 0) \in Int
    <3>1. TypeOK'
      BY TypesStep
    <3>2. /\ h1X' \in [Hits -> Nat] /\ h1Y' \in [Hits -> Nat]
          /\ X' \in Seq(Hits \cup {None}) /\ Y' \in Seq(Hits \cup {None})
      BY <3>1 DEF TypeOK
    <3>3. Len(X') \in Nat /\ Len(Y') \in Nat
      BY <3>2, LenProperties
    <3>4. Occurs(X', h) \in Nat /\ Occurs(Y', h) \in Nat
      BY <3>3, OccursNat
    <3> QED
      BY <3>2, <3>4
  <2>6. (IF mergePc' = "pushY" /\ Head(todo')[2] = h THEN 1 ELSE 0) = coming
    BY <2>1
  <2> HIDE DEF coming, x, y
  <2> QED
    BY <1>1, <2>2, <2>3, <2>4, <2>5, <2>6
<1> QED
  BY <1>2, <1>3, <1>4, <1>5 DEF Next, MergeRuns

-----------------------------------------------------------------------------
(* The invariant                                                            *)

\* The invariant holds where the threads start.
LEMMA ThreadsInvInit == Init => ThreadsInv
<1> SUFFICES ASSUME Init PROVE ThreadsInv
  OBVIOUS
<1>1. MaxReads \in Nat /\ MaxWaits \in Nat /\ <<>> \in Seq(1 .. MaxReads) /\ <<>> \in Seq(Pairs)
      /\ <<>> \in Seq(Hits \cup {None})
  BY ThreadsAssumption, EmptySeq
<1>2. TypeOK
  <2>1. /\ Spymtx \in [Spies -> BOOLEAN]
        /\ spyPc \in [Spies -> {"poll", "want", "wantSpy", "pushV", "pushE", "nap", "unlock"}]
        /\ reads \in [Spies -> 0 .. MaxReads] /\ waits \in 0 .. MaxWaits
    BY <1>1 DEF Init
  <2>2. /\ v \in [Spies -> Seq(1 .. MaxReads)] /\ e \in [Spies -> Seq(1 .. MaxReads)]
        /\ merged \in [Spies -> Seq(1 .. MaxReads)]
    BY <1>1 DEF Init
  <2>3. h1X \in [Hits -> Nat] /\ h1Y \in [Hits -> Nat] /\ h2 \in [Cells -> Nat]
    BY DEF Init
  <2>4. X \in Seq(Hits \cup {None}) /\ Y \in Seq(Hits \cup {None}) /\ todo \in Seq(Pairs)
        /\ pushed \in Seq(Pairs)
    BY <1>1 DEF Init
  <2>5. j \in Spies \cup {2} /\ vsize \in Nat
    BY DEF Init, Spies
  <2> QED
    BY <2>1, <2>2, <2>3, <2>4, <2>5 DEF Init, TypeOK
<1>3. OneHolder
  BY <1>1 DEF Init, OneHolder, SpyHolds, MergeHolds, Spies
<1>4. InStep
  <2>1. \A i \in Spies : Given(i) = 0 /\ Taken(i) = <<>> \o <<>>
    BY DEF Init, Given, Taken
  <2>2. <<>> \o <<>> = [k \in 1 .. 0 |-> k]
    BY <1>1
  <2>3. \A i \in Spies : v[i] = e[i] /\ spyPc[i] = "poll"
    BY DEF Init
  <2> SUFFICES ASSUME NEW i \in Spies
               PROVE  /\ Given(i) \in Nat /\ Taken(i) = [k \in 1 .. Given(i) |-> k]
                      /\ v[i] = IF spyPc[i] = "pushE" THEN Append(e[i], reads[i]) ELSE e[i]
    BY DEF InStep
  <2>4. Given(i) \in Nat /\ v[i] = IF spyPc[i] = "pushE" THEN Append(e[i], reads[i]) ELSE e[i]
    BY <2>1, <2>3
  <2>5. Taken(i) = [k \in 1 .. Given(i) |-> k]
    <3>1. Given(i) = 0 /\ Taken(i) = <<>> \o <<>>
      BY <2>1
    <3> QED
      BY ONLY <2>2, <3>1
  <2> QED
    BY <2>4, <2>5
<1>5. HasTodo
  BY DEF Init, HasTodo
<1>6. NotTwice
  <2>1. Len(X) = 0 /\ Len(Y) = 0 /\ mergePc = "sleep" /\ guiPc = "idle"
        /\ \A h \in Hits : h1X[h] = 0 /\ h1Y[h] = 0
    BY DEF Init
  <2>2. \A h \in Hits : Occurs(X, h) = 0 /\ Occurs(Y, h) = 0
    BY <2>1, OccursNat
  <2>3. \A h \in Hits : Pushed(1, h) \in Nat /\ Pushed(2, h) \in Nat
    BY <1>2, PushedNat
  <2> QED
    BY <2>1, <2>2, <2>3 DEF NotTwice, MayFillX, MayFillY
<1> QED
  BY <1>2, <1>3, <1>4, <1>5, <1>6 DEF ThreadsInv

\* The mutexes of the spies, what they protect, and the histograms, in every state.
THEOREM ThreadsInvHolds == Spec => []ThreadsInv
<1>1. ThreadsInv /\ [Next]_vars => ThreadsInv'
  <2> SUFFICES ASSUME ThreadsInv, [Next]_vars PROVE ThreadsInv'
    OBVIOUS
  <2>1. CASE Next
    BY <2>1, TypesStep, OneHolderStep, InStepStep, HasTodoStep, NotTwiceStep DEF ThreadsInv
  <2>2. CASE UNCHANGED vars
    <3>1. TypeOK' /\ HasTodo'
      BY <2>2 DEF vars, spyVars, mergeVars, hists, ThreadsInv, TypeOK, HasTodo
    <3>2. OneHolder' /\ InStep'
      BY <2>2 DEF vars, spyVars, mergeVars, ThreadsInv, OneHolder, SpyHolds, MergeHolds, InStep, Given,
                  Taken
    <3>3. NotTwice'
      BY <2>2 DEF vars, mergeVars, hists, ThreadsInv, NotTwice, MayFillX, MayFillY, Pushed
    <3> QED
      BY <3>1, <3>2, <3>3 DEF ThreadsInv
  <2> QED
    BY <2>1, <2>2
<1> QED
  BY <1>1, ThreadsInvInit, PTL DEF Spec

\* The merge thread gets what the spies appended, once and in order, and the two
\* vectors of a spy keep step: while no one holds its mutex they are equal, and what
\* was inserted before them are the hits read before.
THEOREM HitsAreHandedOver == Spec => []HandedOver
<1>1. ThreadsInv => HandedOver
  <2> SUFFICES ASSUME ThreadsInv, NEW i \in Spies, ~Spymtx[i]
               PROVE  /\ v[i] = e[i]
                      /\ \E n \in {reads[i], reads[i] - 1} : merged[i] \o v[i] = [k \in 1 .. n |-> k]
    BY DEF HandedOver
  <2>1. ~SpyHolds(i) /\ ~MergeHolds(i)
    BY DEF ThreadsInv, OneHolder
  <2>2. v[i] = e[i] /\ Taken(i) = [k \in 1 .. Given(i) |-> k] /\ Taken(i) = merged[i] \o v[i]
    BY <2>1 DEF ThreadsInv, InStep, SpyHolds, MergeHolds, Taken
  <2>3. Given(i) \in {reads[i], reads[i] - 1}
    BY DEF Given
  <2> QED
    BY <2>2, <2>3
<1> QED
  BY <1>1, ThreadsInvHolds, PTL

\* No hit is filled into a histogram more often than it was pushed for it, though
\* the interface reads and clears X and Y without the lock while others are pushed.
THEOREM NothingFilledTwice == Spec => []FilledOnce
<1>1. ThreadsInv => FilledOnce
  <2> SUFFICES ASSUME ThreadsInv, NEW h \in Hits
               PROVE  h1X[h] <= Pushed(1, h) /\ h1Y[h] <= Pushed(2, h)
    BY DEF FilledOnce, Pushed
  <2> QED
    BY CountsOf
<1> QED
  BY <1>1, ThreadsInvHolds, PTL

-----------------------------------------------------------------------------
(* The locks                                                                *)

\* a thread that will unlock mtx
MtxOwed ==
  \/ \E i \in Spies : spyPc[i] \in {"wantSpy", "pushV", "pushE", "nap", "unlock"}
  \/ mergePc \in {"pushX", "pushY"} \/ guiPc \in {"fillX", "fillY", "fillXY"}

\* Whoever locks mtx comes to unlock it, and no thread leaves that stretch without.
LEMMA MtxOwedStep ==
  ASSUME TypeOK, mtx => MtxOwed, Next
  PROVE  mtx' => MtxOwed'
<1> SUFFICES ASSUME mtx' PROVE MtxOwed'
  OBVIOUS
<1> USE DEF spyVars, mergeVars, hists, SpyOther, MergeOther, GuiOther
<1>t. spyPc \in [Spies -> {"poll", "want", "wantSpy", "pushV", "pushE", "nap", "unlock"}]
  BY DEF TypeOK
<1>1. ASSUME NEW i \in Spies, Block(i) \/ GivesUp(i) \/ SpyRuns(i)
      PROVE  MtxOwed'
  <2>1. PICK q \in {"want", "unlock", "wantSpy", "pushV", "pushE", "nap", "poll"} :
          spyPc' = [spyPc EXCEPT ![i] = q] /\ (q = "want" => spyPc[i] = "poll") /\ q # "poll"
    BY <1>1, <1>t DEF Block, GivesUp, SpyRuns, SpyLocks, SpyLocksOwn, PushV, PushE, Nap, SpyUnlocks, SpyAt
  <2>2. CASE q = "want"
    <3>1. mtx /\ UNCHANGED <<mergePc, guiPc>>
      BY <1>1, <1>t, <2>1, <2>2 DEF Block, GivesUp, SpyRuns, SpyLocks, SpyLocksOwn, PushV, PushE, Nap,
         SpyUnlocks, SpyAt
    <3>2. ASSUME NEW k \in Spies,
                 spyPc[k] \in {"wantSpy", "pushV", "pushE", "nap", "unlock"}
          PROVE  spyPc'[k] = spyPc[k]
      BY <1>t, <2>1, <2>2, <3>2
    <3> QED
      BY <3>1, <3>2 DEF MtxOwed
  <2>3. CASE q \in {"unlock", "wantSpy", "pushV", "pushE", "nap"}
    <3>1. spyPc'[i] \in {"wantSpy", "pushV", "pushE", "nap", "unlock"}
      BY <1>t, <2>1, <2>3
    <3> QED
      BY <3>1 DEF MtxOwed
  <2> QED
    BY <2>1, <2>2, <2>3
<1>2. CASE MergeRuns
  <2>1. CASE MergeLocks \/ PushX
    BY <2>1 DEF MergeLocks, PushX, MergeAt, MtxOwed
  <2>2. ~PushY
    BY DEF PushY, MergeReleases
  <2>3. CASE ~MergeLocks /\ ~PushX
    <3>1. mtx /\ UNCHANGED <<spyPc, guiPc>> /\ mergePc \notin {"pushX", "pushY"}
      BY <1>2, <2>2, <2>3 DEF MergeRuns, Wakes, SeesHits, SeesNone, MergeLocksSpy, Insert, Clear, Match,
         NothingNew, MatchDone, MergeAt
    <3> QED
      BY <3>1 DEF MtxOwed
  <2> QED
    BY <2>1, <2>3
<1>3. CASE GuiRuns
  <2>1. UNCHANGED <<spyPc, mergePc>>
    BY <1>3 DEF GuiRuns, Test, GuiLocks, FillX, FillY, FillXY, ClearX, ClearY
  <2>2. CASE GuiLocks("lockX", "fillX") \/ GuiLocks("lockY", "fillY") \/ GuiLocks("lockXY", "fillXY")
    BY <2>2 DEF GuiLocks, GuiAt, MtxOwed
  <2>3. CASE /\ ~GuiLocks("lockX", "fillX") /\ ~GuiLocks("lockY", "fillY")
             /\ ~GuiLocks("lockXY", "fillXY")
    <3>1. mtx /\ guiPc \notin {"fillX", "fillY", "fillXY"}
      BY <1>3, <2>3 DEF GuiRuns, Test, FillX, FillY, FillXY, ClearX, ClearY, GuiAt
    <3> QED
      BY <2>1, <3>1 DEF MtxOwed
  <2> QED
    BY <2>2, <2>3
<1>4. CASE Crash
  BY <1>4 DEF Crash, MtxOwed
<1> QED
  BY <1>1, <1>2, <1>3, <1>4 DEF Next

\* A locked mutex has a thread that will unlock it: mtx although threads unlock it
\* that did not lock it (the end of Spy's loop), Spymtx though Spy and Merge lock it
\* in turns; and a spy that waits for Spymtx with mtx locked waits for a merge thread
\* that waits for none.
THEOREM LocksStayReleased == Spec => []LocksAreReleased
<1>1. Init => (mtx => MtxOwed)
  BY DEF Init
<1>2. ThreadsInv /\ (mtx => MtxOwed) /\ [Next]_vars => (mtx => MtxOwed)'
  <2>1. ThreadsInv => TypeOK
    BY DEF ThreadsInv
  <2>2. UNCHANGED vars => (MtxOwed => MtxOwed') /\ mtx' = mtx
    BY DEF vars, spyVars, mergeVars, MtxOwed
  <2> QED
    BY <2>1, <2>2, MtxOwedStep
<1>3. ThreadsInv /\ (mtx => MtxOwed) => LocksAreReleased
  BY DEF ThreadsInv, OneHolder, SpyHolds, MergeHolds, MtxOwed, LocksAreReleased
<1> QED
  BY <1>1, <1>2, <1>3, ThreadsInvHolds, PTL DEF Spec

=============================================================================
