----------------------------- MODULE SyncThreads -----------------------------
(***************************************************************************)
(* The threads of SyncCheck (SyncCheck.cpp): a spy per system reads blocks  *)
(* and appends their hits to its vectors (Spy), the merge thread takes them *)
(* and appends coincidences to X and Y (Merge), and the timer of the user   *)
(* interface fills the histograms from X and Y and clears them (TimerDone). *)
(*                                                                          *)
(* Spymtx[i] protects the vectors of spy i, mtx the vectors X and Y.  A     *)
(* mutex knows no owner, and unlock() releases it whoever locked it: that   *)
(* is what the mutex of the C library does, though the language leaves it   *)
(* undefined.  Spy 0 is the first other system, spy 1 the second; the       *)
(* master's spy runs the same code and its hits push nothing alone.         *)
(***************************************************************************)
EXTENDS Integers, SequencesExt

CONSTANTS
  MaxReads,     \* bound: blocks the spies read, with one hit each
  MaxWaits      \* bound: times a spy gives up waiting

ASSUME ThreadsAssumption == MaxReads \in Nat /\ MaxWaits \in Nat

Spies == {0, 1}
Hits  == Spies \X (1 .. MaxReads)
None  == <<>>                    \* 0xFFFF
Wild  == <<"beyond the end">>    \* what Y[i] reads behind the last element

VARIABLES
  mtx, Spymtx,        \* TRUE when locked
  spyPc, v, e,        \* the spies: vectors of time stamps and of hit data
  reads, waits,       \* blocks read, waits given up
  mergePc, j, vsize,  \* the merge thread: its stage, spy and count of hits taken
  todo,               \* the coincidences it has yet to push
  X, Y,
  guiPc,
  crashed,            \* a data race or a wild access ended the program
  merged,             \* history: the hits of each spy that reached the merge map
  pushed,             \* history: coincidences pushed
  h1X, h1Y, h2        \* the histograms: how often each hit, or pair, was filled

spyVars   == <<spyPc, v, e, reads, waits>>
mergeVars == <<mergePc, j, vsize, todo>>
hists     == <<h1X, h1Y, h2>>
vars == <<mtx, Spymtx, spyVars, mergeVars, X, Y, guiPc, crashed, merged, pushed, hists>>

Pairs == (Hits \cup {None}) \X (Hits \cup {None})
Cells == Hits \X (Hits \cup {Wild})

TypeOK ==
  /\ mtx \in BOOLEAN
  /\ Spymtx \in [Spies -> BOOLEAN]
  /\ spyPc \in [Spies -> {"poll", "want", "wantSpy", "pushV", "pushE", "nap", "unlock"}]
  /\ v \in [Spies -> Seq(1 .. MaxReads)] /\ e \in [Spies -> Seq(1 .. MaxReads)]
  /\ reads \in [Spies -> 0 .. MaxReads] /\ waits \in 0 .. MaxWaits
  /\ mergePc \in {"sleep", "scan", "lockSpy", "insert", "clear", "match", "pushX", "pushY"}
  /\ j \in Spies \cup {2} /\ vsize \in Nat /\ todo \in Seq(Pairs)
  /\ X \in Seq(Hits \cup {None}) /\ Y \in Seq(Hits \cup {None})
  /\ guiPc \in {"idle", "lockX", "fillX", "testY", "lockY", "fillY", "testXY", "lockXY",
                "fillXY", "clearX", "clearY"}
  /\ crashed \in BOOLEAN
  /\ merged \in [Spies -> Seq(1 .. MaxReads)] /\ pushed \in Seq(Pairs)
  /\ h1X \in [Hits -> Nat] /\ h1Y \in [Hits -> Nat] /\ h2 \in [Cells -> Nat]

Init ==
  /\ mtx = FALSE /\ Spymtx = [i \in Spies |-> FALSE]
  /\ spyPc = [i \in Spies |-> "poll"] /\ reads = [i \in Spies |-> 0] /\ waits = 0
  /\ v = [i \in Spies |-> <<>>] /\ e = [i \in Spies |-> <<>>]
  /\ mergePc = "sleep" /\ j = 0 /\ vsize = 0 /\ todo = <<>>
  /\ X = <<>> /\ Y = <<>> /\ guiPc = "idle" /\ crashed = FALSE
  /\ merged = [i \in Spies |-> <<>>] /\ pushed = <<>>
  /\ h1X = [h \in Hits |-> 0] /\ h1Y = [h \in Hits |-> 0] /\ h2 = [c \in Cells |-> 0]

-----------------------------------------------------------------------------
(* Spy                                                                      *)

SpyAt(i, from, to) == ~crashed /\ spyPc[i] = from /\ spyPc' = [spyPc EXCEPT ![i] = to]

SpyOther == <<waits, mergeVars, X, Y, guiPc, crashed, merged, pushed, hists>>

\* MyDataSink.Spy returned a block.
Block(i) ==
  /\ SpyAt(i, "poll", "want") /\ reads[0] + reads[1] < MaxReads
  /\ reads' = [reads EXCEPT ![i] = @ + 1]
  /\ UNCHANGED <<mtx, Spymtx, v, e, SpyOther>>

\* Nothing for 50000 polls: x becomes 1 and the inner loop ends, without a lock.
GivesUp(i) ==
  /\ SpyAt(i, "poll", "unlock") /\ waits < MaxWaits /\ waits' = waits + 1
  /\ UNCHANGED <<mtx, Spymtx, v, e, reads, mergeVars, X, Y, guiPc, crashed, merged, pushed, hists>>

SpyLocks(i) ==
  /\ SpyAt(i, "want", "wantSpy") /\ ~mtx /\ mtx' = TRUE
  /\ UNCHANGED <<Spymtx, v, e, reads, SpyOther>>

SpyLocksOwn(i) ==
  /\ SpyAt(i, "wantSpy", "pushV") /\ ~Spymtx[i]
  /\ Spymtx' = [Spymtx EXCEPT ![i] = TRUE]
  /\ UNCHANGED <<mtx, v, e, reads, SpyOther>>

PushV(i) ==
  /\ SpyAt(i, "pushV", "pushE") /\ v' = [v EXCEPT ![i] = Append(@, reads[i])]
  /\ UNCHANGED <<mtx, Spymtx, e, reads, SpyOther>>

\* mutant of PushE: Spymtx stays locked
PushEKeeps(i) ==
  /\ SpyAt(i, "pushE", "nap") /\ e' = [e EXCEPT ![i] = Append(@, reads[i])]
  /\ UNCHANGED <<mtx, Spymtx, v, reads, SpyOther>>

PushE(i) ==
  /\ SpyAt(i, "pushE", "nap") /\ e' = [e EXCEPT ![i] = Append(@, reads[i])]
  /\ Spymtx' = [Spymtx EXCEPT ![i] = FALSE]
  /\ UNCHANGED <<mtx, v, reads, SpyOther>>

\* sleep(1), with mtx locked
Nap(i) ==
  /\ SpyAt(i, "nap", "unlock")
  /\ UNCHANGED <<mtx, Spymtx, v, e, reads, SpyOther>>

\* mtx.unlock() at the end of the outer loop, locked by this thread or not
SpyUnlocks(i) ==
  /\ SpyAt(i, "unlock", "poll") /\ mtx' = FALSE
  /\ UNCHANGED <<Spymtx, v, e, reads, SpyOther>>

SpyRuns(i) == \/ SpyLocks(i) \/ SpyLocksOwn(i) \/ PushV(i) \/ PushE(i) \/ Nap(i) \/ SpyUnlocks(i)

-----------------------------------------------------------------------------
(* Merge                                                                    *)

MergeAt(from, to) == ~crashed /\ mergePc = from /\ mergePc' = to

MergeOther == <<spyPc, reads, waits, guiPc, crashed, hists>>

Wakes ==
  /\ MergeAt("sleep", "scan") /\ j' = 0 /\ vsize' = 0
  /\ UNCHANGED <<mtx, Spymtx, v, e, todo, X, Y, merged, pushed, MergeOther>>

\* TSvect[j2].size() is read without the lock: while the spy appends, it may
\* be either.
SeesHits ==
  /\ MergeAt("scan", "lockSpy") /\ j < 2
  /\ v[j] # <<>> \/ spyPc[j] = "pushV"
  /\ UNCHANGED <<mtx, Spymtx, v, e, j, vsize, todo, X, Y, merged, pushed, MergeOther>>

SeesNone ==
  /\ MergeAt("scan", "scan") /\ j < 2
  /\ v[j] = <<>> \/ spyPc[j] = "pushV"
  /\ j' = j + 1
  /\ UNCHANGED <<mtx, Spymtx, v, e, vsize, todo, X, Y, merged, pushed, MergeOther>>

\* mutant of MergeLocksSpy: the vectors are taken without the lock
MergeLocksNot ==
  /\ MergeAt("lockSpy", "insert")
  /\ UNCHANGED <<mtx, Spymtx, v, e, j, vsize, todo, X, Y, merged, pushed, MergeOther>>

MergeLocksSpy ==
  /\ MergeAt("lockSpy", "insert") /\ ~Spymtx[j]
  /\ Spymtx' = [Spymtx EXCEPT ![j] = TRUE]
  /\ UNCHANGED <<mtx, v, e, j, vsize, todo, X, Y, merged, pushed, MergeOther>>

Insert ==
  /\ MergeAt("insert", "clear")
  /\ merged' = [merged EXCEPT ![j] = @ \o v[j]] /\ vsize' = vsize + Len(v[j])
  /\ UNCHANGED <<mtx, Spymtx, v, e, j, todo, X, Y, pushed, MergeOther>>

Clear ==
  /\ MergeAt("clear", "scan")
  /\ v' = [v EXCEPT ![j] = <<>>] /\ e' = [e EXCEPT ![j] = <<>>]
  /\ Spymtx' = [Spymtx EXCEPT ![j] = FALSE] /\ j' = j + 1
  /\ UNCHANGED <<mtx, vsize, todo, X, Y, merged, pushed, MergeOther>>

\* What a pass may find among hits not pushed before (Coincidence says what it
\* does find): nothing, one partner of a master hit, or both.
Unpushed(i) ==
  {<<i, n>> : n \in {merged[i][k] : k \in 1 .. Len(merged[i])}}
    \ {pushed[k][i + 1] : k \in 1 .. Len(pushed)}

Findings ==
  {<<>>} \cup {<< <<a, None>> >> : a \in Unpushed(0)} \cup {<< <<None, b>> >> : b \in Unpushed(1)}
         \cup {<< <<a, None>>, <<None, b>>, <<a, b>> >> : a \in Unpushed(0), b \in Unpushed(1)}

Match ==
  /\ MergeAt("scan", "match") /\ j = 2 /\ vsize > 0 /\ todo' \in Findings
  /\ UNCHANGED <<mtx, Spymtx, v, e, j, vsize, X, Y, merged, pushed, MergeOther>>

NothingNew ==
  /\ MergeAt("scan", "sleep") /\ j = 2 /\ vsize = 0
  /\ UNCHANGED <<mtx, Spymtx, v, e, j, vsize, todo, X, Y, merged, pushed, MergeOther>>

MatchDone ==
  /\ MergeAt("match", "sleep") /\ todo = <<>>
  /\ UNCHANGED <<mtx, Spymtx, v, e, j, vsize, todo, X, Y, merged, pushed, MergeOther>>

MergeLocks ==
  /\ MergeAt("match", "pushX") /\ todo # <<>> /\ ~mtx /\ mtx' = TRUE
  /\ UNCHANGED <<Spymtx, v, e, j, vsize, todo, X, Y, merged, pushed, MergeOther>>

PushX ==
  /\ MergeAt("pushX", "pushY") /\ X' = Append(X, Head(todo)[1])
  /\ pushed' = Append(pushed, Head(todo))
  /\ UNCHANGED <<mtx, Spymtx, v, e, j, vsize, todo, Y, merged, MergeOther>>

\* mutant of the next definition: mtx stays locked
MergeReleasesNot == UNCHANGED mtx

MergeReleases == mtx' = FALSE

PushY ==
  /\ MergeAt("pushY", "match") /\ Y' = Append(Y, Head(todo)[2])
  /\ todo' = Tail(todo) /\ MergeReleases
  /\ UNCHANGED <<Spymtx, v, e, j, vsize, X, merged, pushed, MergeOther>>

MergeRuns ==
  \/ Wakes \/ SeesHits \/ SeesNone \/ MergeLocksSpy \/ Insert \/ Clear
  \/ Match \/ NothingNew \/ MatchDone \/ MergeLocks \/ PushX \/ PushY

-----------------------------------------------------------------------------
(* TimerDone                                                                *)

GuiAt(from, to) == ~crashed /\ guiPc = from /\ guiPc' = to

GuiOther == <<Spymtx, spyVars, mergeVars, crashed, merged, pushed>>

\* Step to one of two stages by a test of the sizes, without the lock.
Test(from, cond, yes, no) ==
  /\ GuiAt(from, IF cond THEN yes ELSE no)
  /\ UNCHANGED <<mtx, X, Y, hists, GuiOther>>

GuiLocks(from, to) ==
  /\ GuiAt(from, to) /\ ~mtx /\ mtx' = TRUE
  /\ UNCHANGED <<X, Y, hists, GuiOther>>

Occurs(s, a) == Cardinality({k \in 1 .. Len(s) : s[k] = a})

\* The entries of a vector are filled, all but None.
Fill(h1, s) == [h \in Hits |-> h1[h] + Occurs(s, h)]

FillX ==
  /\ GuiAt("fillX", "testY") /\ mtx' = FALSE /\ h1X' = Fill(h1X, X)
  /\ UNCHANGED <<X, Y, h1Y, h2, GuiOther>>

FillY ==
  /\ GuiAt("fillY", "testXY") /\ mtx' = FALSE /\ h1Y' = Fill(h1Y, Y)
  /\ UNCHANGED <<X, Y, h1X, h2, GuiOther>>

\* The loop runs over the length of X; an element of Y that is not there may
\* read as anything, None included.
Rows == {[i \in 1 .. Len(X) |-> <<X[i], IF i <= Len(Y) THEN Y[i] ELSE w>>] : w \in {None, Wild}}

FillXY ==
  /\ GuiAt("fillXY", "clearX") /\ mtx' = FALSE
  /\ \E rows \in Rows : h2' = [c \in Cells |-> h2[c] + Occurs(rows, c)]
  /\ UNCHANGED <<X, Y, h1X, h1Y, GuiOther>>

\* mutant of ClearX: X is cleared with Y only
ClearXWithY ==
  /\ GuiAt("clearX", "clearY") /\ X' = IF Y # <<>> THEN <<>> ELSE X
  /\ UNCHANGED <<mtx, Y, hists, GuiOther>>

\* The vectors are cleared without the lock.
ClearX ==
  /\ GuiAt("clearX", "clearY") /\ X' = <<>>
  /\ UNCHANGED <<mtx, Y, hists, GuiOther>>

ClearY ==
  /\ GuiAt("clearY", "idle") /\ Y' = <<>>
  /\ UNCHANGED <<mtx, X, hists, GuiOther>>

GuiRuns ==
  \/ Test("idle", X # <<>>, "lockX", "testY") \/ GuiLocks("lockX", "fillX") \/ FillX
  \/ Test("testY", Y # <<>>, "lockY", "testXY") \/ GuiLocks("lockY", "fillY") \/ FillY
  \/ Test("testXY", X # <<>> /\ Y # <<>>, "lockXY", "clearX") \/ GuiLocks("lockXY", "fillXY")
  \/ FillXY \/ ClearX \/ ClearY

-----------------------------------------------------------------------------

\* Merge appends to X or Y while the interface reads or clears them.
Racing == mergePc \in {"pushX", "pushY"} /\ guiPc \in {"fillX", "fillY", "fillXY", "clearX", "clearY"}

Crash == ~crashed /\ Racing /\ crashed' = TRUE /\ UNCHANGED <<mtx, Spymtx, spyVars, mergeVars, X, Y, guiPc,
                                                 merged, pushed, hists>>

Next ==
  \/ \E i \in Spies : Block(i) \/ GivesUp(i) \/ SpyRuns(i)
  \/ MergeRuns \/ GuiRuns \/ Crash

Spec == Init /\ [][Next]_vars

\* Threads run; a thread that could lock a mutex again and again gets it.  That
\* blocks arrive, or a spy gives up, is not assumed.
FairSpec ==
  /\ Spec
  /\ \A i \in Spies : SF_vars(SpyRuns(i))
  /\ SF_vars(MergeRuns)
  /\ SF_vars(GuiRuns)

-----------------------------------------------------------------------------
(* Properties                                                               *)

\* What a spy appended reaches the map once and in order, whatever the merge
\* thread saw of the size outside the lock; time stamps and hit data, in two
\* vectors, keep step.
HandedOver ==
  \A i \in Spies : ~Spymtx[i] =>
    /\ v[i] = e[i]
    /\ \E n \in {reads[i], reads[i] - 1} : merged[i] \o v[i] = [k \in 1 .. n |-> k]

\* What is pushed once is filled at most once, although X and Y are read, and
\* cleared, outside the lock (a double is pushed with its values a second time).
FilledOnce ==
  \A h \in Hits :
    /\ h1X[h] <= Cardinality({k \in 1 .. Len(pushed) : pushed[k][1] = h})
    /\ h1Y[h] <= Cardinality({k \in 1 .. Len(pushed) : pushed[k][2] = h})

\* No mutex stays locked without a thread that will unlock it, although mtx is
\* unlocked by threads that have not locked it; and the one thread that locks a
\* second mutex finds that one free or held by a thread that waits for none.
LocksAreReleased ==
  /\ mtx => \/ \E i \in Spies : spyPc[i] \in {"wantSpy", "pushV", "pushE", "nap", "unlock"}
            \/ mergePc \in {"pushX", "pushY"} \/ guiPc \in {"fillX", "fillY", "fillXY"}
  /\ \A i \in Spies : Spymtx[i] =>
       spyPc[i] \in {"pushV", "pushE"} \/ (mergePc \in {"insert", "clear"} /\ j = i)

\* Every hit read reaches the map: the merge thread catches up with each spy
\* whenever that spy pauses, unless the program crashes.
HitsAreMerged ==
  \A i \in Spies : Len(merged[i]) < reads[i] ~> (Len(merged[i]) = reads[i] \/ crashed)

\* The interface never hangs in TimerDone, though mtx is locked by spies that
\* sleep.
TimerReturns == guiPc # "idle" ~> (guiPc = "idle" \/ crashed)

\* SyncCheck.cpp:45: mtx makes its sections critical sections.
CriticalSection ==
  Cardinality({t \in Spies : spyPc[t] \in {"wantSpy", "pushV", "pushE", "nap"}})
    + (IF mergePc \in {"pushX", "pushY"} THEN 1 ELSE 0)
    + (IF guiPc \in {"fillX", "fillY", "fillXY"} THEN 1 ELSE 0) <= 1

\* SyncCheck.cpp:6: a single coincidence fills a histogram: what was pushed is
\* still in the vector or was filled.
SinglesAreFilled ==
  \A k \in 1 .. Len(pushed) :
    pushed[k][1] # None /\ pushed[k][2] = None =>
      Contains(X, pushed[k][1]) \/ h1X[pushed[k][1]] > 0

\* SyncCheck.cpp:7: a double coincidence fills the 2D histogram: its entries are
\* pairs that were found together.
PairsFromOneCoincidence ==
  \A c \in Cells : h2[c] > 0 => Contains(pushed, c)

-----------------------------------------------------------------------------
(* The inductive invariant behind HandedOver and FilledOnce                 *)

SpyHolds(i)   == spyPc[i] \in {"pushV", "pushE"}
MergeHolds(i) == mergePc \in {"insert", "clear"} /\ j = i

\* The mutex of a spy's vectors is locked by the spy or by the merge thread.
OneHolder ==
  /\ \A i \in Spies : (Spymtx[i] <=> SpyHolds(i) \/ MergeHolds(i)) /\ ~(SpyHolds(i) /\ MergeHolds(i))
  /\ mergePc \in {"lockSpy", "insert", "clear"} => j \in Spies
  /\ reads[0] + reads[1] <= MaxReads

\* The hits of spy i that are in its vector of time stamps, or were
Given(i) == IF spyPc[i] \in {"want", "wantSpy", "pushV"} THEN reads[i] - 1 ELSE reads[i]

\* Between inserting the hits of a vector and clearing it they are in both.
Taken(i) == IF mergePc = "clear" /\ j = i THEN merged[i] ELSE merged[i] \o v[i]

\* The hits of a spy, in the map and in its vector
InStep ==
  \A i \in Spies :
    /\ Given(i) \in Nat /\ Taken(i) = [k \in 1 .. Given(i) |-> k]
    /\ v[i] = IF spyPc[i] = "pushE" THEN Append(e[i], reads[i]) ELSE e[i]

\* What is in X may still be filled before X is cleared, or was filled already.
MayFillX == guiPc \in {"idle", "lockX", "fillX", "clearY"}
MayFillY == guiPc \in {"idle", "lockX", "fillX", "testY", "lockY", "fillY"}

\* the number of coincidences pushed with hit h on axis x
Pushed(x, h) == Cardinality({k \in 1 .. Len(pushed) : pushed[k][x] = h})

\* What is filled, may be filled, or is on its way to Y was pushed.
NotTwice ==
  \A h \in Hits :
    /\ h1X[h] + (IF MayFillX THEN Occurs(X, h) ELSE 0) <= Pushed(1, h)
    /\ h1Y[h] + (IF MayFillY THEN Occurs(Y, h) ELSE 0)
         + (IF mergePc = "pushY" /\ Head(todo)[2] = h THEN 1 ELSE 0) <= Pushed(2, h)

\* There is something to push while the merge thread pushes.
HasTodo == mergePc \in {"pushX", "pushY"} => todo # <<>>

ThreadsInv == TypeOK /\ OneHolder /\ InStep /\ HasTodo /\ NotTwice

=============================================================================
