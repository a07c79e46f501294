----------------------------- MODULE Coincidence -----------------------------
(***************************************************************************)
(* The merge map of SyncCheck (Merge, SyncCheck.cpp): time-stamped hits of  *)
(* three systems are inserted as they arrive, old and used ones are erased, *)
(* and every hit of the master system is compared with the hits around it.  *)
(* Vectors X and Y receive what is found: one element each, 0xFFFF (None)   *)
(* standing for no value.                                                   *)
(*                                                                          *)
(* A hit is its key, (time stamp << 4) + system; keys are unsigned and wrap. *)
(* The clock counts the seconds Merge sleeps between two passes.            *)
(***************************************************************************)
EXTENDS AscendingOrder, SequencesExt

CONSTANTS
  Master,        \* the system given with -M
  Shift,         \* 2^4: a key is time stamp * Shift + system
  Window,        \* 100000: the distance of keys that counts as coincident
  MapTime,       \* MAPTIME: seconds a hit stays
  MaxStamp,      \* bound: time stamps 0 .. MaxStamp
  MaxHits,       \* bound: hits that arrive
  MaxPasses      \* bound: passes of the loop

Systems == 0 .. 2

ASSUME CoincidenceAssumption ==
  /\ Master \in Systems /\ Shift \in Nat /\ Shift > 2
  /\ Window \in Nat \ {0} /\ MapTime \in Nat /\ MaxStamp \in Nat
  /\ MaxHits \in Nat /\ MaxPasses \in Nat

NoMaster1 == (Master + 1) % 3
NoMaster2 == (Master + 2) % 3

Key(ts, id) == ts * Shift + id
SystemOf(k) == k % Shift
Keys == {Key(ts, id) : ts \in 0 .. MaxStamp, id \in Systems}
KeyMod == 2 * (Window + Key(MaxStamp, 2) + 1)      \* 2^64
None == -1                                         \* 0xFFFF
End  == KeyMod                                     \* MergeMap.end()

VARIABLES
  MergeMap,     \* key -> what is known of the hit
  pc,           \* the stage of the pass
  itx,          \* the iterator of the loop under way, a key or End
  out,          \* X and Y of this pass: records of the master and the two elements
  now,          \* seconds
  arrived,      \* history: number of hits that arrived
  before,       \* history: the map as the matching loop found it
  due           \* history: when each hit arrived that was not used since

vars == <<MergeMap, pc, itx, out, now, arrived, before, due>>

Stored == DOMAIN MergeMap

\* an element of X and one of Y, with the master hit they were compared with
Outputs == [master : Keys, x : Keys \cup {None}, y : Keys \cup {None}]

TypeOK ==
  /\ Stored \subseteq Keys
  /\ MergeMap \in [Stored -> [PCtime : 0 .. MaxPasses, Mark : {0, 1, 2}, singly : Nat]]
  /\ pc \in {"collect", "erase", "match", "crashed", "wild"}
  /\ itx \in Keys \cup {End}
  /\ out \in Seq(Outputs)
  /\ now \in 0 .. MaxPasses /\ arrived \in 0 .. MaxHits
  /\ DOMAIN before \subseteq Keys /\ DOMAIN due \subseteq Keys

Init ==
  /\ MergeMap = [k \in {} |-> 0] /\ pc = "collect" /\ itx = End /\ out = <<>>
  /\ now = 0 /\ arrived = 0 /\ before = MergeMap /\ due = MergeMap

\* begin() of a set of keys, and the successor of k in it
First(S) == IF S = {} THEN End ELSE CHOOSE k \in S : \A l \in S : k <= l
Succ(S, k) == First({l \in S : l > k})

-----------------------------------------------------------------------------
(* Collecting                                                               *)

\* What the spy threads handed over is inserted; insert() keeps the hit that
\* is there when the key is known.
Insert(hits) ==
  LET new == hits \ Stored
  IN  /\ MergeMap' = [k \in Stored \cup new |->
           IF k \in new THEN [PCtime |-> now, Mark |-> 0, singly |-> 0] ELSE MergeMap[k]]
      /\ due' = [k \in new \cup DOMAIN due |-> IF k \in new THEN now ELSE due[k]]

Arrive ==
  /\ pc = "collect" /\ now < MaxPasses
  /\ \E n \in 1 .. MaxHits - arrived : \E hits \in kSubset(n, Keys) :
       arrived' = arrived + n /\ Insert(hits)
  /\ now' = now + 1 /\ pc' = "erase" /\ out' = <<>>
  /\ UNCHANGED before

Collect == Arrive /\ itx' = First(Stored')

\* Nothing new (vsize 0): the pass ends.
Idle ==
  /\ pc = "collect" /\ now < MaxPasses
  /\ now' = now + 1 /\ out' = <<>>
  /\ UNCHANGED <<MergeMap, pc, itx, arrived, before, due>>

-----------------------------------------------------------------------------
(* Erasing                                                                  *)

\* mutant of the next definition: erased a second early
TooOldEarly(k) == MergeMap[k].PCtime <= now - MapTime

TooOld(k) == MergeMap[k].PCtime < now - MapTime
Used(k)   == MergeMap[k].Mark = 2

\* the map without the hit k
Without(k) == [l \in Stored \ {k} |-> MergeMap[l]]

\* An element is erased through its key and the iterator, which pointed at it,
\* is incremented in freed memory: the loop goes on anywhere, ends or crashes.
Erase ==
  /\ pc = "erase" /\ itx # End /\ (TooOld(itx) \/ Used(itx))
  /\ MergeMap' = Without(itx)
  /\ \/ itx' \in (Stored \ {itx}) \cup {End} /\ UNCHANGED pc
     \/ pc' = "crashed" /\ UNCHANGED itx
  /\ UNCHANGED <<out, now, arrived, before, due>>

Keep ==
  /\ pc = "erase" /\ itx # End /\ ~TooOld(itx) /\ ~Used(itx)
  /\ itx' = Succ(Stored, itx)
  /\ UNCHANGED <<MergeMap, pc, out, now, arrived, before, due>>

EraseDone ==
  /\ pc = "erase" /\ itx = End
  /\ pc' = "match" /\ itx' = First(Stored) /\ before' = MergeMap
  /\ UNCHANGED <<MergeMap, out, now, arrived, due>>

-----------------------------------------------------------------------------
(* Matching                                                                 *)

\* mutant of itup: lower_bound in its place
itupLower(k) == First({l \in Stored : l >= k + Window})

itlow(k) == First({l \in Stored : l >= (k - Window) % KeyMod})   \* lower_bound
itup(k)  == First({l \in Stored : l > k + Window})               \* upper_bound

\* the hits from itlow to itup
Around(k) == {l \in Stored : itlow(k) <= l /\ l < itup(k)}

Ncoinc(k) == Cardinality(Around(k))
Others(k) == {l \in Around(k) : SystemOf(l) # Master}

\* mutant of Fresh: the mark is not looked at
FreshAny(k) == {l \in Others(k) : Ncoinc(k) <= 3}

\* The hits that master hit k sends alone: with at most two partners in sight,
\* those not sent before, each on the axis of its system.
Fresh(k) == {l \in Others(k) : Ncoinc(k) <= 3 /\ MergeMap[l].Mark = 0}

Single(k, l) == IF SystemOf(l) = NoMaster1 THEN [master |-> k, x |-> l, y |-> None]
                                           ELSE [master |-> k, x |-> None, y |-> l]

Singles(k) == LET s == Ascending(Fresh(k)) IN [i \in 1 .. Len(s) |-> Single(k, s[i])]

\* ToDoubleSend: both branches put the earlier hit on X and the later one on Y.
Double(k) ==
  LET two == Ascending(Others(k))
  IN  IF Ncoinc(k) = 3 /\ Len(two) = 2
      THEN <<[master |-> k, x |-> two[1], y |-> two[2]]>> ELSE <<>>

\* the mark of hit l, one of those around master hit k, afterwards
MarkAfter(k, l) ==
  IF Ncoinc(k) = 3 THEN 2
  ELSE IF l \in Fresh(k) THEN 1 ELSE MergeMap[l].Mark

\* One round of the loop: a master hit whose neighbourhood is a range.
Compare ==
  /\ pc = "match" /\ itx # End
  /\ SystemOf(itx) = Master /\ itlow(itx) <= itup(itx)
  /\ out' = out \o Singles(itx) \o Double(itx)
  /\ MergeMap' = [l \in Stored |->
       IF l \notin Around(itx) THEN MergeMap[l]
       ELSE [MergeMap[l] EXCEPT !.Mark = MarkAfter(itx, l),
                                !.singly = @ + (IF l \in Fresh(itx) THEN 1 ELSE 0)]]
  /\ itx' = Succ(Stored, itx)
  /\ UNCHANGED <<pc, now, arrived, before, due>>

\* A time stamp below the window: itx->first - 100000 wraps, itlow is behind
\* itup, and the loop runs past the end of the map.
RunsWild ==
  /\ pc = "match" /\ itx # End
  /\ SystemOf(itx) = Master /\ itlow(itx) > itup(itx)
  /\ pc' = "wild"
  /\ UNCHANGED <<MergeMap, itx, out, now, arrived, before, due>>

NotMaster ==
  /\ pc = "match" /\ itx # End /\ SystemOf(itx) # Master
  /\ itx' = Succ(Stored, itx)
  /\ UNCHANGED <<MergeMap, pc, out, now, arrived, before, due>>

PassDone ==
  /\ pc = "match" /\ itx = End
  /\ pc' = "collect"
  /\ due' = [k \in {l \in DOMAIN due : l \in Stored => MergeMap[l].Mark # 2} |-> due[k]]
  /\ UNCHANGED <<MergeMap, itx, out, now, arrived, before>>

Next == Collect \/ Idle \/ Erase \/ Keep \/ EraseDone \/ Compare \/ RunsWild \/ NotMaster \/ PassDone

Spec == Init /\ [][Next]_vars

-----------------------------------------------------------------------------
(* Properties                                                               *)

\* What a pass should find in the map it starts from, by distance alone and
\* without iterators, marks set on the way or an order of the masters.
Near(m)   == {l \in DOMAIN before : l - m <= Window /\ m - l <= Window}
Partner(m) == {l \in Near(m) : SystemOf(l) # Master}
Masters   == {m \in DOMAIN before : SystemOf(m) = Master /\ m >= Window}

ExpectedSingles ==
  {l \in UNION {Partner(m) : m \in {n \in Masters : Cardinality(Near(n)) <= 3}} : before[l].Mark = 0}

ExpectedDoubles ==
  {<<m, Partner(m)>> : m \in {n \in Masters : Cardinality(Near(n)) = 3 /\ Cardinality(Partner(n)) = 2}}

Partners(r) == {r.x, r.y} \ {None}
IsDouble(r) == r.x # None /\ r.y # None
Outcomes(double) == {out[i] : i \in {j \in 1 .. Len(out) : IsDouble(out[j]) = double}}

\* The loop with its iterators, marks and counters finds exactly the expected
\* coincidences, each once, and never sends a hit to a master out of reach.
FindsWhatIsThere ==
  pc = "match" /\ itx = End =>
    /\ Len(out) = Cardinality(ExpectedSingles) + Cardinality(ExpectedDoubles)
    /\ {Partners(r) : r \in Outcomes(FALSE)} = {{l} : l \in ExpectedSingles}
    /\ \A r \in Outcomes(FALSE) : Partners(r) \subseteq Partner(r.master)
    /\ {<<r.master, Partners(r)>> : r \in Outcomes(TRUE)} = ExpectedDoubles

\* A hit is sent alone at most once while it is in the map, however many passes and
\* masters see it (erased and then read again by a spy, it is a new hit).
SentAloneOnce == \A k \in Stored : MergeMap[k].singly <= 1

\* A hit that no double used stays for MapTime seconds, so a partner that
\* arrives late still finds it, whatever the erasing loop runs into.
HitsStay ==
  \A k \in DOMAIN due : due[k] >= now - MapTime => k \in Stored

\* SyncCheck.cpp:245: the elements already used are gone before matching.
UsedAreErased == pc = "match" => \A k \in DOMAIN before : before[k].Mark # 2

\* SyncCheck.cpp:651: X of the two-dimensional histogram is the first other
\* system, Y the second.
DoubleOnAxes ==
  \A r \in Outcomes(TRUE) : SystemOf(r.x) = NoMaster1 /\ SystemOf(r.y) = NoMaster2

=============================================================================
