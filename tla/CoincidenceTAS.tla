---------------------------- MODULE CoincidenceTAS ----------------------------
(***************************************************************************)
(* The merge maps of SyncCheckTAS (Merge, SyncCheckTAS.cpp) beside the one  *)
(* of SyncCheck.  There is a map for each system, keyed by time stamps; the *)
(* three are one set here, a hit being the key of Coincidence for its time  *)
(* stamp and system.  A master hit is compared with the hits of the two     *)
(* other systems one after the other; it is never marked, so it stays for   *)
(* partners that come late, and a partner is marked and sent once.          *)
(*                                                                          *)
(* The program is chosen at the start; the state, its bounds and the way    *)
(* hits arrive are those of Coincidence.                                    *)
(***************************************************************************)
EXTENDS Coincidence

VARIABLE program      \* "SyncCheck" or "SyncCheckTAS"

bothVars == <<vars, program>>

BothTypeOK == TypeOK /\ program \in {"SyncCheck", "SyncCheckTAS"}

BothInit == Init /\ program \in {"SyncCheck", "SyncCheckTAS"}

compare1 == IF Master = 0 THEN 1 ELSE 0
compare2 == IF Master = 2 THEN 1 ELSE 2

\* MergeMap[s], and the time stamp of a hit
OfSystem(s) == {k \in Stored : SystemOf(k) = s}
StampOf(k)  == k \div Shift
Reach       == Window \div Shift     \* UL1D, and -LL1D

\* begin() of the first of the maps s, s + 1, .. that is not empty
FirstFrom(s) ==
  LET filled == {j \in s .. 2 : OfSystem(j) # {}}
  IN IF filled = {} THEN End ELSE First(OfSystem(First(filled)))

\* where the erasing loops go from hit k
Behind(k) ==
  LET after == Succ(OfSystem(SystemOf(k)), k)
  IN IF after = End THEN FirstFrom(SystemOf(k) + 1) ELSE after

-----------------------------------------------------------------------------
(* Collecting and erasing                                                   *)

\* emplace keeps the hit that is there; the erasing loops begin with system 0
TasCollect == Arrive /\ itx' = FirstFrom(0)'

TasUsed(k) == MergeMap[k].Mark = 1

\* Elements are erased through their keys from inside the loop that stands on
\* them: it goes on anywhere in its map, ends or crashes.
TasErase ==
  /\ pc = "erase" /\ itx # End /\ (TooOld(itx) \/ TasUsed(itx))
  /\ MergeMap' = Without(itx)
  /\ \/ /\ itx' \in (OfSystem(SystemOf(itx)) \ {itx}) \cup {FirstFrom(SystemOf(itx) + 1)}
        /\ UNCHANGED pc
     \/ pc' = "crashed" /\ UNCHANGED itx
  /\ UNCHANGED <<out, now, arrived, before, due>>

TasKeep ==
  /\ pc = "erase" /\ itx # End /\ ~TooOld(itx) /\ ~TasUsed(itx)
  /\ itx' = Behind(itx)
  /\ UNCHANGED <<MergeMap, pc, out, now, arrived, before, due>>

TasEraseDone ==
  /\ pc = "erase" /\ itx = End
  /\ pc' = "match" /\ itx' = First(OfSystem(Master)) /\ before' = MergeMap
  /\ UNCHANGED <<MergeMap, out, now, arrived, due>>

-----------------------------------------------------------------------------
(* Matching                                                                 *)

\* itx.first - 600 wraps: the lower bound is the end of the map.
Wraps(m) == StampOf(m) < Reach

\* the hits of system c from lower_bound to upper_bound around master hit m
Beside(m, c) ==
  IF Wraps(m) THEN {}
  ELSE {l \in OfSystem(c) : StampOf(l) \in StampOf(m) - Reach .. StampOf(m) + Reach}

\* Mutant: the mark is not looked at.
UnsentAny(m, c) == Beside(m, c)

\* those not sent before
Unsent(m, c) == {l \in Beside(m, c) : MergeMap[l].Mark = 0}

\* X and Y get an element each, one of them None.
TasSingle(m, l) == IF SystemOf(l) = compare1 THEN [master |-> m, x |-> l, y |-> None]
                                             ELSE [master |-> m, x |-> None, y |-> l]

TasSingles(m) ==
  LET s == Ascending(Unsent(m, compare1)) \o Ascending(Unsent(m, compare2))
  IN [i \in DOMAIN s |-> TasSingle(m, s[i])]

\* Behind the end of a map the loop does not meet an upper bound that is not the end.
Escapes(m) ==
  Wraps(m) /\ \E c \in {compare1, compare2} : \E l \in OfSystem(c) : StampOf(l) > StampOf(m) + Reach

TasCompare ==
  /\ pc = "match" /\ itx # End /\ ~Escapes(itx)
  /\ out' = out \o TasSingles(itx)
  /\ MergeMap' = [l \in Stored |->
       IF l \in Unsent(itx, compare1) \cup Unsent(itx, compare2)
       THEN [MergeMap[l] EXCEPT !.Mark = 1, !.singly = @ + 1]
       ELSE MergeMap[l]]
  /\ itx' = Succ(OfSystem(Master), itx)
  /\ UNCHANGED <<pc, now, arrived, before, due>>

TasRunsWild ==
  /\ pc = "match" /\ itx # End /\ Escapes(itx)
  /\ pc' = "wild"
  /\ UNCHANGED <<MergeMap, itx, out, now, arrived, before, due>>

TasPassDone ==
  /\ pc = "match" /\ itx = End
  /\ pc' = "collect"
  /\ due' = [k \in {l \in DOMAIN due : l \in Stored => MergeMap[l].Mark = 0} |-> due[k]]
  /\ UNCHANGED <<MergeMap, itx, out, now, arrived, before>>

TasNext ==
  TasCollect \/ Idle \/ TasErase \/ TasKeep \/ TasEraseDone \/ TasCompare \/ TasRunsWild \/ TasPassDone

BothNext ==
  /\ (program = "SyncCheck" /\ Next) \/ (program = "SyncCheckTAS" /\ TasNext)
  /\ UNCHANGED program

BothSpec == BothInit /\ [][BothNext]_bothVars

-----------------------------------------------------------------------------
(* Properties; SentAloneOnce and HitsStay are said of both programs          *)

\* SyncCheck finds exactly the coincidences that are there.
SyncCheckFinds == program = "SyncCheck" => FindsWhatIsThere

\* The masters a hit of another system is near to
TasMasters(l) ==
  {m \in DOMAIN before : /\ SystemOf(m) = Master /\ StampOf(m) >= Reach
                         /\ StampOf(l) - StampOf(m) \in -Reach .. Reach}

\* SyncCheckTAS sends every hit near some master that was not sent in an earlier
\* pass, once, with the difference to the earliest of those masters, however many
\* masters see it and whatever the marks and iterators went through; and nothing else.
TasFinds ==
  program = "SyncCheckTAS" /\ pc = "match" /\ itx = End =>
    LET due_now == {l \in DOMAIN before : /\ SystemOf(l) # Master /\ before[l].Mark = 0
                                          /\ TasMasters(l) # {}}
    IN /\ Len(out) = Cardinality(due_now)
       /\ {out[i] : i \in DOMAIN out} = {TasSingle(First(TasMasters(l)), l) : l \in due_now}

\* SyncCheckTAS.cpp:519: with RIBF (system 1) as master, X is the difference of AIDA
\* (system 2 in the titles for master 0) and Y that of DTAS (system 0).
TasOnAxes ==
  program = "SyncCheckTAS" /\ Master = 1 =>
    \A i \in DOMAIN out : out[i].x # None => SystemOf(out[i].x) = NoMaster1

-----------------------------------------------------------------------------
(* The inductive invariant behind SentAloneOnce and HitsStay                *)

MapOK ==
  /\ MergeMap \in [Stored -> [PCtime : 0 .. MaxPasses, Mark : {0, 1, 2}, singly : Nat]]
  /\ now \in 0 .. MaxPasses /\ program \in {"SyncCheck", "SyncCheckTAS"}

\* A hit that was sent alone carries a mark.
SentIsMarked == \A k \in Stored : MergeMap[k].singly <= (IF MergeMap[k].Mark = 0 THEN 0 ELSE 1)

\* Neither program has used hit k up.
Unused(k) == IF program = "SyncCheck" THEN MergeMap[k].Mark # 2 ELSE MergeMap[k].Mark = 0

\* The map has the arrival times of the hits that are due, and between two
\* matching loops none of those was used.
DueIsUnused ==
  /\ \A k \in DOMAIN due : due[k] \in 0 .. now
  /\ \A k \in DOMAIN due \cap Stored : due[k] = MergeMap[k].PCtime
  /\ pc \in {"collect", "erase"} => \A k \in DOMAIN due \cap Stored : Unused(k)

HitsInv == MapOK /\ SentIsMarked /\ DueIsUnused /\ HitsStay

-----------------------------------------------------------------------------
(* The inductive invariants behind SyncCheckFinds and TasFinds: what the    *)
(* matching loop has found when it reaches iterator x                       *)

\* The maps, and that the loop walks over the one it started with
WalkOK ==
  /\ Stored \subseteq Keys /\ DOMAIN before \subseteq Keys /\ itx \in Keys \cup {End}
  /\ out \in Seq(Outputs) /\ (pc = "erase" => out = <<>>)
  /\ pc = "match" => Stored = DOMAIN before /\ (itx # End => itx \in Stored)

\* The hits to be sent to a master before x
DueBefore(x) ==
  {l \in DOMAIN before : /\ SystemOf(l) # Master /\ before[l].Mark = 0
                         /\ \E m \in TasMasters(l) : m < x}

TasWalk ==
  program = "SyncCheckTAS" /\ pc = "match" =>
    /\ itx # End => SystemOf(itx) = Master
    /\ \A l \in Stored : SystemOf(l) # Master =>
         (MergeMap[l].Mark = 0 <=> before[l].Mark = 0 /\ l \notin DueBefore(itx))
    /\ Len(out) = Cardinality(DueBefore(itx))
    /\ {out[i] : i \in DOMAIN out} = {TasSingle(First(TasMasters(l)), l) : l \in DueBefore(itx)}

\* The masters before x, and the hits sent alone and in pairs to them
MastersBefore(x) == {m \in Masters : m < x}

SinglesBefore(x) ==
  {l \in UNION {Partner(m) : m \in {n \in MastersBefore(x) : Cardinality(Near(n)) <= 3}} :
     before[l].Mark = 0}

DoublesBefore(x) ==
  {<<m, Partner(m)>> :
     m \in {n \in MastersBefore(x) : Cardinality(Near(n)) = 3 /\ Cardinality(Partner(n)) = 2}}

SyncWalk ==
  program = "SyncCheck" /\ pc = "match" =>
    /\ \A l \in Stored : SystemOf(l) # Master =>
         (MergeMap[l].Mark = 0 <=> before[l].Mark = 0 /\ l \notin SinglesBefore(itx))
    /\ Len(out) = Cardinality(SinglesBefore(itx)) + Cardinality(DoublesBefore(itx))
    /\ {Partners(r) : r \in Outcomes(FALSE)} = {{l} : l \in SinglesBefore(itx)}
    /\ \A r \in Outcomes(FALSE) : Partners(r) \subseteq Partner(r.master)
    /\ {<<r.master, Partners(r)>> : r \in Outcomes(TRUE)} = DoublesBefore(itx)

FindsInv == HitsInv /\ WalkOK /\ TasWalk /\ SyncWalk

=============================================================================
