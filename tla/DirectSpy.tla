------------------------------ MODULE DirectSpy ------------------------------
(***************************************************************************)
(* The spy SyncCheck uses instead of the library (SpyDataSink::Spy,        *)
(* syncSpyClass.hpp): it reads the segment as a file from the beginning,   *)
(* so it sees the first slot of the ring and no other, and it looks at no  *)
(* age.  The first word it takes from the slot, the low half of the first  *)
(* time stamp, stands for the whole block: a block whose first word was    *)
(* seen by the call before is not read again.                              *)
(*                                                                         *)
(* The ring and its datasink are those of SpyRing; its readers do nothing  *)
(* here, as spies write nothing.  The word <<e, a>> of a block stands for  *)
(* the time stamps of that part of the block.                              *)
(***************************************************************************)
EXTENDS SpyRing, Sequences, FiniteSets

VARIABLES
  pos,            \* words read by the call under way, 0 between calls
  LastTimestamp,
  buffer,         \* buffer32 of the caller
  taken           \* history: the buffers of the calls that returned data

direct == <<pos, LastTimestamp, buffer, taken>>

NoTimestamp == <<0, 1>>        \* the value 1, which is no time stamp

DirectTypeOK ==
  /\ TypeOK
  /\ pos \in Words
  /\ LastTimestamp \in Stamps
  /\ buffer \in [Words -> Stamps]
  /\ taken \in Seq([Words -> Stamps])

DirectInit ==
  /\ Init
  /\ pos = 0 /\ LastTimestamp = NoTimestamp
  /\ buffer = NoBlock /\ taken = <<>>

-----------------------------------------------------------------------------

\* the word of the first slot the stream stands at
Here == data[0][pos]

\* Mutant: every call reads the block.
UnreadAlways == pos = 0

\* Mutant: only a higher number is a new block.
UnreadHigher == pos = 0 /\ Here[2] > LastTimestamp[2]

\* lokk to first TS low to check already read buffers
Unread == pos = 0 /\ Here # LastTimestamp

\* One word more; the last one ends the call.
Keep ==
  /\ buffer' = [buffer EXCEPT ![pos] = Here]
  /\ pos' = (pos + 1) % NWords
  /\ taken' = IF pos' = 0 THEN Append(taken, buffer') ELSE taken

\* The first word is remembered before the others are read.
ReadFirst ==
  /\ Unread
  /\ LastTimestamp' = Here
  /\ Keep
  /\ UNCHANGED vars

\* Mutant: the word read last is remembered.
ReadNextRemembers ==
  /\ pos > 0
  /\ LastTimestamp' = Here
  /\ Keep
  /\ UNCHANGED vars

ReadNext ==
  /\ pos > 0
  /\ Keep
  /\ UNCHANGED <<LastTimestamp, vars>>

Spy == ReadFirst \/ ReadNext

DirectNext == (Writer /\ UNCHANGED direct) \/ Spy

directVars == <<vars, direct>>

\* SyncCheck polls; datasink promises nothing.
DirectSpec == DirectInit /\ [][DirectNext]_directVars /\ WF_directVars(Spy)

-----------------------------------------------------------------------------
(* Properties                                                               *)

\* One block is later than another: stored in a later epoch, or later in it.
Later(s, t) == s[1] > t[1] \/ (s[1] = t[1] /\ s[2] > t[2])

\* The first hits of the blocks taken are in order and none comes twice, though
\* only the last one is remembered, and torn reads and restarts of datasink come between.
FirstHitsInOrder ==
  \A k \in 1 .. Len(taken) - 1 : Later(taken[k + 1][0], taken[k][0])

\* Hits behind the first word may be handed over again by reads that meet the
\* writer in the slot, but no more than four times: by a read that began long
\* before, under the block before theirs, under their own and under the next one;
\* and once more for each later run of datasink that was killed while it stored its
\* first block.
RepeatsBounded ==
  \A w \in Words \ {0} : \A k \in 1 .. Len(taken) :
    LET s == taken[k][w] IN
    s # NoStamp =>
      Cardinality({l \in 1 .. Len(taken) : taken[l][w] = s}) <= 4 + epoch - s[1]

\* A block that begins the slot and was not begun before does not wait for
\* ever: it is begun, or replaced.
UnreadIsRead ==
  \A e \in 1 .. MaxEpoch : \A a \in 0 .. MaxAge :
    (data[0][0] = <<e, a>> /\ LastTimestamp # <<e, a>>)
      ~> (LastTimestamp = <<e, a>> \/ data[0][0] # <<e, a>>)

-----------------------------------------------------------------------------
(* The inductive invariant behind the order of the blocks taken and the     *)
(* number of repeats                                                        *)

\* The first slot holds nothing newer than the block being stored, and that
\* block only where it was copied.
SlotNotAhead ==
  \A w \in Words :
    /\ data[0][w][1] <= epoch
    /\ data[0][w][1] = epoch /\ wpc \notin {"down", "rewind"} =>
         /\ wpc \notin {"reage", "clear"}
         /\ data[0][w][2] <= currentage
         /\ data[0][w][2] = currentage =>
              wpc \in {"stamp", "bump"} \/ (wpc = "copy" /\ next = 0 /\ w \in copied)

\* A word behind the first is older than it only while the rest of a block is
\* copied, or when datasink was stopped there.
SlotTorn ==
  \A w \in Words :
    data[0][0][1] = epoch /\ Later(data[0][0], data[0][w]) =>
      wpc \in {"down", "rewind"} \/ (wpc = "copy" /\ next = 0 /\ 0 \in copied)

\* The first word of the slot is the one remembered or a later one, and the one
\* remembered begins the block under way, or the last one taken.
FirstWord ==
  /\ (pos = 0 /\ taken = <<>>) \/ data[0][0] = LastTimestamp \/ Later(data[0][0], LastTimestamp)
  /\ pos > 0 => buffer[0] = LastTimestamp
  /\ taken # <<>> => IF pos = 0 THEN LastTimestamp = taken[Len(taken)][0]
                                ELSE Later(LastTimestamp, taken[Len(taken)][0])

\* How often word w was taken as s, and whether the call under way has it or will read it.
Times(w, s) == Cardinality({l \in 1 .. Len(taken) : taken[l][w] = s})
Kept(w, s)  == IF pos > w /\ buffer[w] = s THEN 1 ELSE 0
Coming(w)   == IF pos \in 1 .. w THEN 1 ELSE 0

\* The calls that may have met s behind the first words the slot has had with it.
Calls(s) ==
  (IF Later(s, data[0][0]) THEN 1
   ELSE IF data[0][0] = s THEN 2 ELSE 3 + data[0][0][1] - s[1])
  + (IF LastTimestamp = data[0][0] THEN 1 ELSE 0)

\* A word is met by one call for each first word beside it.
Met(w, s) ==
  /\ Later(s, data[0][w]) => Times(w, s) + Kept(w, s) = 0
  /\ data[0][w] = s => Times(w, s) + Kept(w, s) + Coming(w) <= Calls(s)
  /\ Later(data[0][w], s) => Times(w, s) + Kept(w, s) <= 4 + epoch - s[1]

Repeats == \A w \in Words \ {0} : \A s \in Stamps \ {NoStamp} : Met(w, s)

DirectInv ==
  /\ CopyInv /\ DirectTypeOK /\ SlotNotAhead /\ SlotTorn /\ FirstWord /\ FirstHitsInOrder
  /\ Repeats

-----------------------------------------------------------------------------
(* What the comment of syncSpyClass.hpp says                                 *)

\* syncSpyClass.hpp:53 the first time stamp tells the buffers already read: a
\* block that is whole in the slot and refused was taken whole.
RefusedWasRead ==
  pos = 0 /\ LastTimestamp # NoStamp /\ Whole(data[0], LastTimestamp[1], LastTimestamp[2]) =>
    \E k \in 1 .. Len(taken) : taken[k] = data[0]

=============================================================================
