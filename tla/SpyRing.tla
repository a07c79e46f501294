------------------------------- MODULE SpyRing -------------------------------
(***************************************************************************)
(* The shared-memory ring of one data stream: DataSink stores every block  *)
(* it receives (store_buffer, initialise_buffer_area, data_transfer.cpp)   *)
(* and any number of spies copy blocks out of it without a lock            *)
(* (dataSpyOpen, dataSpyReadWithSeq, dataSpyClose, dataspy.c).  The only   *)
(* synchronisation is buffer_age: 0 while a slot is being written, then    *)
(* the age of its block.  One action is one access to shared memory.       *)
(*                                                                         *)
(* A block is identified by <<epoch, age>>: which run of                   *)
(* initialise_buffer_area it belongs to and its buffer_currentage.  Its    *)
(* contents are NWords words that all carry this identity, so a copy that  *)
(* mixes two blocks is visible.                                            *)
(***************************************************************************)
EXTENDS Integers

CONSTANTS
  NBlocks,      \* NBLOCKS, the slots of the ring (64 in the code, a power of 2)
  NWords,       \* words of a block
  Readers,      \* the processes that opened the area with dataSpyOpen
  Sizes,        \* block sizes a sender may announce, none above BlockSize
  BlockSize,    \* tape_block_size: the size datasink starts with
  MaxAge,       \* bound: blocks are stored only while currentage <= MaxAge
  MaxEpoch      \* bound: runs of initialise_buffer_area

ASSUME RingAssumption ==
  /\ NBlocks \in Nat /\ NBlocks >= 2
  /\ NWords \in Nat /\ NWords >= 1
  /\ BlockSize \in Sizes
  /\ MaxAge \in Nat
  /\ MaxEpoch \in Nat /\ MaxEpoch >= 1

VARIABLES
  \* shared memory (BUFFER_HEADER and the slots)
  next,         \* buffer_next
  currentage,   \* buffer_currentage
  age,          \* buffer_age[]
  data,         \* the slots, word by word
  \* datasink
  wpc,          \* where the sink is in store_buffer / initialise_buffer_area
  job,          \* what runs after initialise_buffer_area: "serve" or "store"
  copied,       \* words of the new block already copied into its slot
  cleared,      \* ages already cleared by initialise_buffer_area
  transferSize, \* TransferSize[ID], set by the sender's restart message
  \* spies: the statics and locals of dataspy.c, and the caller's buffer
  rpc, next_index, current_age, len, word, buf,
  ret,          \* what the last dataSpyRead returned
  \* history
  epoch,        \* runs of initialise_buffer_area so far
  clean,        \* the area holds blocks of the current epoch only
  stored,       \* age of the newest stored block of the epoch, -1 if none
  calm,         \* calm[r]: the area was clean from r's accepting load onwards
  last,         \* last[r]: newest age r was given or skipped over by its open
  instep        \* instep[r]: next_index[r] is the slot of block last[r] + 1

shared  == <<next, currentage, age, data>>
writer  == <<wpc, job, copied, cleared, transferSize>>
reader  == <<rpc, next_index, current_age, len, word, buf, ret>>
history == <<epoch, clean, stored, calm, last, instep>>
vars    == <<shared, writer, reader, history>>

Slots  == 0 .. NBlocks - 1
Words  == 0 .. NWords - 1
Stamps == Nat \X Nat

NoStamp  == <<0, 0>>
NoBlock  == [w \in Words |-> NoStamp]

\* (i + 1) & (NBLOCKS - 1), and the same step of a spy's index
Succ(i) == IF i + 1 = NBlocks THEN 0 ELSE i + 1

\* All words of b belong to the block of that age stored in epoch e.
Whole(b, e, a) == \A w \in Words : b[w] = <<e, a>>

TypeOK ==
  /\ next \in Slots
  /\ currentage \in Nat
  /\ age \in [Slots -> Nat]
  /\ data \in [Slots -> [Words -> Stamps]]
  /\ wpc \in {"down", "rewind", "reage", "clear",
              "idle", "mark", "copy", "stamp", "bump", "advance"}
  /\ job \in {"serve", "store"}
  /\ copied \in SUBSET Words
  /\ cleared \in 0 .. NBlocks
  /\ transferSize \in Sizes
  /\ rpc \in [Readers -> {"closed", "opening", "idle", "retry", "copy", "check"}]
  /\ next_index \in [Readers -> Slots]
  /\ current_age \in [Readers -> Nat]
  /\ len \in [Readers -> BOOLEAN]
  /\ word \in [Readers -> 0 .. NWords]
  /\ buf \in [Readers -> [Words -> Stamps]]
  /\ ret \in [Readers -> {"none", "empty", "block", "stale"}]
  /\ epoch \in Nat
  /\ clean \in BOOLEAN
  /\ stored \in Nat \cup {-1}
  /\ calm \in [Readers -> BOOLEAN]
  /\ last \in [Readers -> Nat \cup {-1}]
  /\ instep \in [Readers -> BOOLEAN]

-----------------------------------------------------------------------------
(* Before the first datasink of the machine has run: the object was just    *)
(* created, all zero, and main() is about to initialise it.                 *)
Init ==
  /\ next = 0 /\ currentage = 0
  /\ age = [i \in Slots |-> 0]
  /\ data = [i \in Slots |-> NoBlock]
  /\ wpc = "rewind" /\ job = "serve" /\ copied = {} /\ cleared = 0
  /\ transferSize = BlockSize
  /\ rpc = [r \in Readers |-> "closed"]
  /\ next_index = [r \in Readers |-> 0]
  /\ current_age = [r \in Readers |-> 0]
  /\ len = [r \in Readers |-> FALSE]
  /\ word = [r \in Readers |-> 0]
  /\ buf = [r \in Readers |-> NoBlock]
  /\ ret = [r \in Readers |-> "none"]
  /\ epoch = 0 /\ clean = FALSE /\ stored = -1
  /\ calm = [r \in Readers |-> FALSE]
  /\ last = [r \in Readers |-> -1]
  /\ instep = [r \in Readers |-> FALSE]

-----------------------------------------------------------------------------
(* initialise_buffer_area                                                   *)

\* buffer_next = 0; the first store of a new epoch
Rewind ==
  /\ wpc = "rewind" /\ epoch < MaxEpoch
  /\ next' = 0
  /\ wpc' = "reage"
  /\ epoch' = epoch + 1 /\ clean' = FALSE /\ stored' = -1
  /\ calm' = [r \in Readers |-> FALSE]
  /\ last' = [r \in Readers |-> -1]
  /\ instep' = [r \in Readers |-> FALSE]
  /\ UNCHANGED <<currentage, age, data, job, copied, cleared, transferSize, reader>>

\* Mutant: currentage keeps counting from the previous epoch.
ResetAgeKeeps ==
  /\ wpc = "reage"
  /\ wpc' = "clear" /\ cleared' = 0
  /\ UNCHANGED <<next, currentage, age, data, job, copied, transferSize, reader, history>>

\* buffer_currentage = 0
ResetAge ==
  /\ wpc = "reage"
  /\ currentage' = 0
  /\ wpc' = "clear" /\ cleared' = 0
  /\ UNCHANGED <<next, age, data, job, copied, transferSize, reader, history>>

\* Mutant: the loop stops one slot early.
ClearAgeShort ==
  /\ wpc = "clear"
  /\ age' = [age EXCEPT ![cleared] = 0]
  /\ cleared' = cleared + 1
  /\ IF cleared + 1 < NBlocks - 1
     THEN UNCHANGED <<wpc, clean>>
     ELSE wpc' = (IF job = "store" THEN "mark" ELSE "idle") /\ clean' = TRUE
  /\ UNCHANGED <<next, currentage, data, job, copied, transferSize, reader,
                 epoch, stored, calm, last, instep>>

\* buffer_age[i] = 0, one slot after the other; the last one ends the routine
ClearAge ==
  /\ wpc = "clear"
  /\ age' = [age EXCEPT ![cleared] = 0]
  /\ cleared' = cleared + 1
  /\ IF cleared + 1 < NBlocks
     THEN UNCHANGED <<wpc, clean>>
     ELSE wpc' = (IF job = "store" THEN "mark" ELSE "idle") /\ clean' = TRUE
  /\ UNCHANGED <<next, currentage, data, job, copied, transferSize, reader,
                 epoch, stored, calm, last, instep>>

-----------------------------------------------------------------------------
(* ts_data_transfer and store_buffer                                        *)

\* A complete block arrived; the area is initialised first when the sender's
\* size is not the size of the area (which never shrinks).
TsDataTransfer ==
  /\ wpc = "idle" /\ currentage <= MaxAge
  /\ IF transferSize # BlockSize
     THEN epoch < MaxEpoch /\ wpc' = "rewind" /\ job' = "store"
     ELSE wpc' = "mark" /\ UNCHANGED job
  /\ UNCHANGED <<shared, copied, cleared, transferSize, reader, history>>

\* Mutant: the slot keeps its age while it is overwritten.
MarkNothing ==
  /\ wpc = "mark"
  /\ wpc' = "copy" /\ copied' = {}
  /\ UNCHANGED <<shared, job, cleared, transferSize, reader, history>>

\* buffer_age[i] = 0
Mark ==
  /\ wpc = "mark"
  /\ age' = [age EXCEPT ![next] = 0]
  /\ wpc' = "copy" /\ copied' = {}
  /\ UNCHANGED <<next, currentage, data, job, cleared, transferSize, reader, history>>

\* Mutant: the slot is stamped after the header, before the rest is copied.
CopyInPartly(w) ==
  /\ wpc = "copy" /\ w \notin copied
  /\ data' = [data EXCEPT ![next][w] = <<epoch, currentage>>]
  /\ copied' = copied \cup {w}
  /\ wpc' = "stamp"
  /\ UNCHANGED <<next, currentage, age, job, cleared, transferSize, reader, history>>

\* the two memcpy: the words reach the slot in any order
CopyIn(w) ==
  /\ wpc = "copy" /\ w \notin copied
  /\ data' = [data EXCEPT ![next][w] = <<epoch, currentage>>]
  /\ copied' = copied \cup {w}
  /\ wpc' = IF copied' = Words THEN "stamp" ELSE "copy"
  /\ UNCHANGED <<next, currentage, age, job, cleared, transferSize, reader, history>>

\* buffer_age[i] = buffer_currentage
Stamp ==
  /\ wpc = "stamp"
  /\ age' = [age EXCEPT ![next] = currentage]
  /\ wpc' = "bump" /\ stored' = currentage
  /\ UNCHANGED <<next, currentage, data, job, copied, cleared, transferSize, reader,
                 epoch, clean, calm, last, instep>>

\* buffer_currentage++
Bump ==
  /\ wpc = "bump"
  /\ currentage' = currentage + 1
  /\ wpc' = "advance"
  /\ UNCHANGED <<next, age, data, job, copied, cleared, transferSize, reader, history>>

\* buffer_next = (buffer_next + 1) & (NBLOCKS - 1)
Advance ==
  /\ wpc = "advance"
  /\ next' = Succ(next)
  /\ wpc' = "idle"
  /\ UNCHANGED <<currentage, age, data, job, copied, cleared, transferSize, reader, history>>

\* The restart message of a sender sets TransferSize (link_server.cpp).
Resize(s) ==
  /\ wpc = "idle" /\ s # transferSize
  /\ transferSize' = s
  /\ UNCHANGED <<shared, wpc, job, copied, cleared, reader, history>>

\* datasink is killed at any point; the shared memory object survives it.
Crash ==
  /\ wpc # "down" /\ epoch < MaxEpoch
  /\ wpc' = "down"
  /\ UNCHANGED <<shared, job, copied, cleared, transferSize, reader, history>>

\* main() of a new datasink initialises the existing object before it serves.
Restart ==
  /\ wpc = "down"
  /\ wpc' = "rewind" /\ job' = "serve" /\ transferSize' = BlockSize
  /\ UNCHANGED <<shared, copied, cleared, reader, history>>

Writer ==
  \/ Rewind \/ ResetAge \/ ClearAge
  \/ TsDataTransfer \/ Mark \/ (\E w \in Words : CopyIn(w)) \/ Stamp \/ Bump \/ Advance
  \/ (\E s \in Sizes : Resize(s)) \/ Crash \/ Restart

-----------------------------------------------------------------------------
(* dataspy.c                                                                *)

\* dataSpyOpen: next_index = buffer_next.  A first initialise_buffer_area has
\* written the geometry of the area (buffer_number, buffer_offset).
OpenIndex(r) ==
  /\ rpc[r] = "closed" /\ epoch >= 1
  /\ next_index' = [next_index EXCEPT ![r] = next]
  /\ rpc' = [rpc EXCEPT ![r] = "opening"]
  /\ UNCHANGED <<shared, writer, current_age, len, word, buf, ret, history>>

\* dataSpyOpen: current_age = buffer_currentage, a second and separate load
OpenAge(r) ==
  /\ rpc[r] = "opening"
  /\ current_age' = [current_age EXCEPT ![r] = currentage]
  /\ rpc' = [rpc EXCEPT ![r] = "idle"]
  /\ ret' = [ret EXCEPT ![r] = "none"]
  /\ last' = [last EXCEPT ![r] = IF clean THEN currentage - 1 ELSE -1]
  /\ instep' = [instep EXCEPT ![r] =
                  clean /\ currentage % NBlocks = next_index[r]]
  /\ UNCHANGED <<shared, writer, next_index, len, word, buf,
                 epoch, clean, stored, calm>>

\* The age of the slot is loaded once.  FALSE at the start of a call, len is
\* TRUE at "retry" because of the copy that was not accepted.
KeptLen(r) == rpc[r] = "retry" /\ len[r]

Begins(r) == rpc[r] \in {"idle", "retry"}

\* Mutant: only strictly newer blocks.
ReadableNewer(r) ==
  /\ age[next_index[r]] # 0
  /\ age[next_index[r]] > current_age[r]

Readable(r) ==
  /\ age[next_index[r]] # 0
  /\ age[next_index[r]] >= current_age[r]

\* nothing there, or only a block older than the last one: return len
ReadNothing(r) ==
  /\ Begins(r) /\ ~Readable(r)
  /\ ret' = [ret EXCEPT ![r] = IF KeptLen(r) THEN "stale" ELSE "empty"]
  /\ rpc' = [rpc EXCEPT ![r] = "idle"]
  /\ len' = [len EXCEPT ![r] = KeptLen(r)]
  /\ UNCHANGED <<shared, writer, next_index, current_age, word, buf, history>>

\* current_age = buffer_age[next_index]; len = buffer_length
ReadAge(r) ==
  /\ Begins(r) /\ Readable(r)
  /\ current_age' = [current_age EXCEPT ![r] = age[next_index[r]]]
  /\ len' = [len EXCEPT ![r] = TRUE]
  /\ word' = [word EXCEPT ![r] = 0]
  /\ rpc' = [rpc EXCEPT ![r] = "copy"]
  /\ calm' = [calm EXCEPT ![r] = clean]
  /\ UNCHANGED <<shared, writer, next_index, buf, ret, epoch, clean, stored, last, instep>>

\* ptr[i] = bufferaddress[i]
CopyOut(r) ==
  /\ rpc[r] = "copy"
  /\ buf' = [buf EXCEPT ![r][word[r]] = data[next_index[r]][word[r]]]
  /\ word' = [word EXCEPT ![r] = @ + 1]
  /\ rpc' = [rpc EXCEPT ![r] = IF word[r] + 1 = NWords THEN "check" ELSE "copy"]
  /\ UNCHANGED <<shared, writer, next_index, current_age, len, ret, history>>

\* Mutant: the index does not move on.
AcceptStays(r) ==
  /\ rpc[r] = "check" /\ age[next_index[r]] = current_age[r]
  /\ ret' = [ret EXCEPT ![r] = "block"]
  /\ rpc' = [rpc EXCEPT ![r] = "idle"]
  /\ last' = [last EXCEPT ![r] = IF calm[r] THEN current_age[r] ELSE @]
  /\ instep' = [instep EXCEPT ![r] = @ \/ calm[r]]
  /\ UNCHANGED <<shared, writer, next_index, current_age, len, word, buf,
                 epoch, clean, stored, calm>>

\* the age is still the one loaded before the copy: accept and move on
Accept(r) ==
  /\ rpc[r] = "check" /\ age[next_index[r]] = current_age[r]
  /\ next_index' = [next_index EXCEPT ![r] = Succ(@)]
  /\ ret' = [ret EXCEPT ![r] = "block"]
  /\ rpc' = [rpc EXCEPT ![r] = "idle"]
  /\ last' = [last EXCEPT ![r] = IF calm[r] THEN current_age[r] ELSE @]
  /\ instep' = [instep EXCEPT ![r] = @ \/ calm[r]]
  /\ UNCHANGED <<shared, writer, current_age, len, word, buf,
                 epoch, clean, stored, calm>>

\* the entry changed while copying: goto retry
Reject(r) ==
  /\ rpc[r] = "check" /\ age[next_index[r]] # current_age[r]
  /\ rpc' = [rpc EXCEPT ![r] = "retry"]
  /\ UNCHANGED <<shared, writer, next_index, current_age, len, word, buf, ret, history>>

\* dataSpyClose, between two reads
Close(r) ==
  /\ rpc[r] = "idle"
  /\ rpc' = [rpc EXCEPT ![r] = "closed"]
  /\ instep' = [instep EXCEPT ![r] = FALSE]
  /\ UNCHANGED <<shared, writer, next_index, current_age, len, word, buf, ret,
                 epoch, clean, stored, calm, last>>

Read(r) == ReadNothing(r) \/ ReadAge(r) \/ CopyOut(r) \/ Accept(r) \/ Reject(r)

Reader(r) == OpenIndex(r) \/ OpenAge(r) \/ Read(r) \/ Close(r)

Next == Writer \/ \E r \in Readers : Reader(r)

Spec == Init /\ [][Next]_vars

\* Users of the library poll it in a loop; the sink promises nothing.
FairSpec == Spec /\ \A r \in Readers : WF_vars(OpenAge(r) \/ Read(r))

-----------------------------------------------------------------------------
(* What the ring promises                                                   *)

\* A block that dataSpyRead accepts was copied whole: every word is a word of
\* the block whose age the call saw, as long as no initialise_buffer_area ran
\* during the copy.  The two loads of buffer_age around the copy have to
\* catch a writer that laps the spy at any word.
AcceptedIntact ==
  \A r \in Readers :
    rpc[r] = "idle" /\ ret[r] = "block" /\ calm[r] =>
      Whole(buf[r], epoch, current_age[r])

\* Outside initialise_buffer_area a slot that has an age holds exactly the
\* block of that age, and it is one of the last NBLOCKS of this epoch: the
\* order of the stores (age 0, words, age, currentage, next) publishes nothing
\* early and leaves nothing stale behind.
RingHoldsLastBlocks ==
  clean => \A i \in Slots : age[i] # 0 =>
             /\ Whole(data[i], epoch, age[i])
             /\ age[i] \in stored - NBlocks + 1 .. stored
             /\ age[i] % NBlocks = i

\* The spy's index and the age it was last given stay in step: a spy that is
\* lapped loses whole laps and never re-reads or skips inside a lap, so the
\* next block it gets is the successor of the last one modulo NBLOCKS.
IndexInStep ==
  \A r \in Readers :
    instep[r] => (last[r] + 1) % NBlocks = next_index[r]

\* Accepted blocks come in the order they were stored, none twice.
AcceptedInOrder ==
  [][\A r \in Readers : Accept(r) /\ calm[r] => last[r] < last'[r]]_vars

\* "No data" from a spy in step with the writer is true: it has been given the
\* newest block.  The exceptions are a spy that is a whole lap behind, whose slot
\* is being rewritten, and the first block of an epoch, whose age is 0.
EmptyMeansCaughtUp ==
  [][\A r \in Readers :
       ReadNothing(r) /\ ~KeptLen(r) /\ clean /\ instep[r] =>
         \/ last[r] = stored
         \/ last[r] + NBlocks <= stored /\ age[next_index[r]] = 0
         \/ last[r] = -1 /\ stored < NBlocks]_vars

\* A spy left with an age ahead of the ring, by a restart of datasink or by an
\* open between two stores of the writer, finds nothing for a while; the wait
\* ends when the ring is a lap past that age, at whatever slot the spy stands.
StarvationEnds ==
  \A r \in Readers :
    /\ clean /\ wpc = "idle" /\ rpc[r] = "idle"
    /\ stored >= NBlocks /\ stored >= current_age[r] + NBlocks - 1
    => Readable(r)

\* A block that waits at a spy's index, new enough to be read, does not wait
\* for ever: the polling spy takes it or the writer replaces it.
ReadableBlockLeaves ==
  \A r \in Readers : \A i \in Slots : \A a \in 1 .. MaxAge :
    (rpc[r] \notin {"closed", "opening"} /\ next_index[r] = i /\ age[i] = a /\ a >= current_age[r])
      ~> (rpc[r] = "closed" \/ next_index[r] # i \/ age[i] # a)

-----------------------------------------------------------------------------
(* The inductive invariant behind AcceptedIntact                            *)

\* The points of the sink at which every age in the ring is below currentage:
\* all of store_buffer but the moment between Stamp and Bump.
Settled == {"idle", "mark", "copy", "stamp", "advance"}

\* The area is initialised before the sink serves, and being initialised again
\* when it is not clean.
PhaseClean ==
  /\ wpc \in Settled \cup {"bump"} => clean
  /\ wpc \in {"reage", "clear"} => ~clean
  /\ wpc = "clear" => cleared < NBlocks /\ \A i \in Slots : i < cleared => age[i] = 0

\* A slot is unmarked while words are copied into it, and complete when stamped.
SlotBeingWritten ==
  wpc \in {"copy", "stamp"} =>
    /\ age[next] = 0
    /\ \A w \in copied : data[next][w] = <<epoch, currentage>>
    /\ wpc = "stamp" => copied = Words

\* A slot with an age holds the block of that age, and ages never run ahead.
SlotsWhole ==
  clean => \A i \in Slots :
    /\ age[i] # 0 => Whole(data[i], epoch, age[i])
    /\ age[i] <= currentage
    /\ wpc \in Settled => age[i] = 0 \/ age[i] < currentage

\* While a calm spy copies, the age it loaded will not be given out again, so
\* if the slot still has it the words copied so far are that block's.
CopySound(r) ==
  rpc[r] \in {"copy", "check"} =>
    /\ rpc[r] = "copy" => word[r] < NWords
    /\ rpc[r] = "check" => word[r] = NWords
    /\ calm[r] =>
         /\ clean
         /\ current_age[r] # 0 /\ current_age[r] <= currentage
         /\ wpc \in Settled => current_age[r] < currentage
         /\ age[next_index[r]] = current_age[r] =>
              \A w \in Words : w < word[r] => buf[r][w] = <<epoch, current_age[r]>>

SpyCopying == \A r \in Readers : CopySound(r)

CopyInv ==
  TypeOK /\ PhaseClean /\ SlotBeingWritten /\ SlotsWhole /\ SpyCopying /\ AcceptedIntact

-----------------------------------------------------------------------------
(* The inductive invariant behind the order of what a spy is given          *)

\* The slot the block of age a is stored in.
SlotOf(a) == a % NBlocks

\* The sink's three words move together: next is the slot of the next block
\* to store, or still that of the last one between Bump and Advance.
StoreProgress ==
  /\ ~clean => stored = -1
  /\ wpc = "reage" => next = 0
  /\ wpc = "clear" => next = 0 /\ currentage = 0
  /\ clean =>
       /\ \/ stored = currentage - 1 /\ next = SlotOf(currentage)
          \/ stored = currentage     /\ next = SlotOf(currentage)
          \/ stored = currentage - 1 /\ next = SlotOf(stored)
       /\ wpc \in {"idle", "mark", "copy", "stamp"} =>
            stored = currentage - 1 /\ next = SlotOf(currentage)
       /\ wpc = "bump" => stored = currentage /\ next = SlotOf(currentage)
       /\ wpc = "advance" => stored = currentage - 1 /\ next = SlotOf(stored)

\* A slot with an age has that of one of the last NBLOCKS blocks that belong there.
SlotsInPlace ==
  clean => \A i \in Slots : age[i] # 0 =>
             age[i] \in stored - NBlocks + 1 .. stored /\ SlotOf(age[i]) = i

\* The last NBLOCKS blocks are all there, but block 0, which has no age, and the
\* oldest one from the moment its slot is taken for the next.
LastBlocksThere ==
  clean => \A a \in stored - NBlocks + 1 .. stored : a >= 1 =>
             \/ age[SlotOf(a)] = a
             \/ a = stored - NBlocks + 1 /\ wpc \in {"copy", "stamp", "down", "rewind"}

\* A spy's index, the age it last loaded and the age it was last given.
SpyInOrder(r) ==
  /\ last[r] <= stored
  /\ instep[r] => clean /\ SlotOf(last[r] + 1) = next_index[r]
  /\ rpc[r] \in {"closed", "opening"} => ~instep[r]
  /\ rpc[r] \notin {"closed", "opening"} =>
       /\ \/ last[r] < current_age[r]
          \/ last[r] = current_age[r] /\ rpc[r] = "idle" /\ instep[r]
       /\ instep[r] /\ last[r] # current_age[r] =>
            /\ SlotOf(current_age[r]) = next_index[r]
            /\ current_age[r] <= stored \/ current_age[r] = last[r] + 1
  /\ rpc[r] \in {"copy", "check"} =>
       /\ instep[r] => calm[r]
       /\ calm[r] => SlotOf(current_age[r]) = next_index[r] /\ current_age[r] <= stored

SpiesInOrder == \A r \in Readers : SpyInOrder(r)

FeedInv ==
  CopyInv /\ StoreProgress /\ SlotsInPlace /\ LastBlocksThere /\ SpiesInOrder

-----------------------------------------------------------------------------
(* The ring as a lossy feed: stored blocks are published, a spy is given any *)
(* newer one that is still among the last NBLOCKS.  See LossyFeed.           *)
Feed == INSTANCE LossyFeed WITH Window <- NBlocks, newest <- stored, seen <- last

\* Every spy of the ring sees a lossy feed: no copying, marking, retrying or
\* reinitialisation shows in what it is given.
ImplementsFeed == Feed!Spec

-----------------------------------------------------------------------------
(* What the comments of dataspy.c and the users of the library say          *)

\* dataspy.c:222: a copy whose entry changed is retried, so no call returns
\* bytes of a block that was not whole.
ReturnedIntact ==
  \A r \in Readers :
    rpc[r] = "idle" /\ ret[r] \in {"block", "stale"} /\ calm[r] =>
      Whole(buf[r], epoch, current_age[r])

\* dataspy.c:171: a call that reports no data (returns 0) to a spy in step has
\* found that no block is stored that the spy has not been given.
EmptyMeansNoData ==
  [][\A r \in Readers :
       ReadNothing(r) /\ ~KeptLen(r) /\ clean /\ instep[r] /\ wpc = "idle" =>
         last[r] = stored]_vars

\* dataspy.c:123: dataSpyOpen flushes the old buffers, those stored before it;
\* a spy opened after the first block is not kept waiting while a block newer
\* than its open is in the ring.
OpenFlushesOldOnly ==
  [][\A r \in Readers :
       ReadNothing(r) /\ ~KeptLen(r) /\ clean /\ wpc = "idle" /\ last[r] > 0 =>
         last[r] = stored]_vars

=============================================================================
