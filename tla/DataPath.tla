------------------------------ MODULE DataPath ------------------------------
(***************************************************************************)
(* The whole path of one stream: the sending program and the server's port *)
(* of Stream, and behind store_buffer the ring of SpyRing with its spies.  *)
(* The sink is one thread: it takes its turns on the port only between two *)
(* blocks (wpc is "idle"), and listens only after main has initialised the *)
(* area.  Killed, it takes its connections along and leaves the segment.   *)
(*                                                                         *)
(* The ring's stored is newest here, its ret spyRet; it is of the size the *)
(* sink starts with, and a sender announces that size or a smaller one.    *)
(***************************************************************************)
EXTENDS Stream

CONSTANTS NBlocks, NWords, Readers, MaxAge, MaxEpoch

ASSUME DataPathAssumption ==
  /\ BlockSizes \subseteq {1, StartSize}
  /\ NBlocks \in Nat /\ NBlocks >= 2 /\ NWords \in Nat /\ NWords >= 1
  /\ MaxAge \in Nat /\ MaxEpoch \in Nat /\ MaxEpoch >= 1

VARIABLES
  \* the ring, as in SpyRing
  next, currentage, age, data,
  wpc, job, copied, cleared, transferSize,
  rpc, next_index, current_age, len, word, buf, spyRet,
  epoch, clean, newest, calm, last, instep,
  \* history
  numbers,   \* the application's blocks stored in this epoch, by age
  got        \* got[r]: the blocks spy r was given since it opened

Ring == INSTANCE SpyRing WITH
  BlockSize <- StartSize, Sizes <- {1, StartSize}, stored <- newest, ret <- spyRet

slots    == <<next, currentage, age, data>>
store    == <<wpc, job, copied, cleared>>
spies    == <<rpc, next_index, current_age, len, word, buf, spyRet>>
told     == <<epoch, clean, newest, calm, last, instep>>
ring     == <<slots, store, transferSize, spies, told>>
pathVars == <<streamVars, ring, numbers, got>>

PathInit == StreamInit /\ Ring!Init /\ numbers = <<>> /\ got = [r \in Readers |-> <<>>]

-----------------------------------------------------------------------------
(* The sender and the port                                                  *)

\* StartUp_Socket comes after the initialise_buffer_area of main.
Listening == wpc # "down" /\ (wpc \in {"rewind", "reage", "clear"} => job = "store")

\* Nothing connects to a sink that does not listen.
PathSender ==
  /\ Sender
  /\ mpc = "connect" /\ mpc' = "restart" => Listening
  /\ UNCHANGED <<ring, numbers, got>>

\* the loop of link_server is between two calls of ts_data_transfer
Serving == wpc = "idle"

\* Mutant: the acknowledgement does not wait for the block.
PortTurnEarly ==
  /\ Accept \/ WriteAck \/ Disconnect \/ OtherPort
  /\ UNCHANGED <<ring, numbers, got>>

PortTurn ==
  /\ Serving
  /\ Accept \/ WriteAck \/ Disconnect \/ OtherPort
  /\ UNCHANGED <<ring, numbers, got>>

\* The restart message sets TransferSize.
Announced ==
  /\ transferSize' = BlockSize
  /\ UNCHANGED <<slots, store, spies, told>>

\* Read_Socket: a restart message, or a block for ts_data_transfer
TakeMessage ==
  /\ Serving /\ Take
  /\ IF Message.blk = 0 THEN Announced ELSE Ring!TsDataTransfer
  /\ UNCHANGED <<numbers, got>>

-----------------------------------------------------------------------------
(* The ring and its spies                                                   *)

\* initialise_buffer_area and store_buffer, one store at a time
StoreStep ==
  /\ \/ Ring!Rewind /\ numbers' = <<>>
     \/ Ring!Stamp /\ numbers' = Append(numbers, LastHandled.blk)
     \/ /\ \/ Ring!ResetAge \/ Ring!ClearAge \/ Ring!Mark \/ (\E w \in Ring!Words : Ring!CopyIn(w))
           \/ Ring!Bump \/ Ring!Advance
        /\ UNCHANGED numbers
  /\ UNCHANGED <<streamVars, got>>

SinkKilled == SinkRestart /\ Ring!Crash /\ UNCHANGED <<numbers, got>>

SinkStarts == Ring!Restart /\ UNCHANGED <<streamVars, numbers, got>>

\* the application's number of the block in a spy's buffer
Content(r) == numbers[buf[r][0][2] + 1]

\* What is copied while an area is initialised is not the block of one age.
Spy(r) ==
  /\ \/ Ring!OpenAge(r) /\ got' = [got EXCEPT ![r] = <<>>]
     \/ Ring!Accept(r) /\ got' = [got EXCEPT ![r] = IF calm[r] THEN Append(@, Content(r)) ELSE @]
     \/ /\ \/ Ring!OpenIndex(r) \/ Ring!ReadNothing(r) \/ Ring!ReadAge(r) \/ Ring!CopyOut(r)
           \/ Ring!Reject(r) \/ Ring!Close(r)
        /\ UNCHANGED got
  /\ UNCHANGED <<streamVars, numbers>>

PathReset == NetworkReset /\ UNCHANGED <<ring, numbers, got>>

PathNext ==
  \/ PathSender \/ PortTurn \/ TakeMessage \/ StoreStep \/ SinkKilled \/ SinkStarts \/ PathReset
  \/ \E r \in Readers : Spy(r)

PathSpec == PathInit /\ [][PathNext]_pathVars

-----------------------------------------------------------------------------
(* Properties                                                               *)

\* Block b is the newest of the ring, under its age; where that is an age at all
\* (the first of an epoch has 0), word for word.
InRing(b) ==
  /\ newest >= 0 /\ numbers[newest + 1] = b
  /\ newest >= 1 => age[newest % NBlocks] = newest /\ Ring!Whole(data[newest % NBlocks], epoch, newest)

\* main has initialised the area, and nothing was stored since
StartedAgain == newest = -1 /\ job = "serve"

\* In mode 1 a call that returned OK on an acknowledgement has its block in the ring,
\* where every spy can read it, until the next call or the next start of the sink:
\* whether the sink was killed before that start, at whatever store, or not.
AckedIsInRing ==
  mode = 1 /\ mpc = "idle" /\ ret = "ok" /\ gotack => InRing(block) \/ StartedAgain

\* The size with which ts_data_transfer compares that of the area is the one the
\* sender on this connection announced, also after a start of the sink, which
\* returns to its own.
SizesAgree == served # 0 /\ taken >= 1 => transferSize = BlockSize

\* From an application's call to the buffer of a spy, through two threads, connections
\* that drop, a sink that is killed and a ring without locks: a spy is given blocks
\* in the order of the calls, none twice while it is open, but for what it copied while
\* an area was initialised.
Far == INSTANCE Delivery WITH given <- block

ImplementsDelivery == Far!Spec

-----------------------------------------------------------------------------
(* The inductive invariant behind AckedIsInRing, SizesAgree and the delivery, when *)
(* no call streams an empty block                                           *)

\* the block stored last is on its way into the ring
Pending ==
  \/ wpc \in {"rewind", "reage", "clear"} /\ job = "store"
  \/ wpc \in {"mark", "copy", "stamp"}

\* Nobody is connected to a sink that does not listen.
NobodyBefore == ~Listening => served = 0 /\ queue = <<>>

\* The numbers of the ring's blocks ascend, up to the one stored last.
Numbered ==
  /\ numbers \in Seq(1 .. MaxBlock) /\ Len(numbers) = newest + 1
  /\ \A i, k \in 1 .. Len(numbers) : i < k => numbers[i] < numbers[k]
  /\ \A k \in 1 .. Len(numbers) : numbers[k] <= LastHandled.blk /\ (Pending => numbers[k] < LastHandled.blk)
  /\ Pending => handled # <<>>

\* A spy was given nothing of what it may still be given, nor anything later.
Heard ==
  /\ got \in [Readers -> Seq(1 .. MaxBlock)]
  /\ \A r \in Readers :
       /\ Far!Latest(r) <= LastHandled.blk /\ (Pending => Far!Latest(r) < LastHandled.blk)
       /\ \A k \in 1 .. Len(numbers) : k > last[r] + 1 => Far!Latest(r) < numbers[k]

\* b is the newest block of the ring
Newest(b) == newest >= 0 /\ numbers[newest + 1] = b

\* Between two blocks the ring has what the port has read.
PortInRing == served # 0 /\ taken >= 2 /\ ~Pending => Newest(LastHandled.blk)

\* the acknowledgement of the caller's block has been sent
Answered ==
  mode = 1 /\ \/ mpc = "recv" /\ msg # Restart /\ tsSocket # 0 /\ acks[tsSocket] # <<>>
              \/ mpc = "idle" /\ ret = "ok" /\ gotack

\* From then on the sink has nothing to take, and the ring keeps the block.
AnsweredStays ==
  Answered => queue = <<>> /\ ~Complete /\ ~Pending /\ (Newest(block) \/ StartedAgain)

PathInv ==
  /\ StreamInv /\ Ring!FeedInv
  /\ NobodyBefore /\ SizesAgree /\ Numbered /\ Heard /\ PortInRing /\ AnsweredStays

=============================================================================
