------------------------------- MODULE Stream -------------------------------
(***************************************************************************)
(* One stream from end to end: libxfer as in Transfer, and in place of its *)
(* external peer the port of a DataSink that serves it: the turns of the   *)
(* server loop (link_server.cpp; LinkServer has the loop, its descriptors  *)
(* and its other clients) and ts_data_transfer with the check of the block *)
(* sequence that DataSinkSeg compiles in (data_transfer.cpp).  The sink    *)
(* may be killed and started again, the network may reset a connection.    *)
(*                                                                         *)
(* A block size is 1, 2 or 3: smaller than, equal to or larger than the    *)
(* 65536 bytes with which DataSink starts, which is also what its buffer   *)
(* for the port holds.  A block larger than those 65536 bytes may be       *)
(* refused; what recv writes beyond them, into the buffer of the next      *)
(* port, is left out.                                                      *)
(***************************************************************************)
EXTENDS Transfer

CONSTANTS
  BlockSizes,   \* the sizes a sender may announce
  MaxResets     \* bound: initialisations on behalf of other ports

StartSize == 2

\* A connection that carries its restart message twice (overlap mode, see
\* WireFramed) is the third one at least: no program of the repository switches
\* overlap mode on, so here the bound on connections keeps it away.
ASSUME StreamAssumption ==
  /\ BlockSizes \subseteq {1, 2, 3} /\ MaxResets \in Nat
  /\ Overlaps \subseteq {FALSE} \/ MaxConn <= 2

VARIABLES
  BlockSize,      \* of the sender, announced by its restart message
  queue,          \* connections that wait in accept
  served,         \* the connection behind msg_socket, 0 if none
  taken,          \* messages read from it
  ackNeeded,      \* ACKneeded
  tapeBlockSize,  \* tape_block_size
  BlockSequence,
  resets,
  zeroed,         \* history: BlockSequence was zeroed since the last block
  handled         \* history: what ts_data_transfer was given

port == <<queue, served, taken, ackNeeded>>
area == <<tapeBlockSize, BlockSequence, resets, zeroed, handled>>
sink == <<BlockSize, port, area>>

StreamTypeOK ==
  /\ TypeOK
  /\ BlockSize \in BlockSizes /\ tapeBlockSize \in 1 .. 3
  /\ queue \in Seq(Conns) /\ served \in 0 .. MaxConn
  /\ taken \in Nat /\ ackNeeded \in BOOLEAN
  /\ BlockSequence \in Nat /\ resets \in 0 .. MaxResets /\ zeroed \in BOOLEAN
  /\ handled \in Seq([conn : Conns, blk : 1 .. MaxBlock, newest : 0 .. MaxBlock,
                      alarm : BOOLEAN, zeroed : BOOLEAN])

\* Overlap mode means nothing in mode 1, so only one value is taken there.
StreamInit ==
  /\ Init /\ (mode = 1 => ~overlap)
  /\ BlockSize \in BlockSizes
  /\ queue = <<>> /\ served = 0 /\ taken = 0 /\ ackNeeded = FALSE
  /\ tapeBlockSize = StartSize /\ BlockSequence = 0
  /\ resets = 0 /\ zeroed = FALSE /\ handled = <<>>

-----------------------------------------------------------------------------
(* The sender, whose connections queue at the listening socket              *)

ConnectToSink ==
  /\ Connect
  /\ queue' = IF mpc' = "restart" THEN Append(queue, tsSocket) ELSE queue
  /\ UNCHANGED <<BlockSize, served, taken, ackNeeded, area>>

SenderProgram == Call \/ Check \/ OpenSocket \/ SendRestart \/ NestedCheck \/ BuildRestart
          \/ SendDirect \/ Receive \/ Recheck \/ Header \/ TxWait \/ StartThread \/ SpuriousWakeup \/ Thread \/ Sigpipe

Sender == ConnectToSink \/ (SenderProgram /\ UNCHANGED sink)

-----------------------------------------------------------------------------
(* The server's turns on this port                                          *)

sender == <<cfg, shared, caller, thread, nsock, gotack>>

\* the sink's end of connection c is closed
Shut(c) == IF c # 0 /\ cstate[c] = "open" THEN [cstate EXCEPT ![c] = "dropped"] ELSE cstate

\* nothing read from a new client, no acknowledgement owed
NewClient == taken' = 0 /\ ackNeeded' = FALSE

\* Listen_Socket: what the previous client still had under way is lost.
Accept ==
  /\ queue # <<>>
  /\ cstate' = Shut(served)
  /\ served' = Head(queue) /\ queue' = Tail(queue)
  /\ NewClient
  /\ UNCHANGED <<BlockSize, area, sender, wire, acks, answered>>

\* Mutant: a message is taken for complete when the next one has begun.
CompleteLate == served # 0 /\ taken + 1 < Frames(served)

\* Read_Socket has TransferSize bytes.
Complete == served # 0 /\ taken < Frames(served)

Message == wire[served][taken * NParts + 1]

\* Mutant: the flag that suppresses acknowledgements is not looked at.
OwedAlways == ackNeeded' = TRUE

\* Mutant: only blocks are acknowledged, not the restart message.
OwedForBlocks == ackNeeded' = (ackNeeded \/ (mode = 1 /\ Message.blk # 0))

\* unless hdr_flags says otherwise
Owed == ackNeeded' = (ackNeeded \/ mode = 1)

\* Mutant: the expected number is that of the block at hand.
CheckSequenceBehind(s, expected) == BlockSequence' = s

\* Whichever branch is taken, the next number is expected next.
CheckSequence(s, expected) ==
  BlockSequence' = IF s = expected THEN expected + 1 ELSE s + 1

\* the block handled last, and the one stored by then
LastHandled == IF handled = <<>> THEN [conn |-> 0, blk |-> 0, newest |-> 0]
                                 ELSE handled[Len(handled)]

\* Only an announced size larger than the buffers leaves room, behind the header,
\* for a length that ts_data_transfer refuses.
MayRefuse == BlockSize > StartSize

\* ts_data_transfer: initialise_buffer_area when the sizes differ (the area
\* grows, it never shrinks; every BlockSequence is 0), the check, and the store
\* unless the length is refused, of which the answer says nothing.
Store(m) ==
  LET initialise == tapeBlockSize # BlockSize
      expected   == IF initialise THEN 0 ELSE BlockSequence
  IN  /\ tapeBlockSize' = IF tapeBlockSize < BlockSize THEN BlockSize ELSE tapeBlockSize
      /\ CheckSequence(m.seq, expected)
      /\ \E newest \in {m.blk} \cup (IF MayRefuse THEN {LastHandled.newest} ELSE {}) :
           handled' = Append(handled, [conn |-> served, blk |-> m.blk, newest |-> newest,
                                       alarm |-> m.seq # expected, zeroed |-> zeroed \/ initialise])
      /\ zeroed' = FALSE

\* A complete message: the restart message announces the size, any other is a
\* block for ts_data_transfer.
Take ==
  /\ Complete
  /\ taken' = taken + 1 /\ Owed
  /\ IF Message.blk = 0 THEN UNCHANGED <<tapeBlockSize, BlockSequence, zeroed, handled>>
     ELSE Store(Message)
  /\ UNCHANGED <<BlockSize, queue, served, resets, sender, network>>

\* Write_Socket.  The code is always 0: ts_data_transfer returns nothing else.
WriteAck ==
  /\ served # 0 /\ ackNeeded /\ cstate[served] = "open"
  /\ ackNeeded' = FALSE
  /\ answered' = [answered EXCEPT ![served] = taken]
  /\ acks' = [acks EXCEPT ![served] = Append(@, [frame |-> taken, code |-> 0])]
  /\ UNCHANGED <<BlockSize, queue, served, taken, area, sender, cstate, wire>>

\* The end of the stream or an error, in either direction.  What the client
\* sent before it may have been read or not.
Disconnect ==
  /\ served # 0 /\ cstate[served] # "open"
  /\ served' = 0
  /\ UNCHANGED <<BlockSize, queue, taken, ackNeeded, area, sender, network>>

Server == Accept \/ Take \/ WriteAck \/ Disconnect

\* A block of another port whose size is not that of its area: its
\* initialise_buffer_area zeroes the BlockSequence of all ports.
OtherPort ==
  /\ resets < MaxResets
  /\ resets' = resets + 1 /\ BlockSequence' = 0 /\ zeroed' = TRUE
  /\ UNCHANGED <<BlockSize, port, tapeBlockSize, handled, vars>>

\* The sink is killed, by SIGPIPE or otherwise, and started again.
SinkRestart ==
  /\ cstate' = [c \in Conns |-> IF cstate[c] = "open" THEN "dropped" ELSE cstate[c]]
  /\ queue' = <<>> /\ served' = 0 /\ NewClient
  /\ tapeBlockSize' = StartSize /\ BlockSequence' = 0 /\ zeroed' = TRUE
  /\ UNCHANGED <<BlockSize, resets, handled, sender, wire, acks, answered>>

NetworkReset == (\E c \in Conns : Drop({c})) /\ UNCHANGED sink

StreamNext == Sender \/ Server \/ OtherPort \/ SinkRestart \/ NetworkReset

streamVars == <<vars, sink>>

\* The threads of the sender are scheduled and the server loop runs.
StreamSpec ==
  /\ StreamInit /\ [][StreamNext]_streamVars
  /\ WF_streamVars(Caller /\ (ConnectToSink \/ UNCHANGED sink))
  /\ WF_streamVars(Thread /\ UNCHANGED sink)
  /\ WF_streamVars(Server)

-----------------------------------------------------------------------------
(* Properties                                                               *)

\* The DataSink is a peer as Transfer assumes: what is shown there of the
\* sending library holds against this server, its restarts and its replacing
\* of clients.
ImplementsTransfer == Spec

\* The abstract stream of blocks.
Blocks == INSTANCE BlockStream WITH
  large <- MayRefuse, given <- block,
  link <- LastHandled.conn, delivered <- LastHandled.blk, stored <- LastHandled.newest

\* From the application's call to store_buffer of another process, through two
\* threads, reconnections and restarts of the sink: no block is stored twice or
\* out of order, and none goes missing inside a connection, unless the sender
\* announced more than 65536 bytes and the block is longer than the buffers hold.
ImplementsStream == Blocks!Spec

\* A sequence error is reported only for the first block of a connection or
\* after an initialise_buffer_area, of any port, since the last block: the check never
\* blames the line for a block that followed its predecessor.
AlarmsExplained ==
  \A k \in 1 .. Len(handled) :
    handled[k].alarm => \/ handled[k].zeroed
                        \/ k = 1 \/ handled[k].conn # handled[k - 1].conn

\* block b was stored, or refused for a length that only a large size allows
Settled(b) ==
  \E k \in 1 .. Len(handled) :
    handled[k].blk = b /\ (handled[k].newest = b \/ MayRefuse)

\* In mode 1 a call that returned OK on an acknowledgement has its block in
\* the ring of the sink, however many connections, restarts and
\* acknowledgements came before; a block refused for its length is acknowledged
\* as well.
AckedIsStored ==
  mode = 1 /\ mpc = "idle" /\ ret = "ok" /\ gotack => Settled(block)

\* What was completely written to a connection is stored (or refused for its
\* length), unless that connection ends: the sink catches up.
Carries(c, b) == \E k \in 1 .. Frames(c) : wire[c][k * NParts].blk = b

Behind ==
  \E c \in Conns, b \in 1 .. MaxBlock : cstate[c] = "open" /\ Carries(c, b) /\ ~Settled(b)

SinkCatchesUp == Behind ~> ~Behind

\* The sink always has work for a sender it keeps waiting: while a block stands on an
\* open connection and ts_data_transfer was not given it, or a call waits for an
\* acknowledgement, there is a client to accept, a message to take or an
\* acknowledgement to send.
Waits == mpc = "recv" /\ IsOpen(tsSocket) /\ acks[tsSocket] = <<>>

SinkHasWork ==
  Behind \/ Waits => queue # <<>> \/ Complete \/ (served # 0 /\ ackNeeded /\ IsOpen(served))

(* What the comments of data_transfer.cpp say                                *)

\* DataSinkSeg/data_transfer.cpp:168 the block sequence number is checked: a
\* block whose predecessor is missing is reported.
LossIsReported ==
  \A k \in 1 .. Len(handled) :
    handled[k].blk # (IF k = 1 THEN 1 ELSE handled[k - 1].blk + 1) => handled[k].alarm

-----------------------------------------------------------------------------
(* The inductive invariant behind the stream, its alarms and its            *)
(* acknowledgements, when no call streams an empty block                    *)

\* a connection that reached the sink, and message f of what it carries
Known(c) == c \in Conns /\ cstate[c] \notin {"new", "fresh"}

MessageOf(c, f) == wire[c][f * NParts + 1]

\* Connections wait in the order they were opened and are served once: those that
\* wait are later than the one served, and than all of which a block was handled.
ServedInOrder ==
  /\ served # 0 => Known(served)
  /\ \A i \in 1 .. Len(queue) :
       /\ Known(queue[i]) /\ queue[i] > served /\ answered[queue[i]] = 0
       /\ \A j \in 1 .. Len(queue) : i < j => queue[i] < queue[j]
       /\ \A k \in 1 .. Len(handled) : handled[k].conn < queue[i]
  /\ \A k \in 1 .. Len(handled) :
       Known(handled[k].conn) /\ (served # 0 => handled[k].conn <= served)

\* The blocks read from the connection served are settled, the last one last, and
\* its successor is expected unless an area was initialised.
PortInStep ==
  served # 0 =>
    /\ taken <= Frames(served)
    /\ \A f \in 1 .. taken - 1 : Settled(MessageOf(served, f).blk)
    /\ LastHandled.conn = served <=> taken >= 2
    /\ taken >= 2 => /\ LastHandled.blk = MessageOf(served, taken - 1).blk
                     /\ zeroed \/ BlockSequence = taken - 1

\* What was handled last is on its connection.
LastOnWire ==
  handled # <<>> =>
    \E j \in 1 .. Len(wire[LastHandled.conn]) : wire[LastHandled.conn][j].blk = LastHandled.blk

\* number of the first block of the connection in use
Base == IF BeforeBlock THEN block - sequence ELSE block - sequence + 1

\* No call in between leaves the connection open without its block on it.
Consecutive ==
  /\ \A c \in Conns : \A j, k \in 1 .. Len(wire[c]) :
       wire[c][j].blk # 0 /\ wire[c][k].blk # 0 =>
         wire[c][j].blk - wire[c][j].seq = wire[c][k].blk - wire[c][k].seq
  /\ tsSocket # 0 /\ mpc # "killed" =>
       \A j \in 1 .. Len(wire[tsSocket]) :
         wire[tsSocket][j].blk # 0 => wire[tsSocket][j].blk - wire[tsSocket][j].seq = Base

\* In mode 1 the sink is one message behind at most, the caller waits for it, and
\* what was answered is settled.
Acknowledged ==
  /\ mode # 1 => ~ackNeeded
  /\ mode = 1 =>
       /\ mpc = "send" => tsSocket = fd
       /\ \A c \in Conns : answered[c] <= Frames(c) /\ (cstate[c] = "open" => Frames(c) <= answered[c] + 1)
       /\ \A c \in Conns : \A f \in 1 .. answered[c] - 1 : Settled(MessageOf(c, f).blk)
       /\ served # 0 /\ cstate[served] = "open" =>
            taken = answered[served] + IF ackNeeded THEN 1 ELSE 0
       /\ mpc = "recv" /\ msg # Restart /\ tsSocket # 0
            /\ (IsOpen(tsSocket) \/ acks[tsSocket] # <<>>) =>
            Frames(tsSocket) >= 2 /\ MessageOf(tsSocket, Frames(tsSocket) - 1).blk = block

\* A connection of the sender waits to be accepted or is served.
Attended == \A c \in Conns : IsOpen(c) => c = served \/ \E i \in 1 .. Len(queue) : queue[i] = c

\* A connection carries its restart message once.
Once == \A c \in Conns : restarts[c] <= 1

\* Overlap mode is off, as transfer.c leaves it.
NoOverlap == Overlaps \subseteq {FALSE}

StreamInv ==
  /\ TransferInv /\ Once /\ StreamTypeOK /\ ServedInOrder /\ PortInStep /\ LastOnWire /\ Consecutive
  /\ Acknowledged /\ AlarmsExplained /\ AckedIsStored

=============================================================================
