---------------------------- MODULE Stream_proofs ----------------------------
(***************************************************************************)
(* Proofs about Stream for every number of connections, calls, pieces and  *)
(* restarts of the sink: the sink is a peer as Transfer assumes, and the   *)
(* blocks it stores are those of BlockStream.  Then about DataPath, for    *)
(* every number of slots, words and spies besides: the ring has what was   *)
(* acknowledged, and a spy is given the blocks of Delivery.  Overlap mode  *)
(* is off throughout, as transfer.c leaves it (NoOverlap).                 *)
(***************************************************************************)
EXTENDS DataPath, Transfer_proofs

-----------------------------------------------------------------------------
(* What a step of the library leaves                                        *)

\* Types of the connections.
LEMMA WireTypes ==
  ASSUME TypeOK
  PROVE  /\ wire \in [Conns -> Seq(Chunks)] /\ MaxConn \in Nat /\ Conns = 1 .. MaxConn
         /\ \A c \in Conns : Len(wire[c]) \in Nat
         /\ \A c \in Conns : \A j \in 1 .. Len(wire[c]) :
              wire[c][j].blk \in 0 .. MaxBlock /\ wire[c][j].seq \in 0 .. MaxBlock
<1>1. wire \in [Conns -> Seq(Chunks)] /\ MaxConn \in Nat /\ Conns = 1 .. MaxConn
  BY TransferAssumption DEF TypeOK, Conns
<1>2. \A c \in Conns : Len(wire[c]) \in Nat
  BY <1>1, LenProperties
<1>3. ASSUME NEW c \in Conns, NEW j \in 1 .. Len(wire[c])
      PROVE  wire[c][j].blk \in 0 .. MaxBlock /\ wire[c][j].seq \in 0 .. MaxBlock
  <2>1. wire[c] \in Seq(Chunks)
    BY <1>1
  <2>2. wire[c][j] \in Chunks
    BY <2>1, ElementOfSeq
  <2> QED
    BY <2>2 DEF Chunks
<1> QED
  BY <1>1, <1>2, <1>3

\* A message before the last whole one is on the connection.
LEMMA MessagePlace ==
  ASSUME NEW n \in Nat, NEW f \in Nat, f < n \div NParts
  PROVE  f * NParts + 1 \in 1 .. n
<1>1. NParts \in Nat /\ NParts >= 1
  BY TransferAssumption
<1> DEFINE q == n \div NParts
           r == n % NParts
<1>2. q \in Nat /\ r \in 0 .. NParts - 1 /\ n = NParts * q + r
  BY <1>1, DivMod, DivisionOfNat
<1> HIDE DEF q, r
<1>3. f < q
  BY DEF q
<1>4. PICK d \in Nat : q = f + 1 + d
  <2>1. q - f - 1 \in Nat /\ q = f + 1 + (q - f - 1)
    BY <1>2, <1>3
  <2> QED
    BY <2>1
<1>5. NParts * q = NParts * f + NParts + NParts * d /\ NParts * f = f * NParts
  BY <1>1, <1>4
<1>6. f * NParts \in Nat /\ NParts * d \in Nat
  BY <1>1, <1>4
<1> QED
  BY <1>1, <1>2, <1>5, <1>6

\* The number of messages grows with what was sent.
LEMMA QuotientGrows ==
  ASSUME NEW n \in Nat, NEW m \in Nat, n <= m
  PROVE  n \div NParts <= m \div NParts
<1>1. NParts \in Nat /\ NParts >= 1
  BY TransferAssumption
<1>2. n \div NParts \in Nat /\ m \div NParts \in Nat
  BY <1>1, DivisionOfNat
<1>3. SUFFICES ASSUME m \div NParts < n \div NParts PROVE FALSE
  BY <1>2
<1> DEFINE q == m \div NParts
           r == m % NParts
<1>4. q * NParts + 1 \in 1 .. n
  BY <1>2, <1>3, MessagePlace
<1> DEFINE p == n \div NParts
           s == n % NParts
<1>5. /\ n = NParts * p + s /\ s \in 0 .. NParts - 1
      /\ m = NParts * q + r /\ r \in 0 .. NParts - 1
  BY <1>1, DivMod
<1>6. p \in Nat /\ q \in Nat /\ q < p
  BY <1>2, <1>3
<1> HIDE DEF p, q, r, s
<1>7. PICK d \in Nat : p = q + 1 + d
  <2>1. p - q - 1 \in Nat /\ p = q + 1 + (p - q - 1)
    BY <1>6
  <2> QED
    BY <2>1
<1>8. NParts * p = NParts * q + NParts + NParts * d /\ NParts * d \in Nat /\ NParts * q \in Nat
  BY <1>1, <1>6, <1>7
<1> QED
  BY <1>1, <1>5, <1>8

\* Connections only grow.
LEMMA WireGrows ==
  ASSUME TransferInv, [Next]_vars, NEW c \in Conns
  PROVE  /\ Len(wire'[c]) \in Nat /\ Len(wire[c]) <= Len(wire'[c])
         /\ \A j \in 1 .. Len(wire[c]) : wire'[c][j] = wire[c][j]
<1>1. wire[c] \in Seq(Chunks) /\ Len(wire[c]) \in Nat
  BY WireTypes DEF TransferInv
<1>2. CASE wire'[c] = wire[c]
  BY <1>1, <1>2
<1>3. CASE Next /\ wire'[c] # wire[c]
  <2>1. \/ SendDirect /\ Taken(fd, msg, part + 1)
        \/ ThreadSend /\ Taken(tSocket, buffer[tBuffer], tPart + 1)
    BY <1>3, WhoWrites
  <2>2. PICK x : x \in Chunks /\ wire'[c] = Append(wire[c], x)
    <3>1. CASE SendDirect /\ Taken(fd, msg, part + 1)
      <4>1. fd = c /\ wire'[c] = Append(wire[c], Chunk(msg, part + 1)) /\ part \in 0 .. NParts - 1
        BY <1>3, <3>1, DirectPiece
      <4>2. msg \in Messages /\ part + 1 \in 1 .. NParts
        BY <4>1, TransferAssumption DEF TransferInv, TypeOK
      <4>3. Chunk(msg, part + 1) \in Chunks
        BY <4>2 DEF Chunk, Chunks, Messages
      <4> QED
        BY <4>1, <4>3
    <3>2. CASE ThreadSend /\ Taken(tSocket, buffer[tBuffer], tPart + 1)
      <4>1. /\ arg.fd = c /\ wire'[c] = Append(wire[c], Chunk(buffer[arg.buf], tPart + 1))
            /\ tPart \in 0 .. NParts - 1
        BY <1>3, <3>2, ThreadPiece
      <4>2. buffer[arg.buf] \in Messages /\ tPart + 1 \in 1 .. NParts
        BY <4>1, TransferAssumption DEF TransferInv, TypeOK
      <4>3. Chunk(buffer[arg.buf], tPart + 1) \in Chunks
        BY <4>2 DEF Chunk, Chunks, Messages
      <4> QED
        BY <4>1, <4>3
    <3> QED
      BY <2>1, <3>1, <3>2
  <2>3. /\ Len(wire'[c]) = Len(wire[c]) + 1
        /\ \A j \in 1 .. Len(wire[c]) : wire'[c][j] = wire[c][j]
    BY <1>1, <2>2, AppendProperties
  <2> QED
    BY <1>1, <2>3
<1>4. CASE UNCHANGED vars
  BY <1>1, <1>4 DEF vars, network
<1> QED
  BY <1>2, <1>3, <1>4

\* Messages that were whole stay so and keep what they say.
LEMMA MessagesStay ==
  ASSUME TransferInv, [Next]_vars, NEW c \in Conns
  PROVE  /\ Frames(c) \in Nat /\ Frames(c)' \in Nat /\ Frames(c) <= Frames(c)'
         /\ \A f \in 0 .. Frames(c) - 1 :
              /\ f * NParts + 1 \in 1 .. Len(wire[c])
              /\ MessageOf(c, f)' = MessageOf(c, f)
<1>1. /\ Len(wire[c]) \in Nat /\ Len(wire'[c]) \in Nat /\ Len(wire[c]) <= Len(wire'[c])
      /\ \A j \in 1 .. Len(wire[c]) : wire'[c][j] = wire[c][j]
  BY WireTypes, WireGrows DEF TransferInv
<1>2. NParts \in Nat /\ NParts >= 1
  BY TransferAssumption
<1>3. Frames(c) \in Nat /\ Frames(c)' \in Nat /\ Frames(c) <= Frames(c)'
  BY <1>1, <1>2, DivisionOfNat, QuotientGrows DEF Frames
<1>4. ASSUME NEW f \in 0 .. Frames(c) - 1
      PROVE  f * NParts + 1 \in 1 .. Len(wire[c]) /\ MessageOf(c, f)' = MessageOf(c, f)
  <2>1. f \in Nat /\ f < Len(wire[c]) \div NParts
    BY <1>3 DEF Frames
  <2>2. f * NParts + 1 \in 1 .. Len(wire[c])
    BY <1>1, <2>1, MessagePlace
  <2> QED
    BY <1>1, <2>2 DEF MessageOf
<1> QED
  BY <1>3, <1>4

\* A connection that reached the sink has always reached it.
LEMMA KnownStays ==
  ASSUME TransferInv, [Next]_vars, NEW c, Known(c)
  PROVE  Known(c)'
<1> USE DEF Known, TransferInv
<1>1. c \in Conns /\ cstate[c] \notin {"new", "fresh"} /\ cstate \in [Conns -> {"new", "fresh", "open", "dropped", "closed"}]
  BY DEF TypeOK
<1>2. CASE OpenSocket
  <2>1. nsock \in Nat /\ c \in Nat /\ Conns = 1 .. MaxConn /\ MaxConn \in Nat
    BY <1>1, TransferAssumption DEF TypeOK, Conns
  <2>2. c # nsock + 1
    BY <1>1, <2>1 DEF Sockets
  <2> QED
    BY <1>1, <1>2, <2>2 DEF OpenSocket
<1>3. CASE Connect \/ SendDirect \/ Receive
  BY <1>1, <1>3 DEF Connect, SendDirect, Receive, CloseSocket, network
<1>4. CASE ThreadClose
  BY <1>1, <1>4 DEF ThreadClose
<1>5. ASSUME NEW C \in SUBSET Conns, Drop(C)
      PROVE  Known(c)'
  BY <1>1, <1>5 DEF Drop
<1>6. CASE cstate' = cstate
  BY <1>1, <1>6
<1>7. Next => \/ OpenSocket \/ Connect \/ SendDirect \/ Receive \/ ThreadClose
              \/ (\E C \in SUBSET Conns : Drop(C)) \/ cstate' = cstate
  BY DEF Next, Caller, Thread, Peer, Call, Check, SendRestart, NestedCheck, BuildRestart, Recheck, Header,
     TxWait, SpuriousWakeup, StartThread, ThreadTest, ThreadArgs, ThreadSend, ThreadFinish, Answer,
     Sigpipe, network
<1> QED
  BY <1>2, <1>3, <1>4, <1>5, <1>6, <1>7 DEF vars, network

-----------------------------------------------------------------------------
(* The sink as a peer of the library                                        *)

\* The variables of Transfer, sorted as Stream has them
LEMMA VarsOf == sender' = sender /\ network' = network <=> vars' = vars
  BY DEF sender, network, vars

\* A turn of the server, its restarts and the network do what a peer may do.
LEMMA ServerIsPeer ==
  ASSUME StreamInv, Server \/ OtherPort \/ SinkRestart \/ NetworkReset
  PROVE  [Next]_vars
<1>1. /\ TypeOK /\ served \in 0 .. MaxConn /\ MaxConn \in Nat /\ Conns = 1 .. MaxConn
      /\ cstate \in [Conns -> {"new", "fresh", "open", "dropped", "closed"}]
  BY TransferAssumption DEF StreamInv, StreamTypeOK, TypeOK, Conns
<1>2. ASSUME NEW C \in SUBSET Conns, Drop(C)
      PROVE  [Next]_vars
  BY <1>2 DEF Next, Peer
<1>3. CASE Accept
  <2>1. UNCHANGED <<sender, wire, acks, answered>> /\ cstate' = Shut(served)
    BY <1>3 DEF Accept
  <2>2. CASE served # 0 /\ cstate[served] = "open"
    <3>0. served \in Conns /\ cstate' = [cstate EXCEPT ![served] = "dropped"]
      BY <1>1, <2>1, <2>2 DEF Shut
    <3>1. {served} \in SUBSET Conns /\ cstate' = [c \in Conns |-> IF c \in {served} THEN "dropped" ELSE cstate[c]]
      BY <1>1, <3>0
    <3>2. Drop({served})
      BY <2>1, <2>2, <3>1 DEF Drop, sender
    <3> QED
      BY <1>2, <3>1, <3>2
  <2>3. CASE ~(served # 0 /\ cstate[served] = "open")
    BY <2>1, <2>3 DEF Shut, sender, vars, network
  <2> QED
    BY <2>2, <2>3
<1>4. CASE Take
  BY <1>4, VarsOf DEF Take
<1>5. CASE WriteAck
  <2>1. /\ served \in Conns /\ cstate[served] = "open" /\ ackNeeded
        /\ answered' = [answered EXCEPT ![served] = taken]
        /\ acks' = [acks EXCEPT ![served] = Append(@, [frame |-> taken, code |-> 0])]
        /\ UNCHANGED <<sender, cstate, wire>>
    BY <1>1, <1>5 DEF WriteAck
  <2>2. mode = 1
    BY <2>1 DEF StreamInv, Acknowledged
  <2>3. taken = answered[served] + 1 /\ taken <= Frames(served) /\ Frames(served) <= answered[served] + 1
    <3>1. served # 0
      BY <1>5 DEF WriteAck
    <3> QED
      BY <2>1, <2>2, <3>1 DEF StreamInv, Acknowledged, PortInStep
  <2>4. answered[served] \in Nat /\ taken \in Nat /\ Frames(served) \in Nat
    BY <1>1, <2>1, FramesTyped DEF StreamInv, StreamTypeOK, TypeOK
  <2>5. taken = Frames(served) /\ answered[served] < Frames(served)
    BY <2>3, <2>4
  <2>6. Answer(served)
    BY <2>1, <2>2, <2>5 DEF Answer, sender
  <2> QED
    BY <2>1, <2>6 DEF Next, Peer
<1>6. CASE Disconnect
  BY <1>6, VarsOf DEF Disconnect
<1>7. CASE OtherPort
  BY <1>7 DEF OtherPort
<1>8. CASE SinkRestart
  <2> DEFINE C == {c \in Conns : cstate[c] = "open"}
  <2>1. /\ UNCHANGED <<sender, wire, acks, answered>>
        /\ cstate' = [c \in Conns |-> IF c \in C THEN "dropped" ELSE cstate[c]]
    BY <1>8 DEF SinkRestart
  <2>2. CASE C = {}
    <3>1. cstate' = cstate
      BY <1>1, <2>1, <2>2
    <3> QED
      BY <2>1, <3>1 DEF sender, vars, network
  <2>3. CASE C # {}
    <3>1. C \in SUBSET Conns /\ \A c \in C : cstate[c] = "open"
      OBVIOUS
    <3> HIDE DEF C
    <3>2. Drop(C)
      BY <2>1, <2>3, <3>1 DEF Drop, sender
    <3> QED
      BY <1>2, <3>1, <3>2
  <2> QED
    BY <2>2, <2>3
<1>9. CASE NetworkReset
  BY <1>2, <1>9 DEF NetworkReset
<1> QED
  BY <1>3, <1>4, <1>5, <1>6, <1>7, <1>8, <1>9 DEF Server

\* A step of the stream is one of the library and its peer, or none.
LEMMA StepIsTransfer ==
  ASSUME StreamInv, [StreamNext]_streamVars
  PROVE  [Next]_vars
<1>1. CASE ConnectToSink
  BY <1>1 DEF ConnectToSink, Next, Caller
<1>2. CASE SenderProgram
  BY <1>2 DEF SenderProgram, Next, Caller
<1>3. CASE UNCHANGED streamVars
  BY <1>3 DEF streamVars
<1> QED
  BY <1>1, <1>2, <1>3, ServerIsPeer DEF StreamNext, Sender

\* The library and its peer, and what the sink handled, in every step
LEMMA TransferKept ==
  ASSUME StreamInv, NoEmptyStream, [StreamNext]_streamVars
  PROVE  TransferInv'
  BY StepIsTransfer, TransferStep DEF StreamInv

\* The connection at the end of Connect is new to the sink.
LEMMA ConnectNew ==
  ASSUME StreamInv, ConnectToSink
  PROVE  \/ queue' = queue
         \/ /\ tsSocket \in Conns /\ tsSocket = nsock /\ cstate[tsSocket] = "fresh" /\ cstate'[tsSocket] = "open"
            /\ queue' = Append(queue, tsSocket)
<1>1. CASE mpc' # "restart"
  BY <1>1 DEF ConnectToSink
<1>2. CASE mpc' = "restart"
  <2>1. /\ tsSocket # 0 /\ cstate[tsSocket] = "fresh"
        /\ cstate' = [cstate EXCEPT ![tsSocket] = "open"] /\ queue' = Append(queue, tsSocket)
    BY <1>2 DEF ConnectToSink, Connect, RestartReturns
  <2>2. tsSocket \in Conns /\ tsSocket = nsock
    BY <2>1, TransferAssumption DEF StreamInv, TransferInv, TypeOK, Sockets, Conns
  <2>3. cstate'[tsSocket] = "open"
    BY <2>1, <2>2 DEF StreamInv, TransferInv, TypeOK
  <2> QED
    BY <2>1, <2>2, <2>3
<1> QED
  BY <1>1, <1>2

-----------------------------------------------------------------------------
(* Types                                                                    *)

\* What is known of a block handled
Entries == [conn : Conns, blk : 1 .. MaxBlock, newest : 0 .. MaxBlock, alarm : BOOLEAN,
            zeroed : BOOLEAN]

\* A connection that carries anything carries one restart message.
LEMMA OnceOnWire ==
  ASSUME StreamInv, NEW c \in Conns, NEW k \in 1 .. Len(wire[c])
  PROVE  restarts[c] = 1
<1>1. TypeOK /\ WireFramed /\ Once
  BY DEF StreamInv, TransferInv
<1>2. restarts[c] \in 1 .. MaxRestarts /\ MaxRestarts \in Nat
  BY <1>1 DEF WireFramed, MaxRestarts
<1> QED
  BY <1>1, <1>2 DEF Once

\* The message Take reads is whole; it is the restart message when it is the first.
LEMMA MessageTaken ==
  ASSUME StreamInv, Complete
  PROVE  /\ served \in Conns /\ taken \in Nat /\ taken < Frames(served) /\ Message = MessageOf(served, taken)
         /\ taken * NParts + 1 \in 1 .. Len(wire[served])
         /\ Message.blk \in 0 .. MaxBlock /\ Message.seq \in 0 .. MaxBlock
         /\ Message.blk = 0 <=> taken = 0
         /\ taken > 0 => Message.seq = taken - 1
<1>1. /\ served \in Conns /\ taken \in Nat /\ taken < Frames(served)
      /\ Message = MessageOf(served, taken)
  BY TransferAssumption DEF StreamInv, StreamTypeOK, Complete, Message, MessageOf, Conns
<1>2. Len(wire[served]) \in Nat /\ Frames(served) \in Nat /\ TypeOK /\ WireFramed
  BY <1>1, WireTypes, FramesTyped DEF StreamInv, TransferInv
<1>3. taken * NParts + 1 \in 1 .. Len(wire[served])
  BY <1>1, <1>2, MessagePlace DEF Frames
<1>4. Message.blk \in 0 .. MaxBlock /\ Message.seq \in 0 .. MaxBlock
  BY <1>1, <1>2, <1>3, WireTypes DEF MessageOf
<1>5. PICK k \in 1 .. Len(wire[served]) : k = taken * NParts + 1
  BY <1>3
<1>6. (k - 1) \div NParts = taken
  <2>1. NParts \in Nat /\ 0 \in 0 .. NParts - 1 /\ k - 1 = taken * NParts + 0
    BY <1>1, <1>5, TransferAssumption
  <2> QED
    BY <1>1, <2>1, MidwayQuotient
<1>7. /\ (taken = 0) <=> (wire[served][taken * NParts + 1].blk = 0)
      /\ taken > 0 => wire[served][taken * NParts + 1].seq = taken - 1
  <2>1. restarts[served] = 1
    BY <1>1, <1>5, OnceOnWire
  <2>2. /\ (taken < restarts[served]) <=> (wire[served][taken * NParts + 1].blk = 0)
        /\ taken >= restarts[served] => wire[served][taken * NParts + 1].seq = taken - restarts[served]
    BY <1>1, <1>2, <1>6 DEF WireFramed
  <2> QED
    BY <1>1, <2>1, <2>2
<1> QED
  BY <1>1, <1>3, <1>4, <1>7 DEF MessageOf

\* The number of the block stored last
LEMMA NewestTyped ==
  ASSUME StreamInv
  PROVE  LastHandled.newest \in 0 .. MaxBlock
<1>1. handled \in Seq(Entries) /\ MaxBlock \in Nat
  BY TransferAssumption DEF StreamInv, StreamTypeOK, Entries
<1>2. CASE handled # <<>>
  <2>1. Len(handled) \in 1 .. Len(handled)
    BY <1>1, <1>2, LenProperties, EmptySeq
  <2>2. LastHandled \in Entries
    BY <1>1, <1>2, <2>1, ElementOfSeq DEF LastHandled
  <2> QED
    BY <2>2 DEF Entries
<1>3. CASE handled = <<>>
  BY <1>1, <1>3 DEF LastHandled
<1> QED
  BY <1>2, <1>3

\* Every step keeps the types.
LEMMA StreamTypeStep ==
  ASSUME StreamInv, NoEmptyStream, [StreamNext]_streamVars
  PROVE  StreamTypeOK'
<1>1. TypeOK'
  BY TransferKept DEF TransferInv
<1>2. /\ BlockSize \in BlockSizes /\ tapeBlockSize \in 1 .. 3
      /\ queue \in Seq(Conns) /\ served \in 0 .. MaxConn
      /\ taken \in Nat /\ ackNeeded \in BOOLEAN
      /\ BlockSequence \in Nat /\ resets \in 0 .. MaxResets /\ zeroed \in BOOLEAN
      /\ handled \in Seq(Entries)
  BY DEF StreamInv, StreamTypeOK, Entries
<1>3. BlockSizes \subseteq {1, 2, 3} /\ MaxResets \in Nat /\ MaxConn \in Nat /\ Conns = 1 .. MaxConn
  BY StreamAssumption, TransferAssumption DEF Conns
<1>4. CASE ConnectToSink
  <2>1. queue' \in Seq(Conns)
    BY <1>2, <1>4, ConnectNew, AppendProperties
  <2> QED
    BY <1>1, <1>2, <1>4, <2>1 DEF ConnectToSink, area, StreamTypeOK, Entries
<1>5. CASE UNCHANGED sink
  BY <1>1, <1>2, <1>5 DEF sink, port, area, StreamTypeOK, Entries
<1>6. CASE Accept
  <2>1. served' \in 0 .. MaxConn /\ queue' \in Seq(Conns)
    BY <1>2, <1>3, <1>6, HeadTailProperties DEF Accept
  <2> QED
    BY <1>1, <1>2, <1>6, <2>1 DEF Accept, NewClient, area, StreamTypeOK, Entries
<1>7. CASE Take
  <2>1. /\ taken' \in Nat /\ ackNeeded' \in BOOLEAN
        /\ UNCHANGED <<BlockSize, queue, served, resets>>
    BY <1>2, <1>7 DEF Take, Owed
  <2>2. CASE Message.blk = 0
    BY <1>1, <1>2, <1>7, <2>1, <2>2 DEF Take, StreamTypeOK, Entries
  <2>3. CASE Message.blk # 0
    <3>1. /\ Message.blk \in 1 .. MaxBlock /\ Message.seq \in Nat /\ served \in Conns
      <4>1. Complete
        BY <1>7 DEF Take
      <4>2. Message.blk \in 0 .. MaxBlock /\ Message.seq \in 0 .. MaxBlock /\ served \in Conns
        BY <4>1, MessageTaken
      <4>3. MaxBlock \in Nat
        BY TransferAssumption
      <4> QED
        BY <2>3, <4>2, <4>3
    <3>2. Store(Message)
      BY <1>7, <2>3 DEF Take
    <3>3. tapeBlockSize' \in 1 .. 3 /\ zeroed' \in BOOLEAN
      <4>1. tapeBlockSize' \in {tapeBlockSize, BlockSize} /\ zeroed' = FALSE
        BY <3>2 DEF Store
      <4>2. BlockSize \in 1 .. 3
        BY <1>2, <1>3
      <4> QED
        BY <1>2, <4>1, <4>2
    <3>4. BlockSequence' \in Nat
      BY <1>2, <3>1, <3>2 DEF Store, CheckSequence
    <3>5. PICK x \in Entries : handled' = Append(handled, x)
      <4>0. PICK num \in {Message.blk, LastHandled.newest} :
              handled' = Append(handled, [conn |-> served, blk |-> Message.blk, newest |-> num,
                alarm |-> Message.seq # (IF tapeBlockSize # BlockSize THEN 0 ELSE BlockSequence),
                zeroed |-> zeroed \/ tapeBlockSize # BlockSize])
        BY <3>2 DEF Store
      <4> DEFINE initialise == tapeBlockSize # BlockSize
                 x == [conn |-> served, blk |-> Message.blk, newest |-> num,
                       alarm |-> Message.seq # (IF initialise THEN 0 ELSE BlockSequence),
                       zeroed |-> zeroed \/ initialise]
      <4>1. x \in Entries
        <5>1. num \in 0 .. MaxBlock
          BY <3>1, NewestTyped, TransferAssumption
        <5> QED
          BY <1>2, <3>1, <5>1 DEF Entries
      <4>2. handled' = Append(handled, x)
        BY <4>0
      <4> QED
        BY <4>1, <4>2
    <3>6. handled' \in Seq(Entries)
      BY <1>2, <3>5, AppendProperties
    <3> QED
      BY <1>1, <1>2, <2>1, <3>3, <3>4, <3>6 DEF StreamTypeOK, Entries
  <2> QED
    BY <2>2, <2>3
<1>8. CASE WriteAck \/ Disconnect
  <2>1. /\ served' \in {0, served} /\ ackNeeded' \in {FALSE, ackNeeded}
        /\ UNCHANGED <<BlockSize, queue, taken, area>>
    BY <1>8 DEF WriteAck, Disconnect
  <2>2. served' \in 0 .. MaxConn
    BY <1>2, <1>3, <2>1
  <2>3. ackNeeded' \in BOOLEAN
    BY <1>2, <2>1
  <2> QED
    BY <1>1, <1>2, <2>1, <2>2, <2>3 DEF area, StreamTypeOK, Entries
<1>9. CASE OtherPort
  BY <1>1, <1>2, <1>3, <1>9 DEF OtherPort, port, StreamTypeOK, Entries
<1>10. CASE SinkRestart
  <2>1. queue' \in Seq(Conns) /\ served' \in 0 .. MaxConn /\ tapeBlockSize' \in 1 .. 3
    BY <1>3, <1>10, EmptySeq DEF SinkRestart, StartSize
  <2> QED
    BY <1>1, <1>2, <1>10, <2>1 DEF SinkRestart, NewClient, StreamTypeOK, Entries
<1> QED
  BY <1>4, <1>5, <1>6, <1>7, <1>8, <1>9, <1>10 DEF StreamNext, Sender, Server, NetworkReset, streamVars

-----------------------------------------------------------------------------
(* The order of the connections                                             *)

\* What a turn of Read_Socket hands to ts_data_transfer
LEMMA TakeHandles ==
  ASSUME StreamInv, Take, Message.blk # 0
  PROVE  /\ taken > 0 /\ taken' = taken + 1 /\ served' = served
         /\ BlockSequence' = taken /\ zeroed' = FALSE
         /\ \E x \in Entries :
              /\ handled' = Append(handled, x)
              /\ x.conn = served /\ x.blk = Message.blk
              /\ x.alarm => x.zeroed \/ taken - 1 # BlockSequence
              /\ ~x.zeroed => ~zeroed
              /\ x.newest = x.blk \/ (MayRefuse /\ x.newest = LastHandled.newest)
<1>1. /\ served \in Conns /\ taken \in Nat /\ taken > 0 /\ Message.seq = taken - 1
      /\ Message.blk \in 1 .. MaxBlock
  <2>1. Complete
    BY DEF Take
  <2>2. /\ served \in Conns /\ taken \in Nat /\ taken # 0 /\ (taken > 0 => Message.seq = taken - 1)
        /\ Message.blk \in 0 .. MaxBlock /\ MaxBlock \in Nat
    BY <2>1, MessageTaken, TransferAssumption
  <2> QED
    BY <2>2
<1>2. Store(Message) /\ taken' = taken + 1 /\ served' = served
  BY DEF Take
<1>3. BlockSequence \in Nat /\ zeroed \in BOOLEAN
  BY DEF StreamInv, StreamTypeOK
<1>4. BlockSequence' = taken /\ zeroed' = FALSE
  <2>1. zeroed' = FALSE
    BY <1>2 DEF Store
  <2>2. PICK e : CheckSequence(Message.seq, e)
    BY <1>2 DEF Store
  <2>3. BlockSequence' = Message.seq + 1
    BY <2>2 DEF CheckSequence
  <2> QED
    BY <1>1, <2>1, <2>3
<1>n. PICK num \in {Message.blk, LastHandled.newest} :
        /\ handled' = Append(handled, [conn |-> served, blk |-> Message.blk, newest |-> num,
             alarm |-> Message.seq # (IF tapeBlockSize # BlockSize THEN 0 ELSE BlockSequence),
             zeroed |-> zeroed \/ tapeBlockSize # BlockSize])
        /\ num = Message.blk \/ (MayRefuse /\ num = LastHandled.newest)
  BY <1>2 DEF Store
<1> DEFINE initialise == tapeBlockSize # BlockSize
           x == [conn |-> served, blk |-> Message.blk, newest |-> num,
                 alarm |-> Message.seq # (IF initialise THEN 0 ELSE BlockSequence),
                 zeroed |-> zeroed \/ initialise]
<1>5. x \in Entries
  <2>1. num \in 0 .. MaxBlock
    BY <1>1, <1>n, NewestTyped, TransferAssumption
  <2> QED
    BY <1>1, <1>3, <2>1 DEF Entries
<1>6. handled' = Append(handled, x)
  BY <1>n
<1>7. x.conn = served /\ x.blk = Message.blk
  OBVIOUS
<1>8. x.alarm => x.zeroed \/ taken - 1 # BlockSequence
  BY <1>1
<1>9. ~x.zeroed => ~zeroed
  OBVIOUS
<1>10. x.newest = x.blk \/ (MayRefuse /\ x.newest = LastHandled.newest)
  BY <1>n
<1> QED
  BY <1>1, <1>2, <1>4, <1>5, <1>6, <1>7, <1>8, <1>9, <1>10

\* Only a turn of Read_Socket calls ts_data_transfer, and for nothing but blocks.
LEMMA WhoHandles ==
  ASSUME [StreamNext]_streamVars
  PROVE  \/ handled' = handled
         \/ Take /\ Message.blk # 0
  BY DEF StreamNext, Sender, ConnectToSink, Server, Accept, Take, WriteAck, Disconnect, OtherPort, SinkRestart,
         NetworkReset, streamVars, sink, area

\* Only Write_Socket answers.
LEMMA WhoAnswers ==
  ASSUME [StreamNext]_streamVars
  PROVE  answered' = answered \/ WriteAck
<1>1. ASSUME Connect \/ SenderProgram \/ UNCHANGED vars
      PROVE  answered' = answered
  BY <1>1 DEF Connect, SenderProgram, Call, Check, OpenSocket, SendRestart, NestedCheck, BuildRestart,
     SendDirect, Receive, Recheck, Header, TxWait, StartThread, SpuriousWakeup, Thread, ThreadTest,
     ThreadArgs, ThreadSend, ThreadClose, ThreadFinish, Sigpipe, network, vars
<1> QED
  BY <1>1 DEF StreamNext, Sender, ConnectToSink, Server, Accept, Take, Disconnect, OtherPort, SinkRestart,
     NetworkReset, Drop, streamVars, network

\* Every step keeps the order of the connections.
LEMMA ServedInOrderStep ==
  ASSUME StreamInv, NoEmptyStream, [StreamNext]_streamVars
  PROVE  ServedInOrder'
<1> DEFINE Knows(c) == c \in Conns /\ cstate'[c] \notin {"new", "fresh"}
<1>1. /\ queue \in Seq(Conns) /\ served \in 0 .. MaxConn /\ handled \in Seq(Entries)
      /\ Conns = 1 .. MaxConn /\ MaxConn \in Nat /\ Len(queue) \in Nat /\ Len(handled) \in Nat
      /\ answered \in [Conns -> Nat]
  BY TransferAssumption, LenProperties DEF StreamInv, StreamTypeOK, TypeOK, Entries, Conns
<1>2. \A c : Known(c) => Knows(c)
  <2>1. ASSUME NEW c, Known(c) PROVE Knows(c)
    <3>1. Known(c)'
      BY <2>1, StepIsTransfer, KnownStays DEF StreamInv
    <3> QED
      BY <3>1 DEF Known
  <2> QED
    BY <2>1
<1>3. /\ served # 0 => Known(served)
      /\ \A i \in 1 .. Len(queue) :
           /\ Known(queue[i]) /\ queue[i] > served /\ answered[queue[i]] = 0
           /\ \A j \in 1 .. Len(queue) : i < j => queue[i] < queue[j]
           /\ \A k \in 1 .. Len(handled) : handled[k].conn < queue[i]
      /\ \A k \in 1 .. Len(handled) :
           Known(handled[k].conn) /\ (served # 0 => handled[k].conn <= served)
  BY DEF StreamInv, ServedInOrder
<1>4. \A i \in 1 .. Len(queue) : queue[i] \in Conns /\ queue[i] \in Nat /\ Knows(queue[i])
  BY SMTT(15), <1>1, <1>2, <1>3, ElementOfSeq
<1>5. \A k \in 1 .. Len(handled) : handled[k].conn \in Conns /\ handled[k].conn \in Nat /\ Knows(handled[k].conn)
  <2>1. ASSUME NEW k \in 1 .. Len(handled)
        PROVE  handled[k].conn \in Conns /\ handled[k].conn \in Nat /\ Knows(handled[k].conn)
    <3>1. Knows(handled[k].conn)
      BY <1>2, <1>3
    <3>2. handled[k].conn \in Conns
      BY <3>1
    <3>3. handled[k].conn \in Nat
      BY <1>1, <3>2
    <3> QED
      BY <3>1, <3>2, <3>3
  <2> QED
    BY <2>1
<1>6. served # 0 => Knows(served)
  BY <1>2, <1>3
<1>7. ASSUME served' # 0 => Knows(served'),
             \A i \in 1 .. Len(queue') :
               /\ Knows(queue'[i]) /\ queue'[i] > served' /\ answered'[queue'[i]] = 0
               /\ \A j \in 1 .. Len(queue') : i < j => queue'[i] < queue'[j]
               /\ \A k \in 1 .. Len(handled') : handled'[k].conn < queue'[i],
             \A k \in 1 .. Len(handled') :
               Knows(handled'[k].conn) /\ (served' # 0 => handled'[k].conn <= served')
      PROVE  ServedInOrder'
  BY <1>7 DEF ServedInOrder, Known
<1> HIDE DEF Knows
<1>8. CASE UNCHANGED <<queue, served, handled, answered>>
  BY <1>3, <1>4, <1>5, <1>6, <1>7, <1>8
<1>9. CASE ConnectToSink
  <2>1. UNCHANGED <<served, handled, answered>>
    BY <1>9 DEF ConnectToSink, area, Connect
  <2>2. CASE queue' = queue
    BY <1>8, <2>1, <2>2
  <2>3. CASE queue' # queue
    <3>1. PICK c \in Conns : /\ c = nsock /\ cstate[c] = "fresh" /\ cstate'[c] = "open"
                             /\ queue' = Append(queue, c)
      BY <1>9, <2>3, ConnectNew
    <3>2. answered[c] = 0 /\ (\A d \in Conns : d > nsock => cstate[d] = "new") /\ nsock \in Nat /\ c \in Nat
      BY <1>1, <3>1 DEF StreamInv, TransferInv, Sockets, TypeOK
    <3>3. \A d : Known(d) => d < c
      <4>1. ASSUME NEW d, Known(d) PROVE d < c
        <5>1. d \in Conns /\ cstate[d] # "fresh" /\ cstate[d] # "new" /\ d \in Nat
          BY <1>1, <4>1 DEF Known
        <5> QED
          BY <3>1, <3>2, <5>1
      <4> QED
        BY <4>1
    <3>4. Knows(c)
      BY <3>1 DEF Knows
    <3>5. /\ Len(queue') = Len(queue) + 1 /\ queue'[Len(queue) + 1] = c
          /\ \A i \in 1 .. Len(queue) : queue'[i] = queue[i]
      BY <1>1, <3>1, AppendProperties
    <3>6. served < c /\ \A k \in 1 .. Len(handled) : handled[k].conn < c
      <4>1. served < c
        BY <1>3, <3>1, <3>3, <1>1
      <4> QED
        BY <1>3, <3>3, <4>1
    <3>7. \A i \in 1 .. Len(queue) : queue[i] < c
      BY <1>3, <3>3
    <3>8. ASSUME NEW i \in 1 .. Len(queue')
          PROVE  /\ Knows(queue'[i]) /\ queue'[i] > served' /\ answered'[queue'[i]] = 0
                 /\ \A j \in 1 .. Len(queue') : i < j => queue'[i] < queue'[j]
                 /\ \A k \in 1 .. Len(handled') : handled'[k].conn < queue'[i]
      <4>1. CASE i = Len(queue) + 1
        <5>1. \A j \in 1 .. Len(queue') : ~(i < j)
          BY <1>1, <3>5, <4>1
        <5> QED
          BY <2>1, <3>1, <3>2, <3>4, <3>5, <3>6, <4>1, <5>1
      <4>2. CASE i \in 1 .. Len(queue)
        <5>1. queue'[i] = queue[i]
          BY <3>5, <4>2
        <5>2. ASSUME NEW j \in 1 .. Len(queue'), i < j PROVE queue'[i] < queue'[j]
          <6>1. CASE j \in 1 .. Len(queue)
            BY <1>3, <3>5, <4>2, <5>2, <6>1
          <6>2. CASE j = Len(queue) + 1
            BY <3>5, <3>7, <4>2, <5>1, <6>2
          <6>3. Len(queue) \in Nat /\ Len(queue') = Len(queue) + 1
            BY <1>1, <3>5
          <6> QED
            BY <6>1, <6>2, <6>3
        <5> QED
          BY <1>3, <1>4, <2>1, <4>2, <5>1, <5>2
      <4> QED
        BY <1>1, <3>5, <4>1, <4>2
    <3> QED
      BY <1>3, <1>5, <1>6, <1>7, <2>1, <3>8
  <2> QED
    BY <2>2, <2>3
<1>10. CASE Accept
  <2>1. UNCHANGED <<handled, answered>> /\ queue # <<>> /\ served' = Head(queue) /\ queue' = Tail(queue)
    BY <1>10 DEF Accept, area
  <2>2. /\ Len(queue) >= 1 /\ served' = queue[1] /\ Len(queue') = Len(queue) - 1
        /\ \A i \in 1 .. Len(queue') : queue'[i] = queue[i + 1]
    BY <1>1, <2>1, HeadTailProperties
  <2>3. 1 \in 1 .. Len(queue)
    BY <1>1, <2>2
  <2>4. Knows(served') /\ \A k \in 1 .. Len(handled) : handled[k].conn < served'
    BY <1>3, <1>4, <2>2, <2>3
  <2>5. ASSUME NEW i \in 1 .. Len(queue')
        PROVE  /\ Knows(queue'[i]) /\ queue'[i] > served' /\ answered'[queue'[i]] = 0
               /\ \A j \in 1 .. Len(queue') : i < j => queue'[i] < queue'[j]
               /\ \A k \in 1 .. Len(handled') : handled'[k].conn < queue'[i]
    <3>0. Len(queue) \in Nat /\ Len(queue') = Len(queue) - 1
      BY <1>1, <2>2
    <3>1. i + 1 \in 1 .. Len(queue) /\ 1 < i + 1 /\ queue'[i] = queue[i + 1]
      BY <2>2, <3>0
    <3>2. queue[1] < queue[i + 1]
      BY <1>3, <2>3, <3>1
    <3>3. ASSUME NEW j \in 1 .. Len(queue'), i < j PROVE queue'[i] < queue'[j]
      <4>1. j + 1 \in 1 .. Len(queue) /\ i + 1 < j + 1 /\ queue'[j] = queue[j + 1]
        BY <2>2, <3>0, <3>3
      <4> QED
        BY <1>3, <3>1, <4>1
    <3>4. queue[1] \in Nat /\ queue[i + 1] \in Nat
      BY <1>4, <2>3, <3>1
    <3> QED
      BY <1>3, <1>4, <2>1, <2>2, <3>1, <3>2, <3>3, <3>4
  <2>6. \A k \in 1 .. Len(handled') : Knows(handled'[k].conn) /\ handled'[k].conn <= served'
    <3>1. served' \in Nat
      BY <1>4, <2>2, <2>3
    <3> QED
      BY <1>5, <2>1, <2>4, <3>1
  <2> QED
    BY <1>7, <2>4, <2>5, <2>6
<1>11. CASE Take /\ Message.blk # 0
  <2>1. PICK x \in Entries : handled' = Append(handled, x) /\ x.conn = served
    BY <1>11, TakeHandles
  <2>2. UNCHANGED <<queue, served, answered>> /\ served # 0
    BY <1>11 DEF Take, Complete, network
  <2>3. /\ Len(handled') = Len(handled) + 1 /\ handled'[Len(handled) + 1].conn = served
        /\ \A k \in 1 .. Len(handled) : handled'[k] = handled[k]
    BY <1>1, <2>1, AppendProperties
  <2>4. ASSUME NEW k \in 1 .. Len(handled')
        PROVE  /\ Knows(handled'[k].conn) /\ handled'[k].conn <= served
               /\ \A i \in 1 .. Len(queue) : handled'[k].conn < queue[i]
    <3>1. CASE k \in 1 .. Len(handled)
      <4>1. handled'[k].conn = handled[k].conn
        BY <2>3, <3>1
      <4> QED
        BY <1>3, <1>5, <2>2, <3>1, <4>1
    <3>2. CASE k = Len(handled) + 1
      <4>1. \A i \in 1 .. Len(queue) : served < queue[i]
        BY <1>1, <1>3, <1>4
      <4> QED
        BY SMTT(15), <1>1, <1>6, <2>2, <2>3, <3>2, <4>1
    <3>3. k \in 1 .. Len(handled) \/ k = Len(handled) + 1
      <4>1. Len(handled) \in Nat /\ k \in 1 .. Len(handled) + 1
        BY <1>1, <2>3
      <4> QED
        BY ONLY <4>1
    <3> QED
      BY <3>1, <3>2, <3>3
  <2> QED
    BY <1>3, <1>4, <1>6, <1>7, <2>2, <2>4
<1>12. CASE WriteAck
  <2>1. UNCHANGED <<queue, served, handled>> /\ served # 0 /\ answered' = [answered EXCEPT ![served] = taken]
    BY <1>12 DEF WriteAck, area
  <2>2. ASSUME NEW i \in 1 .. Len(queue) PROVE answered'[queue[i]] = 0
    <3>0. queue[i] \in Conns /\ queue[i] \in Nat /\ queue[i] > served /\ served \in Nat
      BY <1>1, <1>3, <1>4
    <3>1. queue[i] \in Conns /\ queue[i] # served /\ answered[queue[i]] = 0
      BY <3>0, <1>3
    <3> QED
      BY <1>1, <2>1, <3>1
  <2> QED
    BY <1>3, <1>4, <1>5, <1>6, <1>7, <2>1, <2>2
<1>13. CASE Disconnect
  <2>1. UNCHANGED <<queue, handled, answered>> /\ served' = 0
    BY <1>13 DEF Disconnect, area, network
  <2>2. \A i \in 1 .. Len(queue) : queue[i] > 0
    BY <1>1, <1>4
  <2> QED
    BY <1>3, <1>4, <1>5, <1>7, <2>1, <2>2
<1>14. CASE SinkRestart
  <2>1. queue' = <<>> /\ served' = 0 /\ handled' = handled
    BY <1>14 DEF SinkRestart
  <2>2. Len(queue') = 0
    BY <2>1
  <2> QED
    BY <1>3, <1>5, <1>7, <2>1, <2>2
<1> QED
  <2>1. \/ UNCHANGED <<queue, served>>
        \/ ConnectToSink \/ Accept \/ Disconnect \/ SinkRestart
    BY DEF StreamNext, Sender, Server, Take, WriteAck, OtherPort, NetworkReset, streamVars, sink, port
  <2> QED
    BY <2>1, <1>8, <1>9, <1>10, <1>11, <1>12, <1>13, <1>14, WhoHandles, WhoAnswers

-----------------------------------------------------------------------------
(* What is handled                                                          *)

\* What the last block handled is
LEMMA LastTyped ==
  ASSUME StreamInv
  PROVE  /\ Len(handled) \in Nat
         /\ handled = <<>> => LastHandled.conn = 0 /\ LastHandled.blk = 0
         /\ handled # <<>> => /\ Len(handled) \in 1 .. Len(handled) /\ LastHandled = handled[Len(handled)]
                             /\ LastHandled.conn \in Conns /\ LastHandled.blk \in 1 .. MaxBlock
<1>1. handled \in Seq(Entries)
  BY DEF StreamInv, StreamTypeOK, Entries
<1>2. Len(handled) \in Nat /\ (handled # <<>> => Len(handled) > 0)
  BY <1>1, LenProperties, EmptySeq
<1>3. CASE handled # <<>>
  <2>1. Len(handled) \in 1 .. Len(handled) /\ LastHandled = handled[Len(handled)]
    BY <1>2, <1>3 DEF LastHandled
  <2>2. LastHandled \in Entries
    BY <1>1, <2>1, ElementOfSeq
  <2> QED
    BY <1>2, <1>3, <2>1, <2>2 DEF Entries
<1>4. CASE handled = <<>>
  BY <1>2, <1>4 DEF LastHandled
<1> QED
  BY <1>2, <1>3, <1>4

\* Read_Socket appends the block of its message.
LEMMA HandledLast ==
  ASSUME StreamInv, Take, Message.blk # 0
  PROVE  /\ Len(handled) \in Nat /\ Len(handled') = Len(handled) + 1
         /\ \A k \in 1 .. Len(handled) : handled'[k] = handled[k]
         /\ handled'[Len(handled) + 1].conn = served /\ handled'[Len(handled) + 1].blk = Message.blk
         /\ handled' # <<>> /\ LastHandled'.conn = served /\ LastHandled'.blk = Message.blk
         /\ \A b : b = Message.blk => Settled(b)'
         /\ LastHandled'.newest = Message.blk \/ (MayRefuse /\ LastHandled'.newest = LastHandled.newest)
<1>1. handled \in Seq(Entries)
  BY DEF StreamInv, StreamTypeOK, Entries
<1>2. PICK x \in Entries : handled' = Append(handled, x) /\ x.conn = served /\ x.blk = Message.blk
                         /\ (x.newest = x.blk \/ (MayRefuse /\ x.newest = LastHandled.newest))
  BY TakeHandles
<1>3. /\ Len(handled) \in Nat /\ Len(handled') = Len(handled) + 1 /\ handled'[Len(handled) + 1] = x
      /\ \A k \in 1 .. Len(handled) : handled'[k] = handled[k]
  BY <1>1, <1>2, AppendProperties, LenProperties
<1>4. handled' # <<>>
  BY <1>3, EmptySeq
<1>5. LastHandled' = x
  BY <1>3, <1>4 DEF LastHandled
<1>6. ASSUME NEW b, b = Message.blk PROVE Settled(b)'
  <2>1. MayRefuse' = MayRefuse
    BY DEF Take, MayRefuse
  <2>2. Len(handled) + 1 \in 1 .. Len(handled')
    BY <1>3
  <2> QED
    BY <1>2, <1>3, <1>6, <2>1, <2>2 DEF Settled
<1> QED
  BY <1>2, <1>3, <1>4, <1>5, <1>6

\* What is settled stays settled.
LEMMA SettledStays ==
  ASSUME StreamInv, [StreamNext]_streamVars
  PROVE  \A b : Settled(b) => Settled(b)'
<1>0. MayRefuse' = MayRefuse
  BY DEF StreamNext, Sender, ConnectToSink, Server, Accept, Take, WriteAck, Disconnect, OtherPort, SinkRestart,
     NetworkReset, streamVars, sink, MayRefuse
<1>1. CASE handled' = handled
  BY <1>0, <1>1 DEF Settled
<1>2. CASE Take /\ Message.blk # 0
  <2>1. /\ Len(handled) \in Nat /\ Len(handled') = Len(handled) + 1
        /\ \A k \in 1 .. Len(handled) : handled'[k] = handled[k]
    BY <1>2, HandledLast
  <2>2. ASSUME NEW b, Settled(b) PROVE Settled(b)'
    <3>1. PICK k \in 1 .. Len(handled) : handled[k].blk = b /\ (handled[k].newest = b \/ MayRefuse)
      BY <2>2 DEF Settled
    <3>2. k \in 1 .. Len(handled') /\ handled'[k] = handled[k]
      BY <2>1, <3>1
    <3> QED
      BY <1>0, <3>1, <3>2 DEF Settled
  <2> QED
    BY <2>2
<1> QED
  BY <1>1, <1>2, WhoHandles

\* The block handled last is still on its connection.
LEMMA LastOnWireStep ==
  ASSUME StreamInv, NoEmptyStream, [StreamNext]_streamVars
  PROVE  LastOnWire'
<1>0. [Next]_vars /\ TransferInv /\ TypeOK
  BY StepIsTransfer DEF StreamInv, TransferInv
<1>1. CASE handled' = handled
  <2>1. CASE handled = <<>>
    BY <1>1, <2>1 DEF LastOnWire
  <2>2. CASE handled # <<>>
    <3>1. PICK c \in Conns : c = LastHandled.conn
      BY <2>2, LastTyped
    <3>2. PICK j \in 1 .. Len(wire[c]) : wire[c][j].blk = LastHandled.blk
      BY <2>2, <3>1 DEF StreamInv, LastOnWire
    <3>3. j \in 1 .. Len(wire'[c]) /\ wire'[c][j] = wire[c][j]
      <4>1. /\ Len(wire[c]) \in Nat /\ Len(wire'[c]) \in Nat /\ Len(wire[c]) <= Len(wire'[c])
            /\ wire'[c][j] = wire[c][j]
        BY <1>0, <3>2, WireGrows, WireTypes
      <4> QED
        BY <4>1
    <3>4. LastHandled' = LastHandled
      BY <1>1 DEF LastHandled
    <3> QED
      BY <3>1, <3>2, <3>3, <3>4 DEF LastOnWire
  <2> QED
    BY <2>1, <2>2
<1>2. CASE Take /\ Message.blk # 0
  <2>1. LastHandled'.conn = served /\ LastHandled'.blk = Message.blk
    BY <1>2, HandledLast
  <2>2. /\ taken * NParts + 1 \in 1 .. Len(wire[served])
        /\ Message = wire[served][taken * NParts + 1]
    BY <1>2, MessageTaken DEF Take, MessageOf
  <2>3. wire' = wire
    BY <1>2 DEF Take, network
  <2> QED
    BY <2>1, <2>2, <2>3 DEF LastOnWire
<1> QED
  BY <1>1, <1>2, WhoHandles

\* Every step keeps the port in step with what it read.
LEMMA PortInStepStep ==
  ASSUME StreamInv, NoEmptyStream, [StreamNext]_streamVars
  PROVE  PortInStep'
<1>0. [Next]_vars /\ TransferInv /\ TypeOK
  BY StepIsTransfer DEF StreamInv, TransferInv
<1>1. taken \in Nat /\ zeroed \in BOOLEAN /\ \A b : Settled(b) => Settled(b)'
  BY SettledStays DEF StreamInv, StreamTypeOK
<1>2. served # 0 => served \in Conns
  BY DEF StreamInv, ServedInOrder, Known
<1>3. served # 0 =>
        /\ taken <= Frames(served)
        /\ \A f \in 1 .. taken - 1 : Settled(MessageOf(served, f).blk)
        /\ LastHandled.conn = served <=> taken >= 2
        /\ taken >= 2 => /\ LastHandled.blk = MessageOf(served, taken - 1).blk
                         /\ zeroed \/ BlockSequence = taken - 1
  BY DEF StreamInv, PortInStep
<1>4. ASSUME NEW s \in Conns, s = served, served' = served
      PROVE  /\ Frames(s) \in Nat /\ Frames(s)' \in Nat /\ Frames(s) <= Frames(s)'
             /\ \A f \in 0 .. taken - 1 : MessageOf(s, f)' = MessageOf(s, f)
             /\ taken < Frames(s) => wire'[s][taken * NParts + 1] = MessageOf(s, taken)
  <2>1. /\ Frames(s) \in Nat /\ Frames(s)' \in Nat /\ Frames(s) <= Frames(s)'
        /\ \A f \in 0 .. Frames(s) - 1 : MessageOf(s, f)' = MessageOf(s, f)
    BY <1>0, MessagesStay
  <2>2. s # 0
    BY TransferAssumption DEF Conns
  <2>3. taken <= Frames(s)
    BY <1>3, <1>4, <2>2
  <2>4. \A f \in 0 .. taken - 1 : f \in 0 .. Frames(s) - 1
    BY <1>1, <2>1, <2>3
  <2>5. taken < Frames(s) => taken \in 0 .. Frames(s) - 1
    BY <1>1, <2>1
  <2>6. \A f \in 0 .. Frames(s) - 1 : wire'[s][f * NParts + 1] = MessageOf(s, f)
    BY <2>1 DEF MessageOf
  <2> QED
    BY <2>1, <2>4, <2>5, <2>6
<1>5. CASE UNCHANGED <<served, taken, handled>> /\ (zeroed' \/ UNCHANGED <<zeroed, BlockSequence>>)
  <2>1. CASE served = 0
    BY <1>5, <2>1 DEF PortInStep
  <2>2. CASE served # 0
    <3>1. PICK s \in Conns : s = served /\ s = served'
      BY <1>2, <1>5, <2>2
    <3>2. /\ Frames(s) \in Nat /\ Frames(s)' \in Nat /\ Frames(s) <= Frames(s)'
          /\ \A f \in 0 .. taken - 1 : MessageOf(s, f)' = MessageOf(s, f)
      BY <1>4, <3>1
    <3>3. taken' = taken /\ taken <= Frames(s)'
      BY <1>1, <1>3, <1>5, <2>2, <3>1, <3>2
    <3>4. ASSUME NEW f \in 1 .. taken - 1 PROVE Settled(MessageOf(s, f).blk)'
      <4>1. PICK b : b = MessageOf(s, f).blk /\ Settled(b) /\ Settled(b)'
        BY <1>1, <1>3, <2>2, <3>1
      <4>2. MessageOf(s, f)' = MessageOf(s, f)
        BY <1>1, <3>2
      <4> QED
        BY <4>1, <4>2 DEF Settled, MayRefuse
    <3>5. LastHandled' = LastHandled
      BY <1>5 DEF LastHandled
    <3>6. (LastHandled'.conn = s) <=> taken' >= 2
      BY <1>3, <2>2, <3>1, <3>3, <3>5
    <3>7. ASSUME taken' >= 2
          PROVE  LastHandled'.blk = MessageOf(s, taken - 1)'.blk /\ (zeroed' \/ BlockSequence' = taken' - 1)
      <4>1. LastHandled.blk = MessageOf(s, taken - 1).blk /\ (zeroed \/ BlockSequence = taken - 1)
        BY <1>3, <2>2, <3>1, <3>3, <3>7
      <4>2. taken - 1 \in 0 .. taken - 1
        BY <1>1, <3>3, <3>7
      <4>3. MessageOf(s, taken - 1)' = MessageOf(s, taken - 1)
        <5>1. PICK f \in 0 .. taken - 1 : f = taken - 1 /\ f = taken' - 1
          BY <3>3, <4>2
        <5> QED
          BY <3>2, <3>3, <5>1 DEF MessageOf
      <4> QED
        BY <1>5, <3>3, <3>5, <4>1, <4>3
    <3> QED
      BY <3>1, <3>3, <3>4, <3>6, <3>7 DEF PortInStep, Frames, MessageOf
  <2> QED
    BY <2>1, <2>2
<1>6. CASE Accept
  <2>1. queue # <<>> /\ served' = Head(queue) /\ taken' = 0 /\ handled' = handled
    BY <1>6 DEF Accept, NewClient, area
  <2>2. queue \in Seq(Conns) /\ Len(queue) \in Nat
    BY LenProperties DEF StreamInv, StreamTypeOK
  <2>3. 1 \in 1 .. Len(queue) /\ served' = queue[1]
    BY <2>1, <2>2, HeadTailProperties
  <2>4. PICK s \in Conns : s = served' /\ \A k \in 1 .. Len(handled) : handled[k].conn < s
    BY <2>2, <2>3, ElementOfSeq DEF StreamInv, ServedInOrder
  <2>5. Frames(s)' \in Nat
    BY <1>0, MessagesStay
  <2>6. LastHandled'.conn # s
    <3>1. LastHandled' = LastHandled
      BY <2>1 DEF LastHandled
    <3>2. s \in Nat /\ s # 0 /\ \A c \in Conns : c \in Nat
      BY TransferAssumption DEF Conns
    <3> QED
      BY <2>4, <3>1, <3>2, LastTyped
  <2> QED
    BY <2>1, <2>4, <2>5, <2>6 DEF PortInStep, Frames
<1>7. CASE Take
  <2>1. PICK s \in Conns : s = served /\ s = served'
    BY <1>7, MessageTaken DEF Take
  <2>2. s # 0 /\ taken' = taken + 1 /\ taken < Frames(s) /\ Message = MessageOf(s, taken)
    BY <1>7, <2>1, MessageTaken, TransferAssumption DEF Take, Conns
  <2>3. /\ Frames(s) \in Nat /\ Frames(s)' \in Nat /\ Frames(s) <= Frames(s)'
        /\ \A f \in 0 .. taken : MessageOf(s, f)' = MessageOf(s, f)
    <3>1. /\ Frames(s) \in Nat /\ Frames(s)' \in Nat /\ Frames(s) <= Frames(s)'
          /\ \A f \in 0 .. taken - 1 : MessageOf(s, f)' = MessageOf(s, f)
          /\ wire'[s][taken * NParts + 1] = MessageOf(s, taken)
      BY <1>4, <2>1, <2>2
    <3>2. \A f \in 0 .. taken : f \in 0 .. taken - 1 \/ f = taken
      BY <1>1
    <3>3. ASSUME NEW f \in 0 .. taken PROVE MessageOf(s, f)' = MessageOf(s, f)
      <4>1. CASE f = taken
        BY <3>1, <4>1 DEF MessageOf
      <4> QED
        BY <3>1, <3>2, <4>1
    <3> QED
      BY <3>1, <3>3
  <2>4. taken' <= Frames(s)'
    BY <1>1, <2>2, <2>3
  <2>5. CASE Message.blk = 0
    <3>1. handled' = handled /\ taken = 0
      BY <1>7, <2>5, MessageTaken DEF Take
    <3>2. LastHandled' = LastHandled
      BY <3>1 DEF LastHandled
    <3>3. LastHandled'.conn # s /\ taken' = 1
      BY <1>3, <2>1, <2>2, <3>1, <3>2
    <3> QED
      BY <2>1, <2>4, <3>3 DEF PortInStep, Frames
  <2>6. CASE Message.blk # 0
    <3>1. /\ LastHandled'.conn = s /\ LastHandled'.blk = MessageOf(s, taken).blk
          /\ BlockSequence' = taken /\ taken > 0
      BY <1>7, <2>1, <2>2, <2>6, HandledLast, TakeHandles
    <3>2. ASSUME NEW f \in 1 .. taken PROVE Settled(MessageOf(s, f).blk)'
      <4>1. PICK b : b = MessageOf(s, f).blk
        OBVIOUS
      <4>2. MessageOf(s, f)' = MessageOf(s, f)
        BY <1>1, <2>3
      <4>3. Settled(b)'
        <5>1. CASE f \in 1 .. taken - 1
          <6>1. Settled(b)
            BY <1>3, <2>1, <2>2, <4>1, <5>1
          <6> QED
            BY <1>1, <6>1
        <5>2. CASE f = taken
          <6>1. PICK m : m = Message.blk /\ Settled(m)'
            BY <1>7, <2>6, HandledLast
          <6>2. m = b
            BY <2>2, <4>1, <5>2, <6>1
          <6> QED
            BY <6>1, <6>2
        <5> QED
          BY <1>1, <5>1, <5>2
      <4> QED
        BY <4>1, <4>2, <4>3 DEF Settled, MayRefuse
    <3>3. taken' - 1 = taken /\ taken' >= 2
      BY <1>1, <2>2, <3>1
    <3>4. MessageOf(s, taken - 1)'.blk = MessageOf(s, taken).blk
      <4>1. PICK f \in 0 .. taken : f = taken /\ f = taken' - 1
        BY <1>1, <3>3
      <4>2. MessageOf(s, f)' = MessageOf(s, f)
        BY <2>3
      <4> QED
        BY <4>1, <4>2 DEF MessageOf
    <3> QED
      BY <2>1, <2>4, <3>1, <3>2, <3>3, <3>4 DEF PortInStep, Frames, MessageOf
  <2> QED
    BY <2>5, <2>6
<1>8. CASE Disconnect \/ SinkRestart
  BY <1>8 DEF Disconnect, SinkRestart, PortInStep
<1>9. \/ UNCHANGED <<served, taken, handled>> /\ (zeroed' \/ UNCHANGED <<zeroed, BlockSequence>>)
      \/ Accept \/ Take \/ Disconnect \/ SinkRestart
  BY DEF StreamNext, Sender, ConnectToSink, Server, WriteAck, OtherPort, NetworkReset, streamVars, sink,
     port, area
<1> QED
  BY <1>5, <1>6, <1>7, <1>8, <1>9

\* Every step keeps the alarms explained.
LEMMA AlarmsStep ==
  ASSUME StreamInv, NoEmptyStream, [StreamNext]_streamVars
  PROVE  AlarmsExplained'
<1>1. CASE handled' = handled
  BY <1>1 DEF StreamInv, AlarmsExplained
<1>2. CASE Take /\ Message.blk # 0
  <2>1. PICK x \in Entries : /\ handled' = Append(handled, x) /\ x.conn = served
                             /\ x.alarm => x.zeroed \/ taken - 1 # BlockSequence
                             /\ ~x.zeroed => ~zeroed
    BY <1>2, TakeHandles
  <2>2. handled \in Seq(Entries) /\ Len(handled) \in Nat /\ served # 0 /\ taken \in Nat
    BY <1>2, LenProperties DEF StreamInv, StreamTypeOK, Entries, Take, Complete
  <2>3. /\ Len(handled') = Len(handled) + 1 /\ handled'[Len(handled) + 1] = x
        /\ \A k \in 1 .. Len(handled) : handled'[k] = handled[k]
    BY <2>1, <2>2, AppendProperties
  <2>4. ASSUME NEW k \in 1 .. Len(handled'), handled'[k].alarm
        PROVE  handled'[k].zeroed \/ k = 1 \/ handled'[k].conn # handled'[k - 1].conn
    <3>1. CASE k \in 1 .. Len(handled)
      <4>1. k = 1 \/ k - 1 \in 1 .. Len(handled)
        BY <2>2, <3>1
      <4> QED
        BY <2>3, <2>4, <3>1, <4>1 DEF StreamInv, AlarmsExplained
    <3>2. CASE k = Len(handled) + 1 /\ k # 1
      <4>1. handled # <<>> /\ k - 1 = Len(handled) /\ k - 1 \in 1 .. Len(handled)
        BY <2>2, <3>2, EmptySeq
      <4>2. handled'[k - 1] = LastHandled
        BY <2>3, <4>1, LastTyped
      <4>3. LastHandled.conn = served => zeroed \/ BlockSequence = taken - 1
        BY <2>2 DEF StreamInv, PortInStep
      <4> QED
        BY <2>1, <2>3, <2>4, <3>2, <4>2, <4>3
    <3> QED
      BY <2>2, <2>3, <3>1, <3>2
  <2> QED
    BY <2>4 DEF AlarmsExplained
<1> QED
  BY <1>1, <1>2, WhoHandles

-----------------------------------------------------------------------------
(* The numbers on a connection                                              *)

\* What BaseKept and NewAtBase read of the state
LEMMA NumbersTyped ==
  ASSUME TransferInv
  PROVE  /\ sequence \in Nat /\ block \in Nat /\ Mine \in Buffers
         /\ \A b \in Buffers : buffer[b] \in [blk : 0 .. MaxBlock, seq : 0 .. MaxBlock]
         /\ buffer = [b \in Buffers |-> buffer[b]] /\ msg.blk \in Nat
  BY DEF TransferInv, TypeOK, Mine, Buffers, Messages

\* While a connection stays the one in use, so does the number of its first block:
\* each block adds one to block and to sequence.
LEMMA BaseKept ==
  ASSUME TransferInv, NoEmptyStream, Next, tsSocket' = tsSocket, tsSocket # 0, mpc' # "killed"
  PROVE  Base' = Base /\ mpc # "killed"
<1> USE DEF cfg, shared, caller, nesting, thread, network, Restart
<1>0. TypeOK /\ Control /\ Numbers
  BY DEF TransferInv
<1>t. sequence \in Nat /\ block \in Nat /\ nsock \in Nat
  BY <1>0, NumbersTyped DEF TypeOK
<1>1. CASE Call
  <2>1. mpc = "idle" /\ mpc' = "check" /\ block' = block + 1 /\ sequence' = sequence
    BY <1>1 DEF Call
  <2> QED
    BY <1>t, <2>1 DEF Base, BeforeBlock, Opening
<1>2. CASE Check
  BY <1>2 DEF Check, Base, BeforeBlock, Opening
<1>3. CASE OpenSocket
  BY <1>0, <1>3 DEF OpenSocket, Control
<1>4. CASE Connect
  BY <1>4 DEF Connect, CloseSocket, Base, BeforeBlock, Opening
<1>5. CASE SendRestart \/ NestedCheck \/ BuildRestart
  BY <1>5 DEF SendRestart, NestedCheck, BuildRestart, Base, BeforeBlock, Opening
<1>6. CASE SendDirect
  BY <1>6 DEF SendDirect, CloseSocket, Sent, Done, RestartReturns, Return, Base, BeforeBlock, Opening
<1>7. CASE Receive
  BY <1>7 DEF Receive, CloseSocket, Done, RestartReturns, Return, Base, BeforeBlock, Opening
<1>8. CASE Recheck
  BY <1>8 DEF Recheck, Return, Base, BeforeBlock, Opening
<1>9. CASE Header
  <2>1. \A b \in Buffers : buffer'[b].blk = buffer[b].blk
    BY <1>0, <1>9, NumbersTyped DEF Header
  <2>2. mpc = "header" /\ mpc' \in {"wait1", "send"} /\ sequence' = sequence + 1 /\ block' = block
        /\ (mpc' = "send" => msg' = buffer'[Mine])
    BY <1>9 DEF Header
  <2>3. block > 0 /\ buffer[Mine].blk = block /\ Mine \in Buffers
    BY <1>0, <2>2, NumbersTyped DEF Numbers, BeforeBlock, Opening
  <2>4. mpc' = "send" => msg'.blk # 0
    BY <1>t, <2>1, <2>2, <2>3
  <2>5. mpc' = "send" => msg' # [blk |-> 0, seq |-> 0]
    BY <2>4
  <2> QED
    BY <1>t, <2>2, <2>5 DEF Base, BeforeBlock, Opening
<1>10. CASE TxWait
  BY <1>10 DEF TxWait, Return, Base, BeforeBlock, Opening
<1>11. CASE StartThread
  BY <1>11 DEF StartThread, Return, Base, BeforeBlock, Opening
<1>12. CASE SpuriousWakeup
  BY <1>12 DEF SpuriousWakeup, Base, BeforeBlock, Opening
<1>13. CASE ThreadFinish
  BY <1>13 DEF ThreadFinish, Base, BeforeBlock, Opening
<1>14. CASE Sigpipe
  BY <1>14 DEF Sigpipe
<1>15. CASE ThreadTest \/ ThreadArgs \/ ThreadSend \/ ThreadClose
  BY <1>15 DEF ThreadTest, ThreadArgs, ThreadSend, ThreadClose, Base, BeforeBlock, Opening
<1>16. ASSUME NEW c \in Conns, Answer(c) PROVE Base' = Base /\ mpc # "killed"
  BY <1>16 DEF Answer, Base, BeforeBlock, Opening
<1>17. ASSUME NEW C \in SUBSET Conns, Drop(C) PROVE Base' = Base /\ mpc # "killed"
  BY <1>17 DEF Drop, Base, BeforeBlock, Opening
<1> QED
  BY <1>1, <1>2, <1>3, <1>4, <1>5, <1>6, <1>7, <1>8, <1>9, <1>10, <1>11, <1>12, <1>13, <1>14,
     <1>15, <1>16, <1>17 DEF Next, Caller, Thread, Peer

\* One restart message is before the blocks: for the message the caller sends ...
LEMMA AheadOnce ==
  ASSUME TypeOK, Restarted, Once, mpc = "send", fd \in Conns
  PROVE  restarts[fd] = 1 /\ Ahead = sequence
<1>1. restarts[fd] \in Nat /\ restarts[fd] >= 1 /\ restarts[fd] <= 1 /\ sequence \in Nat
  BY DEF TypeOK, Restarted, Once
<1> QED
  BY <1>1 DEF Ahead

\* ... and for the one the send thread writes.
LEMMA WholeOnce ==
  ASSUME StreamInv, ThreadSend, Taken(tSocket, buffer[tBuffer], tPart + 1)
  PROVE  /\ Sending /\ tsSocket = arg.fd /\ Given \in Nat \ {0} /\ restarts[arg.fd] = 1
         /\ OnWire(arg.fd, buffer[arg.buf], tPart, Given)
<1>1. TransferInv /\ TypeOK /\ Restarted /\ Once /\ RequestKept
  BY DEF StreamInv, TransferInv
<1>2. /\ arg.fd \in Conns /\ Sending /\ tsSocket = arg.fd /\ Given > 0
      /\ OnWire(arg.fd, buffer[arg.buf], tPart, Whole - 1)
  BY <1>1, ThreadPiece
<1>3. mpc \notin {"killed", "connect", "restart", "nested", "build"}
  BY <1>1, <1>2 DEF RequestKept, BlockGiven
<1>4. restarts[tsSocket] \in Nat /\ restarts[tsSocket] >= 1 /\ restarts[tsSocket] <= 1
  BY <1>1, <1>2, <1>3 DEF TypeOK, Restarted, Once
<1>5. Given \in Int /\ Given \in Nat \ {0}
  <2>1. Given \in Int
    BY <1>1 DEF Given, TypeOK
  <2> QED
    BY <1>2, <2>1
<1>6. Whole - 1 = Given
  BY <1>4, <1>5 DEF Whole
<1> QED
  BY <1>2, <1>4, <1>5, <1>6

\* A piece of a block just written is on the connection in use, at its base.
LEMMA NewAtBase ==
  ASSUME StreamInv, NoEmptyStream, Next, NEW c \in Conns, NEW j \in 1 .. Len(wire'[c]), wire'[c][j].blk # 0
  PROVE  \/ j \in 1 .. Len(wire[c]) /\ wire'[c][j] = wire[c][j]
         \/ tsSocket = c /\ mpc # "killed" /\ wire'[c][j].blk - wire'[c][j].seq = Base
<1>0. TransferInv /\ TypeOK /\ Control /\ Numbers /\ RequestKept /\ Restarted /\ Once
  BY DEF StreamInv, TransferInv
<1>t. sequence \in Nat /\ block \in Nat
  BY <1>0, NumbersTyped
<1>1. CASE SendDirect /\ Taken(fd, msg, part + 1) /\ c = fd /\ wire'[c][j] = Chunk(msg, part + 1)
  <2>1. mpc = "send" /\ OnWire(fd, msg, part, Ahead) /\ fd \in Conns
    BY <1>0, <1>1, DirectPiece DEF SendDirect
  <2>a. restarts[fd] = 1 /\ Ahead = sequence
    BY <1>0, <1>t, <2>1, AheadOnce
  <2>2. wire'[c][j].blk = msg.blk /\ wire'[c][j].seq = msg.seq
    BY <1>1 DEF Chunk
  <2>3. msg # Restart
    BY <2>2 DEF Restart
  <2>4. msg.blk = block /\ mode = 1
    <3>1. mode \in {1, 3}
      BY <1>0, TransferAssumption DEF TypeOK
    <3> QED
      BY <1>0, <2>1, <2>3 DEF Numbers, Control
  <2>5. tsSocket = fd
    BY <2>1, <2>4 DEF StreamInv, Acknowledged
  <2>6. msg.seq = sequence - 1
    BY <1>t, <2>1, <2>2, <2>a DEF OnWire
  <2>7. Base = block - sequence + 1
    BY <2>1, <2>3 DEF Base, BeforeBlock, Opening
  <2> QED
    BY <1>1, <1>t, <2>1, <2>2, <2>4, <2>5, <2>6, <2>7
<1>2. CASE ThreadSend /\ Taken(tSocket, buffer[tBuffer], tPart + 1) /\ c = arg.fd
           /\ wire'[c][j] = Chunk(buffer[arg.buf], tPart + 1)
  <2>1. Sending /\ tsSocket = arg.fd /\ OnWire(arg.fd, buffer[arg.buf], tPart, Given) /\ Given \in Nat \ {0}
        /\ restarts[arg.fd] = 1
    BY <1>0, <1>2, ThreadPiece, WholeOnce
  <2>2. wire'[c][j].blk = buffer[arg.buf].blk /\ wire'[c][j].seq = buffer[arg.buf].seq
    BY <1>2 DEF Chunk
  <2>3. buffer[arg.buf].blk = Requested /\ buffer[arg.buf].seq = Given - 1
    BY <1>0, <2>1 DEF Numbers, OnWire
  <2>4. BlockGiven \/ mpc \in {"check", "recheck", "header", "wait1", "blocked1"}
    BY <1>0, <2>1 DEF RequestKept
  <2>5. Requested - (Given - 1) = Base
    <3>1. CASE BlockGiven
      <4>1. Requested = block /\ Given = sequence /\ Base = block - sequence + 1
        BY <3>1 DEF BlockGiven, Requested, Given, Base, BeforeBlock, Opening, HeaderWritten
      <4> QED
        BY <1>t, <4>1
    <3>2. CASE mpc \in {"check", "recheck", "header"}
      <4>1. Requested = block - 1 /\ Given = sequence /\ Base = block - sequence
        BY <3>2 DEF BlockGiven, Requested, Given, Base, BeforeBlock, Opening, HeaderWritten
      <4> QED
        BY <1>t, <4>1
    <3>3. CASE mpc \in {"wait1", "blocked1"}
      <4>1. Requested = block - 1 /\ Given = sequence - 1 /\ Base = block - sequence + 1
        BY <3>3 DEF BlockGiven, Requested, Given, Base, BeforeBlock, Opening, HeaderWritten
      <4> QED
        BY <1>t, <4>1
    <3> QED
      BY <2>4, <3>1, <3>2, <3>3
  <2>6. mpc # "killed"
    BY <2>4 DEF BlockGiven
  <2> QED
    BY <1>2, <2>1, <2>2, <2>3, <2>5, <2>6
<1> QED
  BY <1>0, <1>1, <1>2, NewPiece

\* Every step keeps the numbers of a connection consecutive.
LEMMA ConsecutiveStep ==
  ASSUME StreamInv, NoEmptyStream, [StreamNext]_streamVars
  PROVE  Consecutive'
<1>0. [Next]_vars /\ TransferInv /\ TypeOK /\ Consecutive
  BY StepIsTransfer DEF StreamInv, TransferInv
<1>1. CASE UNCHANGED vars
  BY <1>0, <1>1 DEF Consecutive, Base, BeforeBlock, Opening, vars, shared, caller, nesting, network
<1>2. CASE Next
  <2>1. ASSUME NEW c \in Conns, NEW j \in 1 .. Len(wire'[c]), wire'[c][j].blk # 0
        PROVE  \/ j \in 1 .. Len(wire[c]) /\ wire'[c][j] = wire[c][j]
               \/ tsSocket = c /\ mpc # "killed" /\ wire'[c][j].blk - wire'[c][j].seq = Base
    BY <1>2, <2>1, NewAtBase
  <2>2. ASSUME NEW c \in Conns, tsSocket = c, mpc # "killed",
               NEW j \in 1 .. Len(wire'[c]), wire'[c][j].blk # 0
        PROVE  wire'[c][j].blk - wire'[c][j].seq = Base
    <3>1. c # 0
      BY TransferAssumption DEF Conns
    <3>2. \A k \in 1 .. Len(wire[c]) : wire[c][k].blk # 0 => wire[c][k].blk - wire[c][k].seq = Base
      BY <1>0, <2>2, <3>1 DEF Consecutive
    <3> QED
      BY <2>1, <2>2, <3>2
  <2>3. ASSUME NEW c \in Conns, NEW j \in 1 .. Len(wire'[c]), NEW k \in 1 .. Len(wire'[c]),
               wire'[c][j].blk # 0, wire'[c][k].blk # 0
        PROVE  wire'[c][j].blk - wire'[c][j].seq = wire'[c][k].blk - wire'[c][k].seq
    <3>1. CASE tsSocket = c /\ mpc # "killed"
      BY <2>2, <2>3, <3>1
    <3>2. CASE ~(tsSocket = c /\ mpc # "killed")
      <4>1. /\ j \in 1 .. Len(wire[c]) /\ wire'[c][j] = wire[c][j]
            /\ k \in 1 .. Len(wire[c]) /\ wire'[c][k] = wire[c][k]
        BY <2>1, <2>3, <3>2
      <4> QED
        BY <1>0, <2>3, <4>1 DEF Consecutive
    <3> QED
      BY <3>1, <3>2
  <2>4. ASSUME tsSocket' # 0, mpc' # "killed", NEW j \in 1 .. Len(wire'[tsSocket']),
               wire'[tsSocket'][j].blk # 0
        PROVE  wire'[tsSocket'][j].blk - wire'[tsSocket'][j].seq = Base'
    <3>1. CASE tsSocket' = tsSocket
      <4>1. Base' = Base /\ mpc # "killed"
        BY <1>0, <1>2, <2>4, <3>1, BaseKept
      <4>2. PICK c \in Conns : c = tsSocket
        BY <1>0, <2>4, <3>1, TransferAssumption DEF TypeOK, Conns
      <4> QED
        BY <2>2, <2>4, <3>1, <4>1, <4>2
    <3>2. CASE tsSocket' # tsSocket
      <4>1. OpenSocket
        BY <1>2, <2>4, <3>2 DEF Next, Caller, Thread, Peer, Call, Check, Connect, SendRestart, NestedCheck,
           BuildRestart, SendDirect, Receive, Recheck, Header, TxWait, SpuriousWakeup, StartThread,
           ThreadTest, ThreadArgs, ThreadSend, ThreadClose, ThreadFinish, Answer, Drop, Sigpipe,
           CloseSocket, shared
      <4>2. nsock + 1 \in Conns /\ tsSocket' = nsock + 1 /\ wire' = wire /\ nsock + 1 > nsock
        BY <1>0, <4>1, TransferAssumption DEF OpenSocket, TypeOK, Conns
      <4>3. wire[nsock + 1] = <<>>
        BY <4>2, <1>0 DEF TransferInv, Sockets
      <4> QED
        BY <2>4, <4>2, <4>3
    <3> QED
      BY <3>1, <3>2
  <2> QED
    BY <2>3, <2>4 DEF Consecutive
<1> QED
  BY <1>0, <1>1, <1>2

-----------------------------------------------------------------------------
(* Acknowledgements                                                         *)

\* One piece more completes one message at most.
LEMMA OneFrameMore ==
  ASSUME NEW n \in Nat
  PROVE  (n + 1) \div NParts <= n \div NParts + 1
<1>1. NParts \in Nat /\ NParts >= 1
  BY TransferAssumption
<1>2. n \div NParts \in Nat /\ (n + 1) \div NParts \in Nat
  BY <1>1, DivisionOfNat
<1> DEFINE q == n \div NParts
           r == n % NParts
           p == (n + 1) \div NParts
           s == (n + 1) % NParts
<1>3. /\ n = NParts * q + r /\ r \in 0 .. NParts - 1
      /\ n + 1 = NParts * p + s /\ s \in 0 .. NParts - 1
  BY <1>1, DivMod
<1>4. p \in Nat /\ q \in Nat
  BY <1>2
<1>5. SUFFICES ASSUME p > q + 1 PROVE FALSE
  BY <1>4
<1> HIDE DEF p, q, r, s
<1>6. PICK d \in Nat : p = q + 2 + d
  <2>1. p - q - 2 \in Nat /\ p = q + 2 + (p - q - 2)
    BY <1>4, <1>5
  <2> QED
    BY <2>1
<1>7. NParts * p = NParts * q + NParts + NParts + NParts * d /\ NParts * d \in Nat /\ NParts * q \in Nat
  BY <1>1, <1>4, <1>6
<1> QED
  BY <1>1, <1>3, <1>7

\* In mode 1 the send thread does nothing.
LEMMA ThreadIdle ==
  ASSUME TransferInv, mode = 1
  PROVE  ~running /\ spc \notin {"args", "send", "close", "closefd", "clear", "finish"}
         /\ ~ThreadArgs /\ ~ThreadSend /\ ~ThreadClose /\ ~ThreadFinish
         /\ ~HeaderWritten /\ mpc \notin {"wait2", "blocked2"}
<1>1. ~running /\ spc \in {"test", "blocked", "killed"} /\ ~HeaderWritten /\ mpc \notin {"wait2", "blocked2"}
  BY DEF TransferInv, Control, TypeOK
<1> QED
  BY <1>1 DEF ThreadArgs, ThreadSend, ThreadClose, ThreadFinish

\* A connection that reached the sink is not opened again, and one in use in
\* mode 1 was open before.
LEMMA OpenBefore ==
  ASSUME TransferInv, [Next]_vars, NEW c \in Conns, cstate'[c] = "open"
  PROVE  cstate[c] = "open" \/ (Connect /\ cstate[c] = "fresh")
<1> USE DEF TransferInv
<1>1. /\ cstate \in [Conns -> {"new", "fresh", "open", "dropped", "closed"}]
      /\ nsock \in Nat /\ Conns = 1 .. MaxConn /\ MaxConn \in Nat
  BY TransferAssumption DEF TypeOK, Conns
<1>2. CASE OpenSocket \/ Connect \/ SendDirect \/ Receive
  BY <1>1, <1>2 DEF OpenSocket, Connect, SendDirect, Receive, CloseSocket, network
<1>3. CASE ThreadClose
  BY <1>1, <1>3 DEF ThreadClose
<1>4. ASSUME NEW C \in SUBSET Conns, Drop(C)
      PROVE  cstate[c] = "open"
  BY <1>1, <1>4 DEF Drop
<1>5. CASE cstate' = cstate
  BY <1>5
<1>6. Next => \/ OpenSocket \/ Connect \/ SendDirect \/ Receive \/ ThreadClose
              \/ (\E C \in SUBSET Conns : Drop(C)) \/ cstate' = cstate
  BY DEF Next, Caller, Thread, Peer, Call, Check, SendRestart, NestedCheck, BuildRestart, Recheck, Header,
     TxWait, SpuriousWakeup, StartThread, ThreadTest, ThreadArgs, ThreadSend, ThreadFinish, Answer,
     Sigpipe, network
<1> QED
  BY <1>2, <1>3, <1>4, <1>5, <1>6 DEF vars, network

\* do_send of a whole message: in mode 1 to the connection in use
LEMMA DirectSocket ==
  ASSUME StreamInv, NoEmptyStream, [Next]_vars, mode = 1, mpc' = "send"
  PROVE  tsSocket' = fd'
<1> USE DEF cfg, shared, caller, nesting, thread, network
<1>1. TransferInv /\ (mpc = "send" => tsSocket = fd) /\ ~HeaderWritten /\ ~ThreadClose
  BY ThreadIdle DEF StreamInv, Acknowledged
<1>2. CASE SendDirect
  BY <1>1, <1>2 DEF SendDirect, Sent, Done, RestartReturns, Return
<1>3. CASE BuildRestart \/ Header
  BY <1>3 DEF BuildRestart, RestartReturns, Header
<1>4. CASE ~SendDirect /\ ~BuildRestart /\ ~Header
  BY <1>1, <1>4 DEF Next, Caller, Thread, Peer, Call, Check, OpenSocket, Connect, SendRestart, NestedCheck,
     Receive, Recheck, TxWait, SpuriousWakeup, StartThread, ThreadTest, ThreadArgs, ThreadSend,
     ThreadFinish, Answer, Drop, Sigpipe, Return, Done, RestartReturns, vars
<1> QED
  BY <1>2, <1>3, <1>4

\* In mode 1 the caller alone writes, where all is answered.
LEMMA WrittenAlone ==
  ASSUME StreamInv, NoEmptyStream, [Next]_vars, mode = 1, NEW c \in Conns, wire'[c] # wire[c]
  PROVE  /\ SendDirect /\ Taken(fd, msg, part + 1) /\ c = fd /\ c = tsSocket /\ cstate[c] = "open"
         /\ answered[c] = Frames(c) /\ Frames(c)' <= Frames(c) + 1
<1>0. TransferInv /\ TypeOK /\ Acknowledgements
  BY DEF StreamInv, TransferInv
<1>1. SendDirect /\ Taken(fd, msg, part + 1)
  <2>1. Next
    BY DEF vars, network
  <2> QED
    BY <1>0, <2>1, WhoWrites, ThreadIdle
<1>2. c = fd /\ wire'[c] = Append(wire[c], Chunk(msg, part + 1)) /\ part \in 0 .. NParts - 1
  BY <1>0, <1>1, DirectPiece
<1>3. c = tsSocket /\ c # 0 /\ mpc = "send" /\ IsOpen(c)
  BY <1>1, <1>2, TransferAssumption DEF SendDirect, StreamInv, Acknowledged, Taken, Conns
<1>4. answered[c] = Frames(c)
  BY <1>0, <1>3 DEF Acknowledgements
<1>5. Frames(c)' <= Frames(c) + 1
  <2>1. Len(wire[c]) \in Nat /\ wire[c] \in Seq(Chunks)
    BY <1>0, WireTypes
  <2>2. Len(wire'[c]) = Len(wire[c]) + 1
    <3>1. msg \in Messages /\ part + 1 \in 1 .. NParts
      BY <1>0, <1>2, TransferAssumption DEF TypeOK
    <3>2. Chunk(msg, part + 1) \in Chunks
      BY <3>1 DEF Chunk, Chunks, Messages
    <3> QED
      BY <1>2, <2>1, <3>2, AppendProperties
  <2> QED
    BY <2>1, <2>2, OneFrameMore DEF Frames
<1> QED
  BY <1>1, <1>2, <1>3, <1>4, <1>5 DEF IsOpen

\* Types of the server's side
LEMMA PortTyped ==
  ASSUME StreamInv
  PROVE  /\ TypeOK /\ TransferInv /\ taken \in Nat /\ ackNeeded \in BOOLEAN
         /\ (served # 0 => served \in Conns /\ Known(served))
         /\ answered \in [Conns -> Nat]
         /\ \A c \in Conns : c # 0 /\ answered[c] \in Nat /\ Frames(c) \in Nat
<1>1. TypeOK /\ TransferInv /\ taken \in Nat /\ ackNeeded \in BOOLEAN /\ answered \in [Conns -> Nat]
  BY DEF StreamInv, StreamTypeOK, TransferInv, TypeOK
<1>2. served # 0 => served \in Conns /\ Known(served)
  BY DEF StreamInv, ServedInOrder, Known
<1>3. \A c \in Conns : c # 0 /\ answered[c] \in Nat /\ Frames(c) \in Nat
  <2>1. ASSUME NEW c \in Conns PROVE c # 0 /\ answered[c] \in Nat /\ Frames(c) \in Nat
    <3>1. Frames(c) \in Nat
      BY <1>1, FramesTyped
    <3>2. c # 0
      BY TransferAssumption DEF Conns
    <3> QED
      BY <1>1, <3>1, <3>2
  <2> QED
    BY <2>1
<1> QED
  BY <1>1, <1>2, <1>3

\* Write_Socket answers the message read last, and no other is under way.
LEMMA AckOfLast ==
  ASSUME StreamInv, WriteAck
  PROVE  /\ served \in Conns /\ mode = 1 /\ cstate[served] = "open" /\ ackNeeded' = FALSE
         /\ answered' = [answered EXCEPT ![served] = taken] /\ taken = Frames(served)
         /\ UNCHANGED <<served, taken, handled, sender, cstate, wire>>
<1>1. /\ served # 0 /\ ackNeeded /\ cstate[served] = "open" /\ ackNeeded' = FALSE
      /\ answered' = [answered EXCEPT ![served] = taken]
      /\ UNCHANGED <<served, taken, handled, sender, cstate, wire>>
  BY DEF WriteAck, area
<1>2. mode = 1
  BY <1>1 DEF StreamInv, Acknowledged
<1>3. served \in Conns /\ taken \in Nat /\ answered[served] \in Nat /\ Frames(served) \in Nat
  BY <1>1, PortTyped
<1>4. taken = answered[served] + 1 /\ taken <= Frames(served) /\ Frames(served) <= answered[served] + 1
  BY <1>1, <1>2, <1>3 DEF StreamInv, Acknowledged, PortInStep
<1> QED
  BY <1>1, <1>2, <1>3, <1>4

\* In mode 1 no connection is more than one message ahead of its answers.
LEMMA OneAheadStep ==
  ASSUME StreamInv, NoEmptyStream, [StreamNext]_streamVars, mode = 1, NEW c \in Conns
  PROVE  answered'[c] <= Frames(c)' /\ (cstate'[c] = "open" => Frames(c)' <= answered'[c] + 1)
<1>0. [Next]_vars /\ TransferInv /\ TypeOK
  BY StepIsTransfer, PortTyped
<1>1. /\ answered[c] \in Nat /\ Frames(c) \in Nat /\ Frames(c)' \in Nat /\ Frames(c) <= Frames(c)'
      /\ answered \in [Conns -> Nat]
  BY <1>0, PortTyped, MessagesStay
<1>2. answered[c] <= Frames(c) /\ (cstate[c] = "open" => Frames(c) <= answered[c] + 1)
  BY DEF StreamInv, Acknowledged
<1>3. CASE WriteAck /\ served = c
  <2>1. answered'[c] = taken /\ taken = Frames(c) /\ wire' = wire
    BY <1>1, <1>3, AckOfLast
  <2>2. Frames(c)' = Frames(c)
    BY <2>1 DEF Frames
  <2> QED
    BY <1>1, <2>1, <2>2
<1>4. CASE answered'[c] = answered[c]
  <2>1. CASE wire'[c] # wire[c]
    <3>1. answered[c] = Frames(c) /\ Frames(c)' <= Frames(c) + 1
      BY <1>0, <2>1, WrittenAlone
    <3> QED
      BY <1>1, <1>4, <3>1
  <2>2. CASE wire'[c] = wire[c]
    <3>1. Frames(c)' = Frames(c)
      BY <2>2 DEF Frames
    <3>2. ASSUME cstate'[c] = "open" PROVE Frames(c) <= answered[c] + 1
      <4>1. CASE cstate[c] = "open"
        BY <1>2, <4>1
      <4>2. CASE cstate[c] = "fresh"
        <5>1. Len(wire[c]) = 0 * NParts + 0
          BY <1>0, <4>2, TransferAssumption DEF TransferInv, Sockets
        <5>2. 0 \in 0 .. NParts - 1
          BY TransferAssumption
        <5>3. Frames(c) = 0
          BY <5>1, <5>2, MidwayQuotient DEF Frames
        <5> QED
          BY <1>1, <5>3
      <4> QED
        BY <1>0, <3>2, <4>1, <4>2, OpenBefore
    <3> QED
      BY <1>2, <1>4, <3>1, <3>2
  <2> QED
    BY <2>1, <2>2
<1>5. answered'[c] = answered[c] \/ (WriteAck /\ served = c)
  <2>1. CASE WriteAck /\ served # c
    BY <1>1, <2>1, AckOfLast
  <2> QED
    BY <2>1, WhoAnswers
<1> QED
  BY <1>3, <1>4, <1>5

\* What was answered stays settled, and what is answered is.
LEMMA AnsweredStep ==
  ASSUME StreamInv, NoEmptyStream, [StreamNext]_streamVars, mode = 1, NEW c \in Conns,
         NEW f \in 1 .. answered'[c] - 1
  PROVE  Settled(MessageOf(c, f).blk)'
<1>0. [Next]_vars /\ TransferInv
  BY StepIsTransfer, PortTyped
<1>1. answered[c] \in Nat /\ Frames(c) \in Nat /\ answered \in [Conns -> Nat] /\ taken \in Nat
  BY PortTyped
<1>2. PICK b : b = MessageOf(c, f).blk
  OBVIOUS
<1>3. f < Frames(c) /\ Settled(b)
  <2>1. CASE answered'[c] = answered[c]
    <3>1. answered[c] <= Frames(c) /\ \A g \in 1 .. answered[c] - 1 : Settled(MessageOf(c, g).blk)
      BY DEF StreamInv, Acknowledged
    <3>2. f < Frames(c)
      BY <1>1, <2>1, <3>1
    <3> QED
      BY <1>2, <2>1, <3>1, <3>2
  <2>2. CASE WriteAck /\ served = c
    <3>1. answered'[c] = taken /\ taken = Frames(c)
      BY <1>1, <2>2, AckOfLast
    <3>2. \A g \in 1 .. taken - 1 : Settled(MessageOf(c, g).blk)
      BY <2>2, PortTyped DEF StreamInv, PortInStep
    <3>3. f < Frames(c)
      BY <1>1, <3>1
    <3> QED
      BY <1>2, <3>1, <3>2, <3>3
  <2>3. CASE WriteAck /\ served # c
    <3>1. answered'[c] = answered[c]
      BY <1>1, <2>3, AckOfLast
    <3> QED
      BY <2>1, <3>1
  <2> QED
    BY <2>1, <2>2, <2>3, WhoAnswers
<1>4. MessageOf(c, f)' = MessageOf(c, f)
  <2>1. f \in Nat
    <3>1. answered'[c] \in Nat
      BY TransferKept DEF TransferInv, TypeOK
    <3> QED
      BY <3>1
  <2>2. f \in 0 .. Frames(c) - 1
    BY <1>1, <1>3, <2>1
  <2> QED
    BY <1>0, <2>2, MessagesStay
<1>5. Settled(b)'
  BY <1>3, SettledStays
<1> QED
  BY <1>2, <1>4, <1>5 DEF Settled, MayRefuse

\* An acknowledgement is owed for the message read last, and for nothing else.
LEMMA OwedStep ==
  ASSUME StreamInv, NoEmptyStream, [StreamNext]_streamVars
  PROVE  /\ mode' # 1 => ~ackNeeded'
         /\ mode' = 1 /\ served' # 0 /\ cstate'[served'] = "open" =>
              taken' = answered'[served'] + IF ackNeeded' THEN 1 ELSE 0
<1>0. [Next]_vars /\ TransferInv /\ TypeOK /\ answered \in [Conns -> Nat] /\ ackNeeded \in BOOLEAN /\ taken \in Nat
  BY StepIsTransfer, PortTyped
<1>1. mode' = mode
  BY <1>0 DEF Next, Caller, Thread, Peer, Call, Check, OpenSocket, Connect, SendRestart, NestedCheck,
     BuildRestart, SendDirect, Receive, Recheck, Header, TxWait, SpuriousWakeup, StartThread, ThreadTest,
     ThreadArgs, ThreadSend, ThreadClose, ThreadFinish, Answer, Drop, Sigpipe, cfg, vars
<1>2. /\ mode # 1 => ~ackNeeded
      /\ mode = 1 /\ served # 0 /\ cstate[served] = "open" =>
           taken = answered[served] + IF ackNeeded THEN 1 ELSE 0
  BY DEF StreamInv, Acknowledged
<1>3. CASE UNCHANGED <<served, taken, ackNeeded, answered>>
  <2>1. ASSUME served # 0, cstate'[served] = "open" PROVE cstate[served] = "open"
    <3>1. PICK s \in Conns : s = served /\ cstate[s] # "fresh"
      BY <2>1, PortTyped DEF Known
    <3> QED
      BY <1>0, <2>1, <3>1, OpenBefore
  <2> QED
    BY <1>1, <1>2, <1>3, <2>1
<1>4. CASE Accept
  <2>1. queue # <<>> /\ served' = Head(queue) /\ taken' = 0 /\ ackNeeded' = FALSE /\ answered' = answered
    BY <1>4 DEF Accept, NewClient
  <2>2. queue \in Seq(Conns) /\ Len(queue) \in Nat
    BY LenProperties DEF StreamInv, StreamTypeOK
  <2>3. 1 \in 1 .. Len(queue) /\ served' = queue[1]
    BY <2>1, <2>2, HeadTailProperties
  <2>4. answered[queue[1]] = 0
    BY <2>3 DEF StreamInv, ServedInOrder
  <2> QED
    BY <2>1, <2>3, <2>4
<1>5. CASE Take
  <2>1. /\ taken' = taken + 1 /\ UNCHANGED <<served, cstate, answered>> /\ served \in Conns
        /\ taken < Frames(served) /\ ackNeeded' = (ackNeeded \/ mode = 1)
    BY <1>5, MessageTaken DEF Take, Owed, network
  <2>2. CASE mode # 1
    BY <1>1, <1>2, <2>1, <2>2
  <2>3. CASE mode = 1 /\ cstate[served] = "open"
    <3>1. Frames(served) \in Nat /\ answered[served] \in Nat /\ served # 0
      BY <2>1, PortTyped
    <3>2. Frames(served) <= answered[served] + 1
      BY <2>1, <2>3 DEF StreamInv, Acknowledged
    <3>3. ~ackNeeded
      BY <1>0, <1>2, <2>1, <2>3, <3>1, <3>2
    <3>4. taken = answered[served]
      BY <1>2, <2>3, <3>1, <3>3
    <3> QED
      BY <1>1, <2>1, <2>3, <3>4
  <2>4. CASE mode = 1 /\ cstate[served] # "open"
    BY <1>1, <2>1, <2>4
  <2> QED
    BY <2>2, <2>3, <2>4
<1>6. CASE WriteAck
  <2>1. /\ served \in Conns /\ ackNeeded' = FALSE /\ served' = served /\ taken' = taken
        /\ answered'[served] = taken
    BY <1>0, <1>6, AckOfLast
  <2> QED
    BY <1>0, <2>1
<1>7. CASE SinkRestart
  BY <1>7 DEF SinkRestart, NewClient
<1>8. CASE Disconnect
  BY <1>1, <1>2, <1>8 DEF Disconnect
<1>9. \/ UNCHANGED <<served, taken, ackNeeded>>
      \/ Accept \/ Take \/ WriteAck \/ Disconnect \/ SinkRestart
  BY DEF StreamNext, Sender, ConnectToSink, Server, OtherPort, NetworkReset, streamVars, sink, port
<1> QED
  BY <1>3, <1>4, <1>5, <1>6, <1>7, <1>8, <1>9, WhoAnswers

\* Acknowledgements arrive on open connections only.
LEMMA AcksComeOpen ==
  ASSUME StreamInv, [StreamNext]_streamVars, NEW c \in Conns, acks'[c] # <<>>
  PROVE  acks[c] # <<>> \/ cstate[c] = "open"
<1>1. acks \in [Conns -> Seq([frame : Nat, code : {0, 1}])]
  BY DEF StreamInv, StreamTypeOK, TypeOK
<1>2. CASE acks' = acks
  BY <1>2
<1>3. CASE Receive
  <2>1. CASE acks' = [acks EXCEPT ![tsSocket] = Tail(@)] /\ acks[tsSocket] # <<>>
    BY <1>1, <2>1
  <2>2. CASE acks' = acks
    BY <2>2
  <2> QED
    BY <1>3, <2>1, <2>2 DEF Receive
<1>4. CASE WriteAck
  <2>1. CASE served = c
    BY <1>4, <2>1 DEF WriteAck
  <2>2. CASE served # c
    BY <1>1, <1>4, <2>2 DEF WriteAck
  <2> QED
    BY <2>1, <2>2
<1>5. ASSUME Connect \/ SenderProgram \/ UNCHANGED vars
      PROVE  acks' = acks \/ Receive
  BY <1>5 DEF Connect, SenderProgram, Call, Check, OpenSocket, SendRestart, NestedCheck, BuildRestart,
     SendDirect, Recheck, Header, TxWait, StartThread, SpuriousWakeup, Thread, ThreadTest, ThreadArgs,
     ThreadSend, ThreadClose, ThreadFinish, Sigpipe, network, vars
<1>6. acks' = acks \/ Receive \/ WriteAck
  BY <1>5 DEF StreamNext, Sender, ConnectToSink, Server, Accept, Take, Disconnect, OtherPort, SinkRestart,
     NetworkReset, Drop, streamVars, network
<1> QED
  BY <1>2, <1>3, <1>4, <1>6

\* In mode 1 the caller that waits for an acknowledgement has sent its block last.
LEMMA LastMessageStep ==
  ASSUME StreamInv, NoEmptyStream, [StreamNext]_streamVars, mode = 1,
         mpc' = "recv", msg' # Restart, tsSocket' # 0,
         IsOpen(tsSocket)' \/ acks'[tsSocket'] # <<>>
  PROVE  /\ Frames(tsSocket)' >= 2
         /\ wire'[tsSocket'][(Frames(tsSocket)' - 1) * NParts + 1].blk = block'
<1>0. [Next]_vars /\ TransferInv /\ TypeOK /\ Numbers /\ Acknowledgements /\ Restarted /\ Once
  BY StepIsTransfer, PortTyped DEF StreamInv, TransferInv
<1>1. CASE mpc = "send"
  <2>1. SendDirect /\ part + 1 = NParts /\ UNCHANGED <<tsSocket, cstate, msg, block, acks, fd>>
        /\ (Taken(fd, msg, part + 1) \/ Lost(fd))
    <3>1. SendDirect
      BY <1>0, <1>1 DEF Next, Caller, Thread, Peer, Call, Check, OpenSocket, Connect, SendRestart,
         NestedCheck, BuildRestart, Receive, Recheck, Header, TxWait, SpuriousWakeup, StartThread,
         ThreadTest, ThreadArgs, ThreadSend, ThreadClose, ThreadFinish, Answer, Drop, Sigpipe, vars,
         caller, nesting
    <3> QED
      BY <1>1, <3>1 DEF SendDirect, Done, RestartReturns, Return
  <2>2. PICK c \in Conns : c = tsSocket /\ c = tsSocket' /\ c = fd
    <3>1. tsSocket = fd
      BY <1>1 DEF StreamInv, Acknowledged
    <3>2. tsSocket \in Conns
      BY <1>0, <2>1, TransferAssumption DEF TypeOK, Conns
    <3> QED
      BY <2>1, <3>1, <3>2
  <2>3. acks[c] = <<>>
    BY <1>0, <1>1, <2>1, <2>2 DEF Acknowledgements
  <2>4. Taken(fd, msg, part + 1)
    BY <2>1, <2>2, <2>3 DEF Lost, IsDropped, IsOpen
  <2>5. /\ Len(wire'[c]) = (sequence + 1) * NParts /\ OnWire(c, msg, part, sequence)
        /\ wire'[c][sequence * NParts + 1] = Chunk(msg, 1) /\ restarts[c] = 1
    <3>1. restarts[fd] = 1 /\ Ahead = sequence
      BY <1>0, <1>1, <2>2, AheadOnce
    <3>2. /\ part + 1 = NParts => Len(wire'[fd]) = (Ahead + 1) * NParts
          /\ OnWire(fd, msg, part, Ahead) /\ wire'[fd][Ahead * NParts + 1] = Chunk(msg, 1)
      BY <1>0, <2>1, <2>2, <2>4, DirectPiece
    <3> QED
      BY <2>1, <2>2, <3>1, <3>2
  <2>6. sequence \in Nat /\ NParts \in Nat /\ NParts >= 1
    BY <1>0, NumbersTyped, TransferAssumption
  <2>7. Frames(c)' = sequence + 1
    <3>1. PICK f \in Nat : f = sequence + 1
      BY <2>6
    <3>2. f * NParts \in Nat /\ Len(wire'[c]) = f * NParts + 0 /\ 0 \in 0 .. NParts - 1
      BY <2>5, <2>6, <3>1
    <3>3. Len(wire'[c]) \div NParts = f
      BY <3>2, MidwayQuotient
    <3> QED
      BY <3>1, <3>3 DEF Frames
  <2>8. msg.blk = block /\ block > 0
    BY <1>0, <1>1, <2>1 DEF Numbers
  <2>9. sequence # 0 /\ wire'[c][sequence * NParts + 1].blk = block
    BY <1>0, <2>5, <2>8, NumbersTyped DEF OnWire, Chunk
  <2>10. Frames(tsSocket)' = sequence + 1
    BY <2>2, <2>7 DEF Frames
  <2>11. Frames(tsSocket)' >= 2 /\ Frames(tsSocket)' - 1 = sequence
    BY <2>6, <2>9, <2>10
  <2> QED
    BY <2>1, <2>2, <2>9, <2>11
<1>2. CASE mpc # "send"
  <2>1. ~SendDirect /\ ~Connect
    BY <1>2 DEF SendDirect, Connect, RestartReturns
  <2>2. mpc = "recv" /\ UNCHANGED <<msg, block, tsSocket>>
    BY <1>0, <1>2, ThreadIdle DEF Next, Caller, Thread, Peer, Call, Check, OpenSocket, Connect,
       SendRestart, NestedCheck, BuildRestart, SendDirect, Receive, Recheck, Header, TxWait,
       SpuriousWakeup, StartThread, ThreadTest, ThreadArgs, ThreadSend, ThreadFinish, Answer, Drop,
       Sigpipe, Return, Done, RestartReturns, vars, caller, nesting, shared
  <2>3. PICK c \in Conns : c = tsSocket /\ c = tsSocket'
    BY <1>0, <2>2, TransferAssumption DEF TypeOK, Conns
  <2>4. wire'[c] = wire[c]
    BY <1>0, <2>1, <2>3, WrittenAlone
  <2>5. IsOpen(c) \/ acks[c] # <<>>
    <3>1. CASE cstate'[c] = "open"
      BY <1>0, <2>1, <3>1, OpenBefore, PortTyped DEF IsOpen
    <3>2. CASE acks'[c] # <<>>
      BY <3>2, AcksComeOpen, PortTyped DEF IsOpen
    <3> QED
      BY <2>3, <3>1, <3>2 DEF IsOpen
  <2>6. Frames(c) >= 2 /\ MessageOf(c, Frames(c) - 1).blk = block
    BY <2>2, <2>3, <2>5 DEF StreamInv, Acknowledged
  <2>7. Frames(tsSocket)' = Frames(c)
    BY <2>3, <2>4 DEF Frames
  <2> QED
    BY <2>2, <2>3, <2>4, <2>6, <2>7 DEF MessageOf
<1> QED
  BY <1>1, <1>2

\* Every step keeps the acknowledgements behind what is settled.
LEMMA AcknowledgedStep ==
  ASSUME StreamInv, NoEmptyStream, [StreamNext]_streamVars
  PROVE  Acknowledged'
<1>1. [Next]_vars
  BY StepIsTransfer
<1>2. mode' = mode
  BY <1>1 DEF Next, Caller, Thread, Peer, Call, Check, OpenSocket, Connect, SendRestart, NestedCheck,
     BuildRestart, SendDirect, Receive, Recheck, Header, TxWait, SpuriousWakeup, StartThread, ThreadTest,
     ThreadArgs, ThreadSend, ThreadClose, ThreadFinish, Answer, Drop, Sigpipe, cfg, vars
<1>3. mode' # 1 => ~ackNeeded'
  BY OwedStep
<1>4. ASSUME mode' = 1
      PROVE  /\ mpc' = "send" => tsSocket' = fd'
             /\ \A c \in Conns : answered'[c] <= Frames(c)' /\ (cstate'[c] = "open" => Frames(c)' <= answered'[c] + 1)
             /\ \A c \in Conns : \A f \in 1 .. answered'[c] - 1 : Settled(MessageOf(c, f).blk)'
             /\ served' # 0 /\ cstate'[served'] = "open" =>
                  taken' = answered'[served'] + IF ackNeeded' THEN 1 ELSE 0
             /\ mpc' = "recv" /\ msg' # Restart /\ tsSocket' # 0
                  /\ (IsOpen(tsSocket)' \/ acks'[tsSocket'] # <<>>) =>
                  /\ Frames(tsSocket)' >= 2
                  /\ wire'[tsSocket'][(Frames(tsSocket)' - 1) * NParts + 1].blk = block'
  <2>1. mpc' = "send" => tsSocket' = fd'
    BY <1>1, <1>2, <1>4, DirectSocket
  <2>2. \A c \in Conns : answered'[c] <= Frames(c)' /\ (cstate'[c] = "open" => Frames(c)' <= answered'[c] + 1)
    BY <1>2, <1>4, OneAheadStep
  <2>3. \A c \in Conns : \A f \in 1 .. answered'[c] - 1 : Settled(MessageOf(c, f).blk)'
    BY <1>2, <1>4, AnsweredStep
  <2> QED
    BY <1>2, <1>4, <2>1, <2>2, <2>3, OwedStep, LastMessageStep
<1> QED
  BY <1>3, <1>4 DEF Acknowledged, MessageOf

\* Every step keeps what was acknowledged settled.
LEMMA AckedStep ==
  ASSUME StreamInv, NoEmptyStream, [StreamNext]_streamVars
  PROVE  AckedIsStored'
<1>0. [Next]_vars /\ TransferInv /\ TypeOK /\ Acknowledgements /\ Control
  BY StepIsTransfer, PortTyped DEF TransferInv
<1>1. mode' = mode
  BY <1>0 DEF Next, Caller, Thread, Peer, Call, Check, OpenSocket, Connect, SendRestart, NestedCheck,
     BuildRestart, SendDirect, Receive, Recheck, Header, TxWait, SpuriousWakeup, StartThread, ThreadTest,
     ThreadArgs, ThreadSend, ThreadClose, ThreadFinish, Answer, Drop, Sigpipe, cfg, vars
<1>2. SUFFICES ASSUME mode = 1, mpc' = "idle", ret' = "ok", gotack'
               PROVE  Settled(block)'
  BY <1>1 DEF AckedIsStored, Settled, MayRefuse
<1>3. \/ mpc = "idle" /\ UNCHANGED <<ret, gotack, block>>
      \/ /\ Receive /\ tsSocket # 0 /\ acks[tsSocket] # <<>> /\ msg # Restart /\ block' = block
  <2>1. CASE Receive
    BY <1>2, <2>1 DEF Receive, Return, Done, RestartReturns
  <2>2. CASE ~Receive
    BY <1>0, <1>2, <2>2, ThreadIdle DEF Next, Caller, Thread, Peer, Call, Check, OpenSocket, Connect,
       SendRestart, NestedCheck, BuildRestart, SendDirect, Recheck, Header, TxWait, SpuriousWakeup,
       StartThread, ThreadTest, ThreadArgs, ThreadSend, ThreadFinish, Answer, Drop, Sigpipe, Return, Sent,
       Done, RestartReturns, HeaderWritten, vars, caller
  <2> QED
    BY <2>1, <2>2
<1>4. \E b : b = block /\ b = block' /\ Settled(b)
  <2>1. CASE mpc = "idle" /\ UNCHANGED <<ret, gotack, block>>
    BY <1>2, <2>1 DEF StreamInv, AckedIsStored, Settled, MayRefuse
  <2>2. CASE Receive /\ tsSocket # 0 /\ acks[tsSocket] # <<>> /\ msg # Restart /\ block' = block
    <3>1. mpc = "recv"
      BY <2>2 DEF Receive
    <3>2. tsSocket \in Conns
      BY <1>0, <2>2, TransferAssumption DEF TypeOK, Conns
    <3>3. Frames(tsSocket) >= 2 /\ MessageOf(tsSocket, Frames(tsSocket) - 1).blk = block
      BY <1>2, <2>2, <3>1 DEF StreamInv, Acknowledged
    <3>4. answered[tsSocket] = Frames(tsSocket)
      BY <1>0, <1>2, <2>2, <3>1 DEF Acknowledgements
    <3>5. Frames(tsSocket) - 1 \in 1 .. answered[tsSocket] - 1
      BY <3>2, <3>3, <3>4, PortTyped
    <3>6. Settled(MessageOf(tsSocket, Frames(tsSocket) - 1).blk)
      BY <1>2, <3>2, <3>5 DEF StreamInv, Acknowledged
    <3> QED
      BY <2>2, <3>3, <3>6
  <2> QED
    BY <1>3, <2>1, <2>2
<1>5. PICK b : b = block' /\ Settled(b)'
  BY <1>4, SettledStays
<1> QED
  BY <1>5 DEF Settled, MayRefuse

-----------------------------------------------------------------------------
(* The invariant                                                            *)

\* Without overlap mode no connection gets a second restart message.
LEMMA OnceStep ==
  ASSUME StreamInv, NoOverlap, [StreamNext]_streamVars
  PROVE  Once'
<1>0. [Next]_vars /\ TransferInv /\ TypeOK /\ Once
  BY StepIsTransfer DEF StreamInv, TransferInv
<1>1. CASE BuildRestart /\ tsSocket # 0
  <2>1. /\ tsSocket \in Conns /\ restarts[tsSocket] \in Nat /\ depth \in Nat
        /\ \A c \in Conns : restarts'[c] = IF c = tsSocket THEN restarts[c] + 1 ELSE restarts[c]
        /\ restarts[tsSocket] + depth + 1 <= MaxRestarts
    BY <1>0, <1>1, RestartBefore
  <2>2. MaxRestarts = 1
    BY <1>0 DEF NoOverlap, TypeOK, MaxRestarts
  <2>3. restarts[tsSocket] + 1 <= 1
    BY <2>1, <2>2
  <2> QED
    BY <1>0, <2>1, <2>3 DEF Once
<1>2. CASE restarts' = restarts
  BY <1>0, <1>2 DEF Once
<1>3. restarts' = restarts \/ (BuildRestart /\ tsSocket # 0)
  BY <1>0 DEF Next, Caller, Thread, Peer, Call, Check, OpenSocket, Connect, SendRestart, NestedCheck,
     BuildRestart, SendDirect, Receive, Recheck, Header, TxWait, SpuriousWakeup, StartThread, ThreadTest,
     ThreadArgs, ThreadSend, ThreadClose, ThreadFinish, Answer, Drop, Sigpipe, vars, caller, nesting
<1> QED
  BY <1>1, <1>2, <1>3

\* The invariant at the start
LEMMA StreamStart ==
  ASSUME StreamInit, NoEmptyStream
  PROVE  StreamInv
<1> USE TransferAssumption, StreamAssumption
<1>1. Init /\ queue = <<>> /\ served = 0 /\ taken = 0 /\ ackNeeded = FALSE /\ handled = <<>>
      /\ tapeBlockSize = 2 /\ BlockSequence = 0 /\ resets = 0 /\ zeroed = FALSE /\ BlockSize \in BlockSizes
  BY DEF StreamInit, StartSize
<1>2. TransferInv /\ TypeOK
  BY <1>1, TransferStart DEF TransferInv
<1>3. StreamTypeOK
  <2>1. queue \in Seq(Conns) /\ handled \in Seq(Entries)
    BY <1>1, EmptySeq
  <2>2. served \in 0 .. MaxConn /\ taken \in Nat /\ tapeBlockSize \in 1 .. 3 /\ BlockSequence \in Nat
        /\ resets \in 0 .. MaxResets
    BY <1>1
  <2> QED
    BY <1>1, <1>2, <2>1, <2>2 DEF StreamTypeOK, Entries
<1>4. Len(queue) = 0 /\ Len(handled) = 0
  BY <1>1
<1>5. ServedInOrder /\ PortInStep /\ LastOnWire /\ AlarmsExplained
  BY <1>1, <1>4 DEF ServedInOrder, PortInStep, LastOnWire, AlarmsExplained
<1>6. \A c \in Conns : wire[c] = <<>> /\ Len(wire[c]) = 0 /\ answered[c] = 0
  BY <1>1 DEF Init
<1>7. Consecutive
  BY <1>1, <1>6 DEF Consecutive, Init
<1>8. \A c \in Conns : Frames(c) = 0
  <2>1. ASSUME NEW c \in Conns PROVE Frames(c) = 0
    <3>1. Len(wire[c]) = 0 * NParts + 0 /\ 0 \in 0 .. NParts - 1
      BY <1>6
    <3> QED
      BY <3>1, MidwayQuotient DEF Frames
  <2> QED
    BY <2>1
<1>9. Acknowledged
  BY <1>1, <1>6, <1>8 DEF Acknowledged, Init
<1>11. Once
  BY <1>1 DEF Once, Init
<1>10. AckedIsStored
  BY <1>1 DEF AckedIsStored, Init
<1> QED
  BY <1>2, <1>3, <1>5, <1>7, <1>9, <1>10, <1>11 DEF StreamInv

\* The invariant in every step
LEMMA StreamStep ==
  ASSUME NoEmptyStream, NoOverlap
  PROVE  StreamInv /\ [StreamNext]_streamVars => StreamInv'
<1> SUFFICES ASSUME StreamInv, [StreamNext]_streamVars PROVE StreamInv'
  OBVIOUS
<1> QED
  BY TransferKept, StreamTypeStep, ServedInOrderStep, PortInStepStep, LastOnWireStep, ConsecutiveStep,
     AcknowledgedStep, AlarmsStep, AckedStep, OnceStep DEF StreamInv

\* The library, the sink and their connections are in the states StreamInv
\* describes, through drops, replaced clients, and restarts of the sink.
THEOREM StreamInvHolds ==
  ASSUME NoEmptyStream, NoOverlap
  PROVE  StreamSpec => []StreamInv
<1>1. StreamInit => StreamInv
  BY StreamStart
<1>2. StreamInv /\ [StreamNext]_streamVars => StreamInv'
  BY StreamStep
<1> QED
  BY <1>1, <1>2, PTL DEF StreamSpec

\* ts_data_transfer reports a sequence error only for the first block of a
\* connection, or when an area was initialised since the last block.
THEOREM AlarmsAreExplained ==
  ASSUME NoEmptyStream, NoOverlap
  PROVE  StreamSpec => []AlarmsExplained
<1>1. StreamInv => AlarmsExplained
  BY DEF StreamInv
<1> QED
  BY <1>1, StreamInvHolds, PTL

\* A call of transferMultiTxData that returns OK on an acknowledgement has its
\* block in the ring of the sink, or announced more than 65536 bytes and the sink
\* may have refused it.
THEOREM AcknowledgedIsStored ==
  ASSUME NoEmptyStream, NoOverlap
  PROVE  StreamSpec => []AckedIsStored
<1>1. StreamInv => AckedIsStored
  BY DEF StreamInv
<1> QED
  BY <1>1, StreamInvHolds, PTL

\* The DataSink is a peer as Transfer assumes of its external one: every step of
\* the stream is one of Transfer or leaves the library alone.
THEOREM StreamIsPeer ==
  ASSUME NoEmptyStream, NoOverlap
  PROVE  StreamSpec => ImplementsTransfer
<1>1. StreamInit => Init
  BY DEF StreamInit
<1>2. StreamInv /\ [StreamNext]_streamVars => [Next]_vars
  BY StepIsTransfer
<1> QED
  BY <1>1, <1>2, StreamInvHolds, PTL DEF StreamSpec, ImplementsTransfer, Spec

-----------------------------------------------------------------------------
(* The abstract stream                                                      *)

\* A block read from the connection that brought the last one follows it; from a
\* later connection it is a later block; no block is ahead of the calls.
LEMMA TakeIsDelivery ==
  ASSUME StreamInv, Take, Message.blk # 0
  PROVE  Blocks!Continue \/ Blocks!Resume
<1>0. TransferInv /\ TypeOK /\ WireFramed /\ NeverResent /\ BlocksInOrder /\ Consecutive /\ LastOnWire
  BY PortTyped DEF StreamInv, TransferInv
<1>1. PICK s \in Conns : s = served
  BY MessageTaken DEF Take
<1>2. /\ taken < Frames(s) /\ taken > 0 /\ taken \in Nat /\ Message = MessageOf(s, taken)
      /\ Message.seq = taken - 1 /\ Message.blk \in 1 .. MaxBlock
      /\ s \in Nat /\ s # 0
  <2>1. /\ taken < Frames(s) /\ taken \in Nat /\ taken # 0 /\ Message = MessageOf(s, taken)
        /\ (taken > 0 => Message.seq = taken - 1) /\ Message.blk \in 0 .. MaxBlock
    BY <1>1, MessageTaken DEF Take
  <2>2. MaxBlock \in Nat /\ s \in Nat /\ s # 0
    BY TransferAssumption DEF Conns
  <2> QED
    BY <2>1, <2>2
<1>3. PICK i \in 1 .. Len(wire[s]) : i = taken * NParts + 1 /\ wire[s][i] = Message
  <2>1. taken * NParts + 1 \in 1 .. Len(wire[s]) /\ Message = MessageOf(s, taken)
    BY <1>1, MessageTaken DEF Take
  <2> QED
    BY <2>1 DEF MessageOf
<1>4. /\ block' = block /\ block \in Nat /\ Message.blk <= block
      /\ LastHandled'.conn = s /\ LastHandled'.blk = Message.blk /\ MayRefuse' = MayRefuse
      /\ LastHandled'.newest = LastHandled'.blk \/ (MayRefuse /\ LastHandled'.newest = LastHandled.newest)
  <2>1. Message.blk <= block
    BY <1>0, <1>3 DEF BlocksInOrder, NotAhead
  <2> QED
    BY <1>0, <1>1, <2>1, HandledLast DEF Take, sender, caller, nesting, TypeOK, MayRefuse
<1>5. CASE LastHandled.conn = s
  <2>1. taken >= 2 /\ LastHandled.blk = MessageOf(s, taken - 1).blk
    BY <1>1, <1>2, <1>5 DEF StreamInv, PortInStep
  <2>2. PICK f \in Nat : f = taken - 1 /\ f > 0 /\ f < Frames(s)
    <3>1. taken - 1 \in Nat /\ taken - 1 > 0 /\ taken - 1 < Frames(s)
      BY <1>2, <2>1, PortTyped
    <3> QED
      BY <3>1
  <2>3. PICK h \in 1 .. Len(wire[s]) : h = f * NParts + 1
    BY <1>0, <2>2, MessagePlace, WireTypes DEF Frames
  <2>4. (h - 1) \div NParts = f
    <3>1. NParts \in Nat /\ 0 \in 0 .. NParts - 1 /\ h - 1 = f * NParts + 0
      BY <2>2, <2>3, TransferAssumption
    <3> QED
      BY <2>2, <3>1, MidwayQuotient
  <2>5. wire[s][h].blk = LastHandled.blk /\ wire[s][h].seq = f - 1 /\ LastHandled.blk # 0
    <3>0. restarts[s] = 1
      BY <2>3, OnceOnWire
    <3>1. /\ (f < restarts[s]) <=> (wire[s][f * NParts + 1].blk = 0)
          /\ f >= restarts[s] => wire[s][f * NParts + 1].seq = f - restarts[s]
      BY <1>0, <2>3, <2>4 DEF WireFramed
    <3> QED
      BY <2>1, <2>2, <2>3, <3>0, <3>1 DEF MessageOf
  <2>6. Message.blk - Message.seq = LastHandled.blk - (f - 1)
    <3>1. wire[s][i].blk # 0 /\ wire[s][h].blk # 0
      BY <1>2, <1>3, <2>5
    <3>2. wire[s][i].blk - wire[s][i].seq = wire[s][h].blk - wire[s][h].seq
      BY <1>0, <3>1 DEF Consecutive
    <3> QED
      BY <1>3, <2>5, <3>2
  <2>7. LastHandled.blk \in Nat
    BY <1>0, <2>3, <2>5, WireTypes
  <2>8. Message.blk = LastHandled.blk + 1
    BY <1>2, <2>2, <2>6, <2>7
  <2> QED
    BY <1>2, <1>4, <1>5, <2>7, <2>8 DEF Blocks!Continue, Blocks!StoreOrRefuse
<1>6. CASE LastHandled.conn # s
  <2>1. LastHandled.conn < s /\ LastHandled.blk \in Nat /\ LastHandled.blk < Message.blk
    <3>1. CASE handled = <<>>
      BY <1>2, <3>1, LastTyped
    <3>2. CASE handled # <<>>
      <4>1. PICK c \in Conns : c = LastHandled.conn
        BY <3>2, LastTyped
      <4>2. c <= s
        BY <1>1, <1>2, <3>2, <4>1, LastTyped DEF StreamInv, ServedInOrder
      <4>3. c \in Nat
        BY TransferAssumption DEF Conns
      <4>4. c < s
        BY <1>2, <1>6, <4>1, <4>2, <4>3
      <4>5. PICK j \in 1 .. Len(wire[c]) : wire[c][j].blk = LastHandled.blk
        BY <1>0, <3>2, <4>1 DEF LastOnWire
      <4>6. wire[c][j].blk # 0 /\ LastHandled.blk \in Nat
        <5>1. LastHandled.blk \in 1 .. MaxBlock
          BY <3>2, LastTyped
        <5> QED
          BY <4>5, <5>1
      <4>7. wire[c][j].blk < wire[s][i].blk
        BY <1>0, <1>2, <1>3, <4>4, <4>6 DEF NeverResent
      <4> QED
        BY <1>3, <4>1, <4>4, <4>5, <4>6, <4>7
    <3> QED
      BY <3>1, <3>2
  <2>2. Message.blk \in LastHandled.blk + 1 .. block
    BY <1>2, <1>4, <2>1
  <2> QED
    BY <1>4, <2>1, <2>2 DEF Blocks!Resume, Blocks!StoreOrRefuse
<1> QED
  BY <1>5, <1>6

\* The blocks in the sink's rings are a stream as BlockStream describes it: none
\* twice or out of order, and none missing inside a connection but those refused
\* because they are longer than 65504 bytes.
THEOREM StreamImplementsBlocks ==
  ASSUME NoEmptyStream, NoOverlap
  PROVE  StreamSpec => ImplementsStream
<1>1. StreamInit => Blocks!Init
  BY DEF StreamInit, Init, Blocks!Init, LastHandled, MayRefuse
<1>2. ASSUME StreamInv, [StreamNext]_streamVars
      PROVE  [Blocks!Next]_(Blocks!stream)
  <2>1. handled' = handled => LastHandled' = LastHandled
    BY DEF LastHandled
  <2>m. MayRefuse' = MayRefuse
    BY <1>2 DEF StreamNext, Sender, ConnectToSink, Server, Accept, Take, WriteAck, Disconnect, OtherPort,
       SinkRestart, NetworkReset, streamVars, sink, MayRefuse
  <2>2. CASE Take /\ Message.blk # 0
    BY <1>2, <2>2, TakeIsDelivery DEF Blocks!Next
  <2>3. CASE handled' = handled /\ block' = block
    BY <2>1, <2>m, <2>3 DEF Blocks!stream
  <2>4. CASE handled' = handled /\ Call
    BY <2>1, <2>m, <2>4 DEF Call, Blocks!Next, Blocks!Give
  <2>5. block' = block \/ Call
    <3>1. [Next]_vars
      BY <1>2, StepIsTransfer
    <3> QED
      BY <3>1 DEF Next, Caller, Thread, Peer, Check, OpenSocket, Connect, SendRestart, NestedCheck,
         BuildRestart, SendDirect, Receive, Recheck, Header, TxWait, SpuriousWakeup, StartThread,
         ThreadTest, ThreadArgs, ThreadSend, ThreadClose, ThreadFinish, Answer, Drop, Sigpipe, caller,
         nesting, vars
  <2> QED
    BY <1>2, <2>2, <2>3, <2>4, <2>5, WhoHandles
<1> QED
  BY <1>1, <1>2, StreamInvHolds, PTL DEF StreamSpec, ImplementsStream, Blocks!Spec

-----------------------------------------------------------------------------
(* The work of the sink                                                     *)

\* Every step keeps the open connections queued or served.
LEMMA AttendedStep ==
  ASSUME StreamInv, NoEmptyStream, Attended, [StreamNext]_streamVars
  PROVE  Attended'
<1> DEFINE Queued(c) == \E i \in 1 .. Len(queue) : queue[i] = c
<1>1. /\ queue \in Seq(Conns) /\ Len(queue) \in Nat /\ served \in 0 .. MaxConn
      /\ cstate \in [Conns -> {"new", "fresh", "open", "dropped", "closed"}]
      /\ Conns = 1 .. MaxConn /\ MaxConn \in Nat /\ TransferInv /\ [Next]_vars
  BY TransferAssumption, LenProperties, StepIsTransfer DEF StreamInv, StreamTypeOK, TransferInv, TypeOK, Conns
<1> SUFFICES ASSUME NEW c \in Conns, cstate'[c] = "open"
             PROVE  c = served' \/ Queued(c)'
  BY <1>1 DEF Attended, IsOpen
<1>2. CASE cstate[c] # "open"
  <2>1. Connect /\ cstate[c] = "fresh"
    BY <1>1, <1>2, OpenBefore
  <2>2. tsSocket = c /\ mpc' = "restart" /\ mpc = "connect"
    BY <1>1, <2>1 DEF Connect, CloseSocket, Return
  <2>3. ConnectToSink
    BY <2>2 DEF StreamNext, Sender, SenderProgram, Call, Check, OpenSocket, SendRestart, NestedCheck,
       BuildRestart, SendDirect, Receive, Recheck, Header, TxWait, StartThread, SpuriousWakeup, Thread,
       ThreadTest, ThreadArgs, ThreadSend, ThreadClose, ThreadFinish, Sigpipe, Server, Accept, Take,
       WriteAck, Disconnect, OtherPort, SinkRestart, NetworkReset, Drop, Return, Done, RestartReturns,
       Sent, sender, caller, nesting, vars, streamVars
  <2>4. queue' = Append(queue, c)
    BY <2>2, <2>3 DEF ConnectToSink
  <2>5. Len(queue') = Len(queue) + 1 /\ queue'[Len(queue) + 1] = c
    BY <1>1, <2>4, AppendProperties
  <2>6. Len(queue) + 1 \in 1 .. Len(queue')
    BY <1>1, <2>5
  <2> QED
    BY <2>5, <2>6
<1>3. CASE cstate[c] = "open"
  <2>1. c = served \/ Queued(c)
    BY <1>1, <1>3 DEF Attended, IsOpen
  <2>2. CASE UNCHANGED <<queue, served>>
    BY <2>1, <2>2
  <2>3. CASE ConnectToSink
    <3>1. served' = served
      BY <2>3 DEF ConnectToSink
    <3>2. PICK x \in Conns : queue' = queue \/ queue' = Append(queue, x)
      BY <2>3, ConnectNew
    <3>3. Queued(c) => Queued(c)'
      <4>1. CASE queue' = Append(queue, x)
        <5>1. Len(queue') = Len(queue) + 1 /\ \A i \in 1 .. Len(queue) : queue'[i] = queue[i]
          BY <1>1, <4>1, AppendProperties
        <5>2. \A i \in 1 .. Len(queue) : i \in 1 .. Len(queue')
          BY <1>1, <5>1
        <5> QED
          BY <5>1, <5>2
      <4> QED
        BY <3>2, <4>1
    <3> QED
      BY <2>1, <3>1, <3>3
  <2>4. CASE Accept
    <3>1. queue # <<>> /\ served' = Head(queue) /\ queue' = Tail(queue) /\ cstate' = Shut(served)
      BY <2>4 DEF Accept
    <3>2. /\ served' = queue[1] /\ Len(queue') = Len(queue) - 1
          /\ \A i \in 1 .. Len(queue') : queue'[i] = queue[i + 1]
      BY <1>1, <3>1, HeadTailProperties
    <3>3. c # served
      BY <1>1, <1>3, <3>1 DEF Shut
    <3>4. PICK i \in 1 .. Len(queue) : queue[i] = c
      BY <2>1, <3>3
    <3>5. CASE i = 1
      BY <3>2, <3>4, <3>5
    <3>6. CASE i # 1
      <4>1. i - 1 \in 1 .. Len(queue') /\ (i - 1) + 1 = i
        BY <1>1, <3>2, <3>6
      <4>2. queue'[i - 1] = c
        BY <3>2, <3>4, <4>1
      <4> QED
        BY <4>1, <4>2
    <3> QED
      BY <3>5, <3>6
  <2>5. CASE Disconnect
    <3>1. served # c /\ queue' = queue
      BY <1>3, <2>5 DEF Disconnect
    <3> QED
      BY <2>1, <3>1
  <2>6. ~SinkRestart
    BY <1>3 DEF SinkRestart
  <2> QED
    BY <2>2, <2>3, <2>4, <2>5, <2>6 DEF StreamNext, Sender, Server, Take, WriteAck, OtherPort, NetworkReset,
       streamVars, sink, port
<1> QED
  BY <1>2, <1>3

\* The last piece of a whole message is on the connection.
LEMMA LastPiecePlace ==
  ASSUME NEW n \in Nat, NEW k \in 1 .. n \div NParts
  PROVE  k * NParts \in 1 .. n
<1>1. NParts \in Nat /\ NParts >= 1
  BY TransferAssumption
<1> DEFINE q == n \div NParts
           r == n % NParts
<1>2. q \in Nat /\ r \in 0 .. NParts - 1 /\ n = NParts * q + r
  BY <1>1, DivMod, DivisionOfNat
<1>3. k \in 1 .. q
  OBVIOUS
<1> HIDE DEF q, r
<1>4. PICK d \in Nat, m \in Nat : q = k + d /\ k = m + 1
  <2>1. q - k \in Nat /\ k - 1 \in Nat /\ q = k + (q - k) /\ k = (k - 1) + 1
    BY <1>2, <1>3
  <2> QED
    BY <2>1
<1>5. NParts * q = NParts * k + NParts * d /\ k * NParts = NParts * k /\ NParts * k = NParts * m + NParts
  BY <1>1, <1>3, <1>4
<1>6. NParts * m \in Nat /\ NParts * d \in Nat
  BY <1>1, <1>4
<1> QED
  BY <1>1, <1>2, <1>5, <1>6

\* The last piece of message k - 1 names the block its first piece names.
LEMMA BlockOfMessage ==
  ASSUME StreamInv, NEW c \in Conns, NEW k \in 1 .. Frames(c)
  PROVE  /\ wire[c][k * NParts].blk = MessageOf(c, k - 1).blk
         /\ k = 1 => wire[c][k * NParts].blk = 0
<1>1. Len(wire[c]) \in Nat /\ WireFramed /\ NParts \in Nat /\ NParts >= 1 /\ Frames(c) \in Nat
  BY WireTypes, FramesTyped, TransferAssumption DEF StreamInv, TransferInv
<1>2. PICK j \in 1 .. Len(wire[c]) : j = k * NParts
  BY <1>1, LastPiecePlace DEF Frames
<1>3. PICK m \in Nat : k = m + 1 /\ m = k - 1
  <2>1. k - 1 \in Nat /\ k = (k - 1) + 1
    BY <1>1
  <2> QED
    BY <2>1
<1>4. (j - 1) \div NParts = m
  <2>1. NParts - 1 \in 0 .. NParts - 1 /\ j = m * NParts + NParts /\ m * NParts \in Nat
    BY <1>1, <1>2, <1>3
  <2>2. j - 1 = m * NParts + (NParts - 1)
    BY <1>1, <2>1
  <2> QED
    BY <1>1, <2>1, <2>2, MidwayQuotient
<1>5. /\ wire[c][j] = Chunk(wire[c][m * NParts + 1], ((j - 1) % NParts) + 1)
      /\ (m = 0) <=> (wire[c][m * NParts + 1].blk = 0)
  <2>1. restarts[c] = 1
    BY <1>2, OnceOnWire
  <2>2. /\ wire[c][j] = Chunk(wire[c][m * NParts + 1], ((j - 1) % NParts) + 1)
        /\ (m < restarts[c]) <=> (wire[c][m * NParts + 1].blk = 0)
    BY <1>1, <1>4 DEF WireFramed
  <2>3. (m < 1) <=> (m = 0)
    BY <1>3
  <2> QED
    BY <2>1, <2>2, <2>3
<1>6. wire[c][j].blk = wire[c][m * NParts + 1].blk
  BY <1>5 DEF Chunk
<1>7. MessageOf(c, k - 1) = wire[c][m * NParts + 1] /\ (k = 1 => m = 0)
  <2>1. MessageOf(c, k - 1) = wire[c][m * NParts + 1]
    BY <1>3 DEF MessageOf
  <2>2. k = 1 => m = 0
    BY <1>3
  <2> QED
    BY <2>1, <2>2
<1> QED
  BY <1>2, <1>5, <1>6, <1>7

\* A sink that is behind on an open connection has that connection to accept or a
\* message to take from it.
LEMMA BehindHasWork ==
  ASSUME StreamInv, Attended, Behind
  PROVE  queue # <<>> \/ Complete
<1>1. PICK c \in Conns, b \in 1 .. MaxBlock :
        cstate[c] = "open" /\ Carries(c, b) /\ ~Settled(b)
  BY DEF Behind
<1>2. PICK k \in 1 .. Frames(c) : wire[c][k * NParts].blk = b
  BY <1>1 DEF Carries
<1>3. c # 0 /\ c \in Nat /\ TransferInv /\ b # 0 /\ Frames(c) \in Nat /\ taken \in Nat
  <2>1. TransferInv /\ TypeOK /\ taken \in Nat
    BY DEF StreamInv, TransferInv, StreamTypeOK
  <2>2. Frames(c) \in Nat
    BY <2>1, FramesTyped
  <2> QED
    BY <2>1, <2>2 DEF Conns
<1>4. MessageOf(c, k - 1).blk = b /\ k # 1
  BY <1>2, <1>3, BlockOfMessage
<1>5. SUFFICES ASSUME queue = <<>> PROVE Complete
  OBVIOUS
<1>6. c = served
  BY <1>1, <1>3, <1>5 DEF Attended, IsOpen
<1>7. ASSUME k <= taken PROVE FALSE
  <2>1. k - 1 \in 1 .. taken - 1
    BY <1>3, <1>4, <1>7
  <2>2. Settled(MessageOf(c, k - 1).blk)
    BY <1>3, <1>6, <2>1 DEF StreamInv, PortInStep
  <2> QED
    BY <1>1, <1>4, <2>2
<1>8. taken < Frames(served) /\ served # 0
  BY <1>3, <1>6, <1>7
<1> QED
  BY <1>8 DEF Complete

\* A sink a call waits for has the connection to accept, the message to take, or the
\* acknowledgement to send.
LEMMA WaitHasWork ==
  ASSUME StreamInv, Attended, WaitsAreAnswered, Waits
  PROVE  queue # <<>> \/ Complete \/ (served # 0 /\ ackNeeded /\ IsOpen(served))
<1>1. /\ mpc = "recv" /\ mode = 1 /\ IsOpen(tsSocket) /\ tsSocket \in Conns
      /\ answered[tsSocket] < Frames(tsSocket)
  BY TransferAssumption DEF StreamInv, TransferInv, Control, TypeOK, Conns, Waits, WaitsAreAnswered, IsOpen
<1>2. SUFFICES ASSUME queue = <<>>, ~(served # 0 /\ ackNeeded /\ IsOpen(served)) PROVE Complete
  OBVIOUS
<1>3. tsSocket = served /\ served # 0
  BY <1>1, <1>2 DEF Attended, IsOpen
<1>4. taken = answered[served] + IF ackNeeded THEN 1 ELSE 0
  BY <1>1, <1>3 DEF StreamInv, Acknowledged, IsOpen
<1>5. taken = answered[served]
  BY <1>1, <1>2, <1>3, <1>4 DEF StreamInv, StreamTypeOK, TransferInv, TypeOK
<1> QED
  BY <1>1, <1>3, <1>5 DEF Complete

\* The sink never leaves a sender waiting with nothing to do: what keeps a call
\* waiting, or a block away from ts_data_transfer, is a turn of the server loop that can be
\* taken.  With the fairness of that loop SinkCatchesUp rests on it.
THEOREM SinkAlwaysHasWork ==
  ASSUME NoEmptyStream, NoOverlap
  PROVE  StreamSpec => []SinkHasWork
<1>1. StreamInit => Attended
  BY DEF StreamInit, Init, Attended, IsOpen, Conns
<1>2. StreamInv /\ Attended /\ [StreamNext]_streamVars => Attended'
  BY AttendedStep
<1>3. StreamSpec => []WaitsAreAnswered
  <2>1. Spec => []WaitsAreAnswered
    BY WaitsStayAnswered
  <2>2. StreamSpec => Spec
    BY StreamIsPeer DEF ImplementsTransfer
  <2> QED
    BY <2>1, <2>2, PTL
<1>4. StreamInv /\ Attended /\ WaitsAreAnswered => SinkHasWork
  BY BehindHasWork, WaitHasWork DEF SinkHasWork
<1> QED
  BY <1>1, <1>2, <1>3, <1>4, StreamInvHolds, PTL DEF StreamSpec


-----------------------------------------------------------------------------
(* The path: a step of the whole is one of the stream and one of the ring    *)

\* What is proved of the ring, for the ring of the path.  The spy of DirectSpy does
\* not appear in it.
RingProofs == INSTANCE SpyRing_proofs WITH
  BlockSize <- StartSize, Sizes <- {1, StartSize}, stored <- newest, ret <- spyRet,
  pos <- 0, LastTimestamp <- 0, buffer <- 0, taken <- 0

\* The ring of the path and the one of its proofs are the same.
LEMMA SameRingInv == (Ring!FeedInv <=> RingProofs!FeedInv) /\ (Ring!FeedInv' <=> RingProofs!FeedInv')
  BY DEF Ring!FeedInv, RingProofs!FeedInv, Ring!CopyInv, RingProofs!CopyInv, Ring!TypeOK,
     RingProofs!TypeOK, Ring!PhaseClean, RingProofs!PhaseClean, Ring!SlotBeingWritten,
     RingProofs!SlotBeingWritten, Ring!SlotsWhole, RingProofs!SlotsWhole, Ring!SpyCopying,
     RingProofs!SpyCopying, Ring!CopySound, RingProofs!CopySound, Ring!AcceptedIntact,
     RingProofs!AcceptedIntact, Ring!StoreProgress, RingProofs!StoreProgress, Ring!SlotsInPlace,
     RingProofs!SlotsInPlace, Ring!LastBlocksThere, RingProofs!LastBlocksThere, Ring!SpiesInOrder,
     RingProofs!SpiesInOrder, Ring!SpyInOrder, RingProofs!SpyInOrder, Ring!SlotOf, RingProofs!SlotOf,
     Ring!Whole, RingProofs!Whole, Ring!Slots, RingProofs!Slots, Ring!Words, RingProofs!Words,
     Ring!Stamps, RingProofs!Stamps, Ring!Settled, RingProofs!Settled

\* They begin in the same states.
LEMMA SameRingInit == Ring!Init <=> RingProofs!Init
  BY DEF Ring!Init, RingProofs!Init, Ring!NoBlock, RingProofs!NoBlock, Ring!NoStamp,
     RingProofs!NoStamp, Ring!Slots, RingProofs!Slots, Ring!Words, RingProofs!Words

\* They take the same steps.
LEMMA SameRingNext == Ring!Next <=> RingProofs!Next
  BY DEF Ring!Rewind, RingProofs!Rewind, Ring!ResetAge, RingProofs!ResetAge, Ring!ClearAge,
     RingProofs!ClearAge, Ring!TsDataTransfer, RingProofs!TsDataTransfer, Ring!Mark, RingProofs!Mark,
     Ring!CopyIn, RingProofs!CopyIn, Ring!Stamp, RingProofs!Stamp, Ring!Bump, RingProofs!Bump,
     Ring!Advance, RingProofs!Advance, Ring!Resize, RingProofs!Resize, Ring!Crash, RingProofs!Crash,
     Ring!Restart, RingProofs!Restart, Ring!OpenIndex, RingProofs!OpenIndex, Ring!OpenAge,
     RingProofs!OpenAge, Ring!KeptLen, RingProofs!KeptLen, Ring!Begins, RingProofs!Begins,
     Ring!Readable, RingProofs!Readable, Ring!ReadNothing, RingProofs!ReadNothing, Ring!ReadAge,
     RingProofs!ReadAge, Ring!CopyOut, RingProofs!CopyOut, Ring!Accept, RingProofs!Accept,
     Ring!Reject, RingProofs!Reject, Ring!Close, RingProofs!Close, Ring!Read, RingProofs!Read,
     Ring!Reader, RingProofs!Reader, Ring!Writer, RingProofs!Writer, Ring!Next, RingProofs!Next,
     Ring!vars, RingProofs!vars, Ring!shared, RingProofs!shared, Ring!writer, RingProofs!writer,
     Ring!reader, RingProofs!reader, Ring!history, RingProofs!history, Ring!Slots, RingProofs!Slots,
     Ring!Words, RingProofs!Words, Ring!Succ, RingProofs!Succ

\* They have the same variables.
LEMMA SameRingVars == Ring!vars = RingProofs!vars /\ Ring!vars' = RingProofs!vars'
  BY DEF Ring!vars, RingProofs!vars, Ring!shared, RingProofs!shared, Ring!writer,
     RingProofs!writer, Ring!reader, RingProofs!reader, Ring!history, RingProofs!history

\* The ring of the path keeps the invariant of the ring.
LEMMA RingStep ==
  ASSUME Ring!FeedInv, [Ring!Next]_(Ring!vars)
  PROVE  Ring!FeedInv'
<1>1. RingProofs!FeedInv /\ [RingProofs!Next]_(RingProofs!vars) => RingProofs!FeedInv'
  BY DataPathAssumption, RingProofs!FeedInvStep
<1> QED
  BY <1>1, SameRingInv, SameRingNext, SameRingVars

\* It holds when main is about to initialise the area.
LEMMA RingStart == Ring!Init => Ring!FeedInv
<1>1. RingProofs!Init => RingProofs!FeedInv
  BY DataPathAssumption, RingProofs!FeedInvInit
<1> QED
  BY <1>1, SameRingInv, SameRingInit

\* Every step of the path is one of the stream or leaves it alone.
LEMMA PathIsStream ==
  ASSUME [PathNext]_pathVars
  PROVE  [StreamNext]_streamVars
<1>1. PathSender \/ PortTurn \/ TakeMessage \/ SinkKilled \/ PathReset => StreamNext
  BY DEF PathSender, PortTurn, TakeMessage, SinkKilled, PathReset, StreamNext, Server
<1>2. StoreStep \/ SinkStarts \/ (\E r \in Readers : Spy(r)) \/ UNCHANGED pathVars => UNCHANGED streamVars
  BY DEF StoreStep, SinkStarts, Spy, pathVars
<1> QED
  BY <1>1, <1>2 DEF PathNext

\* Every step of the path is one of the ring or leaves it alone: a restart message
\* is a new size, or the same.
LEMMA PathIsRing ==
  ASSUME StreamInv, [PathNext]_pathVars
  PROVE  [Ring!Next]_(Ring!vars)
<1>0. UNCHANGED ring => UNCHANGED Ring!vars
  BY DEF ring, slots, store, spies, told, Ring!vars, Ring!shared, Ring!writer, Ring!reader, Ring!history
<1>1. CASE PathSender \/ PortTurn \/ PathReset \/ UNCHANGED pathVars
  BY <1>0, <1>1 DEF PathSender, PortTurn, PathReset, pathVars
<1>2. CASE TakeMessage
  <2>1. CASE Message.blk # 0
    BY <1>2, <2>1 DEF TakeMessage, Ring!Next, Ring!Writer
  <2>2. CASE Message.blk = 0
    <3>1. wpc = "idle" /\ transferSize' = BlockSize /\ UNCHANGED <<slots, store, spies, told>>
      BY <1>2, <2>2 DEF TakeMessage, Announced, Serving
    <3>2. BlockSize \in {1, StartSize}
      BY DataPathAssumption DEF StreamInv, StreamTypeOK
    <3>3. CASE BlockSize = transferSize
      <4>1. UNCHANGED ring
        BY <3>1, <3>3 DEF ring
      <4> QED
        BY <1>0, <4>1
    <3>4. CASE BlockSize # transferSize
      <4>1. Ring!Resize(BlockSize)
        BY <3>1, <3>4 DEF Ring!Resize, slots, store, spies, told, Ring!shared, Ring!reader, Ring!history
      <4> QED
        BY <3>2, <4>1 DEF Ring!Next, Ring!Writer
    <3> QED
      BY <3>3, <3>4
  <2> QED
    BY <2>1, <2>2
<1>3. CASE StoreStep
  BY <1>3 DEF StoreStep, Ring!Next, Ring!Writer
<1>4. CASE SinkKilled \/ SinkStarts
  BY <1>4 DEF SinkKilled, SinkStarts, Ring!Next, Ring!Writer
<1>5. CASE \E r \in Readers : Spy(r)
  BY <1>5 DEF Spy, Ring!Next, Ring!Reader, Ring!Read
<1> QED
  BY <1>1, <1>2, <1>3, <1>4, <1>5 DEF PathNext

-----------------------------------------------------------------------------
(* What the steps of the path change                                        *)

\* Types of what the path knows beside its stream
LEMMA PathTyped ==
  ASSUME PathInv
  PROVE  /\ StreamInv /\ Ring!TypeOK /\ Ring!FeedInv /\ handled \in Seq(Entries)
         /\ LastHandled.blk \in 0 .. MaxBlock /\ (handled # <<>> => LastHandled.blk \in 1 .. MaxBlock)
         /\ MaxBlock \in Nat /\ newest \in Nat \cup {-1} /\ taken \in Nat
         /\ last \in [Readers -> Nat \cup {-1}] /\ got \in [Readers -> Seq(1 .. MaxBlock)]
         /\ numbers \in Seq(1 .. MaxBlock) /\ Len(numbers) = newest + 1 /\ Len(numbers) \in Nat
<1>1. StreamInv /\ Ring!FeedInv /\ Ring!TypeOK
  BY DEF PathInv, Ring!FeedInv, Ring!CopyInv
<1>2. handled \in Seq(Entries) /\ taken \in Nat
  BY <1>1 DEF StreamInv, StreamTypeOK, Entries
<1>3. MaxBlock \in Nat
  BY TransferAssumption
<1>4. newest \in Nat \cup {-1} /\ last \in [Readers -> Nat \cup {-1}]
  BY <1>1 DEF Ring!TypeOK
<1>5. numbers \in Seq(1 .. MaxBlock) /\ Len(numbers) = newest + 1
  BY DEF PathInv, Numbered
<1>6. Len(numbers) \in Nat
  BY <1>5, LenProperties
<1>7. LastHandled.blk \in 0 .. MaxBlock /\ (handled # <<>> => LastHandled.blk \in 1 .. MaxBlock)
  BY <1>1, <1>3, LastTyped
<1>8. got \in [Readers -> Seq(1 .. MaxBlock)]
  BY DEF PathInv, Heard
<1> QED
  BY <1>1, <1>2, <1>3, <1>4, <1>5, <1>6, <1>7, <1>8

\* A store begins an epoch, publishes a block, or changes neither what is published
\* nor what is on its way.
LEMMA StoreCases ==
  ASSUME Ring!TypeOK, StoreStep
  PROVE  /\ UNCHANGED <<streamVars, got, transferSize, job>>
         /\ Listening => Listening'
         /\ \/ /\ wpc = "rewind" /\ numbers' = <<>> /\ newest' = -1 /\ last' = [r \in Readers |-> -1]
               /\ Pending' <=> Pending
            \/ /\ Ring!Stamp /\ numbers' = Append(numbers, LastHandled.blk) /\ newest' = currentage
               /\ last' = last /\ Pending /\ ~Pending'
            \/ UNCHANGED <<numbers, newest, last>> /\ (Pending' <=> Pending)
<1> USE DEF Listening, Pending, Ring!history
<1>1. UNCHANGED <<streamVars, got>>
  BY DEF StoreStep
<1>2. CASE Ring!Rewind /\ numbers' = <<>>
  BY <1>1, <1>2 DEF Ring!Rewind
<1>3. CASE Ring!Stamp /\ numbers' = Append(numbers, LastHandled.blk)
  BY <1>1, <1>3 DEF Ring!Stamp
<1>4. CASE Ring!ResetAge /\ UNCHANGED numbers
  BY <1>1, <1>4 DEF Ring!ResetAge
<1>5. CASE Ring!ClearAge /\ UNCHANGED numbers
  BY <1>1, <1>5 DEF Ring!ClearAge, Ring!TypeOK
<1>6. CASE Ring!Mark /\ UNCHANGED numbers
  BY <1>1, <1>6 DEF Ring!Mark
<1>7. ASSUME NEW w \in Ring!Words, Ring!CopyIn(w), UNCHANGED numbers
      PROVE  /\ UNCHANGED <<transferSize, job, numbers, newest, last>>
             /\ (Listening => Listening') /\ (Pending' <=> Pending)
  BY <1>7 DEF Ring!CopyIn
<1>8. CASE (Ring!Bump \/ Ring!Advance) /\ UNCHANGED numbers
  BY <1>1, <1>8 DEF Ring!Bump, Ring!Advance
<1> QED
  BY <1>1, <1>2, <1>3, <1>4, <1>5, <1>6, <1>7, <1>8 DEF StoreStep

\* A spy opens the area, is given a whole block, or is given nothing.
LEMMA SpyCases ==
  ASSUME Ring!TypeOK, got \in [Readers -> Seq(1 .. MaxBlock)], NEW r \in Readers, Spy(r)
  PROVE  /\ UNCHANGED <<streamVars, numbers, newest, transferSize, job, wpc>>
         /\ \/ Ring!OpenAge(r) /\ got' = [got EXCEPT ![r] = <<>>]
               /\ \A q \in Readers : q # r => last'[q] = last[q]
            \/ /\ Ring!Accept(r) /\ calm[r] /\ got' = [got EXCEPT ![r] = Append(@, Content(r))]
               /\ last' = [last EXCEPT ![r] = current_age[r]]
            \/ UNCHANGED <<got, last>>
<1> USE DEF Ring!shared, Ring!writer, Ring!history, Ring!TypeOK
<1>1. UNCHANGED <<streamVars, numbers>>
  BY DEF Spy
<1>2. CASE Ring!OpenAge(r) /\ got' = [got EXCEPT ![r] = <<>>]
  BY <1>1, <1>2 DEF Ring!OpenAge
<1>3. CASE Ring!Accept(r) /\ got' = [got EXCEPT ![r] = IF calm[r] THEN Append(@, Content(r)) ELSE @]
  BY <1>1, <1>3 DEF Ring!Accept
<1>4. CASE /\ \/ Ring!OpenIndex(r) \/ Ring!ReadNothing(r) \/ Ring!ReadAge(r) \/ Ring!CopyOut(r)
              \/ Ring!Reject(r) \/ Ring!Close(r)
           /\ UNCHANGED got
  BY <1>1, <1>4 DEF Ring!OpenIndex, Ring!ReadNothing, Ring!ReadAge, Ring!CopyOut, Ring!Reject, Ring!Close
<1> QED
  BY <1>2, <1>3, <1>4 DEF Spy

\* A message is taken between two blocks: a restart message announces the size, a
\* block is stored by the sequence check and is on its way into the ring.
LEMMA TakeCases ==
  ASSUME PathInv, TakeMessage
  PROVE  /\ Take /\ wpc = "idle" /\ ~Pending /\ Listening /\ Listening'
         /\ UNCHANGED <<numbers, got, newest, last, served, queue, BlockSize, sender, network>>
         /\ taken' = taken + 1
         /\ \/ /\ taken = 0 /\ transferSize' = BlockSize /\ handled' = handled /\ UNCHANGED <<wpc, job>>
               /\ ~Pending'
            \/ /\ taken >= 1 /\ UNCHANGED transferSize /\ Pending' /\ Message.blk # 0
               /\ handled' # <<>> /\ LastHandled'.blk \in Int /\ LastHandled.blk < LastHandled'.blk
<1>1. Take /\ wpc = "idle" /\ UNCHANGED <<numbers, got>>
  BY DEF TakeMessage, Serving
<1>2. taken' = taken + 1 /\ UNCHANGED <<served, queue, BlockSize, sender, network>>
  BY <1>1 DEF Take
<1>3. /\ Complete /\ served \in Conns /\ taken \in Nat /\ (Message.blk = 0 <=> taken = 0)
  BY <1>1, PathTyped, MessageTaken DEF Take
<1>4. ~Pending /\ Listening
  BY <1>1 DEF Pending, Listening
<1>5. CASE Message.blk = 0
  <2>1. transferSize' = BlockSize /\ UNCHANGED <<wpc, job, newest, last>> /\ handled' = handled
    BY <1>1, <1>5 DEF TakeMessage, Announced, store, told, Take
  <2> QED
    BY <1>1, <1>2, <1>3, <1>4, <1>5, <2>1 DEF Pending, Listening
<1>6. CASE Message.blk # 0
  <2>1. Ring!TsDataTransfer
    BY <1>6 DEF TakeMessage
  <2>2. /\ UNCHANGED <<transferSize, newest, last>>
        /\ wpc' = "mark" \/ (wpc' = "rewind" /\ job' = "store")
    BY <2>1 DEF Ring!TsDataTransfer, Ring!history
  <2>3. Pending' /\ Listening'
    BY <2>2 DEF Pending, Listening
  <2>4. handled' # <<>>
    BY <1>1, <1>6, HandledLast, PathTyped
  <2>5. LastHandled'.blk \in Int /\ LastHandled.blk < LastHandled'.blk
    <3>1. Blocks!Continue \/ Blocks!Resume
      BY <1>1, <1>6, TakeIsDelivery, PathTyped
    <3>2. LastHandled.blk \in Int
      BY PathTyped
    <3>3. LastHandled'.blk = Message.blk /\ Message.blk \in 0 .. MaxBlock
      BY <1>1, <1>6, HandledLast, MessageTaken, PathTyped DEF Take
    <3> QED
      BY <3>1, <3>2, <3>3, PathTyped DEF Blocks!Continue, Blocks!Resume
  <2>6. taken >= 1
    BY <1>3, <1>6
  <2> QED
    BY <1>1, <1>2, <1>4, <1>6, <2>2, <2>3, <2>4, <2>5, <2>6
<1> QED
  BY <1>5, <1>6

\* The sender, the port's other turns and the network do not touch the ring.
LEMMA RingAlone ==
  ASSUME PathSender \/ PortTurn \/ PathReset \/ UNCHANGED pathVars
  PROVE  UNCHANGED <<ring, numbers, got>> /\ (Pending' <=> Pending) /\ (Listening' <=> Listening)
<1>1. UNCHANGED <<ring, numbers, got>>
  BY DEF PathSender, PortTurn, PathReset, pathVars
<1> QED
  BY <1>1 DEF ring, store, Pending, Listening

\* They store nothing either.
LEMMA NothingHandled ==
  ASSUME StreamInv, [PathNext]_pathVars, ~TakeMessage
  PROVE  handled' = handled /\ LastHandled' = LastHandled
<1>1. ConnectToSink \/ UNCHANGED sink => handled' = handled
  BY DEF ConnectToSink, sink, area
<1>2. Sender \/ NetworkReset => handled' = handled
  BY <1>1 DEF Sender, NetworkReset
<1>3. PathSender \/ PortTurn \/ SinkKilled \/ PathReset => handled' = handled
  BY <1>2 DEF PathSender, PortTurn, SinkKilled, PathReset, Accept, WriteAck, Disconnect, OtherPort,
     SinkRestart, area
<1>4. StoreStep \/ SinkStarts \/ (\E r \in Readers : Spy(r)) \/ UNCHANGED pathVars => UNCHANGED streamVars
  BY DEF StoreStep, SinkStarts, Spy, pathVars
<1>5. UNCHANGED streamVars => handled' = handled
  BY DEF streamVars, sink, area
<1>6. handled' = handled
  BY <1>3, <1>4, <1>5 DEF PathNext
<1> QED
  BY <1>6 DEF LastHandled

\* A sink that is killed has no connections and nothing on its way; when it is
\* started again nothing has come since.
LEMMA KillCases ==
  ASSUME SinkKilled \/ SinkStarts
  PROVE  /\ ~Pending' /\ UNCHANGED <<numbers, newest, last, got, sender, wire, acks>>
         /\ \/ SinkKilled /\ served' = 0 /\ queue' = <<>> /\ job' = job
            \/ SinkStarts /\ wpc = "down" /\ UNCHANGED streamVars /\ job' = "serve"
<1>1. CASE SinkKilled
  BY <1>1 DEF SinkKilled, SinkRestart, Ring!Crash, Ring!history, Pending
<1>2. CASE SinkStarts
  BY <1>2 DEF SinkStarts, Ring!Restart, Ring!history, Pending, streamVars, vars, sender, network
<1> QED
  BY <1>1, <1>2

-----------------------------------------------------------------------------
(* One lemma per conjunct of PathInv                                        *)

\* Every step keeps the connections away from a sink that does not listen.
LEMMA NobodyBeforeStep ==
  ASSUME PathInv, [PathNext]_pathVars
  PROVE  NobodyBefore'
<1>1. NobodyBefore /\ StreamInv
  BY DEF PathInv
<1>2. CASE PathSender
  <2>1. UNCHANGED served /\ (Listening' <=> Listening)
    BY <1>2, RingAlone DEF PathSender, Sender, ConnectToSink, sink, port
  <2>2. CASE ConnectToSink /\ mpc' = "restart"
    BY <1>2, <2>1, <2>2 DEF PathSender, ConnectToSink, Connect, NobodyBefore
  <2>3. CASE ~(ConnectToSink /\ mpc' = "restart")
    <3>1. queue' = queue
      BY <1>2, <2>3 DEF PathSender, Sender, ConnectToSink, sink, port
    <3> QED
      BY <1>1, <2>1, <3>1 DEF NobodyBefore
  <2> QED
    BY <2>2, <2>3
<1>3. CASE PortTurn
  BY <1>3, RingAlone DEF PortTurn, Serving, Listening, NobodyBefore
<1>4. CASE TakeMessage
  BY <1>4, TakeCases DEF NobodyBefore
<1>5. CASE StoreStep
  BY <1>1, <1>5, StoreCases, PathTyped DEF NobodyBefore, streamVars, sink, port
<1>6. CASE SinkKilled \/ SinkStarts
  <2>1. wpc = "down" => ~Listening
    BY DEF Listening
  <2> QED
    BY <1>1, <1>6, <2>1, KillCases DEF NobodyBefore, streamVars, sink, port
<1>7. ASSUME NEW r \in Readers, Spy(r) PROVE NobodyBefore'
  BY <1>1, <1>7, SpyCases, PathTyped DEF NobodyBefore, Listening, streamVars, sink, port
<1>8. CASE PathReset
  BY <1>1, <1>8, RingAlone DEF PathReset, NetworkReset, sink, port, NobodyBefore
<1>9. CASE UNCHANGED pathVars
  BY <1>1, <1>9, RingAlone DEF pathVars, streamVars, sink, port, NobodyBefore
<1> QED
  BY <1>2, <1>3, <1>4, <1>5, <1>6, <1>7, <1>8, <1>9 DEF PathNext

\* Every step keeps the size of the ring's port that of the sender served.
LEMMA SizesAgreeStep ==
  ASSUME PathInv, [PathNext]_pathVars
  PROVE  SizesAgree'
<1>1. SizesAgree /\ NobodyBefore
  BY DEF PathInv
<1>2. CASE PathSender \/ PathReset \/ UNCHANGED pathVars
  <2>1. UNCHANGED <<served, taken, transferSize, BlockSize>>
    BY <1>2, RingAlone DEF PathSender, Sender, ConnectToSink, PathReset, NetworkReset, pathVars, streamVars,
       ring, sink, port
  <2> QED
    BY <1>1, <2>1 DEF SizesAgree
<1>3. CASE PortTurn
  <2>1. UNCHANGED <<transferSize, BlockSize>>
    BY <1>3, RingAlone DEF PortTurn, Accept, WriteAck, Disconnect, OtherPort, ring
  <2>2. \/ taken' = 0 \/ served' = 0 \/ UNCHANGED <<served, taken>>
    BY <1>3 DEF PortTurn, Accept, NewClient, WriteAck, Disconnect, OtherPort, port
  <2> QED
    BY <1>1, <2>1, <2>2 DEF SizesAgree
<1>4. CASE TakeMessage
  BY <1>1, <1>4, TakeCases, PathTyped DEF SizesAgree
<1>5. CASE StoreStep
  BY <1>1, <1>5, StoreCases, PathTyped DEF SizesAgree, streamVars, sink, port
<1>6. CASE SinkKilled \/ SinkStarts
  <2>1. wpc = "down" => served = 0
    BY <1>1 DEF Listening, NobodyBefore
  <2> QED
    BY <1>1, <1>6, <2>1, KillCases DEF SizesAgree, streamVars, sink, port
<1>7. ASSUME NEW r \in Readers, Spy(r) PROVE SizesAgree'
  BY <1>1, <1>7, SpyCases, PathTyped DEF SizesAgree, streamVars, sink, port
<1> QED
  BY <1>2, <1>3, <1>4, <1>5, <1>6, <1>7 DEF PathNext

\* Every step keeps the numbers of the ring's blocks in order.
LEMMA NumberedStep ==
  ASSUME PathInv, [PathNext]_pathVars
  PROVE  Numbered'
<1>1. Numbered
  BY DEF PathInv
<1>2. /\ StreamInv /\ Ring!TypeOK /\ LastHandled.blk \in 0 .. MaxBlock /\ MaxBlock \in Nat
      /\ (handled # <<>> => LastHandled.blk \in 1 .. MaxBlock)
      /\ newest \in Nat \cup {-1} /\ numbers \in Seq(1 .. MaxBlock) /\ Len(numbers) = newest + 1 /\ Len(numbers) \in Nat
      /\ \A k \in 1 .. Len(numbers) : numbers[k] \in 1 .. MaxBlock
  BY PathTyped, ElementOfSeq
<1>3. CASE UNCHANGED <<numbers, newest, handled>> /\ (Pending' => Pending)
  BY <1>1, <1>3 DEF Numbered, LastHandled
<1>4. CASE TakeMessage
  <2>1. CASE handled' = handled /\ ~Pending'
    BY <1>3, <1>4, <2>1, TakeCases
  <2>2. CASE handled' # <<>> /\ LastHandled'.blk \in Int /\ LastHandled.blk < LastHandled'.blk
    <3>1. UNCHANGED <<numbers, newest>>
      BY <1>4, TakeCases
    <3> QED
      BY <1>1, <1>2, <2>2, <3>1 DEF Numbered
  <2> QED
    BY <1>4, <2>1, <2>2, TakeCases
<1>5. CASE StoreStep
  <2>1. handled' = handled /\ LastHandled' = LastHandled
    BY <1>2, <1>5, StoreCases DEF streamVars, sink, area, LastHandled
  <2>2. CASE numbers' = <<>> /\ newest' = -1 /\ (Pending' <=> Pending)
    <3>1. Len(numbers') = 0 /\ numbers' \in Seq(1 .. MaxBlock)
      BY <2>2, EmptySeq
    <3> QED
      BY <1>1, <2>1, <2>2, <3>1 DEF Numbered
  <2>3. CASE Ring!Stamp /\ numbers' = Append(numbers, LastHandled.blk) /\ newest' = currentage /\ Pending /\ ~Pending'
    <3>1. newest = currentage - 1 /\ currentage \in Nat
      BY <2>3, PathTyped DEF Ring!Stamp, Ring!FeedInv, Ring!CopyInv, Ring!PhaseClean, Ring!StoreProgress,
         Ring!Settled, Ring!TypeOK
    <3>2. LastHandled.blk \in 1 .. MaxBlock
      BY <1>1, <1>2, <2>3 DEF Numbered
    <3>3. /\ numbers' \in Seq(1 .. MaxBlock) /\ Len(numbers') = Len(numbers) + 1
          /\ numbers'[Len(numbers) + 1] = LastHandled.blk
          /\ \A k \in 1 .. Len(numbers) : numbers'[k] = numbers[k]
      BY <1>2, <2>3, <3>2, AppendProperties
    <3>4. \A k \in 1 .. Len(numbers) : numbers[k] < LastHandled.blk
      BY <1>1, <2>3 DEF Numbered
    <3>5. Len(numbers') = newest' + 1
      BY <1>2, <2>3, <3>1, <3>3
    <3>6. \A i, k \in 1 .. Len(numbers') : i < k => numbers'[i] < numbers'[k]
      <4>1. ASSUME NEW i \in 1 .. Len(numbers'), NEW k \in 1 .. Len(numbers'), i < k
            PROVE  numbers'[i] < numbers'[k]
        <5>1. i \in 1 .. Len(numbers) /\ numbers'[i] = numbers[i]
          BY <1>2, <3>3, <4>1
        <5>2. CASE k = Len(numbers) + 1
          BY <3>3, <3>4, <5>1, <5>2
        <5>3. CASE k \in 1 .. Len(numbers)
          BY <1>1, <3>3, <4>1, <5>1, <5>3 DEF Numbered
        <5> QED
          BY <1>2, <3>3, <5>2, <5>3
      <4> QED
        BY <4>1
    <3>7. \A k \in 1 .. Len(numbers') : numbers'[k] <= LastHandled.blk
      <4>1. ASSUME NEW k \in 1 .. Len(numbers') PROVE numbers'[k] <= LastHandled.blk
        <5>1. CASE k = Len(numbers) + 1
          BY <3>2, <3>3, <5>1, <1>2
        <5>2. CASE k \in 1 .. Len(numbers)
          BY <1>2, <3>2, <3>3, <3>4, <5>2
        <5> QED
          BY <1>2, <3>3, <5>1, <5>2
      <4> QED
        BY <4>1
    <3> QED
      BY <2>1, <2>3, <3>3, <3>5, <3>6, <3>7 DEF Numbered
  <2> QED
    BY <1>2, <1>3, <1>5, <2>1, <2>2, <2>3, StoreCases
<1>6. CASE SinkKilled \/ SinkStarts
  BY <1>2, <1>3, <1>6, KillCases, NothingHandled, TakeCases DEF PathNext
<1>7. ASSUME NEW r \in Readers, Spy(r) PROVE Numbered'
  <2>1. UNCHANGED <<numbers, newest, job, wpc, streamVars>>
    BY <1>2, <1>7, SpyCases, PathTyped
  <2> QED
    BY <1>3, <2>1 DEF Pending, streamVars, sink, area
<1>8. CASE PathSender \/ PortTurn \/ PathReset \/ UNCHANGED pathVars
  <2>1. UNCHANGED <<numbers, newest>> /\ (Pending' <=> Pending)
    BY <1>8, RingAlone DEF ring, told
  <2> QED
    BY <1>2, <1>3, <1>4, <2>1, NothingHandled
<1> QED
  BY <1>4, <1>5, <1>6, <1>7, <1>8 DEF PathNext

\* A spy that accepts a calm copy is given the block of the age it loaded, later than
\* all it was given since it opened.
LEMMA AcceptIsNewer ==
  ASSUME PathInv, NEW r \in Readers, Ring!Accept(r), calm[r]
  PROVE  /\ current_age[r] \in Nat /\ current_age[r] + 1 \in 1 .. Len(numbers)
         /\ Content(r) = numbers[current_age[r] + 1]
         /\ Content(r) \in 1 .. MaxBlock /\ Far!Latest(r) < Content(r)
<1>1. /\ Ring!SpyInOrder(r) /\ Ring!CopySound(r) /\ Ring!TypeOK
      /\ rpc[r] = "check" /\ age[next_index[r]] = current_age[r]
  BY DEF PathInv, Ring!FeedInv, Ring!CopyInv, Ring!SpiesInOrder, Ring!SpyCopying, Ring!Accept
<1>2. current_age[r] \in Nat /\ last[r] \in Nat \cup {-1} /\ newest \in Nat \cup {-1}
  BY <1>1 DEF Ring!TypeOK
<1>3. current_age[r] <= newest /\ last[r] < current_age[r]
  BY <1>1 DEF Ring!SpyInOrder
<1>4. current_age[r] + 1 \in 1 .. Len(numbers) /\ current_age[r] + 1 > last[r] + 1
  <2>1. Len(numbers) = newest + 1
    BY PathTyped
  <2> QED
    BY <1>2, <1>3, <2>1
<1>5. buf[r][0] = <<epoch, current_age[r]>>
  <2>1. 0 \in Ring!Words /\ 0 < word[r]
    BY <1>1, DataPathAssumption DEF Ring!Words, Ring!CopySound
  <2> QED
    BY <1>1, <2>1 DEF Ring!CopySound
<1>6. Content(r) = numbers[current_age[r] + 1]
  BY <1>5 DEF Content
<1>7. Content(r) \in 1 .. MaxBlock
  <2>1. PICK k \in 1 .. Len(numbers) : k = current_age[r] + 1
    BY <1>4
  <2>2. numbers \in Seq(1 .. MaxBlock)
    BY PathTyped
  <2>3. numbers[k] \in 1 .. MaxBlock
    BY <2>2, ElementOfSeq
  <2> QED
    BY <1>6, <2>1, <2>3
<1>8. Far!Latest(r) < Content(r)
  BY <1>4, <1>6 DEF PathInv, Heard
<1> QED
  BY <1>2, <1>4, <1>6, <1>7, <1>8

\* The latest block of a spy is a number.
LEMMA LatestTyped ==
  ASSUME PathInv, NEW r \in Readers
  PROVE  Far!Latest(r) \in 0 .. MaxBlock
<1>1. got[r] \in Seq(1 .. MaxBlock) /\ MaxBlock \in Nat
  BY PathTyped
<1>2. CASE got[r] = <<>>
  BY <1>1, <1>2 DEF Far!Latest
<1>3. CASE got[r] # <<>>
  <2>1. Len(got[r]) \in 1 .. Len(got[r])
    BY <1>1, <1>3, LenProperties, EmptySeq
  <2>2. got[r][Len(got[r])] \in 1 .. MaxBlock
    BY <1>1, <2>1, ElementOfSeq
  <2> QED
    BY <1>1, <1>3, <2>2 DEF Far!Latest
<1> QED
  BY <1>2, <1>3

\* Every step keeps the spies behind what they may still be given.
LEMMA HeardStep ==
  ASSUME PathInv, [PathNext]_pathVars
  PROVE  Heard'
<1>1. Heard /\ Numbered
  BY DEF PathInv
<1>2. /\ StreamInv /\ Ring!TypeOK /\ LastHandled.blk \in 0 .. MaxBlock /\ MaxBlock \in Nat
      /\ (handled # <<>> => LastHandled.blk \in 1 .. MaxBlock)
      /\ last \in [Readers -> Nat \cup {-1}] /\ got \in [Readers -> Seq(1 .. MaxBlock)]
      /\ newest \in Nat \cup {-1} /\ numbers \in Seq(1 .. MaxBlock) /\ Len(numbers) = newest + 1 /\ Len(numbers) \in Nat
      /\ \A k \in 1 .. Len(numbers) : numbers[k] \in 1 .. MaxBlock
      /\ \A r \in Readers : Far!Latest(r) \in 0 .. MaxBlock
  BY PathTyped, ElementOfSeq, LatestTyped
<1>0. got' = got => \A r \in Readers : Far!Latest(r)' = Far!Latest(r)
  BY DEF Far!Latest
<1>3. CASE UNCHANGED <<numbers, got, last, handled>> /\ (Pending' => Pending)
  BY <1>0, <1>1, <1>3 DEF Heard, LastHandled
<1>4. CASE TakeMessage
  <2>1. CASE handled' = handled /\ ~Pending'
    BY <1>3, <1>4, <2>1, TakeCases
  <2>2. CASE LastHandled'.blk \in Int /\ LastHandled.blk < LastHandled'.blk
    <3>1. UNCHANGED <<numbers, got, last>>
      BY <1>4, TakeCases
    <3> QED
      BY <1>0, <1>1, <1>2, <2>2, <3>1 DEF Heard
  <2> QED
    BY <1>4, <2>1, <2>2, TakeCases
<1>5. CASE StoreStep
  <2>1. handled' = handled /\ LastHandled' = LastHandled /\ got' = got
    BY <1>2, <1>5, StoreCases DEF streamVars, sink, area, LastHandled
  <2>2. CASE numbers' = <<>> /\ (Pending' <=> Pending)
    <3>1. Len(numbers') = 0
      BY <2>2
    <3> QED
      BY <1>0, <1>1, <1>2, <2>1, <2>2, <3>1 DEF Heard
  <2>3. CASE numbers' = Append(numbers, LastHandled.blk) /\ Pending /\ ~Pending' /\ last' = last
    <3>1. LastHandled.blk \in 1 .. MaxBlock
      BY <1>1, <1>2, <2>3 DEF Numbered
    <3>2. /\ Len(numbers') = Len(numbers) + 1 /\ numbers'[Len(numbers) + 1] = LastHandled.blk
          /\ \A k \in 1 .. Len(numbers) : numbers'[k] = numbers[k]
      BY <1>2, <2>3, <3>1, AppendProperties
    <3>3. ASSUME NEW r \in Readers, NEW k \in 1 .. Len(numbers'), k > last[r] + 1
          PROVE  Far!Latest(r) < numbers'[k]
      <4>1. CASE k = Len(numbers) + 1
        BY <1>1, <2>3, <3>2, <4>1 DEF Heard
      <4>2. CASE k \in 1 .. Len(numbers)
        BY <1>1, <3>2, <3>3, <4>2 DEF Heard
      <4> QED
        BY <1>2, <3>2, <4>1, <4>2
    <3> QED
      BY <1>0, <1>1, <2>1, <2>3, <3>3 DEF Heard
  <2> QED
    BY <1>2, <1>3, <1>5, <2>1, <2>2, <2>3, StoreCases
<1>6. CASE SinkKilled \/ SinkStarts
  <2>1. UNCHANGED <<numbers, got, last>> /\ ~Pending'
    BY <1>6, KillCases
  <2>2. handled' = handled
    BY <1>6 DEF SinkKilled, SinkRestart, SinkStarts, streamVars, sink, area
  <2> QED
    BY <1>3, <2>1, <2>2
<1>7. ASSUME NEW r \in Readers, Spy(r) PROVE Heard'
  <2>1. UNCHANGED <<numbers, newest, job, wpc, streamVars>>
    BY <1>2, <1>7, SpyCases
  <2>2. (Pending' <=> Pending) /\ handled' = handled /\ LastHandled' = LastHandled
    BY <2>1 DEF Pending, streamVars, sink, area, LastHandled
  <2>3. CASE UNCHANGED <<got, last>>
    BY <1>3, <2>1, <2>2, <2>3
  <2>4. CASE got' = [got EXCEPT ![r] = <<>>] /\ \A q \in Readers : q # r => last'[q] = last[q]
    <3>1. got' \in [Readers -> Seq(1 .. MaxBlock)]
      BY <1>2, <2>4, EmptySeq
    <3>2. Far!Latest(r)' = 0
      BY <1>2, <2>4 DEF Far!Latest
    <3>3. ASSUME NEW q \in Readers, q # r PROVE Far!Latest(q)' = Far!Latest(q) /\ last'[q] = last[q]
      BY <1>2, <2>4, <3>3 DEF Far!Latest
    <3>4. Pending => LastHandled.blk > 0
      BY <1>1, <1>2 DEF Numbered
    <3>5. ASSUME NEW q \in Readers
          PROVE  /\ Far!Latest(q)' <= LastHandled'.blk /\ (Pending' => Far!Latest(q)' < LastHandled'.blk)
                 /\ \A k \in 1 .. Len(numbers') : k > last'[q] + 1 => Far!Latest(q)' < numbers'[k]
      <4>1. CASE q = r
        BY <1>2, <2>1, <2>2, <3>2, <3>4, <4>1
      <4>2. CASE q # r
        BY <1>1, <2>1, <2>2, <3>3, <4>2 DEF Heard
      <4> QED
        BY <4>1, <4>2
    <3> QED
      BY <3>1, <3>5 DEF Heard
  <2>5. CASE /\ Ring!Accept(r) /\ calm[r] /\ got' = [got EXCEPT ![r] = Append(@, Content(r))]
             /\ last' = [last EXCEPT ![r] = current_age[r]]
    <3>1. /\ current_age[r] \in Nat /\ current_age[r] + 1 \in 1 .. Len(numbers)
          /\ Content(r) = numbers[current_age[r] + 1] /\ Content(r) \in 1 .. MaxBlock
      BY <2>5, AcceptIsNewer
    <3>2. /\ Append(got[r], Content(r)) \in Seq(1 .. MaxBlock) /\ Append(got[r], Content(r)) # <<>>
          /\ Len(Append(got[r], Content(r))) = Len(got[r]) + 1
          /\ Append(got[r], Content(r))[Len(got[r]) + 1] = Content(r)
      <4>1. PICK g \in Seq(1 .. MaxBlock), b \in 1 .. MaxBlock : g = got[r] /\ b = Content(r)
        BY <1>2, <3>1
      <4>2. /\ Append(g, b) \in Seq(1 .. MaxBlock) /\ Append(g, b) # <<>>
            /\ Len(Append(g, b)) = Len(g) + 1 /\ Append(g, b)[Len(g) + 1] = b
        BY AppendProperties
      <4> QED
        BY <4>1, <4>2
    <3>3. got' \in [Readers -> Seq(1 .. MaxBlock)] /\ got'[r] = Append(got[r], Content(r)) /\ last'[r] = current_age[r]
      BY <1>2, <2>5, <3>2
    <3>4. Far!Latest(r)' = Content(r)
      BY <3>2, <3>3 DEF Far!Latest
    <3>5. ASSUME NEW q \in Readers, q # r PROVE Far!Latest(q)' = Far!Latest(q) /\ last'[q] = last[q]
      BY <1>2, <2>5, <3>5 DEF Far!Latest
    <3>6. ASSUME NEW q \in Readers
          PROVE  /\ Far!Latest(q)' <= LastHandled'.blk /\ (Pending' => Far!Latest(q)' < LastHandled'.blk)
                 /\ \A k \in 1 .. Len(numbers') : k > last'[q] + 1 => Far!Latest(q)' < numbers'[k]
      <4>1. CASE q = r
        BY <1>1, <2>1, <2>2, <3>1, <3>3, <3>4, <4>1 DEF Numbered
      <4>2. CASE q # r
        BY <1>1, <2>1, <2>2, <3>5, <4>2 DEF Heard
      <4> QED
        BY <4>1, <4>2
    <3> QED
      BY <3>3, <3>6 DEF Heard
  <2> QED
    BY <1>2, <1>7, <2>3, <2>4, <2>5, SpyCases
<1>8. CASE PathSender \/ PortTurn \/ PathReset \/ UNCHANGED pathVars
  <2>1. UNCHANGED <<numbers, got, last>> /\ (Pending' <=> Pending)
    BY <1>8, RingAlone DEF ring, told
  <2> QED
    BY <1>2, <1>3, <1>4, <2>1, NothingHandled
<1> QED
  BY <1>4, <1>5, <1>6, <1>7, <1>8 DEF PathNext

\* Every step keeps the block handled last the newest of the ring, or on its way.
LEMMA PortInRingStep ==
  ASSUME PathInv, [PathNext]_pathVars
  PROVE  PortInRing'
<1>1. PortInRing /\ NobodyBefore /\ StreamInv
  BY DEF PathInv
<1>2. Ring!TypeOK /\ numbers \in Seq(1 .. MaxBlock) /\ Len(numbers) = newest + 1 /\ newest \in Int /\ taken \in Nat
  BY PathTyped
<1>3. CASE UNCHANGED <<numbers, newest, served, taken, handled>> /\ (Pending => Pending')
  BY <1>1, <1>3 DEF PortInRing, Newest, LastHandled
<1>4. CASE PathSender \/ PathReset \/ UNCHANGED pathVars
  <2>1. UNCHANGED <<served, taken>>
    BY <1>4 DEF PathSender, Sender, ConnectToSink, PathReset, NetworkReset, pathVars, streamVars, sink, port
  <2>2. UNCHANGED <<numbers, newest>> /\ (Pending' <=> Pending)
    BY <1>4, RingAlone DEF ring, told
  <2>3. handled' = handled
    BY <1>4 DEF PathSender, Sender, ConnectToSink, PathReset, NetworkReset, pathVars, streamVars, sink, area
  <2> QED
    BY <1>3, <2>1, <2>2, <2>3
<1>5. CASE PortTurn
  <2>1. handled' = handled /\ (taken' = 0 \/ served' = 0 \/ UNCHANGED <<served, taken>>)
    BY <1>5 DEF PortTurn, Accept, NewClient, WriteAck, Disconnect, OtherPort, port, area
  <2>2. UNCHANGED <<numbers, newest>> /\ (Pending' <=> Pending)
    BY <1>5, RingAlone DEF ring, told
  <2> QED
    BY <1>3, <2>1, <2>2 DEF PortInRing
<1>6. CASE TakeMessage
  BY <1>2, <1>6, TakeCases DEF PortInRing
<1>7. CASE StoreStep
  <2>1. UNCHANGED <<handled, served, taken, LastHandled>>
    BY <1>2, <1>7, StoreCases DEF streamVars, sink, area, port, LastHandled
  <2>2. CASE wpc = "rewind" /\ (Pending' <=> Pending)
    <3>1. Pending \/ served = 0
      BY <1>1, <2>2 DEF Pending, NobodyBefore, Listening
    <3> QED
      BY <2>1, <2>2, <3>1 DEF PortInRing
  <2>3. CASE Ring!Stamp /\ numbers' = Append(numbers, LastHandled.blk) /\ newest' = currentage /\ Pending
    <3>1. newest = currentage - 1 /\ currentage \in Nat
      BY <2>3, PathTyped DEF Ring!Stamp, Ring!FeedInv, Ring!CopyInv, Ring!PhaseClean, Ring!StoreProgress,
         Ring!Settled, Ring!TypeOK
    <3>2. LastHandled.blk \in 1 .. MaxBlock
      BY <2>3, PathTyped DEF PathInv, Numbered
    <3>3. numbers'[Len(numbers) + 1] = LastHandled.blk
      BY <1>2, <2>3, <3>2, AppendProperties
    <3>4. newest' >= 0 /\ newest' + 1 = Len(numbers) + 1
      BY <1>2, <2>3, <3>1
    <3> QED
      BY <2>1, <3>3, <3>4 DEF PortInRing, Newest
  <2> QED
    BY <1>2, <1>3, <1>7, <2>1, <2>2, <2>3, StoreCases
<1>8. CASE SinkKilled \/ SinkStarts
  <2>1. wpc = "down" => served = 0
    BY <1>1 DEF Listening, NobodyBefore
  <2> QED
    BY <1>8, <2>1, KillCases DEF PortInRing, streamVars, sink, port
<1>9. ASSUME NEW r \in Readers, Spy(r) PROVE PortInRing'
  <2>1. UNCHANGED <<numbers, newest, job, wpc, streamVars>>
    BY <1>2, <1>9, SpyCases, PathTyped
  <2>2. (Pending' <=> Pending) /\ UNCHANGED <<handled, served, taken>>
    BY <2>1 DEF Pending, streamVars, sink, area, port
  <2> QED
    BY <1>3, <2>1, <2>2
<1> QED
  BY <1>4, <1>5, <1>6, <1>7, <1>8, <1>9 DEF PathNext

\* Nothing waits behind the connection the library uses.
LEMMA NothingBehind ==
  ASSUME StreamInv, served # 0, served = tsSocket
  PROVE  queue = <<>>
<1>1. queue \in Seq(Conns) /\ Len(queue) \in Nat /\ (Len(queue) = 0 => queue = <<>>)
  BY LenProperties, EmptySeq DEF StreamInv, StreamTypeOK
<1>2. served = nsock /\ nsock \in Nat
  BY PortTyped DEF TransferInv, Sockets, TypeOK
<1>3. ASSUME Len(queue) > 0 PROVE FALSE
  <2>1. 1 \in 1 .. Len(queue)
    BY <1>1, <1>3
  <2>2. PICK c \in Conns : c = queue[1]
    BY <1>1, <2>1, ElementOfSeq
  <2>3. Known(c) /\ c > served
    BY <2>1, <2>2 DEF StreamInv, ServedInOrder
  <2>4. cstate[c] = "new"
    BY <1>2, <2>3, PortTyped DEF TransferInv, Sockets
  <2> QED
    BY <2>3, <2>4 DEF Known
<1> QED
  BY <1>1, <1>3

\* The acknowledgement of the caller's block is sent when the block is the newest of
\* the ring.
LEMMA AckOfNewest ==
  ASSUME PathInv, PortTurn, WriteAck, served = tsSocket, mode = 1, mpc = "recv", msg # Restart
  PROVE  queue = <<>> /\ ~Complete /\ ~Pending /\ Newest(block)
<1>1. StreamInv /\ PortInRing
  BY DEF PathInv
<1>2. served \in Conns /\ cstate[served] = "open" /\ taken = Frames(served) /\ served # 0
  BY <1>1, AckOfLast, PortTyped
<1>3. queue = <<>>
  BY <1>1, <1>2, NothingBehind
<1>4. ~Complete
  BY <1>1, <1>2, PortTyped DEF Complete
<1>5. ~Pending
  BY DEF PortTurn, Serving, Pending
<1>6. Frames(served) >= 2 /\ MessageOf(served, Frames(served) - 1).blk = block
  BY <1>1, <1>2 DEF StreamInv, Acknowledged, IsOpen
<1>7. LastHandled.blk = block
  BY <1>1, <1>2, <1>6 DEF StreamInv, PortInStep
<1>8. Newest(LastHandled.blk)
  BY <1>1, <1>2, <1>5, <1>6 DEF PortInRing
<1> QED
  BY <1>3, <1>4, <1>5, <1>7, <1>8

\* A step of the sender that ends with its call answered began with it, and has sent
\* nothing.
LEMMA AnsweredBefore ==
  ASSUME StreamInv, NoEmptyStream, Sender, Answered'
  PROVE  Answered /\ UNCHANGED <<queue, served, taken, block, wire>>
<1>1. [Next]_vars /\ TransferInv /\ TypeOK /\ Acknowledgements
  BY StepIsTransfer, PortTyped DEF StreamNext, TransferInv
<1>2. mode = 1 /\ mode' = mode
  <2>1. mode' = mode
    BY <1>1 DEF Next, Caller, Thread, Peer, Call, Check, OpenSocket, Connect, SendRestart, NestedCheck,
       BuildRestart, SendDirect, Receive, Recheck, Header, TxWait, SpuriousWakeup, StartThread, ThreadTest,
       ThreadArgs, ThreadSend, ThreadClose, ThreadFinish, Answer, Drop, Sigpipe, cfg, vars
  <2> QED
    BY <2>1 DEF Answered
<1>3. UNCHANGED <<queue, served, taken>>
  <2>1. mpc' # "restart"
    BY DEF Answered
  <2> QED
    BY <2>1 DEF Sender, ConnectToSink, sink, port
<1>4. CASE SendDirect
  <2>1. /\ mpc = "send" /\ acks' = acks /\ tsSocket' \in {0, tsSocket} /\ block' = block
        /\ mpc' # "idle" \/ ret' # "ok"
    BY <1>2, <1>4 DEF SendDirect, Sent, Done, RestartReturns, Return, CloseSocket
  <2>2. mpc' = "recv" /\ tsSocket' # 0 /\ acks'[tsSocket'] # <<>>
    BY <1>2, <1>4, <2>1 DEF Answered, SendDirect, Sent, Done, RestartReturns, Return
  <2>3. tsSocket' = tsSocket /\ acks[tsSocket] # <<>> /\ mpc = "send" /\ tsSocket # 0
    BY <1>4, <2>2 DEF SendDirect, CloseSocket
  <2> QED
    BY <1>1, <1>2, <2>3 DEF Acknowledgements
<1>5. CASE Receive
  <2>1. mpc = "recv" /\ UNCHANGED <<msg, block, wire>>
    BY <1>5 DEF Receive
  <2>2. mpc' # "recv"
    BY <1>5 DEF Receive, Return, Done, RestartReturns
  <2>3. gotack' /\ ret' = "ok" /\ mpc' = "idle"
    BY <2>2 DEF Answered
  <2>4. tsSocket # 0 /\ acks[tsSocket] # <<>> /\ msg # Restart
    BY <1>5, <2>3 DEF Receive, Return, Done, RestartReturns
  <2> QED
    BY <1>2, <1>3, <2>1, <2>4 DEF Answered
<1>6. CASE ~SendDirect /\ ~Receive
  <2>1. wire' = wire
    <3>1. ~ThreadSend
      BY <1>1, <1>2, ThreadIdle
    <3>2. Next => wire' = wire
      BY <1>6, <3>1, WhoWrites
    <3> QED
      BY <1>1, <3>2 DEF vars, network
  <2>2. UNCHANGED <<mpc, msg, tsSocket, acks, ret, gotack, block>>
    BY <1>1, <1>2, <1>6, ThreadIdle DEF Answered, Sender, SenderProgram, ConnectToSink, Thread, Call,
       Check, OpenSocket, Connect, SendRestart, NestedCheck, BuildRestart, Recheck, Header, TxWait,
       SpuriousWakeup, StartThread, ThreadTest, Sigpipe, Return, RestartReturns, HeaderWritten, caller,
       nesting, shared, network
  <2> QED
    BY <1>2, <1>3, <2>1, <2>2 DEF Answered
<1> QED
  BY <1>4, <1>5, <1>6

\* Every step keeps an answered block in the ring: the sink has nothing to take until
\* the next call, and forgets the block only when it is started again.
LEMMA AnsweredStaysStep ==
  ASSUME PathInv, NoEmptyStream, [PathNext]_pathVars
  PROVE  AnsweredStays'
<1>1. AnsweredStays /\ NobodyBefore /\ StreamInv /\ Ring!TypeOK
  BY PathTyped DEF PathInv
<1>2. SUFFICES ASSUME Answered'
               PROVE  queue' = <<>> /\ ~Complete' /\ ~Pending' /\ (Newest(block)' \/ StartedAgain')
  BY DEF AnsweredStays
<1>3. CASE /\ Answered /\ UNCHANGED <<queue, served, taken, block, wire, numbers, newest, job>>
           /\ Pending' <=> Pending
  <2>1. Complete' = Complete
    BY <1>3 DEF Complete, Frames
  <2> QED
    BY <1>1, <1>3, <2>1 DEF AnsweredStays, Newest, StartedAgain
<1>4. CASE PathSender
  <2>1. UNCHANGED <<numbers, newest, job>> /\ (Pending' <=> Pending)
    BY <1>4, RingAlone DEF ring, told, store
  <2> QED
    BY <1>1, <1>2, <1>3, <1>4, <2>1, AnsweredBefore DEF PathSender
<1>5. ASSUME UNCHANGED <<sender, acks>>
      PROVE  Answered /\ block' = block
  BY <1>2, <1>5 DEF Answered, sender, cfg, caller, nesting, shared
<1>6. CASE PortTurn
  <2>1. UNCHANGED <<numbers, newest, job>> /\ (Pending' <=> Pending)
    BY <1>6, RingAlone DEF ring, told, store
  <2>2. CASE Accept
    BY <1>1, <1>5, <2>2 DEF Accept, AnsweredStays
  <2>3. CASE Disconnect
    <3>1. UNCHANGED <<sender, acks, queue>> /\ served' = 0
      BY <2>3 DEF Disconnect, network
    <3>2. ~Complete'
      BY <3>1 DEF Complete
    <3> QED
      BY <1>1, <1>5, <2>1, <3>1, <3>2 DEF AnsweredStays, Newest, StartedAgain
  <2>4. CASE OtherPort
    BY <1>3, <1>5, <2>1, <2>4 DEF OtherPort, port, vars, sender, network
  <2>5. CASE WriteAck
    <3>1. UNCHANGED <<queue, served, taken, sender, wire>>
      BY <2>5 DEF WriteAck
    <3>2. block' = block
      BY <3>1 DEF sender, caller, nesting
    <3>3. CASE Answered
      BY <1>3, <2>1, <3>1, <3>2, <3>3
    <3>4. CASE ~Answered
      <4>1. /\ mode = 1 /\ mpc = "recv" /\ msg # Restart /\ tsSocket # 0
            /\ acks'[tsSocket] # <<>> /\ acks[tsSocket] = <<>>
        BY <1>2, <3>1, <3>4 DEF Answered, sender, cfg, caller, nesting, shared
      <4>2. served = tsSocket
        <5>1. acks' = [acks EXCEPT ![served] = Append(@, [frame |-> taken, code |-> 0])]
          BY <2>5 DEF WriteAck
        <5>2. acks \in [Conns -> Seq([frame : Nat, code : {0, 1}])] /\ tsSocket \in Conns
          BY <1>1, <4>1, PortTyped, TransferAssumption DEF TypeOK, Conns
        <5> QED
          BY <4>1, <5>1, <5>2
      <4>3. queue = <<>> /\ ~Complete /\ ~Pending /\ Newest(block)
        BY <1>6, <2>5, <4>1, <4>2, AckOfNewest
      <4>4. Complete' = Complete
        BY <3>1 DEF Complete, Frames
      <4> QED
        BY <2>1, <3>1, <3>2, <4>3, <4>4 DEF Newest
    <3> QED
      BY <3>3, <3>4
  <2> QED
    BY <1>6, <2>2, <2>3, <2>4, <2>5 DEF PortTurn
<1>7. CASE TakeMessage
  BY <1>1, <1>5, <1>7, TakeCases DEF AnsweredStays, Take, network
<1>8. CASE StoreStep
  <2>1. UNCHANGED <<sender, acks, queue, served, taken, wire, job>>
    BY <1>1, <1>8, StoreCases DEF streamVars, sink, port, vars, sender, network
  <2>2. Answered /\ block' = block
    BY <1>5, <2>1
  <2>3. CASE wpc = "rewind" /\ newest' = -1 /\ (Pending' <=> Pending)
    <3>1. ~Pending /\ queue = <<>> /\ ~Complete
      BY <1>1, <2>2 DEF AnsweredStays
    <3>2. job = "serve"
      BY <1>1, <2>3, <3>1 DEF Pending, Ring!TypeOK
    <3>3. Complete' = Complete
      BY <2>1 DEF Complete, Frames
    <3> QED
      BY <2>1, <2>3, <3>1, <3>2, <3>3 DEF StartedAgain
  <2> QED
    BY <1>1, <1>3, <1>8, <2>1, <2>2, <2>3, StoreCases DEF AnsweredStays
<1>9. CASE SinkKilled \/ SinkStarts
  <2>1. Answered /\ block' = block /\ ~Pending' /\ UNCHANGED <<numbers, newest, wire>>
    BY <1>5, <1>9, KillCases
  <2>2. Newest(block)' <=> Newest(block)
    BY <2>1 DEF Newest
  <2>3. StartedAgain => StartedAgain'
    BY <1>9, <2>1, KillCases DEF StartedAgain
  <2>4. queue' = <<>> /\ ~Complete'
    <3>1. CASE queue' = <<>> /\ served' = 0
      BY <3>1 DEF Complete
    <3>2. CASE UNCHANGED streamVars
      <4>1. UNCHANGED <<queue, served, taken, wire>>
        BY <3>2 DEF streamVars, sink, port, vars, network
      <4>2. Complete' = Complete
        BY <4>1 DEF Complete, Frames
      <4> QED
        BY <1>1, <2>1, <4>1, <4>2 DEF AnsweredStays
    <3> QED
      BY <1>9, <3>1, <3>2, KillCases
  <2> QED
    BY <1>1, <2>1, <2>2, <2>3, <2>4 DEF AnsweredStays
<1>10. ASSUME NEW r \in Readers, Spy(r)
       PROVE  queue' = <<>> /\ ~Complete' /\ ~Pending' /\ (Newest(block)' \/ StartedAgain')
  <2>1. UNCHANGED <<numbers, newest, job, wpc, streamVars>>
    BY <1>1, <1>10, SpyCases, PathTyped
  <2>2. UNCHANGED <<sender, acks, queue, served, taken, wire>> /\ (Pending' <=> Pending)
    BY <2>1 DEF Pending, streamVars, sink, port, vars, sender, network
  <2> QED
    BY <1>3, <1>5, <2>1, <2>2
<1>11. CASE PathReset \/ UNCHANGED pathVars
  <2>1. UNCHANGED <<sender, acks, queue, served, taken, wire>>
    BY <1>11 DEF PathReset, NetworkReset, Drop, pathVars, streamVars, sink, port, vars, sender, network
  <2>2. UNCHANGED <<numbers, newest, job>> /\ (Pending' <=> Pending)
    BY <1>11, RingAlone DEF ring, told, store
  <2> QED
    BY <1>3, <1>5, <2>1, <2>2
<1> QED
  BY <1>4, <1>6, <1>7, <1>8, <1>9, <1>10, <1>11 DEF PathNext

-----------------------------------------------------------------------------
(* The theorems of the path                                                 *)

\* The invariant at the start
LEMMA PathStart ==
  ASSUME PathInit, NoEmptyStream
  PROVE  PathInv
<1>1. /\ StreamInv /\ Ring!FeedInv /\ numbers = <<>> /\ got = [r \in Readers |-> <<>>]
      /\ queue = <<>> /\ served = 0 /\ handled = <<>> /\ newest = -1 /\ wpc = "rewind" /\ job = "serve"
      /\ mpc = "idle" /\ ~gotack
  BY StreamStart, RingStart DEF PathInit, StreamInit, Init, Ring!Init
<1>2. Len(numbers) = 0 /\ numbers \in Seq(1 .. MaxBlock) /\ LastHandled.blk = 0 /\ ~Pending /\ ~Complete
  BY <1>1, EmptySeq DEF LastHandled, Pending, Complete
<1>3. NobodyBefore /\ SizesAgree /\ PortInRing
  BY <1>1 DEF NobodyBefore, SizesAgree, PortInRing
<1>4. Numbered
  BY <1>1, <1>2 DEF Numbered
<1>5. Heard
  <2>1. got \in [Readers -> Seq(1 .. MaxBlock)]
    BY <1>1, EmptySeq
  <2>2. \A r \in Readers : Far!Latest(r) = 0
    BY <1>1 DEF Far!Latest
  <2> QED
    BY <1>2, <2>1, <2>2 DEF Heard
<1>6. AnsweredStays
  BY <1>1, <1>2 DEF AnsweredStays, Answered
<1> QED
  BY <1>1, <1>3, <1>4, <1>5, <1>6 DEF PathInv

\* The invariant in every step
LEMMA PathStep ==
  ASSUME NoEmptyStream, NoOverlap
  PROVE  PathInv /\ [PathNext]_pathVars => PathInv'
<1> SUFFICES ASSUME PathInv, [PathNext]_pathVars PROVE PathInv'
  OBVIOUS
<1>1. StreamInv'
  BY PathIsStream, StreamStep DEF PathInv
<1>2. Ring!FeedInv'
  BY PathIsRing, RingStep DEF PathInv
<1> QED
  BY <1>1, <1>2, NobodyBeforeStep, SizesAgreeStep, NumberedStep, HeardStep, PortInRingStep, AnsweredStaysStep
     DEF PathInv

\* Sender, port, ring and spies are together in the states PathInv describes, whatever
\* connection drops and whenever the sink is killed.
THEOREM PathInvHolds ==
  ASSUME NoEmptyStream, NoOverlap
  PROVE  PathSpec => []PathInv
<1>1. PathInit => PathInv
  BY PathStart
<1>2. PathInv /\ [PathNext]_pathVars => PathInv'
  BY PathStep
<1> QED
  BY <1>1, <1>2, PTL DEF PathSpec

\* ts_data_transfer compares the size of the area with that of the sender it serves.
THEOREM SizesStayAgreed ==
  ASSUME NoEmptyStream, NoOverlap
  PROVE  PathSpec => []SizesAgree
<1>1. PathInv => SizesAgree
  BY DEF PathInv
<1> QED
  BY <1>1, PathInvHolds, PTL

\* The newest block of the ring is in it word by word, for every spy to read.
LEMMA NewestIsThere ==
  ASSUME PathInv, NEW b, Newest(b)
  PROVE  InRing(b)
<1>1. /\ Ring!TypeOK /\ Ring!StoreProgress /\ Ring!LastBlocksThere /\ Ring!SlotsWhole
      /\ newest >= 0 /\ newest \in Nat
  BY PathTyped DEF PathInv, Ring!FeedInv, Ring!CopyInv, Newest
<1>2. clean
  BY <1>1 DEF Ring!StoreProgress, Ring!TypeOK
<1>3. ASSUME newest >= 1
      PROVE  age[newest % NBlocks] = newest /\ Ring!Whole(data[newest % NBlocks], epoch, newest)
  <2>1. newest \in newest - NBlocks + 1 .. newest /\ newest # newest - NBlocks + 1
    BY <1>1, DataPathAssumption
  <2>2. age[newest % NBlocks] = newest
    BY <1>2, <1>1, <1>3, <2>1 DEF Ring!LastBlocksThere, Ring!SlotOf
  <2>3. newest % NBlocks \in Ring!Slots
    BY <1>1, DataPathAssumption DEF Ring!Slots
  <2> QED
    BY <1>1, <1>2, <1>3, <2>2, <2>3 DEF Ring!SlotsWhole
<1> QED
  BY <1>3 DEF InRing, Newest

\* A call of transferMultiTxData that returns OK on an acknowledgement has its block in
\* the shared memory the spies read, until the sink is started again.
THEOREM AcknowledgedIsInRing ==
  ASSUME NoEmptyStream, NoOverlap
  PROVE  PathSpec => []AckedIsInRing
<1>1. PathInv => AckedIsInRing
  BY NewestIsThere DEF PathInv, AnsweredStays, Answered, AckedIsInRing
<1> QED
  BY <1>1, PathInvHolds, PTL

\* What is handled was given.
LEMMA HandledWasGiven ==
  ASSUME StreamInv
  PROVE  LastHandled.blk <= block
<1>1. TypeOK /\ BlocksInOrder /\ LastOnWire
  BY PortTyped DEF StreamInv, TransferInv
<1>0. block \in Nat
  BY <1>1, TransferAssumption DEF TypeOK
<1>2. CASE handled = <<>>
  BY <1>0, <1>2 DEF LastHandled
<1>3. CASE handled # <<>>
  <2>1. PICK c \in Conns : c = LastHandled.conn
    BY <1>3, LastTyped
  <2>2. PICK j \in 1 .. Len(wire[c]) : wire[c][j].blk = LastHandled.blk
    BY <1>1, <1>3, <2>1 DEF LastOnWire
  <2> QED
    BY <1>1, <2>2 DEF BlocksInOrder, NotAhead
<1> QED
  BY <1>2, <1>3

\* The application gives a block with each call and not otherwise.
LEMMA GivesByCalls ==
  ASSUME StreamInv, [StreamNext]_streamVars
  PROVE  block' = block \/ block' = block + 1
<1>1. [Next]_vars
  BY StepIsTransfer
<1> QED
  BY <1>1 DEF Next, Caller, Thread, Peer, Call, Check, OpenSocket, Connect, SendRestart, NestedCheck,
     BuildRestart, SendDirect, Receive, Recheck, Header, TxWait, SpuriousWakeup, StartThread, ThreadTest,
     ThreadArgs, ThreadSend, ThreadClose, ThreadFinish, Answer, Drop, Sigpipe, caller, nesting, vars

\* From the application's call to the spy's buffer: the blocks a spy is given are those
\* of the calls, in their order and none twice.
THEOREM PathImplementsDelivery ==
  ASSUME NoEmptyStream, NoOverlap
  PROVE  PathSpec => ImplementsDelivery
<1>1. PathInit => Far!Init
  BY DEF PathInit, StreamInit, Init, Far!Init
<1>2. ASSUME PathInv, [PathNext]_pathVars
      PROVE  [Far!Next]_(Far!delivery)
  <2>1. StreamInv /\ Ring!TypeOK /\ got \in [Readers -> Seq(1 .. MaxBlock)]
    BY <1>2, PathTyped
  <2>0. block \in Nat /\ MaxBlock \in Nat
    BY <2>1, PortTyped, TransferAssumption DEF TypeOK
  <2>2. CASE got' = got
    BY <1>2, <2>1, <2>2, PathIsStream, GivesByCalls DEF Far!Next, Far!Give, Far!delivery
  <2>3. ASSUME NEW r \in Readers, Spy(r) PROVE [Far!Next]_(Far!delivery)
    <3>1. block' = block
      BY <2>3 DEF Spy, streamVars, vars, caller, nesting
    <3>2. CASE got' = [got EXCEPT ![r] = <<>>]
      BY <3>1, <3>2 DEF Far!Next, Far!Open
    <3>3. CASE Ring!Accept(r) /\ calm[r] /\ got' = [got EXCEPT ![r] = Append(@, Content(r))]
      <4>1. PICK b \in 1 .. MaxBlock : b = Content(r)
        BY <1>2, <3>3, AcceptIsNewer
      <4>2. Far!Latest(r) < b /\ Far!Latest(r) \in 0 .. MaxBlock
        BY <1>2, <3>3, <4>1, AcceptIsNewer, LatestTyped
      <4>3. b <= block
        <5>1. PICK k \in 1 .. Len(numbers) : b = numbers[k]
          BY <1>2, <3>3, <4>1, AcceptIsNewer
        <5>2. numbers[k] <= LastHandled.blk
          BY <1>2, <5>1 DEF PathInv, Numbered
        <5>3. LastHandled.blk \in Int /\ LastHandled.blk <= block
          BY <1>2, <2>1, PathTyped, HandledWasGiven
        <5> QED
          BY <2>0, <4>1, <5>1, <5>2, <5>3
      <4>4. b \in Far!Latest(r) + 1 .. block
        BY <2>0, <4>1, <4>2, <4>3
      <4> QED
        BY <3>1, <3>3, <4>1, <4>4 DEF Far!Next, Far!Deliver
    <3> QED
      BY <2>1, <2>2, <2>3, <3>2, <3>3, SpyCases
  <2>4. (\E r \in Readers : Spy(r)) \/ got' = got
    BY <1>2, <2>1, RingAlone, TakeCases, StoreCases, KillCases DEF PathNext
  <2> QED
    BY <2>2, <2>3, <2>4
<1> QED
  BY <1>1, <1>2, PathInvHolds, PTL DEF PathSpec, ImplementsDelivery, Far!Spec

=============================================================================
