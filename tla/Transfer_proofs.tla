-------------------------- MODULE Transfer_proofs --------------------------
(***************************************************************************)
(* Proofs about Transfer for every number of connections, calls and pieces,*)
(* in both modes: what is on the wires, what the send thread is given, and *)
(* which message an acknowledgement answers.                               *)
(***************************************************************************)
EXTENDS Transfer, NumberLemmas, SequenceTheorems

-----------------------------------------------------------------------------
(* Types, the two threads and the sockets                                   *)

\* A connection carries a natural number of whole messages.
LEMMA FramesTyped ==
  ASSUME TypeOK, NEW c \in Conns
  PROVE  Frames(c) \in Nat
<1>1. Len(wire[c]) \in Nat
  BY LenProperties DEF TypeOK
<1>2. NParts \in Nat /\ NParts >= 1
  BY TransferAssumption
<1> QED
  BY <1>1, <1>2, DivisionOfNat DEF Frames

\* Where a transferMultiTxRestart comes back to.
LEMMA WhereRestartReturns ==
  ASSUME TypeOK, RestartReturns
  PROVE  /\ mpc' \in {"recheck", "build"} /\ depth' \in Nat
         /\ depth = 0 => mpc' = "recheck" /\ depth' = 0
         /\ depth # 0 => mpc' = "build" /\ depth' = depth - 1
  BY DEF TypeOK, RestartReturns

\* One more at one place.
LEMMA OneMore ==
  ASSUME NEW S, NEW f \in [S -> Nat], NEW c \in S
  PROVE  [f EXCEPT ![c] = @ + 1] \in [S -> Nat]
  OBVIOUS

\* Every step keeps the types.
LEMMA TypeStep ==
  ASSUME TransferInv, NoEmptyStream, Next
  PROVE  TypeOK'
<1> USE TransferAssumption DEF TransferInv, cfg, shared, caller, nesting, thread, network, Restart
<1>1. CASE Call
  <2>1. block' \in 0 .. MaxBlock /\ length' \in Lengths
    BY SMTT(15), <1>1 DEF Call, TypeOK
  <2>2. ASSUME NEW b \in Buffers PROVE [buffer[b] EXCEPT !.blk = block + 1] \in Messages
    <3>1. buffer[b] \in Messages
      BY DEF TypeOK
    <3>2. block + 1 \in 0 .. MaxBlock
      BY SMTT(15), <1>1 DEF Call, TypeOK
    <3> QED
      BY <3>1, <3>2 DEF Messages
  <2>3. buffer' \in [Buffers -> Messages]
    BY <1>1, <2>2 DEF Call, TypeOK
  <2> QED
    BY <1>1, <2>1, <2>3 DEF Call, TypeOK
<1>2. CASE OpenSocket
  <2>1. nsock' \in 0 .. MaxConn /\ tsSocket' \in 0 .. MaxConn /\ sequence' \in 0 .. MaxBlock
    BY <1>2 DEF OpenSocket, TypeOK
  <2>2. cstate' \in [Conns -> {"new", "fresh", "open", "dropped", "closed"}]
    BY <1>2 DEF OpenSocket, TypeOK
  <2> QED
    BY <1>2, <2>1, <2>2 DEF OpenSocket, TypeOK
<1>3. CASE Connect
  <2>1. tsSocket' \in 0 .. MaxConn
    BY <1>3 DEF Connect, TypeOK, CloseSocket
  <2>2. cstate' \in [Conns -> {"new", "fresh", "open", "dropped", "closed"}]
    BY <1>3 DEF Connect, TypeOK, CloseSocket
  <2>3. mpc' \in {"recheck", "build", "restart"} /\ depth' \in Nat
    BY <1>3, WhereRestartReturns DEF Connect, TypeOK
  <2> QED
    BY <1>3, <2>1, <2>2, <2>3 DEF Connect, TypeOK
<1>4. CASE SendRestart
  <2>1. mpc' \in {"recheck", "build", "nested"} /\ depth' \in Nat
    BY <1>4, WhereRestartReturns DEF SendRestart, TypeOK
  <2> QED
    BY <1>4, <2>1 DEF SendRestart, TypeOK
<1>5. CASE SendDirect
  <2>1. tsSocket' \in 0 .. MaxConn
    BY <1>5 DEF SendDirect, TypeOK, CloseSocket
  <2>2. cstate' \in [Conns -> {"new", "fresh", "open", "dropped", "closed"}]
    BY <1>5 DEF SendDirect, TypeOK, CloseSocket
  <2>3. mpc' \in {"idle", "send", "recv", "recheck", "build"} /\ ret' \in {"ok", "error", "code"}
        /\ depth' \in Nat
    BY <1>5, WhereRestartReturns DEF SendDirect, TypeOK, Return, Sent, Done
  <2>4. part' \in 0 .. NParts
    BY <1>5 DEF SendDirect, TypeOK, Control
  <2>5. wire' \in [Conns -> Seq(Chunks)]
    <3>1. CASE wire' = wire
      BY <3>1 DEF TypeOK
    <3>2. CASE Taken(fd, msg, part + 1)
      <4>1. Chunk(msg, part + 1) \in Chunks
        BY <1>5 DEF TypeOK, SendDirect, Control, Chunk, Chunks, Messages
      <4>2. fd \in Conns
        BY <3>2 DEF Taken, IsOpen, TypeOK, Conns
      <4>3. Append(wire[fd], Chunk(msg, part + 1)) \in Seq(Chunks)
        BY <4>1, <4>2, AppendProperties DEF TypeOK
      <4> QED
        BY <3>2, <4>3 DEF Taken, TypeOK
    <3> QED
      BY <1>5, <3>1, <3>2 DEF SendDirect, Lost
  <2> QED
    BY <1>5, <2>1, <2>2, <2>3, <2>4, <2>5 DEF SendDirect, TypeOK
<1>6. CASE Receive
  <2>1. tsSocket' \in 0 .. MaxConn
    BY <1>6 DEF Receive, TypeOK, CloseSocket
  <2>2. cstate' \in [Conns -> {"new", "fresh", "open", "dropped", "closed"}]
    BY <1>6 DEF Receive, TypeOK, CloseSocket
  <2>3. mpc' \in {"idle", "recheck", "build"} /\ ret' \in {"ok", "error", "code"} /\ depth' \in Nat
    BY <1>6, WhereRestartReturns DEF Receive, TypeOK, Return, Done
  <2>4. acks' \in [Conns -> Seq([frame : Nat, code : {0, 1}])]
    <3>1. CASE acks' = acks
      BY <3>1 DEF TypeOK
    <3>2. CASE tsSocket # 0 /\ acks[tsSocket] # <<>> /\ acks' = [acks EXCEPT ![tsSocket] = Tail(@)]
      <4>1. tsSocket \in Conns
        BY <3>2 DEF TypeOK, Conns
      <4>2. acks[tsSocket] \in Seq([frame : Nat, code : {0, 1}])
        BY <4>1 DEF TypeOK
      <4>3. Tail(acks[tsSocket]) \in Seq([frame : Nat, code : {0, 1}])
        BY <3>2, <4>2, HeadTailProperties
      <4> QED
        BY <3>2, <4>3 DEF TypeOK
    <3> QED
      BY <1>6, <3>1, <3>2 DEF Receive
  <2> QED
    BY <1>6, <2>1, <2>2, <2>3, <2>4 DEF Receive, TypeOK
<1>7. CASE Header
  <2>1. sequence' \in 0 .. MaxBlock
    BY SMTT(15), <1>7 DEF Header, TypeOK, Numbers, BeforeBlock, Opening
  <2>2. buffer' \in [Buffers -> Messages]
    BY ZenonT(40), <1>7 DEF Header, TypeOK, Messages
  <2>3. Mine \in Buffers
    BY DEF Mine, Buffers, TypeOK
  <2>4. buffer'[Mine] \in Messages
    BY <2>2, <2>3
  <2>5. msg' \in Messages
    BY <1>7, <2>4 DEF Header, TypeOK
  <2>6. fd' \in 0 .. MaxConn /\ part' \in 0 .. NParts
    BY <1>7 DEF Header, TypeOK
  <2> QED
    BY <1>7, <2>1, <2>2, <2>5, <2>6 DEF Header, TypeOK
<1>8. CASE StartThread
  <2>1. Mine \in Buffers
    BY DEF Mine, Buffers, TypeOK
  <2>2. arg' \in [fd : 0 .. MaxConn, buf : Buffers]
    BY <1>8, <2>1 DEF StartThread, TypeOK
  <2>3. mpc' \in {"idle", "wait2"} /\ ret' \in {"ok", "error", "code"}
    BY <1>8 DEF StartThread, TypeOK, Return
  <2>4. spc' \in {"test", "blocked", "args", "send", "close", "closefd", "clear", "finish",
              "killed"} /\ running' \in BOOLEAN
    BY <1>8 DEF StartThread, TypeOK
  <2> QED
    BY <1>8, <2>2, <2>3, <2>4 DEF StartThread, TypeOK
<1>9. CASE ThreadArgs
  <2>1. tSocket' \in 0 .. MaxConn /\ tBuffer' \in Buffers /\ tPart' \in 0 .. NParts
    BY <1>9 DEF ThreadArgs, TypeOK
  <2> QED
    BY <1>9, <2>1 DEF ThreadArgs, TypeOK
<1>10. CASE ThreadSend
  <2>1. tPart' \in 0 .. NParts
    BY <1>10 DEF ThreadSend, TypeOK, Control
  <2>2. spc' \in {"finish", "send", "close"}
    BY <1>10 DEF ThreadSend
  <2>3. wire' \in [Conns -> Seq(Chunks)]
    <3>1. CASE wire' = wire
      BY <3>1 DEF TypeOK
    <3>2. CASE Taken(tSocket, buffer[tBuffer], tPart + 1)
      <4>1. buffer[tBuffer] \in Messages
        BY DEF TypeOK
      <4>2. Chunk(buffer[tBuffer], tPart + 1) \in Chunks
        BY <1>10, <4>1 DEF TypeOK, ThreadSend, Control, Chunk, Chunks, Messages
      <4>3. tSocket \in Conns
        BY <3>2 DEF Taken, IsOpen, TypeOK, Conns
      <4>4. Append(wire[tSocket], Chunk(buffer[tBuffer], tPart + 1)) \in Seq(Chunks)
        BY <4>2, <4>3, AppendProperties DEF TypeOK
      <4> QED
        BY <3>2, <4>4 DEF Taken, TypeOK
    <3> QED
      BY <1>10, <3>1, <3>2 DEF ThreadSend, Lost
  <2> QED
    BY <1>10, <2>1, <2>2, <2>3 DEF ThreadSend, TypeOK
<1>11. CASE ThreadClose
  <2>1. cstate' \in [Conns -> {"new", "fresh", "open", "dropped", "closed"}]
    BY <1>11 DEF ThreadClose, TypeOK
  <2>2. spc' \in {"finish", "closefd", "clear"} /\ tsSocket' \in 0 .. MaxConn
    BY <1>11 DEF ThreadClose, TypeOK
  <2> QED
    BY <1>11, <2>1, <2>2 DEF ThreadClose, TypeOK
<1>12. ASSUME NEW c \in Conns, Answer(c) PROVE TypeOK'
  <2>1. Frames(c) \in Nat
    BY FramesTyped
  <2>2. answered' \in [Conns -> Nat]
    BY <1>12, <2>1 DEF Answer, TypeOK
  <2>3. acks' \in [Conns -> Seq([frame : Nat, code : {0, 1}])]
    <3>1. PICK code \in {0, 1} : acks' = [acks EXCEPT ![c] = Append(@, [frame |-> Frames(c), code |-> code])]
      BY <1>12 DEF Answer
    <3>2. [frame |-> Frames(c), code |-> code] \in [frame : Nat, code : {0, 1}]
      BY <2>1
    <3>3. acks[c] \in Seq([frame : Nat, code : {0, 1}])
      BY DEF TypeOK
    <3>4. Append(acks[c], [frame |-> Frames(c), code |-> code]) \in Seq([frame : Nat, code : {0, 1}])
      BY <3>2, <3>3, AppendProperties
    <3> QED
      BY <3>1, <3>4 DEF TypeOK
  <2> QED
    BY <1>12, <2>2, <2>3 DEF Answer, TypeOK
<1>13. ASSUME NEW C \in SUBSET Conns, Drop(C) PROVE TypeOK'
  <2>1. cstate' \in [Conns -> {"new", "fresh", "open", "dropped", "closed"}]
    BY <1>13 DEF Drop, TypeOK
  <2> QED
    BY <1>13, <2>1 DEF Drop, TypeOK
<1>14. CASE Check
  BY <1>14 DEF Check, TypeOK
<1>15. CASE Recheck
  BY <1>15 DEF Recheck, Return, TypeOK
<1>16. CASE TxWait
  BY <1>16 DEF TxWait, Return, TypeOK
<1>17. CASE SpuriousWakeup
  BY <1>17 DEF SpuriousWakeup, TypeOK
<1>18. CASE ThreadTest
  BY <1>18 DEF ThreadTest, TypeOK
<1>19. CASE ThreadFinish
  BY <1>19 DEF ThreadFinish, TypeOK
<1>20. CASE Sigpipe
  BY <1>20 DEF Sigpipe, TypeOK
<1>21. CASE NestedCheck
  BY <1>21 DEF NestedCheck, TypeOK
<1>22. CASE BuildRestart
  <2>1. msg' \in Messages /\ fd' \in 0 .. MaxConn /\ part' \in 0 .. NParts
    BY SMTT(15), <1>22 DEF BuildRestart, TypeOK, Messages
  <2>2. mpc' \in {"recheck", "build", "send"} /\ depth' \in Nat
    BY <1>22, WhereRestartReturns DEF BuildRestart, TypeOK
  <2>3. restarts' \in [Conns -> Nat]
    <3>1. restarts \in [Conns -> Nat] /\ tsSocket \in 0 .. MaxConn
      BY DEF TypeOK
    <3>2. CASE restarts' = restarts
      BY <3>1, <3>2
    <3>3. CASE tsSocket # 0 /\ restarts' = [restarts EXCEPT ![tsSocket] = @ + 1]
      BY <3>1, <3>3, OneMore DEF Conns
    <3> QED
      BY <1>22, <3>2, <3>3 DEF BuildRestart
  <2> QED
    BY <1>22, <2>1, <2>2, <2>3 DEF BuildRestart, TypeOK
<1> HIDE DEF TransferInv
<1> QED
  BY <1>1, <1>2, <1>3, <1>4, <1>5, <1>6, <1>7, <1>8, <1>9, <1>10, <1>11, <1>12, <1>13,
     <1>14, <1>15, <1>16, <1>17, <1>18, <1>19, <1>20, <1>21, <1>22 DEF Next, Caller, Thread, Peer

\* Every step keeps the two threads where they can be together.
LEMMA ControlStep ==
  ASSUME TransferInv, NoEmptyStream, Next
  PROVE  Control'
<1> USE TransferAssumption DEF cfg, shared, caller, nesting, thread, network, Restart, HeaderWritten
<1>0. TypeOK /\ Control /\ Sockets /\ Numbers
  BY DEF TransferInv
<1>t. /\ cstate \in [Conns -> {"new", "fresh", "open", "dropped", "closed"}]
      /\ nsock \in 0 .. MaxConn /\ tsSocket \in 0 .. MaxConn /\ arg.fd \in 0 .. MaxConn
      /\ Conns = 1 .. MaxConn /\ MaxConn \in Nat
  BY <1>0 DEF TypeOK, Conns
<1>1. CASE Call
  BY <1>1, <1>0 DEF Call, Control, TypeOK, IsOpen, NoEmptyStream
<1>2. CASE OpenSocket
  <2>0. cstate[nsock + 1] = "new"
    BY <1>0, <1>2, <1>t DEF OpenSocket, Sockets
  <2>1. arg.fd # nsock + 1 \/ ~running
    BY <1>0, <1>2, <2>0, <1>t DEF Sockets
  <2>2. IsOpen(arg.fd)' /\ running => IsOpen(arg.fd)
    BY <1>0, <1>2, <2>1 DEF OpenSocket, IsOpen, TypeOK, Conns
  <2> QED
    BY <1>0, <1>2, <2>2 DEF OpenSocket, Control
<1>3. CASE Connect
  <2>1. IsOpen(arg.fd)' /\ running => IsOpen(arg.fd)
    BY SMTT(15), <1>0, <1>3, <1>t DEF Connect, Sockets, IsOpen, CloseSocket
  <2>2. mpc' \in {"recheck", "build", "restart"}
    BY <1>3 DEF Connect, RestartReturns
  <2> QED
    BY <1>0, <1>3, <2>1, <2>2 DEF Connect, Control
<1>4. CASE SendRestart
  BY <1>0, <1>4 DEF SendRestart, Control, RestartReturns, IsOpen, TypeOK
<1>5. CASE SendDirect
  <2>1. IsOpen(arg.fd)' => IsOpen(arg.fd)
    BY SMTT(15), <1>5, <1>t DEF SendDirect, IsOpen, CloseSocket
  <2>2. ~IsOpen(arg.fd) => ~IsOpen(arg.fd)'
    BY <2>1
  <2>3. mpc' \in {"idle", "recheck", "build", "recv", "send"} /\ (mpc' = "recv" => mode = 1)
    BY <1>5 DEF SendDirect, Return, Done, RestartReturns, Sent
  <2>4. mpc' = "send" => part' < NParts /\ tsSocket' = tsSocket
    BY <1>0, <1>5 DEF SendDirect, Return, Done, RestartReturns, Sent, Control, TypeOK
  <2> QED
    BY <1>0, <1>5, <2>2, <2>3, <2>4 DEF SendDirect, Control
<1>6. CASE Receive
  <2>1. ~IsOpen(arg.fd) => ~IsOpen(arg.fd)'
    BY SMTT(15), <1>6, <1>t DEF Receive, IsOpen, CloseSocket
  <2>2. mpc' \in {"idle", "recheck", "build"}
    BY <1>6 DEF Receive, Return, Done, RestartReturns
  <2> QED
    BY <1>0, <1>6, <2>1, <2>2 DEF Receive, Control
<1>7. CASE Header
  <2>1. Mine \in Buffers
    BY <1>0 DEF Mine, Buffers, TypeOK
  <2>2. mpc' = "send" => mode = 1
    BY <1>0, <1>7 DEF Header, Control
  <2>3. mpc' = "send" => part' < NParts /\ tsSocket' \in {0, fd'}
    BY <1>0, <1>7 DEF Header
  <2>4. mpc' \in {"send", "wait1"} /\ (mpc' = "wait1" => mode # 1)
    BY <1>7 DEF Header
  <2>5. UNCHANGED <<mode, running, length, tsSocket, spc, tSocket, tBuffer, tPart, arg, cstate>>
    BY <1>7 DEF Header
  <2>6. (spc \in {"close", "closefd", "clear"} => ~IsOpen(arg.fd))'
    BY <1>0, <2>5 DEF Control, IsOpen
  <2>7. mode = 1 => ~running /\ mpc' # "wait1"
    BY <1>0, <2>4 DEF Control
  <2>8. spc # "killed" /\ mpc' # "killed"
    BY <1>0, <1>7, <2>4 DEF Header, Control
  <2>9. (mode # 1 => length = "data") /\ (spc \notin {"test", "blocked", "killed"} => running)
        /\ (spc = "send" => tSocket = arg.fd /\ tBuffer = arg.buf /\ tPart < NParts)
    BY <1>0 DEF Control
  <2> QED
    BY <2>2, <2>3, <2>4, <2>5, <2>6, <2>7, <2>8, <2>9 DEF Control
<1>8. CASE StartThread
  BY <1>0, <1>8 DEF StartThread, Control, Return, IsOpen, TypeOK
<1>9. CASE ThreadArgs
  BY <1>0, <1>9 DEF ThreadArgs, Control, IsOpen, TypeOK
<1>10. CASE ThreadSend
  <2>1. UNCHANGED <<mode, mpc, running, length, tsSocket, msg, part, fd, tSocket, tBuffer, arg, cstate>>
    BY <1>10 DEF ThreadSend
  <2>2. tPart' \in Nat /\ (spc' = "send" => tPart' < NParts)
    BY <1>0, <1>10 DEF ThreadSend, Control, TypeOK
  <2>3. spc' \in {"send", "finish", "close"} /\ spc = "send" /\ (spc' = "close" => ~IsOpen(tSocket))
    BY <1>10 DEF ThreadSend, Fails
  <2> QED
    BY <1>0, <2>1, <2>2, <2>3 DEF Control, IsOpen
<1>11. CASE ThreadClose
  <2>1. ~IsOpen(arg.fd) => ~IsOpen(arg.fd)'
    BY SMTT(15), <1>11, <1>t DEF ThreadClose, IsOpen
  <2>2. tsSocket' \in {0, tsSocket}
    BY <1>11 DEF ThreadClose
  <2>3. spc \in {"close", "closefd", "clear"} /\ spc' \in {"closefd", "clear", "finish"}
    BY <1>11 DEF ThreadClose
  <2>4. UNCHANGED <<mode, mpc, running, length, msg, part, fd, tSocket, tBuffer, tPart, arg>>
    BY <1>11 DEF ThreadClose
  <2>5. mpc = "killed" <=> spc = "killed"
    BY <1>0 DEF Control
  <2> QED
    BY <1>0, <2>1, <2>2, <2>3, <2>4 DEF Control
<1>12. ASSUME NEW c \in Conns, Answer(c) PROVE Control'
  BY <1>0, <1>12 DEF Answer, Control, IsOpen
<1>13. ASSUME NEW C \in SUBSET Conns, Drop(C) PROVE Control'
  <2>1. \A s \in 0 .. MaxConn : IsOpen(s)' => IsOpen(s)
    BY <1>13, <1>t DEF Drop, IsOpen
  <2>2. arg' = arg /\ ~IsOpen(arg.fd) => ~IsOpen(arg.fd)'
    BY <1>t, <2>1
  <2> QED
    BY <1>0, <1>13, <2>2 DEF Drop, Control
<1>14. CASE Check
  BY <1>0, <1>14 DEF Check, Control, IsOpen
<1>15. CASE Recheck
  BY <1>0, <1>15 DEF Recheck, Return, Control, IsOpen
<1>16. CASE TxWait
  BY <1>0, <1>16 DEF TxWait, Return, Control, IsOpen
<1>17. CASE SpuriousWakeup
  BY <1>0, <1>17 DEF SpuriousWakeup, Control, IsOpen
<1>18. CASE ThreadTest
  BY <1>0, <1>18 DEF ThreadTest, Control, IsOpen
<1>19. CASE ThreadFinish
  BY <1>0, <1>19 DEF ThreadFinish, Control, IsOpen
<1>20. CASE Sigpipe
  BY <1>0, <1>20 DEF Sigpipe, Control, IsOpen
<1>21. CASE NestedCheck
  BY <1>0, <1>21 DEF NestedCheck, Control, IsOpen
<1>22. CASE BuildRestart
  <2>1. mpc' \in {"recheck", "build", "send"} /\ (mpc' = "send" => part' = 0 /\ msg' = Restart /\ fd' = tsSocket)
    BY <1>22 DEF BuildRestart, RestartReturns
  <2> QED
    BY <1>0, <1>22, <2>1 DEF BuildRestart, Control, IsOpen
<1> QED
  BY <1>1, <1>2, <1>3, <1>4, <1>5, <1>6, <1>7, <1>8, <1>9, <1>10, <1>11, <1>12, <1>13,
     <1>14, <1>15, <1>16, <1>17, <1>18, <1>19, <1>20, <1>21, <1>22 DEF Next, Caller, Thread, Peer

\* Every step keeps what is known of the connections.
LEMMA SocketsStep ==
  ASSUME TransferInv, NoEmptyStream, Next
  PROVE  Sockets'
<1> USE TransferAssumption DEF cfg, shared, caller, nesting, thread, network, Restart
<1>0. TypeOK /\ Control /\ Sockets
  BY DEF TransferInv
<1>t. /\ cstate \in [Conns -> {"new", "fresh", "open", "dropped", "closed"}]
      /\ nsock \in 0 .. MaxConn /\ tsSocket \in 0 .. MaxConn /\ arg.fd \in 0 .. MaxConn
      /\ Conns = 1 .. MaxConn /\ MaxConn \in Nat /\ running \in BOOLEAN
  BY <1>0 DEF TypeOK, Conns
<1>u. /\ tsSocket \in {0, nsock} /\ (tsSocket # 0 => tsSocket \in Conns)
  BY <1>0, <1>t DEF Sockets
<1>v. ASSUME CloseSocket
      PROVE  /\ tsSocket' = 0
             /\ \A c \in Conns : cstate'[c] = cstate[c] \/ (c = nsock /\ cstate'[c] = "closed")
  BY <1>t, <1>u, <1>v DEF CloseSocket
<1>1. CASE Call
  BY <1>1, <1>0 DEF Call, Sockets
<1>2. CASE OpenSocket
  <2>1. nsock + 1 \in Conns /\ tsSocket' = nsock + 1 /\ nsock' = nsock + 1 /\ mpc' = "connect"
    BY <1>0, <1>2 DEF OpenSocket, TypeOK, Conns
  <2>2. cstate[nsock + 1] = "new"
    BY <1>0, <2>1 DEF Sockets, TypeOK
  <2>3. \A c \in Conns : cstate'[c] = IF c = nsock + 1 THEN "fresh" ELSE cstate[c]
    BY <1>0, <1>2 DEF OpenSocket, TypeOK
  <2>4. running /\ arg.fd # 0 => cstate'[arg.fd] \notin {"new", "fresh"}
    BY <1>0, <2>1, <2>2, <2>3, <1>t DEF Sockets
  <2>5. \A c \in Conns : c > nsock' => cstate'[c] = "new"
    BY <1>0, <2>1, <2>3, <1>t DEF Sockets
  <2>6. \A c \in Conns : cstate'[c] \in {"new", "fresh"} =>
          wire'[c] = <<>> /\ acks'[c] = <<>> /\ answered'[c] = 0
    BY <1>0, <1>2, <2>2, <2>3 DEF OpenSocket, Sockets
  <2> QED
    BY <1>2, <2>1, <2>4, <2>5, <2>6 DEF OpenSocket, Sockets
<1>3. CASE Connect
  <2>1. CASE cstate' = [cstate EXCEPT ![tsSocket] = "open"] /\ tsSocket # 0 /\ tsSocket' = tsSocket /\ mpc' = "restart"
    <3>1. \A c \in Conns : cstate'[c] = IF c = tsSocket THEN "open" ELSE cstate[c]
      BY <1>0, <2>1 DEF TypeOK
    <3>2. tsSocket \in Conns /\ tsSocket = nsock /\ nsock \in Nat
      BY <1>0, <2>1 DEF TypeOK, Conns, Sockets
    <3> QED
      BY <1>0, <1>3, <2>1, <3>1, <3>2, <1>t DEF Connect, Sockets
  <2>2. CASE CloseSocket /\ mpc' \in {"recheck", "build"}
    <3>1. /\ tsSocket' = 0
          /\ \A c \in Conns : cstate'[c] = cstate[c] \/ (c = nsock /\ cstate'[c] = "closed")
      BY <2>2, <1>v
    <3> QED
      BY <1>0, <1>3, <2>2, <3>1, <1>t DEF Connect, Sockets
  <2> QED
    BY <1>3, <2>1, <2>2 DEF Connect, RestartReturns
<1>4. CASE SendRestart
  BY <1>0, <1>4 DEF SendRestart, Sockets, RestartReturns, TypeOK
<1>5. CASE SendDirect
  <2>1. CASE tsSocket' = tsSocket /\ cstate' = cstate
    <3>1. \A c \in Conns : cstate[c] \in {"new", "fresh"} => wire'[c] = wire[c]
      BY <1>0, <1>5 DEF SendDirect, Taken, Lost, IsOpen, TypeOK
    <3> QED
      BY <1>0, <1>5, <2>1, <3>1 DEF SendDirect, Sockets, Return, Sent, Done, RestartReturns
  <2>2. CASE CloseSocket /\ wire' = wire
    <3>1. /\ tsSocket' = 0
          /\ \A c \in Conns : cstate'[c] = cstate[c] \/ (c = nsock /\ cstate'[c] = "closed")
      BY <2>2, <1>v
    <3> QED
      BY <1>0, <1>5, <2>2, <3>1, <1>t DEF SendDirect, Sockets, Done, RestartReturns, Return
  <2> QED
    BY <1>5, <2>1, <2>2 DEF SendDirect
<1>6. CASE Receive
  <2>0. UNCHANGED <<wire, answered, nsock, arg, running, fd>> /\ mpc = "recv"
        /\ mpc' \in {"idle", "recheck", "build"}
    BY <1>6 DEF Receive, Return, Done, RestartReturns
  <2>1. CASE tsSocket' = tsSocket /\ cstate' = cstate
    <3>1. \A c \in Conns : acks[c] = <<>> => acks'[c] = <<>>
      BY <1>0, <1>6 DEF Receive, TypeOK
    <3> QED
      BY <1>0, <2>0, <2>1, <3>1 DEF Sockets
  <2>2. CASE CloseSocket /\ acks' = acks
    <3>1. /\ tsSocket' = 0
          /\ \A c \in Conns : cstate'[c] = cstate[c] \/ (c = nsock /\ cstate'[c] = "closed")
      BY <2>2, <1>v
    <3> QED
      BY <1>0, <2>0, <2>2, <3>1, <1>t DEF Sockets
  <2> QED
    BY <1>6, <2>1, <2>2 DEF Receive
<1>7. CASE Header
  BY <1>0, <1>7 DEF Header, Sockets
<1>8. CASE StartThread
  BY <1>0, <1>8 DEF StartThread, Sockets, Return, TypeOK
<1>9. CASE ThreadArgs
  BY <1>0, <1>9 DEF ThreadArgs, Sockets
<1>10. CASE ThreadSend
  <2>1. \A c \in Conns : cstate[c] \in {"new", "fresh"} => wire'[c] = wire[c]
    BY <1>0, <1>10 DEF ThreadSend, Taken, Lost, IsOpen, TypeOK
  <2> QED
    BY <1>0, <1>10, <2>1 DEF ThreadSend, Sockets
<1>11. CASE ThreadClose
  <2>1. \A c \in Conns : cstate'[c] = cstate[c] \/ (c = nsock /\ cstate'[c] = "closed")
    BY <1>t, <1>u, <1>11 DEF ThreadClose
  <2>2. nsock \in Nat /\ tsSocket' \in {0, tsSocket}
    BY <1>0, <1>11 DEF ThreadClose, TypeOK
  <2>3. UNCHANGED <<wire, acks, answered, nsock, running, arg, mpc, fd>>
    BY <1>11 DEF ThreadClose
  <2> QED
    BY <1>0, <2>1, <2>2, <2>3, <1>t DEF Sockets
<1>12. ASSUME NEW c \in Conns, Answer(c) PROVE Sockets'
  <2>1. \A d \in Conns : cstate[d] \in {"new", "fresh"} => acks'[d] = acks[d] /\ answered'[d] = answered[d]
    BY <1>0, <1>12 DEF Answer, TypeOK
  <2> QED
    BY <1>0, <1>12, <2>1 DEF Answer, Sockets
<1>13. ASSUME NEW C \in SUBSET Conns, Drop(C) PROVE Sockets'
  <2>1. \A d \in Conns : cstate'[d] = cstate[d] \/ (cstate[d] = "open" /\ cstate'[d] = "dropped")
    BY <1>t, <1>13 DEF Drop
  <2>2. UNCHANGED <<wire, acks, answered, nsock, running, arg, mpc, fd, tsSocket>>
    BY <1>13 DEF Drop
  <2> QED
    BY <1>0, <2>1, <2>2, <1>t DEF Sockets
<1>14. CASE Check
  BY <1>0, <1>14 DEF Check, Sockets
<1>15. CASE Recheck
  BY <1>0, <1>15 DEF Recheck, Return, Sockets
<1>16. CASE TxWait
  BY <1>0, <1>16 DEF TxWait, Return, Sockets
<1>17. CASE SpuriousWakeup
  BY <1>0, <1>17 DEF SpuriousWakeup, Sockets
<1>18. CASE ThreadTest
  BY <1>0, <1>18 DEF ThreadTest, Sockets
<1>19. CASE ThreadFinish
  BY <1>0, <1>19 DEF ThreadFinish, Sockets
<1>20. CASE Sigpipe
  BY <1>0, <1>20 DEF Sigpipe, Sockets
<1>21. CASE NestedCheck
  BY <1>0, <1>21 DEF NestedCheck, Sockets
<1>22. CASE BuildRestart
  BY <1>0, <1>22, <1>t DEF BuildRestart, Sockets, RestartReturns
<1> QED
  BY <1>1, <1>2, <1>3, <1>4, <1>5, <1>6, <1>7, <1>8, <1>9, <1>10, <1>11, <1>12, <1>13,
     <1>14, <1>15, <1>16, <1>17, <1>18, <1>19, <1>20, <1>21, <1>22 DEF Next, Caller, Thread, Peer

\* Every step keeps a pending request away from the caller's buffer.
LEMMA KeptStep ==
  ASSUME TransferInv, NoEmptyStream, Next
  PROVE  RequestKept'
<1> USE TransferAssumption DEF cfg, shared, caller, nesting, thread, network, Sending, BlockGiven, RequestKept
<1>0. TypeOK /\ Control /\ Sockets /\ RequestKept
  BY DEF TransferInv
<1>1. CASE Call
  <2>1. arg.buf \in {0, 1} /\ block \in Nat
    BY <1>0 DEF TypeOK, Buffers
  <2>2. Mine' = (block + 1) % 2 /\ Mine = block % 2
    BY <1>1 DEF Call, Mine
  <2>3. arg.buf = Mine => arg.buf # Mine'
    BY <2>1, <2>2
  <2> QED
    BY <1>0, <1>1, <2>3 DEF Call
<1>2. CASE OpenSocket
  BY <1>0, <1>2 DEF OpenSocket, Control
<1>3. CASE Connect
  BY <1>0, <1>3 DEF Connect
<1>4. CASE SendRestart
  BY <1>0, <1>4 DEF SendRestart
<1>5. CASE SendDirect
  BY <1>0, <1>5 DEF SendDirect
<1>6. CASE Receive
  BY <1>0, <1>6 DEF Receive
<1>7. CASE Header
  BY <1>0, <1>7 DEF Header, Control, Mine
<1>8. CASE StartThread
  BY <1>0, <1>8 DEF StartThread, Return, Mine, TypeOK
<1>9. CASE ThreadArgs
  BY <1>0, <1>9 DEF ThreadArgs, Mine
<1>10. CASE ThreadSend
  BY <1>0, <1>10 DEF ThreadSend, Mine
<1>11. CASE ThreadClose
  BY <1>0, <1>11 DEF ThreadClose
<1>12. ASSUME NEW c \in Conns, Answer(c) PROVE RequestKept'
  BY <1>0, <1>12 DEF Answer, Mine
<1>13. ASSUME NEW C \in SUBSET Conns, Drop(C) PROVE RequestKept'
  BY <1>0, <1>13 DEF Drop, Mine
<1>14. CASE Check
  BY <1>0, <1>14 DEF Check, Mine
<1>15. CASE Recheck
  BY <1>0, <1>15 DEF Recheck, Mine
<1>16. CASE TxWait
  BY <1>0, <1>16 DEF TxWait, Return, Mine
<1>17. CASE SpuriousWakeup
  BY <1>0, <1>17 DEF SpuriousWakeup, Mine
<1>18. CASE ThreadTest
  BY <1>0, <1>18 DEF ThreadTest, Mine
<1>19. CASE ThreadFinish
  BY <1>0, <1>19 DEF ThreadFinish
<1>20. CASE Sigpipe
  BY <1>0, <1>20 DEF Sigpipe
<1>21. CASE NestedCheck
  BY <1>0, <1>21 DEF NestedCheck
<1>22. CASE BuildRestart
  BY <1>0, <1>22 DEF BuildRestart
<1> QED
  BY <1>1, <1>2, <1>3, <1>4, <1>5, <1>6, <1>7, <1>8, <1>9, <1>10, <1>11, <1>12, <1>13,
     <1>14, <1>15, <1>16, <1>17, <1>18, <1>19, <1>20, <1>21, <1>22 DEF Next, Caller, Thread, Peer

\* Every step keeps restart messages nested in overlap mode only, and once.
LEMMA NestedStep ==
  ASSUME TransferInv, NoEmptyStream, Next
  PROVE  Nested'
<1> USE DEF cfg, shared, caller, nesting, thread, network, Nested, ThreadDone, Opening
<1>0. TypeOK /\ Control /\ Nested
  BY DEF TransferInv
<1>d. depth \in Nat
  BY <1>0 DEF TypeOK
<1>r. RestartReturns => /\ mpc' \in {"recheck", "build"} /\ depth' \in Nat
                        /\ depth = 0 => mpc' = "recheck" /\ depth' = 0
                        /\ depth # 0 => mpc' = "build" /\ depth' = depth - 1
  BY <1>0, WhereRestartReturns
<1>1. CASE Call
  BY <1>0, <1>1 DEF Call
<1>2. CASE OpenSocket
  BY <1>0, <1>2 DEF OpenSocket
<1>3. CASE Connect
  BY <1>0, <1>3, <1>d, <1>r DEF Connect
<1>4. CASE SendRestart
  BY <1>0, <1>4, <1>d, <1>r DEF SendRestart
<1>5. CASE SendDirect
  <2>1. UNCHANGED <<overlap, running, spc, msg>> /\ mpc = "send"
    BY <1>5 DEF SendDirect
  <2>3. msg # Restart => mpc' \in {"send", "recv", "idle"} /\ depth' = depth
    BY <1>5 DEF SendDirect, Sent, Done, Return
  <2>4. msg = Restart => (mpc' \in {"send", "recv"} /\ depth' = depth) \/ RestartReturns
    BY <1>5 DEF SendDirect, Sent, Done, Return
  <2> QED
    BY <1>0, <1>d, <1>r, <2>1, <2>3, <2>4
<1>6. CASE Receive
  <2>1. UNCHANGED <<overlap, running, spc, msg>> /\ mpc = "recv"
    BY <1>6 DEF Receive
  <2>2. msg # Restart => mpc' = "idle" /\ depth' = depth
    BY <1>6 DEF Receive, Done, Return
  <2>3. msg = Restart => RestartReturns
    BY <1>6 DEF Receive, Done, Return
  <2> QED
    BY <1>0, <1>d, <1>r, <2>1, <2>2, <2>3
<1>7. CASE Header
  BY <1>0, <1>7 DEF Header
<1>8. CASE StartThread
  BY <1>0, <1>8 DEF StartThread, Return
<1>9. CASE ThreadArgs
  BY <1>0, <1>9 DEF ThreadArgs, Control
<1>10. CASE ThreadSend
  BY <1>0, <1>10 DEF ThreadSend, Control
<1>11. CASE ThreadClose
  BY <1>0, <1>11 DEF ThreadClose, Control, TypeOK
<1>12. ASSUME NEW c \in Conns, Answer(c) PROVE Nested'
  BY <1>0, <1>12 DEF Answer
<1>13. ASSUME NEW C \in SUBSET Conns, Drop(C) PROVE Nested'
  BY <1>0, <1>13 DEF Drop
<1>14. CASE Check
  BY <1>0, <1>14 DEF Check
<1>15. CASE Recheck
  BY <1>0, <1>15 DEF Recheck, Return
<1>16. CASE TxWait
  BY <1>0, <1>16 DEF TxWait, Return
<1>17. CASE SpuriousWakeup
  BY <1>0, <1>17 DEF SpuriousWakeup
<1>18. CASE ThreadTest
  BY <1>0, <1>18 DEF ThreadTest
<1>19. CASE ThreadFinish
  BY <1>0, <1>19 DEF ThreadFinish
<1>20. CASE Sigpipe
  BY <1>0, <1>20 DEF Sigpipe
<1>21. CASE NestedCheck
  BY <1>0, <1>21 DEF NestedCheck, TypeOK
<1>22. CASE BuildRestart
  BY <1>0, <1>22, <1>d, <1>r DEF BuildRestart
<1> QED
  BY <1>1, <1>2, <1>3, <1>4, <1>5, <1>6, <1>7, <1>8, <1>9, <1>10, <1>11, <1>12, <1>13,
     <1>14, <1>15, <1>16, <1>17, <1>18, <1>19, <1>20, <1>21, <1>22 DEF Next, Caller, Thread, Peer

-----------------------------------------------------------------------------
(* What a piece adds to a connection                                        *)

\* The frame of one connection's pieces behind n restart messages.
Framed(w, n) ==
  \A k \in 1 .. Len(w) :
    LET frame == (k - 1) \div NParts
        first == w[frame * NParts + 1]
    IN  /\ w[k] = Chunk(first, ((k - 1) % NParts) + 1)
        /\ (frame < n) <=> (first.blk = 0)
        /\ frame >= n => first.seq = frame - n

\* The first piece of a piece's message is not behind it.
LEMMA FirstPiece ==
  ASSUME NEW k \in Nat, k >= 1
  PROVE  /\ (k - 1) \div NParts \in Nat /\ ((k - 1) \div NParts) * NParts + 1 \in 1 .. k
<1>1. k - 1 \in Nat /\ NParts \in Nat /\ NParts >= 1
  BY TransferAssumption
<1>2. (k - 1) \div NParts \in Nat
  BY <1>1, DivisionOfNat
<1>3. (k - 1) \div NParts \in Int /\ (k - 1) % NParts \in 0 .. NParts - 1
      /\ k - 1 = NParts * ((k - 1) \div NParts) + ((k - 1) % NParts)
  BY <1>1, DivMod
<1> DEFINE q == (k - 1) \div NParts
           r == (k - 1) % NParts
<1>4. q \in Nat /\ r \in 0 .. NParts - 1 /\ k - 1 = NParts * q + r
  BY <1>2, <1>3
<1> HIDE DEF q, r
<1>5. q * NParts \in Nat /\ NParts * q = q * NParts
  BY <1>1, <1>4, SMT
<1>6. q * NParts + 1 \in 1 .. k
  BY <1>1, <1>4, <1>5
<1> QED
  BY <1>4, <1>6 DEF q

\* The next piece of the message under way keeps the frame.
LEMMA FramedAppend ==
  ASSUME NEW w \in Seq(Chunks), NEW m \in Messages, NEW p \in 0 .. NParts - 1, NEW f \in Nat,
         NEW n \in Nat, Framed(w, n), Len(w) = f * NParts + p, p > 0 => w[f * NParts + 1] = Chunk(m, 1),
         f < n <=> m.blk = 0, f >= n => m.seq = f - n
  PROVE  /\ Framed(Append(w, Chunk(m, p + 1)), n)
         /\ Len(Append(w, Chunk(m, p + 1))) = f * NParts + p + 1
         /\ Append(w, Chunk(m, p + 1))[f * NParts + 1] = Chunk(m, 1)
<1> DEFINE v == Append(w, Chunk(m, p + 1))
<1>0. NParts \in Nat /\ NParts >= 1 /\ f * NParts \in Nat /\ NParts * f = f * NParts
  BY TransferAssumption, SMT
<1>1. Chunk(m, p + 1) \in Chunks
  BY <1>0 DEF Chunk, Chunks, Messages
<1>2. /\ Len(v) = Len(w) + 1 /\ Len(w) \in Nat
      /\ \A k \in 1 .. Len(w) : v[k] = w[k]
      /\ v[Len(w) + 1] = Chunk(m, p + 1)
  BY <1>1, AppendProperties, LenProperties
<1> HIDE DEF v
<1>3. v[f * NParts + 1] = Chunk(m, 1)
  <2>1. CASE p = 0
    BY <1>0, <1>2, <2>1
  <2>2. CASE p > 0
    <3>1. f * NParts + 1 \in 1 .. Len(w)
      BY <1>0, <1>2, <2>2
    <3> QED
      BY <1>2, <2>2, <3>1
  <2> QED
    BY <2>1, <2>2
<1>4. ASSUME NEW k \in 1 .. Len(w)
      PROVE  LET frame == (k - 1) \div NParts
                 first == v[frame * NParts + 1]
             IN  /\ v[k] = Chunk(first, ((k - 1) % NParts) + 1)
                 /\ (frame < n) <=> (first.blk = 0)
                 /\ frame >= n => first.seq = frame - n
  <2>1. ((k - 1) \div NParts) * NParts + 1 \in 1 .. k
    BY <1>2, FirstPiece
  <2>2. ((k - 1) \div NParts) * NParts + 1 \in 1 .. Len(w)
    BY <1>2, <2>1
  <2>3. v[((k - 1) \div NParts) * NParts + 1] = w[((k - 1) \div NParts) * NParts + 1] /\ v[k] = w[k]
    BY <1>2, <2>2
  <2> QED
    BY <2>3 DEF Framed
<1>5. ASSUME NEW k \in Nat, k = Len(w) + 1
      PROVE  LET frame == (k - 1) \div NParts
                 first == v[frame * NParts + 1]
             IN  /\ v[k] = Chunk(first, ((k - 1) % NParts) + 1)
                 /\ (frame < n) <=> (first.blk = 0)
                 /\ frame >= n => first.seq = frame - n
  <2>1. k - 1 = NParts * f + p
    BY <1>0, <1>2, <1>5
  <2>0. f \in Int /\ p \in 0 .. NParts - 1
    OBVIOUS
  <2>2. (NParts * f + p) \div NParts = f /\ (NParts * f + p) % NParts = p
    BY <1>0, <2>0, DivModOfSum
  <2>3. (k - 1) \div NParts = f /\ (k - 1) % NParts = p
    BY <2>1, <2>2
  <2>4. v[k] = Chunk(Chunk(m, 1), p + 1)
    BY <1>2, <1>5 DEF Chunk
  <2>5. Chunk(m, 1).blk = m.blk /\ Chunk(m, 1).seq = m.seq
    BY DEF Chunk
  <2> QED
    BY <1>3, <2>3, <2>4, <2>5
<1>6. \A k \in 1 .. Len(v) : k \in 1 .. Len(w) \/ (k \in Nat /\ k = Len(w) + 1)
  BY <1>2
<1>7. Framed(v, n)
  BY <1>4, <1>5, <1>6 DEF Framed
<1>8. Len(v) = f * NParts + p + 1
  BY <1>0, <1>2
<1> QED
  BY <1>3, <1>7, <1>8 DEF v

\* A piece added to one connection keeps every connection framed.
LEMMA OnePieceMore ==
  ASSUME TypeOK, WireFramed, restarts' = restarts, overlap' = overlap,
         NEW c \in Conns, restarts[c] \in 1 .. MaxRestarts, NEW m \in Messages, NEW p \in 0 .. NParts - 1,
         NEW f \in Nat, OnWire(c, m, p, f),
         wire' = [wire EXCEPT ![c] = Append(@, Chunk(m, p + 1))]
  PROVE  /\ WireFramed'
         /\ Len(wire'[c]) = f * NParts + p + 1
         /\ wire'[c][f * NParts + 1] = Chunk(m, 1)
         /\ p + 1 = NParts => Len(wire'[c]) = (f + 1) * NParts
<1>1. \A d \in Conns : Framed(wire[d], restarts[d]) /\ wire[d] \in Seq(Chunks) /\ restarts[d] \in Nat
  BY DEF WireFramed, Framed, TypeOK
<1>2. /\ Framed(Append(wire[c], Chunk(m, p + 1)), restarts[c])
      /\ Len(Append(wire[c], Chunk(m, p + 1))) = f * NParts + p + 1
      /\ Append(wire[c], Chunk(m, p + 1))[f * NParts + 1] = Chunk(m, 1)
  BY <1>1, FramedAppend DEF OnWire
<1>3. /\ wire'[c] = Append(wire[c], Chunk(m, p + 1))
      /\ \A d \in Conns : d # c => wire'[d] = wire[d]
  BY DEF TypeOK
<1>4. \A d \in Conns : Framed(wire'[d], restarts[d])
  BY <1>1, <1>2, <1>3
<1>7. MaxRestarts' = MaxRestarts
  BY DEF MaxRestarts
<1>5. WireFramed'
  <2>1. SUFFICES ASSUME NEW d \in Conns, NEW k \in 1 .. Len(wire'[d])
                 PROVE  LET frame == (k - 1) \div NParts
                            first == wire'[d][frame * NParts + 1]
                        IN  /\ wire'[d][k] = Chunk(first, ((k - 1) % NParts) + 1)
                            /\ restarts'[d] \in 1 .. MaxRestarts'
                            /\ (frame < restarts'[d]) <=> (first.blk = 0)
                            /\ frame >= restarts'[d] => first.seq = frame - restarts'[d]
    BY DEF WireFramed
  <2>2. d # c => k \in 1 .. Len(wire[d])
    BY <1>3
  <2>3. restarts[d] \in 1 .. MaxRestarts
    BY <2>2 DEF WireFramed
  <2> QED
    BY <1>4, <1>7, <2>3, ZenonT(30) DEF Framed
<1>6. NParts \in Nat /\ f * NParts \in Nat /\ (f + 1) * NParts = f * NParts + NParts
  BY TransferAssumption, SMT
<1>8. p + 1 = NParts => Len(wire'[c]) = (f + 1) * NParts
  BY <1>2, <1>3, <1>6
<1> QED
  BY <1>2, <1>3, <1>5, <1>8

\* What the caller's own piece makes of the connection.
LEMMA DirectPiece ==
  ASSUME TransferInv, SendDirect, Taken(fd, msg, part + 1)
  PROVE  /\ fd \in Conns /\ part \in 0 .. NParts - 1 /\ Ahead \in Nat /\ OnWire(fd, msg, part, Ahead)
         /\ \A d \in Conns : d # fd => wire'[d] = wire[d]
         /\ wire'[fd] = Append(wire[fd], Chunk(msg, part + 1))
         /\ WireFramed'
         /\ Len(wire'[fd]) = Ahead * NParts + part + 1
         /\ wire'[fd][Ahead * NParts + 1] = Chunk(msg, 1)
         /\ part + 1 = NParts => Len(wire'[fd]) = (Ahead + 1) * NParts
<1>1. TypeOK /\ WireFramed /\ Control /\ Progress /\ Restarted
  BY DEF TransferInv
<1>2. fd \in Conns /\ IsOpen(fd) /\ wire' = [wire EXCEPT ![fd] = Append(@, Chunk(msg, part + 1))]
  BY <1>1 DEF Taken, IsOpen, TypeOK, Conns
<1>3. part \in 0 .. NParts - 1 /\ msg \in Messages
  BY <1>1, TransferAssumption DEF SendDirect, Control, TypeOK
<1>r. Ahead \in Nat /\ restarts[fd] \in 1 .. MaxRestarts
  <2>1. sequence \in Nat /\ depth \in Nat /\ restarts[fd] \in Nat /\ mpc = "send"
    BY <1>1, <1>2 DEF TypeOK, SendDirect
  <2>2. restarts[fd] >= 1 /\ restarts[fd] + depth <= MaxRestarts
    BY <1>1, <1>2, <2>1 DEF Restarted, ToCome
  <2> QED
    BY <2>1, <2>2 DEF Ahead, MaxRestarts
<1>s. restarts' = restarts /\ overlap' = overlap
  BY DEF SendDirect, cfg
<1>4. OnWire(fd, msg, part, Ahead)
  BY <1>1, <1>2 DEF SendDirect, Progress
<1>5. PICK c \in Conns, m \in Messages, p \in 0 .. NParts - 1, f \in Nat :
        c = fd /\ m = msg /\ p = part /\ f = Ahead
  BY <1>2, <1>3, <1>r
<1>6. OnWire(c, m, p, f) /\ restarts[c] \in 1 .. MaxRestarts /\ wire' = [wire EXCEPT ![c] = Append(@, Chunk(m, p + 1))]
  BY <1>2, <1>4, <1>5, <1>r
<1>7. /\ WireFramed'
      /\ Len(wire'[c]) = f * NParts + p + 1
      /\ wire'[c][f * NParts + 1] = Chunk(m, 1)
      /\ p + 1 = NParts => Len(wire'[c]) = (f + 1) * NParts
  BY ONLY <1>1, <1>6, <1>s, OnePieceMore, Zenon
<1>8. /\ \A d \in Conns : d # fd => wire'[d] = wire[d]
      /\ wire'[fd] = Append(wire[fd], Chunk(msg, part + 1))
  BY <1>1, <1>2 DEF TypeOK
<1> QED
  BY <1>2, <1>3, <1>4, <1>5, <1>7, <1>8, <1>r

\* What the send thread's piece makes of the connection.
LEMMA ThreadPiece ==
  ASSUME TransferInv, ThreadSend, Taken(tSocket, buffer[tBuffer], tPart + 1)
  PROVE  /\ arg.fd \in Conns /\ tSocket = arg.fd /\ tBuffer = arg.buf /\ tsSocket = arg.fd
         /\ Sending /\ tPart \in 0 .. NParts - 1 /\ Given > 0 /\ Whole \in Nat \ {0}
         /\ OnWire(arg.fd, buffer[arg.buf], tPart, Whole - 1)
         /\ \A d \in Conns : d # arg.fd => wire'[d] = wire[d]
         /\ wire'[arg.fd] = Append(wire[arg.fd], Chunk(buffer[arg.buf], tPart + 1))
         /\ WireFramed'
         /\ Len(wire'[arg.fd]) = (Whole - 1) * NParts + tPart + 1
         /\ wire'[arg.fd][(Whole - 1) * NParts + 1] = Chunk(buffer[arg.buf], 1)
         /\ tPart + 1 = NParts => Len(wire'[arg.fd]) = Whole * NParts
<1>1. TypeOK /\ WireFramed /\ Control /\ Carried /\ RequestKept /\ Restarted
  BY DEF TransferInv
<1>2. tSocket = arg.fd /\ tBuffer = arg.buf /\ IsOpen(arg.fd) /\ spc = "send" /\ running
  BY <1>1 DEF Taken, ThreadSend, Control
<1>3. arg.fd \in Conns /\ wire' = [wire EXCEPT ![arg.fd] = Append(@, Chunk(buffer[arg.buf], tPart + 1))]
  BY <1>1, <1>2 DEF Taken, IsOpen, TypeOK, Conns
<1>4. Sending /\ tsSocket = arg.fd
  BY <1>1, <1>2 DEF Sending, RequestKept, IsOpen
<1>5. restarts[arg.fd] \in 1 .. MaxRestarts /\ tPart \in 0 .. NParts - 1 /\ Given > 0 /\ Whole \in Nat \ {0} /\ buffer[arg.buf] \in Messages
      /\ OnWire(arg.fd, buffer[arg.buf], tPart, Whole - 1)
  <2>1. mpc \notin {"connect", "restart", "nested", "build", "send", "killed"}
    BY <1>1, <1>2, <1>4 DEF RequestKept, BlockGiven
  <2>2. Given > 0 /\ OnWire(arg.fd, buffer[arg.buf], tPart, Whole - 1)
    BY <1>1, <1>2, <1>4, <2>1 DEF Carried, Written
  <2>3. Given \in Int /\ restarts[arg.fd] \in Nat /\ depth \in Nat
    BY <1>1, <1>3 DEF Given, TypeOK
  <2>6. restarts[arg.fd] >= 1 /\ restarts[arg.fd] + ToCome <= MaxRestarts
    BY <1>1, <1>3, <1>4, <2>1 DEF Restarted
  <2>7. Whole \in Nat \ {0} /\ restarts[arg.fd] \in 1 .. MaxRestarts
    BY <1>4, <2>1, <2>2, <2>3, <2>6 DEF Whole, ToCome, MaxRestarts
  <2>4. tPart \in 0 .. NParts - 1
    BY <1>1, <1>2, TransferAssumption DEF Control, TypeOK
  <2>5. buffer[arg.buf] \in Messages
    BY <1>1 DEF TypeOK
  <2> QED
    BY <2>2, <2>4, <2>5, <2>7
<1>s. restarts' = restarts /\ overlap' = overlap
  BY DEF ThreadSend, cfg, caller, nesting
<1>6. PICK c \in Conns, m \in Messages, p \in 0 .. NParts - 1, f \in Nat :
        c = arg.fd /\ m = buffer[arg.buf] /\ p = tPart /\ f = Whole - 1
  BY <1>3, <1>5
<1>7. OnWire(c, m, p, f) /\ restarts[c] \in 1 .. MaxRestarts /\ wire' = [wire EXCEPT ![c] = Append(@, Chunk(m, p + 1))]
  BY <1>3, <1>5, <1>6
<1>8. /\ WireFramed'
      /\ Len(wire'[c]) = f * NParts + p + 1
      /\ wire'[c][f * NParts + 1] = Chunk(m, 1)
      /\ p + 1 = NParts => Len(wire'[c]) = (f + 1) * NParts
  BY ONLY <1>1, <1>7, <1>s, OnePieceMore, Zenon
<1>9. /\ \A d \in Conns : d # arg.fd => wire'[d] = wire[d]
      /\ wire'[arg.fd] = Append(wire[arg.fd], Chunk(buffer[arg.buf], tPart + 1))
  BY <1>1, <1>3 DEF TypeOK
<1>10. Whole - 1 + 1 = Whole
  BY <1>5
<1> QED
  BY <1>2, <1>3, <1>4, <1>5, <1>6, <1>8, <1>9, <1>10

-----------------------------------------------------------------------------
(* How far each connection is                                               *)

\* Every step keeps the sequence number and the caller's own message.
LEMMA ProgressStep ==
  ASSUME TransferInv, NoEmptyStream, Next
  PROVE  Progress'
<1> USE TransferAssumption DEF cfg, shared, caller, nesting, thread, network, Restart, IsOpen, HeaderWritten, Opening
<1>0. TypeOK /\ Control /\ Sockets /\ RequestKept /\ Progress /\ Carried /\ Numbers /\ Restarted
  BY DEF TransferInv
<1>t. /\ cstate \in [Conns -> {"new", "fresh", "open", "dropped", "closed"}]
      /\ nsock \in 0 .. MaxConn /\ tsSocket \in 0 .. MaxConn /\ arg.fd \in 0 .. MaxConn
      /\ Conns = 1 .. MaxConn /\ MaxConn \in Nat /\ running \in BOOLEAN /\ fd \in 0 .. MaxConn
      /\ sequence \in Nat /\ restarts \in [Conns -> Nat] /\ part \in Nat /\ msg \in Messages
      /\ wire \in [Conns -> Seq(Chunks)]
      /\ Mine \in Buffers
  BY <1>0 DEF TypeOK, Conns, Mine, Buffers
<1>1. CASE Call
  BY <1>0, <1>1 DEF Call, Progress
<1>2. CASE OpenSocket
  BY <1>0, <1>2 DEF OpenSocket, Progress
<1>3. CASE Connect
  BY <1>0, <1>3, <1>t DEF Connect, Progress, RestartReturns
<1>4. CASE SendRestart
  BY <1>0, <1>4, <1>t DEF SendRestart, Progress, RestartReturns
<1>5. CASE SendDirect
  <2>0. UNCHANGED <<fd, msg, sequence, restarts>>
    BY <1>5 DEF SendDirect
  <2>1. (mpc = "send" /\ IsOpen(fd) => OnWire(fd, msg, part, Ahead))'
    <3>1. SUFFICES ASSUME mpc' = "send", IsOpen(fd)' PROVE OnWire(fd, msg, part, Ahead)'
      OBVIOUS
    <3>2. Taken(fd, msg, part + 1) /\ part' = part + 1 /\ cstate' = cstate
          /\ part \in 0 .. NParts - 1
      BY <1>0, <1>5, <1>t, <3>1 DEF SendDirect, Lost, IsDropped, Done, RestartReturns, Return, Control
    <3>3. OnWire(fd, msg, part, Ahead) /\ Ahead \in Nat /\ fd \in Conns
      BY <1>5, <3>2, DirectPiece
    <3>4. Len(wire'[fd]) = Ahead * NParts + part + 1 /\ wire'[fd][Ahead * NParts + 1] = Chunk(msg, 1)
      BY <1>5, <3>2, DirectPiece
    <3>5. Ahead' = Ahead
      BY <2>0 DEF Ahead
    <3>6. Len(wire'[fd']) = Ahead' * NParts + part'
      <4>1. Ahead * NParts \in Nat
        BY <3>3, SMT
      <4> QED
        BY <2>0, <3>2, <3>4, <3>5, <4>1, <1>t
    <3>7. wire'[fd'][Ahead' * NParts + 1] = Chunk(msg', 1)
      BY <2>0, <3>4, <3>5
    <3>8. (Ahead' < restarts'[fd'] <=> msg'.blk = 0) /\ (Ahead' >= restarts'[fd'] => msg'.seq = Ahead' - restarts'[fd'])
      BY <2>0, <3>3, <3>5 DEF OnWire
    <3> QED
      BY <3>6, <3>7, <3>8 DEF OnWire
  <2>2. mpc' \in {"send", "recv", "recheck", "build", "idle"} /\ (mpc' \in {"recheck", "build"} => msg = Restart)
    BY <1>5 DEF SendDirect, Return, Sent, Done, RestartReturns
  <2> QED
    BY <1>0, <1>5, <2>0, <2>1, <2>2 DEF SendDirect, Progress
<1>6. CASE Receive
  <2>1. mpc' \in {"recheck", "build", "idle"} /\ (mpc' \in {"recheck", "build"} => msg = Restart)
        /\ sequence' = sequence /\ mpc = "recv"
    BY <1>6 DEF Receive, Return, Done, RestartReturns
  <2> QED
    BY <1>0, <2>1 DEF Progress
<1>7. CASE Header
  <2>1. (mpc = "send" /\ IsOpen(fd) => OnWire(fd, msg, part, Ahead))'
    <3>1. SUFFICES ASSUME mpc' = "send", IsOpen(fd)' PROVE OnWire(fd, msg, part, Ahead)'
      OBVIOUS
    <3>2. mode = 1 /\ ~running /\ IsOpen(tsSocket)
      BY <1>0, <1>7, <3>1 DEF Header, Control
    <3>3. Len(wire[tsSocket]) = (sequence + restarts[tsSocket]) * NParts
      BY <1>0, <1>7, <3>2 DEF Header, Carried, Sending, Given, Whole
    <3>4. msg' = [buffer[Mine] EXCEPT !.seq = sequence]
      BY <1>0, <1>7, <1>t, <3>1 DEF Header, TypeOK
    <3>5. msg'.blk = block /\ msg'.seq = sequence /\ block > 0
      BY <1>0, <1>7, <1>t, <3>4 DEF Header, Numbers, BeforeBlock, TypeOK, Messages
    <3>6. wire' = wire /\ fd' = tsSocket /\ part' = 0 /\ sequence' = sequence + 1 /\ restarts' = restarts
      BY <1>7, <3>1 DEF Header
    <3>8. restarts[tsSocket] \in Nat
      BY <3>2, <1>t
    <3>9. Ahead' = sequence + restarts[tsSocket] /\ Ahead' \in Nat
      BY <3>6, <3>8, <1>t DEF Ahead
    <3>7. Len(wire'[fd']) = Ahead' * NParts + 0
      BY <3>3, <3>6, <3>9, <1>t, SMT
    <3> QED
      <4>1. (Ahead' < restarts'[fd'] <=> msg'.blk = 0) /\ (Ahead' >= restarts'[fd'] => msg'.seq = Ahead' - restarts'[fd'])
        BY <3>5, <3>6, <3>8, <3>9, <1>t
      <4>2. part' = 0
        BY <3>6
      <4> QED
        BY <3>7, <4>1, <4>2, <3>6 DEF OnWire
  <2>2. (HeaderWritten => sequence > 0 /\ buffer[Mine].seq = sequence - 1)'
    <3>1. buffer'[Mine].seq = sequence /\ Mine' = Mine
      BY <1>0, <1>7, <1>t DEF Header, TypeOK, Messages, Mine
    <3>2. sequence' = sequence + 1
      BY <1>7 DEF Header
    <3>3. sequence' > 0 /\ buffer'[Mine'].seq = sequence' - 1
      BY <1>t, <3>1, <3>2
    <3> QED
      BY <3>3
  <2>3. mpc' = "send" => msg' # Restart
    <3>1. SUFFICES ASSUME mpc' = "send" PROVE msg'.blk # 0
      OBVIOUS
    <3>4. msg' = [buffer[Mine] EXCEPT !.seq = sequence]
      BY <1>0, <1>7, <1>t, <3>1 DEF Header, TypeOK
    <3> QED
      <4>1. buffer[Mine].blk = block /\ block > 0
        BY <1>0, <1>7 DEF Header, Numbers, BeforeBlock
      <4>2. buffer[Mine] \in Messages
        BY <1>0, <1>t DEF TypeOK
      <4> QED
        BY <3>4, <4>1, <4>2 DEF Messages
  <2> QED
    BY <1>0, <1>7, <2>1, <2>2, <2>3 DEF Header, Progress
<1>8. CASE StartThread
  BY <1>0, <1>8 DEF StartThread, Progress, Return
<1>9. CASE ThreadArgs
  BY <1>0, <1>9 DEF ThreadArgs, Progress, OnWire, Ahead, Mine
<1>10. CASE ThreadSend
  <2>1. CASE mpc = "send"
    <3>1. arg.fd = 0
      BY <1>0, <1>10, <2>1 DEF RequestKept, Sending, BlockGiven, ThreadSend, Control
    <3>2. wire' = wire
      BY <1>0, <1>10, <3>1 DEF Control, ThreadSend, Taken, Lost
    <3> QED
      BY <1>0, <1>10, <3>2 DEF ThreadSend, Progress, OnWire, Ahead, Mine
  <2>2. CASE mpc # "send"
    BY <1>0, <1>10, <2>2 DEF ThreadSend, Progress, Mine
  <2> QED
    BY <2>1, <2>2
<1>11. CASE ThreadClose
  <2>1. tsSocket' \in {0, tsSocket}
    BY <1>11 DEF ThreadClose
  <2>2. \A s \in Conns : IsOpen(s)' => IsOpen(s)
    BY <1>11, <1>t DEF ThreadClose
  <2> QED
    BY SMTT(15), <1>0, <1>11, <1>t, <2>1, <2>2 DEF ThreadClose, Progress, OnWire, Ahead, Mine
<1>12. ASSUME NEW c \in Conns, Answer(c) PROVE Progress'
  BY <1>0, <1>12 DEF Answer, Progress, OnWire, Ahead, Mine
<1>13. ASSUME NEW C \in SUBSET Conns, Drop(C) PROVE Progress'
  <2>2. \A s \in Conns : IsOpen(s)' => IsOpen(s)
    BY <1>13, <1>t DEF Drop
  <2> QED
    BY <1>0, <1>13, <1>t, <2>2 DEF Drop, Progress, OnWire, Ahead, Mine
<1>14. CASE Check
  BY <1>0, <1>14 DEF Check, Progress, OnWire, Ahead, Mine
<1>15. CASE Recheck
  BY <1>0, <1>15 DEF Recheck, Progress, OnWire, Ahead, Mine, Return
<1>16. CASE TxWait
  BY <1>0, <1>16 DEF TxWait, Return, Progress, OnWire, Ahead, Mine
<1>17. CASE SpuriousWakeup
  BY <1>0, <1>17 DEF SpuriousWakeup, Progress, OnWire, Ahead, Mine
<1>18. CASE ThreadTest
  BY <1>0, <1>18 DEF ThreadTest, Progress, OnWire, Ahead, Mine
<1>19. CASE ThreadFinish
  BY <1>0, <1>19 DEF ThreadFinish, Progress, OnWire, Ahead, Mine
<1>20. CASE Sigpipe
  BY <1>0, <1>20 DEF Sigpipe, Progress, Mine
<1>21. CASE NestedCheck
  BY <1>0, <1>21 DEF NestedCheck, Progress
<1>22. CASE BuildRestart
  <2>1. sequence = 0 /\ sequence' = 0
    BY <1>0, <1>22 DEF BuildRestart, Progress
  <2>2. CASE tsSocket = 0
    BY <1>22, <2>1, <2>2 DEF BuildRestart, RestartReturns, Progress
  <2>3. CASE tsSocket # 0
    <3>1. /\ mpc' = "send" /\ msg' = Restart /\ fd' = tsSocket /\ part' = 0
          /\ restarts'[tsSocket] = restarts[tsSocket] + 1 /\ tsSocket \in Conns
          /\ UNCHANGED <<wire, cstate>>
      BY <1>22, <1>t, <2>3 DEF BuildRestart
    <3>2. SUFFICES ASSUME IsOpen(tsSocket) PROVE OnWire(fd, msg, part, Ahead)'
      BY <2>1, <3>1 DEF Progress
    <3>3. ~Sending
      BY <1>0, <1>22 DEF BuildRestart, RequestKept, BlockGiven
    <3>4. Len(wire[tsSocket]) = restarts[tsSocket] * NParts
      <4>1. Whole = restarts[tsSocket]
        BY <1>22, <1>t, <2>1, <3>1 DEF Whole, Given, BuildRestart
      <4> QED
        BY <1>0, <1>22, <3>2, <3>3, <4>1 DEF Carried, BuildRestart
    <3>5. Ahead' = restarts[tsSocket] /\ restarts[tsSocket] \in Nat
      BY <1>t, <2>1, <3>1 DEF Ahead
    <3>6. Len(wire'[fd']) = Ahead' * NParts + part'
      <4>1. restarts[tsSocket] * NParts \in Nat
        BY <3>5, SMT
      <4> QED
        BY <3>1, <3>4, <3>5, <4>1
    <3> QED
      BY <3>1, <3>5, <3>6 DEF OnWire
  <2> QED
    BY <2>2, <2>3
<1> QED
  BY <1>1, <1>2, <1>3, <1>4, <1>5, <1>6, <1>7, <1>8, <1>9, <1>10, <1>11, <1>12, <1>13,
     <1>14, <1>15, <1>16, <1>17, <1>18, <1>19, <1>20, <1>21, <1>22 DEF Next, Caller, Thread, Peer

\* A restart message just begun stands before the first block, and is not one too many.
LEMMA RestartBefore ==
  ASSUME TransferInv, BuildRestart, tsSocket # 0
  PROVE  /\ tsSocket \in Conns /\ restarts[tsSocket] \in Nat /\ depth \in Nat
         /\ \A c \in Conns : restarts'[c] = IF c = tsSocket THEN restarts[c] + 1 ELSE restarts[c]
         /\ restarts[tsSocket] + depth + 1 <= MaxRestarts
         /\ \A j \in 1 .. Len(wire[tsSocket]) : wire[tsSocket][j].blk = 0
<1>1. TypeOK /\ Restarted
  BY DEF TransferInv
<1>2. tsSocket \in Conns /\ restarts \in [Conns -> Nat] /\ depth \in Nat /\ mpc = "build"
  <2>1. tsSocket \in 0 .. MaxConn /\ MaxConn \in Nat /\ restarts \in [Conns -> Nat] /\ depth \in Nat
    BY <1>1, TransferAssumption DEF TypeOK
  <2> QED
    BY <2>1 DEF Conns, BuildRestart
<1>3. ToCome = depth + 1 /\ Opening
  BY <1>2 DEF ToCome, Opening
<1> QED
  BY <1>1, <1>2, <1>3 DEF Restarted, BuildRestart

\* Every step keeps the restart messages before the first block, and their number.
LEMMA RestartedStep ==
  ASSUME TransferInv, NoEmptyStream, Next
  PROVE  Restarted'
<1> USE TransferAssumption DEF cfg, shared, caller, nesting, thread, network, MaxRestarts
<1>0. TypeOK /\ Control /\ Sockets /\ RequestKept /\ Nested /\ Restarted /\ Numbers
  BY DEF TransferInv
<1>t. /\ cstate \in [Conns -> {"new", "fresh", "open", "dropped", "closed"}]
      /\ nsock \in 0 .. MaxConn /\ tsSocket \in 0 .. MaxConn /\ fd \in 0 .. MaxConn
      /\ Conns = 1 .. MaxConn /\ MaxConn \in Nat /\ restarts \in [Conns -> Nat] /\ depth \in Nat
      /\ wire \in [Conns -> Seq(Chunks)] /\ overlap \in BOOLEAN
  BY <1>0 DEF TypeOK, Conns
\* the connections of the call, and what is known of them
<1> DEFINE Own(c) == mpc # "killed" /\ (c = tsSocket \/ (mpc = "send" /\ c = fd))
           Blank(c) == \A j \in 1 .. Len(wire[c]) : wire[c][j].blk = 0
<1>r. ASSUME NEW c \in Conns, Own(c)
      PROVE  /\ restarts[c] + ToCome <= MaxRestarts /\ (Opening => Blank(c))
             /\ restarts[c] >= 1 \/ mpc \in {"connect", "restart", "nested", "build"}
  BY <1>0, <1>r DEF Restarted
\* a step that opens no connection, begins no message and writes nothing
<1>k. ASSUME UNCHANGED <<overlap, wire, restarts>>,
             \A c \in Conns : cstate'[c] \in {"new", "fresh"} => cstate[c] \in {"new", "fresh"},
             \A c \in Conns : Own(c)' => Own(c),
             mpc' # "killed" => /\ ToCome' <= ToCome /\ ToCome' \in Nat /\ ToCome \in Nat
                                /\ (Opening' => Opening \/ (tsSocket' = 0 /\ mpc' # "send"))
                                /\ (mpc' = "send" => mpc = "send"),
             tsSocket' # 0 /\ mpc \in {"connect", "restart", "nested", "build"} =>
               mpc' \in {"connect", "restart", "nested", "build", "killed"}
      PROVE  Restarted'
  <2>1. \A c \in Conns : (cstate[c] \in {"new", "fresh"})' => restarts'[c] = 0
    BY <1>0, <1>k DEF Restarted
  <2>2. ASSUME NEW c \in Conns, Own(c)'
        PROVE  /\ (restarts[c] + ToCome <= MaxRestarts)' /\ (Opening => Blank(c))'
               /\ (restarts[c] >= 1 \/ mpc \in {"connect", "restart", "nested", "build"})'
    <3>1. Own(c) /\ mpc' # "killed" /\ c # 0
      BY <1>k, <1>t, <2>2
    <3>2. restarts[c] + ToCome <= MaxRestarts /\ (Opening => Blank(c))
          /\ (restarts[c] >= 1 \/ mpc \in {"connect", "restart", "nested", "build"})
      BY <1>r, <3>1
    <3>3. restarts[c] + ToCome' <= MaxRestarts
      BY <1>k, <1>t, <3>1, <3>2
    <3>4. tsSocket' # 0 \/ mpc' = "send"
      BY <1>k, <2>2, <3>1
    <3>5. Opening' => Opening
      BY <1>k, <3>1, <3>4
    <3>6. restarts[c] >= 1 \/ mpc' \in {"connect", "restart", "nested", "build"}
      BY <1>k, <3>1, <3>2, <3>4
    <3> QED
      BY <1>k, <3>2, <3>3, <3>5, <3>6
  <2> QED
    BY <2>1, <2>2 DEF Restarted
<1>1. CASE Call
  BY <1>0, <1>1, <1>t DEF Call, Restarted, ToCome, Opening
<1>2. CASE OpenSocket
  <2>1. /\ nsock + 1 \in Conns /\ tsSocket' = nsock + 1 /\ mpc' = "connect" /\ depth' = depth
        /\ \A c \in Conns : cstate'[c] = IF c = nsock + 1 THEN "fresh" ELSE cstate[c]
        /\ UNCHANGED <<overlap, restarts, wire>>
    BY <1>t, <1>2 DEF OpenSocket
  <2>2. cstate[nsock + 1] = "new" /\ wire[nsock + 1] = <<>> /\ restarts[nsock + 1] = 0
    <3>1. nsock + 1 > nsock
      BY <1>t
    <3>2. cstate[nsock + 1] = "new"
      BY <1>0, <2>1, <3>1 DEF Sockets
    <3> QED
      BY <1>0, <2>1, <3>2 DEF Sockets, Restarted
  <2>3. depth <= 1 /\ (depth = 1 => overlap) /\ ToCome' = depth + 1
    BY <1>0, <1>t, <2>1 DEF Nested, ToCome
  <2>4. Len(wire[nsock + 1]) = 0
    BY <2>2
  <2> QED
    <3>1. \A c \in Conns : (cstate[c] \in {"new", "fresh"})' => restarts'[c] = 0
      BY <1>0, <2>1, <2>2 DEF Restarted
    <3>2. ASSUME NEW c \in Conns, Own(c)'
          PROVE  c = nsock + 1 /\ restarts'[c] + ToCome' <= MaxRestarts /\ Blank(c)'
      <4>1. c = nsock + 1
        BY <2>1, <3>2
      <4>2. restarts'[c] + ToCome' <= MaxRestarts
        <5>1. restarts'[c] = 0 /\ ToCome' = depth + 1
          BY <2>1, <2>2, <2>3, <4>1
        <5> QED
          BY <1>t, <2>3, <5>1
      <4>3. Blank(c)'
        BY <2>1, <2>4, <4>1
      <4> QED
        BY <4>1, <4>2, <4>3
    <3> QED
      BY <2>1, <3>1, <3>2 DEF Restarted
<1>3. CASE Connect
  <2>1. CASE mpc' = "restart" /\ tsSocket' = tsSocket /\ cstate' = [cstate EXCEPT ![tsSocket] = "open"] /\ depth' = depth
    BY <1>3, <1>t, <2>1, <1>k DEF Connect, ToCome, Opening
  <2>2. CASE CloseSocket /\ RestartReturns
    <3>1. tsSocket' = 0 /\ \A c \in Conns : cstate'[c] \in {"new", "fresh"} => cstate[c] \in {"new", "fresh"}
      BY <1>t, <2>2 DEF CloseSocket
    <3>2. mpc' \in {"recheck", "build"} /\ (\A c \in Conns : ~Own(c)') /\ UNCHANGED <<restarts, wire, overlap>>
      BY <1>3, <1>t, <2>2, <3>1 DEF RestartReturns, Connect
    <3> QED
      BY <1>0, <3>1, <3>2 DEF Restarted
  <2> QED
    BY <1>3, <2>1, <2>2 DEF Connect
<1>4. CASE SendRestart
  <2>1. CASE tsSocket = 0
    <3>1. \A c \in Conns : ~Own(c)'
      BY <1>4, <1>t, <2>1 DEF SendRestart, RestartReturns
    <3> QED
      BY <1>0, <1>4, <3>1 DEF Restarted, SendRestart
  <2>2. CASE tsSocket # 0
    BY <1>4, <1>t, <2>2, <1>k DEF SendRestart, ToCome, Opening
  <2> QED
    BY <2>1, <2>2
<1>5. CASE SendDirect
  <2>1. UNCHANGED <<overlap, restarts, fd, msg>> /\ mpc = "send"
    BY <1>5 DEF SendDirect
  <2>2. \A c \in Conns : cstate'[c] \in {"new", "fresh"} => cstate[c] \in {"new", "fresh"}
    BY <1>5, <1>t DEF SendDirect, CloseSocket
  <2>3. tsSocket' \in {0, tsSocket} /\ (tsSocket # 0 => tsSocket = fd)
    BY <1>0, <1>5 DEF SendDirect, CloseSocket, Control
  <2>4. \A c \in Conns : Own(c)' => Own(c) /\ c = fd
    BY <2>1, <2>3, <1>t
  <2>5. /\ mpc' \in {"send", "recv", "recheck", "build", "idle"} /\ depth' \in Nat
        /\ msg # Restart => mpc' \in {"send", "recv", "idle"} /\ depth' = depth
        /\ mpc' # "build" => depth' <= depth
        /\ mpc' = "build" => depth' + 1 = depth
    BY <1>5, <1>t DEF SendDirect, Return, Sent, Done, RestartReturns
  <2>6. ToCome' <= ToCome /\ ToCome' \in Nat /\ ToCome = depth
    <3>1. ToCome = depth
      BY <1>t, <2>1 DEF ToCome
    <3>2. CASE mpc' = "build"
      <4>1. ToCome' = depth' + 1 /\ depth' + 1 = depth
        BY <2>5, <3>2 DEF ToCome
      <4>2. ToCome' = depth
        BY <4>1
      <4> QED
        BY <1>t, <3>1, <4>2
    <3>3. CASE mpc' # "build"
      <4>1. ToCome' = depth'
        BY <2>5, <3>3 DEF ToCome
      <4> QED
        BY <1>t, <2>5, <3>1, <3>3, <4>1
    <3> QED
      BY <3>2, <3>3
  <2>7. Opening' => Opening
    BY <2>1, <2>5 DEF Opening
  <2>8. ASSUME NEW c \in Conns, c = fd, Own(c), Opening PROVE Blank(c)'
    <3>1. msg = Restart /\ Blank(c)
      BY <1>r, <2>1, <2>8 DEF Opening
    <3>2. CASE wire' = wire
      BY <3>1, <3>2
    <3>3. CASE Taken(fd, msg, part + 1)
      <4>1. wire'[c] = Append(wire[c], Chunk(msg, part + 1)) /\ part \in 0 .. NParts - 1
        BY <1>5, <2>8, <3>3, DirectPiece
      <4>2. msg \in Messages /\ wire[c] \in Seq(Chunks) /\ part + 1 \in 1 .. NParts
        BY <1>0, <4>1 DEF TypeOK
      <4>3. Chunk(msg, part + 1) \in Chunks /\ Chunk(msg, part + 1).blk = 0
        BY <3>1, <4>2 DEF Chunk, Chunks, Messages, Restart
      <4>4. /\ Len(wire'[c]) = Len(wire[c]) + 1 /\ Len(wire[c]) \in Nat
            /\ \A k \in 1 .. Len(wire[c]) : wire'[c][k] = wire[c][k]
            /\ wire'[c][Len(wire[c]) + 1] = Chunk(msg, part + 1)
        BY <4>1, <4>2, <4>3, AppendProperties, LenProperties
      <4>5. \A k \in 1 .. Len(wire'[c]) : k \in 1 .. Len(wire[c]) \/ k = Len(wire[c]) + 1
        BY <4>4
      <4> QED
        BY <3>1, <4>3, <4>4, <4>5
    <3> QED
      BY <1>5, <3>2, <3>3 DEF SendDirect, Lost
  <2>9. ASSUME NEW c \in Conns, Own(c)'
        PROVE  /\ (restarts[c] + ToCome <= MaxRestarts)' /\ (Opening => Blank(c))'
               /\ restarts'[c] >= 1
    <3>1. Own(c) /\ c = fd
      BY <2>4, <2>9
    <3>2. restarts[c] + ToCome <= MaxRestarts /\ restarts[c] >= 1
      BY <1>r, <2>1, <3>1
    <3> QED
      BY <1>t, <2>1, <2>6, <2>7, <2>8, <3>1, <3>2
  <2> QED
    BY <1>0, <2>1, <2>2, <2>9 DEF Restarted
<1>6. CASE Receive
  <2>1. /\ mpc' \in {"recheck", "build", "idle"} /\ depth' \in Nat /\ mpc = "recv"
        /\ mpc' = "build" => msg = Restart /\ depth' + 1 = depth
        /\ depth' <= depth
    BY <1>6, <1>t DEF Receive, Return, Done, RestartReturns
  <2>2. tsSocket' \in {0, tsSocket} /\ UNCHANGED <<overlap, restarts, wire>>
        /\ \A c \in Conns : cstate'[c] \in {"new", "fresh"} => cstate[c] \in {"new", "fresh"}
    BY <1>6, <1>t DEF Receive, CloseSocket
  <2>3. ToCome' <= ToCome /\ ToCome' \in Nat /\ ToCome \in Nat
    <3>1. ToCome = depth
      BY <1>t, <2>1 DEF ToCome
    <3>2. CASE mpc' = "build"
      <4>1. ToCome' = depth' + 1 /\ depth' + 1 = depth
        BY <2>1, <3>2 DEF ToCome
      <4>2. ToCome' = depth
        BY <4>1
      <4> QED
        BY <1>t, <3>1, <4>2
    <3>3. CASE mpc' # "build"
      <4>1. ToCome' = depth'
        BY <2>1, <3>3 DEF ToCome
      <4> QED
        BY <1>t, <2>1, <3>1, <4>1
    <3> QED
      BY <3>2, <3>3
  <2>4. Opening' => Opening
    BY <2>1 DEF Opening
  <2>5. \A c \in Conns : Own(c)' => Own(c)
    BY <1>t, <2>1, <2>2
  <2> QED
    BY <2>1, <2>2, <2>3, <2>4, <2>5, <1>k
<1>7. CASE Header
  <2>1. ASSUME mpc' = "send" PROVE fd' = tsSocket /\ msg' # Restart
    <3>1. buffer[Mine].blk > 0 /\ buffer[Mine] \in Messages /\ Mine \in Buffers
      <4>1. Mine \in Buffers
        BY <1>0 DEF Mine, Buffers, TypeOK
      <4> QED
        BY <1>0, <1>7, <4>1 DEF Header, Numbers, BeforeBlock, TypeOK
    <3>2. fd' = tsSocket /\ msg' = buffer'[Mine] /\ buffer'[Mine].blk = buffer[Mine].blk
      BY <1>0, <1>7, <2>1, <3>1 DEF Header, TypeOK, Messages
    <3> QED
      BY <3>1, <3>2 DEF Restart
  <2>2. mpc = "header" /\ mpc' \in {"wait1", "send"} /\ UNCHANGED <<overlap, wire, restarts, cstate, tsSocket, depth>>
    BY <1>7 DEF Header
  <2>3. ~Opening' /\ \A c \in Conns : Own(c)' => Own(c)
    BY <2>1, <2>2 DEF Opening
  <2>4. ToCome' = ToCome
    BY <2>2 DEF ToCome
  <2> QED
    BY <1>0, <1>r, <2>2, <2>3, <2>4 DEF Restarted
<1>8. CASE StartThread
  <2>1. UNCHANGED <<overlap, wire, restarts, cstate, tsSocket, depth>> /\ mpc = "start" /\ mpc' \in {"idle", "wait2"}
    BY <1>8 DEF StartThread, Return
  <2> QED
    BY <1>k, <1>t, <2>1 DEF ToCome, Opening
<1>9. CASE ThreadArgs
  BY <1>9, <1>k, <1>t DEF ThreadArgs, ToCome, Opening
<1>10. CASE ThreadSend
  <2>1. UNCHANGED <<overlap, restarts, cstate, tsSocket, depth, mpc, fd, msg>>
    BY <1>10 DEF ThreadSend
  <2>2. CASE wire' = wire
    BY <1>k, <1>t, <2>1, <2>2 DEF ToCome, Opening
  <2>3. CASE Taken(tSocket, buffer[tBuffer], tPart + 1)
    <3>1. ~Opening /\ mpc # "send"
      <4>1. Sending
        BY <1>10, <2>3, ThreadPiece
      <4> QED
        BY <1>0, <4>1 DEF RequestKept, BlockGiven, Opening
    <3>2. ~Opening' /\ ToCome' = ToCome /\ \A c \in Conns : Own(c)' => Own(c)
      BY <2>1, <3>1 DEF Opening, ToCome
    <3> QED
      BY <1>0, <1>r, <2>1, <3>2 DEF Restarted
  <2> QED
    BY <1>10, <2>2, <2>3 DEF ThreadSend, Lost
<1>11. CASE ThreadClose
  <2>1. \A c \in Conns : cstate'[c] \in {"new", "fresh"} => cstate[c] \in {"new", "fresh"}
    BY <1>11, <1>t DEF ThreadClose
  <2>2. UNCHANGED <<overlap, wire, restarts, depth, mpc, fd, msg>> /\ tsSocket' \in {0, tsSocket}
    BY <1>11 DEF ThreadClose
  <2> QED
    BY <1>k, <1>t, <2>1, <2>2 DEF ToCome, Opening
<1>12. ASSUME NEW d \in Conns, Answer(d) PROVE Restarted'
  BY <1>12, <1>k, <1>t DEF Answer, ToCome, Opening
<1>13. ASSUME NEW C \in SUBSET Conns, Drop(C) PROVE Restarted'
  BY <1>13, <1>k, <1>t DEF Drop, ToCome, Opening
<1>14. CASE Check
  BY <1>14, <1>k, <1>t DEF Check, ToCome, Opening
<1>15. CASE Recheck
  BY <1>15, <1>k, <1>t DEF Recheck, Return, ToCome, Opening
<1>16. CASE TxWait
  BY <1>16, <1>k, <1>t DEF TxWait, Return, ToCome, Opening
<1>17. CASE SpuriousWakeup
  BY <1>17, <1>k, <1>t DEF SpuriousWakeup, ToCome, Opening
<1>18. CASE ThreadTest
  BY <1>18, <1>k, <1>t DEF ThreadTest, ToCome, Opening
<1>19. CASE ThreadFinish
  BY <1>19, <1>k, <1>t DEF ThreadFinish, ToCome, Opening
<1>20. CASE Sigpipe
  BY <1>20, <1>k, <1>t DEF Sigpipe, ToCome, Opening
<1>21. CASE NestedCheck
  BY <1>21, <1>k, <1>t DEF NestedCheck, ToCome, Opening
<1>22. CASE BuildRestart
  <2>1. CASE tsSocket = 0
    <3>1. \A c \in Conns : ~Own(c)'
      BY <1>22, <1>t, <2>1 DEF BuildRestart, RestartReturns
    <3> QED
      BY <1>0, <1>22, <2>1, <3>1 DEF Restarted, BuildRestart
  <2>2. CASE tsSocket # 0
    <3>1. /\ tsSocket \in Conns /\ restarts[tsSocket] + depth + 1 <= MaxRestarts /\ Blank(tsSocket)
          /\ \A c \in Conns : restarts'[c] = IF c = tsSocket THEN restarts[c] + 1 ELSE restarts[c]
      BY <1>22, <2>2, RestartBefore
    <3>2. /\ mpc = "build" /\ mpc' = "send" /\ fd' = tsSocket
          /\ UNCHANGED <<overlap, wire, cstate, tsSocket, depth>>
      BY <1>22, <2>2 DEF BuildRestart
    <3>3. ToCome' = depth /\ cstate[tsSocket] \notin {"new", "fresh"}
      BY <1>0, <1>t, <2>2, <3>2 DEF ToCome, Sockets
    <3>4. \A c \in Conns : Own(c)' => c = tsSocket
      BY <3>2
    <3> QED
      BY <1>0, <1>t, <3>1, <3>2, <3>3, <3>4 DEF Restarted
  <2> QED
    BY <2>1, <2>2
<1> QED
  BY <1>1, <1>2, <1>3, <1>4, <1>5, <1>6, <1>7, <1>8, <1>9, <1>10, <1>11, <1>12, <1>13,
     <1>14, <1>15, <1>16, <1>17, <1>18, <1>19, <1>20, <1>21, <1>22 DEF Next, Caller, Thread, Peer

\* Every step keeps the connections framed.
LEMMA FramedStep ==
  ASSUME TransferInv, Next
  PROVE  WireFramed'
<1> USE DEF cfg, shared, caller, nesting, thread, network
<1>0. overlap' = overlap
  BY ZenonT(40) DEF Next, Caller, Thread, Peer, Call, Check, OpenSocket, Connect, SendRestart, NestedCheck,
     BuildRestart, Receive, Recheck, Header, TxWait, SpuriousWakeup, StartThread, ThreadTest, ThreadArgs,
     ThreadClose, ThreadFinish, Answer, Drop, Sigpipe, SendDirect, ThreadSend
<1>1. CASE wire' = wire /\ restarts' = restarts
  BY <1>0, <1>1 DEF TransferInv, WireFramed, MaxRestarts
<1>2. CASE SendDirect
  <2>1. CASE wire' = wire
    BY <1>1, <1>2, <2>1 DEF SendDirect
  <2> QED
    BY <1>2, <2>1, DirectPiece DEF SendDirect, Lost
<1>3. CASE ThreadSend
  <2>1. CASE wire' = wire
    BY <1>1, <1>3, <2>1 DEF ThreadSend
  <2> QED
    BY <1>3, <2>1, ThreadPiece DEF ThreadSend, Lost
<1>4. CASE BuildRestart
  <2>1. CASE tsSocket = 0
    BY <1>1, <1>4, <2>1 DEF BuildRestart
  <2>2. CASE tsSocket # 0
    <3>1. /\ tsSocket \in Conns /\ restarts[tsSocket] \in Nat /\ depth \in Nat
          /\ \A c \in Conns : restarts'[c] = IF c = tsSocket THEN restarts[c] + 1 ELSE restarts[c]
          /\ restarts[tsSocket] + depth + 1 <= MaxRestarts
          /\ \A j \in 1 .. Len(wire[tsSocket]) : wire[tsSocket][j].blk = 0
      BY <1>4, <2>2, RestartBefore
    <3>2. wire' = wire /\ WireFramed /\ MaxRestarts' = MaxRestarts /\ MaxRestarts \in Nat
      BY <1>0, <1>4 DEF BuildRestart, TransferInv, MaxRestarts
    <3>3. SUFFICES ASSUME NEW c \in Conns, NEW k \in 1 .. Len(wire[c])
                   PROVE  LET frame == (k - 1) \div NParts
                              first == wire[c][frame * NParts + 1]
                          IN  /\ wire[c][k] = Chunk(first, ((k - 1) % NParts) + 1)
                              /\ restarts'[c] \in 1 .. MaxRestarts
                              /\ (frame < restarts'[c]) <=> (first.blk = 0)
                              /\ frame >= restarts'[c] => first.seq = frame - restarts'[c]
      BY <3>2 DEF WireFramed
    <3>4. CASE c # tsSocket
      BY <3>1, <3>2, <3>4 DEF WireFramed
    <3>5. CASE c = tsSocket
      <4>1. PICK frame \in Nat : frame = (k - 1) \div NParts /\ frame * NParts + 1 \in 1 .. k
        BY FirstPiece
      <4>2. /\ wire[c][k] = Chunk(wire[c][frame * NParts + 1], ((k - 1) % NParts) + 1)
            /\ (frame < restarts[c]) <=> (wire[c][frame * NParts + 1].blk = 0)
        BY <3>2, <4>1 DEF WireFramed
      <4>3. Len(wire[c]) \in Nat
        BY LenProperties DEF TransferInv, TypeOK
      <4>4. wire[c][frame * NParts + 1].blk = 0
        BY <3>1, <3>5, <4>1, <4>3
      <4> QED
        BY <3>1, <3>2, <3>5, <4>1, <4>2, <4>4
    <3> QED
      BY <3>4, <3>5
  <2> QED
    BY <2>1, <2>2
<1>5. CASE ~SendDirect /\ ~ThreadSend /\ ~BuildRestart
  <2>1. wire' = wire /\ restarts' = restarts
    BY <1>5 DEF Next, Caller, Thread, Peer, Call, Check, OpenSocket, Connect, SendRestart, NestedCheck,
       Receive, Recheck, Header, TxWait, SpuriousWakeup, StartThread, ThreadTest, ThreadArgs,
       ThreadClose, ThreadFinish, Answer, Drop, Sigpipe
  <2> QED
    BY <1>1, <2>1
<1> QED
  BY <1>2, <1>3, <1>4, <1>5

\* What the connection in use carries stays, when its writers do nothing.
LEMMA CarriedKept ==
  ASSUME Carried, wire' = wire, restarts' = restarts, tsSocket' \in {0, tsSocket},
         IsOpen(tsSocket)' => IsOpen(tsSocket),
         mpc \notin {"connect", "send", "killed"},
         Sending' <=> Sending, Given' = Given,
         Sending => buffer'[arg'.buf] = buffer[arg.buf] /\ Written' = Written
  PROVE  Carried'
<1>1. SUFFICES ASSUME IsOpen(tsSocket)'
               PROVE  (IF Sending THEN Given > 0 /\ OnWire(tsSocket, buffer[arg.buf], Written, Whole - 1)
                       ELSE Len(wire[tsSocket]) = Whole * NParts)'
  BY DEF Carried
<1>2. tsSocket' = tsSocket
  BY <1>1 DEF IsOpen
<1>3. IF Sending THEN Given > 0 /\ OnWire(tsSocket, buffer[arg.buf], Written, Whole - 1)
                 ELSE Len(wire[tsSocket]) = Whole * NParts
  BY <1>1 DEF Carried
<1>6. Whole' = Whole
  BY <1>2 DEF Whole
<1>4. CASE Sending
  BY <1>2, <1>3, <1>4, <1>6 DEF OnWire
<1>5. CASE ~Sending
  BY <1>2, <1>3, <1>5, <1>6
<1> QED
  BY <1>4, <1>5

\* Every step keeps what the connection in use carries.
LEMMA CarriedStep ==
  ASSUME TransferInv, NoEmptyStream, Next
  PROVE  Carried'
<1> USE TransferAssumption DEF cfg, shared, caller, nesting, thread, network
<1>0. TypeOK /\ Control /\ Sockets /\ RequestKept /\ Progress /\ Carried /\ Numbers /\ Restarted
  BY DEF TransferInv
<1>t. /\ cstate \in [Conns -> {"new", "fresh", "open", "dropped", "closed"}]
      /\ nsock \in 0 .. MaxConn /\ tsSocket \in 0 .. MaxConn /\ arg.fd \in 0 .. MaxConn
      /\ Conns = 1 .. MaxConn /\ MaxConn \in Nat /\ running \in BOOLEAN /\ fd \in 0 .. MaxConn
      /\ sequence \in Nat /\ restarts \in [Conns -> Nat] /\ part \in Nat /\ msg \in Messages
      /\ Mine \in Buffers /\ block \in Nat
  BY <1>0, SMTT(20) DEF TypeOK, Conns, Mine, Buffers
<1>1. CASE Call
  <2>1. Sending => buffer'[arg.buf] = buffer[arg.buf]
    <3>1. Sending => arg.buf = block % 2
      BY <1>0, <1>1 DEF RequestKept, BlockGiven, Call, Mine
    <3>2. block % 2 # (block + 1) % 2
      BY <1>t
    <3> QED
      BY <1>0, <1>1, <3>1, <3>2 DEF Call, TypeOK
  <2> QED
    BY <1>0, <1>1, <2>1, CarriedKept DEF Call, IsOpen, Sending, Given, HeaderWritten, Written
<1>2. CASE OpenSocket
  BY <1>2 DEF OpenSocket, Carried
<1>3. CASE Connect
  <2>1. CASE tsSocket' = 0
    BY <2>1 DEF Carried, IsOpen
  <2>2. CASE tsSocket' # 0
    <3>1. /\ tsSocket' = tsSocket /\ tsSocket \in Conns /\ cstate[tsSocket] = "fresh"
          /\ UNCHANGED <<wire, restarts, sequence, running, arg, spc>> /\ mpc = "connect" /\ mpc' = "restart"
      BY <1>3, <1>t, <2>2 DEF Connect, CloseSocket
    <3>2. ~Sending'
      BY <1>0, <3>1 DEF RequestKept, BlockGiven, Sending
    <3>3. wire[tsSocket] = <<>> /\ restarts[tsSocket] = 0 /\ sequence = 0
      BY <1>0, <3>1 DEF Sockets, Restarted, Progress, Opening
    <3>4. Whole' = 0 /\ Len(wire[tsSocket]) = 0 /\ 0 * NParts = 0
      BY <3>1, <3>3 DEF Whole, Given, HeaderWritten
    <3> QED
      BY <3>1, <3>2, <3>4 DEF Carried
  <2> QED
    BY <2>1, <2>2
<1>4. CASE SendRestart
  <2>1. /\ UNCHANGED <<cstate, wire, restarts, tsSocket, sequence, running, arg, spc>>
        /\ mpc = "restart" /\ mpc' \in {"recheck", "build", "nested"}
    BY <1>4 DEF SendRestart, RestartReturns
  <2>2. ~Sending /\ ~Sending' /\ Given' = Given
    BY <1>0, <2>1 DEF RequestKept, BlockGiven, Sending, Given, HeaderWritten
  <2> QED
    BY <1>0, <2>1, <2>2, CarriedKept DEF IsOpen
<1>5. CASE SendDirect
  <2>1. ~Sending /\ ~Sending'
    BY <1>0, <1>5 DEF RequestKept, BlockGiven, SendDirect, Sending
  <2>2. SUFFICES ASSUME mpc' # "send", IsOpen(tsSocket)'
                 PROVE  Len(wire'[tsSocket']) = Whole' * NParts
    BY <2>1 DEF Carried
  <2>3. UNCHANGED <<tsSocket, cstate, sequence>> /\ part + 1 = NParts /\ (Taken(fd, msg, part + 1) \/ Lost(fd))
    BY <1>5, <2>2 DEF SendDirect, CloseSocket, IsOpen
  <2>4. tsSocket = fd /\ IsOpen(fd)
    BY <1>0, <1>5, <2>2, <2>3 DEF Control, SendDirect, IsOpen
  <2>5. Len(wire'[fd]) = (Ahead + 1) * NParts /\ fd \in Conns
    BY <1>5, <2>3, <2>4, DirectPiece DEF Lost, IsDropped, IsOpen
  <2>6. Given' = sequence
    BY <1>5, <2>3 DEF SendDirect, Given, HeaderWritten, Sent, Done, RestartReturns, Return
  <2>7. Whole' = Ahead + 1
    <3>1. restarts' = restarts /\ restarts[fd] \in Nat
      BY <1>5, <1>t, <2>5 DEF SendDirect
    <3> QED
      BY <1>t, <2>3, <2>4, <2>6, <3>1 DEF Whole, Ahead
  <2> QED
    BY <2>3, <2>4, <2>5, <2>7
<1>6. CASE Receive
  <2>1. ~Sending /\ ~Sending'
    BY <1>0, <1>6 DEF RequestKept, BlockGiven, Receive, Sending
  <2>2. (IsOpen(tsSocket)' => IsOpen(tsSocket)) /\ tsSocket' \in {0, tsSocket}
    BY <1>6 DEF Receive, CloseSocket, IsOpen
  <2>3. mpc' \in {"idle", "recheck", "build"}
    BY <1>6 DEF Receive, Done, RestartReturns, Return
  <2> QED
    BY <1>0, <1>6, <2>1, <2>2, <2>3, CarriedKept DEF Receive, Given, HeaderWritten
<1>7. CASE Header
  <2>1. CASE mpc' = "send"
    BY <2>1 DEF Carried
  <2>2. CASE mpc' = "wait1"
    <3>1. Given' = Given
      BY <1>7, <1>t, <2>2 DEF Header, Given, HeaderWritten
    <3>2. Sending => buffer'[arg.buf] = buffer[arg.buf]
      BY <1>0, <1>7 DEF Header, RequestKept, BlockGiven, TypeOK
    <3> QED
      BY <1>0, <1>7, <3>1, <3>2, CarriedKept DEF Header, IsOpen, Sending, Written
  <2> QED
    BY <1>7, <2>1, <2>2 DEF Header
<1>8. CASE StartThread
  <2>1. SUFFICES ASSUME IsOpen(tsSocket)'
                 PROVE  Given' > 0 /\ OnWire(tsSocket, buffer[arg.buf], Written, Whole - 1)' /\ Sending'
    BY DEF Carried
  <2>2. UNCHANGED <<tsSocket, wire, sequence, buffer, cstate, block>> /\ IsOpen(tsSocket)
    BY <1>8, <2>1 DEF StartThread, IsOpen
  <2>3. spc \in {"test", "blocked"} /\ ~running
    BY <1>0, <1>8 DEF StartThread, Control, TypeOK
  <2>4. spc' = "test" /\ Sending' /\ Written' = 0
    BY <1>8, <2>2, <2>3 DEF StartThread, IsOpen, Sending, Written
  <2>5. Given' = sequence /\ Given = sequence - 1 /\ sequence > 0
    BY <1>0, <1>8, <2>2 DEF StartThread, Given, HeaderWritten, Return, Progress
  <2>6. /\ restarts' = restarts /\ restarts[tsSocket] \in Nat
        /\ Whole \in Nat /\ Whole = sequence - 1 + restarts[tsSocket] /\ Whole' = Whole + 1
        /\ Len(wire[tsSocket]) = Whole * NParts
    <3>1. restarts' = restarts /\ restarts[tsSocket] \in Nat
      BY <1>8, <1>t, <2>2 DEF StartThread, IsOpen
    <3>2. Whole \in Nat /\ Whole = sequence - 1 + restarts[tsSocket] /\ Whole' = Whole + 1
      BY <1>t, <2>2, <2>5, <3>1 DEF Whole
    <3>3. Len(wire[tsSocket]) = Whole * NParts
      BY <1>0, <1>8, <2>2, <2>3 DEF StartThread, Carried, Sending
    <3> QED
      BY <3>1, <3>2, <3>3
  <2>7. buffer'[arg'.buf] = buffer[Mine]
    BY <1>8, <2>2 DEF StartThread
  <2>8. buffer[Mine].seq = sequence - 1 /\ buffer[Mine].blk = block /\ block > 0
    BY <1>0, <1>8 DEF StartThread, Progress, HeaderWritten, Numbers
  <2>9. Whole * NParts + 0 = Whole * NParts
    <3>1. Whole * NParts \in Nat
      BY <2>6, SMT
    <3> QED
      BY <3>1
  <2>10. Whole' - 1 = Whole
    BY <2>6
  <2>11. OnWire(tsSocket, buffer[arg.buf], Written, Whole - 1)'
    <3>1. (Whole < restarts[tsSocket] <=> buffer[Mine].blk = 0)
          /\ (Whole >= restarts[tsSocket] => buffer[Mine].seq = Whole - restarts[tsSocket])
      <4>1. Whole >= restarts[tsSocket] /\ Whole - restarts[tsSocket] = sequence - 1
        BY <1>t, <2>5, <2>6
      <4>2. ~(Whole < restarts[tsSocket])
        BY <2>6, <4>1
      <4> QED
        BY <1>t, <2>8, <4>1, <4>2
    <3>2. Len(wire[tsSocket]) = Whole * NParts + 0
      BY <2>6, <2>9
    <3> QED
      BY <2>2, <2>4, <2>6, <2>7, <2>10, <3>1, <3>2 DEF OnWire
  <2> QED
    BY <1>t, <2>4, <2>5, <2>11
<1>9. CASE ThreadArgs
  BY <1>0, <1>9, CarriedKept DEF ThreadArgs, IsOpen, Sending, Given, HeaderWritten, Written, RequestKept,
     BlockGiven, Carried
<1>10. CASE ThreadSend
  <2>0. UNCHANGED <<mpc, running, tsSocket, arg, buffer, sequence, cstate, tSocket, tBuffer, restarts>> /\ spc = "send"
    BY <1>10 DEF ThreadSend
  <2>1. CASE Taken(tSocket, buffer[tBuffer], tPart + 1) /\ tPart' = tPart + 1
             /\ spc' = IF tPart + 1 = NParts THEN "finish" ELSE "send"
    <3>1. /\ arg.fd \in Conns /\ tSocket = arg.fd /\ tBuffer = arg.buf /\ tsSocket = arg.fd
          /\ Sending /\ tPart \in 0 .. NParts - 1 /\ Given > 0 /\ Whole \in Nat \ {0}
          /\ OnWire(arg.fd, buffer[arg.buf], tPart, Whole - 1)
          /\ Len(wire'[arg.fd]) = (Whole - 1) * NParts + tPart + 1
          /\ wire'[arg.fd][(Whole - 1) * NParts + 1] = Chunk(buffer[arg.buf], 1)
          /\ tPart + 1 = NParts => Len(wire'[arg.fd]) = Whole * NParts
      BY <1>10, <2>1, ThreadPiece
    <3>2. Given' = Given /\ restarts' = restarts /\ Whole' = Whole
      BY <1>10, <2>0 DEF Given, HeaderWritten, Whole, ThreadSend
    <3>3. CASE tPart + 1 = NParts
      <4>1. ~Sending'
        BY <2>1, <3>3 DEF Sending
      <4> QED
        BY <2>0, <3>1, <3>2, <3>3, <4>1 DEF Carried
    <3>4. CASE tPart + 1 # NParts
      <4>1. Sending' /\ Written' = tPart + 1
        BY <2>0, <2>1, <3>1, <3>4 DEF Sending, Written
      <4>2. (Whole - 1) * NParts \in Nat
        BY <3>1, SMT
      <4>3. Len(wire'[arg.fd]) = (Whole - 1) * NParts + (tPart + 1)
        BY <3>1, <4>2
      <4>4. OnWire(tsSocket, buffer[arg.buf], Written, Whole - 1)'
        BY <2>0, <3>1, <3>2, <4>1, <4>3 DEF OnWire
      <4> QED
        BY <3>1, <3>2, <4>1, <4>4 DEF Carried
    <3> QED
      BY <3>3, <3>4
  <2>2. CASE ~IsOpen(tSocket)
    <3>1. ~IsOpen(arg.fd)
      BY <1>0, <2>0, <2>2 DEF Control
    <3>2. wire' = wire
      BY <1>10, <2>2 DEF ThreadSend, Taken, Lost
    <3>3. CASE arg.fd # 0
      <4>1. tsSocket = arg.fd \/ mpc = "killed"
        BY <1>0, <2>0, <3>3 DEF RequestKept, Sending, Control
      <4> QED
        BY <2>0, <3>1, <4>1 DEF Carried, IsOpen
    <3>4. CASE arg.fd = 0
      BY <1>0, <2>0, <3>2, <3>4, CarriedKept DEF Sending, Given, HeaderWritten, IsOpen, Carried
    <3> QED
      BY <3>3, <3>4
  <2>3. CASE Lost(tSocket)
    BY <2>2, <2>3 DEF Lost, IsDropped, IsOpen
  <2> QED
    BY <1>10, <2>1, <2>2, <2>3 DEF ThreadSend, Fails
<1>11. CASE ThreadClose
  <2>1. tsSocket' \in {0, tsSocket} /\ spc \in {"close", "closefd", "clear"} /\ spc' \in {"closefd", "clear", "finish"}
    BY <1>11 DEF ThreadClose
  <2>2. \A s \in Conns : IsOpen(s)' => IsOpen(s)
    BY <1>11, <1>t DEF ThreadClose, IsOpen
  <2>3. IsOpen(tsSocket)' => IsOpen(tsSocket)
    BY <2>1, <2>2, <1>t DEF IsOpen
  <2>4. UNCHANGED <<mpc, wire, sequence, restarts>>
    BY <1>11 DEF ThreadClose
  <2> QED
    BY <1>0, <2>1, <2>3, <2>4, CarriedKept DEF Sending, Given, HeaderWritten, Carried
<1>12. ASSUME NEW c \in Conns, Answer(c) PROVE Carried'
  BY <1>0, <1>12, CarriedKept DEF Answer, IsOpen, Sending, Given, HeaderWritten, Written, Carried
<1>13. ASSUME NEW C \in SUBSET Conns, Drop(C) PROVE Carried'
  <2>2. \A s \in Conns : IsOpen(s)' => IsOpen(s)
    BY <1>13, <1>t DEF Drop, IsOpen
  <2>3. IsOpen(tsSocket)' => IsOpen(tsSocket)
    BY <1>13, <2>2, <1>t DEF IsOpen, Drop
  <2> QED
    BY <1>0, <1>13, <2>3, CarriedKept DEF Drop, Sending, Given, HeaderWritten, Written, Carried
<1>14. CASE Check
  BY <1>0, <1>14, CarriedKept DEF Check, IsOpen, Sending, Given, HeaderWritten, Written
<1>15. CASE Recheck
  BY <1>0, <1>15, CarriedKept DEF Recheck, Return, IsOpen, Sending, Given, HeaderWritten, Written
<1>16. CASE TxWait
  BY <1>0, <1>16, CarriedKept DEF TxWait, Return, IsOpen, Sending, Given, HeaderWritten, Written
<1>17. CASE SpuriousWakeup
  BY <1>0, <1>17, CarriedKept DEF SpuriousWakeup, IsOpen, Sending, Given, HeaderWritten, Written
<1>18. CASE ThreadTest
  BY <1>0, <1>18, CarriedKept DEF ThreadTest, IsOpen, Sending, Given, HeaderWritten, Written, Carried
<1>19. CASE ThreadFinish
  BY <1>0, <1>19, CarriedKept DEF ThreadFinish, IsOpen, Sending, Given, HeaderWritten, Carried
<1>20. CASE Sigpipe
  BY <1>20 DEF Sigpipe, Carried
<1>21. CASE NestedCheck
  <2>1. /\ UNCHANGED <<cstate, wire, restarts, tsSocket, sequence, running, arg, spc>>
        /\ mpc = "nested" /\ mpc' \in {"open", "build"}
    BY <1>21 DEF NestedCheck
  <2>2. ~Sending /\ ~Sending' /\ Given' = Given
    BY <1>0, <2>1 DEF RequestKept, BlockGiven, Sending, Given, HeaderWritten
  <2> QED
    BY <1>0, <2>1, <2>2, CarriedKept DEF IsOpen
<1>22. CASE BuildRestart
  BY <1>22 DEF BuildRestart, Carried, IsOpen
<1> QED
  BY <1>1, <1>2, <1>3, <1>4, <1>5, <1>6, <1>7, <1>8, <1>9, <1>10, <1>11, <1>12, <1>13,
     <1>14, <1>15, <1>16, <1>17, <1>18, <1>19, <1>20, <1>21, <1>22 DEF Next, Caller, Thread, Peer

-----------------------------------------------------------------------------
(* Blocks in the order of the calls                                         *)

\* Every step keeps the block numbers of the caller and the request.
LEMMA NumbersStep ==
  ASSUME TransferInv, NoEmptyStream, Next
  PROVE  Numbers'
<1> USE TransferAssumption DEF cfg, shared, caller, nesting, thread, network, Restart, HeaderWritten, BeforeBlock, Opening
<1>0. TypeOK /\ Control /\ Sockets /\ RequestKept /\ Progress /\ Numbers
  BY DEF TransferInv
<1>t. /\ sequence \in Nat /\ block \in Nat /\ Mine \in Buffers
      /\ \A b \in Buffers : buffer[b] \in [blk : 0 .. MaxBlock, seq : 0 .. MaxBlock]
      /\ buffer = [b \in Buffers |-> buffer[b]] /\ arg.buf \in Buffers
  BY <1>0 DEF TypeOK, Mine, Buffers, Messages
<1>1. CASE Call
  <2>1. \A b \in Buffers : buffer'[b].blk = IF b = (block + 1) % 2 THEN block + 1 ELSE buffer[b].blk
    BY <1>0, <1>1, <1>t DEF Call
  <2>2. Mine' = (block + 1) % 2 /\ Mine' \in Buffers /\ Mine' # Mine
    BY <1>1, <1>t DEF Call, Mine, Buffers
  <2>3. Sending => arg.buf = Mine
    BY <1>0, <1>1 DEF Call, RequestKept, BlockGiven
  <2> QED
    BY <1>0, <1>1, <1>t, <2>1, <2>2, <2>3 DEF Call, Numbers, Sending, Requested, BlockGiven
<1>2. CASE OpenSocket
  BY <1>0, <1>2, <1>t DEF OpenSocket, Numbers, Mine, Control, RequestKept, Sending, BlockGiven
<1>3. CASE Connect
  BY <1>0, <1>3, <1>t DEF Connect, Numbers, Mine, RequestKept, Sending, BlockGiven, RestartReturns
<1>4. CASE SendRestart
  BY <1>0, <1>4, <1>t DEF SendRestart, Numbers, Mine, RequestKept, Sending, BlockGiven, RestartReturns
<1>5. CASE SendDirect
  BY <1>0, <1>5, <1>t DEF SendDirect, Numbers, Mine, RequestKept, Sending, BlockGiven, Return, Sent, Done,
     RestartReturns
<1>6. CASE Receive
  BY <1>0, <1>6, <1>t DEF Receive, Numbers, Mine, RequestKept, Sending, BlockGiven, Return, Done, RestartReturns
<1>7. CASE Header
  <2>1. \A b \in Buffers : buffer'[b].blk = buffer[b].blk
    BY <1>0, <1>7, <1>t DEF Header
  <2>2. mpc' = "send" => msg' = buffer'[Mine]
    BY <1>7 DEF Header
  <2>3. Mine' = Mine
    BY <1>7 DEF Header, Mine
  <2> QED
    BY <1>0, <1>7, <1>t, <2>1, <2>2, <2>3 DEF Header, Numbers, RequestKept, Sending, BlockGiven, Requested
<1>8. CASE StartThread
  BY <1>0, <1>8, <1>t DEF StartThread, Numbers, Mine, Return, Sending, BlockGiven, Requested
<1>9. CASE ThreadArgs
  BY <1>0, <1>9, <1>t DEF ThreadArgs, Numbers, Mine, Sending, BlockGiven, Requested
<1>10. CASE ThreadSend
  BY <1>0, <1>10, <1>t DEF ThreadSend, Numbers, Mine, Sending, BlockGiven, Requested
<1>11. CASE ThreadClose
  BY <1>0, <1>11, <1>t DEF ThreadClose, Numbers, Mine, Sending, BlockGiven, Requested
<1>12. ASSUME NEW c \in Conns, Answer(c) PROVE Numbers'
  BY <1>0, <1>12, <1>t DEF Answer, Numbers, Mine, Sending, BlockGiven, Requested
<1>13. ASSUME NEW C \in SUBSET Conns, Drop(C) PROVE Numbers'
  BY <1>0, <1>13, <1>t DEF Drop, Numbers, Mine, Sending, BlockGiven, Requested
<1>14. CASE Check
  BY <1>0, <1>14, <1>t DEF Check, Numbers, Mine, Sending, BlockGiven, Requested, RequestKept
<1>15. CASE Recheck
  BY <1>0, <1>15, <1>t DEF Recheck, Numbers, Mine, Sending, BlockGiven, Requested, RequestKept, Return
<1>16. CASE TxWait
  BY <1>0, <1>16, <1>t DEF TxWait, Return, Numbers, Mine, Sending, BlockGiven, Requested
<1>17. CASE SpuriousWakeup
  BY <1>0, <1>17, <1>t DEF SpuriousWakeup, Numbers, Mine, Sending, BlockGiven, Requested
<1>18. CASE ThreadTest
  BY <1>0, <1>18, <1>t DEF ThreadTest, Numbers, Mine, Sending, BlockGiven, Requested
<1>19. CASE ThreadFinish
  BY <1>0, <1>19, <1>t DEF ThreadFinish, Numbers, Mine, Sending, BlockGiven, Requested
<1>20. CASE Sigpipe
  BY <1>0, <1>20, <1>t DEF Sigpipe, Numbers, Mine, Sending, BlockGiven, Requested
<1>21. CASE NestedCheck
  BY <1>0, <1>21, <1>t DEF NestedCheck, Numbers, Mine, RequestKept, Sending, BlockGiven
<1>22. CASE BuildRestart
  BY <1>0, <1>22, <1>t DEF BuildRestart, Numbers, Mine, RequestKept, Sending, BlockGiven, RestartReturns
<1> QED
  BY <1>1, <1>2, <1>3, <1>4, <1>5, <1>6, <1>7, <1>8, <1>9, <1>10, <1>11, <1>12, <1>13,
     <1>14, <1>15, <1>16, <1>17, <1>18, <1>19, <1>20, <1>21, <1>22 DEF Next, Caller, Thread, Peer

\* A block that is not ahead of the calls stays so.
LEMMA NotAheadKept ==
  ASSUME TransferInv, NoEmptyStream, Next, NEW x \in Conns, NEW b \in Nat, NotAhead(x, b)
  PROVE  NotAhead(x, b)'
<1> USE DEF cfg, shared, caller, nesting, thread, network, HeaderWritten, BeforeBlock, Opening, NotAhead, Restart
<1>0. TypeOK /\ Control /\ RequestKept /\ Numbers
  BY DEF TransferInv
<1>t. block \in Nat
  BY <1>0 DEF TypeOK
<1>1. CASE Call
  <2>1. block' = block + 1 /\ mpc = "idle" /\ mpc' = "check" /\ UNCHANGED <<running, arg, spc>>
    BY <1>1 DEF Call
  <2> QED
    BY <1>t, <2>1 DEF Sending, Requested, BlockGiven
<1>2. CASE OpenSocket
  BY <1>0, <1>2, <1>t DEF OpenSocket, RequestKept, Sending, BlockGiven
<1>3. CASE Connect
  BY <1>0, <1>3, <1>t DEF Connect, RequestKept, Sending, BlockGiven, RestartReturns
<1>4. CASE SendRestart
  BY <1>0, <1>4, <1>t DEF SendRestart, RequestKept, Sending, BlockGiven, RestartReturns
<1>5. CASE SendDirect
  BY <1>0, <1>5, <1>t DEF SendDirect, RequestKept, Sending, BlockGiven, Return, Sent, Done, RestartReturns
<1>6. CASE Receive
  BY <1>0, <1>6, <1>t DEF Receive, RequestKept, Sending, BlockGiven, Return, Done, RestartReturns
<1>7. CASE Header
  <2>1. mpc = "header" /\ mpc' \in {"wait1", "send"} /\ UNCHANGED <<running, arg, spc, block>>
    BY <1>7 DEF Header
  <2> QED
    BY <1>0, <1>t, <2>1 DEF RequestKept, Sending, BlockGiven, Requested
<1>8. CASE StartThread
  <2>1. mpc = "start" /\ mpc' \in {"idle", "wait2"} /\ block' = block
    BY <1>8 DEF StartThread, Return
  <2> QED
    BY <1>t, <2>1 DEF BlockGiven, Requested
<1>9. CASE ThreadArgs
  BY <1>9 DEF ThreadArgs, Sending, BlockGiven, Requested
<1>10. CASE ThreadSend
  BY <1>10 DEF ThreadSend, Sending, BlockGiven, Requested
<1>11. CASE ThreadClose
  BY <1>11 DEF ThreadClose, Sending, BlockGiven, Requested
<1>12. ASSUME NEW c \in Conns, Answer(c) PROVE NotAhead(x, b)'
  BY <1>12 DEF Answer, Sending, BlockGiven, Requested
<1>13. ASSUME NEW C \in SUBSET Conns, Drop(C) PROVE NotAhead(x, b)'
  BY <1>13 DEF Drop, Sending, BlockGiven, Requested
<1>14. CASE Check
  BY <1>0, <1>14, <1>t DEF Check, Sending, BlockGiven, Requested, RequestKept
<1>15. CASE Recheck
  BY <1>0, <1>15, <1>t DEF Recheck, Sending, BlockGiven, Requested, RequestKept, Return
<1>16. CASE TxWait
  BY <1>16, <1>t DEF TxWait, Return, Sending, BlockGiven, Requested
<1>17. CASE SpuriousWakeup
  BY <1>17 DEF SpuriousWakeup, Sending, BlockGiven, Requested
<1>18. CASE ThreadTest
  BY <1>18 DEF ThreadTest, Sending, BlockGiven, Requested
<1>19. CASE ThreadFinish
  BY <1>19 DEF ThreadFinish, Sending, BlockGiven, Requested
<1>20. CASE Sigpipe
  BY <1>20, <1>t DEF Sigpipe, Sending, BlockGiven, Requested
<1>21. CASE NestedCheck
  BY <1>0, <1>21, <1>t DEF NestedCheck, RequestKept, Sending, BlockGiven
<1>22. CASE BuildRestart
  BY <1>0, <1>22, <1>t DEF BuildRestart, RequestKept, Sending, BlockGiven, RestartReturns
<1> QED
  BY <1>1, <1>2, <1>3, <1>4, <1>5, <1>6, <1>7, <1>8, <1>9, <1>10, <1>11, <1>12, <1>13,
     <1>14, <1>15, <1>16, <1>17, <1>18, <1>19, <1>20, <1>21, <1>22 DEF Next, Caller, Thread, Peer

\* Only the two senders write.
LEMMA WhoWrites ==
  ASSUME Next
  PROVE  \/ wire' = wire
         \/ SendDirect /\ Taken(fd, msg, part + 1)
         \/ ThreadSend /\ Taken(tSocket, buffer[tBuffer], tPart + 1)
  BY ZenonT(40) DEF Next, Caller, Thread, Peer, Call, Check, OpenSocket, Connect, SendRestart, NestedCheck,
     BuildRestart, Receive, Recheck, Header, TxWait, SpuriousWakeup, StartThread, ThreadTest, ThreadArgs,
     ThreadClose, ThreadFinish, Answer, Drop, Sigpipe, SendDirect, ThreadSend, Lost, cfg, shared, caller,
     nesting, thread, network

\* A piece on a connection was there before, or one of the senders just wrote it.
LEMMA NewPiece ==
  ASSUME TransferInv, Next, NEW c \in Conns, NEW j \in 1 .. Len(wire'[c])
  PROVE  \/ j \in 1 .. Len(wire[c]) /\ wire'[c][j] = wire[c][j]
         \/ /\ SendDirect /\ Taken(fd, msg, part + 1) /\ c = fd
            /\ j = Len(wire[c]) + 1 /\ wire'[c][j] = Chunk(msg, part + 1)
         \/ /\ ThreadSend /\ Taken(tSocket, buffer[tBuffer], tPart + 1) /\ c = arg.fd
            /\ j = Len(wire[c]) + 1 /\ wire'[c][j] = Chunk(buffer[arg.buf], tPart + 1)
<1> USE DEF cfg, shared, caller, nesting, thread, network
<1>0. TypeOK
  BY DEF TransferInv
<1>1. CASE wire'[c] = wire[c]
  BY <1>1
<1>2. CASE SendDirect /\ Taken(fd, msg, part + 1) /\ c = fd
  <2>1. wire'[c] = Append(wire[c], Chunk(msg, part + 1)) /\ part \in 0 .. NParts - 1
    BY <1>2, DirectPiece
  <2>2. msg \in Messages /\ wire[c] \in Seq(Chunks) /\ part + 1 \in 1 .. NParts
    BY <1>0, <2>1, TransferAssumption DEF TypeOK
  <2>3. Chunk(msg, part + 1) \in Chunks
    BY <2>2 DEF Chunk, Chunks, Messages
  <2> QED
    BY <1>2, <2>1, <2>2, <2>3, AppendProperties, LenProperties
<1>3. CASE ThreadSend /\ Taken(tSocket, buffer[tBuffer], tPart + 1) /\ c = arg.fd
  <2>1. wire'[c] = Append(wire[c], Chunk(buffer[arg.buf], tPart + 1)) /\ tPart \in 0 .. NParts - 1
    BY <1>3, ThreadPiece
  <2>2. buffer[arg.buf] \in Messages /\ wire[c] \in Seq(Chunks) /\ tPart + 1 \in 1 .. NParts
    BY <1>0, <2>1, TransferAssumption DEF TypeOK
  <2>3. Chunk(buffer[arg.buf], tPart + 1) \in Chunks
    BY <2>2 DEF Chunk, Chunks, Messages
  <2> QED
    BY <1>3, <2>1, <2>2, <2>3, AppendProperties, LenProperties
<1> QED
  BY <1>1, <1>2, <1>3, WhoWrites, DirectPiece, ThreadPiece

\* What either sender writes is not ahead of the calls.
LEMMA NewIsNotAhead ==
  ASSUME TransferInv
  PROVE  /\ SendDirect => NotAhead(fd, msg.blk) /\ ~Sending
         /\ ThreadSend /\ Sending => NotAhead(arg.fd, buffer[arg.buf].blk)
<1>0. TypeOK /\ Control /\ RequestKept /\ Numbers
  BY DEF TransferInv
<1>t. block \in Nat
  BY <1>0 DEF TypeOK
<1>1. ASSUME SendDirect PROVE NotAhead(fd, msg.blk) /\ ~Sending
  <2>1. mpc = "send" /\ ~Sending
    BY <1>0, <1>1 DEF SendDirect, RequestKept, BlockGiven
  <2>2. CASE msg = Restart
    BY <1>0, <1>t, <2>1, <2>2 DEF Numbers, BeforeBlock, Opening, HeaderWritten, NotAhead, Restart
  <2>3. CASE msg # Restart
    BY <1>0, <1>t, <2>1, <2>3 DEF Numbers, BeforeBlock, Opening, HeaderWritten, NotAhead
  <2> QED
    BY <2>1, <2>2, <2>3
<1>2. ASSUME ThreadSend, Sending PROVE NotAhead(arg.fd, buffer[arg.buf].blk)
  <2>1. buffer[arg.buf].blk = Requested /\ Requested \in {block, block - 1} /\ (Requested = block <=> BlockGiven)
    BY <1>0, <1>2, <1>t DEF Numbers, Requested
  <2>2. mpc # "send" /\ ~(BlockGiven /\ (BeforeBlock \/ HeaderWritten))
    BY <1>0, <1>2 DEF RequestKept, BlockGiven, BeforeBlock, Opening, HeaderWritten
  <2> QED
    BY <1>t, <2>1, <2>2 DEF NotAhead
<1> QED
  BY <1>1, <1>2

\* Every step keeps the blocks behind the calls.
LEMMA BlocksStep ==
  ASSUME TransferInv, NoEmptyStream, Next
  PROVE  BlocksInOrder'
<1>0. TypeOK /\ BlocksInOrder
  BY DEF TransferInv
<1>1. SUFFICES ASSUME NEW c \in Conns, NEW j \in 1 .. Len(wire[c])'
               PROVE  NotAhead(c, wire[c][j].blk)'
  BY DEF BlocksInOrder
<1>2. PICK b \in Nat : b = wire'[c][j].blk /\ NotAhead(c, b)
  <2>1. CASE j \in 1 .. Len(wire[c]) /\ wire'[c][j] = wire[c][j]
    <3>1. wire[c] \in Seq(Chunks)
      BY <1>0 DEF TypeOK
    <3>2. wire[c][j] \in Chunks
      BY <2>1, <3>1, ElementOfSeq
    <3>3. wire[c][j].blk \in Nat
      BY <3>2, TransferAssumption DEF Chunks
    <3> QED
      BY <1>0, <2>1, <3>3 DEF BlocksInOrder
  <2>2. CASE SendDirect /\ Taken(fd, msg, part + 1) /\ c = fd /\ wire'[c][j] = Chunk(msg, part + 1)
    <3>1. msg.blk \in Nat
      BY <1>0 DEF TypeOK, Messages
    <3>2. NotAhead(fd, msg.blk) /\ wire'[c][j].blk = msg.blk
      BY <2>2, NewIsNotAhead DEF Chunk
    <3> QED
      BY <2>2, <3>1, <3>2
  <2>3. CASE ThreadSend /\ Taken(tSocket, buffer[tBuffer], tPart + 1) /\ c = arg.fd
             /\ wire'[c][j] = Chunk(buffer[arg.buf], tPart + 1)
    <3>1. Sending
      BY <2>3, ThreadPiece
    <3>2. buffer[arg.buf] \in Messages
      BY <1>0 DEF TypeOK
    <3> QED
      BY <2>3, <3>1, <3>2, NewIsNotAhead DEF Chunk, Messages
  <2> QED
    BY <2>1, <2>2, <2>3, NewPiece
<1>3. NotAhead(c, b)'
  BY <1>2, NotAheadKept
<1>4. b = wire[c][j].blk'
  BY <1>2
<1> QED
  BY <1>3, <1>4 DEF NotAhead

\* Every step keeps the blocks of all connections in order.
LEMMA NeverResentStep ==
  ASSUME TransferInv, NoEmptyStream, Next
  PROVE  NeverResent'
<1>0. TypeOK /\ BlocksInOrder /\ Sockets /\ NeverResent /\ Control /\ RequestKept /\ Numbers /\ Restarted
  BY DEF TransferInv
<1>t. /\ nsock \in Nat /\ tsSocket \in Nat /\ fd \in Nat /\ arg.fd \in Nat /\ block \in Nat
      /\ wire \in [Conns -> Seq(Chunks)]
      /\ Conns = 1 .. MaxConn /\ MaxConn \in Nat
  BY <1>0, TransferAssumption DEF TypeOK, Conns
<1>b. ASSUME NEW c \in Conns, NEW j \in 1 .. Len(wire[c])
      PROVE  wire[c][j].blk \in Nat /\ NotAhead(c, wire[c][j].blk)
  <2>1. wire[c] \in Seq(Chunks)
    BY <1>t
  <2>2. wire[c][j] \in Chunks
    BY <2>1, ElementOfSeq
  <2> QED
    BY <1>0, <2>2, TransferAssumption DEF BlocksInOrder, Chunks
\* the connection written to is the last one
<1>1. ASSUME NEW x \in Conns, cstate[x] = "open", x \in {0, nsock}, NEW d \in Conns, x < d
      PROVE  Len(wire[d]) = 0
  <2>1. d > nsock
    BY <1>1, <1>t
  <2>2. wire[d] = <<>>
    BY <1>0, <2>1 DEF Sockets
  <2> QED
    BY <2>2
\* what the caller adds is ahead of everything
<1>2. ASSUME SendDirect, Taken(fd, msg, part + 1)
      PROVE  /\ fd \in Conns /\ cstate[fd] = "open" /\ fd \in {0, nsock} /\ msg.blk \in Nat
             /\ \A c \in Conns : \A j \in 1 .. Len(wire[c]) :
                  /\ c # fd /\ msg.blk # 0 => wire[c][j].blk < msg.blk
                  /\ c = fd => wire[c][j].blk <= msg.blk
  <2>1. /\ fd \in Conns /\ cstate[fd] = "open" /\ fd \in {0, nsock} /\ mpc = "send"
    BY <1>0, <1>2, DirectPiece DEF Taken, IsOpen, Sockets, SendDirect
  <2>2. CASE msg # Restart
    <3>1. msg.blk = block
      BY <1>0, <2>1, <2>2 DEF Numbers
    <3>2. ASSUME NEW c \in Conns, NEW j \in 1 .. Len(wire[c])
          PROVE  /\ c # fd => wire[c][j].blk < block
                 /\ wire[c][j].blk <= block
      BY <1>b, <2>1, <2>2 DEF NotAhead
    <3> QED
      BY <1>t, <2>1, <3>1, <3>2
  <2>3. CASE msg = Restart
    <3>1. msg.blk = 0
      BY <2>3 DEF Restart
    <3>5. ASSUME NEW j \in 1 .. Len(wire[fd]) PROVE wire[fd][j].blk = 0
      BY <1>0, <2>1, <2>3 DEF Restarted, Opening
    <3> QED
      BY <2>1, <3>1, <3>5
  <2> QED
    BY <2>2, <2>3
\* so is what the send thread adds
<1>3. ASSUME ThreadSend, Taken(tSocket, buffer[tBuffer], tPart + 1)
      PROVE  /\ arg.fd \in Conns /\ cstate[arg.fd] = "open" /\ arg.fd \in {0, nsock}
             /\ buffer[arg.buf].blk \in Nat
             /\ \A c \in Conns : \A j \in 1 .. Len(wire[c]) :
                  /\ c # arg.fd => wire[c][j].blk < buffer[arg.buf].blk
                  /\ c = arg.fd => wire[c][j].blk <= buffer[arg.buf].blk
  <2>1. /\ arg.fd \in Conns /\ cstate[arg.fd] = "open" /\ arg.fd = tsSocket /\ Sending
    BY <1>3, ThreadPiece DEF Taken, IsOpen
  <2>2. arg.fd \in {0, nsock}
    BY <1>0, <2>1 DEF Sockets
  <2>3. buffer[arg.buf].blk = Requested /\ buffer[arg.buf].blk \in Nat
    <3>1. buffer[arg.buf] \in Messages
      BY <1>0 DEF TypeOK
    <3> QED
      BY <1>0, <2>1, <3>1 DEF Numbers, Messages
  <2>4. ASSUME NEW c \in Conns, NEW j \in 1 .. Len(wire[c])
        PROVE  /\ c # arg.fd => wire[c][j].blk < Requested
               /\ wire[c][j].blk <= Requested
    BY <1>b, <2>1 DEF NotAhead
  <2> QED
    BY <2>1, <2>2, <2>3, <2>4
\* any added piece
<1>5. CASE wire' = wire
  BY <1>0, <1>5 DEF NeverResent
<1>6. SUFFICES ASSUME wire' # wire PROVE NeverResent'
  BY <1>5
<1>4. PICK x \in Conns, b \in Nat :
        /\ cstate[x] = "open" /\ x \in {0, nsock}
        /\ \A c \in Conns : \A j \in 1 .. Len(wire[c]) :
             /\ c # x /\ b # 0 => wire[c][j].blk < b
             /\ c = x => wire[c][j].blk <= b
        /\ \A c \in Conns : \A j \in 1 .. Len(wire'[c]) :
             \/ j \in 1 .. Len(wire[c]) /\ wire'[c][j] = wire[c][j]
             \/ c = x /\ j = Len(wire[c]) + 1 /\ wire'[c][j].blk = b
  <2>1. CASE SendDirect /\ Taken(fd, msg, part + 1)
    <3>1. \A c \in Conns : \A j \in 1 .. Len(wire'[c]) :
            \/ j \in 1 .. Len(wire[c]) /\ wire'[c][j] = wire[c][j]
            \/ c = fd /\ j = Len(wire[c]) + 1 /\ wire'[c][j].blk = msg.blk
      <4>1. ~ThreadSend
        BY <1>0, <2>1, TransferAssumption DEF SendDirect, ThreadSend, TypeOK, thread
      <4> QED
        BY <2>1, <4>1, NewPiece DEF Chunk
    <3> QED
      BY <1>2, <2>1, <3>1
  <2>2. CASE ThreadSend /\ Taken(tSocket, buffer[tBuffer], tPart + 1)
    <3>1. \A c \in Conns : \A j \in 1 .. Len(wire'[c]) :
            \/ j \in 1 .. Len(wire[c]) /\ wire'[c][j] = wire[c][j]
            \/ c = arg.fd /\ j = Len(wire[c]) + 1 /\ wire'[c][j].blk = buffer[arg.buf].blk
      <4>1. ~SendDirect
        BY <1>0, <2>2, ThreadPiece DEF RequestKept, BlockGiven, SendDirect
      <4> QED
        BY <2>2, <4>1, NewPiece DEF Chunk
    <3> QED
      BY ZenonT(40), <1>3, <2>2, <3>1
  <2> QED
    BY <1>6, <2>1, <2>2, WhoWrites
<1>7. NeverResent'
  <2>1. SUFFICES ASSUME NEW c \in Conns, NEW d \in Conns,
                        NEW j \in 1 .. Len(wire'[c]), NEW k \in 1 .. Len(wire'[d])
                 PROVE  /\ c < d /\ wire'[c][j].blk # 0 /\ wire'[d][k].blk # 0
                           => wire'[c][j].blk < wire'[d][k].blk
                        /\ c = d /\ j < k => wire'[c][j].blk <= wire'[d][k].blk
    BY DEF NeverResent
  <2>2. CASE j \in 1 .. Len(wire[c]) /\ wire'[c][j] = wire[c][j]
             /\ k \in 1 .. Len(wire[d]) /\ wire'[d][k] = wire[d][k]
    BY <1>0, <2>2 DEF NeverResent
  <2>3. CASE j \in 1 .. Len(wire[c]) /\ wire'[c][j] = wire[c][j]
             /\ d = x /\ k = Len(wire[d]) + 1 /\ wire'[d][k].blk = b
    BY <1>4, <1>t, <2>3
  <2>4. CASE c = x /\ j = Len(wire[c]) + 1 /\ wire'[c][j].blk = b
             /\ k \in 1 .. Len(wire[d]) /\ wire'[d][k] = wire[d][k]
    <3>1. ~(c < d)
      BY <1>1, <1>4, <1>t, <2>4
    <3>2. ~(c = d /\ j < k)
      BY <1>t, <2>4, LenProperties
    <3> QED
      BY <3>1, <3>2
  <2>5. CASE c = x /\ j = Len(wire[c]) + 1 /\ d = x /\ k = Len(wire[d]) + 1
    BY <1>t, <2>5, LenProperties
  <2> QED
    BY <1>4, <2>2, <2>3, <2>4, <2>5
<1> QED
  BY <1>7

-----------------------------------------------------------------------------
(* Acknowledgements                                                         *)

\* A message under way does not count as a frame.
LEMMA MidwayQuotient ==
  ASSUME NEW f \in Nat, NEW p \in 0 .. NParts - 1, NEW n, n = f * NParts + p
  PROVE  n \div NParts = f
<1>1. NParts \in Nat /\ NParts >= 1 /\ f * NParts = NParts * f /\ f \in Int
  BY TransferAssumption
<1>2. (NParts * f + p) \div NParts = f
  BY <1>1, DivModOfSum
<1> QED
  BY <1>1, <1>2

\* Every step keeps the acknowledgements in step with the messages.
LEMMA AcknowledgementsStep ==
  ASSUME TransferInv, NoEmptyStream, Next
  PROVE  Acknowledgements'
<1> USE TransferAssumption DEF cfg, shared, caller, nesting, thread, network
<1>0. TypeOK /\ Control /\ Sockets /\ Acknowledgements /\ Progress
  BY DEF TransferInv
<1>t. /\ cstate \in [Conns -> {"new", "fresh", "open", "dropped", "closed"}]
      /\ nsock \in 0 .. MaxConn /\ tsSocket \in 0 .. MaxConn
      /\ acks \in [Conns -> Seq([frame : Nat, code : {0, 1}])]
      /\ answered \in [Conns -> Nat]
      /\ Conns = 1 .. MaxConn /\ MaxConn \in Nat /\ fd \in 0 .. MaxConn
  BY <1>0 DEF TypeOK, Conns
<1>1. CASE Call
  BY <1>0, <1>1 DEF Call, Acknowledgements, IsOpen, Frames
<1>2. CASE OpenSocket
  <2>1. nsock + 1 \in Conns /\ tsSocket' = nsock + 1 /\ mpc' = "connect"
    BY <1>t, <1>2 DEF OpenSocket
  <2>2. acks[nsock + 1] = <<>>
    BY <1>0, <1>t, <2>1 DEF Sockets
  <2>3. ~IsOpen(tsSocket)'
    BY <1>t, <1>2, <2>1 DEF OpenSocket, IsOpen
  <2> QED
    BY <1>2, <2>1, <2>2, <2>3 DEF OpenSocket, Acknowledgements
<1>3. CASE Connect
  <2>1. CASE tsSocket' = 0
    BY <2>1 DEF Acknowledgements
  <2>2. CASE tsSocket' = tsSocket /\ tsSocket # 0 /\ cstate[tsSocket] = "fresh"
    <3>1. wire[tsSocket] = <<>> /\ acks[tsSocket] = <<>> /\ answered[tsSocket] = 0
      <4>1. tsSocket \in Conns
        BY <1>t, <2>2
      <4> QED
        BY <1>0, <2>2, <4>1 DEF Sockets
    <3>2. Frames(tsSocket) = 0
      <4>1. PICK c \in Conns : c = tsSocket
        BY <1>t, <2>2
      <4>2. Len(wire[c]) = 0 * NParts + 0
        BY <3>1, <4>1
      <4> QED
        BY <4>1, <4>2, MidwayQuotient DEF Frames
    <3>3. UNCHANGED <<wire, acks, answered>> /\ mpc' # "recv"
      BY <1>3 DEF Connect, RestartReturns
    <3> QED
      BY <2>2, <3>1, <3>2, <3>3 DEF Acknowledgements, Frames
  <2> QED
    BY <1>3, <2>1, <2>2 DEF Connect, CloseSocket
<1>4. CASE SendRestart
  BY <1>0, <1>4 DEF SendRestart, Acknowledgements, IsOpen, Frames, RestartReturns
<1>5. CASE SendDirect
  <2>1. SUFFICES ASSUME mode = 1, tsSocket' # 0
                 PROVE  Acknowledgements'
    BY <1>5 DEF Acknowledgements, SendDirect
  <2>2. UNCHANGED <<tsSocket, cstate, acks, answered>> /\ tsSocket = fd /\ acks[fd] = <<>>
    BY <1>0, <1>5, <2>1 DEF SendDirect, CloseSocket, Control, Acknowledgements
  <2>3. CASE mpc' = "recv"
    BY <2>2, <2>3 DEF Acknowledgements
  <2>4. CASE mpc' = "send" /\ IsOpen(fd)
    <3>1. Taken(fd, msg, part + 1) /\ part' = part + 1 /\ part' # NParts
      BY <1>5, <2>1, <2>4 DEF SendDirect, Lost, IsDropped, IsOpen, Done, RestartReturns, Return, Fails, Sent
    <3>2. /\ fd \in Conns /\ part \in 0 .. NParts - 1 /\ OnWire(fd, msg, part, Ahead) /\ Ahead \in Nat
          /\ Len(wire'[fd]) = Ahead * NParts + part + 1
      BY <1>5, <3>1, DirectPiece
    <3>3. PICK c \in Conns, p \in 0 .. NParts - 1, f \in Nat : c = fd /\ p = part /\ f = Ahead
      BY <3>2
    <3>4. Len(wire[c]) = f * NParts + p
      BY <3>2, <3>3 DEF OnWire
    <3>5. Frames(c) = f
      BY <3>4, MidwayQuotient DEF Frames
    <3>6. p + 1 \in 0 .. NParts - 1 /\ f * NParts \in Nat
      BY <3>1, <3>3, SMT
    <3>7. Len(wire'[c]) = f * NParts + (p + 1)
      BY <3>2, <3>3, <3>6
    <3>8. Len(wire'[c]) \div NParts = f
      BY <3>3, <3>6, <3>7, MidwayQuotient
    <3>10. Frames(fd)' = Frames(fd) /\ fd' = fd
      BY <1>5, <3>3, <3>5, <3>8 DEF Frames, SendDirect
    <3> QED
      BY <1>0, <1>5, <2>1, <2>2, <2>4, <3>10 DEF Acknowledgements, SendDirect, Frames
  <2>5. CASE mpc' = "send" /\ ~IsOpen(fd)
    BY <2>2, <2>5 DEF Acknowledgements, IsOpen
  <2> QED
    BY <1>5, <2>1, <2>2, <2>3, <2>4, <2>5 DEF SendDirect, Sent, CloseSocket
<1>6. CASE Receive
  <2>1. SUFFICES ASSUME mode = 1, tsSocket' # 0
                 PROVE  Acknowledgements'
    BY <1>6 DEF Acknowledgements, Receive
  <2>2. UNCHANGED <<tsSocket, cstate, wire, answered>> /\ mpc' \in {"idle", "recheck", "build"} /\ mpc = "recv"
    BY <1>6, <2>1 DEF Receive, CloseSocket, Return, Done, RestartReturns
  <2>3. CASE acks[tsSocket] # <<>> /\ acks' = [acks EXCEPT ![tsSocket] = Tail(@)]
    <3>1. Len(acks[tsSocket]) = 1 /\ answered[tsSocket] = Frames(tsSocket)
      BY <1>0, <2>1, <2>2, <2>3 DEF Acknowledgements
    <3>2. acks[tsSocket] \in Seq([frame : Nat, code : {0, 1}]) /\ tsSocket \in Conns
      BY <1>t, <2>1, <2>2
    <3>3. Tail(acks[tsSocket]) \in Seq([frame : Nat, code : {0, 1}]) /\ Len(Tail(acks[tsSocket])) = 0
      BY <2>3, <3>1, <3>2, HeadTailProperties
    <3>4. Tail(acks[tsSocket]) = <<>>
      BY <3>3, EmptySeq
    <3> QED
      BY <1>t, <2>1, <2>2, <2>3, <3>1, <3>2, <3>4 DEF Acknowledgements, Frames
  <2>4. CASE IsDropped(tsSocket) /\ acks[tsSocket] = <<>> /\ acks' = acks
    BY <2>2, <2>4 DEF Acknowledgements, IsOpen, IsDropped
  <2> QED
    BY <1>6, <2>1, <2>3, <2>4 DEF Receive, CloseSocket
<1>7. CASE Header
  BY <1>0, <1>7 DEF Header, Acknowledgements, IsOpen, Frames
<1>8. CASE StartThread
  BY <1>0, <1>8 DEF StartThread, Acknowledgements, Control, HeaderWritten
<1>9. CASE ThreadArgs
  BY <1>0, <1>9 DEF ThreadArgs, Acknowledgements, Control
<1>10. CASE ThreadSend
  BY <1>0, <1>10 DEF ThreadSend, Acknowledgements, Control
<1>11. CASE ThreadClose
  BY <1>0, <1>11 DEF ThreadClose, Acknowledgements, Control
<1>12. ASSUME NEW c \in Conns, Answer(c) PROVE Acknowledgements'
  <2>1. SUFFICES ASSUME tsSocket # 0, mpc # "killed"
                 PROVE  Acknowledgements'
    BY <1>12 DEF Acknowledgements, Answer
  <2>2. UNCHANGED <<mode, mpc, tsSocket, wire, cstate>> /\ mode = 1
    BY <1>12 DEF Answer
  <2>3. CASE c # tsSocket
    <3>1. acks'[tsSocket] = acks[tsSocket] /\ answered'[tsSocket] = answered[tsSocket]
      BY <1>t, <1>12, <2>3 DEF Answer
    <3> QED
      BY <1>0, <2>2, <3>1 DEF Acknowledgements, Frames, IsOpen
  <2>4. CASE c = tsSocket
    <3>1. mpc = "recv" /\ acks[c] = <<>>
      BY <1>0, <1>t, <1>12, <2>1, <2>4, FramesTyped DEF Answer, Acknowledgements, IsOpen
    <3>2. PICK code \in {0, 1} : acks' = [acks EXCEPT ![c] = Append(@, [frame |-> Frames(c), code |-> code])]
      BY <1>12 DEF Answer
    <3>3. acks'[c] = <<[frame |-> Frames(c), code |-> code]>>
      BY <1>t, <3>1, <3>2
    <3>4. answered'[c] = Frames(c)
      BY <1>t, <1>12 DEF Answer
    <3>5. Len(acks'[c]) = 1 /\ acks'[c][1].frame = Frames(c)
      BY <3>3
    <3>6. Frames(c)' = Frames(c) /\ mpc' = "recv" /\ tsSocket' = c
      BY <2>2, <2>4, <3>1 DEF Frames
    <3> QED
      BY <3>4, <3>5, <3>6 DEF Acknowledgements
  <2> QED
    BY <2>3, <2>4
<1>13. ASSUME NEW C \in SUBSET Conns, Drop(C) PROVE Acknowledgements'
  <2>1. IsOpen(tsSocket)' => IsOpen(tsSocket)
    BY <1>t, <1>13 DEF Drop, IsOpen
  <2> QED
    BY <1>0, <1>13, <2>1 DEF Drop, Acknowledgements, Frames
<1>14. CASE Check
  BY <1>0, <1>14 DEF Check, Acknowledgements, IsOpen, Frames
<1>15. CASE Recheck
  BY <1>0, <1>15 DEF Recheck, Acknowledgements, IsOpen, Frames, Return
<1>16. CASE TxWait
  BY <1>0, <1>16 DEF TxWait, Acknowledgements, IsOpen, Frames, Return
<1>17. CASE SpuriousWakeup
  BY <1>0, <1>17 DEF SpuriousWakeup, Acknowledgements, IsOpen, Frames
<1>18. CASE ThreadTest
  BY <1>0, <1>18 DEF ThreadTest, Acknowledgements, IsOpen, Frames
<1>19. CASE ThreadFinish
  BY <1>0, <1>19 DEF ThreadFinish, Acknowledgements, Control
<1>20. CASE Sigpipe
  BY <1>0, <1>20 DEF Sigpipe, Acknowledgements
<1>21. CASE NestedCheck
  BY <1>0, <1>21 DEF NestedCheck, Acknowledgements, IsOpen, Frames
<1>22. CASE BuildRestart
  BY <1>0, <1>22 DEF BuildRestart, Acknowledgements, IsOpen, Frames, RestartReturns
<1> QED
  BY <1>1, <1>2, <1>3, <1>4, <1>5, <1>6, <1>7, <1>8, <1>9, <1>10, <1>11, <1>12, <1>13,
     <1>14, <1>15, <1>16, <1>17, <1>18, <1>19, <1>20, <1>21, <1>22 DEF Next, Caller, Thread, Peer

\* A sequence with an element appended is not empty.
LEMMA AppendedIsThere ==
  ASSUME NEW S, NEW q \in Seq(S), NEW x \in S
  PROVE  Append(q, x) # <<>>
BY AppendProperties

\* The last piece of a message makes one more whole message on the connection.
LEMMA LastPiece ==
  ASSUME TransferInv, SendDirect, Taken(fd, msg, part + 1), part + 1 = NParts
  PROVE  Ahead \in Nat /\ Frames(fd) = Ahead /\ Frames(fd)' = Ahead + 1
<1> USE TransferAssumption
<1>1. /\ fd \in Conns /\ part \in 0 .. NParts - 1 /\ Ahead \in Nat /\ OnWire(fd, msg, part, Ahead)
      /\ Len(wire'[fd]) = Ahead * NParts + part + 1
  BY DirectPiece
<1>3. PICK c \in Conns, p \in 0 .. NParts - 1, f \in Nat : c = fd /\ p = part /\ f = Ahead
  BY <1>1
<1>4. Frames(c) = f
  <2>1. Len(wire[c]) = f * NParts + p
    BY <1>1, <1>3 DEF OnWire
  <2> QED
    BY <2>1, MidwayQuotient DEF Frames
<1>5. Len(wire'[c]) \div NParts = f + 1
  <2>1. f * NParts \in Nat /\ (f + 1) * NParts = f * NParts + NParts
    BY SMT
  <2>2. Len(wire'[c]) = (f + 1) * NParts + 0
    BY <1>1, <1>3, <2>1
  <2>3. f + 1 \in Nat /\ 0 \in 0 .. NParts - 1
    OBVIOUS
  <2> QED
    BY <1>3, <2>2, <2>3, MidwayQuotient
<1> QED
  BY <1>1, <1>3, <1>4, <1>5 DEF Frames, SendDirect

\* A call comes to wait for an acknowledgement only behind a whole message the peer
\* has not answered.
LEMMA WaitBehindMessage ==
  ASSUME TransferInv, NoEmptyStream, SendDirect, mpc' = "recv", IsOpen(tsSocket)'
  PROVE  answered'[tsSocket'] < Frames(tsSocket)'
<1> USE DEF cfg, shared, caller, nesting, thread, network
<1>1. TypeOK /\ Control /\ Acknowledgements /\ mode = 1
  BY DEF TransferInv, SendDirect, Sent, Done, RestartReturns, Return, Control
<1>2. UNCHANGED <<tsSocket, cstate, answered, fd>> /\ tsSocket = fd /\ IsOpen(fd)
  BY <1>1 DEF SendDirect, CloseSocket, Control, IsOpen
<1>3. Taken(fd, msg, part + 1) /\ part + 1 = NParts
  BY <1>2 DEF SendDirect, Lost, IsDropped, IsOpen, Fails
<1>4. answered[fd] = Frames(fd)
  BY <1>1, <1>2 DEF SendDirect, Acknowledgements, IsOpen
<1>6. Ahead \in Nat /\ Frames(fd) = Ahead /\ Frames(fd)' = Ahead + 1
  BY <1>3, LastPiece
<1>7. answered[fd] = Ahead /\ Frames(tsSocket)' = Ahead + 1
  BY <1>2, <1>4, <1>6
<1> QED
  BY <1>2, <1>6, <1>7

\* No step leaves a thread waiting for what nobody will do.
LEMMA WaitsStep ==
  ASSUME TransferInv, NoEmptyStream, WaitsAreAnswered, [Next]_vars
  PROVE  WaitsAreAnswered'
<1> USE DEF cfg, shared, caller, nesting, thread, network
<1>0. TypeOK /\ Control /\ Sockets
  BY DEF TransferInv
<1>t. /\ cstate \in [Conns -> {"new", "fresh", "open", "dropped", "closed"}]
      /\ tsSocket \in 0 .. MaxConn /\ MaxConn \in Nat /\ Conns = 1 .. MaxConn
      /\ acks \in [Conns -> Seq([frame : Nat, code : {0, 1}])]
      /\ answered \in [Conns -> Nat]
  BY <1>0, TransferAssumption DEF TypeOK, Conns
<1>1. (mpc \in {"blocked1", "blocked2"} => running)' /\ (spc = "blocked" => ~running)'
  <2>1. mpc \in {"blocked1", "blocked2"} => running
    BY DEF WaitsAreAnswered
  <2>2. spc = "blocked" => ~running
    BY DEF WaitsAreAnswered
  <2>3. CASE TxWait \/ StartThread \/ ThreadTest \/ ThreadFinish \/ SpuriousWakeup
    BY <2>1, <2>2, <2>3 DEF TxWait, StartThread, ThreadTest, ThreadFinish, SpuriousWakeup, Return
  <2>4. CASE Call \/ Check \/ OpenSocket \/ Connect \/ SendRestart \/ NestedCheck
             \/ BuildRestart \/ SendDirect \/ Receive
    BY <2>1, <2>2, <2>4 DEF Call, Check, OpenSocket, Connect, SendRestart, NestedCheck, BuildRestart,
       SendDirect, Receive, Return, Sent, Done, RestartReturns
  <2>5. CASE Recheck \/ Header \/ ThreadArgs \/ ThreadSend \/ ThreadClose \/ Sigpipe
    BY <2>1, <2>2, <2>5 DEF Recheck, Header, ThreadArgs, ThreadSend, ThreadClose, Sigpipe, Return
  <2>6. CASE Peer \/ UNCHANGED vars
    <3>1. UNCHANGED <<mpc, spc, running>>
      BY <2>6 DEF Peer, Answer, Drop, vars
    <3> QED
      BY <2>1, <2>2, <3>1
  <2> QED
    BY <2>3, <2>4, <2>5, <2>6 DEF Next, Caller, Thread
<1>2. SUFFICES ASSUME mpc' = "recv", IsOpen(tsSocket)'
               PROVE  (acks[tsSocket] # <<>>)' \/ (answered[tsSocket] < Frames(tsSocket))'
  BY <1>1 DEF WaitsAreAnswered
<1>3. CASE mpc = "recv"
  <2>1. mode = 1 /\ ~running
    BY <1>0, <1>3 DEF Control
  <2>2. CASE UNCHANGED <<tsSocket, cstate, acks, answered, wire>>
    BY <1>2, <1>3, <2>2 DEF WaitsAreAnswered, Frames, IsOpen
  <2>3. ASSUME NEW c \in Conns, Answer(c) PROVE acks'[tsSocket'] # <<>> \/ (answered[tsSocket] < Frames(tsSocket))'
    <3>1. UNCHANGED <<tsSocket, cstate, wire>> /\ IsOpen(tsSocket)
      BY <1>2, <2>3 DEF Answer, IsOpen
    <3>2. CASE c = tsSocket
      <4>1. PICK code \in {0, 1} : acks'[c] = Append(acks[c], [frame |-> Frames(c), code |-> code])
        BY <1>t, <2>3 DEF Answer
      <4>2. Frames(c) \in Nat
        BY <1>0, FramesTyped
      <4>3. [frame |-> Frames(c), code |-> code] \in [frame : Nat, code : {0, 1}]
        BY <4>2
      <4>4. acks'[c] # <<>>
        BY <1>t, <4>1, <4>3, AppendedIsThere
      <4> QED
        BY <3>1, <3>2, <4>4
    <3>3. CASE c # tsSocket
      <4>1. acks'[tsSocket] = acks[tsSocket] /\ answered'[tsSocket] = answered[tsSocket]
        BY <1>t, <2>3, <3>3 DEF Answer
      <4> QED
        BY <1>3, <3>1, <4>1 DEF WaitsAreAnswered, Frames
    <3> QED
      BY <3>2, <3>3
  <2>4. ASSUME NEW C \in SUBSET Conns, Drop(C) PROVE (acks[tsSocket] # <<>> \/ answered[tsSocket] < Frames(tsSocket))'
    <3>1. IsOpen(tsSocket) /\ UNCHANGED <<tsSocket, wire, acks, answered>>
      BY <1>t, <1>2, <2>4 DEF Drop, IsOpen
    <3> QED
      BY <1>3, <3>1 DEF WaitsAreAnswered, Frames
  <2>5. CASE Caller
    BY <1>2, <1>3, <2>5 DEF Caller, Check, OpenSocket, Connect, SendRestart, NestedCheck, BuildRestart,
       SendDirect, Receive, Recheck, Header, TxWait, StartThread, Return, Done, RestartReturns
  <2>6. CASE ThreadSend \/ ThreadClose
    BY <1>0, <2>1, <2>6 DEF ThreadSend, ThreadClose, Control
  <2> QED
    BY <1>2, <1>3, <2>2, <2>3, <2>4, <2>5, <2>6 DEF Next, Thread, Peer, Call, SpuriousWakeup, ThreadTest,
       ThreadArgs, ThreadFinish, Sigpipe, vars
<1>4. CASE mpc # "recv"
  <2>1. SendDirect
    BY <1>2, <1>4 DEF Next, Caller, Thread, Peer, Call, Check, OpenSocket, Connect, SendRestart,
       NestedCheck, BuildRestart, Receive, Recheck, Header, TxWait, StartThread, SpuriousWakeup,
       ThreadTest, ThreadArgs, ThreadSend, ThreadClose, ThreadFinish, Answer, Drop, Sigpipe, Return, Done,
       RestartReturns, vars
  <2> QED
    BY <1>2, <2>1, WaitBehindMessage
<1> QED
  BY <1>3, <1>4

-----------------------------------------------------------------------------
(* The theorems                                                             *)

\* Nothing is on a connection at first.
LEMMA TransferStart ==
  ASSUME Init, NoEmptyStream
  PROVE  TransferInv
<1> USE TransferAssumption DEF Init, Restart
<1>1. TypeOK
  <2>1. cstate \in [Conns -> {"new", "fresh", "open", "dropped", "closed"}]
        /\ wire \in [Conns -> Seq(Chunks)]
        /\ acks \in [Conns -> Seq([frame : Nat, code : {0, 1}])]
        /\ answered \in [Conns -> Nat] /\ restarts \in [Conns -> Nat] /\ depth \in Nat
    BY DEF Conns
  <2>2. arg \in [fd : 0 .. MaxConn, buf : Buffers] /\ msg \in Messages
        /\ buffer \in [Buffers -> Messages]
    BY DEF Buffers, Messages
  <2>3. /\ tsSocket \in 0 .. MaxConn /\ sequence \in 0 .. MaxBlock /\ block \in 0 .. MaxBlock
        /\ fd \in 0 .. MaxConn /\ part \in 0 .. NParts /\ tSocket \in 0 .. MaxConn
        /\ tBuffer \in Buffers /\ tPart \in 0 .. NParts /\ nsock \in 0 .. MaxConn
    BY DEF Buffers
  <2> QED
    BY <2>1, <2>2, <2>3 DEF TypeOK
<1>2. Control
  BY DEF Control, NoEmptyStream, HeaderWritten
<1>3. Sockets
  BY DEF Sockets, Conns
<1>4. RequestKept /\ Progress /\ Numbers
  BY DEF RequestKept, Progress, Numbers, Sending, BeforeBlock, Opening, HeaderWritten
<1>8. Nested /\ Restarted
  BY DEF Nested, Restarted, Conns
<1>5. Carried /\ Acknowledgements
  BY DEF Carried, Acknowledgements, IsOpen
<1>6. \A c \in Conns : Len(wire[c]) = 0
  OBVIOUS
<1>7. BlocksInOrder /\ WireFramed /\ NeverResent
  BY <1>6 DEF BlocksInOrder, WireFramed, NeverResent
<1> QED
  BY <1>1, <1>2, <1>3, <1>4, <1>5, <1>7, <1>8 DEF TransferInv

\* A stutter of the whole state.
LEMMA TransferStutter ==
  ASSUME TransferInv, UNCHANGED vars
  PROVE  TransferInv'
<1> USE DEF vars, cfg, shared, caller, nesting, thread, network, TransferInv
<1>1. TypeOK' /\ Control' /\ Sockets'
  BY DEF TypeOK, Control, Sockets, IsOpen, HeaderWritten
<1>2. RequestKept' /\ Progress' /\ Numbers'
  BY DEF RequestKept, Progress, Numbers, Sending, BeforeBlock, Opening, HeaderWritten, BlockGiven,
         Mine, IsOpen, OnWire, Requested, Ahead
<1>5. Nested' /\ Restarted'
  BY DEF Nested, Restarted, ThreadDone, ToCome, Opening, MaxRestarts
<1>3. Carried' /\ Acknowledgements'
  BY DEF Carried, Acknowledgements, IsOpen, Sending, OnWire, Given, Written, HeaderWritten,
         Frames, Whole
<1>4. BlocksInOrder' /\ WireFramed' /\ NeverResent'
  BY DEF BlocksInOrder, WireFramed, MaxRestarts, NeverResent, NotAhead, BeforeBlock, Opening,
     HeaderWritten, BlockGiven, Sending, Requested
<1> QED
  BY <1>1, <1>2, <1>3, <1>4, <1>5

\* Every step keeps the invariant.
LEMMA TransferStep ==
  ASSUME TransferInv, NoEmptyStream, [Next]_vars
  PROVE  TransferInv'
<1>1. CASE Next
  BY <1>1, TypeStep, ControlStep, SocketsStep, KeptStep, NestedStep, RestartedStep, ProgressStep, CarriedStep,
     NumbersStep, BlocksStep, AcknowledgementsStep, FramedStep, NeverResentStep
     DEF TransferInv
<1>2. CASE UNCHANGED vars
  BY <1>2, TransferStutter
<1> QED
  BY <1>1, <1>2

\* The invariant holds in every state of the library, for every number of
\* connections, calls and pieces, in both modes and with and without overlap.
THEOREM TransferInvHolds ==
  ASSUME NoEmptyStream
  PROVE  Spec => []TransferInv
<1>1. Init => TransferInv
  BY TransferStart
<1>2. TransferInv /\ [Next]_vars => TransferInv'
  BY TransferStep
<1> QED
  BY <1>1, <1>2, PTL DEF Spec

\* A connection carries its restart message, twice at most and that in overlap mode
\* only, and then whole blocks numbered 0, 1, 2, ..., the pieces of two messages never
\* mixed (transferMultiTxData and Thread_Send write to the same socket, and the nested
\* calls of transferMultiTxRestart each test tsSocket anew).
THEOREM WiresStayFramed ==
  ASSUME NoEmptyStream
  PROVE  Spec => []WireFramed
<1>1. TransferInv => WireFramed
  BY DEF TransferInv
<1> QED
  BY <1>1, TransferInvHolds, PTL

\* No block goes out on two connections and blocks stay in the order of the
\* calls, over any drops and reconnections.
THEOREM BlocksNeverResent ==
  ASSUME NoEmptyStream
  PROVE  Spec => []NeverResent
<1>1. TransferInv => NeverResent
  BY DEF TransferInv
<1> QED
  BY <1>1, TransferInvHolds, PTL

\* While the send thread has a request to write on a connection, no call
\* changes the request's arguments or its buffer.
THEOREM RequestsStayUndisturbed ==
  ASSUME NoEmptyStream
  PROVE  Spec => RequestUndisturbed
<1>1. ASSUME TransferInv, Next, Sending, Sending'
      PROVE  arg' = arg /\ buffer'[arg.buf] = buffer[arg.buf]
  <2> USE <1>1 DEF cfg, shared, caller, nesting, thread, network
  <2>0. TypeOK /\ Control /\ RequestKept
    BY DEF TransferInv
  <2>1. CASE Call
    <3>1. arg.buf = block % 2 /\ block \in Nat
      BY <2>0, <2>1 DEF Call, RequestKept, BlockGiven, Mine, TypeOK
    <3>2. arg.buf # (block + 1) % 2
      BY <3>1
    <3> QED
      BY <2>0, <2>1, <3>2 DEF Call, TypeOK
  <2>2. CASE Header
    BY <2>0, <2>2 DEF Header, RequestKept, BlockGiven, TypeOK
  <2>3. CASE StartThread
    BY <2>0, <2>3 DEF StartThread, Sending, Control
  <2>4. CASE ~Call /\ ~Header /\ ~StartThread
    BY <2>4 DEF Next, Caller, Thread, Peer, Check, OpenSocket, Connect, SendRestart, NestedCheck, BuildRestart,
       SendDirect, Receive, Recheck, TxWait, SpuriousWakeup, ThreadTest, ThreadArgs,
       ThreadSend, ThreadClose, ThreadFinish, Answer, Drop, Sigpipe
  <2> QED
    BY <2>1, <2>2, <2>3, <2>4
<1>2. TransferInv /\ [Next]_vars =>
        [Sending /\ Sending' => arg' = arg /\ buffer'[arg.buf] = buffer[arg.buf]]_vars
  BY <1>1
<1> QED
  BY <1>2, TransferInvHolds, PTL DEF Spec, RequestUndisturbed

\* An acknowledgement do_recv returns is the one for the message just sent.
THEOREM AcksAnswerThisMessage ==
  ASSUME NoEmptyStream
  PROVE  Spec => AckAnswersThisMessage
<1>1. ASSUME TransferInv, Receive, gotack'
      PROVE  Head(acks[tsSocket]).frame = Frames(tsSocket)
  <2>1. tsSocket # 0 /\ acks[tsSocket] # <<>> /\ mpc = "recv"
    BY <1>1 DEF Receive
  <2>2. mode = 1 /\ tsSocket \in Conns /\ acks \in [Conns -> Seq([frame : Nat, code : {0, 1}])]
    <3>1. TypeOK /\ Control
      BY <1>1 DEF TransferInv
    <3>2. tsSocket \in Conns
      BY <2>1, <3>1, TransferAssumption DEF TypeOK, Conns
    <3> QED
      BY <2>1, <3>1, <3>2 DEF TypeOK, Control
  <2>3. acks[tsSocket][1].frame = Frames(tsSocket)
    BY <1>1, <2>1, <2>2 DEF TransferInv, Acknowledgements
  <2>4. Head(acks[tsSocket]) = acks[tsSocket][1]
    BY <2>1, <2>2, HeadTailProperties
  <2> QED
    BY <2>3, <2>4
<1>2. TransferInv /\ [Next]_vars =>
        [Receive /\ gotack' => Head(acks[tsSocket]).frame = Frames(tsSocket)]_vars
  BY <1>1
<1> QED
  BY <1>2, TransferInvHolds, PTL DEF Spec, AckAnswersThisMessage

\* The two condition variables and do_recv wait only for what somebody will do: a
\* waiting caller has a request under way, a waiting send thread has none, and a
\* call in do_recv has its acknowledgement or a peer that owes it.
THEOREM WaitsStayAnswered ==
  ASSUME NoEmptyStream
  PROVE  Spec => []WaitsAreAnswered
<1>1. Init => WaitsAreAnswered
  BY DEF Init, WaitsAreAnswered
<1>2. TransferInv /\ WaitsAreAnswered /\ [Next]_vars => WaitsAreAnswered'
  BY WaitsStep
<1> QED
  BY <1>1, <1>2, TransferInvHolds, PTL DEF Spec

=============================================================================
