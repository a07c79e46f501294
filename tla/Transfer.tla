------------------------------ MODULE Transfer ------------------------------
(***************************************************************************)
(* The sending library libxfer for one stream ID (transfer.c, built with   *)
(* TSOVERLAP): the application's thread inside transferMultiTxData and the *)
(* library's Thread_Send, which share tsSocket, pthread_running and the    *)
(* request arguments.  The peer (a DataSink) is external: it takes what is *)
(* written to an open connection, answers complete messages in mode 1 and  *)
(* may drop the connection at any time.                                    *)
(*                                                                         *)
(* A critical section under M1 or M2 is one action: each flag update is    *)
(* made under the mutex its waiter holds.  A message travels as NParts     *)
(* pieces, one per send().  A file descriptor is the number of its         *)
(* connection; 0 is no connection, as in the code.                         *)
(***************************************************************************)
EXTENDS Integers, Sequences

CONSTANTS
  Modes,      \* TferMode values: 1 (acknowledged) and 3 (streamed)
  Overlaps,   \* values of OverlapMode
  Lengths,    \* "data" for length > 0, "empty" for length = 0
  NParts,     \* pieces a message may be sent in
  MaxConn,    \* bound: sockets opened
  MaxBlock    \* bound: calls of transferMultiTxData by the application

ASSUME TransferAssumption ==
  /\ Modes \subseteq {1, 3} /\ Overlaps \subseteq BOOLEAN
  /\ Lengths \subseteq {"data", "empty"}
  /\ NParts \in Nat \ {0} /\ MaxConn \in Nat /\ MaxBlock \in Nat

VARIABLES
  mode, overlap,   \* TferMode, OverlapMode: set before the first call
  \* shared by the two threads
  tsSocket, running, arg, sequence, buffer,
  \* the application's thread
  mpc, depth, block, length, msg, fd, part, ret,
  \* Thread_Send
  spc, tSocket, tBuffer, tPart,
  \* connections
  cstate, wire, acks, answered,
  \* history
  nsock, gotack, restarts

cfg     == <<mode, overlap>>
shared  == <<tsSocket, running, arg, sequence, buffer>>
nesting == <<depth, restarts>>
caller  == <<mpc, nesting, block, length, msg, fd, part, ret>>
thread  == <<spc, tSocket, tBuffer, tPart>>
network == <<cstate, wire, acks, answered>>
vars    == <<cfg, shared, caller, thread, network, nsock, gotack>>

Conns   == 1 .. MaxConn
Buffers == {0, 1}                  \* the two buffers of overlap mode
Restart == [blk |-> 0, seq |-> 0]  \* the restart message
Messages == [blk : 0 .. MaxBlock, seq : 0 .. MaxBlock]
Chunks   == [blk : 0 .. MaxBlock, seq : 0 .. MaxBlock, part : 1 .. NParts]

Chunk(m, p) == [blk |-> m.blk, seq |-> m.seq, part |-> p]

\* The application fills its buffers in turn, with block 1, 2, 3, ...
Mine == block % 2

TypeOK ==
  /\ mode \in Modes /\ overlap \in Overlaps
  /\ tsSocket \in 0 .. MaxConn /\ running \in BOOLEAN
  /\ arg \in [fd : 0 .. MaxConn, buf : Buffers]
  /\ sequence \in 0 .. MaxBlock
  /\ buffer \in [Buffers -> Messages]
  /\ mpc \in {"idle", "check", "open", "connect", "restart", "nested", "build", "send",
              "recv", "recheck", "header", "wait1", "blocked1", "start", "wait2", "blocked2",
              "killed"}
  /\ depth \in Nat
  /\ block \in 0 .. MaxBlock /\ length \in Lengths
  /\ msg \in Messages /\ fd \in 0 .. MaxConn /\ part \in 0 .. NParts
  /\ ret \in {"ok", "error", "code"}
  /\ spc \in {"test", "blocked", "args", "send", "close", "closefd", "clear", "finish",
              "killed"}
  /\ tSocket \in 0 .. MaxConn /\ tBuffer \in Buffers /\ tPart \in 0 .. NParts
  /\ cstate \in [Conns -> {"new", "fresh", "open", "dropped", "closed"}]
  /\ wire \in [Conns -> Seq(Chunks)]
  /\ acks \in [Conns -> Seq([frame : Nat, code : {0, 1}])]
  /\ answered \in [Conns -> Nat]
  /\ nsock \in 0 .. MaxConn /\ gotack \in BOOLEAN /\ restarts \in [Conns -> Nat]

Init ==
  /\ mode \in Modes /\ overlap \in Overlaps
  /\ tsSocket = 0 /\ running = FALSE /\ arg = [fd |-> 0, buf |-> 0]
  /\ sequence = 0 /\ buffer = [b \in Buffers |-> Restart]
  /\ mpc = "idle" /\ depth = 0 /\ block = 0 /\ length \in Lengths
  /\ msg = Restart /\ fd = 0 /\ part = 0 /\ ret = "ok"
  /\ spc = "test" /\ tSocket = 0 /\ tBuffer = 0 /\ tPart = 0
  /\ cstate = [c \in Conns |-> "new"] /\ wire = [c \in Conns |-> <<>>]
  /\ acks = [c \in Conns |-> <<>>] /\ answered = [c \in Conns |-> 0]
  /\ nsock = 0 /\ gotack = FALSE /\ restarts = [c \in Conns |-> 0]

-----------------------------------------------------------------------------
(* send() on descriptor s: taken, lost behind a dropped connection, or an   *)
(* error; a second write behind a dropped connection can raise SIGPIPE,     *)
(* which the library does not ignore on Linux.                              *)

IsOpen(s)    == s # 0 /\ cstate[s] = "open"
IsDropped(s) == s # 0 /\ cstate[s] = "dropped"

Taken(s, m, p) ==
  IsOpen(s) /\ wire' = [wire EXCEPT ![s] = Append(@, Chunk(m, p))]

Lost(s) == IsDropped(s) /\ UNCHANGED wire

Fails(s) == ~IsOpen(s)

\* transferMultiClose by the application's thread
CloseSocket ==
  /\ cstate' = IF tsSocket = 0 THEN cstate ELSE [cstate EXCEPT ![tsSocket] = "closed"]
  /\ tsSocket' = 0

Return(r) == mpc' = "idle" /\ ret' = r

\* A transferMultiTxRestart comes back, and nobody looks at its result: the nested
\* call behind it, or the application's, goes on with its second test of tsSocket.
RestartReturns ==
  /\ mpc' = IF depth = 0 THEN "recheck" ELSE "build"
  /\ depth' = IF depth = 0 THEN 0 ELSE depth - 1

\* A transferMultiTxData ends with r: the one that sent a restart message, or the
\* application's.
Done(r) ==
  IF msg = Restart THEN RestartReturns /\ UNCHANGED ret ELSE Return(r) /\ UNCHANGED depth

-----------------------------------------------------------------------------
(* transferMultiTxData, called by the application                           *)

\* The application filled the next buffer and calls.
Call ==
  /\ mpc = "idle" /\ block < MaxBlock
  /\ block' = block + 1 /\ length' \in Lengths
  /\ buffer' = [buffer EXCEPT ![(block + 1) % 2].blk = block + 1]
  /\ mpc' = "check"
  /\ UNCHANGED <<cfg, tsSocket, running, arg, sequence, nesting, msg, fd, part, ret, thread,
                 network, nsock, gotack>>

\* if no connection currently exists - open one
Check ==
  /\ mpc = "check"
  /\ mpc' = IF tsSocket = 0 THEN "open" ELSE "recheck"
  /\ UNCHANGED <<cfg, shared, nesting, block, length, msg, fd, part, ret, thread, network,
                 nsock, gotack>>

\* Mutant: the sequence number is not reset.
OpenSocketKeepsSequence ==
  /\ mpc = "open" /\ nsock < MaxConn
  /\ nsock' = nsock + 1
  /\ tsSocket' = nsock + 1
  /\ cstate' = [cstate EXCEPT ![nsock + 1] = "fresh"]
  /\ mpc' = "connect"
  /\ UNCHANGED <<cfg, running, arg, sequence, buffer, nesting, block, length, msg, fd, part,
                 ret, thread, wire, acks, answered, gotack>>

\* clientInit, tsOpenClient: a new socket in tsSocket before it is connected
OpenSocket ==
  /\ mpc = "open" /\ nsock < MaxConn
  /\ sequence' = 0
  /\ nsock' = nsock + 1
  /\ tsSocket' = nsock + 1
  /\ cstate' = [cstate EXCEPT ![nsock + 1] = "fresh"]
  /\ mpc' = "connect"
  /\ UNCHANGED <<cfg, running, arg, buffer, nesting, block, length, msg, fd, part, ret,
                 thread, wire, acks, answered, gotack>>

\* connect() on tsSocket.  The failing path closes it, and transferMultiTxRestart
\* finds it 0 and gives up.
Connect ==
  /\ mpc = "connect"
  /\ \/ /\ tsSocket # 0 /\ cstate[tsSocket] = "fresh"
        /\ cstate' = [cstate EXCEPT ![tsSocket] = "open"]
        /\ mpc' = "restart" /\ UNCHANGED <<tsSocket, depth>>
     \/ CloseSocket /\ RestartReturns
  /\ UNCHANGED <<cfg, running, arg, sequence, buffer, restarts, block, length, msg, fd, part,
                 ret, thread, wire, acks, answered, nsock, gotack>>

\* transferMultiTxRestart, connected: transferMultiTxData with length -1, unless the
\* send thread has cleared tsSocket.
SendRestart ==
  /\ mpc = "restart"
  /\ IF tsSocket = 0 THEN RestartReturns ELSE mpc' = "nested" /\ UNCHANGED depth
  /\ UNCHANGED <<cfg, shared, restarts, block, length, msg, fd, part, ret, thread, network,
                 nsock, gotack>>

\* The nested call tests as any does: cleared by now, it opens another connection.
NestedCheck ==
  /\ mpc = "nested"
  /\ IF tsSocket = 0 THEN mpc' = "open" /\ depth' = depth + 1
                     ELSE mpc' = "build" /\ UNCHANGED depth
  /\ UNCHANGED <<cfg, shared, restarts, block, length, msg, fd, part, ret, thread, network,
                 nsock, gotack>>

\* Its second test, the restart message and the descriptor for do_send; cleared
\* between the test and the read of the descriptor, do_send fails with it.
BuildRestart ==
  /\ mpc = "build"
  /\ IF tsSocket = 0
     THEN RestartReturns /\ UNCHANGED <<msg, fd, part, restarts>>
     ELSE /\ mpc' = "send" /\ msg' = Restart /\ fd' = tsSocket /\ part' = 0
          /\ restarts' = [restarts EXCEPT ![tsSocket] = @ + 1] /\ UNCHANGED depth
  /\ UNCHANGED <<cfg, shared, block, length, ret, thread, network, nsock, gotack>>

\* Mutant: nobody waits for the acknowledgement of a restart message.
SentRestartUnacked ==
  IF mode = 1 /\ msg # Restart THEN mpc' = "recv" /\ UNCHANGED <<ret, depth>> ELSE Done("ok")

\* Where a direct send ends: at the acknowledgement, or it is done.
Sent == IF mode = 1 THEN mpc' = "recv" /\ UNCHANGED <<ret, depth>> ELSE Done("ok")

\* do_send by the application's thread, one piece
SendDirect ==
  /\ mpc = "send"
  /\ \/ /\ Taken(fd, msg, part + 1) \/ Lost(fd)
        /\ part' = part + 1
        /\ IF part + 1 = NParts THEN Sent ELSE UNCHANGED <<mpc, ret, depth>>
        /\ UNCHANGED <<tsSocket, cstate>>
     \/ /\ Fails(fd)
        /\ CloseSocket /\ Done("error")
        /\ UNCHANGED <<part, wire>>
  /\ UNCHANGED <<cfg, running, arg, sequence, buffer, restarts, block, length, msg, fd,
                 thread, acks, answered, nsock, gotack>>

\* do_recv of the acknowledgement.  At the end of the stream it leaves its
\* loop and returns the full length with Ack not (completely) written.
Receive ==
  /\ mpc = "recv"
  /\ \/ /\ tsSocket # 0 /\ acks[tsSocket] # <<>>
        /\ acks' = [acks EXCEPT ![tsSocket] = Tail(@)]
        /\ gotack' = TRUE
        /\ Done(IF Head(acks[tsSocket]).code = 0 THEN "ok" ELSE "code")
        /\ UNCHANGED <<tsSocket, cstate>>
     \/ /\ IsDropped(tsSocket) /\ acks[tsSocket] = <<>>
        /\ gotack' = FALSE
        /\ \E r \in {"ok", "code"} : Done(r)
        /\ UNCHANGED <<tsSocket, cstate, acks>>
     \/ /\ ~IsOpen(tsSocket)
        /\ gotack' = FALSE
        /\ CloseSocket /\ Done("error")
        /\ UNCHANGED acks
  /\ UNCHANGED <<cfg, running, arg, sequence, buffer, restarts, block, length, msg, fd, part,
                 thread, wire, answered, nsock>>

\* the application's second test: if (tsSocket[ID] == 0) return ERROR
Recheck ==
  /\ mpc = "recheck"
  /\ IF tsSocket = 0 THEN Return("error") ELSE mpc' = "header" /\ UNCHANGED ret
  /\ UNCHANGED <<cfg, shared, nesting, block, length, msg, fd, part, thread, network,
                 nsock, gotack>>

\* The block's header, in the 32 bytes before the data, and the choice of path.
Header ==
  /\ mpc = "header"
  /\ buffer' = [buffer EXCEPT ![Mine].seq = sequence]
  /\ sequence' = sequence + 1
  /\ IF length = "data" /\ mode # 1
     THEN mpc' = "wait1" /\ UNCHANGED <<msg, fd, part>>
     ELSE mpc' = "send" /\ msg' = buffer'[Mine] /\ fd' = tsSocket /\ part' = 0
  /\ UNCHANGED <<cfg, tsSocket, running, arg, nesting, block, length, ret, thread, network,
                 nsock, gotack>>

\* Mutant: the wait before the hand-over is dropped.
TxWaitOnlyAfter ==
  /\ \/ mpc = "wait1" /\ mpc' = "start" /\ UNCHANGED ret
     \/ mpc = "wait2" /\ IF running THEN mpc' = "blocked2" /\ UNCHANGED ret ELSE Return("ok")
  /\ UNCHANGED <<cfg, shared, nesting, block, length, msg, fd, part, thread, network,
                 nsock, gotack>>

\* transferMultiTxWait: test pthread_running under M2, wait on C2
TxWait ==
  /\ \/ mpc = "wait1" /\ mpc' = (IF running THEN "blocked1" ELSE "start") /\ UNCHANGED ret
     \/ mpc = "wait2" /\ IF running THEN mpc' = "blocked2" /\ UNCHANGED ret ELSE Return("ok")
  /\ UNCHANGED <<cfg, shared, nesting, block, length, msg, fd, part, thread, network,
                 nsock, gotack>>

\* A wait on C2 may also end without a signal.
SpuriousWakeup ==
  /\ \/ mpc = "blocked1" /\ mpc' = "wait1"
     \/ mpc = "blocked2" /\ mpc' = "wait2"
  /\ UNCHANGED <<cfg, shared, nesting, block, length, msg, fd, part, ret, thread, network,
                 nsock, gotack>>

\* do_send_thread: the arguments, the flag and the signal of C1, under M1
StartThread ==
  /\ mpc = "start"
  /\ arg' = [fd |-> tsSocket, buf |-> Mine]
  /\ running' = TRUE
  /\ spc' = IF spc = "blocked" THEN "test" ELSE spc
  /\ IF overlap THEN Return("ok") ELSE mpc' = "wait2" /\ UNCHANGED ret
  /\ UNCHANGED <<cfg, tsSocket, sequence, buffer, nesting, block, length, msg, fd, part,
                 tSocket, tBuffer, tPart, network, nsock, gotack>>

Caller == Check \/ OpenSocket \/ Connect \/ SendRestart \/ NestedCheck
          \/ BuildRestart \/ SendDirect \/ Receive \/ Recheck
          \/ Header \/ TxWait \/ StartThread

-----------------------------------------------------------------------------
(* Thread_Send                                                              *)

\* test pthread_running under M1, wait on C1
ThreadTest ==
  /\ spc = "test"
  /\ spc' = IF running THEN "args" ELSE "blocked"
  /\ UNCHANGED <<cfg, shared, caller, tSocket, tBuffer, tPart, network, nsock, gotack>>

\* Mutant: the block pointer of the request is not picked up.
ThreadArgsStale ==
  /\ spc = "args"
  /\ tSocket' = arg.fd /\ tPart' = 0
  /\ spc' = "send"
  /\ UNCHANGED <<cfg, shared, caller, tBuffer, network, nsock, gotack>>

\* the request arguments, read after M1 was released
ThreadArgs ==
  /\ spc = "args"
  /\ tSocket' = arg.fd /\ tBuffer' = arg.buf /\ tPart' = 0
  /\ spc' = "send"
  /\ UNCHANGED <<cfg, shared, caller, network, nsock, gotack>>

\* one send(); what leaves is what the buffer holds at that moment
ThreadSend ==
  /\ spc = "send"
  /\ \/ /\ Taken(tSocket, buffer[tBuffer], tPart + 1) \/ Lost(tSocket)
        /\ tPart' = tPart + 1
        /\ spc' = IF tPart + 1 = NParts THEN "finish" ELSE "send"
     \/ Fails(tSocket) /\ spc' = "close" /\ UNCHANGED <<tPart, wire>>
  /\ UNCHANGED <<cfg, shared, caller, tSocket, tBuffer, cstate, acks, answered, nsock, gotack>>

\* transferMultiClose by the send thread: test, close() and reset are apart
ThreadClose ==
  /\ \/ spc = "close" /\ spc' = (IF tsSocket = 0 THEN "finish" ELSE "closefd")
        /\ UNCHANGED <<cstate, tsSocket>>
     \/ spc = "closefd" /\ spc' = "clear"
        /\ cstate' = (IF tsSocket = 0 THEN cstate ELSE [cstate EXCEPT ![tsSocket] = "closed"])
        /\ UNCHANGED tsSocket
     \/ spc = "clear" /\ spc' = "finish" /\ tsSocket' = 0 /\ UNCHANGED cstate
  /\ UNCHANGED <<cfg, running, arg, sequence, buffer, caller, tSocket, tBuffer, tPart,
                 wire, acks, answered, nsock, gotack>>

\* Mutant: the flag is cleared without signalling C2.
ThreadFinishSilent ==
  /\ spc = "finish"
  /\ running' = FALSE
  /\ spc' = "test"
  /\ UNCHANGED <<cfg, tsSocket, arg, sequence, buffer, caller,
                 tSocket, tBuffer, tPart, network, nsock, gotack>>

\* clear the flag and signal C2, under M2
ThreadFinish ==
  /\ spc = "finish"
  /\ running' = FALSE
  /\ mpc' = CASE mpc = "blocked1" -> "wait1" [] mpc = "blocked2" -> "wait2" [] OTHER -> mpc
  /\ spc' = "test"
  /\ UNCHANGED <<cfg, tsSocket, arg, sequence, buffer, nesting, block, length, msg, fd, part,
                 ret, tSocket, tBuffer, tPart, network, nsock, gotack>>

Thread == ThreadTest \/ ThreadArgs \/ ThreadSend \/ ThreadClose \/ ThreadFinish

-----------------------------------------------------------------------------
(* The peer and the kernel                                                  *)

Frames(c) == Len(wire[c]) \div NParts

\* The sink answers a complete message, in mode 1 only (hdr_flags).
Answer(c) ==
  /\ mode = 1 /\ cstate[c] = "open" /\ answered[c] < Frames(c)
  /\ answered' = [answered EXCEPT ![c] = Frames(c)]
  /\ \E code \in {0, 1} :
       acks' = [acks EXCEPT ![c] = Append(@, [frame |-> Frames(c), code |-> code])]
  /\ UNCHANGED <<cfg, shared, caller, thread, cstate, wire, nsock, gotack>>

\* The peer closes connections or dies, or the network resets them: one, or all at
\* once.  A connection the thread has cleared from tsSocket without closing it
\* (transferMultiClose is not atomic) may be open beside the one in use.
Drop(C) ==
  /\ C # {} /\ \A c \in C : cstate[c] = "open"
  /\ cstate' = [c \in Conns |-> IF c \in C THEN "dropped" ELSE cstate[c]]
  /\ UNCHANGED <<cfg, shared, caller, thread, wire, acks, answered, nsock, gotack>>

\* SIGPIPE ends the whole process.
Sigpipe ==
  /\ \/ mpc = "send" /\ IsDropped(fd)
     \/ spc = "send" /\ IsDropped(tSocket)
  /\ mpc' = "killed" /\ spc' = "killed"
  /\ UNCHANGED <<cfg, shared, nesting, block, length, msg, fd, part, ret, tSocket, tBuffer,
                 tPart, network, nsock, gotack>>

Peer == (\E c \in Conns : Answer(c)) \/ (\E C \in SUBSET Conns : Drop(C))

Next == Call \/ Caller \/ SpuriousWakeup \/ Thread \/ Peer \/ Sigpipe

Spec == Init /\ [][Next]_vars

\* Both threads are scheduled, the kernel takes what is written to an open
\* connection, and a sink answers what it was sent.
FairSpec ==
  /\ Spec
  /\ WF_vars(Caller) /\ WF_vars(Thread)
  /\ \A c \in Conns : WF_vars(Answer(c))

-----------------------------------------------------------------------------
(* Properties                                                               *)

\* restart messages a connection may carry
MaxRestarts == IF overlap THEN 2 ELSE 1

\* What reaches a connection is its restart message and then whole blocks with
\* sequence numbers 0, 1, 2, ...: the pieces of two messages never mix although
\* two threads write to the socket and the caller reuses its buffers.  In overlap
\* mode the restart message may come twice, when the send thread clears tsSocket
\* under the nested call.
WireFramed ==
  \A c \in Conns : \A k \in 1 .. Len(wire[c]) :
    LET frame == (k - 1) \div NParts
        first == wire[c][frame * NParts + 1]
    IN  /\ wire[c][k] = Chunk(first, ((k - 1) % NParts) + 1)
        /\ restarts[c] \in 1 .. MaxRestarts
        /\ (frame < restarts[c]) <=> (first.blk = 0)
        /\ frame >= restarts[c] => first.seq = frame - restarts[c]

\* No block is on two connections and blocks are in the order of the calls: a
\* reconnection never sends again what an earlier call was given.
NeverResent ==
  \A c, d \in Conns : \A j \in 1 .. Len(wire[c]), k \in 1 .. Len(wire[d]) :
    /\ c < d /\ wire[c][j].blk # 0 /\ wire[d][k].blk # 0 => wire[c][j].blk < wire[d][k].blk
    /\ c = d /\ j < k => wire[c][j].blk <= wire[d][k].blk

\* Until the send thread is done with a request on a connection, its arguments
\* and its buffer stay as they were handed over: the caller, even after calls
\* that failed, writes only its second buffer.
Sending == running /\ arg.fd # 0 /\ spc \in {"test", "blocked", "args", "send"}

RequestUndisturbed ==
  [][Sending /\ Sending' =>
       arg' = arg /\ buffer'[arg.buf] = buffer[arg.buf]]_vars

\* An acknowledgement read in mode 1 answers the message just sent, not an
\* earlier one, across drops and reconnections.
AckAnswersThisMessage ==
  [][Receive /\ gotack' => Head(acks[tsSocket]).frame = Frames(tsSocket)]_vars

\* Nobody waits for what nobody will do.  A caller waits on C2 only while a request
\* is under way, the send thread on C1 only while there is none; and who waits in
\* recv for an acknowledgement has sent the peer a message it has not answered, or
\* the answer is there.  (What fairness adds to it is CallReturns.)
WaitsAreAnswered ==
  /\ mpc \in {"blocked1", "blocked2"} => running
  /\ spc = "blocked" => ~running
  /\ mpc = "recv" /\ IsOpen(tsSocket) =>
       acks[tsSocket] # <<>> \/ answered[tsSocket] < Frames(tsSocket)

\* The two condition variables lose no wakeup: every call comes back (or stands
\* at the bound on sockets, which the program does not have).
CallReturns ==
  mpc # "idle" ~> (mpc \in {"idle", "killed"} \/ (mpc = "open" /\ nsock = MaxConn))

(* What the comments of transfer.c say                                      *)

\* transfer.c:871 a call first opens a connection if none exists, so what it
\* hands to the send thread goes to a connection.
HandsOverConnection ==
  [][StartThread => tsSocket # 0]_vars

\* transfer.c:912 mode = 1 requires ACK for each request, transfer.c:974 the
\* call waits for it: OK is returned for an acknowledgement that arrived.
OkMeansAcknowledged ==
  mode = 1 /\ mpc = "idle" /\ ret = "ok" /\ block > 0 => gotack

\* transfer.c:950 the caller sends directly when threads are not in use or an
\* acknowledgement is required, so never beside a pending request.
SendsAlone ==
  mpc = "send" /\ spc = "send" => fd # tSocket

-----------------------------------------------------------------------------
(* The inductive invariant behind the wire, the requests and the            *)
(* acknowledgements, when no call streams an empty block                    *)

\* a call is inside transferMultiTxRestart
Opening ==
  \/ mpc \in {"open", "connect", "restart", "nested", "build"}
  \/ mpc \in {"send", "recv"} /\ msg = Restart

\* the call is before its block is sent or handed over
BeforeBlock == Opening \/ mpc \in {"check", "recheck", "header"}

\* the header is written and the block not yet handed over
HeaderWritten == mpc \in {"wait1", "blocked1", "start"}

\* the block of the last call is sent or handed over
BlockGiven == mpc \in {"idle", "wait2", "blocked2"}

\* Where the two threads can be together, and the connections they know.
Control ==
  /\ mpc = "killed" <=> spc = "killed"
  /\ mode = 1 => ~running /\ ~HeaderWritten /\ mpc \notin {"wait2", "blocked2"}
  /\ mode # 1 => length = "data" /\ mpc # "recv" /\ (mpc = "send" => msg = Restart)
  /\ mpc = "start" => ~running
  /\ mpc = "open" => tsSocket = 0
  /\ mpc = "send" => part < NParts /\ tsSocket \in {0, fd}
  /\ spc \notin {"test", "blocked", "killed"} => running
  /\ spc = "send" => tSocket = arg.fd /\ tBuffer = arg.buf /\ tPart < NParts
  /\ spc \in {"close", "closefd", "clear"} => ~IsOpen(arg.fd)

\* A connection is written to only after it is connected; the library knows the
\* last one it opened or none.
Sockets ==
  /\ tsSocket \in {0, nsock} /\ (mpc = "send" => fd \in {0, nsock})
  /\ \A c \in Conns : c > nsock => cstate[c] = "new"
  /\ \A c \in Conns : cstate[c] \in {"new", "fresh"} =>
       wire[c] = <<>> /\ acks[c] = <<>> /\ answered[c] = 0
  /\ tsSocket # 0 /\ mpc # "connect" => cstate[tsSocket] \notin {"new", "fresh"} \/ mpc = "killed"
  /\ running /\ arg.fd # 0 => cstate[arg.fd] \notin {"new", "fresh"}

\* The next call waits for the request before it touches the request's buffer.
RequestKept ==
  Sending => /\ tsSocket = arg.fd
             /\ BlockGiven \/ mpc \in {"check", "recheck", "header", "wait1", "blocked1"}
             /\ arg.buf = Mine <=> BlockGiven

\* the send thread leaves the socket alone
ThreadDone == running => spc = "finish"

\* Only overlap mode nests, once: by then the request that cleared tsSocket is over.
Nested ==
  /\ ~overlap /\ running => mpc \in {"wait2", "blocked2", "killed"}
  /\ depth > 0 => depth = 1 /\ overlap /\ (mpc # "killed" => Opening /\ ThreadDone)
  /\ mpc = "nested" /\ tsSocket = 0 => depth = 0 /\ overlap /\ ThreadDone

\* restart messages still to come on the connection in use
ToCome == IF mpc \in {"connect", "restart", "nested", "build"} THEN depth + 1 ELSE depth

\* Restart messages come before the first block.
Restarted ==
  /\ \A c \in Conns : cstate[c] \in {"new", "fresh"} => restarts[c] = 0
  /\ \A c \in Conns : mpc # "killed" /\ (c = tsSocket \/ (mpc = "send" /\ c = fd)) =>
       /\ restarts[c] + ToCome <= MaxRestarts
       /\ restarts[c] >= 1 \/ mpc \in {"connect", "restart", "nested", "build"}
       /\ Opening => \A j \in 1 .. Len(wire[c]) : wire[c][j].blk = 0

\* p pieces of message m stand on connection c behind f whole messages.
OnWire(c, m, p, f) ==
  /\ Len(wire[c]) = f * NParts + p
  /\ p > 0 => wire[c][f * NParts + 1] = Chunk(m, 1)
  /\ f < restarts[c] <=> m.blk = 0
  /\ f >= restarts[c] => m.seq = f - restarts[c]

\* blocks sent or handed over on the connection in use
Given == IF HeaderWritten THEN sequence - 1 ELSE sequence

\* messages sent or handed over on it
Whole == Given + restarts[tsSocket]

\* messages before the one the caller is sending
Ahead == sequence + restarts[fd] - 1

\* The sequence numbers, and how far the caller's own message is.
Progress ==
  /\ Opening /\ mpc # "open" => sequence = 0
  /\ mpc = "send" /\ IsOpen(fd) => OnWire(fd, msg, part, Ahead)
  /\ HeaderWritten => sequence > 0 /\ buffer[Mine].seq = sequence - 1

\* pieces of the request the send thread has written
Written == IF spc = "send" THEN tPart ELSE 0

\* What the connection in use carries while the caller itself sends nothing.
Carried ==
  mpc \notin {"connect", "send", "killed"} /\ IsOpen(tsSocket) =>
    IF Sending THEN Given > 0 /\ OnWire(tsSocket, buffer[arg.buf], Written, Whole - 1)
               ELSE Len(wire[tsSocket]) = Whole * NParts

\* the block number of the request under way
Requested == IF BlockGiven THEN block ELSE block - 1

\* The numbers of the blocks the caller and the request hold.
Numbers ==
  /\ BeforeBlock \/ HeaderWritten => block > 0 /\ buffer[Mine].blk = block
  /\ BeforeBlock => sequence < block
  /\ sequence <= block
  /\ mpc \in {"send", "recv"} /\ msg # Restart => msg.blk = block /\ block > 0
  /\ Sending => buffer[arg.buf].blk = Requested /\ Requested > 0

\* Block b on connection c is not ahead of the calls, nor of the request when
\* that goes to another connection.
NotAhead(c, b) ==
  /\ b <= block
  /\ BeforeBlock \/ HeaderWritten => b < block
  /\ mpc = "send" /\ msg # Restart /\ c # fd => b < block
  /\ Sending => b <= Requested
  /\ Sending /\ c # arg.fd => b < Requested

BlocksInOrder == \A c \in Conns : \A j \in 1 .. Len(wire[c]) : NotAhead(c, wire[c][j].blk)

\* In mode 1 an acknowledgement waits only for the call that receives it.
Acknowledgements ==
  mode = 1 /\ tsSocket # 0 =>
    /\ mpc \notin {"recv", "killed"} =>
         acks[tsSocket] = <<>> /\ (IsOpen(tsSocket) => answered[tsSocket] = Frames(tsSocket))
    /\ mpc = "recv" /\ acks[tsSocket] # <<>> =>
         /\ Len(acks[tsSocket]) = 1 /\ acks[tsSocket][1].frame = Frames(tsSocket)
         /\ answered[tsSocket] = Frames(tsSocket)

TransferInv ==
  /\ TypeOK /\ Control /\ Sockets /\ RequestKept /\ Nested /\ Restarted /\ Progress /\ Carried
  /\ Numbers /\ BlocksInOrder /\ Acknowledgements /\ WireFramed /\ NeverResent

\* No streaming caller sends an empty block: that one goes out beside the send
\* thread (the finding of SendsAlone).
NoEmptyStream == "empty" \notin Lengths \/ Modes \subseteq {1}

=============================================================================
