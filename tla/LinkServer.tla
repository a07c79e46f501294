----------------------------- MODULE LinkServer -----------------------------
(***************************************************************************)
(* The server loop of DataSink (link_server.cpp): one thread serves all    *)
(* ports with select, accepts one client at a time per port, reassembles   *)
(* fixed-size blocks in data_buffer and hands them to ts_data_transfer.    *)
(* The clients and the kernel are external.                                *)
(*                                                                         *)
(* A message travels in pieces of 1024 bytes: the restart message is one   *)
(* piece, a block is BlockPieces.  File descriptors are numbers, and       *)
(* accept() returns the lowest free one, as POSIX requires.  The accepted  *)
(* sockets are blocking (O_NONBLOCK is set on the listening ones only).    *)
(***************************************************************************)
EXTENDS Integers, Sequences

CONSTANTS
  NPorts,       \* ports in use (Tcp_Port not 0)
  NConns,       \* bound: connections the clients open
  BlockPieces,  \* the block size a client announces, in pieces
  MaxBlocks     \* bound: blocks a client sends

ASSUME LinkAssumption ==
  /\ NPorts \in Nat \ {0} /\ NConns \in Nat \ {0}
  /\ BlockPieces \in Nat \ {0} /\ MaxBlocks \in Nat

Ports == 0 .. NPorts - 1
Conns == 1 .. NConns

VARIABLES
  \* the server's globals
  SocketConnected, msg_socket, TransferSize, Done, ReadEnable, ACKneeded, data_buffer,
  \* the loop: the results of select, the port and the stage of its turn
  pc, port, listenfds, readfds, writefds,
  \* kernel and clients
  fdconn,       \* fdconn[f]: connection behind descriptor f, 0 when f is free
  backlog,      \* connections waiting in accept
  cport, cmode, cstate, sent, inq, acked,
  \* history
  handled, stored

server  == <<SocketConnected, msg_socket, TransferSize, Done, ReadEnable, ACKneeded,
             data_buffer>>
loop    == <<pc, port, listenfds, readfds, writefds>>
clients == <<cport, cmode, cstate, sent>>
vars    == <<server, loop, fdconn, backlog, clients, inq, acked, handled, stored>>

Fds == 1 .. NConns

\* Piece p of block b of connection c; block 0 is the restart message.
Piece(c, b, p) == [conn |-> c, blk |-> b, part |-> p]
Pieces == [conn : Conns, blk : 0 .. MaxBlocks, part : 1 .. BlockPieces]
NoPiece == Piece(0, 0, 0)

RestartSize == 1                \* 1024 bytes, in pieces

TypeOK ==
  /\ SocketConnected \in [Ports -> {0, 1, 2}]
  /\ msg_socket \in [Ports -> Fds \cup {0}]
  /\ TransferSize \in [Ports -> {RestartSize, BlockPieces}]
  /\ Done \in [Ports -> 0 .. BlockPieces]
  /\ ReadEnable \in [Ports -> BOOLEAN] /\ ACKneeded \in [Ports -> BOOLEAN]
  /\ data_buffer \in [Ports -> [1 .. BlockPieces -> Pieces \cup {NoPiece}]]
  /\ pc \in {"select", "listen", "read", "write", "killed"} /\ port \in Ports
  /\ listenfds \subseteq Ports /\ readfds \subseteq Fds /\ writefds \subseteq Fds
  /\ fdconn \in [Fds -> Conns \cup {0}]
  /\ backlog \in [Ports -> Seq(Conns)]
  /\ cport \in [Conns -> Ports] /\ cmode \in [Conns -> {1, 3}]
  /\ cstate \in [Conns -> {"new", "open", "finished", "refused"}]
  /\ sent \in [Conns -> 0 .. RestartSize + MaxBlocks * BlockPieces]
  /\ inq \in [Conns -> Seq(Pieces)] /\ acked \in [Conns -> 0 .. MaxBlocks + 1]
  /\ handled \in [Conns -> 0 .. MaxBlocks + 1]
  /\ stored \in [Ports -> Seq([1 .. BlockPieces -> Pieces \cup {NoPiece}])]

\* link_server after StartUp_Socket of every port
Init ==
  /\ SocketConnected = [i \in Ports |-> 0] /\ msg_socket = [i \in Ports |-> 0]
  /\ TransferSize = [i \in Ports |-> BlockPieces] /\ Done = [i \in Ports |-> 0]
  /\ ReadEnable = [i \in Ports |-> FALSE] /\ ACKneeded = [i \in Ports |-> FALSE]
  /\ data_buffer = [i \in Ports |-> [p \in 1 .. BlockPieces |-> NoPiece]]
  /\ pc = "select" /\ port = 0 /\ listenfds = {} /\ readfds = {} /\ writefds = {}
  /\ fdconn = [f \in Fds |-> 0] /\ backlog = [i \in Ports |-> <<>>]
  /\ cport \in [Conns -> Ports] /\ cmode \in [Conns -> {1, 3}]
  /\ cstate = [c \in Conns |-> "new"] /\ sent = [c \in Conns |-> 0]
  /\ inq = [c \in Conns |-> <<>>] /\ acked = [c \in Conns |-> 0]
  /\ handled = [c \in Conns |-> 0] /\ stored = [i \in Ports |-> <<>>]

-----------------------------------------------------------------------------
(* Descriptors                                                              *)

ConnOf(i) == fdconn[msg_socket[i]]          \* the connection of a served port

LowestFree(tab) == CHOOSE f \in Fds : tab[f] = 0 /\ \A g \in Fds : g < f => tab[g] # 0

Closed(tab, f) == [tab EXCEPT ![f] = 0]

\* recv() would return at once: data, the end of the stream or an error
Readable(c) == inq[c] # <<>> \/ cstate[c] = "finished"

-----------------------------------------------------------------------------
(* The loop of link_server                                                  *)

\* Ports whose client is gone listen again, the sets are built, and select
\* returns as soon as something is ready.
Select ==
  LET connected == [i \in Ports |-> IF SocketConnected[i] = 0 THEN 1 ELSE SocketConnected[i]]
      again     == {i \in Ports : SocketConnected[i] = 0}
      served    == {i \in Ports : connected[i] = 2}
      listens   == {i \in Ports : backlog[i] # <<>>}
      reads     == {i \in served : ReadEnable[i] /\ Readable(ConnOf(i))}
      writes    == {i \in served : ACKneeded[i]}
  IN  /\ pc = "select"
      /\ listens \cup reads \cup writes # {}
      /\ SocketConnected' = connected
      /\ ReadEnable' = [i \in Ports |-> i \notin again /\ ReadEnable[i]]
      /\ ACKneeded' = [i \in Ports |-> i \notin again /\ ACKneeded[i]]
      /\ listenfds' = listens
      /\ readfds' = {msg_socket[i] : i \in reads}
      /\ writefds' = {msg_socket[i] : i \in writes}
      /\ pc' = "listen" /\ port' = 0
      /\ UNCHANGED <<msg_socket, TransferSize, Done, data_buffer, fdconn, backlog, clients,
                     inq, acked, handled, stored>>

(* Mutants of the two definitions below. *)
DroppedLeaks == fdconn                            \* close() missing

ResetKeepsAck ==                                  \* ACKneeded not cleared
  /\ TransferSize' = [TransferSize EXCEPT ![port] = RestartSize]
  /\ Done' = [Done EXCEPT ![port] = 0]
  /\ ReadEnable' = [ReadEnable EXCEPT ![port] = TRUE]
  /\ UNCHANGED ACKneeded

ResetKeepsSize ==                                 \* the old block size stays
  /\ ACKneeded' = [ACKneeded EXCEPT ![port] = FALSE]
  /\ Done' = [Done EXCEPT ![port] = 0]
  /\ ReadEnable' = [ReadEnable EXCEPT ![port] = TRUE]
  /\ UNCHANGED TransferSize

ResetNeverReads ==                                \* ReadEnable not set
  /\ ACKneeded' = [ACKneeded EXCEPT ![port] = FALSE]
  /\ TransferSize' = [TransferSize EXCEPT ![port] = RestartSize]
  /\ Done' = [Done EXCEPT ![port] = 0]
  /\ UNCHANGED ReadEnable

\* descriptors once the previous client of the port is dropped
Dropped == IF SocketConnected[port] = 2 THEN Closed(fdconn, msg_socket[port]) ELSE fdconn

\* A new client starts with the restart message, nothing read, no
\* acknowledgement owed.
ResetPort ==
  /\ ACKneeded' = [ACKneeded EXCEPT ![port] = FALSE]
  /\ TransferSize' = [TransferSize EXCEPT ![port] = RestartSize]
  /\ Done' = [Done EXCEPT ![port] = 0]
  /\ ReadEnable' = [ReadEnable EXCEPT ![port] = TRUE]

\* Listen_Socket: the previous client is dropped and the next one accepted.
Accept ==
  LET f == LowestFree(Dropped)
  IN  /\ fdconn' = [Dropped EXCEPT ![f] = Head(backlog[port])]
      /\ msg_socket' = [msg_socket EXCEPT ![port] = f]
      /\ backlog' = [backlog EXCEPT ![port] = Tail(@)]
      /\ SocketConnected' = [SocketConnected EXCEPT ![port] = 2]
      /\ ResetPort
      /\ UNCHANGED data_buffer

ListenTurn ==
  /\ pc = "listen"
  /\ IF port \in listenfds THEN Accept ELSE UNCHANGED <<server, fdconn, backlog>>
  /\ pc' = "read"
  /\ UNCHANGED <<port, listenfds, readfds, writefds, clients, inq, acked, handled, stored>>

\* Is it this port's turn to read (write) by what select returned?
ReadSelected  == SocketConnected[port] = 2 /\ ReadEnable[port] /\ msg_socket[port] \in readfds
WriteSelected == SocketConnected[port] = 2 /\ ACKneeded[port] /\ msg_socket[port] \in writefds

\* ReadBlock found the end of the stream or an error.
Disconnect ==
  /\ fdconn' = Closed(fdconn, msg_socket[port])
  /\ SocketConnected' = [SocketConnected EXCEPT ![port] = 0]

\* mutant of the next definition: Done is not reset
BetweenKeepsDone == Done' = [Done EXCEPT ![port] = TransferSize[port]]

Between == Done' = [Done EXCEPT ![port] = 0]

\* A message of TransferSize pieces is complete: the restart message announces
\* the block size, anything else goes to ts_data_transfer.
Complete(block) ==
  /\ IF block[1].blk = 0
     THEN TransferSize' = [TransferSize EXCEPT ![port] = BlockPieces] /\ UNCHANGED stored
     ELSE stored' = [stored EXCEPT ![port] = Append(@, block)] /\ UNCHANGED TransferSize
  /\ Between
  /\ ACKneeded' = [ACKneeded EXCEPT ![port] = @ \/ cmode[ConnOf(port)] = 1]
  /\ handled' = [handled EXCEPT ![ConnOf(port)] = @ + 1]

\* Read_Socket after recv returned n pieces
Received(n) ==
  LET c     == ConnOf(port)
      d     == Done[port]
      block == [p \in 1 .. BlockPieces |->
                  IF p \in d + 1 .. d + n THEN inq[c][p - d] ELSE data_buffer[port][p]]
  IN  /\ inq' = [inq EXCEPT ![c] = SubSeq(@, n + 1, Len(@))]
      /\ data_buffer' = [data_buffer EXCEPT ![port] = block]
      /\ IF d + n < TransferSize[port]
         THEN /\ Done' = [Done EXCEPT ![port] = d + n]
              /\ UNCHANGED <<TransferSize, ACKneeded, handled, stored>>
         ELSE Complete(block)

\* Read_Socket.  With nothing to receive recv blocks, and this step with it.
ReadTurn ==
  /\ pc = "read"
  /\ IF ReadSelected
     THEN LET c == ConnOf(port) IN
          /\ Readable(c)
          /\ \/ \E n \in 1 .. TransferSize[port] - Done[port] :
                  n <= Len(inq[c]) /\ Received(n) /\ UNCHANGED <<fdconn, SocketConnected>>
             \/ /\ inq[c] = <<>> /\ Disconnect
                /\ UNCHANGED <<inq, Done, data_buffer, TransferSize, ACKneeded, handled, stored>>
     ELSE UNCHANGED <<fdconn, server, inq, handled, stored>>
  /\ pc' = "write"
  /\ UNCHANGED <<msg_socket, ReadEnable, port, listenfds, readfds, writefds, backlog, clients,
                 acked>>

\* The sets are dead after the last port; the loop zeroes them.
NextPort ==
  IF port + 1 \in Ports
  THEN port' = port + 1 /\ pc' = "listen" /\ UNCHANGED <<listenfds, readfds, writefds>>
  ELSE port' = 0 /\ pc' = "select" /\ listenfds' = {} /\ readfds' = {} /\ writefds' = {}

Acknowledged == ACKneeded' = [ACKneeded EXCEPT ![port] = FALSE]

\* Write_Socket: the acknowledgement.  When the client is gone the send may
\* still succeed, fail, or raise SIGPIPE, which nothing catches.
WriteTurn ==
  /\ pc = "write"
  /\ IF WriteSelected
     THEN LET c == ConnOf(port) IN
          \/ /\ acked' = [acked EXCEPT ![c] = @ + 1]
             /\ Acknowledged
             /\ UNCHANGED <<fdconn, SocketConnected>>
          \/ cstate[c] = "finished" /\ Disconnect /\ UNCHANGED <<acked, ACKneeded>>
     ELSE UNCHANGED <<acked, ACKneeded, fdconn, SocketConnected>>
  /\ NextPort
  /\ UNCHANGED <<msg_socket, TransferSize, Done, ReadEnable, data_buffer, backlog, clients, inq, handled, stored>>

Sigpipe ==
  /\ pc = "write" /\ WriteSelected /\ cstate[ConnOf(port)] = "finished"
  /\ pc' = "killed"
  /\ UNCHANGED <<server, port, listenfds, readfds, writefds, fdconn, backlog, clients, inq,
                 acked, handled, stored>>

Server == Select \/ ListenTurn \/ ReadTurn \/ WriteTurn

-----------------------------------------------------------------------------
(* Clients: a restart message, then blocks; in mode 1 a message waits for   *)
(* the acknowledgement of the one before.                                   *)

Connect(c) ==
  /\ cstate[c] = "new" /\ \A d \in Conns : d < c => cstate[d] # "new"
  /\ cstate' = [cstate EXCEPT ![c] = "open"]
  /\ backlog' = [backlog EXCEPT ![cport[c]] = Append(@, c)]
  /\ UNCHANGED <<server, loop, fdconn, cport, cmode, sent, inq, acked, handled, stored>>

\* messages the client has completely sent, and the piece it sends next
MessagesSent(c) == IF sent[c] = 0 THEN 0 ELSE 1 + (sent[c] - 1) \div BlockPieces

\* the piece of c after n others
PieceAt(c, n) ==
  IF n = 0 THEN Piece(c, 0, 1)
  ELSE Piece(c, 1 + (n - 1) \div BlockPieces, 1 + ((n - 1) % BlockPieces))

\* The server still has, or will have, a descriptor for c.
Reachable(c) == \/ \E f \in Fds : fdconn[f] = c
                \/ \E k \in 1 .. Len(backlog[cport[c]]) : backlog[cport[c]][k] = c

SendPiece(c) ==
  /\ cstate[c] = "open" /\ Reachable(c)
  /\ sent[c] < RestartSize + MaxBlocks * BlockPieces
  /\ cmode[c] = 1 /\ PieceAt(c, sent[c]).part = 1 => acked[c] = MessagesSent(c)
  /\ sent' = [sent EXCEPT ![c] = @ + 1]
  /\ inq' = [inq EXCEPT ![c] = Append(@, PieceAt(c, sent[c]))]
  /\ UNCHANGED <<server, loop, fdconn, backlog, cport, cmode, cstate, acked, handled, stored>>

\* The client closes, or dies with all it sent on its way.
Finish(c) ==
  /\ cstate[c] = "open"
  /\ cstate' = [cstate EXCEPT ![c] = "finished"]
  /\ UNCHANGED <<server, loop, fdconn, backlog, cport, cmode, sent, inq, acked, handled, stored>>

Client(c) == Connect(c) \/ SendPiece(c) \/ Finish(c)

Next == Server \/ Sigpipe \/ \E c \in Conns : Client(c)

Spec == Init /\ [][Next]_vars

\* The server loop runs; clients do as they like.
FairSpec == Spec /\ WF_vars(Server)

-----------------------------------------------------------------------------
(* Properties                                                               *)

BlockOf(c, b) == [p \in 1 .. BlockPieces |-> Piece(c, b, p)]

\* Every block handed to ts_data_transfer is one block of one client of that
\* port, whole and in sequence, whatever was half read when clients changed.
StoredWhole ==
  \A i \in Ports : \A k \in 1 .. Len(stored[i]) :
    LET c == stored[i][k][1].conn
        b == stored[i][k][1].blk
    IN  /\ cport[c] = i
        /\ stored[i][k] = BlockOf(c, b)
        /\ k > 1 => LET before == stored[i][k - 1][1]
                    IN IF before.conn = c THEN b = before.blk + 1 ELSE b = 1 /\ before.conn < c

\* The open descriptors are exactly the clients being served, one per port and
\* each on the port it connected to: closing and reusing descriptor numbers
\* neither leaks one nor lets two ports share one.
OneClientPerPort ==
  /\ \A i \in Ports : SocketConnected[i] = 2 =>
       msg_socket[i] # 0 /\ ConnOf(i) # 0 /\ cport[ConnOf(i)] = i
  /\ \A f \in Fds : fdconn[f] # 0 =>
       \E i \in Ports : SocketConnected[i] = 2 /\ msg_socket[i] = f
                        /\ \A j \in Ports \ {i} : SocketConnected[j] = 2 => msg_socket[j] # f

\* A client in mode 1 gets exactly one acknowledgement per message it had
\* handled, after it was handled; in mode 3 it gets none.
AckPerMessage ==
  \A i \in Ports : SocketConnected[i] = 2 =>
    LET c == ConnOf(i)
    IN  IF cmode[c] = 1 THEN handled[c] = acked[c] + (IF ACKneeded[i] THEN 1 ELSE 0)
        ELSE acked[c] = 0 /\ ~ACKneeded[i]

\* What data_buffer holds up to Done, followed by what is still in the
\* connection, is what the client sent last; and the size in force is the size
\* of the message under way.
Reassembly ==
  \A i \in Ports : SocketConnected[i] = 2 =>
    LET c    == ConnOf(i)
        took == sent[c] - Len(inq[c])
    IN  /\ TransferSize[i] = (IF handled[c] = 0 THEN RestartSize ELSE BlockPieces)
        /\ took = Done[i] + (IF handled[c] = 0 THEN 0
                             ELSE RestartSize + (handled[c] - 1) * BlockPieces)
        /\ \A p \in 1 .. Done[i] : data_buffer[i][p] = PieceAt(c, took - Done[i] + p - 1)

\* The server stands in a recv with nothing to receive.
Stuck == pc = "read" /\ ReadSelected /\ ~Readable(ConnOf(port))

\* Unless the server is stuck in recv or killed, what a client sent is received (or the
\* client is replaced by the next one on its port): no port starves another.
InputIsTaken ==
  \A c \in Conns : inq[c] # <<>> ~> (inq[c] = <<>> \/ ~Reachable(c) \/ Stuck \/ pc = "killed")

\* link_server.cpp:150, 612: select has said the descriptor is ready, so a read
\* never finds nothing there.
ReadsOnlyWhenReady == ~Stuck

-----------------------------------------------------------------------------
(* The inductive invariant behind the four invariants above                 *)

Served(i) == SocketConnected[i] = 2

\* The pieces of the first h messages of a client.
Extent(h) == IF h = 0 THEN 0 ELSE RestartSize + (h - 1) * BlockPieces

\* Clients connect in the order of their numbers.
InTurn ==
  /\ \A c, d \in Conns : c < d /\ cstate[c] = "new" => cstate[d] = "new"
  /\ \A c \in Conns : cstate[c] = "new" => sent[c] = 0 /\ handled[c] = 0 /\ acked[c] = 0
  /\ \A f \in Fds : fdconn[f] # 0 => cstate[fdconn[f]] # "new"

\* the last block stored on port i
LastBlock(i) == stored[i][Len(stored[i])][1]

\* Connection c waits on port i: it is later than anyone served or stored there,
\* and nothing of it was read.
WaitsOn(i, c) ==
  /\ cport[c] = i /\ cstate[c] # "new"
  /\ handled[c] = 0 /\ acked[c] = 0 /\ Len(inq[c]) = sent[c]
  /\ Served(i) => ConnOf(i) < c
  /\ stored[i] # <<>> => LastBlock(i).conn < c

\* A backlog holds connections that wait, in the order they were made.
WaitingBehind ==
  \A i \in Ports : \A k \in 1 .. Len(backlog[i]) :
    /\ WaitsOn(i, backlog[i][k])
    /\ \A l \in 1 .. Len(backlog[i]) : k < l => backlog[i][k] < backlog[i][l]

\* What is on its way is what the client sent last; in mode 1 a message is begun
\* only when all those before are acknowledged.
InFlight ==
  \A c \in Conns :
    /\ Extent(handled[c]) + Len(inq[c]) <= sent[c]
    /\ acked[c] <= handled[c]
    /\ \A k \in 1 .. Len(inq[c]) : inq[c][k] = PieceAt(c, sent[c] - Len(inq[c]) + k - 1)
    /\ cmode[c] = 1 => sent[c] <= Extent(acked[c] + 1)

\* The last block stored on a served port is the client's last message, or a
\* block of an earlier client.
StoredLast ==
  \A i \in Ports :
    /\ stored[i] # <<>> => cstate[LastBlock(i).conn] # "new"
    /\ Served(i) =>
         LET c == ConnOf(i)
         IN  /\ Done[i] < TransferSize[i]
             /\ handled[c] <= 1 /\ stored[i] # <<>> => LastBlock(i).conn < c
             /\ handled[c] > 1 => stored[i] # <<>> /\ LastBlock(i) = Piece(c, handled[c] - 1, 1)

\* A port that select reported has its connection still waiting at its turn.
StillListed ==
  \A i \in listenfds :
    \/ pc = "listen" /\ i >= port
    \/ pc \in {"read", "write"} /\ i > port
    => backlog[i] # <<>>

LinkInv ==
  /\ TypeOK /\ StillListed /\ OneClientPerPort /\ InTurn /\ WaitingBehind /\ InFlight
  /\ Reassembly /\ AckPerMessage /\ StoredLast /\ StoredWhole

=============================================================================
