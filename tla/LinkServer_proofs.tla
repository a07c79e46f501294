-------------------------- MODULE LinkServer_proofs --------------------------
(***************************************************************************)
(* Proofs about LinkServer for every number of ports, connections, pieces  *)
(* and blocks: descriptors, reassembly, acknowledgements and what reaches  *)
(* ts_data_transfer.                                                       *)
(***************************************************************************)
EXTENDS LinkServer, NumberLemmas, FiniteSets, FiniteSetTheorems, SequenceTheorems,
        WellFoundedInduction

-----------------------------------------------------------------------------
(* Pieces and messages                                                      *)

\* A message more is its pieces more.
LEMMA ExtentNext ==
  ASSUME NEW h \in Nat
  PROVE  /\ Extent(h) \in Nat /\ Extent(h + 1) \in Nat
         /\ Extent(h + 1) = Extent(h) + (IF h = 0 THEN RestartSize ELSE BlockPieces)
<1>1. BlockPieces \in Nat /\ BlockPieces >= 1
  BY LinkAssumption
<1>2. CASE h = 0
  BY <1>1, <1>2, SMT DEF Extent, RestartSize
<1>3. CASE h # 0
  <2>1. Extent(h) = 1 + (h - 1) * BlockPieces /\ Extent(h + 1) = 1 + h * BlockPieces
    BY <1>3 DEF Extent, RestartSize
  <2>2. h * BlockPieces = (h - 1) * BlockPieces + BlockPieces /\ (h - 1) * BlockPieces \in Nat
    BY <1>1, <1>3, SMT
  <2> QED
    BY <1>1, <1>3, <2>1, <2>2, SMT
<1> QED
  BY <1>2, <1>3

\* A message more is more pieces.
LEMMA ExtentGrows ==
  ASSUME NEW h \in Nat
  PROVE  Extent(h) \in Nat /\ Extent(h + 1) \in Nat /\ Extent(h) < Extent(h + 1)
<1>1. /\ Extent(h) \in Nat /\ Extent(h + 1) \in Nat
      /\ Extent(h + 1) = Extent(h) + (IF h = 0 THEN RestartSize ELSE BlockPieces)
  BY ExtentNext
<1>2. BlockPieces \in Nat /\ BlockPieces >= 1 /\ RestartSize = 1
  BY LinkAssumption DEF RestartSize
<1> QED
  BY <1>1, <1>2

\* More pieces are more messages.
LEMMA ExtentMonotone ==
  ASSUME NEW g \in Nat, NEW h \in Nat, Extent(g) <= Extent(h)
  PROVE  g <= h
<1>1. BlockPieces \in Nat /\ BlockPieces >= 1
  BY LinkAssumption
<1>2. CASE g = 0
  BY <1>2
<1>3. CASE g # 0 /\ h = 0
  <2>1. (g - 1) * BlockPieces >= 0
    BY <1>1, <1>3, SMT
  <2> QED
    BY <1>1, <1>3, <2>1, SMT DEF Extent, RestartSize
<1>4. CASE g # 0 /\ h # 0
  <2>1. 1 + (g - 1) * BlockPieces <= 1 + (h - 1) * BlockPieces
    BY <1>4 DEF Extent, RestartSize
  <2>2. BlockPieces * (g - 1) <= BlockPieces * (h - 1)
    BY <1>1, <1>4, <2>1, SMT
  <2>3. g - 1 <= h - 1
    BY <1>1, <2>2, TimesMonotone
  <2> QED
    BY <2>3
<1> QED
  BY <1>2, <1>3, <1>4

\* Piece p of message h comes after the h messages before it.
LEMMA PieceOfBlock ==
  ASSUME NEW c, NEW h \in Nat, h >= 1, NEW p \in 1 .. BlockPieces
  PROVE  PieceAt(c, Extent(h) + p - 1) = Piece(c, h, p)
<1>1. BlockPieces \in Nat /\ BlockPieces >= 1 /\ p - 1 \in 0 .. BlockPieces - 1 /\ h - 1 \in Nat
      /\ h - 1 \in Int
  BY LinkAssumption
<1> DEFINE n == Extent(h) + p - 1
<1>2. n - 1 = BlockPieces * (h - 1) + (p - 1) /\ n \in Nat /\ n # 0
  <2>1. (h - 1) * BlockPieces \in Nat /\ BlockPieces * (h - 1) = (h - 1) * BlockPieces
    BY <1>1, SMT
  <2> QED
    BY <1>1, <2>1, SMT DEF Extent, RestartSize
<1>3. (n - 1) \div BlockPieces = h - 1 /\ (n - 1) % BlockPieces = p - 1
  <2>1. /\ (BlockPieces * (h - 1) + (p - 1)) \div BlockPieces = h - 1
        /\ (BlockPieces * (h - 1) + (p - 1)) % BlockPieces = p - 1
    BY <1>1, DivModOfSum
  <2> QED
    BY <1>2, <2>1
<1> HIDE DEF n
<1>4. PieceAt(c, n) = Piece(c, 1 + (h - 1), 1 + (p - 1))
  BY <1>2, <1>3 DEF PieceAt
<1> QED
  BY <1>1, <1>4 DEF n

\* The first piece of a message is the one after whole messages, and only that.
LEMMA FirstPiece ==
  ASSUME NEW c \in Conns, NEW n \in Nat
  PROVE  LET m == IF n = 0 THEN 0 ELSE 1 + (n - 1) \div BlockPieces
         IN  /\ PieceAt(c, n).part = 1 => m \in Nat /\ n = Extent(m)
             /\ \A h \in Nat : n = Extent(h) => PieceAt(c, n).part = 1
<1>1. BlockPieces \in Nat /\ BlockPieces >= 1
  BY LinkAssumption
<1>2. CASE n = 0
  BY <1>2 DEF PieceAt, Piece, Extent
<1>3. CASE n # 0
  <2> DEFINE q == (n - 1) \div BlockPieces
             s == (n - 1) % BlockPieces
  <2>0. n - 1 \in Nat /\ n - 1 \in Int
    BY <1>3
  <2>1. /\ n - 1 = BlockPieces * q + s /\ q \in Int /\ s \in 0 .. BlockPieces - 1
        /\ n - 1 \in Nat
    BY <1>1, <2>0, DivMod
  <2>2. PieceAt(c, n).part = 1 + s
    BY <1>3 DEF PieceAt, Piece
  <2> HIDE DEF q, s
  <2>3. q >= 0
    <3>1. SUFFICES ASSUME q <= -1 PROVE FALSE
      BY <2>1
    <3>2. BlockPieces * q <= -BlockPieces
      BY <1>1, <2>1, <3>1, SMT
    <3> QED
      BY <1>1, <2>1, <3>2, SMT
  <2>4. s = 0 => 1 + q \in Nat /\ n = Extent(1 + q)
    <3>1. 1 + q # 0 /\ (1 + q) - 1 = q /\ 1 + q \in Nat
      BY <2>1, <2>3
    <3>2. q * BlockPieces = BlockPieces * q
      BY <1>1, <2>1, SMT
    <3>3. Extent(1 + q) = 1 + q * BlockPieces
      BY <3>1 DEF Extent, RestartSize
    <3>4. BlockPieces * q \in Int
      BY <1>1, <2>1, SMT
    <3> QED
      BY <2>1, <3>1, <3>2, <3>3, <3>4
  <2>5. ASSUME NEW h \in Nat, n = Extent(h) PROVE s = 0
    <3>1. h # 0
      BY <1>3, <2>5 DEF Extent
    <3>2. n - 1 = BlockPieces * (h - 1) + 0
      BY <1>1, <2>5, <3>1, SMT DEF Extent, RestartSize
    <3>3. 0 \in 0 .. BlockPieces - 1 /\ h - 1 \in Int
      BY <1>1
    <3>4. BlockPieces * q + s = BlockPieces * (h - 1) + 0
      BY <2>1, <3>2
    <3> QED
      BY <1>1, <2>1, <3>3, <3>4, DivModUnique
  <2> QED
    BY <1>3, <2>1, <2>2, <2>4, <2>5 DEF q, s
<1> QED
  BY <1>2, <1>3

\* What a client may still send is a piece.
LEMMA PieceAtInPieces ==
  ASSUME NEW c \in Conns, NEW n \in Nat, n < RestartSize + MaxBlocks * BlockPieces
  PROVE  PieceAt(c, n) \in Pieces
<1>1. BlockPieces \in Nat /\ BlockPieces >= 1 /\ MaxBlocks \in Nat
  BY LinkAssumption
<1>2. CASE n = 0
  BY <1>1, <1>2 DEF PieceAt, Piece, Pieces
<1>3. CASE n # 0
  <2> DEFINE q == (n - 1) \div BlockPieces
             s == (n - 1) % BlockPieces
  <2>0. n - 1 \in Nat /\ n - 1 \in Int
    BY <1>3
  <2>1. /\ n - 1 = BlockPieces * q + s /\ q \in Int /\ s \in 0 .. BlockPieces - 1
        /\ n - 1 \in Nat
    BY <1>1, <2>0, DivMod
  <2>2. PieceAt(c, n) = Piece(c, 1 + q, 1 + s)
    BY <1>3 DEF PieceAt
  <2> HIDE DEF q, s
  <2>3. q >= 0
    <3>1. SUFFICES ASSUME q <= -1 PROVE FALSE
      BY <2>1
    <3>2. BlockPieces * q <= -BlockPieces
      BY <1>1, <2>1, <3>1, SMT
    <3> QED
      BY <1>1, <2>1, <3>2, SMT
  <2>4. q < MaxBlocks
    <3>1. SUFFICES ASSUME MaxBlocks <= q PROVE FALSE
      BY <1>1, <2>1
    <3>2. MaxBlocks * BlockPieces <= BlockPieces * q
      BY <1>1, <2>1, <3>1, SMT
    <3> QED
      BY <1>1, <2>1, <3>2, SMT DEF RestartSize
  <2>5. 1 + q \in 0 .. MaxBlocks /\ 1 + s \in 1 .. BlockPieces
    BY <1>1, <2>1, <2>3, <2>4
  <2> QED
    BY <2>2, <2>5 DEF Piece, Pieces
<1> QED
  BY <1>2, <1>3

-----------------------------------------------------------------------------
(* What the invariant says of a state                                       *)

\* A served port has an open descriptor of a connection made to that port.
LEMMA ServedConn ==
  ASSUME LinkInv, NEW i \in Ports, Served(i)
  PROVE  /\ msg_socket[i] \in Fds /\ ConnOf(i) \in Conns /\ cport[ConnOf(i)] = i
         /\ cstate[ConnOf(i)] # "new" /\ fdconn[msg_socket[i]] # 0
<1>1. msg_socket[i] # 0 /\ ConnOf(i) # 0 /\ cport[ConnOf(i)] = i
  BY DEF LinkInv, OneClientPerPort, Served
<1>2. msg_socket[i] \in Fds /\ ConnOf(i) \in Conns
  BY <1>1 DEF LinkInv, TypeOK, ConnOf
<1> QED
  BY <1>1, <1>2 DEF LinkInv, InTurn, ConnOf

\* Two served ports share neither connection nor descriptor.
LEMMA ServedApart ==
  ASSUME LinkInv, NEW i \in Ports, NEW j \in Ports, Served(i), Served(j), i # j
  PROVE  msg_socket[i] # msg_socket[j] /\ ConnOf(i) # ConnOf(j)
BY ServedConn DEF ConnOf

\* Who waits on a port has no descriptor yet.
LEMMA WaitingHasNone ==
  ASSUME LinkInv, NEW i \in Ports, NEW k \in 1 .. Len(backlog[i]), NEW f \in Fds
  PROVE  fdconn[f] # backlog[i][k]
<1>0. backlog[i] \in Seq(Conns)
  BY DEF LinkInv, TypeOK
<1>1. backlog[i][k] \in Conns /\ backlog[i][k] # 0
  <2>1. backlog[i][k] \in Conns
    BY <1>0, ElementOfSeq
  <2> QED
    BY <2>1 DEF Conns
<1>2. SUFFICES ASSUME fdconn[f] = backlog[i][k] PROVE FALSE
  OBVIOUS
<1>3. PICK j \in Ports : Served(j) /\ msg_socket[j] = f
  BY <1>1, <1>2 DEF LinkInv, OneClientPerPort, Served
<1>4. ConnOf(j) = backlog[i][k] /\ cport[ConnOf(j)] = j
  BY <1>2, <1>3, ServedConn DEF ConnOf
<1>5. cport[backlog[i][k]] = i
  BY DEF LinkInv, WaitingBehind, WaitsOn
<1>6. ConnOf(i) < backlog[i][k] /\ j = i
  BY <1>3, <1>4, <1>5 DEF LinkInv, WaitingBehind, WaitsOn
<1> QED
  BY <1>1, <1>4, <1>6 DEF Conns

\* A step that takes nobody from a backlog and adds nobody keeps the order there
\* when whoever waited still does.
LEMMA StillWaiting ==
  ASSUME LinkInv, UNCHANGED backlog,
         \A i \in Ports, d \in Conns : WaitsOn(i, d) => WaitsOn(i, d)'
  PROVE  WaitingBehind'
<1>1. ASSUME NEW i \in Ports, NEW k \in 1 .. Len(backlog[i])
      PROVE  /\ WaitsOn(i, backlog[i][k])'
             /\ \A l \in 1 .. Len(backlog[i]) : k < l => backlog[i][k] < backlog[i][l]
  <2>1. PICK d \in Conns : d = backlog[i][k]
    BY ElementOfSeq DEF LinkInv, TypeOK
  <2>2. WaitsOn(i, d)'
    BY <2>1 DEF LinkInv, WaitingBehind
  <2> QED
    BY <2>1, <2>2 DEF LinkInv, WaitingBehind, WaitsOn
<1> QED
  BY <1>1 DEF WaitingBehind, WaitsOn

\* A set of descriptors that is not empty has a lowest one.
LEMMA LowestOf ==
  ASSUME NEW T \in SUBSET Nat, T # {}
  PROVE  \E x \in T : \A y \in T : x <= y
<1> DEFINE R == OpToRel(<, Nat)
<1>1. IsWellFoundedOn(R, Nat)
  BY NatLessThanWellFounded
<1> HIDE DEF R
<1>2. PICK x \in T : \A y \in T : <<y, x>> \notin R
  BY <1>1, WFMin
<1>3. \A y \in T : ~(y < x)
  BY <1>2 DEF R, OpToRel
<1> QED
  BY <1>2, <1>3

\* accept() finds a descriptor: there are as many as connections, and the one
\* that waits has none.
LEMMA DescriptorFree ==
  ASSUME LinkInv, port \in Ports, backlog[port] # <<>>
  PROVE  /\ LowestFree(Dropped) \in Fds
         /\ Dropped[LowestFree(Dropped)] = 0
<1> DEFINE c == backlog[port][1]
<1>0. 1 \in 1 .. Len(backlog[port]) /\ c \in Conns
  BY SMTT(15), EmptySeq DEF LinkInv, TypeOK
<1>1. \A f \in Fds : fdconn[f] # c
  BY <1>0, WaitingHasNone
<1>2. NConns \in Nat /\ NConns >= 1
  BY LinkAssumption
<1>3. \A f, g \in Fds : fdconn[f] # 0 /\ fdconn[f] = fdconn[g] => f = g
  <2>1. SUFFICES ASSUME NEW f \in Fds, NEW g \in Fds, fdconn[f] # 0, fdconn[f] = fdconn[g]
                 PROVE  f = g
    OBVIOUS
  <2>2. PICK i \in Ports : Served(i) /\ msg_socket[i] = f
    BY <2>1 DEF LinkInv, OneClientPerPort, Served
  <2>3. PICK j \in Ports : Served(j) /\ msg_socket[j] = g
    BY <2>1 DEF LinkInv, OneClientPerPort, Served
  <2> QED
    BY <2>1, <2>2, <2>3, ServedApart DEF ConnOf
<1>4. \E f \in Fds : fdconn[f] = 0
  <2>1. SUFFICES ASSUME \A f \in Fds : fdconn[f] # 0 PROVE FALSE
    OBVIOUS
  <2>2. fdconn \in [Fds -> Conns \ {c}]
    BY <2>1, <1>1 DEF LinkInv, TypeOK
  <2>3. /\ IsFiniteSet(Fds) /\ Cardinality(Fds) = NConns
        /\ IsFiniteSet(Conns) /\ Cardinality(Conns) = NConns
    BY <1>2, FS_Interval DEF Fds, Conns
  <2>4. IsFiniteSet(Conns \ {c}) /\ Cardinality(Conns \ {c}) = NConns - 1
    BY <1>0, <2>3, FS_RemoveElement
  <2>5. \E f, g \in Fds : f # g /\ fdconn[f] = fdconn[g]
    <3>1. Cardinality(Conns \ {c}) < Cardinality(Fds)
      BY <1>2, <2>3, <2>4
    <3> HIDE DEF c
    <3> QED
      BY <2>2, <2>3, <2>4, <3>1, FS_PigeonHole
  <2> QED
    BY <1>3, <2>1, <2>5
<1>5. \E f \in Fds : Dropped[f] = 0
  BY <1>4, ServedConn DEF Dropped, Served, Closed, LinkInv, TypeOK
<1> DEFINE T == {f \in Fds : Dropped[f] = 0}
<1>6. T \in SUBSET Nat /\ T # {}
  BY <1>5 DEF Fds
<1>7. PICK f \in T : \A g \in T : f <= g
  <2> HIDE DEF T
  <2> QED
    BY <1>6, LowestOf
<1>8. f \in Fds /\ Dropped[f] = 0 /\ \A g \in Fds : g < f => Dropped[g] # 0
  BY <1>7 DEF Fds
<1> QED
  BY <1>8 DEF LowestFree

-----------------------------------------------------------------------------
(* Steps that leave the served connections alone                            *)

\* Whole blocks stay whole while nothing is stored and no one connects.
LEMMA StoredWholeKept ==
  ASSUME StoredWhole, stored' = stored, cport' = cport
  PROVE  StoredWhole'
  BY DEF StoredWhole, BlockOf

\* select, a turn with nothing to do and SIGPIPE change neither who is served nor
\* what is known of them.
LEMMA NothingMoved ==
  ASSUME LinkInv, TypeOK', StillListed',
         UNCHANGED <<msg_socket, TransferSize, Done, data_buffer, fdconn, backlog, clients,
                     inq, acked, handled, stored>>,
         \A i \in Ports : SocketConnected'[i] = 2 <=> SocketConnected[i] = 2,
         \A i \in Ports : SocketConnected[i] = 2 => ACKneeded'[i] = ACKneeded[i]
  PROVE  LinkInv'
<1>1. OneClientPerPort'
  BY DEF LinkInv, OneClientPerPort, ConnOf, clients
<1>2. InTurn'
  BY DEF LinkInv, InTurn, clients
<1>3. WaitingBehind'
  <2>1. ASSUME NEW i \in Ports, NEW d \in Conns, WaitsOn(i, d)
        PROVE  WaitsOn(i, d)'
    BY <2>1 DEF WaitsOn, Served, ConnOf, LastBlock, clients
  <2> QED
    BY <2>1, StillWaiting
<1>4. InFlight'
  BY DEF LinkInv, InFlight, clients, PieceAt
<1>5. Reassembly'
  BY DEF LinkInv, Reassembly, ConnOf, clients, PieceAt
<1>6. AckPerMessage'
  BY DEF LinkInv, AckPerMessage, ConnOf, clients
<1>7. StoredLast'
  BY DEF LinkInv, StoredLast, Served, ConnOf, LastBlock, clients
<1>8. StoredWhole'
  <2>1. StoredWhole
    BY DEF LinkInv
  <2>2. stored' = stored /\ cport' = cport
    BY DEF clients
  <2> QED
    BY <2>1, <2>2, StoredWholeKept
<1> QED
  BY <1>1, <1>2, <1>3, <1>4, <1>5, <1>6, <1>7, <1>8 DEF LinkInv

\* select only closes what the loop has already given up.
LEMMA SelectKeeps ==
  ASSUME LinkInv, Select
  PROVE  LinkInv'
<1> USE DEF Select
<1>1. TypeOK'
  <2>1. SocketConnected' \in [Ports -> {0, 1, 2}]
    BY DEF LinkInv, TypeOK
  <2>2. ReadEnable' \in [Ports -> BOOLEAN] /\ ACKneeded' \in [Ports -> BOOLEAN]
    BY DEF LinkInv, TypeOK
  <2>3. listenfds' \subseteq Ports
    OBVIOUS
  <2>4. readfds' \subseteq Fds /\ writefds' \subseteq Fds
    <3>1. \A i \in Ports : SocketConnected'[i] = 2 => Served(i)
      BY DEF LinkInv, TypeOK, Served
    <3> QED
      BY <3>1, ServedConn
  <2>5. port' \in Ports
    BY LinkAssumption DEF Ports
  <2> QED
    BY <2>1, <2>2, <2>3, <2>4, <2>5 DEF LinkInv, TypeOK, clients
<1>2. StillListed'
  BY DEF StillListed
<1>3. \A i \in Ports : SocketConnected'[i] = 2 <=> SocketConnected[i] = 2
  BY DEF LinkInv, TypeOK
<1>4. \A i \in Ports : SocketConnected[i] = 2 => ACKneeded'[i] = ACKneeded[i]
  BY DEF LinkInv, TypeOK
<1> QED
  BY <1>1, <1>2, <1>3, <1>4, NothingMoved

\* The sets of select are for the ports from here on.
LEMMA NextPortKeeps ==
  ASSUME LinkInv, pc = "write", NextPort, UNCHANGED backlog
  PROVE  /\ StillListed' /\ port' \in Ports /\ pc' \in {"select", "listen"}
         /\ listenfds' \subseteq Ports /\ readfds' \subseteq Fds /\ writefds' \subseteq Fds
<1>1. CASE port + 1 \in Ports
  <2>1. \A i \in Ports : i >= port + 1 => i > port
    BY DEF LinkInv, TypeOK, Ports
  <2> QED
    BY <1>1, <2>1 DEF NextPort, LinkInv, TypeOK, StillListed
<1>2. CASE port + 1 \notin Ports
  BY <1>2, LinkAssumption DEF NextPort, LinkInv, TypeOK, StillListed, Ports
<1> QED
  BY <1>1, <1>2

\* A port with nothing to accept, to read or to write is passed over.
LEMMA IdleTurnKeeps ==
  ASSUME LinkInv,
         \/ pc = "listen" /\ pc' = "read" /\ UNCHANGED <<port, listenfds, readfds, writefds>>
         \/ pc = "read" /\ pc' = "write" /\ UNCHANGED <<port, listenfds, readfds, writefds>>
         \/ pc = "write" /\ NextPort
         \/ pc = "write" /\ pc' = "killed" /\ UNCHANGED <<port, listenfds, readfds, writefds>>
         \/ UNCHANGED loop,
         UNCHANGED <<server, fdconn, backlog, clients, inq, acked, handled, stored>>
  PROVE  LinkInv'
<1>1. CASE pc = "write" /\ NextPort
  <2>1. TypeOK' /\ StillListed'
    BY <1>1, NextPortKeeps DEF LinkInv, TypeOK, server, clients
  <2> QED
    BY <2>1, NothingMoved DEF server
<1>2. CASE ~(pc = "write" /\ NextPort)
  <2>1. TypeOK'
    BY <1>2 DEF LinkInv, TypeOK, server, clients, loop
  <2>2. StillListed'
    <3>1. \A i \in Ports : i > port => i >= port
      BY DEF LinkInv, TypeOK, Ports
    <3> QED
      BY <1>2, <3>1 DEF LinkInv, TypeOK, StillListed, loop
  <2> QED
    BY <2>1, <2>2, NothingMoved DEF server
<1> QED
  BY <1>1, <1>2

-----------------------------------------------------------------------------
(* Clients                                                                  *)

\* A client that connects is later than all that connected before.
LEMMA ConnectKeeps ==
  ASSUME LinkInv, NEW c \in Conns, Connect(c)
  PROVE  LinkInv'
<1> USE DEF Connect
<1>a. PICK h \in Ports : h = cport[c]
  BY DEF LinkInv, TypeOK
<1>0. /\ h = cport[c] /\ backlog[h] \in Seq(Conns)
      /\ backlog'[h] = Append(backlog[h], c)
      /\ \A i \in Ports : i # h => backlog'[i] = backlog[i]
      /\ Len(backlog'[h]) = Len(backlog[h]) + 1 /\ Len(backlog[h]) \in Nat
      /\ backlog'[h] # <<>>
      /\ backlog'[h][Len(backlog[h]) + 1] = c
      /\ \A k \in 1 .. Len(backlog[h]) : backlog'[h][k] = backlog[h][k]
  <2>1. backlog[h] \in Seq(Conns)
    BY DEF LinkInv, TypeOK
  <2>2. backlog'[h] = Append(backlog[h], c) /\ \A i \in Ports : i # h => backlog'[i] = backlog[i]
    BY <1>a, <2>1 DEF LinkInv, TypeOK
  <2> QED
    BY <1>a, <2>1, <2>2, AppendProperties, LenProperties
<1>1. TypeOK'
  <2>1. backlog' \in [Ports -> Seq(Conns)]
    BY <1>0, AppendProperties DEF LinkInv, TypeOK
  <2>2. cstate' \in [Conns -> {"new", "open", "finished", "refused"}]
    BY DEF LinkInv, TypeOK
  <2> QED
    BY <2>1, <2>2 DEF LinkInv, TypeOK, server, loop
<1>2. StillListed'
  <2>1. \A i \in Ports : backlog[i] # <<>> => backlog'[i] # <<>>
    BY <1>0
  <2> QED
    BY <2>1 DEF LinkInv, TypeOK, StillListed, loop
<1>3. OneClientPerPort'
  BY DEF LinkInv, OneClientPerPort, ConnOf, server
<1>4. InTurn'
  <2>1. \A d, e \in Conns : d < e /\ cstate'[d] = "new" => cstate'[e] = "new"
    BY DEF LinkInv, TypeOK, InTurn
  <2> QED
    BY <2>1 DEF LinkInv, TypeOK, InTurn
<1>5. \A d \in Conns : cstate[d] # "new" => d < c
  BY DEF LinkInv, InTurn, Conns
<1>6. WaitingBehind'
  <2>1. handled[c] = 0 /\ acked[c] = 0 /\ Len(inq[c]) = sent[c]
    <3>1. handled[c] = 0 /\ acked[c] = 0 /\ sent[c] = 0
      BY DEF LinkInv, InTurn
    <3>2. Len(inq[c]) \in Nat /\ Len(inq[c]) <= 0
      BY <3>1, LenProperties DEF LinkInv, InFlight, Extent, TypeOK
    <3> QED
      BY <3>1, <3>2
  <2>2. ASSUME NEW i \in Ports, Served(i) PROVE ConnOf(i) < c
    BY <1>5, <2>2, ServedConn
  <2>3. stored[h] # <<>> => LastBlock(h).conn < c
    <3>1. SUFFICES ASSUME stored[h] # <<>> PROVE LastBlock(h).conn < c
      OBVIOUS
    <3>2. Len(stored[h]) \in 1 .. Len(stored[h])
      BY <1>0, <3>1, EmptySeq DEF LinkInv, TypeOK
    <3>3. LastBlock(h) \in Pieces \cup {NoPiece}
      <4>1. stored[h] \in Seq([1 .. BlockPieces -> Pieces \cup {NoPiece}])
        BY <1>0 DEF LinkInv, TypeOK
      <4>2. stored[h][Len(stored[h])] \in [1 .. BlockPieces -> Pieces \cup {NoPiece}]
        BY <3>2, <4>1, ElementOfSeq
      <4> QED
        BY <4>2, LinkAssumption DEF LastBlock
    <3>4. CASE LastBlock(h) = NoPiece
      BY <3>4 DEF NoPiece, Piece, Conns
    <3>5. CASE LastBlock(h) \in Pieces
      <4>1. LastBlock(h).conn \in Conns
        BY <3>5 DEF Pieces
      <4>2. cstate[LastBlock(h).conn] # "new"
        BY <1>0, <3>1 DEF LinkInv, StoredLast
      <4> QED
        BY <1>5, <4>1, <4>2
    <3> QED
      BY <3>3, <3>4, <3>5
  <2>4. \A k \in 1 .. Len(backlog[h]) : backlog[h][k] < c
    <3>1. \A k \in 1 .. Len(backlog[h]) : backlog[h][k] \in Conns
      BY <1>0, ElementOfSeq
    <3> QED
      BY <1>0, <1>5, <3>1 DEF LinkInv, WaitingBehind, WaitsOn
  <2>5. WaitsOn(h, c)'
    <3>1. cstate'[c] # "new"
      BY DEF LinkInv, TypeOK
    <3> QED
      BY <1>0, <2>1, <2>2, <2>3, <3>1 DEF WaitsOn, Served, ConnOf, LastBlock, server
  <2>6. ASSUME NEW i \in Ports, NEW k \in 1 .. Len(backlog[i])
        PROVE  WaitsOn(i, backlog[i][k])'
    <3>1. WaitsOn(i, backlog[i][k])
      BY DEF LinkInv, WaitingBehind
    <3>2. backlog[i] \in Seq(Conns)
      BY DEF LinkInv, TypeOK
    <3>3. backlog[i][k] \in Conns /\ backlog[i][k] # c
      <4>1. backlog[i][k] \in Conns
        BY <3>2, ElementOfSeq
      <4> QED
        BY <3>1, <4>1 DEF WaitsOn
    <3>4. cstate'[backlog[i][k]] = cstate[backlog[i][k]]
      BY <3>3 DEF LinkInv, TypeOK
    <3>5. \A l \in 1 .. Len(backlog[i]) : backlog'[i][l] = backlog[i][l]
      BY <1>0
    <3> QED
      BY <3>1, <3>4, <3>5 DEF WaitsOn, Served, ConnOf, LastBlock, server
  <2>7. ASSUME NEW i \in Ports, i # h, NEW k \in 1 .. Len(backlog'[i])
        PROVE  /\ WaitsOn(i, backlog[i][k])'
               /\ \A l \in 1 .. Len(backlog'[i]) : k < l => backlog'[i][k] < backlog'[i][l]
    BY <1>0, <2>6, <2>7 DEF LinkInv, WaitingBehind
  <2>8. ASSUME NEW k \in 1 .. Len(backlog'[h])
        PROVE  /\ WaitsOn(h, backlog[h][k])'
               /\ \A l \in 1 .. Len(backlog'[h]) : k < l => backlog'[h][k] < backlog'[h][l]
    <3>1. CASE k = Len(backlog[h]) + 1
      <4>1. backlog'[h][k] = c /\ \A l \in 1 .. Len(backlog'[h]) : ~(k < l)
        BY <1>0, <3>1
      <4> QED
        BY <2>5, <4>1 DEF WaitsOn
    <3>2. CASE k # Len(backlog[h]) + 1
      <4>1. k \in 1 .. Len(backlog[h]) /\ backlog'[h][k] = backlog[h][k]
        BY <1>0, <3>2
      <4>2. ASSUME NEW l \in 1 .. Len(backlog'[h]), k < l
            PROVE  backlog'[h][k] < backlog'[h][l]
        <5>1. CASE l = Len(backlog[h]) + 1
          BY <1>0, <2>4, <4>1, <5>1
        <5>2. CASE l # Len(backlog[h]) + 1
          <6>1. l \in 1 .. Len(backlog[h]) /\ backlog'[h][l] = backlog[h][l]
            BY <1>0, <5>2
          <6> QED
            BY <1>0, <4>1, <4>2, <6>1 DEF LinkInv, WaitingBehind
        <5> QED
          BY <5>1, <5>2
      <4> QED
        BY <1>0, <2>6, <4>1, <4>2
    <3> QED
      BY <3>1, <3>2
  <2> HIDE DEF Connect
  <2> QED
    BY <2>7, <2>8 DEF WaitingBehind, WaitsOn
<1>7. InFlight'
  BY DEF LinkInv, InFlight, PieceAt
<1>8. Reassembly'
  BY DEF LinkInv, Reassembly, ConnOf, PieceAt, server
<1>9. AckPerMessage'
  BY DEF LinkInv, AckPerMessage, ConnOf, server
<1>10. StoredLast'
  <2>1. \A d : cstate[d] # "new" => cstate'[d] # "new"
    BY SMTT(15) DEF LinkInv, TypeOK
  <2> QED
    BY <2>1 DEF LinkInv, StoredLast, Served, ConnOf, LastBlock, server
<1>11. StoredWhole'
  <2>1. StoredWhole
    BY DEF LinkInv
  <2>2. stored' = stored /\ cport' = cport
    BY DEF clients
  <2> QED
    BY <2>1, <2>2, StoredWholeKept
<1> QED
  BY <1>1, <1>2, <1>3, <1>4, <1>6, <1>7, <1>8, <1>9, <1>10, <1>11 DEF LinkInv

\* What a client sends next follows what is on its way; in mode 1 it begins no
\* message before its last one is acknowledged.
LEMMA SendPieceKeeps ==
  ASSUME LinkInv, NEW c \in Conns, SendPiece(c)
  PROVE  LinkInv'
<1> USE DEF SendPiece
<1> DEFINE x == PieceAt(c, sent[c])
<1>0. /\ sent[c] \in Nat /\ x \in Pieces /\ inq[c] \in Seq(Pieces) /\ Len(inq[c]) \in Nat
      /\ sent'[c] = sent[c] + 1 /\ inq'[c] = Append(inq[c], x)
      /\ Len(inq'[c]) = Len(inq[c]) + 1 /\ inq'[c][Len(inq[c]) + 1] = x
      /\ \A k \in 1 .. Len(inq[c]) : inq'[c][k] = inq[c][k]
      /\ \A d \in Conns : d # c => sent'[d] = sent[d] /\ inq'[d] = inq[d]
  <2>1. sent[c] \in Nat /\ inq[c] \in Seq(Pieces)
    BY DEF LinkInv, TypeOK
  <2>2. x \in Pieces
    BY <2>1, PieceAtInPieces
  <2>3. /\ sent'[c] = sent[c] + 1 /\ inq'[c] = Append(inq[c], x)
        /\ \A d \in Conns : d # c => sent'[d] = sent[d] /\ inq'[d] = inq[d]
    BY DEF LinkInv, TypeOK
  <2> HIDE DEF x
  <2> QED
    BY <2>1, <2>2, <2>3, AppendProperties, LenProperties
<1> HIDE DEF x
<1>1. TypeOK'
  <2>1. inq' \in [Conns -> Seq(Pieces)]
    BY <1>0, AppendProperties DEF LinkInv, TypeOK
  <2>2. MaxBlocks * BlockPieces \in Nat
    BY LinkAssumption, SMT
  <2>3. sent' \in [Conns -> 0 .. RestartSize + MaxBlocks * BlockPieces]
    BY SMTT(15), <1>0, <2>2 DEF LinkInv, TypeOK, RestartSize
  <2> QED
    BY <2>1, <2>3 DEF LinkInv, TypeOK, server, loop
<1>2. StillListed'
  BY DEF LinkInv, StillListed, loop
<1>3. OneClientPerPort'
  BY DEF LinkInv, OneClientPerPort, ConnOf, server
<1>4. InTurn'
  BY <1>0 DEF LinkInv, InTurn
<1>5. WaitingBehind'
  <2>1. ASSUME NEW i \in Ports, NEW d \in Conns, WaitsOn(i, d)
        PROVE  WaitsOn(i, d)'
    BY <1>0, <2>1 DEF WaitsOn, Served, ConnOf, LastBlock, server
  <2> QED
    BY <2>1, StillWaiting
<1>6. InFlight'
  <2>1. Extent(handled[c]) + Len(inq'[c]) <= sent'[c]
    <3>0. handled[c] \in Nat
      BY DEF LinkInv, TypeOK
    <3>1. Extent(handled[c]) \in Nat
      BY <3>0, ExtentNext
    <3> QED
      BY <1>0, <3>1 DEF LinkInv, InFlight
  <2>2. \A k \in 1 .. Len(inq'[c]) :
          inq'[c][k] = PieceAt(c, sent'[c] - Len(inq'[c]) + k - 1)
    <3>1. ASSUME NEW k \in 1 .. Len(inq'[c])
          PROVE  inq'[c][k] = PieceAt(c, sent'[c] - Len(inq'[c]) + k - 1)
      <4>1. sent'[c] - Len(inq'[c]) + k - 1 = sent[c] - Len(inq[c]) + k - 1
        BY <1>0
      <4>2. CASE k = Len(inq[c]) + 1
        <5>1. sent[c] - Len(inq[c]) + k - 1 = sent[c]
          BY <1>0, <4>2
        <5> QED
          BY <1>0, <4>1, <4>2, <5>1 DEF x
      <4>3. CASE k # Len(inq[c]) + 1
        <5>1. k \in 1 .. Len(inq[c]) /\ inq'[c][k] = inq[c][k]
          BY <1>0, <4>3
        <5> QED
          BY <4>1, <5>1 DEF LinkInv, InFlight
      <4> QED
        BY <4>2, <4>3
    <3> QED
      BY <3>1
  <2>3. cmode[c] = 1 => sent'[c] <= Extent(acked[c] + 1)
    <3>1. SUFFICES ASSUME cmode[c] = 1 PROVE sent[c] + 1 <= Extent(acked[c] + 1)
      BY <1>0
    <3>0. acked[c] \in Nat
      BY DEF LinkInv, TypeOK
    <3>2. /\ acked[c] \in Nat /\ Extent(acked[c]) \in Nat /\ Extent(acked[c] + 1) \in Nat
          /\ Extent(acked[c]) < Extent(acked[c] + 1)
      BY <3>0, ExtentGrows
    <3>3. sent[c] # Extent(acked[c] + 1)
      <4>1. SUFFICES ASSUME sent[c] = Extent(acked[c] + 1) PROVE FALSE
        OBVIOUS
      <4>2. PieceAt(c, sent[c]).part = 1
        BY <1>0, <3>2, <4>1, FirstPiece
      <4>3. acked[c] = MessagesSent(c)
        BY <3>1, <4>2
      <4>4. sent[c] = Extent(MessagesSent(c))
        BY <1>0, <4>2, FirstPiece DEF MessagesSent
      <4> QED
        BY <3>2, <4>1, <4>3, <4>4
    <3> QED
      BY <1>0, <3>1, <3>2, <3>3 DEF LinkInv, InFlight
  <2>4. ASSUME NEW d \in Conns, d # c
        PROVE  /\ Extent(handled'[d]) + Len(inq'[d]) <= sent'[d]
               /\ acked'[d] <= handled'[d]
               /\ \A k \in 1 .. Len(inq'[d]) :
                    inq'[d][k] = PieceAt(d, sent'[d] - Len(inq'[d]) + k - 1)
               /\ cmode'[d] = 1 => sent'[d] <= Extent(acked'[d] + 1)
    BY <1>0, <2>4 DEF LinkInv, InFlight
  <2> QED
    BY <2>1, <2>2, <2>3, <2>4 DEF LinkInv, InFlight, PieceAt, Extent
<1>7. Reassembly'
  <2>1. \A d \in Conns : sent'[d] - Len(inq'[d]) = sent[d] - Len(inq[d])
    BY <1>0
  <2>2. \A i \in Ports : Served(i) => ConnOf(i) \in Conns
    BY ServedConn
  <2> QED
    BY <2>1, <2>2 DEF LinkInv, Reassembly, ConnOf, PieceAt, Served, server
<1>8. AckPerMessage'
  BY DEF LinkInv, AckPerMessage, ConnOf, server
<1>9. StoredLast'
  BY DEF LinkInv, StoredLast, Served, ConnOf, LastBlock, server
<1>10. StoredWhole'
  <2>1. StoredWhole
    BY DEF LinkInv
  <2>2. stored' = stored /\ cport' = cport
    BY DEF clients
  <2> QED
    BY <2>1, <2>2, StoredWholeKept
<1> QED
  BY <1>1, <1>2, <1>3, <1>4, <1>5, <1>6, <1>7, <1>8, <1>9, <1>10 DEF LinkInv

\* A client that goes leaves what it sent.
LEMMA FinishKeeps ==
  ASSUME LinkInv, NEW c \in Conns, Finish(c)
  PROVE  LinkInv'
<1> USE DEF Finish
<1>0. \A d : (cstate'[d] = "new") <=> (cstate[d] = "new")
  BY DEF LinkInv, TypeOK
<1>1. TypeOK'
  BY DEF LinkInv, TypeOK, server, loop
<1>2. StillListed'
  BY DEF LinkInv, StillListed, loop
<1>3. OneClientPerPort'
  BY DEF LinkInv, OneClientPerPort, ConnOf, server
<1>4. InTurn'
  BY <1>0 DEF LinkInv, InTurn
<1>5. WaitingBehind'
  <2>1. ASSUME NEW i \in Ports, NEW d \in Conns, WaitsOn(i, d)
        PROVE  WaitsOn(i, d)'
    BY <1>0, <2>1 DEF WaitsOn, Served, ConnOf, LastBlock, server
  <2> QED
    BY <2>1, StillWaiting
<1>6. InFlight'
  BY DEF LinkInv, InFlight, PieceAt
<1>7. Reassembly'
  BY DEF LinkInv, Reassembly, ConnOf, PieceAt, server
<1>8. AckPerMessage'
  BY DEF LinkInv, AckPerMessage, ConnOf, server
<1>9. StoredLast'
  BY <1>0 DEF LinkInv, StoredLast, Served, ConnOf, LastBlock, server
<1>10. StoredWhole'
  <2>1. StoredWhole
    BY DEF LinkInv
  <2>2. stored' = stored /\ cport' = cport
    BY DEF clients
  <2> QED
    BY <2>1, <2>2, StoredWholeKept
<1> QED
  BY <1>1, <1>2, <1>3, <1>4, <1>5, <1>6, <1>7, <1>8, <1>9, <1>10 DEF LinkInv

-----------------------------------------------------------------------------
(* Listen_Socket and a client that is gone                                  *)

\* A new client takes over its port; every other port keeps its own.
LEMMA AcceptKeeps ==
  ASSUME LinkInv, ListenTurn, port \in listenfds
  PROVE  LinkInv'
<1>0. port \in Ports /\ backlog[port] # <<>> /\ backlog[port] \in Seq(Conns)
  <2>1. port \in Ports /\ backlog[port] \in Seq(Conns) /\ pc = "listen"
    BY DEF LinkInv, TypeOK, ListenTurn
  <2>2. port >= port
    BY <2>1 DEF Ports
  <2> QED
    BY <2>1, <2>2 DEF LinkInv, StillListed
<1> USE DEF ListenTurn, Accept, ResetPort
<1>a. PICK c \in Conns : c = Head(backlog[port])
  BY <1>0, HeadTailProperties
<1>b. PICK f \in Fds : f = LowestFree(Dropped) /\ Dropped[f] = 0
  BY <1>0, DescriptorFree
<1>1. /\ 1 \in 1 .. Len(backlog[port]) /\ backlog[port][1] = c
      /\ Len(backlog[port]) \in Nat /\ Len(backlog[port]) >= 1
      /\ Tail(backlog[port]) \in Seq(Conns)
      /\ Len(Tail(backlog[port])) = Len(backlog[port]) - 1
      /\ \A k \in 1 .. Len(backlog[port]) - 1 : Tail(backlog[port])[k] = backlog[port][k + 1]
  <2>1. Len(backlog[port]) \in Nat /\ Len(backlog[port]) >= 1
    BY <1>0, EmptySeq
  <2>2. backlog[port][1] = c
    BY <1>0, <1>a
  <2>3. /\ Tail(backlog[port]) \in Seq(Conns)
        /\ Len(Tail(backlog[port])) = Len(backlog[port]) - 1
        /\ \A k \in 1 .. Len(Tail(backlog[port])) : Tail(backlog[port])[k] = backlog[port][k + 1]
    BY <1>0, HeadTailProperties
  <2> QED
    BY <2>1, <2>2, <2>3
<1>2. WaitsOn(port, c)
  BY <1>0, <1>1 DEF LinkInv, WaitingBehind
<1>3. /\ fdconn' = [Dropped EXCEPT ![f] = c] /\ Dropped \in [Fds -> Conns \cup {0}]
      /\ fdconn'[f] = c /\ \A g \in Fds : g # f => fdconn'[g] = Dropped[g]
      /\ c # 0
  <2>1. Dropped \in [Fds -> Conns \cup {0}]
    BY DEF LinkInv, TypeOK, Dropped, Closed
  <2>2. fdconn' = [Dropped EXCEPT ![f] = c]
    BY <1>a, <1>b
  <2> QED
    BY <2>1, <2>2 DEF Conns
<1>4. /\ msg_socket'[port] = f /\ SocketConnected'[port] = 2 /\ Done'[port] = 0
      /\ TransferSize'[port] = RestartSize /\ ACKneeded'[port] = FALSE
      /\ backlog'[port] = Tail(backlog[port])
  BY <1>0, <1>b DEF LinkInv, TypeOK
<1>5. ASSUME NEW i \in Ports, i # port
      PROVE  /\ msg_socket'[i] = msg_socket[i] /\ SocketConnected'[i] = SocketConnected[i]
             /\ Done'[i] = Done[i] /\ TransferSize'[i] = TransferSize[i]
             /\ ACKneeded'[i] = ACKneeded[i] /\ backlog'[i] = backlog[i]
             /\ data_buffer'[i] = data_buffer[i]
  BY <1>5 DEF LinkInv, TypeOK
<1>6. ASSUME NEW i \in Ports, i # port, Served(i)
      PROVE  ConnOf(i)' = ConnOf(i) /\ msg_socket[i] # f
  <2>1. Dropped[msg_socket[i]] = ConnOf(i) /\ ConnOf(i) # 0
    <3>1. msg_socket[i] \in Fds /\ ConnOf(i) \in Conns
      BY <1>6, ServedConn
    <3>2. SocketConnected[port] = 2 => msg_socket[i] # msg_socket[port]
      BY <1>0, <1>6, ServedApart DEF Served
    <3> QED
      BY SMTT(15), <3>1, <3>2 DEF Dropped, Closed, ConnOf, Conns, LinkInv, TypeOK
  <2> QED
    BY <1>b, <1>3, <1>5, <1>6, <2>1, ServedConn DEF ConnOf
<1>7. ConnOf(port)' = c
  BY <1>3, <1>4 DEF ConnOf
<1> HIDE DEF ListenTurn, Accept, ResetPort
<1>8. /\ UNCHANGED <<data_buffer, clients, inq, acked, handled, stored, port, listenfds,
                     readfds, writefds>>
      /\ pc = "listen" /\ pc' = "read"
  BY DEF ListenTurn, Accept
<1>9. TypeOK'
  <2>1. fdconn' \in [Fds -> Conns \cup {0}]
    BY <1>3
  <2>2. msg_socket' \in [Ports -> Fds \cup {0}]
    BY ZenonT(40), <1>b DEF LinkInv, TypeOK, ListenTurn, Accept
  <2>3. backlog' \in [Ports -> Seq(Conns)]
    BY <1>0, <1>1 DEF LinkInv, TypeOK, ListenTurn, Accept
  <2>4. SocketConnected' \in [Ports -> {0, 1, 2}]
    BY DEF LinkInv, TypeOK, ListenTurn, Accept
  <2>5. TransferSize' \in [Ports -> {RestartSize, BlockPieces}]
    BY DEF LinkInv, TypeOK, ListenTurn, Accept, ResetPort
  <2>6. Done' \in [Ports -> 0 .. BlockPieces]
    <3>1. 0 \in 0 .. BlockPieces
      BY LinkAssumption
    <3>2. Done \in [Ports -> 0 .. BlockPieces]
      BY DEF LinkInv, TypeOK
    <3> QED
      BY ZenonT(40), <3>1, <3>2 DEF ListenTurn, Accept, ResetPort
  <2>7. ReadEnable' \in [Ports -> BOOLEAN] /\ ACKneeded' \in [Ports -> BOOLEAN]
    BY DEF LinkInv, TypeOK, ListenTurn, Accept, ResetPort
  <2> QED
    BY <1>8, <2>1, <2>2, <2>3, <2>4, <2>5, <2>6, <2>7 DEF LinkInv, TypeOK, clients
<1>10. StillListed'
  <2>1. SUFFICES ASSUME NEW i \in listenfds, i > port PROVE backlog'[i] # <<>>
    BY <1>8 DEF StillListed
  <2>2. i \in Ports /\ i # port /\ i >= port
    BY <1>0, <2>1 DEF LinkInv, TypeOK, Ports
  <2> QED
    BY <1>5, <1>8, <2>2 DEF LinkInv, StillListed
<1>11. OneClientPerPort'
  <2>1. ASSUME NEW i \in Ports, SocketConnected'[i] = 2
        PROVE  msg_socket'[i] # 0 /\ ConnOf(i)' # 0 /\ cport'[ConnOf(i)'] = i
    <3>1. CASE i = port
      BY <1>2, <1>3, <1>4, <1>7, <1>8, <3>1 DEF WaitsOn, clients, Fds
    <3>2. CASE i # port
      <4>1. Served(i)
        BY <1>5, <2>1, <3>2 DEF Served
      <4> QED
        BY <1>5, <1>6, <1>8, <3>2, <4>1, ServedConn DEF clients, Fds, Conns
    <3> QED
      BY <3>1, <3>2
  <2>2. ASSUME NEW g \in Fds, fdconn'[g] # 0
        PROVE  \E i \in Ports : SocketConnected'[i] = 2 /\ msg_socket'[i] = g
                 /\ \A j \in Ports \ {i} : SocketConnected'[j] = 2 => msg_socket'[j] # g
    <3>1. CASE g = f
      <4>1. \A j \in Ports \ {port} : SocketConnected'[j] = 2 => msg_socket'[j] # f
        BY <1>5, <1>6 DEF Served
      <4> QED
        BY <1>0, <1>4, <3>1, <4>1
    <3>2. CASE g # f
      <4>1. Dropped[g] # 0
        BY <1>3, <2>2, <3>2
      <4>2. fdconn[g] # 0 /\ (SocketConnected[port] = 2 => g # msg_socket[port])
        BY <4>1 DEF Dropped, Closed, LinkInv, TypeOK
      <4>3. PICK i \in Ports : Served(i) /\ msg_socket[i] = g
                 /\ \A j \in Ports \ {i} : SocketConnected[j] = 2 => msg_socket[j] # g
        BY <4>2 DEF LinkInv, OneClientPerPort, Served
      <4>4. i # port
        BY <4>2, <4>3 DEF Served
      <4>5. \A j \in Ports \ {i} : SocketConnected'[j] = 2 => msg_socket'[j] # g
        BY <1>4, <1>5, <3>2, <4>3 DEF Served
      <4> QED
        BY <1>5, <4>3, <4>4, <4>5 DEF Served
    <3> QED
      BY <3>1, <3>2
  <2> QED
    BY <2>1, <2>2 DEF OneClientPerPort, ConnOf
<1>12. InTurn'
  <2>1. ASSUME NEW g \in Fds, fdconn'[g] # 0 PROVE cstate[fdconn'[g]] # "new"
    <3>1. CASE g = f
      BY <1>2, <1>3, <3>1 DEF WaitsOn
    <3>2. CASE g # f
      <4>1. fdconn'[g] = Dropped[g]
        BY <1>3, <3>2
      <4>2. fdconn'[g] = fdconn[g]
        BY <2>1, <4>1 DEF Dropped, Closed, LinkInv, TypeOK
      <4> QED
        BY <2>1, <4>2 DEF LinkInv, InTurn
    <3> QED
      BY <3>1, <3>2
  <2> QED
    BY <1>8, <2>1 DEF LinkInv, InTurn, clients
<1>13. WaitingBehind'
  <2>1. ASSUME NEW i \in Ports, i # port, NEW d \in Conns, WaitsOn(i, d)
        PROVE  WaitsOn(i, d)'
    BY <1>5, <1>6, <1>8, <2>1 DEF WaitsOn, Served, LastBlock, clients
  <2>2. ASSUME NEW k \in 1 .. Len(backlog'[port])
        PROVE  /\ WaitsOn(port, backlog[port][k + 1])
               /\ backlog'[port][k] = backlog[port][k + 1] /\ c < backlog[port][k + 1]
               /\ k + 1 \in 1 .. Len(backlog[port])
    <3>1. k + 1 \in 1 .. Len(backlog[port]) /\ k \in 1 .. Len(backlog[port]) - 1 /\ 1 < k + 1
      BY <1>1, <1>4
    <3> QED
      BY <1>0, <1>1, <1>4, <3>1 DEF LinkInv, WaitingBehind
  <2>3. ASSUME NEW k \in 1 .. Len(backlog'[port])
        PROVE  WaitsOn(port, backlog[port][k])'
    BY <1>4, <1>7, <1>8, <2>2 DEF WaitsOn, Served, LastBlock, clients
  <2>4. ASSUME NEW k \in 1 .. Len(backlog'[port]), NEW l \in 1 .. Len(backlog'[port]), k < l
        PROVE  backlog'[port][k] < backlog'[port][l]
    <3>1. k + 1 < l + 1
      BY <2>4
    <3> QED
      BY <1>0, <2>2, <2>4, <3>1 DEF LinkInv, WaitingBehind
  <2>5. ASSUME NEW i \in Ports, i # port, NEW k \in 1 .. Len(backlog'[i])
        PROVE  /\ WaitsOn(i, backlog[i][k])'
               /\ \A l \in 1 .. Len(backlog'[i]) : k < l => backlog'[i][k] < backlog'[i][l]
    <3>1. backlog'[i] = backlog[i]
      BY <1>5, <2>5
    <3>2. PICK d \in Conns : d = backlog[i][k]
      BY <3>1, ElementOfSeq DEF LinkInv, TypeOK
    <3>3. WaitsOn(i, d)'
      BY <2>1, <2>5, <3>1, <3>2 DEF LinkInv, WaitingBehind
    <3> QED
      BY <3>1, <3>2, <3>3 DEF LinkInv, WaitingBehind, WaitsOn
  <2>6. port' = port
    BY <1>8
  <2> QED
    BY <2>3, <2>4, <2>5, <2>6 DEF WaitingBehind, WaitsOn
<1>14. InFlight'
  BY <1>8 DEF LinkInv, InFlight, clients, PieceAt
<1>15. Reassembly'
  <2>1. ASSUME NEW i \in Ports, i # port, SocketConnected'[i] = 2
        PROVE  /\ Served(i) /\ ConnOf(i)' = ConnOf(i) /\ TransferSize'[i] = TransferSize[i]
               /\ Done'[i] = Done[i] /\ data_buffer'[i] = data_buffer[i]
    BY <1>5, <1>6, <2>1 DEF Served
  <2>2. handled[c] = 0 /\ sent[c] - Len(inq[c]) = 0
    BY <1>2 DEF WaitsOn, LinkInv, TypeOK
  <2>3. \A p \in 1 .. Done'[port] : FALSE
    BY <1>4
  <2> QED
    BY <1>4, <1>7, <1>8, <2>1, <2>2, <2>3 DEF LinkInv, Reassembly, Served, clients, PieceAt
<1>16. AckPerMessage'
  <2>1. ASSUME NEW i \in Ports, i # port, SocketConnected'[i] = 2
        PROVE  Served(i) /\ ConnOf(i)' = ConnOf(i) /\ ACKneeded'[i] = ACKneeded[i]
    BY <1>5, <1>6, <2>1 DEF Served
  <2>2. handled[c] = 0 /\ acked[c] = 0
    BY <1>2 DEF WaitsOn
  <2> QED
    BY <1>4, <1>7, <1>8, <2>1, <2>2 DEF LinkInv, AckPerMessage, Served, clients
<1>17. StoredLast'
  <2>1. ASSUME NEW i \in Ports, i # port, SocketConnected'[i] = 2
        PROVE  /\ Served(i) /\ ConnOf(i)' = ConnOf(i) /\ TransferSize'[i] = TransferSize[i]
               /\ Done'[i] = Done[i]
    BY <1>5, <1>6, <2>1 DEF Served
  <2>2. handled[c] = 0 /\ (stored[port] # <<>> => LastBlock(port).conn < c)
    BY <1>2 DEF WaitsOn
  <2>3. \A i \in Ports : LastBlock(i)' = LastBlock(i)
    BY <1>8 DEF LastBlock
  <2> QED
    BY <1>4, <1>7, <1>8, <2>1, <2>2, <2>3 DEF LinkInv, StoredLast, Served, RestartSize, clients
<1>18. StoredWhole'
  <2>1. StoredWhole
    BY DEF LinkInv
  <2>2. stored' = stored /\ cport' = cport
    BY <1>8 DEF clients
  <2> QED
    BY <2>1, <2>2, StoredWholeKept
<1> QED
  BY <1>9, <1>10, <1>11, <1>12, <1>13, <1>14, <1>15, <1>16, <1>17, <1>18 DEF LinkInv

\* A client that is gone leaves its port and its descriptor; nothing else changes.
LEMMA DisconnectKeeps ==
  ASSUME LinkInv, TypeOK', StillListed', Served(port), Disconnect,
         UNCHANGED <<msg_socket, TransferSize, Done, data_buffer, ACKneeded, backlog, clients,
                     inq, acked, handled, stored>>
  PROVE  LinkInv'
<1> USE DEF Disconnect
<1>0. port \in Ports /\ msg_socket[port] \in Fds
  BY ServedConn DEF LinkInv, TypeOK
<1>1. /\ SocketConnected'[port] = 0
      /\ \A g \in Fds : g # msg_socket[port] => fdconn'[g] = fdconn[g]
      /\ \A i \in Ports : i # port => SocketConnected'[i] = SocketConnected[i]
  BY <1>0 DEF LinkInv, TypeOK, Closed, Served
<1>2. ASSUME NEW i \in Ports, SocketConnected'[i] = 2
      PROVE  /\ i # port /\ Served(i) /\ ConnOf(i)' = ConnOf(i)
             /\ msg_socket[i] # msg_socket[port]
  <2>1. i # port /\ Served(i)
    BY <1>1, <1>2 DEF Served
  <2>2. msg_socket[i] # msg_socket[port] /\ msg_socket[i] \in Fds
    BY <1>0, <2>1, ServedApart, ServedConn
  <2> QED
    BY <1>1, <2>1, <2>2 DEF ConnOf
<1>3. fdconn'[msg_socket[port]] = 0
  BY <1>0 DEF LinkInv, TypeOK, Closed
<1> HIDE DEF Disconnect
<1>4. OneClientPerPort'
  <2>1. ASSUME NEW i \in Ports, SocketConnected'[i] = 2
        PROVE  msg_socket'[i] # 0 /\ ConnOf(i)' # 0 /\ cport'[ConnOf(i)'] = i
    BY <1>2, <2>1 DEF LinkInv, OneClientPerPort, Served, clients
  <2>2. ASSUME NEW g \in Fds, fdconn'[g] # 0
        PROVE  \E i \in Ports : SocketConnected'[i] = 2 /\ msg_socket'[i] = g
                 /\ \A j \in Ports \ {i} : SocketConnected'[j] = 2 => msg_socket'[j] # g
    <3>1. g # msg_socket[port] /\ fdconn[g] # 0
      BY <1>1, <1>3, <2>2
    <3>2. PICK i \in Ports : Served(i) /\ msg_socket[i] = g
                 /\ \A j \in Ports \ {i} : SocketConnected[j] = 2 => msg_socket[j] # g
      BY <3>1 DEF LinkInv, OneClientPerPort, Served
    <3>3. \A j \in Ports \ {i} : SocketConnected'[j] = 2 => msg_socket'[j] # g
      BY <1>2, <3>2 DEF Served
    <3> QED
      BY <1>1, <3>1, <3>2, <3>3 DEF Served
  <2> QED
    BY <2>1, <2>2 DEF OneClientPerPort, ConnOf
<1>5. InTurn'
  BY <1>1, <1>3 DEF LinkInv, InTurn, clients
<1>6. WaitingBehind'
  <2>1. ASSUME NEW i \in Ports, NEW d \in Conns, WaitsOn(i, d)
        PROVE  WaitsOn(i, d)'
    BY <1>2, <2>1 DEF WaitsOn, Served, LastBlock, clients
  <2> QED
    BY <2>1, StillWaiting
<1>7. InFlight'
  BY DEF LinkInv, InFlight, clients, PieceAt
<1>8. Reassembly'
  BY <1>2 DEF LinkInv, Reassembly, Served, clients, PieceAt
<1>9. AckPerMessage'
  BY <1>2 DEF LinkInv, AckPerMessage, Served, clients
<1>10. StoredLast'
  BY <1>2 DEF LinkInv, StoredLast, Served, LastBlock, clients
<1>11. StoredWhole'
  <2>1. StoredWhole
    BY DEF LinkInv
  <2>2. stored' = stored /\ cport' = cport
    BY DEF clients
  <2> QED
    BY <2>1, <2>2, StoredWholeKept
<1> QED
  BY <1>4, <1>5, <1>6, <1>7, <1>8, <1>9, <1>10, <1>11 DEF LinkInv

-----------------------------------------------------------------------------
(* Read_Socket and Write_Socket                                             *)

\* The pieces taken from a served connection are its whole messages and what
\* data_buffer holds of the next.
LEMMA TookSoFar ==
  ASSUME LinkInv, NEW i \in Ports, Served(i), NEW c \in Conns, c = ConnOf(i)
  PROVE  /\ sent[c] \in Nat /\ Len(inq[c]) \in Nat /\ handled[c] \in Nat /\ acked[c] \in Nat
         /\ Done[i] \in Nat /\ Extent(handled[c]) \in Nat
         /\ sent[c] = Done[i] + Extent(handled[c]) + Len(inq[c])
         /\ sent[c] - Len(inq[c]) = Done[i] + Extent(handled[c])
         /\ TransferSize[i] \in Nat /\ TransferSize[i] <= BlockPieces
         /\ TransferSize[i] = (IF handled[c] = 0 THEN RestartSize ELSE BlockPieces)
         /\ Extent(handled[c] + 1) = Extent(handled[c]) + TransferSize[i]
         /\ \A p \in 1 .. Done[i] : data_buffer[i][p] = PieceAt(c, Extent(handled[c]) + p - 1)
<1>1. /\ sent[c] \in Nat /\ handled[c] \in Nat /\ acked[c] \in Nat /\ Done[i] \in Nat
      /\ inq[c] \in Seq(Pieces)
  BY DEF LinkInv, TypeOK
<1>2. Len(inq[c]) \in Nat
  BY <1>1, LenProperties
<1>3. /\ Extent(handled[c]) \in Nat
      /\ Extent(handled[c] + 1) = Extent(handled[c]) + (IF handled[c] = 0 THEN RestartSize ELSE BlockPieces)
  BY <1>1, ExtentNext
<1>4. /\ TransferSize[i] = (IF handled[c] = 0 THEN RestartSize ELSE BlockPieces)
      /\ sent[c] - Len(inq[c]) = Done[i] + Extent(handled[c])
      /\ \A p \in 1 .. Done[i] :
           data_buffer[i][p] = PieceAt(c, sent[c] - Len(inq[c]) - Done[i] + p - 1)
  BY DEF LinkInv, Reassembly, Served, Extent
<1>5. sent[c] - Len(inq[c]) - Done[i] = Extent(handled[c])
  BY <1>1, <1>2, <1>3, <1>4
<1>6. sent[c] = Done[i] + Extent(handled[c]) + Len(inq[c])
  BY <1>1, <1>2, <1>3, <1>4, Z3
<1>7. TransferSize[i] \in Nat /\ TransferSize[i] <= BlockPieces
  BY <1>4, LinkAssumption DEF RestartSize
<1> QED
  BY <1>1, <1>2, <1>3, <1>4, <1>5, <1>6, <1>7

\* What recv hands over is the front of the queue, and it lands behind what was
\* there: the buffer holds the first pieces of the message under way.
LEMMA ReceiveFacts ==
  ASSUME LinkInv, Served(port), NEW c \in Conns, c = ConnOf(port),
         NEW n \in 1 .. TransferSize[port] - Done[port], n <= Len(inq[c]), Received(n)
  PROVE  /\ inq' \in [Conns -> Seq(Pieces)] /\ Len(inq'[c]) = Len(inq[c]) - n
         /\ \A k \in 1 .. Len(inq[c]) - n : inq'[c][k] = inq[c][k + n]
         /\ \A e \in Conns : e # c => inq'[e] = inq[e]
         /\ data_buffer' \in [Ports -> [1 .. BlockPieces -> Pieces \cup {NoPiece}]]
         /\ \A i \in Ports : i # port => data_buffer'[i] = data_buffer[i]
         /\ \A p \in 1 .. Done[port] + n :
              data_buffer'[port][p] = PieceAt(c, Extent(handled[c]) + p - 1)
         /\ IF Done[port] + n < TransferSize[port]
            THEN /\ Done' = [Done EXCEPT ![port] = Done[port] + n]
                 /\ UNCHANGED <<TransferSize, ACKneeded, handled, stored>>
            ELSE Complete(data_buffer'[port])
<1> DEFINE d == Done[port]
           block == [p \in 1 .. BlockPieces |->
                       IF p \in d + 1 .. d + n THEN inq[c][p - d] ELSE data_buffer[port][p]]
<1>0. port \in Ports
  BY DEF LinkInv, TypeOK
<1>1. /\ sent[c] \in Nat /\ Len(inq[c]) \in Nat /\ d \in Nat /\ Extent(handled[c]) \in Nat
      /\ sent[c] - Len(inq[c]) = d + Extent(handled[c])
      /\ TransferSize[port] \in Nat /\ TransferSize[port] <= BlockPieces /\ BlockPieces \in Nat
      /\ \A p \in 1 .. d : data_buffer[port][p] = PieceAt(c, Extent(handled[c]) + p - 1)
  BY <1>0, TookSoFar, LinkAssumption
<1>2. inq[c] \in Seq(Pieces) /\ inq \in [Conns -> Seq(Pieces)]
  BY DEF LinkInv, TypeOK
<1>3. \A k \in 1 .. Len(inq[c]) : inq[c][k] \in Pieces
  BY <1>2, ElementOfSeq
<1>4. /\ inq' = [inq EXCEPT ![c] = SubSeq(inq[c], n + 1, Len(inq[c]))]
      /\ data_buffer' = [data_buffer EXCEPT ![port] = block]
      /\ IF d + n < TransferSize[port]
         THEN /\ Done' = [Done EXCEPT ![port] = d + n]
              /\ UNCHANGED <<TransferSize, ACKneeded, handled, stored>>
         ELSE Complete(block)
  BY DEF Received
<1>5. /\ SubSeq(inq[c], n + 1, Len(inq[c])) \in Seq(Pieces)
      /\ Len(SubSeq(inq[c], n + 1, Len(inq[c]))) = Len(inq[c]) - n
      /\ \A k \in 1 .. Len(inq[c]) - n : SubSeq(inq[c], n + 1, Len(inq[c]))[k] = inq[c][k + n]
  <2>1. n + 1 \in Int /\ Len(inq[c]) \in Int /\ \A k \in n + 1 .. Len(inq[c]) : inq[c][k] \in Pieces
    BY <1>1, <1>3
  <2>2. /\ SubSeq(inq[c], n + 1, Len(inq[c])) \in Seq(Pieces)
        /\ Len(SubSeq(inq[c], n + 1, Len(inq[c])))
             = (IF n + 1 <= Len(inq[c]) THEN Len(inq[c]) - (n + 1) + 1 ELSE 0)
        /\ \A k \in 1 .. Len(inq[c]) - (n + 1) + 1 :
             SubSeq(inq[c], n + 1, Len(inq[c]))[k] = inq[c][(n + 1) + k - 1]
    BY <2>1, SubSeqProperties
  <2>3. Len(SubSeq(inq[c], n + 1, Len(inq[c]))) = Len(inq[c]) - n
    BY <1>1, <2>2
  <2>4. Len(inq[c]) - (n + 1) + 1 = Len(inq[c]) - n
    BY <1>1
  <2>5. \A k \in 1 .. Len(inq[c]) - n : (n + 1) + k - 1 = k + n
    BY <1>1
  <2>6. \A k \in 1 .. Len(inq[c]) - n :
           SubSeq(inq[c], n + 1, Len(inq[c]))[k] = inq[c][k + n]
    BY <2>2, <2>4, <2>5
  <2> QED
    BY <2>2, <2>3, <2>6
<1>6. /\ inq' \in [Conns -> Seq(Pieces)]
      /\ inq'[c] = SubSeq(inq[c], n + 1, Len(inq[c]))
      /\ \A e \in Conns : e # c => inq'[e] = inq[e]
  BY <1>2, <1>4, <1>5
<1>7. block \in [1 .. BlockPieces -> Pieces \cup {NoPiece}]
  <2>1. ASSUME NEW p \in 1 .. BlockPieces, p \in d + 1 .. d + n PROVE inq[c][p - d] \in Pieces
    <3>1. p - d \in 1 .. Len(inq[c])
      <4>1. d \in Int /\ n \in Int /\ Len(inq[c]) \in Int /\ n <= Len(inq[c])
        BY <1>1
      <4>2. \A x, m, l, y \in Int : m <= l /\ y \in x + 1 .. x + m => y - x \in 1 .. l
        OBVIOUS
      <4> QED
        BY <2>1, <4>1, <4>2
    <3> QED
      BY <1>3, <3>1
  <2>2. data_buffer[port] \in [1 .. BlockPieces -> Pieces \cup {NoPiece}]
    BY <1>0 DEF LinkInv, TypeOK
  <2> QED
    BY <2>1, <2>2
<1>8. ASSUME NEW p \in 1 .. d + n
      PROVE  block[p] = PieceAt(c, Extent(handled[c]) + p - 1)
  <2>1. p \in 1 .. BlockPieces
    BY <1>1
  <2>2. CASE p \in d + 1 .. d + n
    <3>1. p - d \in 1 .. Len(inq[c]) /\ block[p] = inq[c][p - d]
      BY SMTT(15), <1>1, <2>1, <2>2
    <3>2. inq[c][p - d] = PieceAt(c, sent[c] - Len(inq[c]) + (p - d) - 1)
      BY <3>1 DEF LinkInv, InFlight
    <3>3. sent[c] - Len(inq[c]) + (p - d) - 1 = Extent(handled[c]) + p - 1
      BY <1>1
    <3> QED
      BY <3>1, <3>2, <3>3
  <2>3. CASE p \notin d + 1 .. d + n
    <3>1. p \in 1 .. d
      BY <1>1, <2>3
    <3> QED
      BY <1>1, <2>1, <2>3, <3>1
  <2> QED
    BY <2>2, <2>3
<1> HIDE DEF block
<1>9. /\ data_buffer' \in [Ports -> [1 .. BlockPieces -> Pieces \cup {NoPiece}]]
      /\ data_buffer'[port] = block
      /\ \A i \in Ports : i # port => data_buffer'[i] = data_buffer[i]
  BY <1>0, <1>4, <1>7 DEF LinkInv, TypeOK
<1> QED
  BY <1>4, <1>5, <1>6, <1>8, <1>9

\* Pieces received, whoever they complete, come off one queue only.
LEMMA ReceivedKeepsQueues ==
  ASSUME LinkInv, NEW c \in Conns, Served(port), c = ConnOf(port),
         NEW n \in Nat, Len(inq'[c]) = Len(inq[c]) - n, n <= Len(inq[c]),
         \A k \in 1 .. Len(inq[c]) - n : inq'[c][k] = inq[c][k + n],
         \A e \in Conns : e # c => inq'[e] = inq[e] /\ handled'[e] = handled[e],
         handled'[c] \in Nat, handled[c] <= handled'[c],
         Extent(handled'[c]) + Len(inq'[c]) <= sent[c],
         UNCHANGED <<clients, acked>>
  PROVE  InFlight'
<1>1. /\ sent[c] \in Nat /\ Len(inq[c]) \in Nat /\ handled[c] \in Nat /\ acked[c] \in Nat
  BY TookSoFar DEF LinkInv, TypeOK
<1>2. \A k \in 1 .. Len(inq'[c]) : inq'[c][k] = PieceAt(c, sent[c] - Len(inq'[c]) + k - 1)
  <2>1. SUFFICES ASSUME NEW k \in 1 .. Len(inq[c]) - n
                 PROVE  inq'[c][k] = PieceAt(c, sent[c] - Len(inq'[c]) + k - 1)
    OBVIOUS
  <2>2. k + n \in 1 .. Len(inq[c]) /\ inq'[c][k] = inq[c][k + n]
    BY <1>1, <2>1
  <2>3. inq[c][k + n] = PieceAt(c, sent[c] - Len(inq[c]) + (k + n) - 1)
    BY <2>2 DEF LinkInv, InFlight
  <2>4. sent[c] - Len(inq[c]) + (k + n) - 1 = sent[c] - Len(inq'[c]) + k - 1
    BY <1>1
  <2> QED
    BY <2>2, <2>3, <2>4
<1>3. acked[c] <= handled'[c]
  BY <1>1 DEF LinkInv, InFlight
<1>4. ASSUME NEW e \in Conns
      PROVE  /\ Extent(handled'[e]) + Len(inq'[e]) <= sent[e]
             /\ acked[e] <= handled'[e]
             /\ \A k \in 1 .. Len(inq'[e]) : inq'[e][k] = PieceAt(e, sent[e] - Len(inq'[e]) + k - 1)
             /\ cmode[e] = 1 => sent[e] <= Extent(acked[e] + 1)
  <2>1. CASE e = c
    BY <1>2, <1>3, <2>1 DEF LinkInv, InFlight
  <2>2. CASE e # c
    BY <2>2 DEF LinkInv, InFlight
  <2> QED
    BY <2>1, <2>2
<1>5. sent' = sent /\ acked' = acked /\ cmode' = cmode
  BY DEF clients
<1> QED
  BY <1>4, <1>5 DEF InFlight, PieceAt, Extent

\* Part of a message: it waits in data_buffer.
LEMMA PartKeeps ==
  ASSUME LinkInv, ReadTurn, ReadSelected, NEW c \in Conns, c = ConnOf(port),
         NEW n \in 1 .. TransferSize[port] - Done[port], n <= Len(inq[c]), Received(n),
         UNCHANGED <<fdconn, SocketConnected>>, Done[port] + n < TransferSize[port]
  PROVE  LinkInv'
<1>0. port \in Ports /\ Served(port)
  BY DEF LinkInv, TypeOK, ReadSelected, Served
<1>1. /\ sent[c] \in Nat /\ Len(inq[c]) \in Nat /\ handled[c] \in Nat /\ acked[c] \in Nat
      /\ Done[port] \in Nat /\ Extent(handled[c]) \in Nat
      /\ sent[c] = Done[port] + Extent(handled[c]) + Len(inq[c])
      /\ TransferSize[port] \in Nat /\ TransferSize[port] <= BlockPieces /\ BlockPieces \in Nat
  BY <1>0, TookSoFar, LinkAssumption
<1>2. /\ inq' \in [Conns -> Seq(Pieces)] /\ Len(inq'[c]) = Len(inq[c]) - n
      /\ \A k \in 1 .. Len(inq[c]) - n : inq'[c][k] = inq[c][k + n]
      /\ \A e \in Conns : e # c => inq'[e] = inq[e]
      /\ data_buffer' \in [Ports -> [1 .. BlockPieces -> Pieces \cup {NoPiece}]]
      /\ \A i \in Ports : i # port => data_buffer'[i] = data_buffer[i]
      /\ \A p \in 1 .. Done[port] + n :
           data_buffer'[port][p] = PieceAt(c, Extent(handled[c]) + p - 1)
      /\ Done' = [Done EXCEPT ![port] = Done[port] + n]
      /\ UNCHANGED <<TransferSize, ACKneeded, handled, stored>>
  BY <1>0, ReceiveFacts
<1>3. /\ UNCHANGED <<fdconn, SocketConnected, msg_socket, ReadEnable, port, listenfds, readfds,
                     writefds, backlog, clients, acked>>
      /\ pc = "read" /\ pc' = "write"
  BY DEF ReadTurn
<1>a. n \in Nat /\ Done[port] + n \in Nat /\ Done[port] + n \in 0 .. BlockPieces
  BY SMTT(15), <1>1
<1>b. Len(inq'[c]) = Len(inq[c]) - n
  BY <1>2
<1>c. sent[c] - Len(inq'[c]) = Done[port] + n + Extent(handled[c])
  <2>1. \A a, d, x, l \in Nat : a = d + x + l => a - (l - n) = d + n + x
    BY <1>a
  <2>2. sent[c] - (Len(inq[c]) - n) = Done[port] + n + Extent(handled[c])
    BY <1>1, <2>1
  <2> QED
    BY <1>b, <2>2
<1>4. /\ Done'[port] = Done[port] + n
      /\ \A i \in Ports : i # port => Done'[i] = Done[i]
      /\ Done' \in [Ports -> 0 .. BlockPieces]
  BY <1>0, <1>2, <1>a DEF LinkInv, TypeOK
<1>5. \A i \in Ports : Served(i)' = Served(i) /\ ConnOf(i)' = ConnOf(i)
                       /\ LastBlock(i)' = LastBlock(i)
  BY <1>2, <1>3 DEF Served, ConnOf, LastBlock
<1>6. \A i \in Ports : Served(i) /\ i # port => ConnOf(i) \in Conns /\ ConnOf(i) # c
  BY <1>0, ServedApart, ServedConn
<1>7. TypeOK'
  BY <1>2, <1>3, <1>4 DEF LinkInv, TypeOK, clients
<1>8. StillListed'
  <2>1. \A i \in Ports : i > port => i >= port
    BY DEF LinkInv, TypeOK, Ports
  <2> QED
    BY <1>3, <2>1 DEF LinkInv, TypeOK, StillListed
<1>9. OneClientPerPort'
  BY <1>3 DEF LinkInv, OneClientPerPort, ConnOf, clients
<1>10. InTurn'
  BY <1>2, <1>3 DEF LinkInv, InTurn, clients
<1>11. WaitingBehind'
  <2>1. ASSUME NEW i \in Ports, NEW d \in Conns, WaitsOn(i, d)
        PROVE  WaitsOn(i, d)'
    <3>1. d # c
      <4>1. SUFFICES ASSUME d = c PROVE FALSE
        OBVIOUS
      <4>2. i = port /\ c < c
        BY <1>0, <2>1, <4>1, ServedConn DEF WaitsOn
      <4> QED
        BY <4>2 DEF Conns
    <3> QED
      BY <1>2, <1>3, <1>5, <2>1, <3>1 DEF WaitsOn, clients
  <2> QED
    BY <1>3, <2>1, StillWaiting
<1>12. InFlight'
  <2>1. Extent(handled'[c]) + Len(inq'[c]) <= sent[c]
    <3>1. handled' = handled
      BY <1>2
    <3>2. Extent(handled[c]) + Len(inq'[c]) <= sent[c]
      BY SMTT(15), <1>1, <1>a, <1>b
    <3> QED
      BY <3>1, <3>2
  <2>2. \A e \in Conns : e # c => inq'[e] = inq[e] /\ handled'[e] = handled[e]
    BY <1>2
  <2>3. handled'[c] \in Nat /\ handled[c] <= handled'[c]
    BY <1>1, <1>2
  <2>4. \A k \in 1 .. Len(inq[c]) - n : inq'[c][k] = inq[c][k + n]
    BY <1>2
  <2> QED
    BY <1>0, <1>3, <1>a, <1>b, <2>1, <2>2, <2>3, <2>4, ReceivedKeepsQueues
<1>13. Reassembly'
  <2>1. ASSUME NEW i \in Ports, Served(i), NEW e \in Conns, e = ConnOf(i)
        PROVE  /\ TransferSize[i] = (IF handled[e] = 0 THEN RestartSize ELSE BlockPieces)
               /\ sent[e] - Len(inq'[e]) = Done'[i]
                    + (IF handled[e] = 0 THEN 0 ELSE RestartSize + (handled[e] - 1) * BlockPieces)
               /\ \A p \in 1 .. Done'[i] : data_buffer'[i][p] =
                    PieceAt(e, (sent[e] - Len(inq'[e])) - Done'[i] + p - 1)
    <3>1. CASE i = port
      <4>1. e = c /\ sent[c] - Len(inq'[c]) = Done'[port] + Extent(handled[c])
        BY <1>4, <1>c, <2>1, <3>1
      <4>2. (sent[c] - Len(inq'[c])) - Done'[port] = Extent(handled[c])
        BY <1>1, <1>4, <1>a, <1>c
      <4>3. TransferSize[i] = (IF handled[e] = 0 THEN RestartSize ELSE BlockPieces)
        BY <2>1 DEF LinkInv, Reassembly, Served
      <4>4. sent[e] - Len(inq'[e]) = Done'[i]
              + (IF handled[e] = 0 THEN 0 ELSE RestartSize + (handled[e] - 1) * BlockPieces)
        BY <3>1, <4>1 DEF Extent
      <4>5. \A p \in 1 .. Done'[port] : data_buffer'[port][p] = PieceAt(c, Extent(handled[c]) + p - 1)
        BY <1>2, <1>4
      <4>6. \A p \in 1 .. Done'[port] :
              data_buffer'[port][p] = PieceAt(c, (sent[c] - Len(inq'[c])) - Done'[port] + p - 1)
        BY <4>2, <4>5
      <4> QED
        BY <3>1, <4>1, <4>3, <4>4, <4>6
    <3>2. CASE i # port
      <4>1. e # c /\ inq'[e] = inq[e] /\ Done'[i] = Done[i] /\ data_buffer'[i] = data_buffer[i]
        BY <1>2, <1>4, <1>6, <2>1, <3>2
      <4> QED
        BY <2>1, <4>1 DEF LinkInv, Reassembly, Served
    <3> QED
      BY <3>1, <3>2
  <2>2. \A i \in Ports : Served(i) => ConnOf(i) \in Conns
    BY ServedConn
  <2> QED
    BY <1>2, <1>3, <1>5, <2>1, <2>2 DEF Reassembly, Served, PieceAt, clients
<1>14. AckPerMessage'
  BY <1>2, <1>3, <1>5 DEF LinkInv, AckPerMessage, Served, clients
<1>15. StoredLast'
  BY <1>0, <1>2, <1>3, <1>4, <1>5 DEF LinkInv, StoredLast, clients
<1>16. StoredWhole'
  <2>1. StoredWhole
    BY DEF LinkInv
  <2>2. stored' = stored /\ cport' = cport
    BY <1>2, <1>3 DEF clients
  <2> QED
    BY <2>1, <2>2, StoredWholeKept
<1> QED
  BY <1>7, <1>8, <1>9, <1>10, <1>11, <1>12, <1>13, <1>14, <1>15, <1>16 DEF LinkInv

\* What is stored last on a served port.
LEMMA StoredLastOf ==
  ASSUME LinkInv, NEW i \in Ports, Served(i), NEW c \in Conns, c = ConnOf(i)
  PROVE  /\ Done[i] < TransferSize[i]
         /\ handled[c] <= 1 /\ stored[i] # <<>> => LastBlock(i).conn < c
         /\ handled[c] > 1 => stored[i] # <<>> /\ LastBlock(i) = Piece(c, handled[c] - 1, 1)
BY DEF LinkInv, StoredLast

\* A whole message: the restart message sets the size, a block is stored behind
\* the one before it, and in mode 1 an acknowledgement is owed for it alone.
LEMMA WholeKeeps ==
  ASSUME LinkInv, ReadTurn, ReadSelected, NEW c \in Conns, c = ConnOf(port),
         NEW n \in 1 .. TransferSize[port] - Done[port], n <= Len(inq[c]), Received(n),
         UNCHANGED <<fdconn, SocketConnected>>, ~(Done[port] + n < TransferSize[port])
  PROVE  LinkInv'
<1>h. PICK h \in Nat : h = handled[c]
  BY DEF LinkInv, TypeOK
<1>0. port \in Ports /\ Served(port) /\ cport[c] = port /\ cstate[c] # "new"
  BY ServedConn DEF LinkInv, TypeOK, ReadSelected, Served
<1>1. /\ sent[c] \in Nat /\ Len(inq[c]) \in Nat /\ h \in Nat /\ acked[c] \in Nat
      /\ Done[port] \in Nat /\ Extent(h) \in Nat
      /\ sent[c] = Done[port] + Extent(h) + Len(inq[c])
      /\ TransferSize[port] \in Nat /\ TransferSize[port] <= BlockPieces
      /\ TransferSize[port] = (IF h = 0 THEN RestartSize ELSE BlockPieces)
      /\ Extent(h + 1) = Extent(h) + TransferSize[port]
  BY <1>0, <1>h, TookSoFar
<1>2. /\ inq' \in [Conns -> Seq(Pieces)] /\ Len(inq'[c]) = Len(inq[c]) - n
      /\ \A k \in 1 .. Len(inq[c]) - n : inq'[c][k] = inq[c][k + n]
      /\ \A e \in Conns : e # c => inq'[e] = inq[e]
      /\ data_buffer' \in [Ports -> [1 .. BlockPieces -> Pieces \cup {NoPiece}]]
      /\ \A i \in Ports : i # port => data_buffer'[i] = data_buffer[i]
      /\ \A p \in 1 .. Done[port] + n : data_buffer'[port][p] = PieceAt(c, Extent(h) + p - 1)
      /\ Complete(data_buffer'[port])
  BY <1>0, <1>h, ReceiveFacts
<1>3. /\ UNCHANGED <<fdconn, SocketConnected, msg_socket, ReadEnable, port, listenfds, readfds,
                     writefds, backlog, clients, acked>>
      /\ pc = "read" /\ pc' = "write"
  BY DEF ReadTurn
<1>4. n \in Nat /\ Done[port] + n = TransferSize[port]
  BY SMTT(15), <1>1
<1>5. Len(inq'[c]) = Len(inq[c]) - n
  BY <1>2
<1>6. sent[c] = Extent(h + 1) + Len(inq'[c])
  <2>1. sent[c] = Done[port] + n + Extent(h) + Len(inq'[c])
    BY <1>1, <1>4, <1>5, Z3
  <2> QED
    BY <1>1, <1>4, <2>1, Z3
<1>7. BlockPieces \in Nat /\ BlockPieces >= 1 /\ MaxBlocks \in Nat /\ RestartSize = 1
  BY LinkAssumption DEF RestartSize
<1>8. /\ Done' = [Done EXCEPT ![port] = 0]
      /\ handled' = [handled EXCEPT ![c] = h + 1]
      /\ ACKneeded' = [ACKneeded EXCEPT ![port] = ACKneeded[port] \/ cmode[c] = 1]
  BY <1>2, <1>h DEF Complete, Between
<1>9. /\ Done'[port] = 0 /\ \A i \in Ports : i # port => Done'[i] = Done[i]
      /\ handled'[c] = h + 1 /\ \A e \in Conns : e # c => handled'[e] = handled[e]
      /\ ACKneeded'[port] = (ACKneeded[port] \/ cmode[c] = 1)
      /\ \A i \in Ports : i # port => ACKneeded'[i] = ACKneeded[i]
      /\ Done' \in [Ports -> 0 .. BlockPieces] /\ ACKneeded' \in [Ports -> BOOLEAN]
  <2>1. 0 \in 0 .. BlockPieces
    BY <1>7
  <2>2. Done' \in [Ports -> 0 .. BlockPieces] /\ Done'[port] = 0
        /\ \A i \in Ports : i # port => Done'[i] = Done[i]
    BY <1>0, <1>8, <2>1 DEF LinkInv, TypeOK
  <2>3. handled'[c] = h + 1 /\ \A e \in Conns : e # c => handled'[e] = handled[e]
    BY <1>8 DEF LinkInv, TypeOK
  <2>4. /\ ACKneeded'[port] = (ACKneeded[port] \/ cmode[c] = 1)
        /\ \A i \in Ports : i # port => ACKneeded'[i] = ACKneeded[i]
        /\ ACKneeded' \in [Ports -> BOOLEAN]
    BY <1>0, <1>8 DEF LinkInv, TypeOK
  <2> QED
    BY <2>2, <2>3, <2>4
<1>10. /\ h = 0 => data_buffer'[port][1] = Piece(c, 0, 1)
       /\ h # 0 => data_buffer'[port] = BlockOf(c, h)
  <2>1. ASSUME h = 0 PROVE data_buffer'[port][1] = Piece(c, 0, 1)
    <3>1. 1 \in 1 .. Done[port] + n /\ Extent(h) + 1 - 1 = 0
      BY <1>1, <1>4, <1>7, <2>1 DEF Extent
    <3> QED
      BY <1>2, <3>1 DEF PieceAt
  <2>2. ASSUME h # 0 PROVE data_buffer'[port] = BlockOf(c, h)
    <3>1. h >= 1 /\ TransferSize[port] = BlockPieces
      BY <1>1, <2>2
    <3>2. \A p \in 1 .. BlockPieces : data_buffer'[port][p] = Piece(c, h, p)
      <4>1. SUFFICES ASSUME NEW p \in 1 .. BlockPieces
                     PROVE  data_buffer'[port][p] = Piece(c, h, p)
        OBVIOUS
      <4>2. p \in 1 .. Done[port] + n
        BY <1>4, <3>1
      <4>3. PieceAt(c, Extent(h) + p - 1) = Piece(c, h, p)
        BY <3>1, PieceOfBlock
      <4> QED
        BY <1>2, <4>2, <4>3
    <3>3. data_buffer'[port] \in [1 .. BlockPieces -> Pieces \cup {NoPiece}]
      BY <1>0, <1>2
    <3> QED
      BY <3>2, <3>3 DEF BlockOf
  <2> QED
    BY <2>1, <2>2
<1>11. /\ h = 0 => TransferSize' = [TransferSize EXCEPT ![port] = BlockPieces] /\ stored' = stored
       /\ h # 0 => /\ TransferSize' = TransferSize
                   /\ stored' = [stored EXCEPT ![port] = Append(stored[port], BlockOf(c, h))]
  <2>1. h # 0 => BlockOf(c, h)[1].blk = h
    BY <1>7 DEF BlockOf, Piece
  <2>2. Piece(c, 0, 1).blk = 0
    BY DEF Piece
  <2> QED
    BY <1>2, <1>10, <2>1, <2>2 DEF Complete
<1>12. /\ TransferSize'[port] = BlockPieces
       /\ \A i \in Ports : i # port => TransferSize'[i] = TransferSize[i]
       /\ TransferSize' \in [Ports -> {RestartSize, BlockPieces}]
  BY <1>0, <1>1, <1>11 DEF LinkInv, TypeOK
<1>13. h + 1 \in 0 .. MaxBlocks + 1
  <2>1. sent[c] <= Extent(MaxBlocks + 1)
    <3>1. Extent(MaxBlocks + 1) = RestartSize + MaxBlocks * BlockPieces
      BY <1>7 DEF Extent
    <3> QED
      BY <3>1 DEF LinkInv, TypeOK
  <2>2. h + 1 \in Nat /\ MaxBlocks + 1 \in Nat
    BY <1>1, <1>7
  <2>3. Extent(h + 1) \in Nat /\ Extent(MaxBlocks + 1) \in Nat /\ Len(inq'[c]) \in Nat
    <3>1. inq'[c] \in Seq(Pieces)
      BY <1>2
    <3> QED
      BY <2>2, <3>1, ExtentNext, LenProperties
  <2>4. Extent(h + 1) <= Extent(MaxBlocks + 1)
    BY <1>6, <2>1, <2>3, Z3
  <2>5. h + 1 <= MaxBlocks + 1
    BY <2>2, <2>4, ExtentMonotone
  <2> QED
    BY <2>2, <2>5
<1>14. BlockOf(c, h) \in [1 .. BlockPieces -> Pieces \cup {NoPiece}] \/ h = 0
  BY <1>0, <1>2, <1>10
<1>15. /\ stored' \in [Ports -> Seq([1 .. BlockPieces -> Pieces \cup {NoPiece}])]
       /\ \A i \in Ports : i # port => stored'[i] = stored[i]
       /\ h # 0 => /\ Len(stored'[port]) = Len(stored[port]) + 1
                   /\ Len(stored[port]) \in Nat
                   /\ stored'[port][Len(stored[port]) + 1] = BlockOf(c, h)
                   /\ stored'[port] # <<>>
                   /\ \A k \in 1 .. Len(stored[port]) : stored'[port][k] = stored[port][k]
  <2>1. CASE h = 0
    BY <1>11, <2>1 DEF LinkInv, TypeOK
  <2>2. CASE h # 0
    <3>1. stored[port] \in Seq([1 .. BlockPieces -> Pieces \cup {NoPiece}])
      BY <1>0 DEF LinkInv, TypeOK
    <3>2. BlockOf(c, h) \in [1 .. BlockPieces -> Pieces \cup {NoPiece}]
      BY <1>14, <2>2
    <3>3. /\ Append(stored[port], BlockOf(c, h)) \in Seq([1 .. BlockPieces -> Pieces \cup {NoPiece}])
          /\ Append(stored[port], BlockOf(c, h)) # <<>>
          /\ Len(Append(stored[port], BlockOf(c, h))) = Len(stored[port]) + 1
          /\ \A k \in 1 .. Len(stored[port]) : Append(stored[port], BlockOf(c, h))[k] = stored[port][k]
          /\ Append(stored[port], BlockOf(c, h))[Len(stored[port]) + 1] = BlockOf(c, h)
          /\ Len(stored[port]) \in Nat
      BY <3>1, <3>2, AppendProperties, LenProperties
    <3>4. /\ stored'[port] = Append(stored[port], BlockOf(c, h))
          /\ \A i \in Ports : i # port => stored'[i] = stored[i]
          /\ stored' \in [Ports -> Seq([1 .. BlockPieces -> Pieces \cup {NoPiece}])]
      <4>1. stored' = [stored EXCEPT ![port] = Append(stored[port], BlockOf(c, h))]
        BY <1>11, <2>2
      <4>2. stored \in [Ports -> Seq([1 .. BlockPieces -> Pieces \cup {NoPiece}])]
        BY DEF LinkInv, TypeOK
      <4> QED
        BY <1>0, <3>3, <4>1, <4>2
    <3> QED
      BY <3>3, <3>4
  <2> QED
    BY <2>1, <2>2
<1>16. \A i \in Ports : Served(i)' = Served(i) /\ ConnOf(i)' = ConnOf(i)
  BY <1>3 DEF Served, ConnOf
<1>17. \A i \in Ports : Served(i) /\ i # port => ConnOf(i) \in Conns /\ ConnOf(i) # c
  BY <1>0, ServedApart, ServedConn
<1>18. /\ h = 0 => LastBlock(port)' = LastBlock(port) /\ stored'[port] = stored[port]
       /\ h # 0 => LastBlock(port)' = Piece(c, h, 1) /\ stored'[port] # <<>>
       /\ \A i \in Ports : i # port => LastBlock(i)' = LastBlock(i)
  <2>1. h # 0 => stored'[port][Len(stored'[port])][1] = Piece(c, h, 1)
    BY <1>7, <1>15 DEF BlockOf
  <2> QED
    BY <1>3, <1>11, <1>15, <2>1 DEF LastBlock
<1>19. Len(inq'[c]) \in Nat /\ Extent(h + 1) \in Nat /\ sent[c] \in Nat
  <2>1. inq'[c] \in Seq(Pieces)
    BY <1>2
  <2>2. Len(inq'[c]) \in Nat
    BY <2>1, LenProperties
  <2> QED
    BY <1>1, <1>h, <2>2, ExtentNext
<1>t. TypeOK'
  <2>1. handled' \in [Conns -> 0 .. MaxBlocks + 1]
    BY <1>8, <1>13 DEF LinkInv, TypeOK
  <2>2. inq' \in [Conns -> Seq(Pieces)]
        /\ data_buffer' \in [Ports -> [1 .. BlockPieces -> Pieces \cup {NoPiece}]]
    BY <1>2
  <2>3. Done' \in [Ports -> 0 .. BlockPieces] /\ ACKneeded' \in [Ports -> BOOLEAN]
    BY <1>9
  <2>4. TransferSize' \in [Ports -> {RestartSize, BlockPieces}]
    BY <1>12
  <2>5. stored' \in [Ports -> Seq([1 .. BlockPieces -> Pieces \cup {NoPiece}])]
    BY <1>15
  <2> QED
    BY <1>3, <2>1, <2>2, <2>3, <2>4, <2>5 DEF LinkInv, TypeOK, clients
<1>20. StillListed'
  <2>1. \A i \in Ports : i > port => i >= port
    BY DEF LinkInv, TypeOK, Ports
  <2> QED
    BY <1>3, <2>1 DEF LinkInv, TypeOK, StillListed
<1>21. OneClientPerPort'
  BY <1>3 DEF LinkInv, OneClientPerPort, ConnOf, clients
<1>22. InTurn'
  BY <1>0, <1>3, <1>9 DEF LinkInv, InTurn, clients
<1>23. WaitingBehind'
  <2>1. ASSUME NEW i \in Ports, NEW d \in Conns, WaitsOn(i, d)
        PROVE  WaitsOn(i, d)'
    <3>1. i = port => c < d
      BY <1>0, <2>1 DEF WaitsOn
    <3>2. d # c
      <4>1. SUFFICES ASSUME d = c PROVE FALSE
        OBVIOUS
      <4>2. i = port /\ c < c
        BY <1>0, <2>1, <3>1, <4>1 DEF WaitsOn
      <4> QED
        BY <4>2 DEF Conns
    <3>3. stored'[i] # <<>> => LastBlock(i)'.conn < d
      <4>1. CASE i # port
        <5>1. stored'[i] = stored[i] /\ LastBlock(i)' = LastBlock(i)
          BY <1>15, <4>1 DEF LastBlock
        <5> QED
          BY <2>1, <5>1 DEF WaitsOn
      <4>2. CASE i = port /\ h = 0
        <5>1. stored'[i] = stored[i] /\ LastBlock(i)' = LastBlock(i)
          BY <1>11, <4>2 DEF LastBlock
        <5> QED
          BY <2>1, <5>1 DEF WaitsOn
      <4>3. CASE i = port /\ h # 0
        <5>1. LastBlock(i)' = Piece(c, h, 1)
          BY <1>3, <1>18, <4>3 DEF LastBlock
        <5> QED
          BY <3>1, <4>3, <5>1 DEF Piece
      <4> QED
        BY <4>1, <4>2, <4>3
    <3>4. inq'[d] = inq[d] /\ handled'[d] = handled[d]
      BY <1>2, <1>9, <3>2
    <3> QED
      BY <1>3, <1>16, <2>1, <3>3, <3>4 DEF WaitsOn, clients
  <2> QED
    BY <1>3, <2>1, StillWaiting
<1>24. InFlight'
  <2>1. handled'[c] \in Nat /\ handled[c] <= handled'[c]
    BY <1>1, <1>9, <1>h
  <2>2. Extent(handled'[c]) + Len(inq'[c]) <= sent[c]
    <3>1. Extent(h + 1) + Len(inq'[c]) <= sent[c]
      BY <1>6, <1>19
    <3> QED
      BY <1>9, <3>1
  <2>3. \A e \in Conns : e # c => inq'[e] = inq[e] /\ handled'[e] = handled[e]
    BY <1>2, <1>9
  <2>4. \A k \in 1 .. Len(inq[c]) - n : inq'[c][k] = inq[c][k + n]
    BY <1>2
  <2> QED
    BY <1>0, <1>3, <1>4, <1>5, <2>1, <2>2, <2>3, <2>4, ReceivedKeepsQueues
<1>25. Reassembly'
  <2>1. ASSUME NEW i \in Ports, Served(i), NEW e \in Conns, e = ConnOf(i)
        PROVE  /\ TransferSize'[i] = (IF handled'[e] = 0 THEN RestartSize ELSE BlockPieces)
               /\ sent[e] - Len(inq'[e]) = Done'[i]
                    + (IF handled'[e] = 0 THEN 0 ELSE RestartSize + (handled'[e] - 1) * BlockPieces)
               /\ \A p \in 1 .. Done'[i] : data_buffer'[i][p] =
                    PieceAt(e, (sent[e] - Len(inq'[e])) - Done'[i] + p - 1)
    <3>1. CASE i = port
      <4>1. e = c /\ handled'[e] # 0 /\ TransferSize'[i] = BlockPieces /\ Done'[i] = 0
        BY <1>1, <1>9, <1>12, <2>1, <3>1
      <4>2. sent[c] - Len(inq'[c]) = 0 + Extent(handled'[c])
        <5>1. Len(inq'[c]) \in Nat /\ Extent(h + 1) \in Nat
          BY <1>19
        <5>2. sent[c] - Len(inq'[c]) = 0 + Extent(h + 1)
          BY <1>6, <5>1
        <5> QED
          BY <1>9, <5>2
      <4>3. \A p \in 1 .. Done'[i] : FALSE
        BY <4>1
      <4> QED
        BY <4>1, <4>2, <4>3 DEF Extent
    <3>2. CASE i # port
      <4>1. e # c /\ inq'[e] = inq[e] /\ Done'[i] = Done[i] /\ data_buffer'[i] = data_buffer[i]
            /\ handled'[e] = handled[e] /\ TransferSize'[i] = TransferSize[i]
        BY <1>2, <1>9, <1>12, <1>17, <2>1, <3>2
      <4> QED
        BY <2>1, <4>1 DEF LinkInv, Reassembly, Served
    <3> QED
      BY <3>1, <3>2
  <2>2. \A i \in Ports : Served(i) => ConnOf(i) \in Conns
    BY ServedConn
  <2> QED
    BY <1>3, <1>16, <2>1, <2>2 DEF Reassembly, Served, PieceAt, clients
<1>26. AckPerMessage'
  <2>1. cmode[c] = 1 => h <= acked[c]
    <3>1. SUFFICES ASSUME cmode[c] = 1 PROVE h + 1 <= acked[c] + 1
      BY <1>1
    <3>2. sent[c] <= Extent(acked[c] + 1)
      BY <3>1 DEF LinkInv, InFlight
    <3>3. h + 1 \in Nat /\ acked[c] + 1 \in Nat
      BY SMTT(15), <1>1
    <3>4. Extent(acked[c] + 1) \in Nat
      BY <1>1, ExtentNext
    <3>5. Extent(h + 1) <= Extent(acked[c] + 1)
      BY <1>6, <1>19, <3>2, <3>4, Z3
    <3> QED
      BY <3>3, <3>5, ExtentMonotone
  <2>2. IF cmode[c] = 1 THEN h = acked[c] /\ ~ACKneeded[port] ELSE acked[c] = 0 /\ ~ACKneeded[port]
    <3>1. CASE cmode[c] = 1
      <4>1. h = acked[c] + (IF ACKneeded[port] THEN 1 ELSE 0)
        BY <1>0, <1>h, <3>1 DEF LinkInv, AckPerMessage, Served
      <4> QED
        BY SMTT(15), <1>1, <2>1, <3>1, <4>1
    <3>2. CASE cmode[c] # 1
      BY <1>0, <3>2 DEF LinkInv, AckPerMessage, Served
    <3> QED
      BY <3>1, <3>2
  <2>3. ASSUME NEW i \in Ports, Served(i), NEW e \in Conns, e = ConnOf(i)
        PROVE  IF cmode[e] = 1 THEN handled'[e] = acked[e] + (IF ACKneeded'[i] THEN 1 ELSE 0)
               ELSE acked[e] = 0 /\ ~ACKneeded'[i]
    <3>1. CASE i = port
      BY <1>9, <2>2, <2>3, <3>1
    <3>2. CASE i # port
      <4>1. e # c /\ handled'[e] = handled[e] /\ ACKneeded'[i] = ACKneeded[i]
        BY <1>9, <1>17, <2>3, <3>2
      <4> QED
        BY <2>3, <4>1 DEF LinkInv, AckPerMessage, Served
    <3> QED
      BY <3>1, <3>2
  <2>4. \A i \in Ports : Served(i) => ConnOf(i) \in Conns
    BY ServedConn
  <2> QED
    BY <1>3, <1>16, <2>3, <2>4 DEF AckPerMessage, Served, clients
<1>27. StoredLast'
  <2>1. ASSUME NEW i \in Ports
        PROVE  stored'[i] # <<>> => cstate[LastBlock(i)'.conn] # "new"
    <3>1. CASE i # port
      <4>1. stored'[i] = stored[i] /\ LastBlock(i)' = LastBlock(i)
        BY <1>15, <3>1 DEF LastBlock
      <4> QED
        BY <4>1 DEF LinkInv, StoredLast
    <3>2. CASE i = port /\ h = 0
      <4>1. stored'[i] = stored[i] /\ LastBlock(i)' = LastBlock(i)
        BY <1>11, <3>2 DEF LastBlock
      <4> QED
        BY <4>1 DEF LinkInv, StoredLast
    <3>3. CASE i = port /\ h # 0
      <4>1. LastBlock(i)' = Piece(c, h, 1)
        BY <1>3, <1>18, <3>3 DEF LastBlock
      <4> QED
        BY <1>0, <4>1 DEF Piece
    <3> QED
      BY <3>1, <3>2, <3>3
  <2>2. ASSUME NEW i \in Ports, Served(i), NEW e \in Conns, e = ConnOf(i)
        PROVE  /\ Done'[i] < TransferSize'[i]
               /\ handled'[e] <= 1 /\ stored'[i] # <<>> => LastBlock(i)'.conn < e
               /\ handled'[e] > 1 => stored'[i] # <<>> /\ LastBlock(i)' = Piece(e, handled'[e] - 1, 1)
    <3>1. CASE i # port
      <4>1. handled'[e] = handled[e] /\ Done'[i] = Done[i] /\ TransferSize'[i] = TransferSize[i]
            /\ stored'[i] = stored[i] /\ LastBlock(i)' = LastBlock(i)
        BY <1>9, <1>12, <1>15, <1>17, <1>18, <2>2, <3>1
      <4> QED
        BY <2>2, <4>1 DEF LinkInv, StoredLast
    <3>2. CASE i = port
      <4>1. e = c /\ handled'[e] = h + 1 /\ Done'[i] < TransferSize'[i]
        BY <1>7, <1>9, <1>12, <2>2, <3>2
      <4>2. CASE h = 0
        <5>1. stored'[i] = stored[i] /\ LastBlock(i)' = LastBlock(i) /\ handled'[e] = 1
          BY <1>3, <1>18, <3>2, <4>1, <4>2 DEF LastBlock
        <5>2. stored[i] # <<>> => LastBlock(i).conn < c
          <6>1. handled[c] <= 1
            BY <1>h, <4>2
          <6> QED
            BY <2>2, <4>1, <6>1, StoredLastOf
        <5> QED
          BY <4>1, <5>1, <5>2
      <4>3. CASE h # 0
        <5>1. stored'[i] # <<>> /\ LastBlock(i)' = Piece(c, h, 1)
          BY <1>3, <1>18, <3>2, <4>3 DEF LastBlock
        <5>2. handled'[e] - 1 = h /\ ~(handled'[e] <= 1)
          BY <1>1, <4>1, <4>3
        <5> QED
          BY <4>1, <5>1, <5>2
      <4> QED
        BY <4>2, <4>3
    <3> QED
      BY <3>1, <3>2
  <2>3. \A i \in Ports : Served(i) => ConnOf(i) \in Conns
    BY ServedConn
  <2> QED
    BY <1>3, <1>16, <2>1, <2>2, <2>3 DEF StoredLast, clients, Piece
<1>28. StoredWhole'
  <2>1. CASE h = 0
    BY <1>3, <1>11, <2>1 DEF LinkInv, StoredWhole, clients, BlockOf
  <2>2. CASE h # 0
    <3>1. ASSUME NEW i \in Ports, NEW k \in 1 .. Len(stored[i])
          PROVE  LET e == stored[i][k][1].conn
                     b == stored[i][k][1].blk
                 IN  /\ cport[e] = i
                     /\ stored[i][k] = BlockOf(e, b)
                     /\ k > 1 => LET before == stored[i][k - 1][1]
                                 IN IF before.conn = e THEN b = before.blk + 1
                                    ELSE b = 1 /\ before.conn < e
      BY DEF LinkInv, StoredWhole
    <3>2. BlockOf(c, h)[1].conn = c /\ BlockOf(c, h)[1].blk = h
      BY <1>7 DEF BlockOf, Piece
    <3>3. ASSUME Len(stored[port]) + 1 > 1
          PROVE  LET before == stored[port][Len(stored[port])][1]
                 IN IF before.conn = c THEN h = before.blk + 1 ELSE h = 1 /\ before.conn < c
      <4>1. stored[port] # <<>>
        BY <1>15, <2>2, <3>3, EmptySeq
      <4>2. CASE h = 1
        <5>1. LastBlock(port).conn < c
          <6>1. handled[c] <= 1
            BY <1>h, <4>2
          <6> QED
            BY <1>0, <4>1, <6>1, StoredLastOf
        <5>2. LastBlock(port).conn # c
          <6>1. ~(c < c)
            BY DEF Conns
          <6> QED
            BY <5>1, <6>1
        <5> QED
          BY <4>2, <5>1, <5>2 DEF LastBlock
      <4>3. CASE h # 1
        <5>1. h > 1
          BY <1>1, <2>2, <4>3
        <5>2. LastBlock(port) = Piece(c, h - 1, 1)
          BY <1>0, <1>h, <5>1, StoredLastOf
        <5> QED
          BY <1>1, <5>2 DEF LastBlock, Piece
      <4> QED
        BY <4>2, <4>3
    <3>4. ASSUME NEW i \in Ports, NEW k \in 1 .. Len(stored'[i])
          PROVE  LET e == stored'[i][k][1].conn
                     b == stored'[i][k][1].blk
                 IN  /\ cport[e] = i
                     /\ stored'[i][k] = BlockOf(e, b)
                     /\ k > 1 => LET before == stored'[i][k - 1][1]
                                 IN IF before.conn = e THEN b = before.blk + 1
                                    ELSE b = 1 /\ before.conn < e
      <4>1. CASE i # port
        BY <1>15, <3>1, <4>1
      <4>2. CASE i = port /\ k \in 1 .. Len(stored[port])
        <5>1. stored'[i][k] = stored[i][k] /\ (k > 1 => stored'[i][k - 1] = stored[i][k - 1])
          <6>1. k > 1 => k - 1 \in 1 .. Len(stored[port])
            BY <1>15, <2>2, <4>2
          <6> QED
            BY <1>15, <2>2, <4>2, <6>1
        <5> QED
          BY <3>1, <4>2, <5>1
      <4>3. CASE i = port /\ k = Len(stored[port]) + 1
        <5>1. stored'[i][k] = BlockOf(c, h)
          BY <1>15, <2>2, <4>3
        <5>2. k > 1 => stored'[i][k - 1] = stored[port][Len(stored[port])]
          <6>1. k > 1 => k - 1 = Len(stored[port]) /\ Len(stored[port]) \in 1 .. Len(stored[port])
            BY <1>15, <2>2, <4>3
          <6> QED
            BY <1>15, <2>2, <4>3, <6>1
        <5> QED
          BY <1>0, <3>2, <3>3, <4>3, <5>1, <5>2
      <4> QED
        BY <1>15, <2>2, <4>1, <4>2, <4>3
    <3> QED
      BY <1>3, <3>4 DEF StoredWhole, BlockOf, Piece, clients
  <2> QED
    BY <2>1, <2>2
<1> QED
  BY <1>t, <1>20, <1>21, <1>22, <1>23, <1>24, <1>25, <1>26, <1>27, <1>28 DEF LinkInv

\* Read_Socket as a whole.
LEMMA ReadTurnKeeps ==
  ASSUME LinkInv, ReadTurn
  PROVE  LinkInv'
<1>1. CASE ~ReadSelected
  BY <1>1, IdleTurnKeeps DEF ReadTurn, server
<1>2. CASE ReadSelected
  <2>1. port \in Ports /\ Served(port)
    BY <1>2 DEF LinkInv, TypeOK, ReadSelected, Served
  <2>2. PICK c \in Conns : c = ConnOf(port)
    BY <2>1, ServedConn
  <2>3. CASE \E n \in 1 .. TransferSize[port] - Done[port] :
                  n <= Len(inq[c]) /\ Received(n) /\ UNCHANGED <<fdconn, SocketConnected>>
    <3>1. PICK n \in 1 .. TransferSize[port] - Done[port] :
                  n <= Len(inq[c]) /\ Received(n) /\ UNCHANGED <<fdconn, SocketConnected>>
      BY <2>3
    <3> QED
      BY <1>2, <2>2, <3>1, PartKeeps, WholeKeeps
  <2>4. CASE Disconnect /\ UNCHANGED <<inq, Done, data_buffer, TransferSize, ACKneeded, handled, stored>>
    <3>1. /\ UNCHANGED <<msg_socket, ReadEnable, port, listenfds, readfds, writefds, backlog,
                         clients, acked>>
          /\ pc = "read" /\ pc' = "write"
      BY DEF ReadTurn
    <3>2. TypeOK'
      <4>1. /\ fdconn' \in [Fds -> Conns \cup {0}]
            /\ SocketConnected' \in [Ports -> {0, 1, 2}]
        BY <2>4 DEF LinkInv, TypeOK, Disconnect, Closed
      <4> QED
        BY <2>4, <3>1, <4>1 DEF LinkInv, TypeOK, clients
    <3>3. StillListed'
      <4>1. \A i \in Ports : i > port => i >= port
        BY DEF LinkInv, TypeOK, Ports
      <4> QED
        BY <3>1, <4>1 DEF LinkInv, TypeOK, StillListed
    <3> QED
      BY <2>1, <2>4, <3>1, <3>2, <3>3, DisconnectKeeps
  <2> QED
    BY <1>2, <2>2, <2>3, <2>4 DEF ReadTurn
<1> QED
  BY <1>1, <1>2

\* The acknowledgement that was owed is given.
LEMMA AckKeeps ==
  ASSUME LinkInv, WriteTurn, WriteSelected, NEW c \in Conns, c = ConnOf(port),
         acked' = [acked EXCEPT ![c] = @ + 1], Acknowledged, UNCHANGED <<fdconn, SocketConnected>>
  PROVE  LinkInv'
<1>0. port \in Ports /\ Served(port) /\ ACKneeded[port] /\ cstate[c] # "new" /\ cport[c] = port
  BY ServedConn DEF LinkInv, TypeOK, WriteSelected, Served
<1>1. /\ pc = "write" /\ NextPort
      /\ UNCHANGED <<msg_socket, TransferSize, Done, ReadEnable, data_buffer, backlog, clients,
                     inq, handled, stored>>
  BY DEF WriteTurn
<1>2. /\ ACKneeded' \in [Ports -> BOOLEAN] /\ ACKneeded'[port] = FALSE
      /\ \A i \in Ports : i # port => ACKneeded'[i] = ACKneeded[i]
  BY <1>0 DEF LinkInv, TypeOK, Acknowledged
<1>3. acked'[c] = acked[c] + 1 /\ \A d \in Conns : d # c => acked'[d] = acked[d]
  BY DEF LinkInv, TypeOK
<1>4. acked[c] \in Nat /\ handled[c] \in Nat /\ handled[c] <= MaxBlocks + 1
  BY DEF LinkInv, TypeOK
<1>5. cmode[c] = 1 /\ handled[c] = acked[c] + 1
  BY <1>0 DEF LinkInv, AckPerMessage, Served
<1>6. \A i \in Ports : Served(i)' = Served(i) /\ ConnOf(i)' = ConnOf(i)
                       /\ LastBlock(i)' = LastBlock(i)
  BY <1>1 DEF Served, ConnOf, LastBlock
<1>7. \A i \in Ports : Served(i) /\ i # port => ConnOf(i) \in Conns /\ ConnOf(i) # c
  BY <1>0, ServedApart, ServedConn
<1>8. /\ StillListed' /\ port' \in Ports /\ pc' \in {"select", "listen"}
      /\ listenfds' \subseteq Ports /\ readfds' \subseteq Fds /\ writefds' \subseteq Fds
  BY <1>1, NextPortKeeps
<1>9. TypeOK'
  <2>1. acked' \in [Conns -> 0 .. MaxBlocks + 1]
    <3>1. acked[c] + 1 \in 0 .. MaxBlocks + 1
      BY <1>4, <1>5, LinkAssumption
    <3> QED
      BY <3>1 DEF LinkInv, TypeOK
  <2> QED
    BY <1>1, <1>2, <1>8, <2>1 DEF LinkInv, TypeOK, clients
<1>10. OneClientPerPort'
  BY <1>1 DEF LinkInv, OneClientPerPort, ConnOf, clients
<1>11. InTurn'
  BY <1>0, <1>1, <1>3 DEF LinkInv, InTurn, clients
<1>12. WaitingBehind'
  <2>1. ASSUME NEW i \in Ports, NEW d \in Conns, WaitsOn(i, d)
        PROVE  WaitsOn(i, d)'
    <3>1. d # c
      <4>1. SUFFICES ASSUME d = c PROVE FALSE
        OBVIOUS
      <4>2. i = port /\ c < c
        BY <1>0, <2>1, <4>1 DEF WaitsOn
      <4> QED
        BY <4>2 DEF Conns
    <3> QED
      BY <1>1, <1>3, <1>6, <2>1, <3>1 DEF WaitsOn, clients
  <2> QED
    BY <1>1, <2>1, StillWaiting
<1>13. InFlight'
  <2>1. acked'[c] <= handled[c]
    BY <1>3, <1>4, <1>5
  <2>2. sent[c] <= Extent(acked'[c] + 1)
    <3>1. sent[c] <= Extent(acked[c] + 1) /\ sent[c] \in Nat
      BY <1>5 DEF LinkInv, InFlight, TypeOK
    <3>2. acked[c] + 1 \in Nat
      BY <1>4
    <3>3. /\ Extent(acked[c] + 1) \in Nat /\ Extent((acked[c] + 1) + 1) \in Nat
          /\ Extent(acked[c] + 1) < Extent((acked[c] + 1) + 1)
      BY <3>2, ExtentGrows
    <3> QED
      BY <1>3, <3>1, <3>3
  <2>3. ASSUME NEW e \in Conns
        PROVE  /\ Extent(handled[e]) + Len(inq[e]) <= sent[e]
               /\ acked'[e] <= handled[e]
               /\ \A k \in 1 .. Len(inq[e]) : inq[e][k] = PieceAt(e, sent[e] - Len(inq[e]) + k - 1)
               /\ cmode[e] = 1 => sent[e] <= Extent(acked'[e] + 1)
    <3>1. CASE e = c
      BY <2>1, <2>2, <3>1 DEF LinkInv, InFlight
    <3>2. CASE e # c
      BY <1>3, <3>2 DEF LinkInv, InFlight
    <3> QED
      BY <3>1, <3>2
  <2> QED
    BY <1>1, <2>3 DEF InFlight, PieceAt, Extent, clients
<1>14. Reassembly'
  BY <1>1, <1>6 DEF LinkInv, Reassembly, Served, PieceAt, clients
<1>15. AckPerMessage'
  <2>1. ASSUME NEW i \in Ports, Served(i), NEW e \in Conns, e = ConnOf(i)
        PROVE  IF cmode[e] = 1 THEN handled[e] = acked'[e] + (IF ACKneeded'[i] THEN 1 ELSE 0)
               ELSE acked'[e] = 0 /\ ~ACKneeded'[i]
    <3>1. CASE i = port
      BY <1>2, <1>3, <1>4, <1>5, <2>1, <3>1
    <3>2. CASE i # port
      <4>1. e # c /\ acked'[e] = acked[e] /\ ACKneeded'[i] = ACKneeded[i]
        BY <1>2, <1>3, <1>7, <2>1, <3>2
      <4> QED
        BY <2>1, <4>1 DEF LinkInv, AckPerMessage, Served
    <3> QED
      BY <3>1, <3>2
  <2>2. \A i \in Ports : Served(i) => ConnOf(i) \in Conns
    BY ServedConn
  <2> QED
    BY <1>1, <1>6, <2>1, <2>2 DEF AckPerMessage, Served, clients
<1>16. StoredLast'
  BY <1>1, <1>6 DEF LinkInv, StoredLast, clients
<1>17. StoredWhole'
  <2>1. StoredWhole
    BY DEF LinkInv
  <2>2. stored' = stored /\ cport' = cport
    BY <1>1 DEF clients
  <2> QED
    BY <2>1, <2>2, StoredWholeKept
<1> QED
  BY <1>8, <1>9, <1>10, <1>11, <1>12, <1>13, <1>14, <1>15, <1>16, <1>17 DEF LinkInv

\* Write_Socket as a whole.
LEMMA WriteTurnKeeps ==
  ASSUME LinkInv, WriteTurn
  PROVE  LinkInv'
<1>1. CASE ~WriteSelected
  BY <1>1, IdleTurnKeeps DEF WriteTurn, server
<1>2. CASE WriteSelected
  <2>1. port \in Ports /\ Served(port)
    BY <1>2 DEF LinkInv, TypeOK, WriteSelected, Served
  <2>2. PICK c \in Conns : c = ConnOf(port)
    BY <2>1, ServedConn
  <2>3. CASE /\ acked' = [acked EXCEPT ![c] = @ + 1]
             /\ Acknowledged /\ UNCHANGED <<fdconn, SocketConnected>>
    BY <1>2, <2>2, <2>3, AckKeeps
  <2>4. CASE Disconnect /\ UNCHANGED <<acked, ACKneeded>>
    <3>1. /\ pc = "write" /\ NextPort
          /\ UNCHANGED <<msg_socket, TransferSize, Done, ReadEnable, data_buffer, backlog,
                         clients, inq, handled, stored>>
      BY DEF WriteTurn
    <3>2. /\ StillListed' /\ port' \in Ports /\ pc' \in {"select", "listen"}
          /\ listenfds' \subseteq Ports /\ readfds' \subseteq Fds /\ writefds' \subseteq Fds
      BY <3>1, NextPortKeeps
    <3>3. TypeOK'
      <4>1. /\ fdconn' \in [Fds -> Conns \cup {0}]
            /\ SocketConnected' \in [Ports -> {0, 1, 2}]
        BY <2>4 DEF LinkInv, TypeOK, Disconnect, Closed
      <4> QED
        BY <2>4, <3>1, <3>2, <4>1 DEF LinkInv, TypeOK, clients
    <3> QED
      BY <2>1, <2>4, <3>1, <3>2, <3>3, DisconnectKeeps
  <2> QED
    BY <1>2, <2>2, <2>3, <2>4 DEF WriteTurn
<1> QED
  BY <1>1, <1>2

-----------------------------------------------------------------------------
(* The theorems                                                             *)

\* Nothing connected, nothing stored.
LEMMA LinkStart == Init => LinkInv
<1>1. SUFFICES ASSUME Init PROVE LinkInv
  OBVIOUS
<1> USE <1>1 DEF Init
<1>2. BlockPieces \in Nat /\ MaxBlocks \in Nat /\ 0 \in Ports /\ 0 \in 0 .. BlockPieces
  BY LinkAssumption DEF Ports
<1>3. MaxBlocks * BlockPieces \in Nat
  BY <1>2, SMT
<1>4. TypeOK
  <2>1. sent \in [Conns -> 0 .. RestartSize + MaxBlocks * BlockPieces]
    BY <1>3 DEF RestartSize
  <2>2. acked \in [Conns -> 0 .. MaxBlocks + 1] /\ handled \in [Conns -> 0 .. MaxBlocks + 1]
    BY <1>2
  <2>3. Done \in [Ports -> 0 .. BlockPieces]
    BY <1>2
  <2> QED
    BY <1>2, <2>1, <2>2, <2>3 DEF TypeOK
<1>5. StillListed /\ OneClientPerPort /\ Reassembly /\ AckPerMessage
  BY DEF StillListed, OneClientPerPort, Reassembly, AckPerMessage
<1>6. InTurn /\ WaitingBehind /\ StoredLast /\ StoredWhole
  BY DEF InTurn, WaitingBehind, StoredLast, StoredWhole, Served
<1>7. InFlight
  <2>1. Extent(0) = 0 /\ Extent(1) = 1
    BY <1>2, SMT DEF Extent, RestartSize
  <2> QED
    BY <2>1 DEF InFlight
<1> QED
  BY <1>4, <1>5, <1>6, <1>7 DEF LinkInv

\* Every step of the loop, of a client and of the kernel keeps the invariant.
LEMMA LinkStep == LinkInv /\ [Next]_vars => LinkInv'
<1>1. SUFFICES ASSUME LinkInv, [Next]_vars PROVE LinkInv'
  OBVIOUS
<1>2. CASE Select
  BY <1>1, <1>2, SelectKeeps
<1>3. CASE ListenTurn
  <2>1. CASE port \in listenfds
    BY <1>1, <1>3, <2>1, AcceptKeeps
  <2>2. CASE port \notin listenfds
    BY <1>1, <1>3, <2>2, IdleTurnKeeps DEF ListenTurn
  <2> QED
    BY <2>1, <2>2
<1>4. CASE ReadTurn
  BY <1>1, <1>4, ReadTurnKeeps
<1>5. CASE WriteTurn
  BY <1>1, <1>5, WriteTurnKeeps
<1>6. CASE Sigpipe
  BY <1>1, <1>6, IdleTurnKeeps DEF Sigpipe
<1>7. ASSUME NEW c \in Conns, Client(c) PROVE LinkInv'
  BY <1>1, <1>7, ConnectKeeps, SendPieceKeeps, FinishKeeps DEF Client
<1>8. CASE UNCHANGED vars
  BY <1>1, <1>8, IdleTurnKeeps DEF vars
<1> QED
  BY <1>1, <1>2, <1>3, <1>4, <1>5, <1>6, <1>7, <1>8 DEF Next, Server

\* The inductive invariant: what the loop knows of every client, waiting, served or
\* gone, in every interleaving of clients and ports.
THEOREM LinkInvHolds == Spec => []LinkInv
BY LinkStart, LinkStep, PTL DEF Spec

\* Types of the server's globals, of the kernel's tables and of what was stored.
THEOREM LinkTypes == Spec => []TypeOK
<1>1. LinkInv => TypeOK
  BY DEF LinkInv
<1> QED
  BY <1>1, LinkInvHolds, PTL

\* Descriptors are neither leaked nor shared, however clients come and go.
THEOREM DescriptorsAreServed == Spec => []OneClientPerPort
<1>1. LinkInv => OneClientPerPort
  BY DEF LinkInv
<1> QED
  BY <1>1, LinkInvHolds, PTL

\* data_buffer and the connection together hold what the client sent last.
THEOREM BufferIsInStep == Spec => []Reassembly
<1>1. LinkInv => Reassembly
  BY DEF LinkInv
<1> QED
  BY <1>1, LinkInvHolds, PTL

\* One acknowledgement per message handled, never one too many, never one lost.
THEOREM AcksMatchMessages == Spec => []AckPerMessage
<1>1. LinkInv => AckPerMessage
  BY DEF LinkInv
<1> QED
  BY <1>1, LinkInvHolds, PTL

\* What reaches ts_data_transfer are whole blocks, in sequence, of one client after
\* the other.
THEOREM BlocksAreWhole == Spec => []StoredWhole
<1>1. LinkInv => StoredWhole
  BY DEF LinkInv
<1> QED
  BY <1>1, LinkInvHolds, PTL

=============================================================================
