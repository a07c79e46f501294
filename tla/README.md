# SyncCheck and its data path in TLA+

This directory is the verification project of the repository: TLA+ modules of
the programs that send time stamps, the sending library, the link server, the
shared-memory ring with its two kinds of spies and the on-line coincidence
check, TLC configurations that check them, and TLAPS proofs about each of these parts.
Everything is read from the code under `src/`; the paths below are relative to it.

## 1. What the system is

Three detector systems (BRIKEN, RIBF, AIDA/WASABI or EURICA) take data with
clocks that are synchronised by hardware. Each sends its events as blocks over
TCP to one machine, and `SyncCheck` compares the time stamps there while the
experiment runs.

    sender program --libxfer--> TCP --> DataSink --> shared-memory ring --> spies
     (ribftssender,             (mode 1 acknowledged, (64 slots, no lock)   (SyncCheck,
      euricatssender,            mode 3 streamed)                            DataRelay,
      DataRelay, DataGen)                                                    DataPeek)

`DataRelay` is a spy and a sender at once: it copies a ring to another machine.
Most SyncCheck programs do not use the spy library but open the segment as a
file (the *direct spy*).

### Components

| component | state it keeps | operations | what makes it correct |
|---|---|---|---|
| **Ring, writer side** (`DataPackage/DataSink/data_transfer.cpp`, `DataStorage/alloc_data_area.cpp`) | `BUFFER_HEADER`: `buffer_next`, `buffer_currentage`, `buffer_age[]`; the slots | `initialise_buffer_area`, `ts_data_transfer`, `store_buffer`, restart | a slot with an age holds exactly that block; the last 64 blocks are there |
| **Ring, spies** (`DataPackage/DataSpyLib/dataspy.c`) | `next_index`, `current_age` per opened area | `dataSpyOpen`, `dataSpyReadWithSeq`, `dataSpyClose` | what is accepted is whole, later than the one before and recent |
| **libxfer** (`DataPackage/DataXferLib/V4_TCP/transfer.c`) | `tsSocket`, `sequence`, the request to `Thread_Send` and its flag `pthread_running` | `transferMultiTxData`, `...TxRestart`, `...TxWait`, `...Close`, the send thread | messages reach the wire whole and in order, a call comes back, OK means what the mode promises |
| **Link server** (`DataPackage/DataStorage/link_server.cpp`) | per port: `SocketConnected`, `msg_socket`, `TransferSize`, `Done`, `ReadEnable`, `ACKneeded`, `data_buffer` | the select loop, `Listen_Socket`, `Read_Socket`, `Write_Socket` | blocks are reassembled whole whatever the clients do, one acknowledgement per message, no port blocks another |
| **SyncCheck** (`SyncCheck/SyncCheck.cpp`) | vectors of each spy thread, `MergeMap`, `X`, `Y`, two kinds of mutex | threads `Spy`, `Merge`, the timer `TimerDone` | every coincidence is found once, nothing is lost or counted twice between the threads |
| **Direct spy** (`SyncCheck/syncSpyClass.hpp`) | the first word it took last | `Spy` | reads the first slot without the age protocol: blocks in order, repeats bounded, new ones noticed |
| **RIBF, EURICA and test senders** (`ribfts/ribftssender`, `ribfts/euricatssender`, `ribfts/testsender`) | position in a RIDF block, the record under way, the time stamp before it, a batch of records | walk, collect, send | records fit their block and tell what the events said; the programs that read the words agree about them |
| **Event client** (`ribfts/eventapiV50/f_evcli.c`, used by `euricatssender`) | the descriptor, the buffer with its count of events, the position | `f_evt_get_event`, acknowledgement, read, close | every event once and in order, a buffer acknowledged when it is used up |
| **Relay, generator, viewers** (`DataPackage/DataRelay`, `DataGen`, `DataPeek`, `DataCopy`) | none of their own | loops over the two libraries | those of the libraries |

Interaction: the ring is shared memory between processes, with plain loads and
stores; libxfer and the link server talk over TCP; the send thread and its
caller share globals under two mutexes and two condition variables; the threads
of SyncCheck share vectors under one mutex per spy and one for `X` and `Y`.

### What is hard

* A spy copies a block with no lock while the writer may lap it (ages 0 and
  *n* are all it has to notice).
* `initialise_buffer_area` runs under the spies: at a restart of DataSink, and
  at **every** block of a sender whose announced size is smaller than the
  area's (the area never shrinks, so the sizes stay different).
* A connection can drop at any point of `transferMultiTxData`, in either thread.
* Opening a connection sends a restart message by a nested call of the function that
  opened it, which tests the socket again while the send thread may clear it.
* The server replaces a client in mid-block, and descriptors are reused within
  one pass over the ports.
* Hits of one coincidence arrive in different passes, and `TimerDone` clears
  vectors outside the lock.
* The event client goes on after a failure, with a buffer half renewed and a
  descriptor that is closed or another's.
* Records are found again by word offsets that differ between programs, and a
  value kept from one event to the next joins what does not belong together.

The full list, each at its line with the property that would catch it, is
`hazards` in `PROJECT.json`.

## 2. Modules

| module | models | extends |
|---|---|---|
| `LossyFeed` | abstract: what a spy of a stream may rely on | |
| `SpyRing` | one ring, its DataSink and its spies | |
| `MCSpyRing` | the constants of the runs of `SpyRing` | `SpyRing` |
| `Transfer` | libxfer: caller and send thread, one stream ID | |
| `LinkServer` | the server loop, several ports | |
| `BlockStream` | abstract: what the blocks of a sender look like at the sink | |
| `Stream` | one stream end to end: `Transfer` with a real sink behind it | `Transfer` |
| `Delivery` | abstract: what a spy is given of the blocks an application gave | |
| `DataPath` | one stream and the ring behind it, with its spies | `Stream`, instances of `SpyRing` and `Delivery` |
| `DirectSpy` | the direct spy over the ring | `SpyRing` |
| `MCDirectSpy` | the constants of its run | `DirectSpy` |
| `EventClient` | the client of an MBS event server, the outcomes of one call | |
| `AscendingOrder` | a set of numbers as an ascending sequence | |
| `Senders` | the four programs that make blocks, and how their words are read | `EventClient`, `AscendingOrder` |
| `Coincidence` | a pass of SyncCheck's `Merge` over its map | `AscendingOrder` |
| `CoincidenceTAS` | the same for SyncCheckTAS, and the choice between the two | `Coincidence` |
| `SyncThreads` | the threads of SyncCheck and what they share | |
| `NumberLemmas` | lemmas about `\div` and `%`, least numbers, and sets as ascending sequences | `AscendingOrder` |
| `SpyRing_proofs` | theorems about the ring and both kinds of spies | `DirectSpy` |
| `Transfer_proofs` | theorems about the library | `Transfer` |
| `LinkServer_proofs` | theorems about the server loop | `LinkServer` |
| `Stream_proofs` | theorems about the stream and the path, which use those about the library and the ring | `DataPath`, `Transfer_proofs`, an instance of `SpyRing_proofs` |
| `Senders_proofs` | theorems about the senders and the event client | `Senders` |
| `Coincidence_proofs` | theorems about both merge maps | `CoincidenceTAS` |
| `SyncThreads_proofs` | theorems about the threads | `SyncThreads` |

`Coincidence` and `SyncThreads` are two views of `Merge`: the first has all of
the matching and none of the threads, the second all of the threads and lets a
pass find anything a pass might find. Every definition has its lines of the
source in `map` of `PROJECT.json`. Definitions whose comment begins with
"Mutant" or "mutant of" are altered copies of the definition below them; they
are part of no specification and serve to show that each property can fail.
The proof modules also extend `TLAPS` and the library's theorems about sets and
sequences. The inductive invariants are defined in the modules they are about,
each at the end of its module.

### SpyRing

One action is one access to shared memory. `wpc` walks through
`initialise_buffer_area` (`rewind`, `reage`, `clear`) and `store_buffer`
(`mark`, `copy`, `stamp`, `bump`, `advance`), the order of the stores being the
code's. The two `memcpy` are words in any order. `rpc` walks a spy through
`dataSpyOpen` (two loads) and `dataSpyReadWithSeq` (load of the age, the copy
word by word, the second load, `goto retry`). A block is the pair of an epoch
(a run of `initialise_buffer_area`) and an age; each of its words carries that
pair, so a copy of two blocks shows. `len` is kept because the code keeps it
over a retry. `Crash` and `Restart` are a DataSink killed at any store and
started again over the surviving segment; `Resize` is a restart message.

The history variables are `epoch`, `clean` (no initialisation is under way),
`stored`, and for each spy `calm` (no initialisation since the load of the age
of the copy under way), `last` (the newest age given) and `instep`. They are
written and never read by the actions of the code.

*Left out*: printing, id range checks, segment creation. A sender whose size is above
the area's makes the area grow once and its size is the area's from then on
(a spy that has the smaller segment mapped is outside the model), so `Sizes`
holds none above `BlockSize`. Loads and stores are taken in program order, as x86 does between
processes for this pattern (stores are not reordered with stores, nor loads
with loads). `buffer_age[next_index]` is loaded once per test, as the shipped
library does. NBLOCKS is a power of two, so the mask is a wrap-around. Ages do
not overflow (64 bits). Spies never write the segment, so one spy sees all
there is to see, and the runs have one; the proof is for any number.

### Transfer

The caller (`mpc`) and `Thread_Send` (`spc`), in modes 1 and 3, with and
without overlap. A section under one of the two mutexes is one action, since
the flag it tests or sets is touched under that mutex only; what is read after
the unlock (the request's arguments) is an action of its own. The application
fills its two buffers in turn, as the library asks of users of overlap mode. A message
is `NParts` writes.

A call that finds no connection opens one with `transferMultiTxRestart`, which tests
`tsSocket` and calls `transferMultiTxData` again for the restart message
(`SendRestart`); that call tests it once (`NestedCheck`) and once more
(`BuildRestart`). When the send thread clears `tsSocket` between the first two tests,
the nested call opens another connection from within, and two restart messages go out on it:
its own and, after the return (`RestartReturns`), the outer one's. `depth` counts the
calls nested this way, `restarts` (history) the restart messages of a connection. It
takes overlap mode, in which a call returns before its request is done, and three connections.
 The peer takes data, answers complete messages in mode 1
with 0 or a refusal, and may drop one connection, or several at once, at any time.
There may be several: `transferMultiClose` in the send thread closes and clears in two
steps, so it may clear from `tsSocket` a connection that the caller has opened
between them, and nothing closes that one (with four connections or more). A write behind a
drop may be lost, may fail, or may raise SIGPIPE, which nothing ignores on
Linux and which ends the process. `do_recv` is modelled with what it does at
the end of the stream: it reports the full length and `Ack` keeps what the
stack held, so the result is either one.

*Left out*: modes 2, 4 and 6, the setters of sizes and host names before the
first call, calls before `transferMultiInit`, the Windows branches.

### LinkServer

`pc` and `port` walk the loop: `select`, then for each port `Listen_Socket`,
`Read_Socket`, `Write_Socket`. The descriptor table is explicit, and `accept`
returns the lowest free number, because the sets `select` filled are by number
and stay in use through the whole pass. Data comes in pieces of 1024 bytes, the
size of a restart message; `recv` may return any number of the pieces waiting.
`recv` on an accepted socket blocks, and the action with it. A client sends a
restart message and blocks, in mode 1 only after the acknowledgement, and may
close or die at any time. `ts_data_transfer` is the step that appends to
`stored`; the ring behind it is `SpyRing`.

*Left out*: failing `socket`, `bind`, `accept`, `select` (the program logs or
exits), the header check's rejection of a length larger than `data_buffer`.

### Stream

`Transfer` with its external peer replaced by the port of a `DataSinkSeg` that
serves it: the turns of the server loop (`Accept`, `Take`, `WriteAck`,
`Disconnect`), and `ts_data_transfer` with the check of the block sequence,
which this variant compiles in. The sink may be killed and started again
(`SinkRestart`), the network may reset a connection, and a block of another
port may initialise its area, which zeroes the `BlockSequence` of every port
(`OtherPort`). A block size is 1, 2 or 3: smaller than, equal to and larger than the size
the sink starts with; 1 and 3 are used, since the smaller one initialises at every block,
the larger one at the first after each start, and the equal one never, as the larger
does later. Size 3 is also larger than the buffer of a port, and then a block may be longer than the 65504 bytes
that `ts_data_transfer` accepts (`MayRefuse`): it is refused after the sequence check, the
return code is 0 like any other, and so is the acknowledgement. The history `handled` has what `ts_data_transfer` was
given, and with each block the one stored last (`newest`). Every action of `Transfer` but its external ones (`Answer`, `Drop`) is
conjoined with what it leaves alone in the sink. Overlap mode means nothing in mode 1, where
only one value is taken. A connection with two restart messages is out of the model, by
`StreamAssumption`: what the server reads as the first block would begin with the second message.

*Left out*: other clients of the loop and its descriptors (`LinkServer`), the ring behind
`store_buffer` (`SpyRing`), and what `recv` writes behind the 65536 bytes of `data_buffer`
when a larger size was announced (section 4).

### DataPath

`Stream` and `SpyRing` joined where the code joins them: a block the port takes
(`TakeMessage`) is a `TsDataTransfer` of the ring, a restart message sets its
`transferSize` (`Announced`), and a killed sink is both at once (`SinkKilled`: its connections
end, its segment stays). DataSink is one thread, so the port takes a turn only between two
blocks (`Serving`), and it listens only when `main` is through `initialise_buffer_area`
(`Listening`): a sender that connects before that is refused. The stores and the spies are the steps of
`SpyRing`, between those of the sender. `numbers` and `got` are history: which of the
application's blocks the ring has under each age, and which a spy was given since it opened.
What a spy copied while an area was initialised is not the block of one age and is not
counted in `got`. `SpyRing`'s `Resize` has no step of its own here: it is `Announced`.

*Left out*: announced sizes above the area's (in `SpyRing` and `Stream` each for itself), and what
those two leave out.

### DirectSpy

`SpyDataSink::Spy` opens the segment as a file, reads from its beginning, and so
sees the first slot and never another. It looks at no age. One action is one
word; the first word is compared with the one remembered (`Unread`), remembered,
and kept with the rest in `buffer`. Ring and writer are the actions of
`SpyRing`; its own readers do nothing here, and the run has none. A word is
the pair of epoch and age of its block, so the first words of two blocks always differ, as
two first time stamps do.

*Left out*: the count of bytes it returns, the second method, which prints. What the buffer
holds word by word is in `Senders`.

### Senders

One `program` of four is chosen at the start. The RIDF programs receive a
datagram and walk it: `Event` is a block header in the outer loop, `Segment` a
header in the inner one, `walked` the position, in the 16 bit units of
`blksize`. What a datagram contains is chosen as it is walked, with the sizes
of a well-formed block: every nested block ends inside its parent and has room for the
data the program reads from it. `euricatssender` collects time stamps from
events of a few subevents, returned by `EventClient`, and fills a block with the first ones. `transferMultiTxData` is `Send`: its result
is ignored, and what it does is `Stream`. The history variables are `read` (the segments
walked, with their event), `event` and `pts0`.

The second half lays the batch out as the words of a slot (six words of
`DATA_HEADER`, four words a record, zeros) and of the direct spy's buffer,
which begins at word 402 of the file, the third of the data, and is filled with 622
of its 1024 words; the rest is given by the parameter `tail`. `SegHits`, `TasHits`,
`NovaHits` and `SyncHits` are the loops with which four programs read them.

`EventClient` gives each outcome of `f_evt_get_event` as an action: the next event of the
buffer (`f_evcli_evt`), a buffer read after the last one was acknowledged
(`EventBuffer`), one read out of step or with a piece missing (`BufferMisread`,
`BufferAstray`), a message (`NoEventData`), a failed write or read (`AckFails`,
`ReadFails`). `channel` is what the descriptor names by now. Nothing ever connects
again: after a failure `euricatssender` gets no events until it is started again.
`Killed` is SIGPIPE, or a step through bytes that are no event into memory that
is not there; what else such bytes hold is any event of the size. The server never
puts events and a message into one buffer, as `f_evcli_buf` takes for granted.

*Left out*: sizes that are zero or leave the block (the code trusts them), the
variants of `nov17` that differ in identification numbers only, printing, SIGINT.

### Coincidence

`MergeMap` maps a key, `(time stamp << 4) + system`, to when it arrived and its
mark. One pass is: insert what arrived, walk the map and erase, walk it again
and compare each master hit with the keys from `itlow` to `itup`. Keys are
unsigned, so `itx->first - 100000` wraps (`KeyMod`), and a reversed range runs
the loop off the end (`RunsWild`, after which nothing more is claimed). The
erasing loop increments an iterator to a freed node: any continuation is
possible, and `Erase` allows them all, a crash among them. The time of a hit is
the clock at its insertion.

*Left out*: the histogram values (differences of zero or out of range are not
drawn), and the counters printed at the end.

### CoincidenceTAS

SyncCheckTAS has one map a system, keyed by time stamps without the system
number, compares a master with the others one after the other, marks only the
partners, and erases through keys inside the loops that stand on the erased
elements. The three maps are kept as one set of keys of `Coincidence`, and
`OfSystem` takes one out. The lower end of its window wraps as well, in
floating point: it becomes the end of the map (`Wraps`), and when the upper end
is not the end the loop leaves the map (`Escapes`). Above it the floating point is exact,
since time stamps have 48 bits (the senders mask them) and a double has 53.

### SyncThreads

The loops of two spies, of `Merge` and of `TimerDone`, one action per section
or unlocked access. A mutex has no owner: `unlock()` by a thread that has not
locked it releases it, which is what the C library does. Sizes read without the
lock while a push is under way may come out either way. Appending to `X` or `Y`
while the interface reads or clears them may end the program (`Crash`); when it
does not, the outcomes are those of the two operations one after the other.
`Y[i]` behind the end of `Y` reads anything. A histogram is how often each hit (`h1X`,
`h1Y`) or pair (`h2`) was filled. The master's spy runs the same
code as the other two and its hits fill nothing alone, so it is not a third
process; that the three may have any outcome is in `Findings`.

*Left out*: the widgets, `h1` axes, and the pass itself, which is `Coincidence`.

## 3. Properties and runs

All configurations finish within five minutes on two workers. A run that must
pass is listed with its bounds; a run that must fail checks one sentence of the
repository that the code does not keep. Every module has a type invariant: `FeedInv` has
that of the ring, and the others hold in their configurations as well.

### `ring` (SpyRing.cfg, 292,639 states)

Two slots of two words, one spy, ages up to 5, two initialisations. Two slots
are enough for every lapping: the writer is at the spy's slot, one lap ahead,
or more; two words are enough for a copy with a foreign beginning or end; five
ages are two and a half laps; the second initialisation meets every state of the first.

* `AcceptedIntact`: an accepted copy is whole, if no initialisation ran during it.
* `FeedInv`: the inductive invariant of the proofs about the ring (section 5), as an
  invariant; the types and `CopyInv` are parts of it, and that a lapped spy loses whole laps
  and never a part of one.
* `RingHoldsLastBlocks`: nothing published early, nothing stale left behind.
* `StarvationEnds`: a spy left with an age ahead of the ring, by a restart or by an open
  between two stores, can read again when the ring is a lap past that age.
* `EmptyMeansCaughtUp`: "no data" to a spy in step is true, but for the slot
  being rewritten a lap later and the first block of an epoch.
* `ImplementsFeed`: the ring implements `LossyFeed`: no block is given twice or after a later one. Copies, retries and
  marks do not show; `stored` is mapped to the feed's `newest` and `last` to
  `seen`. An initialisation maps to `Forget`.
* `ReadableBlockLeaves` (liveness): a block that a polling spy may read is
  taken or replaced. Fairness is on the spy's calls only, which the users of the
  library make in an endless loop; the sink is assumed to do nothing.

### `ring_torn` (violation of `ReturnedIntact`)

`dataspy.c:222` says a block that changed while it was copied is retried. It is,
but `len` keeps the rejected copy's length, and when the retry meets a slot that
is being written (age 0) the call returns that length with words of two blocks
in the caller's buffer.

### `transfer` (Transfer.cfg, 125,617 states)

Modes 1 and 3, both overlaps, three calls, three connections, messages of two
pieces. Two pieces are enough for a broken message, and three calls and
connections for a drop in one call, the recovery in the next and a clean one
after it, and for a connection opened under another that is being opened. Blocks are not empty (see section 4).

* `WireFramed`: a connection carries its restart message and then whole blocks
  numbered 0, 1, 2, though two threads write to the socket. In overlap mode the restart message may
  come twice, which the run reaches; never three times, and never behind a block.
* `NeverResent`: a reconnection sends nothing again and nothing out of order.
* `RequestUndisturbed`: the request and its buffer are not touched until the
  send thread is done with them, in overlap mode and after failed calls too.
* `AckAnswersThisMessage`: in mode 1 the acknowledgement read is that of the
  message just sent.
* `CallReturns` (liveness): the condition variables lose no wakeup. Fairness:
  both threads are scheduled by the kernel and a sink answers; connections may
  drop or stay.

### `link` (LinkServer.cfg, 509,614 states)

Two ports, two clients, each on either port and in either mode, two blocks of
two pieces. Two clients on one port give replacement at every point; on two
ports, service of one during the other. Two blocks are a first and a next.

* `StoredWhole`: what is stored is one block of one client of that port, in sequence.
* `Reassembly`: `data_buffer` up to `Done` and the bytes under way are exactly what the
  client sent last, and `TransferSize` is that of the message under way.
* `OneClientPerPort`: open descriptors are the clients served; none leaks or is shared.
* `AckPerMessage`: handled messages = acknowledgements sent + the one owed.
* `InputIsTaken` (liveness): no port starves another, unless the server hangs
  in `recv` (below) or is killed. Fairness on the server loop only.

`link_select` (violation of `ReadsOnlyWhenReady`): `link_server.cpp:150` says a read
that finds nothing does not happen because of select. It does: `Listen_Socket` closes
the old client's descriptor, `accept` returns the same number, and its bit is
still set from the old connection. The read blocks the server for all ports.

### `stream` (Stream.cfg, 394,640 states)

Both modes, three blocks, two connections, one initialisation for another port, and
any number of restarts of the sink. Three blocks and two connections give a block
lost between two stored ones, at the end of a connection and at the beginning;
messages are one piece, since `transfer` has the broken ones.

* `ImplementsTransfer`: the sink is a peer as `Transfer` assumes. What is shown there
  of the library holds against this server, its restarts and its replacing of clients.
* `ImplementsStream`: the composition implements `BlockStream`. Its `given` is the
  number of the last call, `link` and `delivered` are the connection and number
  of the block handled last, `stored` is the one stored last and `large` whether the size announced
  is above the buffers'. From the call to another process's
  `store_buffer` no block is stored twice or out of order, and blocks go missing only
  between one connection and the next, or by being refused for their length, which only a large size allows.
* `AlarmsExplained`: a sequence error is reported for the first block of a connection or
  after an initialisation of any port, and for no other.
* `SinkHasWork`: while a block on an open connection was not given to `ts_data_transfer`, or a call waits for its
  acknowledgement, there is a client to accept, a message to take or an answer to send.
* `SinkCatchesUp` (liveness): what was completely written to a connection that lives on is
  stored (or refused for its length, with a large size). Fairness: the sender's threads are scheduled and the server loop runs; faults
  are not fair and may stop.

### `path` (DataPath.cfg, 1,381,161 states) and `path_acked` (DataPathAcked.cfg, 1,529,344 states)

The streaming sender with three blocks and no foreign initialisation, and the acknowledging one with
two blocks and one of them; two connections, both sizes (the smaller one initialises
the area at every block), two slots, one spy, ages up to 3, two initialisations, a sink that is
killed at any store. Three blocks on two connections and two slots lap the spy once, with
a loss and a restart before, between or after. Slots are one word, since whether a copy is
torn is asked in `ring`; here it is asked whose block it is.

* `ImplementsDelivery` (`path`): the whole path implements `Delivery`. From the application's call,
  over threads, connections, the port, kills and laps, to the buffer of a spy, blocks come
  in the order of the calls and none twice while the spy is open, but for what is copied while an area is
  initialised. Not even a restart, after which ages begin again, brings a block back that the spy was
  given before.
* `AckedIsInRing` (`path_acked`): the block of a call that returned OK on an acknowledgement is
  the newest of the ring, until the next call or the next start of the sink, a kill between
  the two included. Block sizes of 1 give every block age 0: it is there for the direct spy only.

Both runs have overlap mode off and sizes the area and its buffers hold, so that a restart message comes once and
no block is refused; a call that returned OK without an acknowledgement (`OkMeansAcknowledged`,
section 4) is not what `path_acked` speaks of.

### `direct` (DirectSpy.cfg, 54,768 states)

A ring of two slots of two words, two runs of DataSink, ages up to 3. Only the first slot is
read, so two slots give it every second block; four ages put two blocks into it in
each run, and the marked state between them.

* `FirstHitsInOrder`: the blocks taken have first words in order and each once,
  though only the last is remembered and copies may be torn.
* `RepeatsBounded`: another word may be handed over again, but at most four
  times, and once more for each run of DataSink since. The four are reached.
* `UnreadIsRead` (liveness): a block that begins the slot and was not begun before is begun or
  replaced. Fairness on the spy only: SyncCheck polls, DataSink promises nothing.

### `senders` (Senders.cfg, 1,487,716 states)

Blocks of 46 units hold one event of up to four time stamps or six other segments,
or several events with fewer; of the four raw time stamps one is 0 when
shifted, one is cut to 0 by the mask and one has a low word of 0; six
records fit a block, of which the direct spy's buffer shows four; the limits of the
EURICA buffers are small enough to pass. One block follows another with the
time stamp kept from it. The event server sends five events in buffers of one or two, and
messages at any time: enough for three buffers and for the limit of time stamps; the
connection may fail in each way at each call, and the program be started again.

* `RecordsFit`: the batch never outgrows its block, though no RIDF walk looks at the room: every
  record stands for a segment longer than it. The EURICA buffer holds the event that passes its limit.
* `RecordsTellEvents`: the records are exactly the changes of the time stamp (for
  `testsender` the ADC values), with values of their own event, in order.
* `HitsAreRecords`: the words laid out by the senders and the ring are read back as the records by
  SyncCheck_seg, SyncCheckTAS and SyncCheck_nwNova, up to a low word of 0 or skipping it. SyncCheck
  itself is not among them, and what the direct spy does not fill counts as cleared (section 4).
* `EventsInOrder`: up to a failure of the connection, every event is unpacked once and in
  order, and a buffer is acknowledged when its last event has been, not before.

### `coincidence` (Coincidence.cfg, 1,286,466 states)

Four hits in three passes, time stamps 0 to 3, a window of one time stamp
(`Window` = `Shift`, so that neighbouring keys lie inside, on and outside its
edge), hits kept for one second, either program. Four hits are one more than a complete
coincidence, three passes let a hit be seen, used and expire.

* `SyncCheckFinds`, `TasFinds`: each loop finds exactly what a definition by distance
  finds, with the marks as they were before the pass. Masters whose window begins below
  zero are excepted, and so is what follows when a loop runs off the map (section 4).
* `SentAloneOnce`: no hit is sent alone twice while it is in the map, whatever masters and passes see it.
* `HitsStay`: an unused hit outlives its time, through the erasing loops' detours.

### `threads` (SyncThreads.cfg, 156,751 states)

Two blocks, each from either spy, and one time that a spy gives up
waiting. Two blocks are one pushed while the other is filled or cleared.

* `HandedOver`: each hit reaches the map once and in order, time stamp and data in step.
* `FilledOnce`: nothing pushed once is drawn twice.
* `LocksAreReleased`: a locked mutex has a thread that will unlock it, and a spy that waits for its own
  with `mtx` locked waits for a merge thread that waits for nothing.
* `HitsAreMerged`, `TimerReturns` (liveness): `Merge` catches up and
  the timer function returns. Each thread is strongly fair: a thread that finds a
  mutex free again and again gets it. `std::mutex` does not promise this
  in so many words; the code sleeps between its sections (at least 100 microseconds in a
  spy's poll, a second in `Merge`), which is what makes it so.

### Deadlock

Deadlock is checked in the runs of the ring and of the senders. It is switched off where the system may
really stop: in `Transfer` and `Stream` the application may have made its last call or be
killed; in `DataPath` for the same reasons, and when the ring is at its bounds; in `LinkServer` all clients may be done, or the server stands in `recv`;
in `DirectSpy` DataSink is at its bound and its block has been read;
in `Coincidence` the passes may be over or the program crashed; in `SyncThreads`
no block may arrive any more, or it crashed.

## 4. Where code and text disagree

Each of the two findings in `PROJECT.json` belongs to a run of the previous section. More
were met on the way; each is a definition in its module, and is
reproduced by adding it as an invariant or property to the configuration named:

| definition | where | what happens |
|---|---|---|
| `EmptyMeansNoData` | SpyRing.cfg, `dataspy.c:171` | the first block of an epoch gets age 0, "empty", and no spy of the library sees it |
| `OpenFlushesOldOnly` | SpyRing.cfg, `dataspy.c:123` | an open between the two stores of the writer waits a whole lap |
| `RefusedWasRead` | DirectSpy.cfg, `syncSpyClass.hpp:53` | a block begun while it was being stored is refused when it is whole, since its first time stamp was seen |
| `OkMeansAcknowledged` | Transfer.cfg with `Modes = {1}`, `transfer.c:912` | "mode = 1 requires ACK for each request": `do_recv` reports the full length at the end of the stream (`transfer.c:384`), so the branch for a closed connection is not reached and a server that closes is taken for one that acknowledged |
| `CriticalSection` | SyncThreads.cfg, `SyncCheck.cpp:45` | "mutex for critical section": a spy without data for 50000 polls leaves its loop without `mtx` and unlocks it (`SyncCheck.cpp:165`), and two threads enter |
| `SendsAlone` | Transfer.cfg with `"empty"` in `Lengths`, `transfer.c:950` | an empty block in overlap mode is sent beside the pending one |
| `HandsOverConnection` | Transfer.cfg, `transfer.c:871` | "if there is no connection, open one": the test comes before the wait for the pending send, whose failure closes it, and the block goes to descriptor 0 |
| `LossIsReported` | Stream.cfg, `DataSinkSeg/data_transfer.cpp:168` | numbers begin at 0 with each connection and each initialisation, so a loss there may be reported as none |
| `SyncHitsAreRecords` | Senders.cfg, `syncSpyClass.hpp:53` | SyncCheck reads the direct spy's buffer with offsets of a whole slot (`SyncCheck.cpp:122`): the time stamp of its hit is the `id` and `adc` of a record |
| `HitsWereSent` | Senders.cfg, `SyncCheckTAS.cpp` | words neither cleared (`memset` takes words for bytes) nor filled are taken for time stamps |
| `OnlyEvents` | Senders.cfg, `f_evt.c:912` | a piece of a large buffer that timed out is hidden by the status of the last one (`f_evcli.c:1603`), and a read that failed behind the header leaves the new count with the old position: bytes that are no event are returned with success |
| `DataSinkGetsNone` | Senders.cfg, `f_evcli.c:384`, `:1667` | `f_stc_close` keeps the number it closed; when libxfer gets it, the next acknowledgement is written to DataSink and the next close is of its link |
| `UsedAreErased` | Coincidence.cfg, `SyncCheck.cpp:245` | the increment of the erased iterator may skip used elements |
| `DoubleOnAxes` | Coincidence.cfg, `SyncCheck.cpp:651` | both branches of `SyncCheck.cpp:412` are the same: X is the earlier hit, not the first system |
| `TasOnAxes` | Coincidence.cfg with `Master = 1`, `SyncCheckTAS.cpp:519` | the axis titled AIDA-RIBF is filled with the differences of system 0 |
| `SinglesAreFilled` | SyncThreads.cfg, `SyncCheck.cpp:6` | what is pushed between filling and clearing is dropped |
| `PairsFromOneCoincidence` | SyncThreads.cfg with `MaxReads` 4, `SyncCheck.cpp:7` | a push between the two clears shifts `X` against `Y` |

More are read off rather than checked. `DataSinkSeg/data_transfer.cpp:184` refuses a block above 65504 bytes
and returns 0, so that the sender has its acknowledgement for a block that is not stored; such blocks take an announced size
above 65536, which `link_server.cpp:486` accepts up to 1025*1024 while `data_buffer` has
65536 bytes a port, so that `recv` writes into the next port's. Only DataRelay and DataGen
can announce one, by an option. The second restart message of `WireFramed` is read by the server as what
it is, a block being whole when `TransferSize` bytes are there: with its 1024 bytes and the first
blocks' bytes the framing of that connection is lost. No program switches overlap mode on
(`transfer.c:117`, `datagen.c:148`). Below the window, `SyncCheck.cpp:299` wraps and the loop runs off the end of its map
(`RunsWild`), as that of SyncCheckTAS may (`Escapes`). `testsender.c:163` compares `tts`
with a value it never has, so that ADC values without a time stamp are sent.
A sender with a block size below the area's is never seen by spies of the library, since
every block initialises the area and has age 0, while the direct spy sees each; a sender with the
area's size is seen by the direct spy with every 64th block only, and of each with
its first records. `datarelay.c:106` handles an option `-I` behind a `tolower`.

## 5. What is proved

Each theorem holds for every value of the constants that satisfies the assumption
of its module: any number of slots, words, spies, ports, clients, connections,
pieces, events, hits and any bound. The assumptions are types, and what the code fixes:

| assumption | beyond types | in the code |
|---|---|---|
| `RingAssumption` | at least two slots and one word | `NBLOCKS` is 64 |
| `TransferAssumption` | modes 1 and 3; a message has a piece | the other modes are not modelled |
| `LinkAssumption` | a port, a client, a block has a piece | the header alone is one |
| `StreamAssumption` | block sizes 1, 2 and 3 | below, at and above the area's (section 2) |
| | overlap mode off, or two connections at most | one restart message a connection; no program switches it on |
| `DataPathAssumption` | sizes not above the area's, at least two slots and one word | as for the ring |
| `SendersAssumption` | `8 * MaxRecords + 4 >= BlockSize` | a datagram has at most 65507 bytes, 32753 units; (65536 - 32) / 16 records fit, which pay for 32756 |
| | `NoTs % LowMod = 0`, `MAXTSBUFF >= MAXTSCNT + MaxSubevents`, the direct spy's buffer is whole records long and filled two words into one | 0x8000000000000000; the limits of `euricatssender`; 1024 words, of which 622 |
| `CoincidenceAssumption` | a window, a shift above the system numbers | `<< 4` |
| `EventClientAssumption` | a buffer holds an event | |

Two hypotheses are on top. The theorems of `Stream_proofs` assume `NoOverlap`, that overlap mode is
off, as `transfer.c:117` leaves it and every program of the repository: only then does a connection
carry its restart message once, which the server's reading of blocks rests on. Those of `Transfer_proofs` hold
with overlap mode too. The theorems of both modules assume `NoEmptyStream`: no empty block in the streaming mode. With one, the caller writes beside the
send thread, which is the finding `SendsAlone` of section 4: the properties are
then false, and TLC shows it. No program of the repository sends empty blocks.

Every safety invariant and action property of the passing runs is proved, and all four
refinements. So are six properties that no run lists, since they follow from listed ones or
are parts of inductive invariants: `TypeOK`, `IndexInStep`, `AcceptedInOrder` of the ring,
`WaitsAreAnswered`, `AckedIsStored` and `SizesAgree`. TLC agrees on all of them when they are
added to the configurations.
The invariants the runs check are seldom inductive; what was missing, module by module:

**`SpyRing`: `CopyInv`, `FeedInv`.** `AcceptedIntact` needs, while a spy
is in the middle of its copy, that the age it loaded cannot come back on a
different block. `SpyCopying` says: as long as the slot still shows the age the
spy loaded, the words copied so far are that block's. A word copied keeps this
true because of `SlotsWhole`: a slot with an age holds the block of that age. A
stamp keeps it true because the age it writes is `currentage`, larger than
every age handed out, so a slot that was unmarked
under a spy never shows its age again. `SlotsWhole` in turn needs
`SlotBeingWritten`: nothing is copied into a slot that shows an age, and it is
stamped when all words are there. An initialisation makes ages start again, and
that is what `clean` and `calm` are for: the promise is made for copies during
which none ran (`PhaseClean` says where an initialisation may be).

The order of what a spy is given needs the arithmetic of the ring as well:
`next`, `currentage` and the newest stored age in step at each store
(`StoreProgress`), a slot's age that of its place, modulo `NBlocks`, and recent
(`SlotsInPlace`), the last `NBlocks` blocks present (`LastBlocksThere`), and a spy's index,
its age and the newest block it was given in step (`SpiesInOrder`).
`RingHoldsLastBlocks`, `IndexInStep`, `StarvationEnds`, `AcceptedInOrder` and
`EmptyMeansCaughtUp` follow. So does the refinement `ImplementsFeed`: storing a block
is the feed's `Stamp`, an open its `OpenAge`, the end of a calm read its `Accept`, a
`rewind` its `Forget`, and every other step leaves the feed alone.

**`DirectSpy`: `DirectInv`.** The direct spy looks at no age, so the invariant says what the first slot
may hold: nothing ahead of the block under way (`SlotNotAhead`), words of
two neighbouring blocks only while one is copied over the other (`SlotTorn`), and the
first word a spy remembers as that of its last block (`FirstWord`). Repeats are
bounded by counting: a word may be met by one call for each first word that can stand
beside it in the slot, and each of these is the first word of one taken block only (`Repeats`).

**`Transfer`: `TransferInv`.** `Control` says which thread may hold which mutex and what
flag goes with which program counters; `RequestKept` that the request under way is the one the
caller made; `Sockets`, `Progress` and `Carried` what is on the connection in use,
piece by piece, as a function of where both threads are; `Numbers`, `BlocksInOrder` that no
connection carries a block ahead of the calls; `Nested` and `Restarted` why a connection has two restart messages at most:
a call nests only because a request of an earlier call cleared the socket, that request is over when
it has, and the call makes no other before it returns; so it nests once, and the messages
sent and still to come (`ToCome`) are two at most, or one without overlap; `Acknowledgements` that in mode 1 an answer waits only
for the call that reads it. From these `WireFramed`, `NeverResent` and the action
properties `RequestUndisturbed` and `AckAnswersThisMessage`. `WaitsAreAnswered` reads the
condition variables' part off `Control` and that of `do_recv` off `Acknowledgements`.

**`LinkServer`: `LinkInv`.** Descriptors are reused within a pass, so `OneClientPerPort` needs
`StillListed` and `WaitingBehind`: who still waits, who is served and who is gone,
against the kernel's tables. `Reassembly` needs `InFlight`: what a client has
written, less what was read, is what the connection holds, and its end is the
message under way. `StoredLast` ties the block in `data_buffer` to the last one stored.

**`Stream`: `StreamInv`.** Its first conjunct is `TransferInv`, kept because a step of the
stream is one of `Transfer` (`StreamIsPeer`, the refinement `ImplementsTransfer`). The rest says that
connections queue and are served in the order they were opened (`ServedInOrder`),
that the port has settled, by storing or refusing it, what it has read (`PortInStep`), that a connection has one restart message
(`Once`, by `NoOverlap`) and block numbers without a gap (`Consecutive`), and that the sink lags one answer behind at most
(`Acknowledged`). `ImplementsStream` maps a call to `Give`, a block handled from
the connection of the last one to `Continue` (by `Consecutive`), and one from a later
connection to `Resume` (by `NeverResent` and `LastOnWire`); the rest are stutters.
`SinkHasWork` needs one fact more, that no open connection falls out of the listen queue
before the port has it (`Attended`, an invariant of its own): then it is in the queue, to be
accepted, or served, and by `PortInStep` and `Acknowledged` what was not handled is still to
be taken and what is not answered is owed.

**`DataPath`: `PathInv`.** A step of the whole is one of the stream or a stutter of it, and
one of the ring or a stutter of it (`PathIsStream`, `PathIsRing`), so `StreamInv` and `FeedInv` hold
by the theorems about the parts; the ring's come from an instance of `SpyRing_proofs`, whose definitions
are first shown to be those of `DataPath`'s instance (`SameRingNext` and its neighbours).
What joins the parts is new. `NobodyBefore`: nobody is connected to a sink that does not
listen, so no block arrives in the middle of another. `Numbered`: the application's numbers
of the ring's blocks ascend to the one stored last, and stay below it while it is on its way into
the ring. `Heard`: what a spy was given last is below every number it may still be given.
This is where a restart matters: ages begin again at 0 and `last` with them, and it takes
the refinement of the stream (each block taken is a `Continue` or `Resume` of `BlockStream`,
`TakeIsDelivery`) to see that every block of the new epoch is newer than all the spy has. `PortInRing` and
`AnsweredStays` carry an answer from the port to the return of the call: once it is sent there is
nothing on the connection to take, so the ring cannot move on. `ImplementsDelivery` maps a call to
`Give`, an open to `Open` and the end of a calm read to `Deliver`: by `Heard` the block is later than
the last, and by `HandledWasGiven` a block that was given.

**`Senders`, `EventClient`: `SendersInv`, `ClientInv`, `TellInv`.** `RecordsFit` is proved by paying for each
record with eight units of the block that were walked (`Paid`), one in advance when
an event's time stamp is already owed; `EventsInOrder` by relating the number of the event
returned to the buffer and the position in it while the channel is the server's.
`RecordsTellEvents` speaks of whole events at the end of a block, `TellInv` of the event
under way at each segment of it: `syncdata`, `tsok` and `coinok` hold what that event has
said so far and nothing of the one before (`HeardSoFar`), `pts` is the time stamp read
last in any block (`PtsIsLast`), and the batch is the records of the places already
settled (`ToldSoFar`), which for `nov17` are those of the events before. A step then
leaves what is said of the old places alone and appends the record of the new one.
`HitsAreRecords` follows from types and room alone, by the arithmetic of places: word
by word for the slot and the buffer, and the places of a loop of step four as an
ascending sequence of records.

**`Coincidence`: `HitsInv`, `FindsInv`.** What was sent alone is marked
or gone, and what is gone does not come back; an element is erased only if it was
used or is old. For `SyncCheckFinds` and `TasFinds`, which compare the result of a whole
pass with a definition by distance, `FindsInv` says what the loop has found when its iterator is at a
master (`SyncWalk`, `TasWalk`): a hit of another system is marked exactly if it was before the pass or was
sent to a master already walked, and the outputs are what belongs to those masters. The lemmas under it
show that the elements from `itlow` to `itup` are those in the window, and none of them when the key
has wrapped.

**`SyncThreads`: `ThreadsInv`, `MtxOwed`.** `ThreadsInv` says who holds a spy's mutex (`OneHolder`), the vectors
and queues in step with it (`InStep`), and for every hit the histogram entries, and those still
due from `X` and `Y`, no more than its pushes (`NotTwice`), although the two
vectors are read and cleared without the lock. `LocksAreReleased` follows from `OneHolder` for the
spies' mutexes. For `mtx` no holder can be named, since a thread may unlock what another
locked; `MtxOwed` says that while it is locked some thread stands before an `unlock()`.

Each proof has one lemma for a conjunct or a group of them, one step per action, and PTL joins
them. What the solver does not have is in `NumberLemmas`: the arithmetic of `\div` and
`%`, and that `Ascending` is the one ascending sequence of a set and grows at its end
with a greater element. `Ascending` is defined by rank for that reason, not with the
`SortSeq` of TLC, which the prover cannot open.

**Only model-checked:** liveness (`ReadableBlockLeaves`, `CallReturns`, `InputIsTaken`,
`SinkCatchesUp`, `UnreadIsRead`, `HitsAreMerged`, `TimerReturns`). Fairness and ENABLED
are outside the prover; `WaitsAreAnswered`, `SinkHasWork` and `LocksAreReleased` are as much of
three of them as it can show. `TellInv`, `FindsInv` and `PathInv` are in no configuration, for the
time they take; each was checked with TLC as an invariant of the module's runs before it was proved.

## 6. Not modelled

`components` in `PROJECT.json` lists each part with its reason. In short:

* The rest of GSI's event library (`ribfts/eventapiV50`), which is vendored and a third of the
  repository's lines: files, stream and transport servers, output, histograms,
  status, filters. `EventClient` has what `euricatssender` calls; nothing else is called.
* Copies: `ribfts` holds an older DataPackage, DataSinkSeg and DataStorageSeg
  repeat DataSink and DataStorage but for the sequence check, and SyncCheck and the
  RIBF sender exist in dated variants that differ in constants or in the pieces
  modelled. A model of each copy would be the same text once more.
* `DataRelay`, `DataGen` and the viewers, loops over the two libraries without state of their
  own. What a relay can lose is what `LossyFeed` allows its spy and then
  `BlockStream` its sender.
* Windows, widgets and histograms; command lines; the debugging tools
  of the RIBF system; `AutoUpdate` of the displays.
* Inputs the code trusts: RIDF blocks with sizes of zero or beyond their parent, datagrams cut
  short, a restart message with an area smaller than mapped (`alloc_data_area.cpp:207` then
  truncates the segment under the spies), a spy that opens the segment in the few
  stores before its geometry is written, and a failing `accept` (the server exits).
* Modes 2, 4 and 6 of libxfer, which only DataGen can select, by an option.

## 7. Plan

Done, in this order: `SpyRing` with `LossyFeed` and its proof (everything else
feeds or reads the ring), `Transfer`, `LinkServer`, `Coincidence`,
`SyncThreads`; then `BlockStream` with `Stream`, `DirectSpy`, `Senders`,
`CoincidenceTAS`, `EventClient`. No module is left to write. Proofs done, in this order: the ring with its refinement,
`Coincidence`, `LinkServer`, `Transfer`, `Stream` with its refinements, `Senders`,
`SyncThreads`, `DirectSpy`; then ascending order, and with it `SyncCheckFinds`, `TasFinds`,
`RecordsTellEvents` and `HitsAreRecords`; the safety half of the liveness properties; and
last `DataPath`, which puts the theorems about library, port and ring together. Next, should
the code change or more be wanted:

1. `DataPath` with the direct spy in place of the library's: which of the application's
   blocks it can miss, from `FirstHitsInOrder` and `Numbered`.
2. A second sender behind the same port, so that `LinkServer`'s replacement of a client
   meets the ring.
