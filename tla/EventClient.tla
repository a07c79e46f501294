----------------------------- MODULE EventClient -----------------------------
(***************************************************************************)
(* The client of an MBS event server, as euricatssender uses it: f_evt_get_*)
(* for GETEVT__EVENT, over f_evcli.c and f_stccomm.c.  The server sends a  *)
(* buffer of events, or one with a message only, and waits for an          *)
(* acknowledgement; the client steps through the events of the buffer,     *)
(* acknowledges it when they are used up, and reads the next one.          *)
(*                                                                         *)
(* f_evt_get_event is one action of the single-threaded program for each of*)
(* its outcomes.  The server is external: what it sends is chosen.  Events *)
(* are known by their numbers; what is in one is the caller's business.    *)
(***************************************************************************)
EXTENDS Integers

CONSTANTS
  BufferEvents,  \* bound: events of a buffer
  MaxEvents      \* bound: events the server sends; messages have none

ASSUME EventClientAssumption == BufferEvents \in Nat \ {0} /\ MaxEvents \in Nat

VARIABLES
  \* what l_channel_no and s_tcpcomm_ec.socket name: the event server ("server"; "astray"
  \* if bytes of an older buffer are still to be read from it), nothing ("closed"), a
  \* connection that was reset ("reset"), or the socket libxfer got when it
  \* connected again ("sink")
  channel,
  l_events,      \* of the header in pc_io_buf
  l_evt_buf_posi,
  sent,          \* events the server has sent
  acked, last    \* history: events acknowledged, number of the last event returned

client == <<channel, l_events, l_evt_buf_posi, sent, acked, last>>

EventClientTypeOK ==
  /\ channel \in {"server", "astray", "closed", "reset", "sink"}
  /\ l_events \in 0 .. BufferEvents /\ l_evt_buf_posi \in 0 .. BufferEvents
  /\ sent \in 0 .. MaxEvents /\ acked \in 0 .. sent /\ last \in 0 .. sent

\* f_evt_get_open has sent the filter and read the first buffer, a message.
ClientInit ==
  /\ channel = "server" /\ l_events = 0 /\ l_evt_buf_posi = 0
  /\ sent = 0 /\ acked = 0 /\ last = 0

-----------------------------------------------------------------------------
\* f_evcli_evt: the buffer has an event behind the last one returned.
AtHand == l_evt_buf_posi < l_events

\* Only the events of a buffer that was read whole are the server's.  After a failure
\* behind the header, l_events is new (and not swapped), position and address are old.
f_evcli_evt ==
  /\ AtHand
  /\ l_evt_buf_posi' = l_evt_buf_posi + 1
  /\ last' = IF channel = "server" THEN sent - l_events + l_evt_buf_posi' ELSE last
  /\ UNCHANGED <<channel, l_events, sent, acked>>

\* f_evcli_buf begins: the buffer is used up, the acknowledgement is written.
f_send_ackn ==
  /\ ~AtHand
  /\ channel \in {"server", "astray", "sink"}
  /\ acked' = IF channel = "server" THEN sent ELSE acked

\* Mutant: the position is that of no event yet.
EventBufferAnew(n) ==
  /\ f_send_ackn /\ channel = "server" /\ sent + n <= MaxEvents
  /\ sent' = sent + n /\ last' = sent + 1
  /\ l_events' = n /\ l_evt_buf_posi' = 0
  /\ UNCHANGED channel

\* f_read_server: a buffer of n events
EventBuffer(n) ==
  /\ f_send_ackn /\ channel = "server" /\ sent + n <= MaxEvents
  /\ sent' = sent + n /\ last' = sent + 1
  /\ l_events' = n /\ l_evt_buf_posi' = 1
  /\ UNCHANGED channel

\* A piece of a large buffer timed out, but the last one came: its status is the one
\* that is returned, and the bytes not read are taken for the next buffer.
BufferMisread(n) ==
  /\ f_send_ackn /\ channel = "server" /\ sent + n <= MaxEvents
  /\ channel' = "astray"
  /\ sent' = sent + n
  /\ l_events' = n /\ l_evt_buf_posi' = 1
  /\ UNCHANGED last

\* What is read out of step may look like a buffer of any number of events.
BufferAstray(n) ==
  /\ f_send_ackn /\ channel = "astray"
  /\ l_events' = n /\ l_evt_buf_posi' = 1
  /\ UNCHANGED <<channel, sent, last>>

\* f_evt_get_event returns GETEVT__SUCCESS.
EventReturned ==
  f_evcli_evt \/ (\E n \in 1 .. BufferEvents : EventBuffer(n) \/ BufferMisread(n) \/ BufferAstray(n))

\* A message, or a flush without events: GETEVT__TIMEOUT
NoEventData ==
  /\ f_send_ackn /\ channel \in {"server", "astray"}
  /\ l_events' = 0 /\ l_evt_buf_posi' = 1
  /\ UNCHANGED <<channel, sent, last>>

\* f_stc_close: shutdown fails on a connection that was reset, and then close is not
\* called.  The socket stays in s_tcpcomm_ec in any case.
f_stc_close ==
  channel' \in (IF channel \in {"server", "astray"} THEN {"closed", "reset"} ELSE {"closed"})

\* f_send_ackn fails: the connection was reset, the write was short, or the descriptor
\* is closed.
AckFails ==
  /\ ~AtHand /\ channel \in {"server", "astray", "closed"}
  /\ f_stc_close
  /\ UNCHANGED <<l_events, l_evt_buf_posi, sent, acked, last>>

\* f_read_server fails, before or behind the header, in a buffer set to 0: the server
\* is gone or silent.  DataSink answers no acknowledgement of events.
ReadFails ==
  /\ f_send_ackn /\ f_stc_close
  /\ l_events' \in (IF channel = "sink" THEN {0} ELSE 0 .. BufferEvents)
  /\ UNCHANGED <<l_evt_buf_posi, sent, last>>

\* f_evt_get_event returns another status, which the caller prints.
NothingReturned == NoEventData \/ AckFails \/ ReadFails

\* The program does not survive the call: SIGPIPE from the second write to a connection
\* that was reset, or an address beyond the buffer, from lengths that are none.
Fatal == IF AtHand THEN channel # "server" ELSE channel = "reset"

\* libxfer connects to DataSink again and gets the descriptor: the lowest one free, if
\* the event server was connected when DataSink was not.
DescriptorReused ==
  /\ channel = "closed" /\ channel' = "sink"
  /\ UNCHANGED <<l_events, l_evt_buf_posi, sent, acked, last>>

\* The program is started again.  What the server had sent is gone.
Reopened ==
  /\ channel' = "server" /\ l_events' = 0 /\ l_evt_buf_posi' = 0
  /\ acked' = sent /\ last' = sent
  /\ UNCHANGED sent

=============================================================================
