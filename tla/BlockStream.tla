----------------------------- MODULE BlockStream -----------------------------
(***************************************************************************)
(* What a sender's blocks look like at the sink, with no threads, sockets, *)
(* acknowledgements or restarts: blocks are numbered 1, 2, 3, ... as the   *)
(* application gives them to the library; the sink handles each at most    *)
(* once and in that order; blocks go missing only where one connection     *)
(* ends and the next begins; and what it handles it stores, unless the     *)
(* blocks are larger than its buffers: then it may refuse one.             *)
(***************************************************************************)
EXTENDS Integers

VARIABLES
  large,      \* the sender's blocks may be larger than the sink's buffers
  given,      \* number of the last block the application gave
  link,       \* the connection that brought the last block, 0 at first
  delivered,  \* number of the last block handled, 0 at first
  stored      \* number of the last block stored, 0 at first

stream == <<large, given, link, delivered, stored>>

Init == large \in BOOLEAN /\ given = 0 /\ link = 0 /\ delivered = 0 /\ stored = 0

Give == given' = given + 1 /\ UNCHANGED <<large, link, delivered, stored>>

StoreOrRefuse == stored' = delivered' \/ (large /\ UNCHANGED stored)

\* the next block of the same connection, with nothing missing
Continue ==
  /\ delivered < given /\ link > 0
  /\ delivered' = delivered + 1
  /\ StoreOrRefuse
  /\ UNCHANGED <<large, given, link>>

\* the first block of a later connection
Resume ==
  /\ \E b \in delivered + 1 .. given : delivered' = b
  /\ link' > link
  /\ StoreOrRefuse
  /\ UNCHANGED <<large, given>>

Next == Give \/ Continue \/ Resume

Spec == Init /\ [][Next]_stream

=============================================================================
