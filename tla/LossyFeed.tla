------------------------------ MODULE LossyFeed ------------------------------
(***************************************************************************)
(* What a spy may rely on, with no slots, words, ages or locks: blocks are *)
(* numbered 0, 1, 2, ... as they are published; a spy that has seen block  *)
(* n is next given a later one, never one that has left the window of the  *)
(* last Window blocks.  Blocks may be missed, never repeated or reordered. *)
(***************************************************************************)
EXTENDS Integers

CONSTANTS Readers, Window

VARIABLES
  newest,   \* number of the newest published block, -1 before the first
  seen      \* seen[r]: r is owed only blocks above this one

feed == <<newest, seen>>

Init == newest = -1 /\ seen = [r \in Readers |-> -1]

Publish == newest' = newest + 1 /\ UNCHANGED seen

\* A spy joins: it is owed what is published from now on, and possibly the
\* block that is being published while it joins.
Join(r) ==
  /\ seen' = [seen EXCEPT ![r] = newest] \/ seen' = [seen EXCEPT ![r] = newest - 1]
  /\ seen'[r] >= -1
  /\ UNCHANGED newest

\* The window is a lower bound on freshness: newer blocks may be given first.
Give(r) ==
  /\ \E n \in newest - Window + 1 .. newest :
       n > seen[r] /\ n >= 1 /\ seen' = [seen EXCEPT ![r] = n]
  /\ UNCHANGED newest

\* The source starts again from nothing.
Forget == newest' = -1 /\ seen' = [r \in Readers |-> -1]

Next == Publish \/ Forget \/ \E r \in Readers : Join(r) \/ Give(r)

Spec == Init /\ [][Next]_feed

=============================================================================
