------------------------------ MODULE MCSpyRing ------------------------------
(* SpyRing with two slots of two words: the smallest ring in which a spy can *)
(* be lapped between two words of a copy.  Full is the size datasink starts  *)
(* with, Half a smaller one that a sender may announce.                      *)
EXTENDS SpyRing

CONSTANTS Full, Half

=============================================================================
