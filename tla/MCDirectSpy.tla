----------------------------- MODULE MCDirectSpy -----------------------------
(* DirectSpy with two slots of two words; Half is a size for which datasink  *)
(* initialises the area, and fills the first slot, at every block.           *)
EXTENDS DirectSpy

CONSTANTS Full, Half

=============================================================================
