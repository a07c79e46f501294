------------------------------- MODULE Delivery -------------------------------
(***************************************************************************)
(* What a program that reads with the spy library may rely on, with no     *)
(* connections, acknowledgements, slots, ages or restarts: the blocks a    *)
(* sending application gives to its library are numbered 1, 2, 3, ...; a   *)
(* spy that has opened the data area is given some of them, each at most   *)
(* once and in that order, whatever happens to the programs between.       *)
(***************************************************************************)
EXTENDS Integers, Sequences

CONSTANT Readers

VARIABLES
  given,   \* number of the last block the application gave
  got      \* got[r]: the blocks spy r was given since it opened

delivery == <<given, got>>

Init == given = 0 /\ got = [r \in Readers |-> <<>>]

Give == given' = given + 1 /\ UNCHANGED got

Open(r) == got' = [got EXCEPT ![r] = <<>>] /\ UNCHANGED given

Latest(r) == IF got[r] = <<>> THEN 0 ELSE got[r][Len(got[r])]

Deliver(r) ==
  /\ \E b \in Latest(r) + 1 .. given : got' = [got EXCEPT ![r] = Append(@, b)]
  /\ UNCHANGED given

Next == Give \/ \E r \in Readers : Open(r) \/ Deliver(r)

Spec == Init /\ [][Next]_delivery

=============================================================================
