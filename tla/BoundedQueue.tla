---------------------------- MODULE BoundedQueue ----------------------------
(***************************************************************************)
(* What a two-in two-out FIFO promises its users: a queue of at most        *)
(* Capacity items.  In one clock cycle it delivers up to two items from its *)
(* head, then accepts up to two at its tail, in order; or it is emptied.    *)
(* Room is judged on the state before the cycle: an item delivered in a     *)
(* cycle does not make room for one accepted in the same cycle.             *)
(***************************************************************************)
EXTENDS Integers, Sequences

CONSTANTS Data, Capacity

VARIABLE q

Init == q = << >>

Flush == q' = << >>

Step(out, in) ==
  /\ out <= Len(q)
  /\ Len(q) + Len(in) <= Capacity
  /\ q' = SubSeq(q, out + 1, Len(q)) \o in

Transfer ==
  \E out \in 0..2 :
    \/ Step(out, << >>)
    \/ \E d \in Data : Step(out, <<d>>)
    \/ \E d, e \in Data : Step(out, <<d, e>>)

Next == Flush \/ Transfer

Spec == Init /\ [][Next]_q
=============================================================================
