----------------------------- MODULE Resequencer -----------------------------
(***************************************************************************)
(* What the coordinator promises to the tracker: items 0 .. Size - 1       *)
(* arrive in any order; the moment an item arrives, every item that has    *)
(* all its predecessors is released, in order.                             *)
(***************************************************************************)
EXTENDS Integers, Sequences

CONSTANT Size

VARIABLES arrived, released

Item == 0..(Size - 1)

(* The items <<0, 1, ..., n - 1>>.                                         *)
FirstItems(n) == [i \in 1..n |-> i - 1]

(* n items can be released: they have all arrived, and the next has not.   *)
Releasable(S, n) == 0..(n - 1) \subseteq S /\ n \notin S

Init == arrived = {} /\ released = <<>>

Arrive(c) ==
  /\ arrived' = arrived \cup {c}
  /\ \E n \in 0..Size : Releasable(arrived', n) /\ released' = FirstItems(n)

Next == \E c \in Item : Arrive(c)

Spec == Init /\ [][Next]_<<arrived, released>>
=============================================================================
