---------------------------- MODULE MCAggregator ----------------------------
(* Aggregator with two trades of a second, of a minute, and a late one. *)
EXTENDS Aggregator

CONSTANTS m1

At(second, price, size) == [market |-> m1, second |-> second, price |-> price, size |-> size]

MCHistories == {<<At(0, 2, 1), At(0, 1, 2)>>,
                <<At(0, 2, 1), At(1, 3, 1)>>,
                <<At(2, 3, 1), At(0, 2, 1)>>}
===========================================================================
