--------------------------- MODULE MCFulfilment ---------------------------
(* A small instance of Fulfilment: an order of two items that compete for  *)
(* component c1; the second item also needs c2, which can run out on its   *)
(* own.                                                                    *)
EXTENDS Fulfilment

CONSTANTS o1, i1, i2, c1, c2, w1, w2

MCOpening == (c1 :> 2) @@ (c2 :> 1)
MCLines == [o \in Order |-> <<i1, i2>>]
MCNeed == (i1 :> (c1 :> 1 @@ c2 :> 0)) @@ (i2 :> (c1 :> 1 @@ c2 :> 1))
MCQty == [i \in Item |-> 1]
MCTotal == [o \in Order |-> 2]
MCDelta == {1, -1}
WorkerSymmetry == Permutations(Worker)
=============================================================================
