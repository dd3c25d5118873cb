----------------------------- MODULE MCCheckout -----------------------------
(* Two carts for one browser, whose tabs may send requests and check out   *)
(* at the same time.                                                       *)
EXTENDS Checkout, TLC

CONSTANTS b1, c1, c2, v1, w1, w2

Symmetry == Permutations(Cart) \cup Permutations(Worker)
=============================================================================
