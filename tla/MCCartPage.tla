----------------------------- MODULE MCCartPage -----------------------------
(* Three products, all in data/products.json, and two requests at once.   *)
EXTENDS CartPage, TLC

CONSTANTS p1, p2, p3, r1, r2

Symmetry == Permutations(Product) \cup Permutations(CartRequest)
=============================================================================
