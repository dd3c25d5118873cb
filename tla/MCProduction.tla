--------------------------- MODULE MCProduction ---------------------------
(* Two orders on the board: o1 with two items, o2 with one.                *)
EXTENDS Production, TLC

CONSTANTS o1, o2, i1, i2, i3, w1, w2

MCOrderOf == [i \in Item |-> IF i = i3 THEN o2 ELSE o1]
WorkerSymmetry == Permutations(Worker)
=============================================================================
