----------------------------- MODULE MCSessions -----------------------------
(* The first owner and one more account, two requests at once.             *)
EXTENDS Sessions, TLC

CONSTANTS u1, u2, s1, s2, r1, r2

Changes == [u \in Users |-> IF u = u1 THEN 0 ELSE 1]
Symmetry == Permutations(Sids) \cup Permutations(Requests)
=============================================================================
