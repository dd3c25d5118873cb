---------------------------- MODULE MCCatalogue ----------------------------
(* Two products and two files that list their SKUs in opposite orders.     *)
EXTENDS Catalogue, TLC

CONSTANTS v1, v2, typo, s1, s2

L(sku, price, sale, status) == [sku |-> sku, price |-> price, sale |-> sale, status |-> status]
MCFiles == {<<L(v1, 2, Blank, ""), L(v2, 2, 1, ""), L(v1, -1, Blank, "")>>,
            <<L(v2, 1, Text, "active"), L(typo, 1, 1, ""), L(v1, Text, 1, "")>>}
MCSold == [v \in Variant |-> [price |-> 1, sale |-> NoSale]]
MCFamily == {{v1}, {v2}}
StaffSymmetry == Permutations(Staff)
=============================================================================
