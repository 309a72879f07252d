------------------------------ MODULE MCCheckout ------------------------------
(* A small instance of Checkout: an order of two lines, paid twice, and a      *)
(* second order that the stock does not cover.                                 *)
EXTENDS Checkout, TLC
CONSTANTS o1, o2, l1, l2, l3
MCOrderOf == [l \in Line |-> IF l = l3 THEN o2 ELSE o1]
MCQty == [l \in Line |-> IF l = l3 THEN 3 ELSE 1]
Confirmers == Permutations(Confirmer)
MCPaysFor == [p \in Payment |-> o1]
=============================================================================
