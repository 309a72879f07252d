------------------------------- MODULE MCEscrow -------------------------------
(* Small instances of Escrow: amounts that leave room for a partial refund that *)
(* eats into the merchant's net, and one that eats into the fee.                *)
EXTENDS Escrow, TLC
CONSTANTS e1, e2
MCAmount == [e \in Escrow |-> IF e = e1 THEN 3 ELSE 2]
MCFee == [e \in Escrow |-> 1]
Callers == Permutations(Caller)
=============================================================================
