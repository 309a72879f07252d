----------------------------- MODULE MCSettlement -----------------------------
(* One order, two attempts to pay it, two settlements of its escrow.          *)
EXTENDS Settlement, TLC
CONSTANTS o1
MCOrderOf == [a \in Attempt |-> o1]
Symmetry == Permutations(Settler) \cup Permutations(Attempt)
=============================================================================
