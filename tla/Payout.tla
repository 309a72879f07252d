-------------------------------- MODULE Payout --------------------------------
(***************************************************************************)
(* What an FX payout promises its merchant: the gross leaves the wallet     *)
(* once, and then either reaches the payee or comes back, never both.       *)
(***************************************************************************)
EXTENDS Integers

CONSTANTS Quote, Gross, Funds

VARIABLES purse,     \* the merchant's money
          fate       \* of each quote's gross

Init == purse = Funds /\ fate = [q \in Quote |-> "home"]

\* The merchant's other spending.
Spend == purse > 0 /\ purse' = purse - 1 /\ UNCHANGED fate

Leave(q) == /\ fate[q] = "home" /\ purse >= Gross[q]
            /\ purse' = purse - Gross[q]
            /\ fate' = [fate EXCEPT ![q] = "out"]

Arrive(q) == /\ fate[q] = "out"
             /\ fate' = [fate EXCEPT ![q] = "paid"]
             /\ UNCHANGED purse

ComeBack(q) == /\ fate[q] = "out"
               /\ purse' = purse + Gross[q]
               /\ fate' = [fate EXCEPT ![q] = "back"]

Next == Spend \/ \E q \in Quote : Leave(q) \/ Arrive(q) \/ ComeBack(q)

Spec == Init /\ [][Next]_<<purse, fate>>
=============================================================================
