----------------------------- MODULE Disbursement -----------------------------
(***************************************************************************)
(* What a merchant's wallet promises of payouts: of the calls that share a  *)
(* reference one takes its amount, once, and the amount is then paid, or    *)
(* comes back, once and never both.  (A provider may take a payment back,   *)
(* and the amount is on its way again.)  A promise may be broken: then the  *)
(* amount may come back again.                                              *)
(***************************************************************************)
EXTENDS Integers

CONSTANTS Request, RefOf, AmountOf,   \* the calls, their references and amounts
          Funds                       \* what the wallet starts with

VARIABLES purse,     \* the wallet's balance
          fate       \* of each call's amount

vars == <<purse, fate>>

Init == purse = Funds /\ fate = [q \in Request |-> "home"]

Leave(q) ==
  /\ \A p \in Request : RefOf[p] = RefOf[q] => fate[p] = "home"
  /\ purse >= AmountOf[q]
  /\ purse' = purse - AmountOf[q]
  /\ fate' = [fate EXCEPT ![q] = "out"]

Arrive(q) == /\ fate[q] = "out"
             /\ fate' = [fate EXCEPT ![q] = "paid"]
             /\ UNCHANGED purse

Bounce(q) == /\ fate[q] = "paid"
             /\ fate' = [fate EXCEPT ![q] = "out"]
             /\ UNCHANGED purse

ComeBack(q) == /\ fate[q] = "out"
               /\ purse' = purse + AmountOf[q]
               /\ fate' = [fate EXCEPT ![q] = "back"]

Break(q) == /\ fate[q] # "home"
            /\ fate' = [fate EXCEPT ![q] = "broken"]
            /\ purse' \in {purse, purse + AmountOf[q]}

Next == \E q \in Request : Leave(q) \/ Arrive(q) \/ Bounce(q) \/ ComeBack(q) \/ Break(q)

Spec == Init /\ [][Next]_vars
=============================================================================
