---------------------------- MODULE MCWithdrawal ----------------------------
(* Small instances of Withdrawal: calls that share one reference, on different *)
(* rails and for different amounts, of which the wallet covers the first two.  *)
EXTENDS Withdrawal, TLC
CONSTANTS q1, q2, q3, r1
MCRefOf == [q \in Request |-> r1]
MCAmountOf == [q \in Request |-> CASE q = q1 -> 1 [] q = q2 -> 2 [] OTHER -> 3]
MCRailOf == [q \in Request |-> IF q = q2 THEN "flutterwave" ELSE "paystack"]
Hooks == Permutations(Hook)
=============================================================================
