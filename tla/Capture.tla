-------------------------------- MODULE Capture --------------------------------
(***************************************************************************)
(* What the ledger's transfer behind an order promises: the buyer's money   *)
(* is pending, and then voided or captured; what is captured is used once - *)
(* it confirms a payment, settles the escrow, or is returned.               *)
(***************************************************************************)
CONSTANT Order

VARIABLE funds     \* where the money of each order is

Init == funds = [o \in Order |-> "none"]

Uses  == {"confirmed", "settled", "returned"}
After == [none |-> {"pending"}, pending |-> {"voided", "captured"}, captured |-> Uses,
          voided |-> {}, confirmed |-> {}, settled |-> {}, returned |-> {}]

Move(o) == /\ funds'[o] \in After[funds[o]]
           /\ funds' = [funds EXCEPT ![o] = funds'[o]]

Next == \E o \in Order : Move(o)

Spec == Init /\ [][Next]_funds
=============================================================================
