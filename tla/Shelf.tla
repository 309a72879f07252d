-------------------------------- MODULE Shelf --------------------------------
(***************************************************************************)
(* What the inventory promises: the units of an order line leave the shelf  *)
(* once, together with those of its order's other lines, and come back once *)
(* at most.  How a reservation is claimed, committed or released is left to *)
(* the modules that implement it.                                           *)
(***************************************************************************)
EXTENDS Integers

CONSTANTS Order, Line,
          OrderOf, Qty,    \* each line's order and number of units
          Demand,          \* the units of each order
          Supply           \* the units of the product there are

VARIABLES free,            \* units on the shelf
          fate             \* each line's units: not taken, out, or back

LinesOf(o) == {l \in Line : OrderOf[l] = o}

Init == free = Supply /\ fate = [l \in Line |-> "open"]

\* An order takes what all its lines need, or nothing.
Take(o) ==
  /\ \A l \in LinesOf(o) : fate[l] = "open"
  /\ free >= Demand[o]
  /\ free' = free - Demand[o]
  /\ fate' = [l \in Line |-> IF OrderOf[l] = o THEN "out" ELSE fate[l]]

\* The units of one line come back.
Return(l) ==
  /\ fate[l] = "out"
  /\ free' = free + Qty[l]
  /\ fate' = [fate EXCEPT ![l] = "back"]

Next == (\E o \in Order : Take(o)) \/ (\E l \in Line : Return(l))

Spec == Init /\ [][Next]_<<free, fate>>
=============================================================================
