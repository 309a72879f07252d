------------------------------ MODULE MCFxPayout ------------------------------
(* A small instance of FxPayout: one quote, which takes all the wallet has.    *)
EXTENDS FxPayout
MCGross == [q \in Quote |-> Funds]
=============================================================================
