-------------------------------- MODULE Trust --------------------------------
(***************************************************************************)
(* What an escrow promises buyer and merchant: money that is held goes back *)
(* piece by piece or is released, once, with all that has not gone back;    *)
(* after that nothing moves.  A promise may be broken (Void): then nothing  *)
(* is said of that escrow any more.                                         *)
(***************************************************************************)
EXTENDS Integers

CONSTANTS Escrow, Amount

VARIABLES phase,     \* of each escrow
          back,      \* what the buyer has got back
          out        \* what was paid out at its release

vars == <<phase, back, out>>

Init == /\ phase = [e \in Escrow |-> "none"]
        /\ back = [e \in Escrow |-> 0]
        /\ out = [e \in Escrow |-> 0]

Hold(e) == /\ phase[e] = "none"
           /\ phase' = [phase EXCEPT ![e] = "held"]
           /\ UNCHANGED <<back, out>>

Rest(e) == Amount[e] - back[e]

GiveBack(e) ==
  /\ phase[e] = "held"
  /\ \E n \in 1 .. Rest(e) :
       /\ back' = [back EXCEPT ![e] = @ + n]
       /\ phase' = [phase EXCEPT ![e] = IF n = Rest(e) THEN "returned" ELSE @]
  /\ UNCHANGED out

\* All of the rest is paid out, or a bank that holds it is told to.
Release(e) ==
  /\ phase[e] = "held"
  /\ phase' = [phase EXCEPT ![e] = "released"]
  /\ \E n \in {0, Rest(e)} : out' = [out EXCEPT ![e] = n]
  /\ UNCHANGED back

Void(e) == /\ phase[e] \notin {"none", "void"}
           /\ phase' = [phase EXCEPT ![e] = "void"]
           /\ back' = [back EXCEPT ![e] = 0]
           /\ out' = [out EXCEPT ![e] = 0]

Next == \E e \in Escrow : Hold(e) \/ GiveBack(e) \/ Release(e) \/ Void(e)

Spec == Init /\ [][Next]_vars
=============================================================================
