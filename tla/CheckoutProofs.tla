--------------------------- MODULE CheckoutProofs ---------------------------
(***************************************************************************)
(* Proofs of the safety properties of Checkout, and that it implements      *)
(* Shelf, for any number of orders, lines, payments and workers.            *)
(***************************************************************************)
EXTENDS Checkout, SumTheorems, TLAPS

\* Who does what, and which rows exist once an order is placed.
JobShape ==
  /\ \A w \in Canceller : job[w] # Idle => job[w].via \in {"cancel", "chat"}
  /\ \A w \in Sweeper : job[w] # Idle => job[w].via = "sweep"
  /\ \A w \in Canceller \cup Sweeper : job[w] # Idle => status[job[w].order] # "none"
  /\ \A w \in Canceller \cup Sweeper : job[w].at = "credit" /\ job[w].via # "cancel" =>
        job[w].from = "reserved"
RowShape ==
  /\ \A l \in Line : res[l] = "none" <=> status[OrderOf[l]] = "none"
  /\ \A o \in Order : /\ status[o] = "none" => paid[o] = "unpaid"
                      /\ hold[o] # "none" => paid[o] # "unpaid"
  /\ \A p \in Payment : pay[p] # "none" => status[PaysFor[p]] # "none"
  /\ \A w \in Confirmer : job[w] # Idle => pay[job[w].pay] # "none"
  /\ \A w \in Confirmer : job[w].at \in {"confirm", "commit", "hold"} =>
        pay[job[w].pay] = "completed"
  /\ \A w \in Confirmer : job[w].at \in {"commit", "hold"} => paid[OrderPaid(w)] # "unpaid"

\* A line whose units are back was released, by a worker that alone credits them.
CreditShape ==
  /\ \A l \in credited : res[l] = "released"
  /\ \A w \in Canceller \cup Sweeper : job[w].at = "credit" =>
       /\ res[job[w].line] = "released" /\ job[w].line \notin credited
       /\ \A v \in Canceller \cup Sweeper :
            job[v].at = "credit" /\ job[v].line = job[w].line => v = w

\* The history counts the holds.
HoldShape == \A o \in Order :
  /\ holds[o] = IF hold[o] = "none" THEN 0 ELSE 1
  /\ hold[o] # "none" => \E p \in Payment : PaysFor[p] = o /\ pay[p] = "completed"

\* A paid order's stock: nobody has begun to release it since, unless cancelled.
Freeing(w, o) == /\ job[w].at \in {"attempts", "reserved", "committed", "credit"}
                 /\ job[w].order = o
PaidShape ==
  \A o \in Order \ overtaken :
    paid[o] = "completed" /\ status[o] # "cancelled" =>
      /\ \A w \in Canceller \cup Sweeper : ~Freeing(w, o)
      /\ \A l \in LinesOf(o) :
           \/ res[l] = "committed"
           \/ /\ res[l] = "reserved"
              /\ o \in uncommitted
                 \/ \E c \in Confirmer : job[c].at = "commit" /\ OrderPaid(c) = o

\* A payment that is completed is being confirmed, or has confirmed its order.
FulfilShape ==
  \A p \in Payment \ died : pay[p] = "completed" =>
    \/ \E w \in Confirmer : job[w].at \in {"confirm", "commit", "hold"} /\ job[w].pay = p
    \/ paid[PaysFor[p]] # "unpaid" /\ hold[PaysFor[p]] # "none"

\* What is left of a cancelled order's stock is in the hands of the cancellation that
\* took its status; the chat's takes only an order that nobody has paid for.
NoneLeft(o, s) == \A l \in Line : OrderOf[l] = o => res[l] # s
Loop(w) == IF job[w].at = "credit" THEN job[w].from ELSE job[w].at
Cleared(o) == \A l \in Line : OrderOf[l] = o => res[l] = "released"
Untouched(o) == /\ paid[o] = "unpaid" /\ NoneLeft(o, "committed")
                /\ \A w \in Confirmer : job[w].at = "commit" => OrderPaid(w) # o
Cancelling(w, o) ==
  /\ job[w].at \in {"reserved", "committed", "credit"} /\ job[w].order = o
  /\ \/ job[w].via = "cancel" /\ (Loop(w) = "committed" => NoneLeft(o, "reserved"))
     \/ job[w].via = "chat" /\ Untouched(o)
PendingShape == \A o \in Order : status[o] = "pending" => Untouched(o)
CancelShape ==
  \A o \in Order \ (unfinished \cup smothered) : status[o] = "cancelled" =>
    Cleared(o) \/ \E w \in Canceller : Cancelling(w, o)

\* An order's lines are finitely many, and need a number of units.
LEMMA NeedNat == \A o \in Order : IsFiniteSet(LinesOf(o)) /\ Need(o) \in Nat
<1> SUFFICES ASSUME NEW o \in Order PROVE IsFiniteSet(LinesOf(o)) /\ Need(o) \in Nat
  OBVIOUS
<1>1. LinesOf(o) \in SUBSET Line /\ IsFiniteSet(LinesOf(o))
  BY LineAssumption, FS_Subset DEF LinesOf
<1>2. Qty \in [Line -> Nat]
  BY LineAssumption
<1> QED
  BY <1>1, <1>2, SumNat DEF Need

\* Every step keeps the types.
LEMMA TypeStep == TypeOK /\ JobShape /\ RowShape /\ [Next]_vars => TypeOK'
<1> SUFFICES ASSUME TypeOK, JobShape, RowShape, [Next]_vars PROVE TypeOK'
  OBVIOUS
<1> USE LineAssumption, PaymentAssumption, WorkerAssumption
        DEF Worker, Idle, Confirm, Free, Become, Goto, Stop, OrderPaid, LinesOf,
        order, escrow, payment, ghosts
<1> USE DEF TypeOK, JobShape, RowShape, ConfirmJob, FlipJob, ReleaseJob, CreditJob,
        OrderStatus, Cancellable
<1>1. ASSUME NEW o \in Order, PlaceOrder(o) PROVE TypeOK'
  <2> DEFINE need == Need(o)
  <2>1. need \in Nat
    BY NeedNat
  <2>2. stock >= need /\ stock' = stock - need
    BY <1>1 DEF PlaceOrder, Available
  <2> HIDE DEF need
  <2>3. stock' \in Nat
    BY <2>1, <2>2
  <2>4. stock' \in Nat => TypeOK'
    BY <1>1 DEF PlaceOrder
  <2> QED
    BY <2>3, <2>4
<1>2. ASSUME NEW o \in Order, Advance(o) PROVE TypeOK'
  BY <1>2 DEF Advance
<1>3. ASSUME NEW o \in Order, RefundCancelled(o) PROVE TypeOK'
  BY <1>3 DEF RefundCancelled
<1>4. ASSUME NEW p \in Payment, OpenCheckout(p) PROVE TypeOK'
  BY <1>4 DEF OpenCheckout
<1>5. ASSUME NEW p \in Payment, RejectPayment(p) PROVE TypeOK'
  BY <1>5 DEF RejectPayment
<1>6. ASSUME NEW w \in Confirmer, NEW p \in Payment, ReadPayment(w, p) PROVE TypeOK'
  BY <1>6 DEF ReadPayment
<1>7. ASSUME NEW w \in Confirmer, ClaimPayment(w) PROVE TypeOK'
  BY <1>7 DEF ClaimPayment
<1>8. ASSUME NEW w \in Confirmer, ConfirmOrder(w) PROVE TypeOK'
  BY <1>8 DEF ConfirmOrder, Confirmable
<1>9. ASSUME NEW w \in Confirmer, CommitReservations(w) PROVE TypeOK'
  BY <1>9 DEF CommitReservations
<1>10. ASSUME NEW w \in Confirmer, InsertHold(w) PROVE TypeOK'
  BY <1>10 DEF InsertHold, Insertable
<1>11. ASSUME NEW w \in Canceller, FlipStatus(w) PROVE TypeOK'
  BY <1>11 DEF FlipStatus
<1>12. ASSUME NEW w \in Canceller, OverwriteStatus(w) PROVE TypeOK'
  BY <1>12 DEF OverwriteStatus
<1>13. ASSUME NEW w \in Canceller, NEW o \in Order, ReadForCancel(w, o) PROVE TypeOK'
  BY <1>13 DEF ReadForCancel, Cancellable
<1>14. ASSUME NEW w \in Canceller, NEW o \in Order, ReadForChat(w, o) PROVE TypeOK'
  BY <1>14 DEF ReadForChat
<1>15. ASSUME NEW w \in Sweeper, VisitOrder(w) PROVE TypeOK'
  BY <1>15 DEF VisitOrder, Unpaid
<1>16. ASSUME NEW w \in Sweeper, CheckAttempts(w) PROVE TypeOK'
  BY <1>16 DEF CheckAttempts, OpenIntent
<1>17. ASSUME NEW w \in Sweeper, NEW o \in Order, PickExpired(w, o) PROVE TypeOK'
  BY <1>17 DEF PickExpired
<1>18. ASSUME NEW w \in Canceller \cup Sweeper, TakeLine(w) PROVE TypeOK'
  BY <1>18 DEF TakeLine, Held
<1>19. ASSUME NEW w \in Canceller \cup Sweeper, CreditStock(w) PROVE TypeOK'
  BY <1>19 DEF CreditStock
<1>20. ASSUME NEW w \in Canceller \cup Sweeper, EndLoop(w) PROVE TypeOK'
  BY <1>20 DEF EndLoop, Follow, AfterReserved, Locked
<1>21. ASSUME NEW w \in Canceller \cup Sweeper, ReleaseFails(w) PROVE TypeOK'
  BY <1>21 DEF ReleaseFails, Follow, AfterReserved
<1>22. ASSUME NEW w \in Worker, Crash(w) PROVE TypeOK'
  BY <1>22 DEF Crash
<1>23. CASE UNCHANGED vars
  BY <1>23 DEF vars
<1> HIDE DEF TypeOK, JobShape, RowShape, ConfirmJob, FlipJob, ReleaseJob, CreditJob,
        OrderStatus, Cancellable, Worker, Idle, vars, order, escrow, payment, ghosts
<1> QED
  BY <1>1, <1>2, <1>3, <1>4, <1>5, <1>6, <1>7, <1>8, <1>9, <1>10, <1>11, <1>12, <1>13,
     <1>14, <1>15, <1>16, <1>17, <1>18, <1>19, <1>20, <1>21, <1>22, <1>23 DEF Next,
     ConfirmStep, CancelStep, ReleaseStep, SweepStep

\* Every step keeps the shape of the jobs.
LEMMA JobStep == TypeOK /\ JobShape /\ RowShape /\ [Next]_vars => JobShape'
<1> SUFFICES ASSUME TypeOK, JobShape, RowShape, [Next]_vars PROVE JobShape'
  OBVIOUS
<1> USE LineAssumption, PaymentAssumption, WorkerAssumption
        DEF Worker, Idle, Confirm, Free, Become, Goto, Stop, OrderPaid, LinesOf,
        order, escrow, payment, ghosts
<1> USE DEF TypeOK, JobShape, RowShape, ConfirmJob, FlipJob, ReleaseJob, CreditJob,
        OrderStatus, Cancellable
<1>1. ASSUME NEW o \in Order, PlaceOrder(o) PROVE JobShape'
  BY <1>1 DEF PlaceOrder, Available
<1>2. ASSUME NEW o \in Order, Advance(o) PROVE JobShape'
  BY <1>2 DEF Advance
<1>3. ASSUME NEW o \in Order, RefundCancelled(o) PROVE JobShape'
  BY <1>3 DEF RefundCancelled
<1>4. ASSUME NEW p \in Payment, OpenCheckout(p) PROVE JobShape'
  BY <1>4 DEF OpenCheckout
<1>5. ASSUME NEW p \in Payment, RejectPayment(p) PROVE JobShape'
  BY <1>5 DEF RejectPayment
<1>6. ASSUME NEW w \in Confirmer, NEW p \in Payment, ReadPayment(w, p) PROVE JobShape'
  BY <1>6 DEF ReadPayment
<1>7. ASSUME NEW w \in Confirmer, ClaimPayment(w) PROVE JobShape'
  BY <1>7 DEF ClaimPayment
<1>8. ASSUME NEW w \in Confirmer, ConfirmOrder(w) PROVE JobShape'
  BY <1>8 DEF ConfirmOrder, Confirmable
<1>9. ASSUME NEW w \in Confirmer, CommitReservations(w) PROVE JobShape'
  BY <1>9 DEF CommitReservations
<1>10. ASSUME NEW w \in Confirmer, InsertHold(w) PROVE JobShape'
  BY <1>10 DEF InsertHold, Insertable
<1>11. ASSUME NEW w \in Canceller, FlipStatus(w) PROVE JobShape'
  BY <1>11 DEF FlipStatus
<1>12. ASSUME NEW w \in Canceller, OverwriteStatus(w) PROVE JobShape'
  BY <1>12 DEF OverwriteStatus
<1>13. ASSUME NEW w \in Canceller, NEW o \in Order, ReadForCancel(w, o) PROVE JobShape'
  BY <1>13 DEF ReadForCancel, Cancellable
<1>14. ASSUME NEW w \in Canceller, NEW o \in Order, ReadForChat(w, o) PROVE JobShape'
  BY <1>14 DEF ReadForChat
<1>15. ASSUME NEW w \in Sweeper, VisitOrder(w) PROVE JobShape'
  BY <1>15 DEF VisitOrder, Unpaid
<1>16. ASSUME NEW w \in Sweeper, CheckAttempts(w) PROVE JobShape'
  BY <1>16 DEF CheckAttempts, OpenIntent
<1>17. ASSUME NEW w \in Sweeper, NEW o \in Order, PickExpired(w, o) PROVE JobShape'
  BY <1>17 DEF PickExpired
<1>18. ASSUME NEW w \in Canceller \cup Sweeper, TakeLine(w) PROVE JobShape'
  BY <1>18 DEF TakeLine, Held
<1>19. ASSUME NEW w \in Canceller \cup Sweeper, CreditStock(w) PROVE JobShape'
  BY <1>19 DEF CreditStock
<1>20. ASSUME NEW w \in Canceller \cup Sweeper, EndLoop(w) PROVE JobShape'
  BY <1>20 DEF EndLoop, Follow, AfterReserved, Locked
<1>21. ASSUME NEW w \in Canceller \cup Sweeper, ReleaseFails(w) PROVE JobShape'
  BY <1>21 DEF ReleaseFails, Follow, AfterReserved
<1>22. ASSUME NEW w \in Worker, Crash(w) PROVE JobShape'
  BY <1>22 DEF Crash
<1>23. CASE UNCHANGED vars
  BY <1>23 DEF vars
<1> HIDE DEF TypeOK, JobShape, RowShape, ConfirmJob, FlipJob, ReleaseJob, CreditJob,
        OrderStatus, Cancellable, Worker, Idle, vars, order, escrow, payment, ghosts
<1> QED
  BY <1>1, <1>2, <1>3, <1>4, <1>5, <1>6, <1>7, <1>8, <1>9, <1>10, <1>11, <1>12, <1>13,
     <1>14, <1>15, <1>16, <1>17, <1>18, <1>19, <1>20, <1>21, <1>22, <1>23 DEF Next,
     ConfirmStep, CancelStep, ReleaseStep, SweepStep

\* Every step keeps the rows in step.
LEMMA RowStep == TypeOK /\ JobShape /\ RowShape /\ [Next]_vars => RowShape'
<1> SUFFICES ASSUME TypeOK, JobShape, RowShape, [Next]_vars PROVE RowShape'
  OBVIOUS
<1> USE LineAssumption, PaymentAssumption, WorkerAssumption
        DEF Worker, Idle, Confirm, Free, Become, Goto, Stop, OrderPaid, LinesOf,
        order, escrow, payment, ghosts
<1> USE DEF TypeOK, JobShape, RowShape, ConfirmJob, FlipJob, ReleaseJob, CreditJob,
        OrderStatus, Cancellable
<1>1. ASSUME NEW o \in Order, PlaceOrder(o) PROVE RowShape'
  BY <1>1 DEF PlaceOrder, Available
<1>2. ASSUME NEW o \in Order, Advance(o) PROVE RowShape'
  BY <1>2 DEF Advance
<1>3. ASSUME NEW o \in Order, RefundCancelled(o) PROVE RowShape'
  BY <1>3 DEF RefundCancelled
<1>4. ASSUME NEW p \in Payment, OpenCheckout(p) PROVE RowShape'
  BY <1>4 DEF OpenCheckout
<1>5. ASSUME NEW p \in Payment, RejectPayment(p) PROVE RowShape'
  BY <1>5 DEF RejectPayment
<1>6. ASSUME NEW w \in Confirmer, NEW p \in Payment, ReadPayment(w, p) PROVE RowShape'
  BY <1>6 DEF ReadPayment
<1>7. ASSUME NEW w \in Confirmer, ClaimPayment(w) PROVE RowShape'
  BY <1>7 DEF ClaimPayment
<1>8. ASSUME NEW w \in Confirmer, ConfirmOrder(w) PROVE RowShape'
  BY <1>8 DEF ConfirmOrder, Confirmable
<1>9. ASSUME NEW w \in Confirmer, CommitReservations(w) PROVE RowShape'
  BY <1>9 DEF CommitReservations
<1>10. ASSUME NEW w \in Confirmer, InsertHold(w) PROVE RowShape'
  BY <1>10 DEF InsertHold, Insertable
<1>11. ASSUME NEW w \in Canceller, FlipStatus(w) PROVE RowShape'
  BY <1>11 DEF FlipStatus
<1>12. ASSUME NEW w \in Canceller, OverwriteStatus(w) PROVE RowShape'
  BY <1>12 DEF OverwriteStatus
<1>13. ASSUME NEW w \in Canceller, NEW o \in Order, ReadForCancel(w, o) PROVE RowShape'
  BY <1>13 DEF ReadForCancel, Cancellable
<1>14. ASSUME NEW w \in Canceller, NEW o \in Order, ReadForChat(w, o) PROVE RowShape'
  BY <1>14 DEF ReadForChat
<1>15. ASSUME NEW w \in Sweeper, VisitOrder(w) PROVE RowShape'
  BY <1>15 DEF VisitOrder, Unpaid
<1>16. ASSUME NEW w \in Sweeper, CheckAttempts(w) PROVE RowShape'
  BY <1>16, SMTT(20) DEF CheckAttempts, OpenIntent
<1>17. ASSUME NEW w \in Sweeper, NEW o \in Order, PickExpired(w, o) PROVE RowShape'
  BY <1>17 DEF PickExpired
<1>18. ASSUME NEW w \in Canceller \cup Sweeper, TakeLine(w) PROVE RowShape'
  BY <1>18 DEF TakeLine, Held
<1>19. ASSUME NEW w \in Canceller \cup Sweeper, CreditStock(w) PROVE RowShape'
  BY <1>19 DEF CreditStock
<1>20. ASSUME NEW w \in Canceller \cup Sweeper, EndLoop(w) PROVE RowShape'
  BY <1>20 DEF EndLoop, Follow, AfterReserved, Locked
<1>21. ASSUME NEW w \in Canceller \cup Sweeper, ReleaseFails(w) PROVE RowShape'
  BY <1>21 DEF ReleaseFails, Follow, AfterReserved
<1>22. ASSUME NEW w \in Worker, Crash(w) PROVE RowShape'
  BY <1>22 DEF Crash
<1>23. CASE UNCHANGED vars
  BY <1>23 DEF vars
<1> HIDE DEF TypeOK, JobShape, RowShape, ConfirmJob, FlipJob, ReleaseJob, CreditJob,
        OrderStatus, Cancellable, Worker, Idle, vars, order, escrow, payment, ghosts
<1> QED
  BY <1>1, <1>2, <1>3, <1>4, <1>5, <1>6, <1>7, <1>8, <1>9, <1>10, <1>11, <1>12, <1>13,
     <1>14, <1>15, <1>16, <1>17, <1>18, <1>19, <1>20, <1>21, <1>22, <1>23 DEF Next,
     ConfirmStep, CancelStep, ReleaseStep, SweepStep

\* Every step keeps the credits apart.
LEMMA CreditStep ==
  TypeOK /\ JobShape /\ RowShape /\ CreditShape /\ [Next]_vars
    => CreditShape'
<1> SUFFICES ASSUME TypeOK, JobShape, RowShape, CreditShape,
                    [Next]_vars
             PROVE  CreditShape'
  OBVIOUS
<1> USE LineAssumption, PaymentAssumption, WorkerAssumption
        DEF Worker, Idle, Confirm, Free, Become, Goto, Stop, OrderPaid, LinesOf,
        order, escrow, payment, ghosts
<1> USE DEF TypeOK, JobShape, RowShape, CreditShape, ConfirmJob, FlipJob, ReleaseJob,
        CreditJob, OrderStatus, Cancellable
<1>1. ASSUME NEW o \in Order, PlaceOrder(o) PROVE CreditShape'
  BY <1>1 DEF PlaceOrder, Available
<1>2. ASSUME NEW o \in Order, Advance(o) PROVE CreditShape'
  BY <1>2 DEF Advance
<1>3. ASSUME NEW o \in Order, RefundCancelled(o) PROVE CreditShape'
  BY <1>3 DEF RefundCancelled
<1>4. ASSUME NEW p \in Payment, OpenCheckout(p) PROVE CreditShape'
  BY <1>4 DEF OpenCheckout
<1>5. ASSUME NEW p \in Payment, RejectPayment(p) PROVE CreditShape'
  BY <1>5 DEF RejectPayment
<1>6. ASSUME NEW w \in Confirmer, NEW p \in Payment, ReadPayment(w, p) PROVE CreditShape'
  BY <1>6 DEF ReadPayment
<1>7. ASSUME NEW w \in Confirmer, ClaimPayment(w) PROVE CreditShape'
  BY <1>7 DEF ClaimPayment
<1>8. ASSUME NEW w \in Confirmer, ConfirmOrder(w) PROVE CreditShape'
  BY <1>8 DEF ConfirmOrder, Confirmable
<1>9. ASSUME NEW w \in Confirmer, CommitReservations(w) PROVE CreditShape'
  BY <1>9 DEF CommitReservations
<1>10. ASSUME NEW w \in Confirmer, InsertHold(w) PROVE CreditShape'
  BY <1>10 DEF InsertHold, Insertable
<1>11. ASSUME NEW w \in Canceller, FlipStatus(w) PROVE CreditShape'
  BY <1>11 DEF FlipStatus
<1>12. ASSUME NEW w \in Canceller, OverwriteStatus(w) PROVE CreditShape'
  BY <1>12 DEF OverwriteStatus
<1>13. ASSUME NEW w \in Canceller, NEW o \in Order, ReadForCancel(w, o) PROVE CreditShape'
  BY <1>13 DEF ReadForCancel, Cancellable
<1>14. ASSUME NEW w \in Canceller, NEW o \in Order, ReadForChat(w, o) PROVE CreditShape'
  BY <1>14 DEF ReadForChat
<1>15. ASSUME NEW w \in Sweeper, VisitOrder(w) PROVE CreditShape'
  BY <1>15 DEF VisitOrder, Unpaid
<1>16. ASSUME NEW w \in Sweeper, CheckAttempts(w) PROVE CreditShape'
  BY <1>16 DEF CheckAttempts, OpenIntent
<1>17. ASSUME NEW w \in Sweeper, NEW o \in Order, PickExpired(w, o) PROVE CreditShape'
  BY <1>17 DEF PickExpired
<1>18. ASSUME NEW w \in Canceller \cup Sweeper, TakeLine(w) PROVE CreditShape'
  BY <1>18 DEF TakeLine, Held
<1>19. ASSUME NEW w \in Canceller \cup Sweeper, CreditStock(w) PROVE CreditShape'
  BY <1>19 DEF CreditStock
<1>20. ASSUME NEW w \in Canceller \cup Sweeper, EndLoop(w) PROVE CreditShape'
  BY <1>20 DEF EndLoop, Follow, AfterReserved, Locked
<1>21. ASSUME NEW w \in Canceller \cup Sweeper, ReleaseFails(w) PROVE CreditShape'
  BY <1>21 DEF ReleaseFails, Follow, AfterReserved
<1>22. ASSUME NEW w \in Worker, Crash(w) PROVE CreditShape'
  BY <1>22 DEF Crash
<1>23. CASE UNCHANGED vars
  BY <1>23 DEF vars
<1> HIDE DEF TypeOK, JobShape, RowShape, CreditShape, ConfirmJob, FlipJob, ReleaseJob,
        CreditJob, OrderStatus, Cancellable, Worker, Idle, vars, order, escrow, payment,
        ghosts
<1> QED
  BY <1>1, <1>2, <1>3, <1>4, <1>5, <1>6, <1>7, <1>8, <1>9, <1>10, <1>11, <1>12, <1>13,
     <1>14, <1>15, <1>16, <1>17, <1>18, <1>19, <1>20, <1>21, <1>22, <1>23 DEF Next,
     ConfirmStep, CancelStep, ReleaseStep, SweepStep

\* Every step keeps one hold per order.
LEMMA HoldStep == TypeOK /\ JobShape /\ RowShape /\ HoldShape /\ [Next]_vars => HoldShape'
<1> SUFFICES ASSUME TypeOK, JobShape, RowShape, HoldShape, [Next]_vars PROVE HoldShape'
  OBVIOUS
<1> USE LineAssumption, PaymentAssumption, WorkerAssumption
        DEF Worker, Idle, Confirm, Free, Become, Goto, Stop, OrderPaid, LinesOf,
        order, escrow, payment, ghosts
<1> USE DEF TypeOK, JobShape, RowShape, HoldShape, ConfirmJob, FlipJob, ReleaseJob,
        CreditJob, OrderStatus, Cancellable
<1>1. ASSUME NEW o \in Order, PlaceOrder(o) PROVE HoldShape'
  BY <1>1 DEF PlaceOrder, Available
<1>2. ASSUME NEW o \in Order, Advance(o) PROVE HoldShape'
  BY <1>2 DEF Advance
<1>3. ASSUME NEW o \in Order, RefundCancelled(o) PROVE HoldShape'
  BY <1>3 DEF RefundCancelled
<1>4. ASSUME NEW p \in Payment, OpenCheckout(p) PROVE HoldShape'
  BY <1>4 DEF OpenCheckout
<1>5. ASSUME NEW p \in Payment, RejectPayment(p) PROVE HoldShape'
  BY <1>5 DEF RejectPayment
<1>6. ASSUME NEW w \in Confirmer, NEW p \in Payment, ReadPayment(w, p) PROVE HoldShape'
  BY <1>6 DEF ReadPayment
<1>7. ASSUME NEW w \in Confirmer, ClaimPayment(w) PROVE HoldShape'
  BY <1>7 DEF ClaimPayment
<1>8. ASSUME NEW w \in Confirmer, ConfirmOrder(w) PROVE HoldShape'
  BY <1>8 DEF ConfirmOrder, Confirmable
<1>9. ASSUME NEW w \in Confirmer, CommitReservations(w) PROVE HoldShape'
  BY <1>9 DEF CommitReservations
<1>10. ASSUME NEW w \in Confirmer, InsertHold(w) PROVE HoldShape'
  BY <1>10 DEF InsertHold, Insertable
<1>11. ASSUME NEW w \in Canceller, FlipStatus(w) PROVE HoldShape'
  BY <1>11 DEF FlipStatus
<1>12. ASSUME NEW w \in Canceller, OverwriteStatus(w) PROVE HoldShape'
  BY <1>12 DEF OverwriteStatus
<1>13. ASSUME NEW w \in Canceller, NEW o \in Order, ReadForCancel(w, o) PROVE HoldShape'
  BY <1>13 DEF ReadForCancel, Cancellable
<1>14. ASSUME NEW w \in Canceller, NEW o \in Order, ReadForChat(w, o) PROVE HoldShape'
  BY <1>14 DEF ReadForChat
<1>15. ASSUME NEW w \in Sweeper, VisitOrder(w) PROVE HoldShape'
  BY <1>15 DEF VisitOrder, Unpaid
<1>16. ASSUME NEW w \in Sweeper, CheckAttempts(w) PROVE HoldShape'
  BY <1>16 DEF CheckAttempts, OpenIntent
<1>17. ASSUME NEW w \in Sweeper, NEW o \in Order, PickExpired(w, o) PROVE HoldShape'
  BY <1>17 DEF PickExpired
<1>18. ASSUME NEW w \in Canceller \cup Sweeper, TakeLine(w) PROVE HoldShape'
  BY <1>18 DEF TakeLine, Held
<1>19. ASSUME NEW w \in Canceller \cup Sweeper, CreditStock(w) PROVE HoldShape'
  BY <1>19 DEF CreditStock
<1>20. ASSUME NEW w \in Canceller \cup Sweeper, EndLoop(w) PROVE HoldShape'
  BY <1>20 DEF EndLoop, Follow, AfterReserved, Locked
<1>21. ASSUME NEW w \in Canceller \cup Sweeper, ReleaseFails(w) PROVE HoldShape'
  BY <1>21 DEF ReleaseFails, Follow, AfterReserved
<1>22. ASSUME NEW w \in Worker, Crash(w) PROVE HoldShape'
  BY <1>22 DEF Crash
<1>23. CASE UNCHANGED vars
  BY <1>23 DEF vars
<1> HIDE DEF TypeOK, JobShape, RowShape, HoldShape, ConfirmJob, FlipJob, ReleaseJob,
        CreditJob, OrderStatus, Cancellable, Worker, Idle, vars, order, escrow, payment,
        ghosts
<1> QED
  BY <1>1, <1>2, <1>3, <1>4, <1>5, <1>6, <1>7, <1>8, <1>9, <1>10, <1>11, <1>12, <1>13,
     <1>14, <1>15, <1>16, <1>17, <1>18, <1>19, <1>20, <1>21, <1>22, <1>23 DEF Next,
     ConfirmStep, CancelStep, ReleaseStep, SweepStep

\* Every step keeps the stock of paid orders.
LEMMA PaidStep == TypeOK /\ JobShape /\ RowShape /\ PaidShape /\ [Next]_vars => PaidShape'
<1> SUFFICES ASSUME TypeOK, JobShape, RowShape, PaidShape, [Next]_vars PROVE PaidShape'
  OBVIOUS
<1> USE LineAssumption, PaymentAssumption, WorkerAssumption
        DEF Worker, Idle, Confirm, Free, Become, Goto, Stop, OrderPaid, LinesOf,
        order, escrow, payment, ghosts
<1> USE DEF TypeOK, JobShape, RowShape, PaidShape, Freeing, ConfirmJob, FlipJob,
        ReleaseJob, CreditJob, OrderStatus, Cancellable
<1>1. ASSUME NEW o \in Order, PlaceOrder(o) PROVE PaidShape'
  BY <1>1 DEF PlaceOrder, Available
<1>2. ASSUME NEW o \in Order, Advance(o) PROVE PaidShape'
  BY <1>2 DEF Advance
<1>3. ASSUME NEW o \in Order, RefundCancelled(o) PROVE PaidShape'
  BY <1>3 DEF RefundCancelled
<1>4. ASSUME NEW p \in Payment, OpenCheckout(p) PROVE PaidShape'
  BY <1>4 DEF OpenCheckout
<1>5. ASSUME NEW p \in Payment, RejectPayment(p) PROVE PaidShape'
  BY <1>5 DEF RejectPayment
<1>6. ASSUME NEW w \in Confirmer, NEW p \in Payment, ReadPayment(w, p) PROVE PaidShape'
  BY <1>6 DEF ReadPayment
<1>7. ASSUME NEW w \in Confirmer, ClaimPayment(w) PROVE PaidShape'
  <2>1. /\ UNCHANGED <<res, status, paid, overtaken, uncommitted>>
        /\ \A v \in Worker \ {w} : job'[v] = job[v]
        /\ job[w].at = "claim"
    BY <1>7 DEF ClaimPayment
  <2>2. \A v \in Canceller \cup Sweeper : job'[v] = job[v]
    BY <2>1
  <2>3. \A c \in Confirmer : job[c].at = "commit" => job'[c] = job[c]
    BY <2>1
  <2> QED
    BY <2>1, <2>2, <2>3
<1>8. ASSUME NEW w \in Confirmer, ConfirmOrder(w) PROVE PaidShape'
  BY <1>8 DEF ConfirmOrder, Confirmable, GivenUp, Releasing
<1>9. ASSUME NEW w \in Confirmer, CommitReservations(w) PROVE PaidShape'
  BY <1>9 DEF CommitReservations
<1>10. ASSUME NEW w \in Confirmer, InsertHold(w) PROVE PaidShape'
  BY <1>10 DEF InsertHold, Insertable
<1>11. ASSUME NEW w \in Canceller, FlipStatus(w) PROVE PaidShape'
  BY <1>11 DEF FlipStatus
<1>12. ASSUME NEW w \in Canceller, OverwriteStatus(w) PROVE PaidShape'
  BY <1>12 DEF OverwriteStatus
<1>13. ASSUME NEW w \in Canceller, NEW o \in Order, ReadForCancel(w, o) PROVE PaidShape'
  BY <1>13 DEF ReadForCancel, Cancellable
<1>14. ASSUME NEW w \in Canceller, NEW o \in Order, ReadForChat(w, o) PROVE PaidShape'
  BY <1>14 DEF ReadForChat
<1>15. ASSUME NEW w \in Sweeper, VisitOrder(w) PROVE PaidShape'
  BY <1>15 DEF VisitOrder, Unpaid
<1>16. ASSUME NEW w \in Sweeper, CheckAttempts(w) PROVE PaidShape'
  BY <1>16 DEF CheckAttempts, OpenIntent
<1>17. ASSUME NEW w \in Sweeper, NEW o \in Order, PickExpired(w, o) PROVE PaidShape'
  BY <1>17 DEF PickExpired
<1>18. ASSUME NEW w \in Canceller \cup Sweeper, TakeLine(w) PROVE PaidShape'
  BY <1>18 DEF TakeLine, Held
<1>19. ASSUME NEW w \in Canceller \cup Sweeper, CreditStock(w) PROVE PaidShape'
  BY <1>19 DEF CreditStock
<1>20. ASSUME NEW w \in Canceller \cup Sweeper, EndLoop(w) PROVE PaidShape'
  BY <1>20 DEF EndLoop, Follow, AfterReserved, Locked
<1>21. ASSUME NEW w \in Canceller \cup Sweeper, ReleaseFails(w) PROVE PaidShape'
  BY <1>21 DEF ReleaseFails, Follow, AfterReserved
<1>22. ASSUME NEW w \in Worker, Crash(w) PROVE PaidShape'
  BY <1>22 DEF Crash
<1>23. CASE UNCHANGED vars
  BY <1>23 DEF vars
<1> HIDE DEF TypeOK, JobShape, RowShape, PaidShape, Freeing, ConfirmJob, FlipJob,
        ReleaseJob, CreditJob, OrderStatus, Cancellable, Worker, Idle, vars, order,
        escrow, payment, ghosts
<1> QED
  BY <1>1, <1>2, <1>3, <1>4, <1>5, <1>6, <1>7, <1>8, <1>9, <1>10, <1>11, <1>12, <1>13,
     <1>14, <1>15, <1>16, <1>17, <1>18, <1>19, <1>20, <1>21, <1>22, <1>23 DEF Next,
     ConfirmStep, CancelStep, ReleaseStep, SweepStep

\* Every step keeps completed payments confirmed.
LEMMA FulfilStep ==
  TypeOK /\ JobShape /\ RowShape /\ FulfilShape /\ [Next]_vars
    => FulfilShape'
<1> SUFFICES ASSUME TypeOK, JobShape, RowShape, FulfilShape,
                    [Next]_vars
             PROVE  FulfilShape'
  OBVIOUS
<1> USE LineAssumption, PaymentAssumption, WorkerAssumption
        DEF Worker, Idle, Confirm, Free, Become, Goto, Stop, OrderPaid, LinesOf,
        order, escrow, payment, ghosts
<1> USE DEF TypeOK, JobShape, RowShape, FulfilShape, ConfirmJob, FlipJob, ReleaseJob,
        CreditJob, OrderStatus, Cancellable
<1>1. ASSUME NEW o \in Order, PlaceOrder(o) PROVE FulfilShape'
  BY <1>1 DEF PlaceOrder, Available
<1>2. ASSUME NEW o \in Order, Advance(o) PROVE FulfilShape'
  BY <1>2 DEF Advance
<1>3. ASSUME NEW o \in Order, RefundCancelled(o) PROVE FulfilShape'
  BY <1>3 DEF RefundCancelled
<1>4. ASSUME NEW p \in Payment, OpenCheckout(p) PROVE FulfilShape'
  BY <1>4 DEF OpenCheckout
<1>5. ASSUME NEW p \in Payment, RejectPayment(p) PROVE FulfilShape'
  BY <1>5 DEF RejectPayment
<1>6. ASSUME NEW w \in Confirmer, NEW p \in Payment, ReadPayment(w, p) PROVE FulfilShape'
  BY <1>6 DEF ReadPayment
<1>7. ASSUME NEW w \in Confirmer, ClaimPayment(w) PROVE FulfilShape'
  BY <1>7 DEF ClaimPayment
<1>8. ASSUME NEW w \in Confirmer, ConfirmOrder(w) PROVE FulfilShape'
  BY <1>8 DEF ConfirmOrder, Confirmable
<1>9. ASSUME NEW w \in Confirmer, CommitReservations(w) PROVE FulfilShape'
  BY <1>9 DEF CommitReservations
<1>10. ASSUME NEW w \in Confirmer, InsertHold(w) PROVE FulfilShape'
  BY <1>10 DEF InsertHold, Insertable
<1>11. ASSUME NEW w \in Canceller, FlipStatus(w) PROVE FulfilShape'
  BY <1>11 DEF FlipStatus
<1>12. ASSUME NEW w \in Canceller, OverwriteStatus(w) PROVE FulfilShape'
  BY <1>12 DEF OverwriteStatus
<1>13. ASSUME NEW w \in Canceller, NEW o \in Order, ReadForCancel(w, o) PROVE FulfilShape'
  BY <1>13 DEF ReadForCancel, Cancellable
<1>14. ASSUME NEW w \in Canceller, NEW o \in Order, ReadForChat(w, o) PROVE FulfilShape'
  BY <1>14 DEF ReadForChat
<1>15. ASSUME NEW w \in Sweeper, VisitOrder(w) PROVE FulfilShape'
  BY <1>15 DEF VisitOrder, Unpaid
<1>16. ASSUME NEW w \in Sweeper, CheckAttempts(w) PROVE FulfilShape'
  BY <1>16 DEF CheckAttempts, OpenIntent
<1>17. ASSUME NEW w \in Sweeper, NEW o \in Order, PickExpired(w, o) PROVE FulfilShape'
  BY <1>17 DEF PickExpired
<1>18. ASSUME NEW w \in Canceller \cup Sweeper, TakeLine(w) PROVE FulfilShape'
  BY <1>18 DEF TakeLine, Held
<1>19. ASSUME NEW w \in Canceller \cup Sweeper, CreditStock(w) PROVE FulfilShape'
  BY <1>19 DEF CreditStock
<1>20. ASSUME NEW w \in Canceller \cup Sweeper, EndLoop(w) PROVE FulfilShape'
  BY <1>20 DEF EndLoop, Follow, AfterReserved, Locked
<1>21. ASSUME NEW w \in Canceller \cup Sweeper, ReleaseFails(w) PROVE FulfilShape'
  BY <1>21 DEF ReleaseFails, Follow, AfterReserved
<1>22. ASSUME NEW w \in Worker, Crash(w) PROVE FulfilShape'
  BY <1>22 DEF Crash
<1>23. CASE UNCHANGED vars
  BY <1>23 DEF vars
<1> HIDE DEF TypeOK, JobShape, RowShape, FulfilShape, ConfirmJob, FlipJob, ReleaseJob,
        CreditJob, OrderStatus, Cancellable, Worker, Idle, vars, order, escrow, payment,
        ghosts
<1> QED
  BY <1>1, <1>2, <1>3, <1>4, <1>5, <1>6, <1>7, <1>8, <1>9, <1>10, <1>11, <1>12, <1>13,
     <1>14, <1>15, <1>16, <1>17, <1>18, <1>19, <1>20, <1>21, <1>22, <1>23 DEF Next,
     ConfirmStep, CancelStep, ReleaseStep, SweepStep

\* Every step leaves a pending order unpaid.
LEMMA PendingStep ==
  TypeOK /\ JobShape /\ RowShape /\ PendingShape /\ [Next]_vars
    => PendingShape'
<1> SUFFICES ASSUME TypeOK, JobShape, RowShape, PendingShape,
                    [Next]_vars
             PROVE  PendingShape'
  OBVIOUS
<1> USE LineAssumption, PaymentAssumption, WorkerAssumption
        DEF Worker, Idle, Confirm, Free, Become, Goto, Stop, OrderPaid, LinesOf,
        order, escrow, payment, ghosts
<1> USE DEF TypeOK, JobShape, RowShape, PendingShape, NoneLeft, Untouched, ConfirmJob,
        FlipJob, ReleaseJob, CreditJob, OrderStatus, Cancellable
<1>1. ASSUME NEW o \in Order, PlaceOrder(o) PROVE PendingShape'
  <2>1. /\ status' = [status EXCEPT ![o] = "pending"]
        /\ res' = [l \in Line |-> IF OrderOf[l] = o THEN "reserved" ELSE res[l]]
        /\ UNCHANGED <<paid, job>>
        /\ status[o] = "none"
    BY <1>1 DEF PlaceOrder
  <2>2. /\ paid[o] = "unpaid"
        /\ \A c \in Confirmer : job[c].at = "commit" => OrderPaid(c) # o
    <3>1. paid[o] = "unpaid"
      BY <1>1, <2>1
    <3>2. ASSUME NEW c \in Confirmer, job[c].at = "commit" PROVE OrderPaid(c) # o
      <4>1. paid[OrderPaid(c)] # "unpaid"
        BY <3>2
      <4> QED
        BY <3>1, <4>1
    <3> QED
      BY <3>1, <3>2
  <2>3. Untouched(o)'
    BY <2>1, <2>2
  <2>4. \A x \in Order \ {o} : status'[x] = "pending" => Untouched(x)'
    BY <2>1
  <2> QED
    BY <2>3, <2>4
<1>2. ASSUME NEW o \in Order, Advance(o) PROVE PendingShape'
  BY <1>2 DEF Advance
<1>3. ASSUME NEW o \in Order, RefundCancelled(o) PROVE PendingShape'
  BY <1>3 DEF RefundCancelled
<1>4. ASSUME NEW p \in Payment, OpenCheckout(p) PROVE PendingShape'
  BY <1>4 DEF OpenCheckout
<1>5. ASSUME NEW p \in Payment, RejectPayment(p) PROVE PendingShape'
  BY <1>5 DEF RejectPayment
<1>6. ASSUME NEW w \in Confirmer, NEW p \in Payment, ReadPayment(w, p) PROVE PendingShape'
  BY <1>6 DEF ReadPayment
<1>7. ASSUME NEW w \in Confirmer, ClaimPayment(w) PROVE PendingShape'
  BY <1>7 DEF ClaimPayment
<1>8. ASSUME NEW w \in Confirmer, ConfirmOrder(w) PROVE PendingShape'
  BY <1>8 DEF ConfirmOrder, Confirmable
<1>9. ASSUME NEW w \in Confirmer, CommitReservations(w) PROVE PendingShape'
  BY <1>9 DEF CommitReservations
<1>10. ASSUME NEW w \in Confirmer, InsertHold(w) PROVE PendingShape'
  BY <1>10 DEF InsertHold, Insertable
<1>11. ASSUME NEW w \in Canceller, FlipStatus(w) PROVE PendingShape'
  BY <1>11 DEF FlipStatus
<1>12. ASSUME NEW w \in Canceller, OverwriteStatus(w) PROVE PendingShape'
  BY <1>12 DEF OverwriteStatus
<1>13. ASSUME NEW w \in Canceller, NEW o \in Order, ReadForCancel(w, o)
      PROVE  PendingShape'
  BY <1>13 DEF ReadForCancel, Cancellable
<1>14. ASSUME NEW w \in Canceller, NEW o \in Order, ReadForChat(w, o) PROVE PendingShape'
  BY <1>14 DEF ReadForChat
<1>15. ASSUME NEW w \in Sweeper, VisitOrder(w) PROVE PendingShape'
  BY <1>15 DEF VisitOrder, Unpaid
<1>16. ASSUME NEW w \in Sweeper, CheckAttempts(w) PROVE PendingShape'
  BY <1>16 DEF CheckAttempts, OpenIntent
<1>17. ASSUME NEW w \in Sweeper, NEW o \in Order, PickExpired(w, o) PROVE PendingShape'
  BY <1>17 DEF PickExpired
<1>18. ASSUME NEW w \in Canceller \cup Sweeper, TakeLine(w) PROVE PendingShape'
  BY <1>18 DEF TakeLine, Held
<1>19. ASSUME NEW w \in Canceller \cup Sweeper, CreditStock(w) PROVE PendingShape'
  BY <1>19 DEF CreditStock
<1>20. ASSUME NEW w \in Canceller \cup Sweeper, EndLoop(w) PROVE PendingShape'
  BY <1>20 DEF EndLoop, Follow, AfterReserved, Locked
<1>21. ASSUME NEW w \in Canceller \cup Sweeper, ReleaseFails(w) PROVE PendingShape'
  BY <1>21 DEF ReleaseFails, Follow, AfterReserved
<1>22. ASSUME NEW w \in Worker, Crash(w) PROVE PendingShape'
  BY <1>22 DEF Crash
<1>23. CASE UNCHANGED vars
  BY <1>23 DEF vars
<1> HIDE DEF TypeOK, JobShape, RowShape, PendingShape, NoneLeft, Untouched, ConfirmJob,
        FlipJob, ReleaseJob, CreditJob, OrderStatus, Cancellable, Worker, Idle, vars,
        order, escrow, payment, ghosts
<1> QED
  BY <1>1, <1>2, <1>3, <1>4, <1>5, <1>6, <1>7, <1>8, <1>9, <1>10, <1>11, <1>12, <1>13,
     <1>14, <1>15, <1>16, <1>17, <1>18, <1>19, <1>20, <1>21, <1>22, <1>23 DEF Next,
     ConfirmStep, CancelStep, ReleaseStep, SweepStep

\* Every step keeps what is left of a cancelled order in hand.
LEMMA CancelledStep ==
  TypeOK /\ JobShape /\ RowShape /\ PendingShape /\ CancelShape /\ [Next]_vars
    => CancelShape'
<1> SUFFICES ASSUME TypeOK, JobShape, RowShape, PendingShape, CancelShape,
                    [Next]_vars
             PROVE  CancelShape'
  OBVIOUS
<1> USE LineAssumption, PaymentAssumption, WorkerAssumption
        DEF Worker, Idle, Confirm, Free, Become, Goto, Stop, OrderPaid, LinesOf,
        order, escrow, payment, ghosts
<1> USE DEF TypeOK, JobShape, RowShape, PendingShape, CancelShape, NoneLeft, Loop,
        Cancelling, Cleared, Untouched, ConfirmJob, FlipJob, ReleaseJob, CreditJob,
        OrderStatus, Cancellable
<1>1. ASSUME NEW o \in Order, PlaceOrder(o) PROVE CancelShape'
  BY <1>1 DEF PlaceOrder, Available
<1>2. ASSUME NEW o \in Order, Advance(o) PROVE CancelShape'
  BY <1>2 DEF Advance
<1>3. ASSUME NEW o \in Order, RefundCancelled(o) PROVE CancelShape'
  BY <1>3 DEF RefundCancelled
<1>4. ASSUME NEW p \in Payment, OpenCheckout(p) PROVE CancelShape'
  BY <1>4 DEF OpenCheckout
<1>5. ASSUME NEW p \in Payment, RejectPayment(p) PROVE CancelShape'
  BY <1>5 DEF RejectPayment
<1>6. ASSUME NEW w \in Confirmer, NEW p \in Payment, ReadPayment(w, p) PROVE CancelShape'
  BY <1>6 DEF ReadPayment
<1>7. ASSUME NEW w \in Confirmer, ClaimPayment(w) PROVE CancelShape'
  <2>1. UNCHANGED <<res, status, paid, unfinished, smothered>>
    BY <1>7 DEF ClaimPayment
  <2>2. /\ job'[w].at \notin {"commit"}
        /\ \A v \in Worker \ {w} : job'[v] = job[v]
    BY <1>7 DEF ClaimPayment
  <2>3. \A o \in Order : Untouched(o) => Untouched(o)'
    BY <2>1, <2>2
  <2>4. \A v \in Canceller, o \in Order : Cancelling(v, o) => Cancelling(v, o)'
    BY <2>1, <2>2, <2>3
  <2> HIDE DEF Cancelling
  <2> QED
    BY <2>1, <2>4
<1>8. ASSUME NEW w \in Confirmer, ConfirmOrder(w) PROVE CancelShape'
  BY <1>8 DEF ConfirmOrder, Confirmable
<1>9. ASSUME NEW w \in Confirmer, CommitReservations(w) PROVE CancelShape'
  BY <1>9 DEF CommitReservations
<1>10. ASSUME NEW w \in Confirmer, InsertHold(w) PROVE CancelShape'
  BY <1>10 DEF InsertHold, Insertable
<1>11. ASSUME NEW w \in Canceller, FlipStatus(w) PROVE CancelShape'
  <2>0. PICK x \in Order : x = job[w].order
    BY <1>11 DEF FlipStatus
  <2>1. /\ UNCHANGED <<res, paid, unfinished, smothered>>
        /\ \A v \in Worker \ {w} : job'[v] = job[v]
    BY <1>11 DEF FlipStatus
  <2>2. \A v \in Canceller \ {w}, o \in Order : Cancelling(v, o) => Cancelling(v, o)'
    BY <2>1, <1>11 DEF FlipStatus
  <2>3. \A o \in Order : ~Cancelling(w, o)
    BY <1>11 DEF FlipStatus
  <2>4. CASE status[x] # job[w].seen
    <3>1. UNCHANGED status
      BY <1>11, <2>0, <2>4 DEF FlipStatus
    <3> HIDE DEF Cancelling
    <3> QED
      BY <2>1, <2>2, <2>3, <3>1
  <2>5. CASE status[x] = job[w].seen
    <3>1. /\ \A o \in Order \ {x} : status'[o] = status[o]
          /\ job'[w] = [at |-> "reserved", via |-> "cancel", order |-> x]
      BY <1>11, <2>0, <2>5 DEF FlipStatus
    <3>2. Cancelling(w, x)'
      BY <2>1, <3>1
    <3> HIDE DEF Cancelling
    <3> QED
      BY <2>1, <2>2, <2>3, <3>1, <3>2
  <2> QED
    BY <2>4, <2>5
<1>12. ASSUME NEW w \in Canceller, OverwriteStatus(w) PROVE CancelShape'
  BY <1>12 DEF OverwriteStatus
<1>13. ASSUME NEW w \in Canceller, NEW o \in Order, ReadForCancel(w, o) PROVE CancelShape'
  BY <1>13 DEF ReadForCancel, Cancellable
<1>14. ASSUME NEW w \in Canceller, NEW o \in Order, ReadForChat(w, o) PROVE CancelShape'
  BY <1>14 DEF ReadForChat
<1>15. ASSUME NEW w \in Sweeper, VisitOrder(w) PROVE CancelShape'
  <2>1. /\ UNCHANGED <<res, status, paid, unfinished, smothered>>
        /\ \A v \in Canceller \cup Confirmer : job'[v] = job[v]
    <3>1. CASE Stop(w)
      BY <1>15, <3>1 DEF VisitOrder
    <3>2. CASE Goto(w, "attempts")
      BY <1>15, <3>2 DEF VisitOrder
    <3> QED
      BY <1>15, <3>1, <3>2 DEF VisitOrder
  <2> QED
    BY <2>1
<1>16. ASSUME NEW w \in Sweeper, CheckAttempts(w) PROVE CancelShape'
  <2>1. /\ UNCHANGED <<res, status, paid, unfinished, smothered>>
        /\ \A v \in Canceller \cup Confirmer : job'[v] = job[v]
    <3>1. CASE Stop(w)
      BY <1>16, <3>1 DEF CheckAttempts
    <3>2. CASE Goto(w, "reserved")
      BY <1>16, <3>2 DEF CheckAttempts
    <3> QED
      BY <1>16, <3>1, <3>2 DEF CheckAttempts
  <2> QED
    BY <2>1
<1>17. ASSUME NEW w \in Sweeper, NEW o \in Order, PickExpired(w, o) PROVE CancelShape'
  BY <1>17 DEF PickExpired
<1>18. ASSUME NEW w \in Canceller \cup Sweeper, TakeLine(w) PROVE CancelShape'
  BY <1>18 DEF TakeLine, Held
<1>19. ASSUME NEW w \in Canceller \cup Sweeper, CreditStock(w) PROVE CancelShape'
  BY <1>19 DEF CreditStock
<1>20. ASSUME NEW w \in Canceller \cup Sweeper, EndLoop(w) PROVE CancelShape'
  BY <1>20, SMTT(20) DEF EndLoop, Follow, AfterReserved, Locked
<1>21. ASSUME NEW w \in Canceller \cup Sweeper, ReleaseFails(w) PROVE CancelShape'
  <2>1. /\ UNCHANGED <<res, status, paid, smothered>>
        /\ unfinished' = unfinished \cup {job[w].order}
    BY <1>21 DEF ReleaseFails
  <2>2. \A v \in Worker \ {w} : job'[v] = job[v]
    BY <1>21 DEF ReleaseFails, Follow
  <2> SUFFICES ASSUME NEW o \in Order \ (unfinished' \cup smothered'),
                      status'[o] = "cancelled", ~Cleared(o)'
               PROVE  \E v \in Canceller : Cancelling(v, o)'
    OBVIOUS
  <2>3. PICK v \in Canceller : Cancelling(v, o)
    BY <2>1
  <2>4. v # w /\ v \in Worker \ {w} /\ job'[v] = job[v]
    BY <2>1, <2>2, <2>3
  <2>5. \A c \in Confirmer : job'[c] = job[c]
    BY <2>2
  <2>6. Untouched(o) => Untouched(o)'
    BY <2>1, <2>5
  <2> QED
    BY <2>1, <2>3, <2>4, <2>6
<1>22. ASSUME NEW w \in Worker, Crash(w) PROVE CancelShape'
  BY <1>22 DEF Crash
<1>23. CASE UNCHANGED vars
  BY <1>23 DEF vars
<1> HIDE DEF TypeOK, JobShape, RowShape, PendingShape, CancelShape, NoneLeft, Loop,
        Cancelling, Cleared, Untouched, ConfirmJob, FlipJob, ReleaseJob, CreditJob,
        OrderStatus, Cancellable, Worker, Idle, vars, order, escrow, payment, ghosts
<1> QED
  BY <1>1, <1>2, <1>3, <1>4, <1>5, <1>6, <1>7, <1>8, <1>9, <1>10, <1>11, <1>12, <1>13,
     <1>14, <1>15, <1>16, <1>17, <1>18, <1>19, <1>20, <1>21, <1>22, <1>23 DEF Next,
     ConfirmStep, CancelStep, ReleaseStep, SweepStep

-----------------------------------------------------------------------------
\* The inductive invariant.
IInv == /\ TypeOK /\ JobShape /\ RowShape /\ CreditShape /\ HoldShape
        /\ PaidShape /\ FulfilShape /\ PendingShape /\ CancelShape

\* The inductive invariant holds always.
LEMMA Inductive == Spec => []IInv
<1>1. Init => IInv
  <2> SUFFICES ASSUME Init PROVE IInv
    OBVIOUS
  <2> USE LineAssumption, PaymentAssumption, WorkerAssumption DEF Init, Worker, Idle
  <2>1. TypeOK
    BY DEF TypeOK, OrderStatus, ConfirmJob
  <2>2. JobShape /\ RowShape /\ CreditShape /\ HoldShape
    BY DEF JobShape, RowShape, CreditShape, HoldShape, OrderPaid
  <2>3. PaidShape /\ FulfilShape /\ PendingShape /\ CancelShape
    BY DEF PaidShape, FulfilShape, PendingShape, CancelShape
  <2> QED
    BY <2>1, <2>2, <2>3 DEF IInv
<1>2. IInv /\ [Next]_vars => IInv'
  BY TypeStep, JobStep, RowStep, CreditStep, HoldStep, PaidStep, FulfilStep, PendingStep,
     CancelledStep DEF IInv
<1> QED
  BY <1>1, <1>2, PTL DEF Spec

\* The variables keep their types; concurrent checkouts never oversell the stock.
THEOREM TypeCorrect == Spec => []TypeOK
<1>1. IInv => TypeOK
  BY DEF IInv
<1> QED
  BY <1>1, Inductive, PTL

\* The stock of a paid order is committed or about to be, or its commit failed,
\* unless its release had begun before the payment was recorded.
THEOREM PaidOrdersKeepStock == Spec => []PaidStockIsHeld
<1>1. IInv => PaidStockIsHeld
  BY DEF IInv, PaidShape, PaidStockIsHeld, Locked
<1> QED
  BY <1>1, Inductive, PTL

\* A completed payment has confirmed its order and opened its hold, or is about to.
THEOREM PaymentsAreFulfilled == Spec => []CompletedIsFulfilled
<1>1. IInv => CompletedIsFulfilled
  BY DEF IInv, FulfilShape, CompletedIsFulfilled, Confirming
<1> QED
  BY <1>1, Inductive, PTL

\* An order gets one hold at most, and only for a payment that was completed.
THEOREM OneHoldPerOrder == Spec => []HeldOnce
<1>1. IInv => HeldOnce
  BY DEF IInv, HoldShape, HeldOnce
<1> QED
  BY <1>1, Inductive, PTL

\* A cancelled order keeps no stock once its cancellation is over.
THEOREM CancellationFreesStock == Spec => []CancelledFreesStock
<1>1. IInv => CancelledFreesStock
  <2> SUFFICES ASSUME TypeOK, CancelShape, NEW o \in Order \ (unfinished \cup smothered),
                      status[o] = "cancelled"
               PROVE  \/ Releasing(o)
                      \/ \A l \in LinesOf(o) : res[l] = "released"
    BY DEF IInv, CancelledFreesStock
  <2>1. CASE Cleared(o)
    BY <2>1 DEF Cleared, LinesOf
  <2>2. CASE \E w \in Canceller : Cancelling(w, o)
    BY <2>2, WorkerAssumption DEF Cancelling, Releasing, Worker
  <2> QED
    BY <2>1, <2>2 DEF CancelShape
<1> QED
  BY <1>1, Inductive, PTL

-----------------------------------------------------------------------------
\* Each step is a step of Shelf, or leaves the shelf as it is.
LEMMA ShelfStep ==
  TypeOK /\ JobShape /\ RowShape /\ CreditShape /\ [Next]_vars =>
    [ShelfOfStock!Next]_<<stock, [l \in Line |-> Fate(l)]>>
<1> SUFFICES ASSUME TypeOK, JobShape, RowShape, CreditShape, [Next]_vars
             PROVE  [ShelfOfStock!Next]_<<stock, [l \in Line |-> Fate(l)]>>
  OBVIOUS
<1> DEFINE fate == [l \in Line |-> Fate(l)]
           Step == [ShelfOfStock!Next]_<<stock, fate>>
<1> USE LineAssumption, PaymentAssumption, WorkerAssumption
        DEF Worker, Idle, Confirm, Free, Become, Goto, Stop, OrderPaid, LinesOf,
        order, escrow, payment, ghosts
<1> USE DEF TypeOK, JobShape, RowShape, CreditShape, ConfirmJob, FlipJob, ReleaseJob,
        CreditJob, OrderStatus, Cancellable
<1>1. ASSUME NEW o \in Order, PlaceOrder(o) PROVE Step
  <2> DEFINE need == Need(o)
  <2>1. [x \in Order |-> Need(x)][o] = need
    BY <1>1
  <2>2. /\ stock >= need /\ stock' = stock - need
        /\ res' = [l \in Line |-> IF OrderOf[l] = o THEN "reserved" ELSE res[l]]
        /\ credited' = credited /\ status[o] = "none"
    BY <1>1 DEF PlaceOrder, Available
  <2> HIDE DEF need
  <2>3. \A l \in Line : OrderOf[l] = o => res[l] = "none" /\ l \notin credited
    BY <2>2
  <2>4. \A l \in ShelfOfStock!LinesOf(o) : fate[l] = "open"
    BY <2>3 DEF Fate, ShelfOfStock!LinesOf
  <2>5. fate' = [l \in Line |-> IF OrderOf[l] = o THEN "out" ELSE fate[l]]
    BY <2>2, <2>3 DEF Fate
  <2>6. ShelfOfStock!Take(o)
    BY <2>1, <2>2, <2>4, <2>5 DEF ShelfOfStock!Take
  <2> QED
    BY <2>6, <1>1 DEF ShelfOfStock!Next
<1>2. ASSUME NEW o \in Order, Advance(o) PROVE Step
  <2>1. UNCHANGED <<stock, res, credited>>
    BY <1>2 DEF Advance
  <2> QED
    BY <2>1 DEF Fate
<1>3. ASSUME NEW o \in Order, RefundCancelled(o) PROVE Step
  <2>1. UNCHANGED <<stock, res, credited>>
    BY <1>3 DEF RefundCancelled
  <2> QED
    BY <2>1 DEF Fate
<1>4. ASSUME NEW p \in Payment, OpenCheckout(p) PROVE Step
  <2>1. UNCHANGED <<stock, res, credited>>
    BY <1>4 DEF OpenCheckout
  <2> QED
    BY <2>1 DEF Fate
<1>5. ASSUME NEW p \in Payment, RejectPayment(p) PROVE Step
  <2>1. UNCHANGED <<stock, res, credited>>
    BY <1>5 DEF RejectPayment
  <2> QED
    BY <2>1 DEF Fate
<1>6. ASSUME NEW w \in Confirmer, NEW p \in Payment, ReadPayment(w, p) PROVE Step
  <2>1. UNCHANGED <<stock, res, credited>>
    BY <1>6 DEF ReadPayment
  <2> QED
    BY <2>1 DEF Fate
<1>7. ASSUME NEW w \in Confirmer, ClaimPayment(w) PROVE Step
  <2>1. UNCHANGED <<stock, res, credited>>
    BY <1>7 DEF ClaimPayment
  <2> QED
    BY <2>1 DEF Fate
<1>8. ASSUME NEW w \in Confirmer, ConfirmOrder(w) PROVE Step
  <2>1. UNCHANGED <<stock, res, credited>>
    BY <1>8 DEF ConfirmOrder
  <2> QED
    BY <2>1 DEF Fate
<1>9. ASSUME NEW w \in Confirmer, CommitReservations(w) PROVE Step
  <2>1. /\ UNCHANGED <<stock, credited>>
        /\ \A l \in Line : \/ res'[l] = res[l]
                           \/ res[l] = "reserved" /\ res'[l] = "committed"
    BY <1>9 DEF CommitReservations
  <2>2. fate' = fate
    BY <2>1 DEF Fate
  <2> QED
    BY <2>1, <2>2
<1>10. ASSUME NEW w \in Confirmer, InsertHold(w) PROVE Step
  <2>1. UNCHANGED <<stock, res, credited>>
    BY <1>10 DEF InsertHold
  <2> QED
    BY <2>1 DEF Fate
<1>11. ASSUME NEW w \in Canceller, FlipStatus(w) PROVE Step
  <2>1. UNCHANGED <<stock, res, credited>>
    BY <1>11 DEF FlipStatus
  <2> QED
    BY <2>1 DEF Fate
<1>12. ASSUME NEW w \in Canceller, OverwriteStatus(w) PROVE Step
  <2>1. UNCHANGED <<stock, res, credited>>
    BY <1>12 DEF OverwriteStatus
  <2> QED
    BY <2>1 DEF Fate
<1>13. ASSUME NEW w \in Canceller, NEW o \in Order, ReadForCancel(w, o) PROVE Step
  <2>1. UNCHANGED <<stock, res, credited>>
    BY <1>13 DEF ReadForCancel
  <2> QED
    BY <2>1 DEF Fate
<1>14. ASSUME NEW w \in Canceller, NEW o \in Order, ReadForChat(w, o) PROVE Step
  <2>1. UNCHANGED <<stock, res, credited>>
    BY <1>14 DEF ReadForChat
  <2> QED
    BY <2>1 DEF Fate
<1>15. ASSUME NEW w \in Sweeper, VisitOrder(w) PROVE Step
  <2>1. UNCHANGED <<stock, res, credited>>
    BY <1>15 DEF VisitOrder
  <2> QED
    BY <2>1 DEF Fate
<1>16. ASSUME NEW w \in Sweeper, CheckAttempts(w) PROVE Step
  <2>1. UNCHANGED <<stock, res, credited>>
    BY <1>16 DEF CheckAttempts
  <2> QED
    BY <2>1 DEF Fate
<1>17. ASSUME NEW w \in Sweeper, NEW o \in Order, PickExpired(w, o) PROVE Step
  <2>1. UNCHANGED <<stock, res, credited>>
    BY <1>17 DEF PickExpired
  <2> QED
    BY <2>1 DEF Fate
<1>18. ASSUME NEW w \in Canceller \cup Sweeper, TakeLine(w) PROVE Step
  <2>1. PICK l \in Line : /\ res[l] = job[w].at /\ job[w].at \in {"reserved", "committed"}
                          /\ res' = [res EXCEPT ![l] = "released"]
                          /\ UNCHANGED <<stock, credited>>
    BY <1>18 DEF TakeLine, Held
  <2>2. fate' = fate
    BY <2>1 DEF Fate
  <2> QED
    BY <2>1, <2>2
<1>19. ASSUME NEW w \in Canceller \cup Sweeper, CreditStock(w) PROVE Step
  <2>1. PICK l \in Line : /\ l = job[w].line /\ res[l] = "released" /\ l \notin credited
                          /\ stock' = stock + Qty[l] /\ credited' = credited \cup {l}
                          /\ UNCHANGED res
    BY <1>19 DEF CreditStock
  <2>2. fate[l] = "out" /\ fate' = [fate EXCEPT ![l] = "back"]
    BY <2>1 DEF Fate
  <2>3. ShelfOfStock!Return(l)
    BY <2>1, <2>2 DEF ShelfOfStock!Return
  <2> QED
    BY <2>3 DEF ShelfOfStock!Next
<1>20. ASSUME NEW w \in Canceller \cup Sweeper, EndLoop(w) PROVE Step
  <2>1. UNCHANGED <<stock, res, credited>>
    BY <1>20 DEF EndLoop
  <2> QED
    BY <2>1 DEF Fate
<1>21. ASSUME NEW w \in Canceller \cup Sweeper, ReleaseFails(w) PROVE Step
  <2>1. UNCHANGED <<stock, res, credited>>
    BY <1>21 DEF ReleaseFails
  <2> QED
    BY <2>1 DEF Fate
<1>22. ASSUME NEW w \in Worker, Crash(w) PROVE Step
  <2>1. UNCHANGED <<stock, res, credited>>
    BY <1>22 DEF Crash
  <2> QED
    BY <2>1 DEF Fate
<1>23. CASE UNCHANGED vars
  BY <1>23 DEF vars, Fate
<1> HIDE DEF TypeOK, JobShape, RowShape, CreditShape, ConfirmJob, FlipJob, ReleaseJob,
        CreditJob, OrderStatus, Cancellable, Worker, Idle, vars, order, escrow, payment,
        ghosts
<1> QED
  BY <1>1, <1>2, <1>3, <1>4, <1>5, <1>6, <1>7, <1>8, <1>9, <1>10, <1>11, <1>12, <1>13,
     <1>14, <1>15, <1>16, <1>17, <1>18, <1>19, <1>20, <1>21, <1>22, <1>23 DEF Next,
     ConfirmStep, CancelStep, ReleaseStep, SweepStep

\* Checkout implements Shelf: an order's units leave together, once, and come back
\* once at most.
THEOREM RefinesShelf == Spec => ImplementsShelf
<1>1. Init => ShelfOfStock!Init
  BY DEF Init, ShelfOfStock!Init, Fate
<1>2. IInv /\ [Next]_vars => [ShelfOfStock!Next]_<<stock, [l \in Line |-> Fate(l)]>>
  BY ShelfStep DEF IInv
<1> QED
  BY <1>1, <1>2, Inductive, PTL DEF Spec, ImplementsShelf, ShelfOfStock!Spec

-----------------------------------------------------------------------------
\* The lines are finitely many, and so are those whose units are out.
LEMMA OutFinite == /\ Out \in SUBSET Line /\ IsFiniteSet(Out)
                   /\ Qty \in [Line -> Int] /\ SumFunctionOnSet(Qty, Out) \in Nat
<1>1. Out \in SUBSET Line /\ IsFiniteSet(Out)
  BY LineAssumption, FS_Subset DEF Out
<1>2. Qty \in [Line -> Nat] /\ Qty \in [Line -> Int]
  BY LineAssumption
<1> QED
  BY <1>1, <1>2, SumNat

\* What an order takes from the shelf is out with its lines, what a line gives back is
\* on the shelf again, and no other step moves a unit.
LEMMA UnitsStep ==
  TypeOK /\ JobShape /\ RowShape /\ CreditShape /\ [Next]_vars /\ StockAddsUp
    => StockAddsUp'
<1> SUFFICES ASSUME TypeOK, JobShape, RowShape, CreditShape, [Next]_vars, StockAddsUp
             PROVE  StockAddsUp'
  OBVIOUS
<1> DEFINE out == SumFunctionOnSet(Qty, Out)
<1>0. stock \in Nat /\ out \in Nat /\ stock + out = Supply
  BY OutFinite DEF TypeOK, StockAddsUp
<1>1. ASSUME NEW o \in Order, PlaceOrder(o) PROVE StockAddsUp'
  <2>1. /\ stock >= Need(o) /\ stock' = stock - Need(o) /\ status[o] = "none"
        /\ res' = [l \in Line |-> IF OrderOf[l] = o THEN "reserved" ELSE res[l]]
        /\ credited' = credited
    BY <1>1 DEF PlaceOrder, Available
  <2>2. \A l \in LinesOf(o) : res[l] = "none" /\ l \notin credited
    BY <2>1 DEF RowShape, CreditShape, LinesOf
  <2>3. Out' = Out \cup LinesOf(o) /\ Out \cap LinesOf(o) = {}
    BY <2>1, <2>2 DEF Out, Fate, LinesOf
  <2>4. LinesOf(o) \in SUBSET Line /\ IsFiniteSet(LinesOf(o)) /\ Need(o) \in Nat
    BY NeedNat DEF LinesOf
  <2>5. SumFunctionOnSet(Qty, Out \cup LinesOf(o)) =
          out + SumFunctionOnSet(Qty, LinesOf(o))
    BY <2>3, <2>4, OutFinite, SumUnion
  <2>6. SumFunctionOnSet(Qty, Out') = out + Need(o)
    BY <2>3, <2>5 DEF Need
  <2> DEFINE after == SumFunctionOnSet(Qty, Out')
             need == Need(o)
  <2>7. after = out + need /\ need \in Nat /\ stock' = stock - need
    BY <2>1, <2>4, <2>6
  <2> HIDE DEF out, after, need
  <2>8. stock' + after = Supply
    BY <1>0, <2>7
  <2> QED
    BY <2>8 DEF after, StockAddsUp
<1>2. ASSUME NEW w \in Canceller \cup Sweeper, CreditStock(w) PROVE StockAddsUp'
  <2>1. PICK l \in Line : /\ l = job[w].line /\ res[l] = "released" /\ l \notin credited
                          /\ stock' = stock + Qty[l] /\ credited' = credited \cup {l}
                          /\ UNCHANGED res
    BY <1>2, WorkerAssumption
       DEF CreditStock, TypeOK, CreditShape, ConfirmJob, FlipJob, ReleaseJob, CreditJob,
           Worker, Idle
  <2>2. l \in Out /\ Out' = Out \ {l}
    BY <2>1 DEF Out, Fate
  <2>3. out = Qty[l] + SumFunctionOnSet(Qty, Out \ {l}) /\ Qty[l] \in Nat
    BY <2>2, OutFinite, SumRemove, LineAssumption
  <2>4. IsFiniteSet(Out \ {l}) /\ Out \ {l} \in SUBSET Line
    BY OutFinite, FS_Subset
  <2>5. SumFunctionOnSet(Qty, Out \ {l}) \in Int
    BY <2>4, OutFinite, SumInt
  <2> DEFINE after == SumFunctionOnSet(Qty, Out \ {l})
  <2>6. out = Qty[l] + after /\ after \in Int
    BY <2>3, <2>5
  <2> HIDE DEF out, after
  <2>7. stock' + after = Supply
    <3>1. /\ out = Qty[l] + after /\ stock + out = Supply /\ stock' = stock + Qty[l]
          /\ stock \in Nat /\ after \in Int /\ Qty[l] \in Nat
      BY <1>0, <2>1, <2>3, <2>6
    <3> QED
      BY <3>1
  <2>8. after = SumFunctionOnSet(Qty, Out')
    BY <2>2 DEF after
  <2> QED
    BY <2>7, <2>8 DEF StockAddsUp
<1>3. ASSUME stock' = stock, Out' = Out PROVE StockAddsUp'
  BY <1>3 DEF StockAddsUp
<1>4. ASSUME UNCHANGED <<stock, res, credited>> PROVE StockAddsUp'
  BY <1>3, <1>4 DEF Out, Fate
<1>5. ASSUME NEW w \in Confirmer, CommitReservations(w) PROVE StockAddsUp'
  <2>1. /\ UNCHANGED <<stock, credited>>
        /\ \A l \in Line : \/ res'[l] = res[l]
                           \/ res[l] = "reserved" /\ res'[l] = "committed"
    BY <1>5 DEF CommitReservations, TypeOK
  <2>2. Out' = Out
    BY <2>1 DEF Out, Fate
  <2> QED
    BY <1>3, <2>1, <2>2
<1>6. ASSUME NEW w \in Canceller \cup Sweeper, TakeLine(w) PROVE StockAddsUp'
  <2>1. PICK l \in Line : /\ res[l] # "none"
                          /\ res' = [res EXCEPT ![l] = "released"]
                          /\ UNCHANGED <<stock, credited>>
    BY <1>6 DEF TakeLine, Held, LinesOf
  <2>2. Out' = Out
    BY <2>1 DEF Out, Fate, TypeOK
  <2> QED
    BY <1>3, <2>1, <2>2
<1>7. ASSUME \/ \E o \in Order : Advance(o) \/ RefundCancelled(o)
             \/ \E p \in Payment : OpenCheckout(p) \/ RejectPayment(p)
             \/ \E w \in Confirmer, p \in Payment : ReadPayment(w, p)
             \/ \E w \in Confirmer : ClaimPayment(w) \/ ConfirmOrder(w) \/ InsertHold(w)
      PROVE  StockAddsUp'
  BY <1>4, <1>7 DEF Advance, RefundCancelled, OpenCheckout, RejectPayment, ReadPayment,
                    ClaimPayment, ConfirmOrder, InsertHold
<1>8. ASSUME \/ \E w \in Canceller : CancelStep(w)
             \/ \E w \in Canceller, o \in Order : ReadForCancel(w, o) \/ ReadForChat(w, o)
             \/ \E w \in Sweeper : SweepStep(w)
             \/ \E w \in Sweeper, o \in Order : PickExpired(w, o)
             \/ \E w \in Canceller \cup Sweeper : EndLoop(w) \/ ReleaseFails(w)
             \/ \E w \in Worker : Crash(w)
             \/ UNCHANGED vars
      PROVE  StockAddsUp'
  BY <1>4, <1>8 DEF CancelStep, SweepStep, FlipStatus, OverwriteStatus, ReadForCancel,
                    ReadForChat, VisitOrder, CheckAttempts, PickExpired, EndLoop,
                    ReleaseFails, Crash, vars
<1> HIDE DEF out
<1> QED
  BY <1>1, <1>2, <1>5, <1>6, <1>7, <1>8 DEF Next, ConfirmStep, ReleaseStep

\* Every unit of the product is on the shelf or with a line whose units are out.
THEOREM UnitsAddUp == Spec => []StockAddsUp
<1>1. Init => StockAddsUp
  <2> SUFFICES ASSUME Init PROVE StockAddsUp
    OBVIOUS
  <2>1. Out = {} /\ stock = Supply /\ Supply \in Int
    BY LineAssumption DEF Init, Out, Fate
  <2>2. SumFunctionOnSet(Qty, Out) = 0
    BY <2>1, SumEmpty
  <2> QED
    BY <2>1, <2>2 DEF StockAddsUp
<1>2. IInv /\ [Next]_vars /\ StockAddsUp => StockAddsUp'
  BY UnitsStep DEF IInv
<1> QED
  BY <1>1, <1>2, Inductive, PTL DEF Spec

=============================================================================
