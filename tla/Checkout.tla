------------------------------- MODULE Checkout -------------------------------
(***************************************************************************)
(* An order's stock, payments, escrow hold and cancellation                 *)
(* (server/services/inventory.ts, paymentConfirm.ts, orderCancel.ts, the    *)
(* chat cancellation of useCases.ts and the cancel route of orderCrud.ts).  *)
(*                                                                          *)
(* Each statement or transaction is one action.  A handler is the job of a  *)
(* worker, which carries what the handler read; handlers interleave between *)
(* statements and may die there.  Orders reserve units of one product.      *)
(* Deadlines are not modelled: a reservation may expire whenever, and an    *)
(* open checkout may have outlived the cap whenever.                        *)
(***************************************************************************)
EXTENDS Integers, FiniteSets, Functions

CONSTANTS Order, Line,
          OrderOf, Qty,    \* each line's order and number of units
          Supply,          \* the product's initial stock
          Payment,         \* references of payments
          PaysFor,         \* each payment's order
          Intent,          \* payments kept in payment_intents; the others are
                           \* in payment_transactions
          Confirmer,       \* deliveries of payment webhooks in flight
          Canceller,       \* cancellations in flight
          Sweeper          \* runs of the expiry sweep

Worker == Confirmer \cup Canceller \cup Sweeper
LinesOf(o) == {l \in Line : OrderOf[l] = o}
Need(o) == SumFunctionOnSet(Qty, LinesOf(o))

ASSUME LineAssumption == /\ IsFiniteSet(Line)
                         /\ OrderOf \in [Line -> Order]
                         /\ Qty \in [Line -> Nat \ {0}]
                         /\ Supply \in Nat
ASSUME PaymentAssumption == PaysFor \in [Payment -> Order] /\ Intent \subseteq Payment
ASSUME WorkerAssumption == /\ Confirmer \cap Canceller = {}
                           /\ Confirmer \cap Sweeper = {}
                           /\ Canceller \cap Sweeper = {}

VARIABLES stock,       \* products.stock_quantity
          res,         \* inventory_reservations.status of each line
          status, paid,  \* orders.status, orders.payment_status
          pay,         \* status of each payment's row
          hold,        \* the order's escrow
          job,         \* each worker: where it is and what it carries
          credited, holds,  \* history: lines put back on the shelf, each order's escrows,
          smothered,   \* orders the chat cancelled over a status it had not read,
          overtaken,   \* paid for while their stock was being released, or after,
          uncommitted, unfinished,  \* whose commit, whose release was cut short,
          died         \* payments whose confirmation died after its claim

order   == <<status, paid>>
escrow  == <<hold, holds>>
payment == <<pay, died>>
ghosts  == <<smothered, overtaken, uncommitted, unfinished>>
vars    == <<stock, res, order, payment, escrow, job, credited, ghosts>>

Idle == [at |-> "idle"]
Confirm(l, p) == [at |-> l, pay |-> p]
Free(l, v, o) == [at |-> l, via |-> v, order |-> o]
Become(w, j) == job' = [job EXCEPT ![w] = j]
Goto(w, l) == job' = [job EXCEPT ![w].at = l]
Stop(w) == Become(w, Idle)

Init == /\ stock = Supply
        /\ res = [l \in Line |-> "none"]
        /\ status = [o \in Order |-> "none"]
        /\ paid = [o \in Order |-> "unpaid"]
        /\ pay = [p \in Payment |-> "none"]
        /\ hold = [o \in Order |-> "none"]
        /\ job = [w \in Worker |-> Idle]
        /\ credited = {}
        /\ holds = [o \in Order |-> 0]
        /\ smothered = {} /\ overtaken = {}
        /\ uncommitted = {} /\ unfinished = {} /\ died = {}

-----------------------------------------------------------------------------
(* Placing an order and paying for it *)

\* The conditional decrement of reserveStock.
Unchecked(o) == TRUE
Available(o) == stock >= Need(o)

\* The order and its reservations are one transaction: every line or none.
PlaceOrder(o) ==
  /\ status[o] = "none" /\ Available(o)
  /\ status' = [status EXCEPT ![o] = "pending"]
  /\ stock' = stock - Need(o)
  /\ res' = [l \in Line |-> IF OrderOf[l] = o THEN "reserved" ELSE res[l]]
  /\ UNCHANGED <<paid, payment, escrow, job, credited, ghosts>>

\* A checkout is opened; payment.initiate refuses an order that is paid.
OpenCheckout(p) ==
  /\ pay[p] = "none" /\ status[PaysFor[p]] # "none"
  /\ p \in Intent => paid[PaysFor[p]] # "completed"
  /\ pay' = [pay EXCEPT ![p] = "initiated"]
  /\ UNCHANGED <<stock, res, order, died, escrow, job, credited, ghosts>>

\* updateStatus: the merchant confirms and ships, guarded by the status it read.
Advance(o) ==
  /\ \/ status[o] = "pending" /\ status' = [status EXCEPT ![o] = "confirmed"]
     \/ status[o] = "confirmed" /\ status' = [status EXCEPT ![o] = "shipped"]
  /\ UNCHANGED <<stock, res, paid, payment, escrow, job, credited, ghosts>>

-----------------------------------------------------------------------------
(* confirmProviderPayment *)

OrderPaid(w) == PaysFor[job[w].pay]

\* A webhook whose amount or currency is wrong fails the row, and nothing else.
RejectPayment(p) ==
  /\ pay[p] \notin {"none", "completed"}
  /\ pay' = [pay EXCEPT ![p] = "failed"]
  /\ UNCHANGED <<stock, res, order, died, escrow, job, credited, ghosts>>

\* The webhook of a charge, whatever became of the order while the buyer was at the
\* provider; a completed row ends the handler.
ReadPayment(w, p) ==
  /\ job[w] = Idle /\ pay[p] \notin {"none", "completed"}
  /\ Become(w, Confirm("claim", p))
  /\ UNCHANGED <<stock, res, order, payment, escrow, credited, ghosts>>

\* The guarded transition to completed; its loser stops.
ClaimPayment(w) ==
  /\ job[w].at = "claim"
  /\ IF pay[job[w].pay] = "completed" THEN Stop(w) /\ UNCHANGED pay
     ELSE /\ pay' = [pay EXCEPT ![job[w].pay] = "completed"]
          /\ Goto(w, "confirm")
  /\ UNCHANGED <<stock, res, order, died, escrow, credited, ghosts>>

\* Some handler is giving the order's stock back, or has done so.
Releasing(o) == \E w \in Worker \ Confirmer :
                   job[w].at \in {"attempts", "reserved", "committed", "credit"} /\ job[w].order = o
GivenUp(o) == Releasing(o) \/ \E l \in LinesOf(o) : res[l] = "released"

OpenOnly(o) == paid[o] # "completed" /\ status[o] # "cancelled"
Confirmable(o) == paid[o] # "completed"

\* The order is confirmed, whatever its status; a paid one is left as it is.
ConfirmOrder(w) ==
  LET o == OrderPaid(w) IN
  /\ job[w].at = "confirm"
  /\ Goto(w, "commit")
  /\ \/ /\ Confirmable(o)
        /\ paid' = [paid EXCEPT ![o] = "completed"]
        /\ status' = [status EXCEPT ![o] = "confirmed"]
        /\ overtaken' = IF GivenUp(o) THEN overtaken \cup {o} ELSE overtaken
     \/ /\ ~Confirmable(o)
        /\ UNCHANGED <<order, overtaken>>
  /\ UNCHANGED <<stock, res, payment, escrow, credited, smothered, uncommitted,
                 unfinished>>

\* Reservations not released yet are committed; an error is only logged.
CommitReservations(w) ==
  LET o == OrderPaid(w) IN
  /\ job[w].at = "commit"
  /\ Goto(w, "hold")
  /\ \/ /\ res' = [l \in Line |-> IF OrderOf[l] = o /\ res[l] = "reserved" THEN "committed"
                                  ELSE res[l]]
        /\ UNCHANGED uncommitted
     \/ /\ uncommitted' = uncommitted \cup {o}
        /\ UNCHANGED res
  /\ UNCHANGED <<stock, order, payment, escrow, credited, smothered, overtaken,
                 unfinished>>

\* The unique key behind onConflictDoNothing.
NoConflict(o) == TRUE
Insertable(o) == hold[o] = "none"

\* One hold per order: found by the lookup, or stopped by the key.  Its credit to
\* the wallet is Escrow's CreditHold.
InsertHold(w) ==
  LET o == OrderPaid(w) IN
  /\ job[w].at = "hold"
  /\ Stop(w)
  /\ \/ /\ Insertable(o)
        /\ hold' = [hold EXCEPT ![o] = "held"]
        /\ holds' = [holds EXCEPT ![o] = @ + 1]
     \/ /\ ~Insertable(o)
        /\ UNCHANGED <<hold, holds>>
  /\ UNCHANGED <<stock, res, order, payment, credited, ghosts>>

-----------------------------------------------------------------------------
(* Cancelling: orderCrud.cancel, and the chat's "cancel my order" *)

Cancellable == {"pending", "confirmed"}

ReadForCancel(w, o) ==
  /\ job[w] = Idle /\ status[o] \in Cancellable
  /\ Become(w, [at |-> "flip", via |-> "cancel", order |-> o, seen |-> status[o]])
  /\ UNCHANGED <<stock, res, order, payment, escrow, credited, ghosts>>

\* cancelOrder's transaction, guarded by the status that was read.
FlipStatus(w) ==
  LET o == job[w].order IN
  /\ job[w].at = "flip"
  /\ \/ /\ status[o] # job[w].seen
        /\ Stop(w)
        /\ UNCHANGED status
     \/ /\ status[o] = job[w].seen
        /\ status' = [status EXCEPT ![o] = "cancelled"]
        /\ Become(w, Free("reserved", "cancel", o))
  /\ UNCHANGED <<stock, res, paid, payment, escrow, credited, smothered, overtaken,
                 uncommitted, unfinished>>

\* The chat checks that the order is pending ...
ReadForChat(w, o) ==
  /\ job[w] = Idle /\ status[o] = "pending"
  /\ Become(w, Free("overwrite", "chat", o))
  /\ UNCHANGED <<stock, res, order, payment, escrow, credited, ghosts>>

\* ... and cancels it without repeating the check.
OverwriteStatus(w) ==
  LET o == job[w].order IN
  /\ job[w].at = "overwrite"
  /\ status' = [status EXCEPT ![o] = "cancelled"]
  /\ smothered' = IF status[o] = "pending" THEN smothered ELSE smothered \cup {o}
  /\ Goto(w, "reserved")
  /\ UNCHANGED <<stock, res, paid, payment, escrow, credited, overtaken, uncommitted,
                 unfinished>>

\* The cancel route or, later, the SLA scan refunds a cancelled order's escrow; the
\* order's own row is written afterwards, and not at all if the handler dies.
RefundCancelled(o) ==
  /\ status[o] = "cancelled" /\ hold[o] = "held"
  /\ hold' = [hold EXCEPT ![o] = "refunded"]
  /\ paid' = [paid EXCEPT ![o] = "refunded"] \/ UNCHANGED paid
  /\ UNCHANGED <<stock, res, status, payment, job, holds, credited, ghosts>>

-----------------------------------------------------------------------------
(* Releasing stock: releaseReservations and releaseCommittedReservations *)

\* The predicate of the claim on one line.
EverTaken(l, s) == res[l] # "none"
Held(l, s) == res[l] = s

\* Claim one line that is still in the state the loop releases from ...
TakeLine(w) ==
  /\ job[w].at \in {"reserved", "committed"}
  /\ \E l \in LinesOf(job[w].order) :
       /\ Held(l, job[w].at)
       /\ res' = [res EXCEPT ![l] = "released"]
       /\ Become(w, [at |-> "credit", via |-> job[w].via, order |-> job[w].order,
                     line |-> l, from |-> job[w].at])
  /\ UNCHANGED <<stock, order, payment, escrow, credited, ghosts>>

\* ... and credit its units, in a statement of its own; then the next one.
CreditStock(w) ==
  LET l == job[w].line IN
  /\ job[w].at = "credit"
  /\ stock' = stock + Qty[l]
  /\ credited' = credited \cup {l}
  /\ Become(w, Free(job[w].from, job[w].via, job[w].order))
  /\ UNCHANGED <<res, order, payment, escrow, ghosts>>

\* What follows the first loop: only a cancellation goes on, to the committed lines.
AlwaysDone(v) == "idle"
AfterReserved(v) == IF v = "cancel" THEN "committed" ELSE "idle"
Follow(w, l) == IF l = "idle" THEN Stop(w) ELSE Become(w, Free(l, job[w].via, job[w].order))

\* Rows a concurrent statement has locked are skipped, not waited for.
Locked(o) == \E c \in Confirmer : job[c].at = "commit" /\ OrderPaid(c) = o

EndLoop(w) ==
  LET o == job[w].order
      left == {l \in LinesOf(o) : res[l] = job[w].at} IN
  /\ \/ job[w].at = "reserved" /\ Follow(w, AfterReserved(job[w].via))
     \/ job[w].at = "committed" /\ Stop(w)
  /\ \/ left = {} /\ UNCHANGED unfinished
     \/ left # {} /\ Locked(o) /\ unfinished' = unfinished \cup {o}
  /\ UNCHANGED <<stock, res, order, payment, escrow, credited, smothered,
                 overtaken, uncommitted>>

\* A database error inside a loop is logged, and the caller goes on.
ReleaseFails(w) ==
  LET from == IF job[w].at = "credit" THEN job[w].from ELSE job[w].at
      o == job[w].order IN
  /\ job[w].at \in {"reserved", "committed", "credit"}
  /\ \/ from = "reserved" /\ Follow(w, AfterReserved(job[w].via))
     \/ from = "committed" /\ Stop(w)
  /\ unfinished' = unfinished \cup {o}
  /\ UNCHANGED <<stock, res, order, payment, escrow, credited, smothered,
                 overtaken, uncommitted>>

-----------------------------------------------------------------------------
(* releaseExpiredReservations *)

\* The sweep selects orders with an expired reservation, then visits each.
PickExpired(w, o) ==
  /\ job[w] = Idle /\ \E l \in LinesOf(o) : res[l] = "reserved"
  /\ Become(w, Free("visit", "sweep", o))
  /\ UNCHANGED <<stock, res, order, payment, escrow, credited, ghosts>>

Anyone(o) == TRUE
Unpaid(o) == paid[o] # "completed"

VisitOrder(w) ==
  /\ job[w].at = "visit"
  /\ IF Unpaid(job[w].order) THEN Goto(w, "attempts") ELSE Stop(w)
  /\ UNCHANGED <<stock, res, order, payment, escrow, credited, ghosts>>

\* A payment intent still open postpones the release, until the reservation
\* reaches its maximum age.
OpenIntent(o) == \E p \in Intent : PaysFor[p] = o /\ pay[p] = "initiated"

CheckAttempts(w) ==
  /\ job[w].at = "attempts"
  /\ \/ OpenIntent(job[w].order) /\ Stop(w)
     \/ Goto(w, "reserved")
  /\ UNCHANGED <<stock, res, order, payment, escrow, credited, ghosts>>

-----------------------------------------------------------------------------
\* A handler dies between two statements.
Crash(w) ==
  /\ job[w] # Idle
  /\ Stop(w)
  /\ died' = IF job[w].at \in {"confirm", "commit", "hold"}
             THEN died \cup {job[w].pay} ELSE died
  /\ uncommitted' = IF job[w].at = "commit" THEN uncommitted \cup {OrderPaid(w)} ELSE uncommitted
  /\ unfinished' = IF job[w].at \in {"reserved", "committed", "credit"}
                   THEN unfinished \cup {job[w].order} ELSE unfinished
  /\ UNCHANGED <<stock, res, order, pay, escrow, credited, smothered,
                 overtaken>>

ConfirmStep(w) == \/ ClaimPayment(w) \/ ConfirmOrder(w) \/ CommitReservations(w)
                  \/ InsertHold(w)
CancelStep(w) == FlipStatus(w) \/ OverwriteStatus(w)
ReleaseStep(w) == TakeLine(w) \/ CreditStock(w) \/ EndLoop(w) \/ ReleaseFails(w)
SweepStep(w) == VisitOrder(w) \/ CheckAttempts(w)

Next == \/ \E o \in Order : PlaceOrder(o) \/ Advance(o) \/ RefundCancelled(o)
        \/ \E p \in Payment : OpenCheckout(p) \/ RejectPayment(p)
        \/ \E w \in Confirmer : ConfirmStep(w) \/ \E p \in Payment : ReadPayment(w, p)
        \/ \E w \in Canceller : \/ CancelStep(w)
                                \/ \E o \in Order : ReadForCancel(w, o) \/ ReadForChat(w, o)
        \/ \E w \in Sweeper : SweepStep(w) \/ \E o \in Order : PickExpired(w, o)
        \/ \E w \in Canceller \cup Sweeper : ReleaseStep(w)
        \/ \E w \in Worker : Crash(w)

Spec == Init /\ [][Next]_vars

-----------------------------------------------------------------------------
(* Properties *)

OrderStatus == {"none", "pending", "confirmed", "shipped", "cancelled"}
ConfirmJob == [at : {"claim", "confirm", "commit", "hold"}, pay : Payment]
FlipJob == [at : {"flip"}, via : {"cancel"}, order : Order, seen : Cancellable]
ReleaseJob ==
  [at : {"overwrite", "reserved"}, via : {"chat"}, order : Order] \cup
  [at : {"reserved", "committed"}, via : {"cancel"}, order : Order] \cup
  [at : {"visit", "attempts", "reserved"}, via : {"sweep"}, order : Order]
CreditJob == [at : {"credit"}, via : {"cancel", "chat", "sweep"}, order : Order, line : Line,
              from : {"reserved", "committed"}]

\* The types of the variables; that the stock is a natural number says that
\* concurrent checkouts never oversell it.
TypeOK ==
  /\ stock \in Nat
  /\ res \in [Line -> {"none", "reserved", "committed", "released"}]
  /\ status \in [Order -> OrderStatus]
  /\ paid \in [Order -> {"unpaid", "completed", "refunded"}]
  /\ pay \in [Payment -> {"none", "initiated", "completed", "failed"}]
  /\ hold \in [Order -> {"none", "held", "refunded"}]
  /\ job \in [Worker -> {Idle} \cup ConfirmJob \cup FlipJob \cup ReleaseJob \cup CreditJob]
  /\ \A c \in Confirmer : job[c] \in {Idle} \cup ConfirmJob
  /\ \A w \in Worker \ Confirmer : job[w] \notin ConfirmJob
  /\ credited \subseteq Line
  /\ holds \in [Order -> Nat]
  /\ smothered \subseteq Order /\ overtaken \subseteq Order
  /\ uncommitted \subseteq Order /\ unfinished \subseteq Order /\ died \subseteq Payment

\* What the shelf sees of a line: its units are back once they are credited.
Fate(l) == IF res[l] = "none" THEN "open" ELSE IF l \in credited THEN "back" ELSE "out"
ShelfOfStock == INSTANCE Shelf WITH Demand <- [o \in Order |-> Need(o)],
                                    free <- stock, fate <- [l \in Line |-> Fate(l)]

\* Reserving, committing, and the claim-then-credit of three concurrent ways to
\* release stock implement a shelf that units leave once and return to once.
ImplementsShelf == ShelfOfStock!Spec

\* Every unit of the product is on the shelf or with a line whose units are out:
\* concurrent checkouts, cancellations, sweeps and crashes create no stock and lose
\* none - a release that died after its claim still holds its line's units.
Out == {l \in Line : Fate(l) = "out"}
StockAddsUp == stock + SumFunctionOnSet(Qty, Out) = Supply

\* The stock of a paid order is committed, or a confirmation is about to commit
\* it - unless it is cancelled, its release had begun before the payment was
\* recorded (the sweep looks at the order and at its checkouts before it
\* releases), or the commit failed, which leaves it reserved.
PaidStockIsHeld ==
  \A o \in Order \ overtaken :
    paid[o] = "completed" /\ status[o] # "cancelled" =>
      \A l \in LinesOf(o) : \/ res[l] = "committed"
                            \/ res[l] = "reserved" /\ (Locked(o) \/ o \in uncommitted)

\* A payment recorded as completed confirms its order and opens its hold, unless
\* the handler that claimed it died: a replay finds it completed and does nothing.
Confirming(p) == \E w \in Confirmer :
                   job[w].at \in {"confirm", "commit", "hold"} /\ job[w].pay = p
CompletedIsFulfilled ==
  \A p \in Payment \ died :
    pay[p] = "completed" => \/ Confirming(p)
                            \/ paid[PaysFor[p]] # "unpaid" /\ hold[PaysFor[p]] # "none"

\* However many payments and webhooks an order gets, one hold is opened, and only
\* for a payment that was completed.
HeldOnce ==
  \A o \in Order :
    /\ holds[o] <= 1
    /\ holds[o] = 1 => \E p \in Payment : PaysFor[p] = o /\ pay[p] = "completed"

\* A cancelled order keeps no stock once its cancellation is over, paid or not,
\* unless the release was cut short (or skipped a locked row), or the chat
\* cancelled an order that was no longer pending.
CancelledFreesStock ==
  \A o \in Order \ (unfinished \cup smothered) :
    status[o] = "cancelled" => \/ Releasing(o)
                               \/ \A l \in LinesOf(o) : res[l] = "released"
=============================================================================
