-------------------------------- MODULE Escrow --------------------------------
(***************************************************************************)
(* The life of an escrow: hold, delivery, release, refund and dispute       *)
(* (server/routers/escrow.ts, server/services/escrowLifecycle.ts,           *)
(* server/services/disputes.ts and the scans of server/routers/sla.ts).     *)
(*                                                                          *)
(* Every action is one database statement or transaction.  A handler that   *)
(* goes on after one is a job of a Caller; what the job carries is what the *)
(* handler read, so handlers interleave between statements and may die      *)
(* there.  Deadlines are not modelled: a scan may find one passed whenever. *)
(* The order's own status, returns and the provider's leg of a refund are   *)
(* not modelled: where they decide, the decision is left open.              *)
(***************************************************************************)
EXTENDS Integers, FiniteSets, Functions

CONSTANTS Escrow,        \* the escrows of one merchant, one per order
          Caller,        \* request handlers and cron runs in flight
          Amount, Fee,   \* each escrow's gross amount and platform fee
          Contested,     \* the escrows somebody may dispute
          Switch         \* the custody modes an admin may switch to

ASSUME AmountAssumption == /\ IsFiniteSet(Escrow) /\ Contested \subseteq Escrow
                           /\ Amount \in [Escrow -> Nat \ {0}]
                           /\ Fee \in [Escrow -> Nat]
                           /\ \A e \in Escrow : Fee[e] < Amount[e]
ASSUME SwitchAssumption == Switch \subseteq {"psp", "pssp"}

Disputable == {"payment_received", "escrow_held", "delivery_confirmed"}
Disputed == {"dispute_raised", "dispute_resolved"}
Released == {"settled", "release_instructed"}
Closed == Released \cup {"refunded", "expired"}
State == Disputable \cup Disputed \cup Closed \cup {"none"}
OpenStatus == {"open", "under_review", "escalated"}
ResolvedStatus == {"resolved_merchant", "resolved_buyer"}
Mode == {"psp", "pssp"}

VARIABLES state,       \* escrow_transactions.state
          refunded,    \* the row's metadata.refundedAmount
          unverified,  \* rows flagged metadata.buyerProtection = courier_unverified
          dispute,     \* status of the escrow's row in escrow_disputes
          custody,     \* escrow_config.custody_mode
          escrowBalance, available, fees,  \* the merchant's wallet, the platform's
          job,         \* each caller: where it is and what it carries
          settles, routes, paid,  \* history: releases of each escrow, who made them,
          returned,               \* what they moved in the wallet, all refunds,
          walletReturned, backed, \* those the wallet booked, holds it was credited,
          reopened, unbacked,     \* rows taken out of a final state, movements unheld,
          ruled, reruled, reescalated   \* disputes decided, again, escalated after it

row     == <<state, refunded, unverified>>
wallet  == <<escrowBalance, available, fees>>
money   == <<settles, routes, paid, returned, walletReturned, backed, unbacked>>
rulings == <<ruled, reruled, reescalated>>
vars    == <<row, dispute, custody, wallet, job, money, reopened, rulings>>

Idle == [at |-> "idle"]
At(l, e, v, n) == [at |-> l, escrow |-> e, via |-> v, ask |-> n]

Init == /\ state = [e \in Escrow |-> "none"]
        /\ refunded = [e \in Escrow |-> 0]
        /\ unverified = {}
        /\ dispute = [e \in Escrow |-> "none"]
        /\ custody \in Mode
        /\ escrowBalance = 0 /\ available = 0 /\ fees = 0
        /\ job = [c \in Caller |-> Idle]
        /\ settles = [e \in Escrow |-> 0]
        /\ routes = [e \in Escrow |-> {}]
        /\ paid = [e \in Escrow |-> 0]
        /\ returned = [e \in Escrow |-> 0]
        /\ walletReturned = [e \in Escrow |-> 0]
        /\ backed = {} /\ reopened = {} /\ unbacked = {}
        /\ ruled = {} /\ reruled = {} /\ reescalated = {}

Start(c, l, e, v, n) == /\ job[c].at = "idle"
                        /\ job' = [job EXCEPT ![c] = At(l, e, v, n)]
Goto(c, l) == job' = [job EXCEPT ![c] = At(l, @.escrow, @.via, @.ask)]
Stop(c) == job' = [job EXCEPT ![c] = Idle]

Exists(e) == state[e] # "none"
OpenDispute(e) == dispute[e] \in OpenStatus
Remaining(e) == Amount[e] - refunded[e]
Less(a, b) == IF a < b THEN a ELSE b
Unclamped(n) == n
NotBelowZero(n) == IF n > 0 THEN n ELSE 0

-----------------------------------------------------------------------------
(* The hold *)

\* createHold inserts the row; a replay finds it, or the unique key stops it.
CreateHold(c, e) ==
  /\ ~Exists(e)
  /\ state' = [state EXCEPT ![e] = "escrow_held"]
  /\ IF custody = "psp" THEN Start(c, "credit", e, "hold", 0)
     ELSE job[c].at = "idle" /\ UNCHANGED job
  /\ UNCHANGED <<refunded, unverified, dispute, custody, wallet, money, reopened, rulings>>

\* The wallet is credited in a transaction of its own.
CreditHold(c) ==
  LET e == job[c].escrow IN
  /\ job[c].at = "credit"
  /\ escrowBalance' = escrowBalance + Amount[e]
  /\ backed' = backed \cup {e}
  /\ Stop(c)
  /\ UNCHANGED <<row, dispute, custody, available, fees, settles, routes, paid, returned,
                 walletReturned, unbacked, reopened, rulings>>

-----------------------------------------------------------------------------
(* Delivery *)

\* The courier's confirmation: one conditional UPDATE.
CourierConfirm(e, verified) ==
  /\ state[e] = "escrow_held"
  /\ state' = [state EXCEPT ![e] = "delivery_confirmed"]
  /\ unverified' = IF verified THEN unverified ELSE unverified \cup {e}
  /\ UNCHANGED <<refunded, dispute, custody, wallet, job, money, reopened, rulings>>

\* The merchant's confirmation: a check ...
ReadForDelivery(c, e) ==
  /\ state[e] = "escrow_held"
  /\ Start(c, "deliver", e, "merchant", 0)
  /\ UNCHANGED <<row, dispute, custody, wallet, money, reopened, rulings>>

\* ... and an UPDATE that does not repeat it.
ConfirmDelivery(c) ==
  LET e == job[c].escrow IN
  /\ job[c].at = "deliver"
  /\ state' = [state EXCEPT ![e] = "delivery_confirmed"]
  /\ reopened' = IF state[e] \in Disputable THEN reopened ELSE reopened \cup {e}
  /\ Stop(c)
  /\ UNCHANGED <<refunded, unverified, dispute, custody, wallet, money, rulings>>

-----------------------------------------------------------------------------
(* Release: settleEscrowAtomic and its callers *)

\* buyerConfirm and the bulk release ask nothing before they call it; the
\* auto-confirm cron (_core/index.ts:3715) does the same for the rows it picks.
BeginRelease(c, e) ==
  /\ Exists(e)
  /\ Start(c, "check", e, "confirm", 0)
  /\ UNCHANGED <<row, dispute, custody, wallet, money, reopened, rulings>>

\* The SLA scan reads the rows, flag included, before it visits them one by one.
ScanRow(c, e) ==
  /\ state[e] \in {"escrow_held", "delivery_confirmed"}
  /\ Start(c, "scan", e, IF e \in unverified THEN "flagged" ELSE "sla", 0)
  /\ UNCHANGED <<row, dispute, custody, wallet, money, reopened, rulings>>

\* The visit: dispute and order are read afresh.  A cancelled or never shipped
\* order is refunded, a delivered one is released unless its row was flagged.
VisitRow(c) ==
  /\ job[c].at = "scan"
  /\ \/ Stop(c)
     \/ ~OpenDispute(job[c].escrow) /\ Goto(c, "refund")
     \/ ~OpenDispute(job[c].escrow) /\ job[c].via = "sla" /\ Goto(c, "check")
  /\ UNCHANGED <<row, dispute, custody, wallet, money, reopened, rulings>>

\* The check for open returns, outside the transaction.
CheckReturns(c) ==
  /\ job[c].at = "check"
  /\ Stop(c) \/ Goto(c, "settle")
  /\ UNCHANGED <<row, dispute, custody, wallet, money, reopened, rulings>>

\* allowedFromStates: what it is, and one list for every caller.
OneList(via) == {"escrow_held", "delivery_confirmed"} \cup Disputed
AllowedFrom(via) ==
  CASE via = "confirm" -> {"delivery_confirmed"}
    [] via = "sla" -> {"escrow_held", "delivery_confirmed"}
    [] via \in {"review", "autoclose"} -> Disputed

\* What a release hands out of what is left: the fee, and the merchant's net.
FeeDue(e) == Less(Fee[e], Remaining(e))
WholeNet(e) == Amount[e] - Fee[e]
NetDue(e) == Less(NotBelowZero(Amount[e] - Fee[e] - refunded[e]), Remaining(e) - FeeDue(e))

\* The predicate of the release's UPDATE.
AnyState(c) == TRUE
MayRelease(c) == state[job[c].escrow] \in AllowedFrom(job[c].via)

\* The transaction: the state, and under PSP custody the wallets.
Settle(c) ==
  LET e == job[c].escrow
      out == FeeDue(e) + NetDue(e) IN
  /\ job[c].at = "settle"
  /\ MayRelease(c)
  /\ settles' = [settles EXCEPT ![e] = @ + 1]
  /\ routes' = [routes EXCEPT ![e] = @ \cup {job[c].via}]
  /\ \/ /\ custody = "psp"
        /\ state' = [state EXCEPT ![e] = "settled"]
        /\ escrowBalance' = NotBelowZero(NotBelowZero(escrowBalance - NetDue(e)) - FeeDue(e))
        /\ available' = available + NetDue(e)
        /\ fees' = fees + FeeDue(e)
        /\ paid' = [paid EXCEPT ![e] = @ + out]
        /\ unbacked' = IF e \in backed THEN unbacked ELSE unbacked \cup {e}
     \/ /\ custody = "pssp"
        /\ state' = [state EXCEPT ![e] = "release_instructed"]
        /\ UNCHANGED <<wallet, paid, unbacked>>
  /\ IF job[c].via = "autoclose" THEN Goto(c, "close") ELSE Stop(c)
  /\ UNCHANGED <<refunded, unverified, dispute, custody, returned, walletReturned, backed,
                 reopened, rulings>>

\* No row matched, or the ledger bridge or the database rolled it back.
SettleFails(c) ==
  /\ job[c].at = "settle"
  /\ Stop(c)
  /\ UNCHANGED <<row, dispute, custody, wallet, money, reopened, rulings>>

\* The bank's callback, and the admin's entry of it.
BankSettlementConfirmed(e) ==
  /\ state[e] = "release_instructed"
  /\ state' = [state EXCEPT ![e] = "settled"]
  /\ UNCHANGED <<refunded, unverified, dispute, custody, wallet, job, money, reopened, rulings>>

-----------------------------------------------------------------------------
(* Refund: refundEscrowAtomic and its callers *)

\* The states a refund is refused from.
NotYetBack(e) == Exists(e) /\ state[e] # "refunded"
Refundable(e) == Exists(e) /\ state[e] \notin Closed

\* The transaction, under a lock on the row.
Refund(e, n) ==
  /\ Refundable(e)
  /\ n \in 1 .. Remaining(e)
  /\ state' = [state EXCEPT ![e] = IF n = Remaining(e) THEN "refunded" ELSE @]
  /\ refunded' = [refunded EXCEPT ![e] = @ + n]
  /\ returned' = [returned EXCEPT ![e] = @ + n]
  /\ \/ /\ custody = "psp"
        /\ escrowBalance' = NotBelowZero(escrowBalance - n)
        /\ walletReturned' = [walletReturned EXCEPT ![e] = @ + n]
        /\ unbacked' = IF e \in backed THEN unbacked ELSE unbacked \cup {e}
     \/ /\ custody = "pssp"
        /\ UNCHANGED <<escrowBalance, walletReturned, unbacked>>
  /\ UNCHANGED <<unverified, dispute, custody, available, fees, settles, routes, paid,
                 backed, reopened, rulings>>

\* initiateRefund, bulk refunds, and the cancelling of an order, a pre-order, a
\* group buy or a return: whole or in part.
InitiateRefund(e) == \E n \in 1 .. Amount[e] : Refund(e, n) /\ UNCHANGED job

\* A refund some earlier statement led to; 0 asks for all that is left.
RefundJob(c) ==
  LET e == job[c].escrow
      n == IF job[c].ask = 0 THEN Remaining(e) ELSE job[c].ask IN
  /\ job[c].at = "refund"
  /\ Refund(e, n)
  /\ IF job[c].via = "autoresolve" THEN Goto(c, "close") ELSE Stop(c)

\* Refused, or failed; auto-resolution goes on when the money is already back.
RefundJobFails(c) ==
  /\ job[c].at = "refund"
  /\ \/ Stop(c)
     \/ job[c].via = "autoresolve" /\ state[job[c].escrow] = "refunded" /\ Goto(c, "close")
  /\ UNCHANGED <<row, dispute, custody, wallet, money, reopened, rulings>>

-----------------------------------------------------------------------------
(* Disputes *)

\* raiseEscrowDispute freezes the escrow, then inserts the dispute's row.  (An
\* escrow reopened after its dispute could get a second row; one is modelled.)
RaiseDispute(c, e) ==
  /\ e \in Contested /\ state[e] \in Disputable /\ dispute[e] = "none"
  /\ state' = [state EXCEPT ![e] = "dispute_raised"]
  /\ Start(c, "file", e, "dispute", 0)
  /\ UNCHANGED <<refunded, unverified, dispute, custody, wallet, money, reopened, rulings>>

FileDispute(c) ==
  LET e == job[c].escrow IN
  /\ job[c].at = "file"
  /\ dispute' = [dispute EXCEPT ![e] = IF @ = "none" THEN "open" ELSE @]
  /\ Stop(c)
  /\ UNCHANGED <<row, custody, wallet, money, reopened, rulings>>

\* A dispute at the payment provider freezes the escrow without such a row.
PspFreeze(e) ==
  /\ e \in Contested /\ state[e] \in Disputable
  /\ state' = [state EXCEPT ![e] = "dispute_raised"]
  /\ UNCHANGED <<refunded, unverified, dispute, custody, wallet, job, money, reopened, rulings>>

MerchantRespond(e) ==
  /\ dispute[e] = "open"
  /\ dispute' = [dispute EXCEPT ![e] = "under_review"]
  /\ UNCHANGED <<row, custody, wallet, job, money, reopened, rulings>>

\* A claim that decides the dispute.
Rule(e, status) == /\ dispute' = [dispute EXCEPT ![e] = status]
                   /\ ruled' = ruled \cup {e}
                   /\ reruled' = IF e \in ruled THEN reruled \cup {e} ELSE reruled
                   /\ UNCHANGED reescalated

\* The predicate of the review's claim.
AnyStatus(e) == dispute[e] # "none"
Decidable(e) == OpenDispute(e)

\* The admin's review claims the dispute first; the money moves after it.
ClaimReview(c, e) ==
  /\ Decidable(e)
  /\ \/ /\ Rule(e, "resolved_merchant")
        /\ Start(c, "check", e, "review", 0)
     \/ /\ Rule(e, "resolved_buyer")
        /\ \/ \E n \in 0 .. Amount[e] : Start(c, "refund", e, "review", n)
           \/ Start(c, "park", e, "review", 0)
  /\ UNCHANGED <<row, custody, wallet, money, reopened>>

\* no_action and replacement park the escrow.
Park(c) ==
  LET e == job[c].escrow IN
  /\ job[c].at = "park"
  /\ state' = [state EXCEPT ![e] = IF @ = "dispute_raised" THEN "dispute_resolved" ELSE @]
  /\ Stop(c)
  /\ UNCHANGED <<refunded, unverified, dispute, custody, wallet, money, reopened, rulings>>

\* escalate refuses only a dispute that is already escalated.
Escalate(e) ==
  /\ dispute[e] \notin {"none", "escalated"}
  /\ dispute' = [dispute EXCEPT ![e] = "escalated"]
  /\ reescalated' = IF dispute[e] \in ResolvedStatus THEN reescalated \cup {e} ELSE reescalated
  /\ UNCHANGED <<row, custody, wallet, job, money, reopened, ruled, reruled>>

\* The deadline sweep escalates, resolves and closes; in the last two the money
\* moves first and the dispute is claimed after it.
SweepEscalate(e) ==
  /\ dispute[e] \in {"open", "under_review"}
  /\ dispute' = [dispute EXCEPT ![e] = "escalated"]
  /\ UNCHANGED <<row, custody, wallet, job, money, reopened, rulings>>

BeginAutoResolve(c, e) ==
  /\ dispute[e] = "escalated"
  /\ Start(c, "refund", e, "autoresolve", 0)
  /\ UNCHANGED <<row, dispute, custody, wallet, money, reopened, rulings>>

BeginAutoClose(c, e) ==
  /\ dispute[e] = "under_review"
  /\ Start(c, "check", e, "autoclose", 0)
  /\ UNCHANGED <<row, dispute, custody, wallet, money, reopened, rulings>>

\* The claim of a dispute whose money has moved.
ClaimFrom(via) == IF via = "autoclose" THEN "under_review" ELSE "escalated"

CloseDispute(c) ==
  LET e == job[c].escrow
      won == IF job[c].via = "autoclose" THEN "resolved_merchant" ELSE "resolved_buyer" IN
  /\ job[c].at = "close"
  /\ IF dispute[e] = ClaimFrom(job[c].via) THEN Rule(e, won) ELSE UNCHANGED <<dispute, rulings>>
  /\ Stop(c)
  /\ UNCHANGED <<row, custody, wallet, money, reopened>>

-----------------------------------------------------------------------------
\* setConfig switches the custody mode under live escrows.
SetCustodyMode(m) ==
  /\ custody # m
  /\ custody' = m
  /\ UNCHANGED <<row, dispute, wallet, job, money, reopened, rulings>>

\* A handler dies between two of its statements.
Crash(c) ==
  /\ job[c].at # "idle"
  /\ Stop(c)
  /\ UNCHANGED <<row, dispute, custody, wallet, money, reopened, rulings>>

Begin(c, e) == \/ CreateHold(c, e) \/ ReadForDelivery(c, e) \/ BeginRelease(c, e)
               \/ ScanRow(c, e) \/ RaiseDispute(c, e)
               \/ ClaimReview(c, e) \/ BeginAutoResolve(c, e) \/ BeginAutoClose(c, e)

Continue(c) == \/ CreditHold(c) \/ ConfirmDelivery(c) \/ VisitRow(c) \/ CheckReturns(c)
               \/ Settle(c) \/ SettleFails(c) \/ RefundJob(c) \/ RefundJobFails(c)
               \/ FileDispute(c) \/ Park(c) \/ CloseDispute(c) \/ Crash(c)

Single(e) == \/ \E v \in BOOLEAN : CourierConfirm(e, v)
             \/ BankSettlementConfirmed(e) \/ InitiateRefund(e) \/ PspFreeze(e)
             \/ MerchantRespond(e) \/ Escalate(e) \/ SweepEscalate(e)

Next == \/ \E c \in Caller, e \in Escrow : Begin(c, e)
        \/ \E c \in Caller : Continue(c)
        \/ \E e \in Escrow : Single(e)
        \/ \E m \in Switch : SetCustodyMode(m)

Spec == Init /\ [][Next]_vars

-----------------------------------------------------------------------------
(* Properties *)

Route == {"confirm", "sla", "review", "autoclose"}
Job == [at : {"credit", "deliver", "scan", "check", "settle", "refund", "file", "park",
              "close"},
        escrow : Escrow,
        via : Route \cup {"hold", "merchant", "flagged", "dispute", "autoresolve"},
        ask : Nat]

\* The types of the variables; that a caller only reaches a release with one of
\* the routes AllowedFrom knows is part of it.
TypeOK ==
  /\ state \in [Escrow -> State]
  /\ refunded \in [Escrow -> Nat]
  /\ unverified \subseteq Escrow
  /\ dispute \in [Escrow -> OpenStatus \cup ResolvedStatus \cup {"none"}]
  /\ custody \in Mode
  /\ escrowBalance \in Nat /\ available \in Nat /\ fees \in Nat
  /\ job \in [Caller -> {Idle} \cup Job]
  /\ \A c \in Caller : job[c].at \in {"check", "settle"} => job[c].via \in Route
  /\ settles \in [Escrow -> Nat] /\ paid \in [Escrow -> Nat]
  /\ routes \in [Escrow -> SUBSET Route]
  /\ returned \in [Escrow -> Nat] /\ walletReturned \in [Escrow -> Nat]
  /\ backed \subseteq Escrow /\ reopened \subseteq Escrow /\ unbacked \subseteq Escrow
  /\ ruled \subseteq Escrow /\ reruled \subseteq Escrow /\ reescalated \subseteq Escrow

\* An escrow is released once, and what it pays out and gives back never exceeds
\* what it holds, whatever the mix of partial refunds, disputes, scans and
\* confirmations - unless confirmDelivery took it out of a final or frozen state.
PaysOutWhatItHolds ==
  \A e \in Escrow \ reopened : /\ settles[e] <= 1
                               /\ settles[e] = 1 => state[e] \in Released
                               /\ paid[e] + returned[e] <= Amount[e]

\* The merchant's escrow balance is what the credited holds still have to give:
\* GREATEST(..., 0) never swallows a shortfall, unless an escrow moved money
\* before its own hold was credited, or was reopened.
BalanceBacksHolds ==
  unbacked \cup reopened = {} =>
    escrowBalance = SumFunctionOnSet([e \in Escrow |-> Amount[e] - paid[e] - walletReturned[e]],
                                     backed)

\* A disputed escrow reaches the merchant only through a ruling in the merchant's
\* favour, or the sweep's auto-close - unless it was reopened, or the dispute was
\* escalated after its ruling.
DisputeFreezesRelease ==
  \A e \in Escrow \ (reopened \cup reescalated) :
    settles[e] > 0 /\ dispute[e] \notin {"none", "resolved_merchant"} => "autoclose" \in routes[e]

\* A dispute is decided once, whoever claims it, unless it was escalated after.
DecidedOnce == reruled \subseteq reescalated

\* What settleEscrowAtomic's comment promises: concurrent double-release is
\* impossible (escrow.ts:300).  The code does not keep it.
NeverReleasedTwice == \A e \in Escrow : settles[e] <= 1

\* What the review's error says: exactly one resolution is allowed
\* (escrow.ts:1733).  The code does not keep it.
NeverDecidedTwice == reruled = {}

\* What confirmEscrowDelivery's comment promises: the SLA scan never settles a
\* delivery no verified courier confirmed (escrowLifecycle.ts:56).  The code does
\* not keep it.
UnverifiedNeverAutoSettled == \A e \in unverified : "sla" \notin routes[e]

-----------------------------------------------------------------------------
(* What an escrow promises *)

\* An escrow as buyer and merchant see it: nothing is said of one whose row
\* confirmDelivery took out of a final or frozen state.
Phase(e) == IF e \in reopened THEN "void"
            ELSE IF ~Exists(e) THEN "none"
            ELSE IF settles[e] > 0 THEN "released"
            ELSE IF state[e] = "refunded" THEN "returned" ELSE "held"
Kept(f) == [e \in Escrow |-> IF e \in reopened THEN 0 ELSE f[e]]
TrustOfRows == INSTANCE Trust WITH phase <- [e \in Escrow |-> Phase(e)],
                                   back <- Kept(returned), out <- Kept(paid)

\* The rows, the wallets and the handlers between them keep the promise of Trust:
\* an escrow is released once, with exactly what refunds have left of it; refunds
\* only take from what is left, and none follows a release, nor a release the
\* refund of the whole - under either custody mode.
ImplementsTrust == TrustOfRows!Spec
=============================================================================
