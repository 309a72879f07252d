# whatsappCommerce: the money paths, specified, checked and proved

The repository is a multi-tenant commerce platform that sells over WhatsApp. This
directory specifies the part of it that holds other people's money, and the stock they
paid for: checkout and cancellation, the payment's double-entry ledger, escrows, disputes,
and the payout of a merchant's wallet at home and abroad. Modules are named in `code`; paths
are relative to the repository's `src/`.

## 1. Inventory

| Component | State it keeps | Operations | How it meets the others |
|---|---|---|---|
| Merchant payouts (`server/routers/escrow.ts`, `server/services/payments/staleTransferSweep.ts`, `paystackTransfer.ts`, `flutterwaveTransfer.ts`) | `merchant_wallets.available_balance`, `total_withdrawn`; one `wallet_transactions` row per payout with its status in `metadata` | requestWithdrawal, finalizeWalletWithdrawal, sweepStaleTransfers, rejectWithdrawal | the provider's transfer API; its `transfer.*` webhooks; a cron |
| Escrow lifecycle and disputes (`server/routers/escrow.ts`, `server/services/escrowLifecycle.ts`, `server/services/disputes.ts`, `server/routers/sla.ts`) | `escrow_transactions` (state, metadata), `escrow_disputes`, `escrow_config`, the merchant's and the platform's wallet balances | createHold, confirmDelivery, buyerConfirm, initiateRefund, bank callback, raise / respond / review / escalate, SLA scan, deadline sweep, auto-confirm cron, setConfig | settles into the wallet the payouts draw on; is fed by payment confirmation |
| HTTP entry point (`server/_core/index.ts`) | none of its own | webhooks, bank callback, cron routes | authenticates and calls the handlers of the other rows |
| Payment confirmation (`server/services/paymentConfirm.ts`, `webhookDedupe.ts`) | `payment_transactions` and `payment_intents`, the order's payment status, the hold | confirmProviderPayment | commits reservations, opens the hold an escrow begins with |
| Inventory reservations (`server/services/inventory.ts`, `inventoryDepth.ts`) | `products.stock_quantity`, `inventory_reservations` | reserveStock, commitReservations, releaseReservations, releaseCommittedReservations, releaseExpiredReservations | called by checkout, confirmation, cancellation and a cron |
| Order cancellation (`server/services/orderCancel.ts`, `server/routers/orderCrud.ts`, the chat in `server/services/useCases.ts`) | `orders.status` | cancel, updateStatus, the chat's cancel, refundEscrowForCancelledOrder | releases stock, refunds the escrow |
| Payment initiation and admin confirmation (`server/routers/payment.ts`) | `payment_intents`, a lock in Redis | initiate, confirm | reserves, commits and voids at the ledger bridge; competes with the webhook |
| Settlement saga, double-entry ledger (`rust/ledger-bridge`, `rust/recon-worker`, `server/services/ledgerBridge.ts`, `server/routers/escrow.ts`) | a record per transfer, idempotency keys; TigerBeetle behind it | reserve, commit, void, reverse; settleEscrowAtomic, compensateEscrowSettlementFailure; orphan repair | called over HTTP with timeouts, inside the release's transaction |
| Cross-currency payouts (`server/services/fxPayouts.ts`) | `fx_quotes`, wallet entries | quote, accept, expire, execute, callback, poll | debits the wallet of the payouts; delivers through the outbox to a Mojaloop switch |
| Payment outbox (`server/services/paymentOutbox.ts`) | `payment_outbox` | enqueue, and a tick: reap, select, claim, deliver, record | delivers what a transaction enqueued |
| Provider refunds (`server/services/payments/refunds.ts`) | refund fields of the escrow's metadata, `refunds` | refund, sweep | follows an escrow refund |
| Returns (`server/services/rma.ts`, `exchanges.ts`) | RMA rows | request, approve, receive, refund | gate releases, ask for refunds |
| Provider disputes (`server/services/payments/disputes.ts`) | chargeback rows, clawbacks | webhook, evidence | freeze the escrow |
| SLA extensions (`server/routers/slaExtension.ts`) | extension requests | request, decide | move the SLA scan's deadlines |
| Approvals and step-up (`server/services/approvals.ts`) | approval requests | request, decide, consume | gates before money operations |
| Installments, credit, gift cards, stokvel, scheduled payments | a ledger each | many | use the wallets |
| Messaging (WhatsApp, Telegram, SMS, USSD) | sessions, send logs | send, receive | best effort, around the rest |
| Go and Rust services (`services/`, `rust/`) | their own | gateway, orchestration, events | HTTP and events |
| AI agent, ML stack, KYC verifier, clients | models, screens | inference, presentation | read and call the API |

What is hard here: every handler awaits the database at each statement (one Postgres behind it all), so any two
handlers interleave between database statements; what a handler read, it keeps using; a
process can die between two statements; the payment provider answers late, not at all, or
twice; a call that timed out may still take effect; and crons repair what the handlers left
behind, possibly while the handlers are still running. The places where that bites are the
hazards of `PROJECT.json`, each with its line and the properties that watch it, or the
reason none does yet.

What makes each component correct:

- *Payouts.* A reference debits once. The wallet is never overdrawn. A merchant is never
  both paid and refunded. A failed payout is refunded, and once. No debit stays in flight
  for ever.
- *Escrow.* What an escrow hands out and gives back never exceeds what it holds. It is
  released once. A dispute freezes it. A dispute is decided once. The merchant's escrow
  balance is what its open holds are worth.
- *Checkout.* The stock is never oversold. Units leave the shelf once and return once. A
  paid order keeps its stock, a cancelled one gives it back. A payment, however often
  reported, confirms its order and opens one hold.
- *Settlement saga.* What is reported confirmed is committed in the ledger. A compensation
  never undoes a capture that a retry has settled on. A capture whose settlement failed is
  undone or flagged. A payment acknowledged as completed stays completed.
- *Cross-currency payouts and outbox.* The money leaves the wallet once and reaches the payee
  or comes back, never both. A quote that is not executed holds none of it. One worker
  delivers a leg; it is not given up before its tries are made. Every payout ends.
- *Provider refunds, returns.* The buyer receives what the escrow returned, once; a release
  does not overtake an open return.

## 2. The modules

### `Withdrawal` and `Disbursement`: merchant payouts

One row of `wallet_transactions` per reference. Its variables are the columns the code
reads and writes (`avail`, `withdrawn`, `status`, `flagged`, `owner` for the row's
existence), the provider's transfer (`payout`), a program counter per request, finalizer and
rejection, and history variables that only the properties read. Each database statement or
transaction is one action; a handler's local values sit in `seen`, `worker` and `admin`
between actions.

| Code | Actions |
|---|---|
| requestWithdrawal | `FindExisting`, `Debit`, `CallRail`, `VerifyRail`, then `MarkUncertain`, `RefundFailed` or `RecordOutcome`; `CrashRequest` |
| finalizeWalletWithdrawal, from the webhook | `Deliver`, `ReadRow`, `ClaimRow`, `CreditWallet`; `CrashWorker` |
| sweepStaleTransfers | `ScanStale`, `VerifyStale`, then the finalizer's actions |
| rejectWithdrawal | `ReadForReject`, `Reject` |
| the provider | `Provider` |

What the model says of the provider, and the code relies on: a transfer it accepts stays
pending (or waits for an OTP, on Paystack) until it is paid or failed, and a paid one may be
reversed; it has the transfer by the time the 15-second call times out, or never gets it;
its events come any number of times in any order. Verification may be inconclusive. On
Flutterwave no transfer event is handled (the webhook route only serves Paystack's), and
`REVERSED` is taken for a live status (`Misread`). A row is stale only after its request is
over: the sweep's 30 minutes exceed the request's provider calls of 15 seconds each.

Left out: the approval and step-up gates before the first statement, audit logs,
descriptions, recipient creation (its failure is a failed transfer call).

`Disbursement` is the abstract specification: of the calls that share a reference one takes
its amount from the purse, once; the amount is then paid, or comes back. The purse is
`avail`, and `Fate` reads what became of a call's amount from the row's owner, its credits
and the provider's transfer: paid and credited at once maps to a fate the specification does
not have. A row that one of the known exceptions touched (`Excepted`: reopened by an
unguarded write, credited by a rejection, by the sweep's refund of a payout that still waits
for an OTP, or by the sweep on another rail) is `broken`; from then on only the purse is followed.

### `Escrow` and `Trust`: hold, delivery, release, refund, dispute

The variables are the escrow's row, its dispute's status, the tenant's custody mode, and
the balances a release moves. A handler that goes on after a statement is a *job* of a
caller, which carries what the handler read; callers interleave and may die (`Crash`).

| Code | Actions |
|---|---|
| createHold | `CreateHold`, `CreditHold` (two transactions) |
| confirmEscrowDelivery; confirmDelivery | `CourierConfirm`; `ReadForDelivery`, `ConfirmDelivery` |
| settleEscrowAtomic | `CheckReturns`, `Settle`, `SettleFails` |
| buyerConfirm, bulk release, auto-confirm cron | `BeginRelease` |
| runSlaScan | `ScanRow`, `VisitRow`, then a release or a refund |
| bank callback, admin's entry of it | `BankSettlementConfirmed` |
| refundEscrowAtomic and its callers | `Refund` in `InitiateRefund`, `RefundJob`, `RefundJobFails` |
| raiseEscrowDispute; the provider's dispute | `RaiseDispute`, `FileDispute`; `PspFreeze` |
| merchant's response, escalate | `MerchantRespond`, `Escalate` |
| review | `ClaimReview`, then `Settle`, `RefundJob` or `Park` |
| deadline sweep | `SweepEscalate`, `BeginAutoResolve`, `BeginAutoClose`, `CloseDispute` |
| setConfig | `SetCustodyMode` |

Abstractions, each of which allows more than the code does:

- Deadlines are not modelled; a scan may find one passed whenever it looks.
- The order's status, the check for open returns, the ledger's capture (`Settlement` has it)
  and the provider's leg of a refund are not modelled. Where they decide, both decisions are
  possible.
- The custody mode is read in the transaction that moves the money. The code reads it a few
  statements earlier (`escrow.ts:323` and `:547`); switching it at any moment covers the
  stale reads.
- Amounts are whole numbers; the code keeps two decimals.

One narrowing: an escrow gets at most one dispute row. The code could give a second one to
an escrow that `confirmDelivery` reopened, which the properties except anyway.

`Trust` is the abstract specification: what is held goes back piece by piece, or is released
once with exactly what has not gone back (which a bank that holds the money pays out
itself), and then nothing moves. The ten states of the row, two custody modes and the jobs in flight map to its five phases; an escrow that
`confirmDelivery` took out of a final or frozen state is `void`.

### `Checkout` and `Shelf`: stock, payment, cancellation

The variables are the columns of orders, reservations, payments and holds the code decides
on, the stock of one product, and a job per *worker*: a webhook delivery (`Confirmer`), a
cancellation (`Canceller`) or a run of the expiry sweep (`Sweeper`). `Shelf` is the abstract
specification: the units of a line are not taken, out, or back. `StockAddsUp` says of its
quantities what `Shelf` says of its phases: the stock and the units that are out (`Out`) are
the supply, so none are lost or minted, except those a crash lost between a claim and its
credit, which `Out` still counts.

| Code | Actions |
|---|---|
| orderCrud.create with reserveStock | `PlaceOrder` |
| payment.initiate, the chat's checkout | `OpenCheckout` |
| updateStatus | `Advance` |
| confirmProviderPayment | `RejectPayment`; `ReadPayment`, `ClaimPayment`, `ConfirmOrder`, `CommitReservations`, `InsertHold` |
| orderCrud.cancel, cancelOrder | `ReadForCancel`, `FlipStatus`, then a release of reserved and of committed lines |
| the chat's "cancel my order" | `ReadForChat`, `OverwriteStatus`, then a release of reserved lines |
| refundEscrowForCancelledOrder, SLA scan | `RefundCancelled` |
| releaseReservations, releaseCommittedReservations | `TakeLine`, `CreditStock`, `EndLoop`, `ReleaseFails` |
| releaseExpiredReservations | `PickExpired`, `VisitOrder`, `CheckAttempts`, then a release of reserved lines |

Abstractions. One product, since products share nothing. A reservation may have expired, and
an open checkout may have outlived its extension, at any time. `confirmed` stands for
`processing` and `partially_fulfilled` too, `shipped` for `delivered`, `refunded` for the
four words the code has for a refund, and `initiated` for a `pending` intent. What becomes
of the hold otherwise is `Escrow`'s matter; so is its credit to the wallet (`CreditHold`).
`smothered`, `overtaken`, `uncommitted`, `unfinished` and `died` are history: they name the
exceptions the properties make.

### `Settlement` and `Capture`: the payment's transfer in the ledger

Three layers: `tb` and `undone` are TigerBeetle's state, `rec` is the bridge's record of the
transfer, and the rest is the server's. A request is an element of `calls`, first `sent`,
then at the `mark` between TigerBeetle's act and the bridge's record. The caller may time
out; the request is then lost, or goes on for nobody (at most `MaxLate` at a time).

| Code | Actions |
|---|---|
| payment.initiate | `ReadAttempt`, `InsertAttempt`, `ReserveAnswered`, `Charge`, `FailAttempt`; `ExpireLock` |
| payment.confirm | `ReadForConfirm`, `ClaimIntent`, `CommitAnswered`, `VoidAnswered` |
| confirmProviderPayment, as the ledger sees it | `Webhook`, `OpenHold` |
| settleEscrowAtomic | `BeginSettle`, `CaptureAnswered`, `FinishSettle` |
| compensateEscrowSettlementFailure | the `reverse` call, `FlagSettlement` |
| recon worker | `VoidOrphan` |
| ledger bridge | `Reserve`, `Finish` (commit and void), `Reverse`, `Unavailable`, `Mark`, `Break` |
| ledgerBridgeRequest's timeout | `TimeOut` |

Abstractions. Custody is "psp", as otherwise nothing is captured; the bridge's in-memory
ledger of development is off. An order has one idempotency key, hence one transfer, and its
amount is not edited (the code then mints an intent under the same key). The recon worker's
age threshold may have passed at any time. Intents without a reservation are settled by
transfers of their own and left out, as are the fraud screen's rules: it may stop any
attempt. A settler is one call of `settleEscrowAtomic` by any of its callers. All of them
compensate a failure but `runSlaScan` (`sla.ts:413-417`), which the last disjunct of
`FinishSettle` is. The bridge takes a record it cannot read for one it does not have
(`main.rs:727-770`): a reserve then starts over at TigerBeetle, and a reverse is answered
with a 404, whatever the transfer's state (`Reserve`, `Reverse`).

`Capture` is the abstract specification: an order's money is pending, then voided or
captured, and a capture is used once: it confirms a payment, settles the escrow or is
returned. `Funds` reads that from `tb`, `undone`, `took` and `confirmed`; two uses of one
capture map to a phase the specification does not have. The three uses belong to different
handlers that know nothing of each other and share one transfer. (That a confirmed payment's
capture never settles an escrow has a price, which section 4 names: the escrow of such a
payment does not settle at all.)

### `FxPayout` and `Payout`: cross-currency payouts and the outbox

A quote has a status, its transfer's recorded state, a wallet debit and refund entry, one
outbox leg, and the switch's view of the transfer. A `Worker` is one row of one outbox tick.
`Payout` is the abstract specification: the gross is at home, out, then paid or back.

| Code | Actions |
|---|---|
| createFxQuoteTx, acceptFxQuoteTx, expireFxQuotesTx | `CreateQuote`, `AcceptQuote`, `ExpireQuote` |
| executeFxQuoteTx with enqueuePaymentOutbox | `BeginExecute`, `ExecuteQuote`, `ExecuteFails`, `GiveUp` |
| processPaymentOutbox | `Reap`, `SelectLeg`, `ClaimLeg`, `Deliver`, `RecordDelivery` |
| the Mojaloop switch | `LateArrival`, `SwitchEnds` |
| pollFxTransfers, handleFxTransferCallback | `Hear`, `Fulfil`, `Compensate` |
| the wallet's other debits | `Spend` |

What the model says of the switch: a transfer id is processed once, a reserved transfer is
committed or aborted, and a posted request that got no answer may still arrive. The rate,
fee, corridor and currency checks precede the transaction and are left out. The fee is part
of the gross. `RecordDelivery` has one more outcome than the delivery: the UPDATE to
delivered stands in the delivery's own `try` (`paymentOutbox.ts:155-173`), so when it fails
a leg the switch has accepted is recorded as a failed attempt. A leg of kind `ledger_transfer` goes through the same outbox but is delivered by
`payOverTime.ts`, which is not modelled.

### `SumTheorems`

Facts about `SumFunctionOnSet` of the community modules, which the sums over escrows, calls
and lines need. It models no code.

### How the modules meet

`Checkout.InsertHold` is the insert of `Escrow.CreateHold`, and its `RefundCancelled` one of
the callers of `Escrow.Refund`. `Settlement` looks inside `Escrow.Settle`, where the capture
decides whether it commits, and has the ledger's view of the payment `Checkout` confirms.
`Escrow.Settle` credits the wallet that `Withdrawal` and `FxPayout` debit; each debit is
conditional in the same way, and `FxPayout.Spend` stands for the other one.

### Not modelled

The other rows of the inventory, for the reasons `PROJECT.json` gives. The cron and webhook
routes of `server/_core/index.ts` are represented by the actions of the handlers they call.
Of the modelled files, the hooks of `paymentConfirm.ts` (wallet top-ups, repayments, purchase
orders, invoices, receipts), ERP snapshots, backorders, variant, warehouse and batch
allocations, and the reports of the recon worker are left out: they have claims of their
own, and none decides on the state modelled here.

## 3. The runs

| Run | Question | Instance |
|---|---|---|
| `withdrawal` | the safety properties of payouts, that the wallet adds up, and `ImplementsDisbursement` | three calls on one reference, two rails, amounts 1, 2, 3 against funds 2; two webhooks, a sweep, a rejection |
| `withdrawal_liveness` | `DebitResolves` | two calls, one on each rail, one webhook, one sweep, one rejection |
| `escrow` | the safety properties of one escrow, and `ImplementsTrust` | two callers, amount 3, fee 1, either custody mode |
| `escrow_wallet` | `BalanceBacksHolds` | two escrows (3 and 2, fee 1), one caller, custody switched at will |
| `checkout` | stock, payments and holds of an order under concurrent handlers, `StockAddsUp` and `ImplementsShelf` | an order of two lines (one unit each) paid twice, once as an intent and once as a transaction, and an order of three units that the supply of two does not cover; two webhooks, one cancellation, one expiry sweep |
| `settlement` | the payment's transfer in the ledger, the server and the bridge's record, over calls that fail, and `ImplementsCapture` | one order, two attempts, one payer, one confirmation, two settlements, one recon run, one request outliving its caller |
| `fx_payout` | safety, `ImplementsPayout` and the liveness `PayoutEnds` of a cross-currency payout | one quote that takes all the wallet has, two requests, two outbox workers, two listeners, one crash |
| `withdrawal_double_credit`, `withdrawal_rail`, `escrow_double_release`, `escrow_ruling`, `escrow_courier` | five statements of the code's own comments and messages | the smallest instance that decides it |

*Bounds.* Rows are independent of each other except through a balance or a stock, so one
reference, escrow, order or quote suffices for everything but overdraft and overselling,
which a competing amount (the third call, the second order, `Spend`) and the proofs cover.
Two webhooks and a sweep give three finalizers on one row; two confirmers, a canceller and a
sweeper give every pair of handlers that meets on an order; two settlers give the race of
one's compensation with the other's capture. Amount 3 with fee 1 lets a partial refund eat
first into the merchant's net and then into the fee, which is where the two roundings at zero
of `Settle` matter; amount 2 lets it reach zero in two steps. Two lines let a release stop
between them. Three counters are bounded, each by a constant of its module:
`MaxLate`, the requests that go on without a caller (one is enough to arrive after the step
that replaced it); `MaxAttempts`, the outbox's limit itself, 8 in the code and 2 in the run,
so that a leg is retried and then dies; `MaxCrash`, the crashes of FX processes, which do
not count as attempts. Every other history is limited by the rows it counts. Symmetry is
used over webhooks, callers, confirmers, settlers and attempts, in safety runs only. Deadlock checking
is off: a payout, an escrow, an order or a quote that is finished really is.

*Fairness* (`FairSpec` of `Withdrawal`, for `DebitResolves`). A request runs to its end or
dies; the provider settles an accepted transfer that waits for nobody; the cron is scheduled
again and again, and its verification gets an answer in the end; a run of the sweep is not
cut short by a crash every time. The last two are strong fairness because crashes and
inconclusive answers interrupt them. Each is a service of the deployment: the scheduler, the
process manager, the provider's own settlement. Nothing is granted to webhooks, which may all
be lost, nor to the human who approves a transfer by OTP, so whatever resolves does so
through the request itself or the sweep. The sweep is assumed to reach every stale row: its
query takes 50 without an order (`staleTransferSweep.ts:93`), so this is justified only while
fewer than 50 are stale. Without the sweep the property fails: its mutant takes `uncertain`
out of the sweep's list.

*Fairness* (`FairSpec` of `FxPayout`, for `PayoutEnds`). The cron route
(`_core/index.ts:4596-4615`) reaps stale rows, visits every pending row and polls every
unsettled quote at each tick: `Reap` is weakly fair, `SelectLeg` and `Hear` strongly, because
a worker that is busy or a row that is being delivered disables them for a while. A
statement that was begun ends (weak fairness of `DeliverStep` and `SettleStep`), and the
switch ends what it reserved. Nothing is assumed of merchants, of callbacks, which may all be
lost, or of late arrivals. Without `Reap` the property fails: its mutant lets no row become
stale. The polls are assumed to reach every quote: the query takes 50 without an order
(`fxPayouts.ts`), so this is justified only while fewer than 50 quotes are unsettled.

## 4. What the checks show

The properties hold with exceptions, and every exception is in the formula, not in the
model. Five statements found in comments and messages do not hold:

1. *A replayed webhook never double-credits* (`escrow.ts:654`). The request's last write
   (`escrow.ts:2458`) and its uncertain mark (`:2408`) have no condition on the status they
   replace, so they can undo a final status a webhook has set meanwhile.
   `CreditOnceUnlessReopened` is what remains true.
2. *Never refund on an unknown provider state* (`staleTransferSweep.ts:17`). The sweep asks
   Paystack about Flutterwave payouts. `RefundProvesNonPayment` is what remains.
3. *Concurrent double-release is impossible* (`escrow.ts:300`). The UPDATE of
   `confirmDelivery` (`escrow.ts:982`) does not repeat its check and can reopen a settled
   escrow. `PaysOutWhatItHolds` is what remains.
4. *Exactly one resolution* (`escrow.ts:1733`). `escalate` accepts a resolved dispute.
   `DecidedOnce` is what remains.
5. *The SLA scan never settles an unverified delivery* (`escrowLifecycle.ts:55`). It uses a
   flag it read at its start.

What the other properties hold, and what each of their exceptions means in the code:

- `FailedIsRefunded`, except `lost`: a crash between the finalizer's claim and its credit
  loses the refund for good. Likewise a crash between the freeze and the insert of a dispute
  leaves an escrow frozen with no dispute to decide.
- `ImplementsDisbursement`, outside `Excepted` rows: whatever answers, webhooks, sweeps and
  crashes do, an amount leaves once, and is paid or comes back. `WalletAddsUp` says that the
  exceptions only ever leave the merchant with more.
- `ImplementsTrust`, outside `reopened` escrows: releases, refunds, rulings and scans of any
  two handlers, dying between their statements, come down to one release of exactly what the
  refunds have left. `BalanceBacksHolds` adds the wallet they share.
- `PaidStockIsHeld`, except `overtaken`: the sweep checks an order and its checkouts, and
  releases afterwards. A payment recorded in between finds its stock gone, although
  `inventory.ts:384-391` says a slow webhook can never land on an order whose stock was
  resold. `uncommitted` orders stay reserved, since a failed commit is only logged.
- `CompletedIsFulfilled`, except `died`: payment, order, stock and hold are separate
  statements, and a replay of the webhook finds the payment completed and does nothing.
- `CancelledFreesStock`, except `smothered`: the chat's cancellation (`useCases.ts:1228`)
  writes `cancelled` whatever the status has become, and then releases reserved stock only.
- `SettledIsCaptured`, over `took`, the orders settled by a transaction that captured and
  whose COMMIT was acknowledged: one whose COMMIT arrived but looked like a failure reverses
  the capture the settled escrow rests on, since the compensation does not look at the escrow.
- `FailedCaptureIsUndone`, over `known`: whatever times out, is repeated or answered late, a
  capture its settlement knows of is reversed or flagged when that settlement fails. Not in
  `known` are the captures the code leaves behind: by the SLA scan, which does not
  compensate (`sla.ts:413-417`); when the bridge answers the reversal with a 404, because it
  could not read its record (`main.rs:1308-1314`), or a 409, because it lost the commit's
  mark, both of which `ledgerBridge.ts:54` takes for nothing to reverse; when the process died or
  the UPDATE that flags the escrow failed; and when the capture's own answer was lost, since
  the settlement takes it for one that did not happen.
- `PaidStaysCompleted`, over `acked`: `payment.confirm` rolls its claim back to what it was
  before a webhook that was acknowledged meanwhile (`payment.ts:768-778`), and a retried
  `payment.initiate` deletes a row completed after it was read (`:390`).
- `OneDeliverer`, except `overrun`: a worker that is slow, not dead, goes on delivering after
  its leg was reaped. `DeliveredReachedSwitch` and `ImplementsPayout` say what that may not
  do: the switch's transfer id absorbs the second delivery.
- `DeadWasTried`: a leg that is given up had its `MaxAttempts` tries, each of which failed or
  could not be recorded, over all the workers that overlapped on it. It does not say that the
  switch never had the transfer: a delivery that succeeded and was not recorded counts as a
  failed try, and the poll of the quote is what still hears of it.
- `DebitResolves`, except two rows. One the request recorded as `success`
  (`escrow.ts:2458-2463`) is not in the sweep's list (`staleTransferSweep.ts:91`): if its
  webhook is lost, or was acknowledged before that write, it stays so, and a later reversal at
  the provider goes unseen. One whose transfer waits for an OTP nobody enters is
  asked about at every scan, for ever.

Further disagreements, met while modelling and readable from the code; the models contain
each, and no run is spent on them:

- `escrow.ts:356-360` reads a 400 of the bridge as "already committed", but the bridge backed
  by TigerBeetle answers 503 for a transfer that is already posted (`main.rs:1187-1190`). A
  payment that `payment.confirm` committed, or whose first settlement failed after its
  capture, can then not settle.
- `do_reserve` (`main.rs:1005-1015`) replays the record of an idempotency key whatever its
  state, and `payment.ts` does not look at that state: an attempt after a voided one is
  charged on a reservation that is gone.
- `settleEscrowAtomic` leaves its compensation to its caller (`escrow.ts:327`: "these ids must
  be reversed by compensateEscrowSettlementFailure", `:363`: "the caller compensates"), and
  `runSlaScan` is the caller that does not (`sla.ts:413-417`). The capture stays, and the next
  settlement of that escrow meets the 503 of the first item.
- `ledgerBridge.ts:45-46` says a 404 means the transfer is already final; the bridge also
  answers it when its database failed (`main.rs:727-770`, `:1308-1314`).
- Nothing reads the `reconRequired` flag a failed compensation writes.
- `fxPayouts.ts:348-349` says a definitive rejection by the rail compensates. It only marks
  the leg failed (`paymentOutbox.ts:163-173`); the quote stays executed and the wallet debited.
  `PayoutEnds` therefore counts a refused or dead leg the switch never heard of as an end.
- The outbox takes the time once per tick, so the last rows of a long batch look stale when
  they are claimed; a process that crashes while delivering never counts an attempt.

## 5. The proofs

Five modules hold theorems of `Spec`, for every set of requests, references, webhooks,
admins, escrows, callers, orders, lines, payments, attempts, quotes and workers, every
amount, quantity and supply, and every value of the three bounds. They assume what the
modules ASSUME of the constants, which TLC evaluates in every run: amounts and quantities are
natural numbers, a fee is less than its amount, the sets that are summed over (escrows, calls,
lines) are finite, the sets of workers of different kinds are disjoint. Nothing else is assumed.

| Module | Theorem | Argument |
|---|---|---|
| `WithdrawalProofs` | `TypeCorrect` | `TypeOK /\ Ownership` is inductive. `Ownership` says which request's transaction inserted which row; `TypeOK` needs it because a debited row's owner is what an amount is looked up by |
| | `OneDebit` | a conjunct of `Ownership`: a row's debit count is 1 once it has an owner |
| | `RefundsProveNonPayment` | with `Evidence`: whoever is about to credit carries a fact about the transfer (`Dead`, `Unpaid`) that no later step of the provider or the request undoes |
| | `CreditsOnce` | with `ClaimExclusive`: on a row nobody reopened or rejected, the claim is a lock; one worker at a time is about to credit, and only before any credit |
| | `FailedRowsAreRefunded` | `FailedIsRefunded` is inductive relative to `Ownership` |
| | `RefinesDisbursement` | `DisbursementStep`: under `Ownership` and `Evidence` the debit is `Leave`, the provider's steps are `Arrive` and `Bounce`, a credit is `ComeBack`, and a step that makes a row an exception is `Break`. `OneFate` (a reference's calls other than its owner are at home) gives `Leave` its guard; `NeverTwice` (no amount is paid and back) is `Evidence` |
| | `MoneyAddsUp` | not by a case per action of `Withdrawal`, but by one per action of `Disbursement`, whose steps the lemma above has shown these to be |
| `EscrowProofs` | `TypeCorrect` | `TypeOK /\ Money` is inductive; `Money` bounds what was refunded, so that what remains is a number |
| | `PaysOut` | `Money`: before its release an escrow has paid nothing; a release pays at most what remains (`DueBounds`); after it no refund is possible |
| | `DecidesOnce` | `Decided`: a decided dispute stays resolved until an escalation |
| | `FreezesRelease` | `Frozen`: relates a dispute's row to the escrow's state and to the jobs in flight: who files it, who releases for it |
| | `BalanceIsBacked` | `Booked`: one handler credits a hold, once (`Pending`), only credited holds are drawn on, and what the wallet gave back is at most what was refunded. `LeftNat` then shows that no clamp at zero bites, and `Withdrawn` that a step on one escrow changes the sum by that escrow's part |
| | `KeepsTrust` | `TrustStep`: `CreateHold` is `Hold`, every refund is `GiveBack` (`RefundGivesBack`), every release is `Release` because what is due is exactly the rest (`DueIsRest`), reopening is `Void`, the rest is unseen |
| `CheckoutProofs` | `TypeCorrect`, `PaidOrdersKeepStock`, `PaymentsAreFulfilled`, `OneHoldPerOrder`, `CancellationFreesStock` | one invariant, `IInv`: which rows a job of each kind can stand on (`JobShape`, `RowShape`), that a line being credited is claimed by one worker (`CreditShape`), and one strengthening per property, which says what the jobs still under way are going to do (`HoldShape`, `PaidShape`, `FulfilShape`, `PendingShape`, `CancelShape`) |
| | `RefinesShelf` | `ShelfStep`: under `IInv`, `PlaceOrder` is `Take`, `CreditStock` is `Return`, and every other step leaves the shelf alone |
| | `UnitsAddUp` | `UnitsStep`: over `RefinesShelf`'s invariant, placing an order moves the units of its lines from the stock to `Out` (`SumUnion`), a credit moves one line's back; the placed order's `Need` is a number because its lines are finite (`NeedNat`) |
| `SettlementProofs` | `TypeCorrect` | with `JobShape` and `CallShape`: who waits for which request |
| | `ConfirmationIsHonest`, `SettlementStands` | `CommitShape`: a commit that TigerBeetle made is a token in one place, the request, the waiting worker or the settlement that used it; `UndoShape`: only the settlement that holds it can ask for its reversal |
| | `FailureIsCompensated` | `KnownShape`: what the bridge's record says of a capture its settlement knows of, and who still has to undo it, as long as its compensation was not skipped, cut short or answered with a 404 |
| | `AcknowledgedStaysPaid` | `LockShape`: the idempotency lock keeps one payer per order, at a row no buyer has been sent to; what is acknowledged was offered to one |
| | `UsedOnce` | `ToldShape`: the commit of a confirmed payment is out of everybody's hands, and nobody has asked for its reversal. `TransferMoves` and `UseMoves` say which steps touch the transfer and its use; `CaptureStep` maps them |
| `FxPayoutProofs` | `TypeCorrect`, `ClosedQuotesHoldNothing` | `QuoteShape`, `JobShape`: a quote's status, debit, refund and leg agree, and what the jobs carry agrees with them |
| | `DeadLegsWereTried` | `CountShape`: every count that is stored or carried is at most the number of deliveries that failed or were not recorded |
| | `DelivererIsAlone`, `DeliveredIsKnown` | `ClaimShape`: on a leg that nobody reaped one worker is busy, and the row says so; a worker that holds the result `sent` has reached the switch (`JobShape`) |
| | `RefinesPayout` | `PayoutStep`: `ExecuteQuote` is `Leave`, `SwitchEnds` may be `Arrive`, `Compensate` is `ComeBack`, the rest stutters |

Each is laid out as an initial-state lemma, one lemma for the step with one case per action,
and a temporal step. The properties alone are not inductive; each strengthening is named
and commented above its definition.

`SumTheorems` is the sixth module. The sum is a fold, so its laws (`SumRemove`, `SumAdd`,
`SumUnion`, `SumAgree`, `SumBounds`) are inductions over finite sets. The library's
induction theorems take an operator and cannot be applied; the module proves its own in set
form, from the well-foundedness of `<` on the naturals (`NatSetInduction`) to the removal of
one element at a time from the subsets of a finite set (`RemovalInduction`), and derives that
the fold exists and is unique (`IterExists`, `IterUnique`).

Every safety property of a passing run is proved. Model-checked only: `DebitResolves` and
`PayoutEnds` (liveness under fairness, which needs ENABLED), and the five violated statements.

## 6. Plan

Done: `Withdrawal`, `Escrow`, `Checkout`, `Settlement`, `FxPayout`, an abstract specification
of each (`Disbursement`, `Trust`, `Shelf`, `Capture`, `Payout`), their runs and proofs. Next,
in order of what the system stands to lose:

1. Refunds: the approval's claim (`orderCrud.ts:713-859`), which leaves the request pending
   so that two approvals both pass; the provider's leg and its verify-first retries;
   `refundedAmount` and its lost updates; returns and their window.
2. Buyer credit and instalments: draws, repayments and the legs of kind `ledger_transfer`
   that share the outbox with `FxPayout`.
3. The side effects of a confirmed payment that have claims of their own: wallet top-ups,
   purchase orders, invoices.
4. A composition of `Trust` with `Disbursement`: what escrows release is what payouts draw on.
