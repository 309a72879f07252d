------------------------------ MODULE Withdrawal ------------------------------
(***************************************************************************)
(* Merchant wallet payouts: requestWithdrawal, the finalizer the Paystack   *)
(* webhook and the stale-transfer sweep share, and rejectWithdrawal         *)
(* (server/routers/escrow.ts, server/services/payments/staleTransferSweep). *)
(*                                                                          *)
(* A row of wallet_transactions is named by its reference.  Each database   *)
(* statement or transaction is one action; everything a handler read before *)
(* it is a local variable, so handlers interleave between statements.  The  *)
(* payment provider is the environment.                                     *)
(***************************************************************************)
EXTENDS Integers, FiniteSets, Functions

CONSTANTS Request,     \* calls of requestWithdrawal
          Ref,         \* idempotency references
          Hook,        \* concurrent deliveries of transfer webhooks
          Sweeper,     \* runs of the stale-transfer cron
          Admin,       \* concurrent calls of rejectWithdrawal
          RefOf, AmountOf, RailOf,   \* each request's input and payout account
          Funds,       \* the wallet's initial available balance
          NoRequest    \* the owner of a reference nobody has debited

Worker == Hook \cup Sweeper

ASSUME RequestAssumption == /\ IsFiniteSet(Request) /\ NoRequest \notin Request
                            /\ RefOf \in [Request -> Ref]
                            /\ AmountOf \in [Request -> Nat \ {0}]
                            /\ RailOf \in [Request -> {"paystack", "flutterwave"}]
                            /\ Funds \in Nat
ASSUME WorkerAssumption == Hook \cap Sweeper = {}

Terminal == {"completed", "failed"}
Status == Terminal \cup {"none", "processing", "pending", "otp", "success",
                         "uncertain", "rejected"}
Payout == {"none", "pending", "otp", "paid", "failed", "reversed"}
Live == {"pending", "otp", "paid"}
Source == {"request", "webhook", "sweep", "otp", "reject"}

VARIABLES avail,      \* merchant_wallets.available_balance
          withdrawn,  \* merchant_wallets.total_withdrawn
          owner,      \* the request whose transaction inserted the row
          status,     \* the row's metadata.status
          flagged,    \* the row's metadata.needsReconciliation
          payout,     \* the transfer at the provider
          pc, seen,   \* each request: where it is, the outcome it will record
          worker,     \* each finalizer: where it is and what it carries
          admin,      \* each rejectWithdrawal: where it is and what it read
          debits, credits, creditors,   \* history: of each row's wallet movements,
          reopened, lost   \* rows taken out of a final status; credits lost in a crash

wallet  == <<avail, withdrawn>>
row     == <<owner, status, flagged>>
history == <<debits, credits, creditors, reopened, lost>>
vars    == <<wallet, row, payout, pc, seen, worker, admin, history>>

Amount(r) == AmountOf[owner[r]]
Debited(r) == owner[r] # NoRequest
Idle == [pc |-> "idle"]
At(l, r, e, s) == [pc |-> l, ref |-> r, event |-> e, source |-> s]

Init == /\ avail = Funds /\ withdrawn = 0
        /\ owner = [r \in Ref |-> NoRequest]
        /\ status = [r \in Ref |-> "none"]
        /\ flagged = [r \in Ref |-> FALSE]
        /\ payout = [r \in Ref |-> "none"]
        /\ pc = [q \in Request |-> "idle"]
        /\ seen = [q \in Request |-> "pending"]
        /\ worker = [w \in Worker |-> Idle]
        /\ admin = [a \in Admin |-> Idle]
        /\ debits = [r \in Ref |-> 0]
        /\ credits = [r \in Ref |-> 0]
        /\ creditors = [r \in Ref |-> {}]
        /\ reopened = {}
        /\ lost = {}

\* The balance effect of a compensating credit, and who issued it.
Credit(r, source) == /\ avail' = avail + Amount(r)
                     /\ credits' = [credits EXCEPT ![r] = @ + 1]
                     /\ creditors' = [creditors EXCEPT ![r] = @ \cup {source}]

-----------------------------------------------------------------------------
(* requestWithdrawal *)

Goto(q, l) == pc' = [pc EXCEPT ![q] = l]

\* The idempotency check outside the debit transaction.
FindExisting(q) ==
  /\ pc[q] = "idle"
  /\ Goto(q, IF Debited(RefOf[q]) THEN "done" ELSE "checked")
  /\ UNCHANGED <<wallet, row, payout, seen, worker, admin, history>>

\* The re-check inside the transaction, and the unique index behind it.
NeverTaken(q) == FALSE
Taken(q) == Debited(RefOf[q])

\* The predicate of the conditional debit.
Overdrawing(q) == TRUE
Affordable(q) == avail >= AmountOf[q]

\* The debit transaction: refused for a taken reference or for lack of funds.
Debit(q) ==
  LET r == RefOf[q] IN
  /\ pc[q] = "checked"
  /\ \/ /\ Taken(q) \/ ~Affordable(q)
        /\ Goto(q, "done")
        /\ UNCHANGED <<wallet, row, debits>>
     \/ /\ ~Taken(q) /\ Affordable(q)
        /\ avail' = avail - AmountOf[q]
        /\ withdrawn' = withdrawn + AmountOf[q]
        /\ owner' = [owner EXCEPT ![r] = q]
        /\ status' = [status EXCEPT ![r] = "processing"]
        /\ debits' = [debits EXCEPT ![r] = @ + 1]
        /\ Goto(q, "debited")
        /\ UNCHANGED flagged
  /\ UNCHANGED <<payout, seen, worker, admin, credits, creditors, reopened, lost>>

\* What the adapters make of a transfer the provider reports as live.
Reported(p) == CASE p = "pending" -> {"pending", "processing"}
                 [] p = "otp"     -> {"otp"}
                 [] p = "paid"    -> {"success"}
                 [] OTHER         -> {}

Accepts(q) == IF RailOf[q] = "paystack" THEN Live ELSE Live \ {"otp"}

\* The transfer call: answered, or failed with the transfer in any state.  The
\* provider has the transfer by the time the call times out, or never will: what
\* verify-before-refund relies on.
CallRail(q) ==
  /\ pc[q] = "debited"
  /\ \/ \E p \in Accepts(q) : \E s \in Reported(p) :
          /\ payout' = [payout EXCEPT ![RefOf[q]] = p]
          /\ seen' = [seen EXCEPT ![q] = s]
          /\ Goto(q, "answered")
     \/ \E p \in Accepts(q) \cup {"none", "failed"} :
          /\ payout' = [payout EXCEPT ![RefOf[q]] = p]
          /\ Goto(q, "verify")
          /\ UNCHANGED seen
  /\ UNCHANGED <<wallet, row, worker, admin, history>>

\* A transfer whose verification allows a refund: unknown, failed or reversed.
NotPaid(p) == p # "paid"
Refundable(p) == p \notin Live

\* Flutterwave's "REVERSED" passes for a live status: only "reversed" is refused.
Misread(q) == RailOf[q] = "flutterwave" /\ payout[RefOf[q]] = "reversed"

\* Verify-before-refund on the request's own rail; three attempts may all fail.
VerifyRail(q) ==
  LET p == payout[RefOf[q]] IN
  /\ pc[q] = "verify"
  /\ \/ /\ Goto(q, "unknown")
        /\ UNCHANGED seen
     \/ /\ Refundable(p) /\ ~Misread(q)
        /\ Goto(q, "refund")
        /\ UNCHANGED seen
     \/ /\ Misread(q)
        /\ seen' = [seen EXCEPT ![q] = "pending"]
        /\ Goto(q, "answered")
     \/ \E s \in Reported(p) :
          /\ seen' = [seen EXCEPT ![q] = s]
          /\ Goto(q, "answered")
  /\ UNCHANGED <<wallet, row, payout, worker, admin, history>>

\* A write of metadata.status that no status guards.
Overwrite(r, s) == /\ status' = [status EXCEPT ![r] = s]
                   /\ reopened' = IF status[r] \in Terminal THEN reopened \cup {r} ELSE reopened

MarkUncertain(q) ==
  /\ pc[q] = "unknown"
  /\ Overwrite(RefOf[q], "uncertain")
  /\ flagged' = [flagged EXCEPT ![RefOf[q]] = TRUE]
  /\ Goto(q, "done")
  /\ UNCHANGED <<wallet, owner, payout, seen, worker, admin, debits, credits,
                 creditors, lost>>

\* The predicate of the UPDATEs that claim a row for a final status.
AlwaysClaimable(r) == TRUE
Claimable(r) == status[r] \notin Terminal

\* A refund whose credit is missing.
MarkFailed(q) ==
  /\ pc[q] = "refund"
  /\ Goto(q, "done")
  /\ status' = [status EXCEPT ![RefOf[q]] = IF Claimable(RefOf[q]) THEN "failed" ELSE @]
  /\ UNCHANGED <<wallet, owner, flagged, payout, seen, worker, admin, history>>

\* The refund transaction: the claim on the row's status and the credit.
RefundFailed(q) ==
  LET r == RefOf[q] IN
  /\ pc[q] = "refund"
  /\ Goto(q, "done")
  /\ \/ /\ ~Claimable(r)
        /\ UNCHANGED <<wallet, status, credits, creditors>>
     \/ /\ Claimable(r)
        /\ status' = [status EXCEPT ![r] = "failed"]
        /\ withdrawn' = withdrawn - AmountOf[q]
        /\ Credit(r, "request")
  /\ UNCHANGED <<owner, flagged, payout, seen, worker, admin, debits, reopened, lost>>

RecordOutcome(q) ==
  /\ pc[q] = "answered"
  /\ Overwrite(RefOf[q], seen[q])
  /\ Goto(q, "done")
  /\ UNCHANGED <<wallet, owner, flagged, payout, seen, worker, admin, debits, credits,
                 creditors, lost>>

\* The server process dies between two statements of the request.
CrashRequest(q) ==
  /\ pc[q] \notin {"idle", "done", "crashed"}
  /\ Goto(q, "crashed")
  /\ UNCHANGED <<wallet, row, payout, seen, worker, admin, history>>

-----------------------------------------------------------------------------
(* finalizeWalletWithdrawal, called by the webhook and by the sweep *)

\* The Paystack events a transfer has given rise to, each delivered any number
\* of times and in any order; no Flutterwave transfer event is handled.
Events(p) == CASE p = "paid"     -> {"success"}
               [] p = "failed"   -> {"failed"}
               [] p = "reversed" -> {"success", "failed"}
               [] OTHER          -> {}

Deliver(w, r) ==
  /\ worker[w].pc = "idle" /\ Debited(r) /\ RailOf[owner[r]] = "paystack"
  /\ \E e \in Events(payout[r]) :
       worker' = [worker EXCEPT ![w] = At("read", r, e, "webhook")]
  /\ UNCHANGED <<wallet, row, payout, pc, seen, admin, history>>

\* Rows are stale after 30 minutes, when the request that made one is over:
\* its five provider calls time out after 15 seconds each.
StaleAtOnce(r) == Debited(r)
Stale(r) == Debited(r) /\ pc[owner[r]] \in {"done", "crashed"}

\* The statuses the sweep verifies with the provider.
ReportedLive == {"processing", "pending"}
Verifiable == {"processing", "pending", "uncertain"}

\* The sweep selects a stale row; an OTP-gated one is cancelled unverified.
ScanStale(w, r) ==
  /\ worker[w].pc = "idle" /\ Stale(r)
  /\ \/ /\ status[r] \in Verifiable
        /\ worker' = [worker EXCEPT ![w] = At("verify", r, "none", "sweep")]
     \/ /\ status[r] = "otp"
        /\ worker' = [worker EXCEPT ![w] = At("read", r, "failed", "otp")]
  /\ UNCHANGED <<wallet, row, payout, pc, seen, admin, history>>

\* The sweep asks Paystack, whatever rail carried the payout.
AtPaystack(r) == IF RailOf[owner[r]] = "paystack" THEN payout[r] ELSE "none"

VerifyStale(w) ==
  LET r == worker[w].ref IN
  LET p == AtPaystack(r) IN
  LET Finalize(e) == worker' = [worker EXCEPT ![w] = At("read", r, e, "sweep")] IN
  /\ worker[w].pc = "verify"
  /\ \/ Refundable(p) /\ Finalize("failed")
     \/ p = "paid" /\ Finalize("success")
     \/ worker' = [worker EXCEPT ![w] = Idle]  \* inconclusive, or still in flight
  /\ UNCHANGED <<wallet, row, payout, pc, seen, admin, history>>

\* The read: a terminal row is left alone, or flagged when the event contradicts it.
ReadRow(w) ==
  LET r == worker[w].ref IN
  /\ worker[w].pc = "read"
  /\ \/ /\ status[r] \in Terminal
        /\ flagged' = [flagged EXCEPT ![r] =
                         @ \/ (status[r] = "completed") # (worker[w].event = "success")]
        /\ worker' = [worker EXCEPT ![w] = Idle]
     \/ /\ status[r] \notin Terminal
        /\ worker' = [worker EXCEPT ![w].pc = "claim"]
        /\ UNCHANGED flagged
  /\ UNCHANGED <<wallet, owner, status, payout, pc, seen, admin, history>>

\* The conditional UPDATE that claims the row.
ClaimRow(w) ==
  LET r == worker[w].ref IN
  /\ worker[w].pc = "claim"
  /\ \/ /\ ~Claimable(r)
        /\ worker' = [worker EXCEPT ![w] = Idle]
        /\ UNCHANGED status
     \/ /\ Claimable(r) /\ worker[w].event = "success"
        /\ status' = [status EXCEPT ![r] = "completed"]
        /\ worker' = [worker EXCEPT ![w] = Idle]
     \/ /\ Claimable(r) /\ worker[w].event = "failed"
        /\ status' = [status EXCEPT ![r] = "failed"]
        /\ worker' = [worker EXCEPT ![w].pc = "credit"]
  /\ UNCHANGED <<wallet, owner, flagged, payout, pc, seen, admin, history>>

\* The compensating credit, a statement of its own after the claim.
CreditWallet(w) ==
  LET r == worker[w].ref IN
  /\ worker[w].pc = "credit"
  /\ Credit(r, worker[w].source)
  /\ withdrawn' = withdrawn - Amount(r)
  /\ worker' = [worker EXCEPT ![w] = Idle]
  /\ UNCHANGED <<row, payout, pc, seen, admin, debits, reopened, lost>>

CrashWorker(w) ==
  /\ worker[w].pc # "idle"
  /\ worker' = [worker EXCEPT ![w] = Idle]
  /\ lost' = IF worker[w].pc = "credit" THEN lost \cup {worker[w].ref} ELSE lost
  /\ UNCHANGED <<wallet, row, payout, pc, seen, admin, debits, credits, creditors,
                 reopened>>

-----------------------------------------------------------------------------
(* rejectWithdrawal *)

\* The reads before the transaction: the row and the wallet.
ReadForReject(a, r) ==
  /\ admin[a].pc = "idle" /\ Debited(r)
  /\ status[r] # "rejected"
  /\ admin' = [admin EXCEPT ![a] = [pc |-> "claim", ref |-> r, withdrawn |-> withdrawn,
                                    flagged |-> flagged[r]]]
  /\ UNCHANGED <<wallet, row, payout, pc, seen, worker, history>>

\* The transaction claims a pending row; it writes back what was read before it.
\* (The reversal's unique reference refuses nothing more: a rejected row is never
\* pending again.)
Reject(a) ==
  LET r == admin[a].ref
      left == admin[a].withdrawn - Amount(r) IN
  /\ admin[a].pc = "claim"
  /\ admin' = [admin EXCEPT ![a] = Idle]
  /\ \/ /\ status[r] # "pending"
        /\ UNCHANGED <<wallet, status, flagged, credits, creditors>>
     \/ /\ status[r] = "pending"
        /\ status' = [status EXCEPT ![r] = "rejected"]
        /\ flagged' = [flagged EXCEPT ![r] = admin[a].flagged]
        /\ withdrawn' = IF left > 0 THEN left ELSE 0
        /\ Credit(r, "reject")
  /\ UNCHANGED <<owner, payout, pc, seen, worker, debits, reopened, lost>>

-----------------------------------------------------------------------------
\* The provider settles, fails or reverses a transfer it has accepted.
Provider(r) ==
  /\ \/ /\ payout[r] \in {"pending", "otp"}
        /\ \E p \in {"paid", "failed"} : payout' = [payout EXCEPT ![r] = p]
     \/ /\ payout[r] = "paid"
        /\ payout' = [payout EXCEPT ![r] = "reversed"]
  /\ UNCHANGED <<wallet, row, pc, seen, worker, admin, history>>

RequestStep(q) == \/ FindExisting(q) \/ Debit(q) \/ CallRail(q) \/ VerifyRail(q)
                  \/ MarkUncertain(q) \/ RefundFailed(q) \/ RecordOutcome(q)
WorkerStep(w) == VerifyStale(w) \/ ReadRow(w) \/ ClaimRow(w) \/ CreditWallet(w)

Next == \/ \E q \in Request : RequestStep(q) \/ CrashRequest(q)
        \/ \E w \in Worker : WorkerStep(w) \/ CrashWorker(w)
        \/ \E h \in Hook, r \in Ref : Deliver(h, r)
        \/ \E s \in Sweeper, r \in Ref : ScanStale(s, r)
        \/ \E a \in Admin : Reject(a) \/ \E r \in Ref : ReadForReject(a, r)
        \/ \E r \in Ref : Provider(r)

Spec == Init /\ [][Next]_vars

\* The services the deployment keeps running: a request runs to its end or dies,
\* the provider settles what waits for nobody, the cron keeps scanning and comes to
\* every stale row (a scan takes fifty, in no order), an answer to its verification
\* comes through at last, and not every run of a finalizer is cut short by a crash.
\* Nothing is granted to webhooks, all of which may be lost, nor to the human who
\* approves a transfer by OTP.
Fairness ==
  /\ \A q \in Request : WF_vars(RequestStep(q))
  /\ \A r \in Ref : WF_vars(payout[r] = "pending" /\ Provider(r))
  /\ \A s \in Sweeper : /\ SF_vars(ReadRow(s)) /\ SF_vars(ClaimRow(s))
                       /\ SF_vars(CreditWallet(s))
                       /\ WF_vars(VerifyStale(s))
                       /\ SF_vars(VerifyStale(s) /\ worker'[s].pc = "read")
  /\ \A s \in Sweeper, r \in Ref : SF_vars(ScanStale(s, r))

FairSpec == Spec /\ Fairness

-----------------------------------------------------------------------------
(* Properties *)

PcLabel == {"idle", "checked", "debited", "verify", "unknown", "refund", "answered",
            "done", "crashed"}
Job == [pc : {"verify", "read", "claim", "credit"}, ref : Ref,
        event : {"none", "success", "failed"}, source : {"webhook", "sweep", "otp"}]
Ruling == [pc : {"claim"}, ref : Ref, withdrawn : Int, flagged : BOOLEAN]

\* The types of the variables; that avail is a natural number says the
\* conditional debit never overdraws the wallet.
TypeOK ==
  /\ avail \in Nat /\ withdrawn \in Int
  /\ owner \in [Ref -> Request \cup {NoRequest}]
  /\ status \in [Ref -> Status]
  /\ flagged \in [Ref -> BOOLEAN]
  /\ payout \in [Ref -> Payout]
  /\ pc \in [Request -> PcLabel]
  /\ seen \in [Request -> {"pending", "processing", "otp", "success"}]
  /\ worker \in [Worker -> {Idle} \cup Job]
  /\ admin \in [Admin -> {Idle} \cup Ruling]
  /\ debits \in [Ref -> Nat] /\ credits \in [Ref -> Nat]
  /\ creditors \in [Ref -> SUBSET Source]
  /\ reopened \subseteq Ref /\ lost \subseteq Ref

\* Calls that share a reference debit the wallet once, whatever their
\* interleaving (requestWithdrawal's checks and the unique index).
OneDebitPerReference == \A r \in Ref : debits[r] <= 1

\* A merchant is never both paid and refunded, except by the three paths that
\* credit without the paying rail's word: an admin's rejection, the cancelling
\* of a stale OTP transfer, and the sweep's refund of a payout that is not on
\* Paystack (it asks Paystack).
RefundProvesNonPayment ==
  \A r \in Ref : payout[r] \in {"pending", "otp", "paid"} =>
     creditors[r] \subseteq {"reject", "otp"} \cup
        (IF Debited(r) /\ RailOf[owner[r]] # "paystack" THEN {"sweep"} ELSE {})

\* The claims on the row's status let one compensating credit through, unless
\* the request's own last write reopened a finished row, or an admin rejected it.
CreditOnceUnlessReopened ==
  \A r \in Ref : credits[r] > 1 => r \in reopened \/ "reject" \in creditors[r]

\* A row marked failed has been refunded or is about to be, unless the process
\* that claimed it died before the credit.
FailedIsRefunded ==
  \A r \in Ref : status[r] = "failed" =>
     \/ credits[r] > 0
     \/ r \in lost
     \/ \E w \in Worker : worker[w].pc = "credit" /\ worker[w].ref = r

\* A debit does not stay in flight for ever: timed-out calls, late answers, crashes of
\* the request and webhooks that never come end, for good, in a status the sweep has
\* nothing left to do about.  Excepted are a transfer that still waits for its OTP at
\* the provider, and a row the request recorded as "success": the provider reported it
\* paid, but the sweep's list leaves it out, and without a webhook it stays so.
DebitResolves ==
  \A r \in Ref :
    Debited(r) ~> [](\/ status[r] \in Terminal \cup {"rejected", "success"}
                     \/ payout[r] = "otp")

\* What the finalizer's comment promises: a replayed webhook can never
\* double-credit (escrow.ts:654).  The code does not keep it.
NeverDoubleCredit == \A r \in Ref : credits[r] <= 1

\* What the sweep's comment promises: it never refunds on an unknown provider
\* state (staleTransferSweep.ts:18).  The code does not keep it.
SweepRefundsNoLivePayout ==
  \A r \in Ref : payout[r] = "paid" => "sweep" \notin creditors[r]

-----------------------------------------------------------------------------
(* What a payout promises *)

\* The rows the three unproven credits and the unguarded writes touched.
Excepted(r) == \/ r \in reopened \/ {"reject", "otp"} \cap creditors[r] # {}
               \/ "sweep" \in creditors[r] /\ RailOf[owner[r]] # "paystack"

\* What the merchant sees of a call's amount.
Fate(q) == LET r == RefOf[q] IN
           IF owner[r] # q THEN "home" ELSE IF Excepted(r) THEN "broken"
           ELSE IF creditors[r] # {} THEN IF payout[r] \in Live THEN "twice" ELSE "back"
           ELSE IF payout[r] = "paid" THEN "paid" ELSE "out"
DisbursementOfWallet == INSTANCE Disbursement WITH purse <- avail,
                                                   fate <- [q \in Request |-> Fate(q)]

\* Checks, debit, provider call, refund, webhooks and sweeps, however they
\* interleave and whichever of them die, implement a payout: one call of a
\* reference takes its amount, once, and it is paid or comes back, never both -
\* outside the exceptions the properties above name.
ImplementsDisbursement == DisbursementOfWallet!Spec

\* The wallet and what has left it add up to what there was, as long as no row is
\* excepted; the exceptions only ever leave the merchant with more.
Gone == {q \in Request : Fate(q) \in {"out", "paid", "broken"}}
WalletAddsUp ==
  /\ avail + SumFunctionOnSet(AmountOf, Gone) >= Funds
  /\ (\A q \in Request : Fate(q) # "broken") => avail + SumFunctionOnSet(AmountOf, Gone) = Funds
=============================================================================
