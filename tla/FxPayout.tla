------------------------------- MODULE FxPayout -------------------------------
(***************************************************************************)
(* Cross-currency payouts and the outbox that delivers them                 *)
(* (server/services/fxPayouts.ts, paymentOutbox.ts).                        *)
(*                                                                          *)
(* A quote is accepted and executed: one transaction takes the gross from   *)
(* the merchant's wallet and enqueues the transfer.  Workers post it to the *)
(* Mojaloop switch, which later commits or aborts it; callbacks and the     *)
(* poller record the outcome, and give the money back after an abort.       *)
(*                                                                          *)
(* A worker stands for one row of one tick: a tick takes its rows in turn,  *)
(* each with what the tick's first SELECT read.  Expiry of a quote and the  *)
(* ten minutes of a stale claim may pass whenever: a tick stamps every      *)
(* claim with its own start, and fifty timeouts outlast ten minutes.        *)
(***************************************************************************)
EXTENDS Integers, FiniteSets

CONSTANTS Quote, Gross,   \* quotes, and what each takes from the wallet
          Funds,          \* the wallet's balance
          Requester,      \* execute requests in flight
          Worker,         \* rows of outbox ticks in flight
          Listener,       \* callbacks and polls in flight
          MaxAttempts,    \* MAX_PAYMENT_OUTBOX_ATTEMPTS
          MaxCrash        \* bound on the processes that die

ASSUME WalletAssumption == Gross \in [Quote -> Nat \ {0}] /\ Funds \in Nat
ASSUME BoundAssumption == MaxAttempts \in Nat \ {0} /\ MaxCrash \in Nat
ASSUME ProcessAssumption == /\ Requester \cap Worker = {}
                            /\ Requester \cap Listener = {}
                            /\ Worker \cap Listener = {}

VARIABLES status, state,  \* of each quote: fx_quotes.status, metadata.transferState
          balance,        \* merchant_wallets.available_balance
          debit, refund,  \* quotes with a wallet entry fxpayout:<id>, fxrefund:<id>
          leg, attempts,  \* of each quote: payment_outbox.status, .attempts
          switch,         \* the switch's state of each transfer
          wire,           \* transfers posted and given up on, that may still arrive
          job,            \* each process: where it is and what it carries
          failures,       \* history: deliveries of each leg that failed, or that the
                          \* worker could not record, up to MaxAttempts
          overrun,        \* legs reaped from under a worker still at it
          crashes

wallet  == <<balance, debit, refund>>
quote   == <<status, state>>
outbox  == <<leg, attempts>>
rail    == <<switch, wire>>
history == <<failures, overrun, crashes>>
vars    == <<quote, wallet, outbox, rail, job, history>>

Process == Requester \cup Worker \cup Listener
Idle == [at |-> "idle"]
Become(w, j) == job' = [job EXCEPT ![w] = j]
Stop(w) == Become(w, Idle)

Init == /\ status = [q \in Quote |-> "none"]
        /\ state = [q \in Quote |-> "none"]
        /\ balance = Funds
        /\ debit = {} /\ refund = {}
        /\ leg = [q \in Quote |-> "none"]
        /\ attempts = [q \in Quote |-> 0]
        /\ switch = [q \in Quote |-> "none"]
        /\ wire = {}
        /\ job = [w \in Process |-> Idle]
        /\ failures = [q \in Quote |-> 0]
        /\ overrun = {} /\ crashes = 0

-----------------------------------------------------------------------------
\* The wallet's other debits, which are conditional too (Withdrawal).
Spend ==
  /\ balance > 0
  /\ balance' = balance - 1
  /\ UNCHANGED <<quote, debit, refund, outbox, rail, job, history>>

(* Quotes *)

CreateQuote(q) ==
  /\ status[q] = "none"
  /\ status' = [status EXCEPT ![q] = "quoted"]
  /\ UNCHANGED <<state, wallet, outbox, rail, job, history>>

\* The guarded quoted -> accepted.
AcceptQuote(q) ==
  /\ status[q] = "quoted"
  /\ status' = [status EXCEPT ![q] = "accepted"]
  /\ UNCHANGED <<state, wallet, outbox, rail, job, history>>

\* The expiry sweep, and the same guarded write in accept and execute.
ExpireQuote(q) ==
  /\ status[q] \in {"quoted", "accepted"}
  /\ status' = [status EXCEPT ![q] = "expired"]
  /\ UNCHANGED <<state, wallet, outbox, rail, job, history>>

-----------------------------------------------------------------------------
(* executeFxQuoteTx *)

BeginExecute(e, q) ==
  /\ job[e] = Idle /\ status[q] = "accepted"
  /\ Become(e, [at |-> "execute", quote |-> q])
  /\ UNCHANGED <<quote, wallet, outbox, rail, history>>

\* The conditional debit.
Unchecked(q) == TRUE
Covered(q) == balance >= Gross[q]

\* The transaction: the quote is consumed, the gross debited and the transfer
\* enqueued.  The caller may take a commit for a failure: the connection drops, or
\* the SELECT that follows inside the same try does.
ExecuteQuote(e) ==
  LET q == job[e].quote IN
  /\ job[e].at = "execute"
  /\ status[q] = "accepted" /\ Covered(q)
  /\ status' = [status EXCEPT ![q] = "executed"]
  /\ balance' = balance - Gross[q]
  /\ debit' = debit \cup {q}
  /\ leg' = [leg EXCEPT ![q] = "pending"]
  /\ Stop(e) \/ Become(e, [at |-> "give_up", quote |-> q])
  /\ UNCHANGED <<state, refund, attempts, rail, history>>

\* It rolls back: refused, for want of funds or another's consume, or on an error.
ExecuteFails(e) ==
  LET q == job[e].quote IN
  /\ job[e].at = "execute"
  /\ \/ (status[q] # "accepted" \/ ~Covered(q)) /\ Stop(e)
     \/ Become(e, [at |-> "give_up", quote |-> q])
  /\ UNCHANGED <<quote, wallet, outbox, rail, history>>

Whatever(q) == TRUE
StillAccepted(q) == status[q] = "accepted"

\* After an error the quote is failed, if it is still accepted.
GiveUp(e) ==
  LET q == job[e].quote IN
  /\ job[e].at = "give_up"
  /\ status' = IF StillAccepted(q) THEN [status EXCEPT ![q] = "failed"] ELSE status
  /\ Stop(e)
  /\ UNCHANGED <<state, wallet, outbox, rail, history>>

-----------------------------------------------------------------------------
(* processPaymentOutbox *)

AtWork(q) == {w \in Worker : job[w].at \in {"deliver", "record"} /\ job[w].quote = q}

\* A claim that looks stale goes back to pending, its worker dead or only slow.
Never(q) == FALSE
Stale(q) == leg[q] = "delivering"

Reap(q) ==
  /\ Stale(q)
  /\ leg' = [leg EXCEPT ![q] = "pending"]
  /\ overrun' = IF AtWork(q) = {} THEN overrun ELSE overrun \cup {q}
  /\ UNCHANGED <<quote, wallet, attempts, rail, job, failures, crashes>>

\* The SELECT of a tick, which reads the attempts made so far.
SelectLeg(w, q) ==
  /\ job[w] = Idle /\ leg[q] = "pending"
  /\ Become(w, [at |-> "claim", quote |-> q, tried |-> attempts[q]])
  /\ UNCHANGED <<quote, wallet, outbox, rail, history>>

AnyRow(q) == TRUE
Claimable(q) == leg[q] = "pending"

\* The guarded pending -> delivering; its loser goes on to its next row.
ClaimLeg(w) ==
  LET q == job[w].quote IN
  /\ job[w].at = "claim"
  /\ IF Claimable(q) THEN /\ leg' = [leg EXCEPT ![q] = "delivering"]
                          /\ Become(w, [job[w] EXCEPT !.at = "deliver"])
     ELSE Stop(w) /\ UNCHANGED leg
  /\ UNCHANGED <<quote, wallet, attempts, rail, history>>

\* mojaloopTransfer under the quote's own transferId: the switch answers that it has
\* the transfer, or refuses it (a 4xx, or no rail configured), or there is no
\* answer, and the request may arrive later or not at all.
Deliver(w) ==
  LET q == job[w].quote
      answered(r) == Become(w, [at |-> "record", quote |-> q, tried |-> job[w].tried,
                                result |-> r]) IN
  /\ job[w].at = "deliver"
  /\ \/ /\ answered("sent")
        /\ switch' = [switch EXCEPT ![q] = IF @ = "none" THEN "reserved" ELSE @]
        /\ UNCHANGED wire
     \/ answered("refused") /\ UNCHANGED rail
     \/ /\ answered("error")
        /\ UNCHANGED switch
        /\ wire' = wire \cup {q} \/ UNCHANGED wire
  /\ UNCHANGED <<quote, wallet, outbox, history>>

ExhaustedEarly(n) == n + 1 >= MaxAttempts
Exhausted(n) == n >= MaxAttempts

HopesForBest(r, n) == IF r = "refused" THEN "failed" ELSE "delivered"
Recorded(r, n) == IF r = "sent" THEN "delivered"
                  ELSE IF r = "refused" THEN "failed"
                  ELSE IF Exhausted(n) THEN "dead" ELSE "pending"

\* The outcome is written whatever became of the row in the meantime, and the
\* attempts are counted from those the tick read.
RecordAs(w, r) ==
  LET q == job[w].quote
      n == job[w].tried + 1 IN
  /\ leg' = [leg EXCEPT ![q] = Recorded(r, n)]
  /\ attempts' = IF r = "sent" THEN attempts ELSE [attempts EXCEPT ![q] = n]
  /\ failures' = IF r = "error" /\ failures[q] < MaxAttempts
                 THEN [failures EXCEPT ![q] = @ + 1] ELSE failures
  /\ Stop(w)
  /\ UNCHANGED <<quote, wallet, rail, overrun, crashes>>

\* The UPDATE to delivered shares its try with the delivery: when it fails, a transfer
\* the switch has taken is caught as one more failed attempt.
RecordDelivery(w) ==
  /\ job[w].at = "record"
  /\ \/ RecordAs(w, job[w].result)
     \/ job[w].result = "sent" /\ RecordAs(w, "error")

-----------------------------------------------------------------------------
(* The switch *)

\* A request its sender has given up on arrives; a transferId it knows changes nothing.
LateArrival(q) ==
  /\ q \in wire
  /\ wire' = wire \ {q}
  /\ switch' = [switch EXCEPT ![q] = IF @ = "none" THEN "reserved" ELSE @]
  /\ UNCHANGED <<quote, wallet, outbox, job, history>>

\* The transfer commits, or it aborts: the payee refuses it or its expiration passes.
SwitchEnds(q) ==
  /\ switch[q] = "reserved"
  /\ \E s \in {"committed", "aborted"} : switch' = [switch EXCEPT ![q] = s]
  /\ UNCHANGED <<quote, wallet, outbox, wire, job, history>>

-----------------------------------------------------------------------------
(* handleFxTransferCallback and pollFxTransfers *)

\* What a poll makes of the switch's answer: a transfer the switch does not know, or
\* has not ended, tells nothing.
SilenceIsAbort(q) == IF switch[q] = "committed" THEN "committed" ELSE "aborted"
Answer(q) == switch[q]

\* A callback, late or repeated, or the poller that makes up for a lost one, finds
\* the quote executed and its transfer not yet settled; else it changes nothing.
Hear(l, q) ==
  /\ job[l] = Idle
  /\ status[q] = "executed" /\ state[q] = "none"
  /\ Answer(q) \in {"committed", "aborted"}
  /\ Become(l, [at |-> Answer(q), quote |-> q])
  /\ UNCHANGED <<quote, wallet, outbox, rail, history>>

\* The guarded record of a fulfilled transfer.
Fulfil(l) ==
  LET q == job[l].quote IN
  /\ job[l].at = "committed"
  /\ state' = IF status[q] = "executed" /\ state[q] = "none"
              THEN [state EXCEPT ![q] = "fulfilled"] ELSE state
  /\ Stop(l)
  /\ UNCHANGED <<status, wallet, outbox, rail, history>>

\* The compensating transaction: the credit, its entry (unique) and the guarded
\* executed -> failed, or none of them.
Compensable(q) == status[q] = "executed" /\ q \notin refund

Compensate(l) ==
  LET q == job[l].quote IN
  /\ job[l].at = "aborted"
  /\ IF Compensable(q)
     THEN /\ balance' = balance + Gross[q]
          /\ refund' = refund \cup {q}
          /\ status' = [status EXCEPT ![q] = "failed"]
          /\ state' = [state EXCEPT ![q] = "aborted"]
     ELSE UNCHANGED <<balance, refund, quote>>
  /\ Stop(l)
  /\ UNCHANGED <<debit, outbox, rail, history>>

-----------------------------------------------------------------------------
\* A process dies, or the statement it is at fails and its caller gives up.
Crash(w) ==
  /\ job[w] # Idle /\ crashes < MaxCrash
  /\ Stop(w)
  /\ crashes' = crashes + 1
  /\ UNCHANGED <<quote, wallet, outbox, rail, failures, overrun>>

ExecuteStep(e) == ExecuteQuote(e) \/ ExecuteFails(e) \/ GiveUp(e)
DeliverStep(w) == ClaimLeg(w) \/ Deliver(w) \/ RecordDelivery(w)
SettleStep(l)  == Fulfil(l) \/ Compensate(l)

Next == \/ Spend
        \/ \E q \in Quote : \/ CreateQuote(q) \/ AcceptQuote(q) \/ ExpireQuote(q)
                            \/ Reap(q) \/ LateArrival(q) \/ SwitchEnds(q)
        \/ \E e \in Requester : ExecuteStep(e) \/ \E q \in Quote : BeginExecute(e, q)
        \/ \E w \in Worker : DeliverStep(w) \/ \E q \in Quote : SelectLeg(w, q)
        \/ \E l \in Listener : SettleStep(l) \/ \E q \in Quote : Hear(l, q)
        \/ \E w \in Process : Crash(w)

Spec == Init /\ [][Next]_vars

\* The cron route reaps and visits every pending row at each tick, and polls every
\* quote that is not settled; a statement that is begun ends; the switch ends what
\* it has reserved.  Merchants need do nothing, and callbacks may all be lost.
Fairness ==
  /\ \A q \in Quote : /\ WF_vars(Reap(q))
                      /\ SF_vars(\E w \in Worker : SelectLeg(w, q))
                      /\ SF_vars(\E l \in Listener : Hear(l, q))
                      /\ WF_vars(SwitchEnds(q))
  /\ \A w \in Worker : WF_vars(DeliverStep(w))
  /\ \A l \in Listener : WF_vars(SettleStep(l))

FairSpec == Spec /\ Fairness

-----------------------------------------------------------------------------
(* Properties *)

ExecuteJob == [at : {"execute", "give_up"}, quote : Quote]
DeliverJob == [at : {"claim", "deliver"}, quote : Quote, tried : Nat] \cup
              [at : {"record"}, quote : Quote, tried : Nat,
               result : {"sent", "refused", "error"}]
SettleJob  == [at : {"committed", "aborted"}, quote : Quote]

\* The types of the variables; that the balance is a natural number says that no
\* payout takes more than the wallet's other debits leave in it.
TypeOK ==
  /\ status \in [Quote -> {"none", "quoted", "accepted", "executed", "expired", "failed"}]
  /\ state \in [Quote -> {"none", "fulfilled", "aborted"}]
  /\ balance \in Nat
  /\ debit \subseteq Quote /\ refund \subseteq Quote
  /\ leg \in [Quote -> {"none", "pending", "delivering", "delivered", "failed", "dead"}]
  /\ attempts \in [Quote -> Nat]
  /\ switch \in [Quote -> {"none", "reserved", "committed", "aborted"}]
  /\ wire \subseteq Quote
  /\ job \in [Process -> {Idle} \cup ExecuteJob \cup DeliverJob \cup SettleJob]
  /\ \A e \in Requester : job[e] \in {Idle} \cup ExecuteJob
  /\ \A w \in Worker : job[w] \in {Idle} \cup DeliverJob
  /\ \A l \in Listener : job[l] \in {Idle} \cup SettleJob
  /\ failures \in [Quote -> Nat]
  /\ overrun \subseteq Quote
  /\ crashes \in 0..MaxCrash

\* What the merchant sees of a quote's gross.
Fate(q) == IF switch[q] = "committed" THEN IF q \in refund THEN "twice" ELSE "paid"
           ELSE IF q \in refund THEN "back" ELSE IF q \in debit THEN "out" ELSE "home"
PayoutOfWallet == INSTANCE Payout WITH purse <- balance, fate <- [q \in Quote |-> Fate(q)]

\* Execution, the outbox's repeated deliveries, the switch, and callbacks and polls
\* that race each other implement a payout: the money leaves once, and reaches the
\* payee or comes back, never both.
ImplementsPayout == PayoutOfWallet!Spec

\* A quote that failed or never executed holds none of the merchant's money: a
\* failure is recorded only with the refund or when nothing was taken, although the
\* request that records it may have committed without knowing.
ClosedQuoteHoldsNothing ==
  \A q \in Quote : status[q] # "executed" => /\ q \in debit => q \in refund
                                             /\ status[q] # "failed" => leg[q] = "none"

\* Claim-first: one worker at a time delivers a leg, unless the leg was reaped from
\* under a worker that was only slow.
OneDeliverer == \A q \in Quote \ overrun : Cardinality(AtWork(q)) <= 1

\* A leg recorded as delivered is known to the switch: no late write of a worker
\* that lost its claim says so of a transfer the switch never had.
DeliveredReachedSwitch == \A q \in Quote : leg[q] = "delivered" => switch[q] # "none"

\* A leg is given up as dead only after MaxAttempts deliveries that failed or could
\* not be recorded, although ticks count from attempts they read earlier and overwrite
\* each other's counts.  (The switch may have taken a dead leg all the same: a failed
\* delivery that arrives late, or one that succeeded and was not recorded.)
DeadWasTried == \A q \in Quote : leg[q] = "dead" => failures[q] >= MaxAttempts

\* Every payout taken from a wallet ends: the transfer is recorded as fulfilled or
\* the money is returned, or the leg was refused or given up (which pages an
\* operator) without the switch having heard of it.
Ended(q) == \/ state[q] = "fulfilled" \/ q \in refund
            \/ leg[q] \in {"failed", "dead"} /\ switch[q] = "none"
PayoutEnds == \A q \in Quote : q \in debit ~> Ended(q)
=============================================================================
