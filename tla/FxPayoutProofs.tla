---------------------------- MODULE FxPayoutProofs ----------------------------
(***************************************************************************)
(* Proofs of the safety properties of FxPayout, and that it implements      *)
(* Payout, for any number of quotes, requests, workers and listeners.       *)
(***************************************************************************)
EXTENDS FxPayout, FiniteSetTheorems, TLAPS

\* What has happened to a quote before and after its debit.
QuoteShape ==
  /\ debit = {q \in Quote : status[q] = "executed" \/ q \in refund}
  /\ \A q \in Quote : q \in refund => status[q] = "failed"
  /\ \A q \in Quote \ debit : /\ leg[q] = "none" /\ attempts[q] = 0
                              /\ switch[q] = "none" /\ q \notin wire
  /\ \A q \in refund : switch[q] = "aborted"

\* What each process knows of the quote it carries.
JobShape ==
  /\ \A w \in Worker : job[w] # Idle =>
        /\ job[w].quote \in debit
        /\ job[w].at = "record" /\ job[w].result = "sent" => switch[job[w].quote] # "none"
  /\ \A l \in Listener : job[l] # Idle =>
        job[l].quote \in debit /\ switch[job[l].quote] = job[l].at

\* A leg still to be delivered has failed, or gone unrecorded, at least as often as it
\* is counted to have, and as the ticks that read that count take it to have.
CountShape ==
  /\ \A q \in Quote : failures[q] <= MaxAttempts
  /\ \A q \in Quote : leg[q] \in {"none", "pending", "delivering"} =>
        attempts[q] <= failures[q] /\ attempts[q] < MaxAttempts
  /\ \A w \in Worker : job[w] # Idle =>
        job[w].tried <= failures[job[w].quote] /\ job[w].tried < MaxAttempts
  /\ \A q \in Quote : leg[q] = "dead" => failures[q] = MaxAttempts

\* The claim is a lock on a leg that nobody reaped from under its worker.
Busy(w, q) == job[w].at \in {"deliver", "record"} /\ job[w].quote = q
ClaimShape ==
  \A q \in Quote \ overrun : \A w \in Worker : Busy(w, q) =>
    leg[q] = "delivering" /\ \A v \in Worker : Busy(v, q) => v = w


\* Every step keeps the types.
LEMMA TypeStep == TypeOK /\ [Next]_vars => TypeOK'
<1> SUFFICES ASSUME TypeOK, [Next]_vars PROVE TypeOK'
  OBVIOUS
<1> USE WalletAssumption, BoundAssumption, ProcessAssumption
        DEF TypeOK, ExecuteJob, DeliverJob, SettleJob, Idle, Process, Become, Stop,
        quote, wallet, outbox, rail, history
<1>1. CASE Spend
  BY <1>1 DEF Spend
<1>2. ASSUME NEW q \in Quote, CreateQuote(q) PROVE TypeOK'
  BY <1>2 DEF CreateQuote
<1>3. ASSUME NEW q \in Quote, AcceptQuote(q) PROVE TypeOK'
  BY <1>3 DEF AcceptQuote
<1>4. ASSUME NEW q \in Quote, ExpireQuote(q) PROVE TypeOK'
  BY <1>4 DEF ExpireQuote
<1>5. ASSUME NEW q \in Quote, Reap(q) PROVE TypeOK'
  BY <1>5 DEF Reap, Stale
<1>6. ASSUME NEW q \in Quote, LateArrival(q) PROVE TypeOK'
  BY <1>6 DEF LateArrival
<1>7. ASSUME NEW q \in Quote, SwitchEnds(q) PROVE TypeOK'
  BY <1>7 DEF SwitchEnds
<1>8. ASSUME NEW e \in Requester, ExecuteQuote(e) PROVE TypeOK'
  BY <1>8 DEF ExecuteQuote, Covered
<1>9. ASSUME NEW e \in Requester, ExecuteFails(e) PROVE TypeOK'
  BY <1>9 DEF ExecuteFails
<1>10. ASSUME NEW e \in Requester, GiveUp(e) PROVE TypeOK'
  BY <1>10 DEF GiveUp, StillAccepted
<1>11. ASSUME NEW e \in Requester, NEW q \in Quote, BeginExecute(e, q) PROVE TypeOK'
  BY <1>11 DEF BeginExecute
<1>12. ASSUME NEW w \in Worker, ClaimLeg(w) PROVE TypeOK'
  BY <1>12 DEF ClaimLeg, Claimable
<1>13. ASSUME NEW w \in Worker, Deliver(w) PROVE TypeOK'
  BY <1>13 DEF Deliver
<1>14. ASSUME NEW w \in Worker, RecordDelivery(w) PROVE TypeOK'
  BY <1>14 DEF RecordDelivery, RecordAs, Recorded, Exhausted
<1>15. ASSUME NEW w \in Worker, NEW q \in Quote, SelectLeg(w, q) PROVE TypeOK'
  BY <1>15 DEF SelectLeg
<1>16. ASSUME NEW l \in Listener, Fulfil(l) PROVE TypeOK'
  BY <1>16 DEF Fulfil
<1>17. ASSUME NEW l \in Listener, Compensate(l) PROVE TypeOK'
  BY <1>17 DEF Compensate, Compensable
<1>18. ASSUME NEW l \in Listener, NEW q \in Quote, Hear(l, q) PROVE TypeOK'
  BY <1>18 DEF Hear, Answer
<1>19. ASSUME NEW w \in Process, Crash(w) PROVE TypeOK'
  BY <1>19 DEF Crash
<1>20. CASE UNCHANGED vars
  BY <1>20 DEF vars
<1> HIDE DEF TypeOK, ExecuteJob, DeliverJob, SettleJob, Idle, Process, Become, Stop,
        wallet, outbox, rail, history
<1> QED
  BY <1>1, <1>2, <1>3, <1>4, <1>5, <1>6, <1>7, <1>8, <1>9, <1>10, <1>11, <1>12, <1>13,
     <1>14, <1>15, <1>16, <1>17, <1>18, <1>19, <1>20 DEF Next, ExecuteStep,
     DeliverStep, SettleStep


\* Every step keeps what has happened to each quote.
LEMMA QuoteStep == TypeOK /\ QuoteShape /\ JobShape /\ [Next]_vars => QuoteShape'
<1> SUFFICES ASSUME TypeOK, QuoteShape, JobShape, [Next]_vars PROVE QuoteShape'
  OBVIOUS
<1> USE ProcessAssumption
        DEF TypeOK, QuoteShape, JobShape, ExecuteJob, DeliverJob, SettleJob, Idle,
        Become, Stop, Process, quote, wallet, outbox, rail, history
<1>1. CASE Spend
  BY <1>1 DEF Spend
<1>2. ASSUME NEW q \in Quote, CreateQuote(q) PROVE QuoteShape'
  BY <1>2 DEF CreateQuote
<1>3. ASSUME NEW q \in Quote, AcceptQuote(q) PROVE QuoteShape'
  BY <1>3 DEF AcceptQuote
<1>4. ASSUME NEW q \in Quote, ExpireQuote(q) PROVE QuoteShape'
  BY <1>4 DEF ExpireQuote
<1>5. ASSUME NEW q \in Quote, Reap(q) PROVE QuoteShape'
  BY <1>5 DEF Reap, Stale
<1>6. ASSUME NEW q \in Quote, LateArrival(q) PROVE QuoteShape'
  BY <1>6 DEF LateArrival
<1>7. ASSUME NEW q \in Quote, SwitchEnds(q) PROVE QuoteShape'
  BY <1>7 DEF SwitchEnds
<1>8. ASSUME NEW e \in Requester, ExecuteQuote(e) PROVE QuoteShape'
  BY <1>8 DEF ExecuteQuote, Covered
<1>9. ASSUME NEW e \in Requester, ExecuteFails(e) PROVE QuoteShape'
  BY <1>9 DEF ExecuteFails
<1>10. ASSUME NEW e \in Requester, GiveUp(e) PROVE QuoteShape'
  BY <1>10 DEF GiveUp, StillAccepted
<1>11. ASSUME NEW e \in Requester, NEW q \in Quote, BeginExecute(e, q) PROVE QuoteShape'
  BY <1>11 DEF BeginExecute
<1>12. ASSUME NEW w \in Worker, ClaimLeg(w) PROVE QuoteShape'
  BY <1>12 DEF ClaimLeg, Claimable
<1>13. ASSUME NEW w \in Worker, Deliver(w) PROVE QuoteShape'
  BY <1>13 DEF Deliver
<1>14. ASSUME NEW w \in Worker, RecordDelivery(w) PROVE QuoteShape'
  BY <1>14 DEF RecordDelivery, RecordAs, Recorded, Exhausted
<1>15. ASSUME NEW w \in Worker, NEW q \in Quote, SelectLeg(w, q) PROVE QuoteShape'
  BY <1>15 DEF SelectLeg
<1>16. ASSUME NEW l \in Listener, Fulfil(l) PROVE QuoteShape'
  BY <1>16 DEF Fulfil
<1>17. ASSUME NEW l \in Listener, Compensate(l) PROVE QuoteShape'
  BY <1>17 DEF Compensate, Compensable
<1>18. ASSUME NEW l \in Listener, NEW q \in Quote, Hear(l, q) PROVE QuoteShape'
  BY <1>18 DEF Hear, Answer
<1>19. ASSUME NEW w \in Process, Crash(w) PROVE QuoteShape'
  BY <1>19 DEF Crash
<1>20. CASE UNCHANGED vars
  BY <1>20 DEF vars
<1> HIDE DEF TypeOK, QuoteShape, JobShape, ExecuteJob, DeliverJob, SettleJob, Idle,
        Become, Stop, Process, quote, wallet, outbox, rail, history
<1> QED
  BY <1>1, <1>2, <1>3, <1>4, <1>5, <1>6, <1>7, <1>8, <1>9, <1>10, <1>11, <1>12, <1>13,
     <1>14, <1>15, <1>16, <1>17, <1>18, <1>19, <1>20 DEF Next, ExecuteStep,
     DeliverStep, SettleStep


\* Every step keeps what the processes know.
LEMMA JobStep == TypeOK /\ QuoteShape /\ JobShape /\ [Next]_vars => JobShape'
<1> SUFFICES ASSUME TypeOK, QuoteShape, JobShape, [Next]_vars PROVE JobShape'
  OBVIOUS
<1> USE ProcessAssumption
        DEF TypeOK, QuoteShape, JobShape, ExecuteJob, DeliverJob, SettleJob, Idle,
        Become, Stop, Process, quote, wallet, outbox, rail, history
<1>1. CASE Spend
  BY <1>1 DEF Spend
<1>2. ASSUME NEW q \in Quote, CreateQuote(q) PROVE JobShape'
  BY <1>2 DEF CreateQuote
<1>3. ASSUME NEW q \in Quote, AcceptQuote(q) PROVE JobShape'
  BY <1>3 DEF AcceptQuote
<1>4. ASSUME NEW q \in Quote, ExpireQuote(q) PROVE JobShape'
  BY <1>4 DEF ExpireQuote
<1>5. ASSUME NEW q \in Quote, Reap(q) PROVE JobShape'
  BY <1>5 DEF Reap, Stale
<1>6. ASSUME NEW q \in Quote, LateArrival(q) PROVE JobShape'
  BY <1>6 DEF LateArrival
<1>7. ASSUME NEW q \in Quote, SwitchEnds(q) PROVE JobShape'
  BY <1>7 DEF SwitchEnds
<1>8. ASSUME NEW e \in Requester, ExecuteQuote(e) PROVE JobShape'
  BY <1>8 DEF ExecuteQuote, Covered
<1>9. ASSUME NEW e \in Requester, ExecuteFails(e) PROVE JobShape'
  BY <1>9 DEF ExecuteFails
<1>10. ASSUME NEW e \in Requester, GiveUp(e) PROVE JobShape'
  BY <1>10 DEF GiveUp, StillAccepted
<1>11. ASSUME NEW e \in Requester, NEW q \in Quote, BeginExecute(e, q) PROVE JobShape'
  BY <1>11 DEF BeginExecute
<1>12. ASSUME NEW w \in Worker, ClaimLeg(w) PROVE JobShape'
  BY <1>12 DEF ClaimLeg, Claimable
<1>13. ASSUME NEW w \in Worker, Deliver(w) PROVE JobShape'
  BY <1>13 DEF Deliver
<1>14. ASSUME NEW w \in Worker, RecordDelivery(w) PROVE JobShape'
  BY <1>14 DEF RecordDelivery, RecordAs, Recorded, Exhausted
<1>15. ASSUME NEW w \in Worker, NEW q \in Quote, SelectLeg(w, q) PROVE JobShape'
  BY <1>15 DEF SelectLeg
<1>16. ASSUME NEW l \in Listener, Fulfil(l) PROVE JobShape'
  BY <1>16 DEF Fulfil
<1>17. ASSUME NEW l \in Listener, Compensate(l) PROVE JobShape'
  BY <1>17 DEF Compensate, Compensable
<1>18. ASSUME NEW l \in Listener, NEW q \in Quote, Hear(l, q) PROVE JobShape'
  BY <1>18 DEF Hear, Answer
<1>19. ASSUME NEW w \in Process, Crash(w) PROVE JobShape'
  BY <1>19 DEF Crash
<1>20. CASE UNCHANGED vars
  BY <1>20 DEF vars
<1> HIDE DEF TypeOK, QuoteShape, JobShape, ExecuteJob, DeliverJob, SettleJob, Idle,
        Become, Stop, Process, quote, wallet, outbox, rail, history
<1> QED
  BY <1>1, <1>2, <1>3, <1>4, <1>5, <1>6, <1>7, <1>8, <1>9, <1>10, <1>11, <1>12, <1>13,
     <1>14, <1>15, <1>16, <1>17, <1>18, <1>19, <1>20 DEF Next, ExecuteStep,
     DeliverStep, SettleStep


\* Every step keeps the counts of failures.
LEMMA CountStep == TypeOK /\ JobShape /\ QuoteShape /\ CountShape /\ [Next]_vars => CountShape'
<1> SUFFICES ASSUME TypeOK, JobShape, QuoteShape, CountShape, [Next]_vars PROVE CountShape'
  OBVIOUS
<1> USE ProcessAssumption, BoundAssumption
        DEF TypeOK, QuoteShape, JobShape, CountShape, ExecuteJob, DeliverJob, SettleJob,
        Idle, Become, Stop, Process, quote, wallet, outbox, rail, history
<1>1. CASE Spend
  BY <1>1 DEF Spend
<1>2. ASSUME NEW q \in Quote, CreateQuote(q) PROVE CountShape'
  BY <1>2 DEF CreateQuote
<1>3. ASSUME NEW q \in Quote, AcceptQuote(q) PROVE CountShape'
  BY <1>3 DEF AcceptQuote
<1>4. ASSUME NEW q \in Quote, ExpireQuote(q) PROVE CountShape'
  BY <1>4 DEF ExpireQuote
<1>5. ASSUME NEW q \in Quote, Reap(q) PROVE CountShape'
  BY <1>5 DEF Reap, Stale
<1>6. ASSUME NEW q \in Quote, LateArrival(q) PROVE CountShape'
  BY <1>6 DEF LateArrival
<1>7. ASSUME NEW q \in Quote, SwitchEnds(q) PROVE CountShape'
  BY <1>7 DEF SwitchEnds
<1>8. ASSUME NEW e \in Requester, ExecuteQuote(e) PROVE CountShape'
  BY <1>8 DEF ExecuteQuote, Covered
<1>9. ASSUME NEW e \in Requester, ExecuteFails(e) PROVE CountShape'
  BY <1>9 DEF ExecuteFails
<1>10. ASSUME NEW e \in Requester, GiveUp(e) PROVE CountShape'
  BY <1>10 DEF GiveUp, StillAccepted
<1>11. ASSUME NEW e \in Requester, NEW q \in Quote, BeginExecute(e, q) PROVE CountShape'
  BY <1>11 DEF BeginExecute
<1>12. ASSUME NEW w \in Worker, ClaimLeg(w) PROVE CountShape'
  BY <1>12 DEF ClaimLeg, Claimable
<1>13. ASSUME NEW w \in Worker, Deliver(w) PROVE CountShape'
  BY <1>13 DEF Deliver
<1>14. ASSUME NEW w \in Worker, RecordDelivery(w) PROVE CountShape'
  <2> DEFINE q == job[w].quote
  <2>0. PICK r \in {"sent", "refused", "error"} : RecordAs(w, r)
    BY <1>14 DEF RecordDelivery
  <2>1. /\ q \in Quote /\ job[w].tried \in Nat /\ job[w].result \in {"sent", "refused", "error"}
        /\ failures[q] \in Nat /\ failures[q] <= MaxAttempts
        /\ job[w].tried <= failures[q] /\ job[w].tried < MaxAttempts
    BY <1>14 DEF RecordDelivery, RecordAs
  <2>2. /\ failures' \in [Quote -> Nat]
        /\ \A p \in Quote : failures'[p] >= failures[p] /\ failures'[p] <= MaxAttempts
        /\ r = "error" => failures'[q] > job[w].tried
    BY <2>0, <2>1 DEF RecordAs
  <2>3. \A p \in Quote : leg'[p] \in {"none", "pending", "delivering"} =>
          attempts'[p] <= failures'[p] /\ attempts'[p] < MaxAttempts
    <3> SUFFICES ASSUME NEW p \in Quote, leg'[p] \in {"none", "pending", "delivering"}
                 PROVE  attempts'[p] <= failures'[p] /\ attempts'[p] < MaxAttempts
      OBVIOUS
    <3>1. CASE p = q
      <4>1. r = "error" /\ job[w].tried + 1 < MaxAttempts
        BY <2>0, <2>1, <3>1 DEF RecordAs, Recorded, Exhausted
      <4>2. attempts'[q] = job[w].tried + 1
        BY <2>0, <2>1, <4>1 DEF RecordAs
      <4>3. failures'[q] \in Nat
        BY <2>1, <2>2
      <4> QED
        BY <2>1, <2>2, <3>1, <4>1, <4>2, <4>3
    <3>2. CASE p # q
      <4>1. leg'[p] = leg[p] /\ attempts'[p] = attempts[p]
        BY <2>0, <3>2 DEF RecordAs
      <4>2. attempts[p] \in Nat /\ failures[p] \in Nat /\ failures'[p] \in Nat
        BY <2>2
      <4> QED
        BY <2>2, <4>1, <4>2
    <3> QED
      BY <3>1, <3>2
  <2>4. \A v \in Worker : job'[v] # Idle =>
          job'[v].tried <= failures'[job'[v].quote] /\ job'[v].tried < MaxAttempts
    <3> SUFFICES ASSUME NEW v \in Worker, job'[v] # Idle
                 PROVE  job'[v].tried <= failures'[job'[v].quote] /\ job'[v].tried < MaxAttempts
      OBVIOUS
    <3>1. job'[v] = job[v] /\ job[v].quote \in Quote /\ job[v].tried \in Nat
      BY <2>0 DEF RecordAs
    <3>2. failures[job[v].quote] \in Nat /\ failures'[job[v].quote] \in Nat
      BY <2>2, <3>1
    <3> QED
      BY <2>2, <3>1, <3>2
  <2>5. \A p \in Quote : leg'[p] = "dead" => failures'[p] = MaxAttempts
    <3> SUFFICES ASSUME NEW p \in Quote, leg'[p] = "dead" PROVE failures'[p] = MaxAttempts
      OBVIOUS
    <3>1. CASE p = q
      <4>1. r = "error" /\ job[w].tried + 1 >= MaxAttempts
        BY <2>0, <2>1, <3>1 DEF RecordAs, Recorded, Exhausted
      <4>2. failures'[q] \in Nat
        BY <2>1, <2>2
      <4> QED
        BY <2>1, <2>2, <3>1, <4>1, <4>2, BoundAssumption
    <3>2. CASE p # q
      <4>1. leg'[p] = leg[p] /\ failures[p] \in Nat /\ failures'[p] \in Nat
        BY <2>0, <2>2, <3>2 DEF RecordAs
      <4> QED
        BY <2>2, <4>1
    <3> QED
      BY <3>1, <3>2
  <2> QED
    BY <2>2, <2>3, <2>4, <2>5
<1>15. ASSUME NEW w \in Worker, NEW q \in Quote, SelectLeg(w, q) PROVE CountShape'
  BY <1>15 DEF SelectLeg
<1>16. ASSUME NEW l \in Listener, Fulfil(l) PROVE CountShape'
  BY <1>16 DEF Fulfil
<1>17. ASSUME NEW l \in Listener, Compensate(l) PROVE CountShape'
  BY <1>17 DEF Compensate, Compensable
<1>18. ASSUME NEW l \in Listener, NEW q \in Quote, Hear(l, q) PROVE CountShape'
  BY <1>18 DEF Hear, Answer
<1>19. ASSUME NEW w \in Process, Crash(w) PROVE CountShape'
  BY <1>19 DEF Crash
<1>20. CASE UNCHANGED vars
  BY <1>20 DEF vars
<1> HIDE DEF TypeOK, QuoteShape, JobShape, CountShape, ExecuteJob, DeliverJob,
        SettleJob, Idle, Become, Stop, Process, quote, wallet, outbox, rail, history
<1> QED
  BY <1>1, <1>2, <1>3, <1>4, <1>5, <1>6, <1>7, <1>8, <1>9, <1>10, <1>11, <1>12, <1>13,
     <1>14, <1>15, <1>16, <1>17, <1>18, <1>19, <1>20 DEF Next, ExecuteStep,
     DeliverStep, SettleStep


\* Every step keeps the claim exclusive.
LEMMA ClaimStep == TypeOK /\ QuoteShape /\ JobShape /\ ClaimShape /\ [Next]_vars => ClaimShape'
<1> SUFFICES ASSUME TypeOK, QuoteShape, JobShape, ClaimShape, [Next]_vars PROVE ClaimShape'
  OBVIOUS
<1> USE ProcessAssumption
        DEF TypeOK, JobShape, QuoteShape, ClaimShape, Busy, ExecuteJob, DeliverJob,
        SettleJob, Idle, Become, Stop, Process, quote, wallet, outbox, rail, history
<1>1. CASE Spend
  BY <1>1 DEF Spend
<1>2. ASSUME NEW q \in Quote, CreateQuote(q) PROVE ClaimShape'
  BY <1>2 DEF CreateQuote
<1>3. ASSUME NEW q \in Quote, AcceptQuote(q) PROVE ClaimShape'
  BY <1>3 DEF AcceptQuote
<1>4. ASSUME NEW q \in Quote, ExpireQuote(q) PROVE ClaimShape'
  BY <1>4 DEF ExpireQuote
<1>5. ASSUME NEW q \in Quote, Reap(q) PROVE ClaimShape'
  BY <1>5 DEF Reap, Stale, AtWork
<1>6. ASSUME NEW q \in Quote, LateArrival(q) PROVE ClaimShape'
  BY <1>6 DEF LateArrival
<1>7. ASSUME NEW q \in Quote, SwitchEnds(q) PROVE ClaimShape'
  BY <1>7 DEF SwitchEnds
<1>8. ASSUME NEW e \in Requester, ExecuteQuote(e) PROVE ClaimShape'
  BY <1>8 DEF ExecuteQuote, Covered
<1>9. ASSUME NEW e \in Requester, ExecuteFails(e) PROVE ClaimShape'
  BY <1>9 DEF ExecuteFails
<1>10. ASSUME NEW e \in Requester, GiveUp(e) PROVE ClaimShape'
  BY <1>10 DEF GiveUp, StillAccepted
<1>11. ASSUME NEW e \in Requester, NEW q \in Quote, BeginExecute(e, q) PROVE ClaimShape'
  BY <1>11 DEF BeginExecute
<1>12. ASSUME NEW w \in Worker, ClaimLeg(w) PROVE ClaimShape'
  BY <1>12 DEF ClaimLeg, Claimable
<1>13. ASSUME NEW w \in Worker, Deliver(w) PROVE ClaimShape'
  BY <1>13 DEF Deliver
<1>14. ASSUME NEW w \in Worker, RecordDelivery(w) PROVE ClaimShape'
  BY <1>14 DEF RecordDelivery, RecordAs, Recorded, Exhausted
<1>15. ASSUME NEW w \in Worker, NEW q \in Quote, SelectLeg(w, q) PROVE ClaimShape'
  BY <1>15 DEF SelectLeg
<1>16. ASSUME NEW l \in Listener, Fulfil(l) PROVE ClaimShape'
  BY <1>16 DEF Fulfil
<1>17. ASSUME NEW l \in Listener, Compensate(l) PROVE ClaimShape'
  BY <1>17 DEF Compensate, Compensable
<1>18. ASSUME NEW l \in Listener, NEW q \in Quote, Hear(l, q) PROVE ClaimShape'
  BY <1>18 DEF Hear, Answer
<1>19. ASSUME NEW w \in Process, Crash(w) PROVE ClaimShape'
  BY <1>19 DEF Crash
<1>20. CASE UNCHANGED vars
  BY <1>20 DEF vars
<1> HIDE DEF Busy, ExecuteJob, DeliverJob, SettleJob, Idle, Become, Stop, Process,
        quote, wallet, outbox, rail, history
<1> QED
  BY <1>1, <1>2, <1>3, <1>4, <1>5, <1>6, <1>7, <1>8, <1>9, <1>10, <1>11, <1>12, <1>13,
     <1>14, <1>15, <1>16, <1>17, <1>18, <1>19, <1>20 DEF Next, ExecuteStep,
     DeliverStep, SettleStep


-----------------------------------------------------------------------------
\* The inductive invariant.
IInv == TypeOK /\ QuoteShape /\ JobShape /\ CountShape /\ ClaimShape

\* The inductive invariant holds always.
LEMMA Inductive == Spec => []IInv
<1>1. Init => IInv
  BY WalletAssumption, BoundAssumption, ProcessAssumption
     DEF Init, IInv, TypeOK, QuoteShape, JobShape, CountShape, ClaimShape, Busy, Idle, Process
<1>2. IInv /\ [Next]_vars => IInv'
  BY TypeStep, QuoteStep, JobStep, CountStep, ClaimStep DEF IInv
<1> QED
  BY <1>1, <1>2, PTL DEF Spec

\* The variables keep their types; the wallet is never overdrawn.
THEOREM TypeCorrect == Spec => []TypeOK
<1>1. IInv => TypeOK
  BY DEF IInv
<1> QED
  BY <1>1, Inductive, PTL

\* A quote that failed or never executed holds none of the merchant's money.
THEOREM ClosedQuotesHoldNothing == Spec => []ClosedQuoteHoldsNothing
<1>1. IInv => ClosedQuoteHoldsNothing
  BY DEF IInv, TypeOK, QuoteShape, ClosedQuoteHoldsNothing
<1> QED
  BY <1>1, Inductive, PTL

\* The claim admits one worker at a time to a leg nobody reaped from under one.
THEOREM DelivererIsAlone == Spec => []OneDeliverer
<1>1. IInv => OneDeliverer
  <2> SUFFICES ASSUME ClaimShape, NEW q \in Quote \ overrun PROVE Cardinality(AtWork(q)) <= 1
    BY DEF IInv, OneDeliverer
  <2>1. CASE AtWork(q) = {}
    BY <2>1, FS_EmptySet
  <2>2. CASE AtWork(q) # {}
    <3>1. PICK w \in Worker : AtWork(q) = {w}
      <4>1. PICK w \in Worker : Busy(w, q)
        BY <2>2 DEF AtWork, Busy
      <4>2. \A v \in Worker : Busy(v, q) => v = w
        BY <4>1 DEF ClaimShape
      <4> QED
        BY <4>1, <4>2 DEF AtWork, Busy
    <3>2. Cardinality(AtWork(q)) = 1
      BY <3>1, FS_Singleton, Zenon
    <3> QED
      BY <3>2
  <2> QED
    BY <2>1, <2>2
<1> QED
  BY <1>1, Inductive, PTL

\* A leg is given up as dead only after as many deliveries as the limit failed or
\* could not be recorded, however the ticks' counts overlap.
THEOREM DeadLegsWereTried == Spec => []DeadWasTried
<1>1. IInv => DeadWasTried
  BY BoundAssumption DEF IInv, CountShape, DeadWasTried
<1> QED
  BY <1>1, Inductive, PTL

\* A leg recorded as delivered is known to the switch.
LEMMA DeliveredStep ==
  TypeOK /\ QuoteShape /\ JobShape /\ DeliveredReachedSwitch /\ [Next]_vars
    => DeliveredReachedSwitch'
<1> SUFFICES ASSUME TypeOK, QuoteShape, JobShape, DeliveredReachedSwitch, [Next]_vars
             PROVE DeliveredReachedSwitch'
  OBVIOUS
<1> USE ProcessAssumption
        DEF TypeOK, QuoteShape, JobShape, DeliveredReachedSwitch, ExecuteJob, DeliverJob,
        SettleJob, Idle, Become, Stop, Process, quote, wallet, outbox, rail, history
<1>1. CASE Spend
  BY <1>1 DEF Spend
<1>2. ASSUME NEW q \in Quote, CreateQuote(q) PROVE DeliveredReachedSwitch'
  BY <1>2 DEF CreateQuote
<1>3. ASSUME NEW q \in Quote, AcceptQuote(q) PROVE DeliveredReachedSwitch'
  BY <1>3 DEF AcceptQuote
<1>4. ASSUME NEW q \in Quote, ExpireQuote(q) PROVE DeliveredReachedSwitch'
  BY <1>4 DEF ExpireQuote
<1>5. ASSUME NEW q \in Quote, Reap(q) PROVE DeliveredReachedSwitch'
  BY <1>5 DEF Reap, Stale
<1>6. ASSUME NEW q \in Quote, LateArrival(q) PROVE DeliveredReachedSwitch'
  BY <1>6 DEF LateArrival
<1>7. ASSUME NEW q \in Quote, SwitchEnds(q) PROVE DeliveredReachedSwitch'
  BY <1>7 DEF SwitchEnds
<1>8. ASSUME NEW e \in Requester, ExecuteQuote(e) PROVE DeliveredReachedSwitch'
  BY <1>8 DEF ExecuteQuote, Covered
<1>9. ASSUME NEW e \in Requester, ExecuteFails(e) PROVE DeliveredReachedSwitch'
  BY <1>9 DEF ExecuteFails
<1>10. ASSUME NEW e \in Requester, GiveUp(e) PROVE DeliveredReachedSwitch'
  BY <1>10 DEF GiveUp, StillAccepted
<1>11. ASSUME NEW e \in Requester, NEW q \in Quote, BeginExecute(e, q) PROVE DeliveredReachedSwitch'
  BY <1>11 DEF BeginExecute
<1>12. ASSUME NEW w \in Worker, ClaimLeg(w) PROVE DeliveredReachedSwitch'
  BY <1>12 DEF ClaimLeg, Claimable
<1>13. ASSUME NEW w \in Worker, Deliver(w) PROVE DeliveredReachedSwitch'
  BY <1>13 DEF Deliver
<1>14. ASSUME NEW w \in Worker, RecordDelivery(w) PROVE DeliveredReachedSwitch'
  BY <1>14 DEF RecordDelivery, RecordAs, Recorded, Exhausted
<1>15. ASSUME NEW w \in Worker, NEW q \in Quote, SelectLeg(w, q) PROVE DeliveredReachedSwitch'
  BY <1>15 DEF SelectLeg
<1>16. ASSUME NEW l \in Listener, Fulfil(l) PROVE DeliveredReachedSwitch'
  BY <1>16 DEF Fulfil
<1>17. ASSUME NEW l \in Listener, Compensate(l) PROVE DeliveredReachedSwitch'
  BY <1>17 DEF Compensate, Compensable
<1>18. ASSUME NEW l \in Listener, NEW q \in Quote, Hear(l, q) PROVE DeliveredReachedSwitch'
  BY <1>18 DEF Hear, Answer
<1>19. ASSUME NEW w \in Process, Crash(w) PROVE DeliveredReachedSwitch'
  BY <1>19 DEF Crash
<1>20. CASE UNCHANGED vars
  BY <1>20 DEF vars
<1> HIDE DEF TypeOK, QuoteShape, JobShape, DeliveredReachedSwitch, ExecuteJob,
        DeliverJob, SettleJob, Idle, Become, Stop, Process, quote, wallet, outbox, rail,
        history
<1> QED
  BY <1>1, <1>2, <1>3, <1>4, <1>5, <1>6, <1>7, <1>8, <1>9, <1>10, <1>11, <1>12, <1>13,
     <1>14, <1>15, <1>16, <1>17, <1>18, <1>19, <1>20 DEF Next, ExecuteStep,
     DeliverStep, SettleStep

\* A leg recorded as delivered is known to the switch.
THEOREM DeliveredIsKnown == Spec => []DeliveredReachedSwitch
<1>1. Init => DeliveredReachedSwitch
  BY DEF Init, DeliveredReachedSwitch
<1>2. IInv /\ DeliveredReachedSwitch /\ [Next]_vars => DeliveredReachedSwitch'
  BY DeliveredStep DEF IInv
<1> QED
  BY <1>1, <1>2, Inductive, PTL DEF Spec

-----------------------------------------------------------------------------
\* Each step is a step of Payout, or leaves what the merchant sees as it is.
LEMMA PayoutStep ==
  TypeOK /\ QuoteShape /\ JobShape /\ [Next]_vars =>
    [PayoutOfWallet!Next]_<<balance, [q \in Quote |-> Fate(q)]>>
<1> SUFFICES ASSUME TypeOK, QuoteShape, JobShape, [Next]_vars
             PROVE  [PayoutOfWallet!Next]_<<balance, [q \in Quote |-> Fate(q)]>>
  OBVIOUS
<1> DEFINE fate == [q \in Quote |-> Fate(q)]
           Step == [PayoutOfWallet!Next]_<<balance, fate>>
<1> USE ProcessAssumption
        DEF TypeOK, QuoteShape, JobShape, ExecuteJob, DeliverJob,
        SettleJob, Idle, Become, Stop, Process, quote, wallet, outbox, rail, history
<1>1. CASE Spend
  BY <1>1 DEF Spend, Fate, PayoutOfWallet!Next, PayoutOfWallet!Spend
<1>2. ASSUME NEW q \in Quote, CreateQuote(q) PROVE Step
  BY <1>2 DEF CreateQuote, Fate
<1>3. ASSUME NEW q \in Quote, AcceptQuote(q) PROVE Step
  BY <1>3 DEF AcceptQuote, Fate
<1>4. ASSUME NEW q \in Quote, ExpireQuote(q) PROVE Step
  BY <1>4 DEF ExpireQuote, Fate
<1>5. ASSUME NEW q \in Quote, Reap(q) PROVE Step
  BY <1>5 DEF Reap, Stale, Fate
<1>6. ASSUME NEW q \in Quote, LateArrival(q) PROVE Step
  BY <1>6 DEF LateArrival, Fate
<1>7. ASSUME NEW q \in Quote, SwitchEnds(q) PROVE Step
  <2>1. CASE switch' = [switch EXCEPT ![q] = "committed"]
    <3>1. fate[q] = "out" /\ fate' = [fate EXCEPT ![q] = "paid"]
      <4>1. q \in debit \ refund /\ switch[q] = "reserved" /\ UNCHANGED <<debit, refund>>
        BY <1>7 DEF SwitchEnds
      <4> QED
        BY <2>1, <4>1 DEF Fate
    <3> QED
      BY <1>7, <3>1 DEF SwitchEnds, PayoutOfWallet!Next, PayoutOfWallet!Arrive
  <2>2. CASE switch' = [switch EXCEPT ![q] = "aborted"]
    BY <1>7, <2>2 DEF SwitchEnds, Fate
  <2> QED
    BY <1>7, <2>1, <2>2 DEF SwitchEnds
<1>8. ASSUME NEW e \in Requester, ExecuteQuote(e) PROVE Step
  <2>1. PICK q \in Quote : /\ q = job[e].quote /\ status[q] = "accepted" /\ balance >= Gross[q]
                          /\ balance' = balance - Gross[q] /\ debit' = debit \cup {q}
                          /\ UNCHANGED <<refund, switch>>
    BY <1>8 DEF ExecuteQuote, Covered
  <2>2. fate[q] = "home" /\ fate' = [fate EXCEPT ![q] = "out"]
    BY <2>1 DEF Fate
  <2> QED
    BY <2>1, <2>2 DEF PayoutOfWallet!Next, PayoutOfWallet!Leave
<1>9. ASSUME NEW e \in Requester, ExecuteFails(e) PROVE Step
  BY <1>9 DEF ExecuteFails, Fate
<1>10. ASSUME NEW e \in Requester, GiveUp(e) PROVE Step
  BY <1>10 DEF GiveUp, StillAccepted, Fate
<1>11. ASSUME NEW e \in Requester, NEW q \in Quote, BeginExecute(e, q) PROVE Step
  BY <1>11 DEF BeginExecute, Fate
<1>12. ASSUME NEW w \in Worker, ClaimLeg(w) PROVE Step
  BY <1>12 DEF ClaimLeg, Claimable, Fate
<1>13. ASSUME NEW w \in Worker, Deliver(w) PROVE Step
  BY <1>13 DEF Deliver, Fate
<1>14. ASSUME NEW w \in Worker, RecordDelivery(w) PROVE Step
  BY <1>14 DEF RecordDelivery, RecordAs, Recorded, Exhausted, Fate
<1>15. ASSUME NEW w \in Worker, NEW q \in Quote, SelectLeg(w, q) PROVE Step
  BY <1>15 DEF SelectLeg, Fate
<1>16. ASSUME NEW l \in Listener, Fulfil(l) PROVE Step
  BY <1>16 DEF Fulfil, Fate
<1>17. ASSUME NEW l \in Listener, Compensate(l) PROVE Step
  <2>1. job[l].quote \in debit /\ job[l].quote \in Quote /\ switch[job[l].quote] = "aborted"
    BY <1>17 DEF Compensate
  <2>2. CASE Compensable(job[l].quote)
    <3>1. PICK q \in Quote : /\ q \in debit \ refund /\ switch[q] = "aborted"
                            /\ balance' = balance + Gross[q] /\ refund' = refund \cup {q}
                            /\ UNCHANGED <<debit, switch>>
      BY <1>17, <2>1, <2>2 DEF Compensate, Compensable
    <3>2. fate[q] = "out" /\ fate' = [fate EXCEPT ![q] = "back"]
      BY <3>1 DEF Fate
    <3> QED
      BY <3>1, <3>2 DEF PayoutOfWallet!Next, PayoutOfWallet!ComeBack
  <2>3. CASE ~Compensable(job[l].quote)
    BY <1>17, <2>3 DEF Compensate, Fate
  <2> QED
    BY <2>2, <2>3
<1>18. ASSUME NEW l \in Listener, NEW q \in Quote, Hear(l, q) PROVE Step
  BY <1>18 DEF Hear, Answer, Fate
<1>19. ASSUME NEW w \in Process, Crash(w) PROVE Step
  BY <1>19 DEF Crash, Fate
<1>20. CASE UNCHANGED vars
  BY <1>20 DEF vars, Fate
<1> HIDE DEF TypeOK, QuoteShape, JobShape, ExecuteJob, DeliverJob, SettleJob, Idle,
        Become, Stop, Process, quote, wallet, outbox, rail, history
<1> QED
  BY <1>1, <1>2, <1>3, <1>4, <1>5, <1>6, <1>7, <1>8, <1>9, <1>10, <1>11, <1>12, <1>13,
     <1>14, <1>15, <1>16, <1>17, <1>18, <1>19, <1>20 DEF Next, ExecuteStep,
     DeliverStep, SettleStep

\* FxPayout implements Payout: the money leaves once, and arrives or comes back.
THEOREM RefinesPayout == Spec => ImplementsPayout
<1>1. Init => PayoutOfWallet!Init
  BY DEF Init, PayoutOfWallet!Init, Fate
<1>2. IInv /\ [Next]_vars => [PayoutOfWallet!Next]_<<balance, [q \in Quote |-> Fate(q)]>>
  BY PayoutStep DEF IInv
<1> QED
  BY <1>1, <1>2, Inductive, PTL DEF Spec, ImplementsPayout, PayoutOfWallet!Spec

=============================================================================
