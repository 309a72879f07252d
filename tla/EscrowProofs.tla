----------------------------- MODULE EscrowProofs -----------------------------
(***************************************************************************)
(* Proofs of the safety properties of Escrow, for any number of escrows and *)
(* handlers, any amounts, and any fee below them.                           *)
(***************************************************************************)
EXTENDS Escrow, SumTheorems, TLAPS

\* The money of an escrow that was never taken out of a final or frozen state.
Money ==
  /\ \A e \in Escrow : returned[e] = refunded[e] /\ refunded[e] <= Amount[e]
  /\ \A e \in Escrow \ reopened :
       /\ state[e] \notin Released => settles[e] = 0
       /\ settles[e] <= 1
       /\ settles[e] = 0 => paid[e] = 0
       /\ paid[e] + refunded[e] <= Amount[e]

\* A decided dispute is closed until somebody escalates it.
Decided ==
  /\ reruled \subseteq reescalated
  /\ \A e \in ruled \ reescalated : dispute[e] \in ResolvedStatus

\* Jobs that a dispute's row gave rise to, and the one that is to insert it.
OfDispute(c, e) == job[c].at # "idle" /\ job[c].escrow = e
                   /\ job[c].via \in {"review", "autoclose"}
Releasing(c, e) == job[c].at \in {"check", "settle"} /\ job[c].escrow = e
                   /\ job[c].via = "review"
Filing(c, e) == job[c].at = "file" /\ job[c].escrow = e

\* An escrow that can still be disputed has no dispute; one whose dispute is
\* being filed, by one handler, has none yet and has paid nothing; a
\* review releases only what it has ruled for the merchant; and a release leaves no
\* other dispute behind.
Frozen ==
  \A e \in Escrow \ reopened :
    /\ state[e] \in Disputable \cup {"none"} => dispute[e] = "none"
    /\ \A c \in Caller : OfDispute(c, e) => dispute[e] # "none"
    /\ \A c \in Caller : Filing(c, e) =>
         /\ state[e] \notin Disputable \cup {"none"}
         /\ dispute[e] = "none" /\ settles[e] = 0
         /\ \A d \in Caller : Filing(d, e) => d = c
    /\ e \notin reescalated =>
         /\ \A c \in Caller : Releasing(c, e) => dispute[e] = "resolved_merchant"
         /\ settles[e] > 0 /\ dispute[e] \notin {"none", "resolved_merchant"} =>
              "autoclose" \in routes[e]

\* What a release hands out is a number and within what is left.
LEMMA DueBounds ==
  ASSUME NEW e \in Escrow, refunded[e] \in Nat, refunded[e] <= Amount[e]
  PROVE  /\ FeeDue(e) \in Nat /\ NetDue(e) \in Nat
         /\ FeeDue(e) + NetDue(e) <= Amount[e] - refunded[e]
  BY AmountAssumption DEF FeeDue, NetDue, Less, NotBelowZero, Remaining

\* No release leaves a final state, and only a dispute's own leave a frozen one.
LEMMA AllowedStates ==
  ASSUME NEW via \in Route
  PROVE  /\ AllowedFrom(via) \subseteq Disputable \cup Disputed
         /\ via \notin {"review", "autoclose"} => AllowedFrom(via) \subseteq Disputable
  BY DEF AllowedFrom, Route, Disputable, Disputed

\* What starting a job does to the jobs.
LEMMA Started ==
  ASSUME TypeOK, NEW c \in Caller, NEW l, NEW e, NEW v, NEW n, Start(c, l, e, v, n)
  PROVE  /\ job'[c].at = l /\ job'[c].escrow = e /\ job'[c].via = v
         /\ \A d \in Caller \ {c} : job'[d] = job[d]
  BY DEF Start, At, TypeOK

\* Every step keeps the types.
LEMMA TypeStep == TypeOK /\ Money /\ [Next]_vars => TypeOK'
<1> SUFFICES ASSUME TypeOK, Money, [Next]_vars PROVE TypeOK'
  OBVIOUS
<1> USE AmountAssumption, SwitchAssumption
        DEF TypeOK, Job, Route, Idle, At, State, Disputable, Disputed, Released, Closed,
        OpenStatus, ResolvedStatus, Mode, NotBelowZero, row, wallet, money, rulings
<1>1. ASSUME NEW c \in Caller, NEW e \in Escrow, CreateHold(c, e) PROVE TypeOK'
  BY <1>1, SMTT(20) DEF CreateHold, Start, Exists
<1>2. ASSUME NEW c \in Caller, NEW e \in Escrow, ReadForDelivery(c, e) PROVE TypeOK'
  BY <1>2 DEF ReadForDelivery, Start
<1>3. ASSUME NEW c \in Caller, NEW e \in Escrow, BeginRelease(c, e) PROVE TypeOK'
  BY <1>3 DEF BeginRelease, Start, Exists
<1>4. ASSUME NEW c \in Caller, NEW e \in Escrow, ScanRow(c, e) PROVE TypeOK'
  BY <1>4 DEF ScanRow, Start
<1>5. ASSUME NEW c \in Caller, NEW e \in Escrow, RaiseDispute(c, e) PROVE TypeOK'
  BY <1>5 DEF RaiseDispute, Start
<1>6. ASSUME NEW c \in Caller, NEW e \in Escrow, ClaimReview(c, e) PROVE TypeOK'
  BY <1>6 DEF ClaimReview, Start, Rule, Decidable, OpenDispute
<1>7. ASSUME NEW c \in Caller, NEW e \in Escrow, BeginAutoResolve(c, e) PROVE TypeOK'
  BY <1>7 DEF BeginAutoResolve, Start
<1>8. ASSUME NEW c \in Caller, NEW e \in Escrow, BeginAutoClose(c, e) PROVE TypeOK'
  BY <1>8 DEF BeginAutoClose, Start
<1>9. ASSUME NEW c \in Caller, CreditHold(c) PROVE TypeOK'
  BY <1>9 DEF CreditHold, Stop
<1>10. ASSUME NEW c \in Caller, ConfirmDelivery(c) PROVE TypeOK'
  BY <1>10 DEF ConfirmDelivery, Stop
<1>11. ASSUME NEW c \in Caller, VisitRow(c) PROVE TypeOK'
  BY <1>11 DEF VisitRow, Stop, Goto, OpenDispute
<1>12. ASSUME NEW c \in Caller, CheckReturns(c) PROVE TypeOK'
  BY <1>12, SMTT(20) DEF CheckReturns, Stop, Goto
<1>13. ASSUME NEW c \in Caller, Settle(c) PROVE TypeOK'
  <2> DEFINE e == job[c].escrow
  <2>1. job[c] \in Job /\ e \in Escrow /\ job[c].via \in Route
    BY <1>13 DEF Settle
  <2>2. FeeDue(e) \in Nat /\ NetDue(e) \in Nat
    BY <2>1, DueBounds DEF Money
  <2>3. job' \in [Caller -> {Idle} \cup Job]
        /\ \A d \in Caller : job'[d].at \in {"check", "settle"} => job'[d].via \in Route
    BY <1>13, <2>1 DEF Settle, Stop, Goto
  <2>4. escrowBalance' \in Nat /\ available' \in Nat /\ fees' \in Nat
    BY <1>13, <2>1, <2>2 DEF Settle
  <2>5. state' \in [Escrow -> State] /\ unbacked' \subseteq Escrow
        /\ settles' \in [Escrow -> Nat] /\ routes' \in [Escrow -> SUBSET Route]
    BY <1>13, <2>1 DEF Settle
  <2>6. paid' \in [Escrow -> Nat]
    BY <1>13, <2>1, <2>2 DEF Settle
  <2> QED
    BY <1>13, <2>3, <2>4, <2>5, <2>6 DEF Settle
<1>14. ASSUME NEW c \in Caller, SettleFails(c) PROVE TypeOK'
  BY <1>14 DEF SettleFails, Stop
<1>15. ASSUME NEW c \in Caller, RefundJob(c) PROVE TypeOK'
  <2> DEFINE e == job[c].escrow
  <2>1. job[c] \in Job /\ e \in Escrow
    BY <1>15 DEF RefundJob
  <2>2. PICK n \in 1 .. Remaining(e) : Refund(e, n)
    BY <1>15 DEF RefundJob, Refund
  <2>3. n \in Nat /\ Remaining(e) \in Int
    BY <2>1 DEF Remaining
  <2>4. job' \in [Caller -> {Idle} \cup Job]
        /\ \A d \in Caller : job'[d].at \in {"check", "settle"} => job'[d].via \in Route
    BY <1>15, <2>1 DEF RefundJob, Stop, Goto
  <2>5. escrowBalance' \in Nat
    BY <2>1, <2>2, <2>3 DEF Refund
  <2> QED
    BY <1>15, <2>1, <2>2, <2>3, <2>4, <2>5 DEF Refund
<1>16. ASSUME NEW c \in Caller, RefundJobFails(c) PROVE TypeOK'
  BY <1>16 DEF RefundJobFails, Stop, Goto
<1>17. ASSUME NEW c \in Caller, FileDispute(c) PROVE TypeOK'
  BY <1>17 DEF FileDispute, Stop
<1>18. ASSUME NEW c \in Caller, Park(c) PROVE TypeOK'
  BY <1>18 DEF Park, Stop
<1>19. ASSUME NEW c \in Caller, CloseDispute(c) PROVE TypeOK'
  BY <1>19 DEF CloseDispute, Stop, Rule, ClaimFrom
<1>20. ASSUME NEW c \in Caller, Crash(c) PROVE TypeOK'
  BY <1>20 DEF Crash, Stop
<1>21. ASSUME NEW e \in Escrow, NEW v \in BOOLEAN, CourierConfirm(e, v) PROVE TypeOK'
  BY <1>21 DEF CourierConfirm
<1>22. ASSUME NEW e \in Escrow, BankSettlementConfirmed(e) PROVE TypeOK'
  BY <1>22 DEF BankSettlementConfirmed
<1>23. ASSUME NEW e \in Escrow, InitiateRefund(e) PROVE TypeOK'
  BY <1>23 DEF InitiateRefund, Refund, Refundable, Exists, Remaining
<1>24. ASSUME NEW e \in Escrow, PspFreeze(e) PROVE TypeOK'
  BY <1>24 DEF PspFreeze
<1>25. ASSUME NEW e \in Escrow, MerchantRespond(e) PROVE TypeOK'
  BY <1>25 DEF MerchantRespond
<1>26. ASSUME NEW e \in Escrow, Escalate(e) PROVE TypeOK'
  BY <1>26 DEF Escalate
<1>27. ASSUME NEW e \in Escrow, SweepEscalate(e) PROVE TypeOK'
  BY <1>27 DEF SweepEscalate
<1>28. ASSUME NEW m \in Switch, SetCustodyMode(m) PROVE TypeOK'
  BY <1>28 DEF SetCustodyMode
<1>29. CASE UNCHANGED vars
  BY <1>29 DEF vars
<1> HIDE DEF TypeOK, Job, Route, Idle, At, State, Disputable, Disputed, Released,
        Closed, OpenStatus, ResolvedStatus, Mode, NotBelowZero, row, wallet, rulings
<1> QED
  BY <1>1, <1>2, <1>3, <1>4, <1>5, <1>6, <1>7, <1>8, <1>9, <1>10, <1>11,
     <1>12, <1>13, <1>14, <1>15, <1>16, <1>17, <1>18, <1>19, <1>20, <1>21, <1>22,
     <1>23, <1>24, <1>25, <1>26, <1>27, <1>28, <1>29
  DEF Next, Begin, Continue, Single

\* Every step keeps the money facts.
LEMMA MoneyStep == TypeOK /\ Money /\ [Next]_vars => Money'
<1> SUFFICES ASSUME TypeOK, Money, [Next]_vars PROVE Money'
  OBVIOUS
<1> USE AmountAssumption, SwitchAssumption
        DEF TypeOK, Money, Disputable, Disputed, Released, Closed, row, wallet,
        money, rulings
<1>1. ASSUME NEW c \in Caller, NEW e \in Escrow, CreateHold(c, e) PROVE Money'
  BY <1>1 DEF CreateHold, Start, Exists
<1>2. ASSUME NEW c \in Caller, NEW e \in Escrow, ReadForDelivery(c, e) PROVE Money'
  BY <1>2 DEF ReadForDelivery, Start
<1>3. ASSUME NEW c \in Caller, NEW e \in Escrow, BeginRelease(c, e) PROVE Money'
  BY <1>3 DEF BeginRelease, Start, Exists
<1>4. ASSUME NEW c \in Caller, NEW e \in Escrow, ScanRow(c, e) PROVE Money'
  BY <1>4 DEF ScanRow, Start
<1>5. ASSUME NEW c \in Caller, NEW e \in Escrow, RaiseDispute(c, e) PROVE Money'
  BY <1>5 DEF RaiseDispute, Start
<1>6. ASSUME NEW c \in Caller, NEW e \in Escrow, ClaimReview(c, e) PROVE Money'
  BY <1>6 DEF ClaimReview, Start, Rule, Decidable, OpenDispute
<1>7. ASSUME NEW c \in Caller, NEW e \in Escrow, BeginAutoResolve(c, e) PROVE Money'
  BY <1>7 DEF BeginAutoResolve, Start
<1>8. ASSUME NEW c \in Caller, NEW e \in Escrow, BeginAutoClose(c, e) PROVE Money'
  BY <1>8 DEF BeginAutoClose, Start
<1>9. ASSUME NEW c \in Caller, CreditHold(c) PROVE Money'
  BY <1>9 DEF CreditHold, Stop
<1>10. ASSUME NEW c \in Caller, ConfirmDelivery(c) PROVE Money'
  BY <1>10 DEF ConfirmDelivery, Stop
<1>11. ASSUME NEW c \in Caller, VisitRow(c) PROVE Money'
  BY <1>11 DEF VisitRow, Stop, Goto, OpenDispute
<1>12. ASSUME NEW c \in Caller, CheckReturns(c) PROVE Money'
  BY <1>12 DEF CheckReturns, Stop, Goto
<1>13. ASSUME NEW c \in Caller, Settle(c) PROVE Money'
  <2> DEFINE e == job[c].escrow
  <2>1. e \in Escrow /\ job[c].via \in Route
    BY <1>13 DEF Settle, Job, Idle
  <2>2. state[e] \in Disputable \cup Disputed
    BY <1>13, <2>1, AllowedStates DEF Settle, MayRelease
  <2>3. FeeDue(e) \in Nat /\ NetDue(e) \in Nat
        /\ FeeDue(e) + NetDue(e) <= Amount[e] - refunded[e]
    BY <2>1, DueBounds
  <2>4. /\ \A f \in Escrow \ {e} : state'[f] = state[f] /\ settles'[f] = settles[f]
                                 /\ paid'[f] = paid[f]
        /\ state'[e] \in Released /\ settles'[e] = settles[e] + 1
        /\ paid'[e] \in {paid[e], paid[e] + (FeeDue(e) + NetDue(e))}
    BY <1>13, <2>1 DEF Settle
  <2>5. UNCHANGED <<refunded, returned, reopened>>
    BY <1>13 DEF Settle
  <2>6. e \notin reopened => settles[e] = 0 /\ paid[e] = 0
    BY <2>1, <2>2
  <2> QED
    BY <2>1, <2>3, <2>4, <2>5, <2>6
<1>14. ASSUME NEW c \in Caller, SettleFails(c) PROVE Money'
  BY <1>14 DEF SettleFails, Stop
<1>15. ASSUME NEW c \in Caller, RefundJob(c) PROVE Money'
  BY <1>15 DEF RefundJob, Refund, Refundable, Exists, Remaining, Stop, Goto
<1>16. ASSUME NEW c \in Caller, RefundJobFails(c) PROVE Money'
  BY <1>16 DEF RefundJobFails, Stop, Goto
<1>17. ASSUME NEW c \in Caller, FileDispute(c) PROVE Money'
  BY <1>17 DEF FileDispute, Stop
<1>18. ASSUME NEW c \in Caller, Park(c) PROVE Money'
  BY <1>18 DEF Park, Stop
<1>19. ASSUME NEW c \in Caller, CloseDispute(c) PROVE Money'
  BY <1>19 DEF CloseDispute, Stop, Rule, ClaimFrom
<1>20. ASSUME NEW c \in Caller, Crash(c) PROVE Money'
  BY <1>20 DEF Crash, Stop
<1>21. ASSUME NEW e \in Escrow, NEW v \in BOOLEAN, CourierConfirm(e, v) PROVE Money'
  BY <1>21 DEF CourierConfirm
<1>22. ASSUME NEW e \in Escrow, BankSettlementConfirmed(e) PROVE Money'
  BY <1>22 DEF BankSettlementConfirmed
<1>23. ASSUME NEW e \in Escrow, InitiateRefund(e) PROVE Money'
  BY <1>23 DEF InitiateRefund, Refund, Refundable, Exists, Remaining
<1>24. ASSUME NEW e \in Escrow, PspFreeze(e) PROVE Money'
  BY <1>24 DEF PspFreeze
<1>25. ASSUME NEW e \in Escrow, MerchantRespond(e) PROVE Money'
  BY <1>25 DEF MerchantRespond
<1>26. ASSUME NEW e \in Escrow, Escalate(e) PROVE Money'
  BY <1>26 DEF Escalate
<1>27. ASSUME NEW e \in Escrow, SweepEscalate(e) PROVE Money'
  BY <1>27 DEF SweepEscalate
<1>28. ASSUME NEW m \in Switch, SetCustodyMode(m) PROVE Money'
  BY <1>28 DEF SetCustodyMode
<1>29. CASE UNCHANGED vars
  BY <1>29 DEF vars
<1> HIDE DEF TypeOK, Money, Disputable, Disputed, Released, Closed, row, wallet, money,
        rulings
<1> QED
  BY <1>1, <1>2, <1>3, <1>4, <1>5, <1>6, <1>7, <1>8, <1>9, <1>10, <1>11,
     <1>12, <1>13, <1>14, <1>15, <1>16, <1>17, <1>18, <1>19, <1>20, <1>21, <1>22,
     <1>23, <1>24, <1>25, <1>26, <1>27, <1>28, <1>29
  DEF Next, Begin, Continue, Single

\* Every step keeps decided disputes closed.
LEMMA DecidedStep == TypeOK /\ Decided /\ [Next]_vars => Decided'
<1> SUFFICES ASSUME TypeOK, Decided, [Next]_vars PROVE Decided'
  OBVIOUS
<1> USE AmountAssumption, SwitchAssumption
        DEF TypeOK, Decided, OpenStatus, ResolvedStatus, row, wallet, money,
        rulings
<1>1. ASSUME NEW c \in Caller, NEW e \in Escrow, CreateHold(c, e) PROVE Decided'
  BY <1>1 DEF CreateHold, Start, Exists
<1>2. ASSUME NEW c \in Caller, NEW e \in Escrow, ReadForDelivery(c, e) PROVE Decided'
  BY <1>2 DEF ReadForDelivery, Start
<1>3. ASSUME NEW c \in Caller, NEW e \in Escrow, BeginRelease(c, e) PROVE Decided'
  BY <1>3 DEF BeginRelease, Start, Exists
<1>4. ASSUME NEW c \in Caller, NEW e \in Escrow, ScanRow(c, e) PROVE Decided'
  BY <1>4 DEF ScanRow, Start
<1>5. ASSUME NEW c \in Caller, NEW e \in Escrow, RaiseDispute(c, e) PROVE Decided'
  BY <1>5 DEF RaiseDispute, Start
<1>6. ASSUME NEW c \in Caller, NEW e \in Escrow, ClaimReview(c, e) PROVE Decided'
  BY <1>6 DEF ClaimReview, Start, Rule, Decidable, OpenDispute
<1>7. ASSUME NEW c \in Caller, NEW e \in Escrow, BeginAutoResolve(c, e) PROVE Decided'
  BY <1>7 DEF BeginAutoResolve, Start
<1>8. ASSUME NEW c \in Caller, NEW e \in Escrow, BeginAutoClose(c, e) PROVE Decided'
  BY <1>8 DEF BeginAutoClose, Start
<1>9. ASSUME NEW c \in Caller, CreditHold(c) PROVE Decided'
  BY <1>9 DEF CreditHold, Stop
<1>10. ASSUME NEW c \in Caller, ConfirmDelivery(c) PROVE Decided'
  BY <1>10 DEF ConfirmDelivery, Stop
<1>11. ASSUME NEW c \in Caller, VisitRow(c) PROVE Decided'
  BY <1>11 DEF VisitRow, Stop, Goto, OpenDispute
<1>12. ASSUME NEW c \in Caller, CheckReturns(c) PROVE Decided'
  BY <1>12 DEF CheckReturns, Stop, Goto
<1>13. ASSUME NEW c \in Caller, Settle(c) PROVE Decided'
  BY <1>13 DEF Settle, Stop, Goto, MayRelease, AllowedFrom
<1>14. ASSUME NEW c \in Caller, SettleFails(c) PROVE Decided'
  BY <1>14 DEF SettleFails, Stop
<1>15. ASSUME NEW c \in Caller, RefundJob(c) PROVE Decided'
  BY <1>15 DEF RefundJob, Refund, Refundable, Exists, Remaining, Stop, Goto
<1>16. ASSUME NEW c \in Caller, RefundJobFails(c) PROVE Decided'
  BY <1>16 DEF RefundJobFails, Stop, Goto
<1>17. ASSUME NEW c \in Caller, FileDispute(c) PROVE Decided'
  BY <1>17 DEF FileDispute, Stop
<1>18. ASSUME NEW c \in Caller, Park(c) PROVE Decided'
  BY <1>18 DEF Park, Stop
<1>19. ASSUME NEW c \in Caller, CloseDispute(c) PROVE Decided'
  <2> DEFINE e == job[c].escrow
  <2>1. CASE dispute[e] = ClaimFrom(job[c].via)
    <3>1. e \in Escrow
      BY <1>19 DEF CloseDispute, Job, Idle
    <3>2. dispute[e] \in OpenStatus
      BY <2>1 DEF ClaimFrom
    <3>3. \E s \in ResolvedStatus : Rule(e, s)
      BY <1>19, <2>1 DEF CloseDispute
    <3> QED
      BY <3>1, <3>2, <3>3 DEF Rule
  <2>2. CASE dispute[e] # ClaimFrom(job[c].via)
    BY <1>19, <2>2 DEF CloseDispute
  <2> QED
    BY <2>1, <2>2
<1>20. ASSUME NEW c \in Caller, Crash(c) PROVE Decided'
  BY <1>20 DEF Crash, Stop
<1>21. ASSUME NEW e \in Escrow, NEW v \in BOOLEAN, CourierConfirm(e, v) PROVE Decided'
  BY <1>21 DEF CourierConfirm
<1>22. ASSUME NEW e \in Escrow, BankSettlementConfirmed(e) PROVE Decided'
  BY <1>22 DEF BankSettlementConfirmed
<1>23. ASSUME NEW e \in Escrow, InitiateRefund(e) PROVE Decided'
  BY <1>23 DEF InitiateRefund, Refund, Refundable, Exists, Remaining
<1>24. ASSUME NEW e \in Escrow, PspFreeze(e) PROVE Decided'
  BY <1>24 DEF PspFreeze
<1>25. ASSUME NEW e \in Escrow, MerchantRespond(e) PROVE Decided'
  BY <1>25 DEF MerchantRespond
<1>26. ASSUME NEW e \in Escrow, Escalate(e) PROVE Decided'
  BY <1>26 DEF Escalate
<1>27. ASSUME NEW e \in Escrow, SweepEscalate(e) PROVE Decided'
  BY <1>27 DEF SweepEscalate
<1>28. ASSUME NEW m \in Switch, SetCustodyMode(m) PROVE Decided'
  BY <1>28 DEF SetCustodyMode
<1>29. CASE UNCHANGED vars
  BY <1>29 DEF vars
<1> HIDE DEF TypeOK, Decided, OpenStatus, ResolvedStatus, row, wallet, money, rulings
<1> QED
  BY <1>1, <1>2, <1>3, <1>4, <1>5, <1>6, <1>7, <1>8, <1>9, <1>10, <1>11,
     <1>12, <1>13, <1>14, <1>15, <1>16, <1>17, <1>18, <1>19, <1>20, <1>21, <1>22,
     <1>23, <1>24, <1>25, <1>26, <1>27, <1>28, <1>29
  DEF Next, Begin, Continue, Single

\* Every step keeps disputed escrows frozen.
LEMMA FrozenStep == TypeOK /\ Money /\ Frozen /\ [Next]_vars => Frozen'
<1> SUFFICES ASSUME TypeOK, Money, Frozen, [Next]_vars PROVE Frozen'
  OBVIOUS
<1> USE AmountAssumption, SwitchAssumption
        DEF TypeOK, Money, Frozen, OfDispute, Releasing, Filing, Idle, At,
        Disputable, Disputed, Released, Closed, OpenStatus, ResolvedStatus, row, wallet, money, rulings
<1>1. ASSUME NEW c \in Caller, NEW e \in Escrow, CreateHold(c, e) PROVE Frozen'
  <2>1. \A d \in Caller, f \in Escrow : /\ OfDispute(d, f)' => OfDispute(d, f)
                                        /\ Releasing(d, f)' => Releasing(d, f)
                                        /\ Filing(d, f)' => Filing(d, f)
    BY <1>1 DEF CreateHold, Start
  <2> QED
    BY <1>1, <2>1 DEF CreateHold, Exists
<1>2. ASSUME NEW c \in Caller, NEW e \in Escrow, ReadForDelivery(c, e) PROVE Frozen'
  BY <1>2 DEF ReadForDelivery, Start
<1>3. ASSUME NEW c \in Caller, NEW e \in Escrow, BeginRelease(c, e) PROVE Frozen'
  BY <1>3 DEF BeginRelease, Start, Exists
<1>4. ASSUME NEW c \in Caller, NEW e \in Escrow, ScanRow(c, e) PROVE Frozen'
  BY <1>4 DEF ScanRow, Start
<1>5. ASSUME NEW c \in Caller, NEW e \in Escrow, RaiseDispute(c, e) PROVE Frozen'
  BY <1>5 DEF RaiseDispute, Start
<1>6. ASSUME NEW c \in Caller, NEW e \in Escrow, ClaimReview(c, e) PROVE Frozen'
  <2>1. /\ dispute[e] \in OpenStatus
        /\ \A f \in Escrow \ {e} : dispute'[f] = dispute[f]
        /\ dispute'[e] \in ResolvedStatus
        /\ UNCHANGED <<state, settles, routes, reopened, reescalated>>
    BY <1>6 DEF ClaimReview, Rule, Decidable, OpenDispute
  <2>2. \A d \in Caller, f \in Escrow :
          /\ OfDispute(d, f)' => OfDispute(d, f) \/ f = e
          /\ Releasing(d, f)' => Releasing(d, f) \/ (f = e /\ dispute'[e] = "resolved_merchant")
          /\ Filing(d, f)' => Filing(d, f)
    <3>1. \E l \in {"check", "refund", "park"}, n \in Nat :
            Start(c, l, e, "review", n) /\ (l = "check" => dispute'[e] = "resolved_merchant")
      BY <1>6 DEF ClaimReview, Rule
    <3>2. PICK l \in {"check", "refund", "park"}, n \in Nat :
            Start(c, l, e, "review", n) /\ (l = "check" => dispute'[e] = "resolved_merchant")
      BY <3>1
    <3>3. /\ job'[c].at = l /\ job'[c].escrow = e
          /\ \A d \in Caller \ {c} : job'[d] = job[d]
      BY <3>2, Started
    <3>4. ASSUME NEW f \in Escrow
          PROVE  /\ OfDispute(c, f)' => f = e
                 /\ Releasing(c, f)' => f = e /\ dispute'[e] = "resolved_merchant"
                 /\ ~Filing(c, f)'
      BY <3>2, <3>3
    <3>5. ASSUME NEW d \in Caller, NEW f \in Escrow
          PROVE  /\ OfDispute(d, f)' => OfDispute(d, f) \/ f = e
                 /\ Releasing(d, f)' => Releasing(d, f) \/ (f = e /\ dispute'[e] = "resolved_merchant")
                 /\ Filing(d, f)' => Filing(d, f)
      <4>1. CASE d = c
        BY <3>4, <4>1, Zenon
      <4>2. CASE d # c
        BY <3>3, <4>2
      <4> QED
        BY <4>1, <4>2
    <3> QED
      BY <3>5
  <2>3. e \notin reopened =>
          /\ \A d \in Caller : ~Filing(d, e)
          /\ state[e] \notin Disputable \cup {"none"}
    BY <2>1
  <2>4. e \notin reopened \cup reescalated =>
          /\ \A d \in Caller : ~Releasing(d, e)
          /\ settles[e] > 0 => "autoclose" \in routes[e]
    BY <2>1
  <2> QED
    BY <2>1, <2>2, <2>3, <2>4
<1>7. ASSUME NEW c \in Caller, NEW e \in Escrow, BeginAutoResolve(c, e) PROVE Frozen'
  BY <1>7 DEF BeginAutoResolve, Start
<1>8. ASSUME NEW c \in Caller, NEW e \in Escrow, BeginAutoClose(c, e) PROVE Frozen'
  BY <1>8 DEF BeginAutoClose, Start
<1>9. ASSUME NEW c \in Caller, CreditHold(c) PROVE Frozen'
  BY <1>9 DEF CreditHold, Stop
<1>10. ASSUME NEW c \in Caller, ConfirmDelivery(c) PROVE Frozen'
  BY <1>10 DEF ConfirmDelivery, Stop
<1>11. ASSUME NEW c \in Caller, VisitRow(c) PROVE Frozen'
  BY <1>11 DEF VisitRow, Stop, Goto, OpenDispute
<1>12. ASSUME NEW c \in Caller, CheckReturns(c) PROVE Frozen'
  BY <1>12 DEF CheckReturns, Stop, Goto
<1>13. ASSUME NEW c \in Caller, Settle(c) PROVE Frozen'
  <2> DEFINE e == job[c].escrow
  <2>1. e \in Escrow /\ job[c].via \in Route
    BY <1>13 DEF Settle, Job
  <2>2. state[e] \in AllowedFrom(job[c].via)
    BY <1>13 DEF Settle, MayRelease
  <2>3. /\ state[e] \in Disputable \cup Disputed
        /\ job[c].via \notin {"review", "autoclose"} => state[e] \in Disputable
    BY <2>1, <2>2, AllowedStates
  <2>4. /\ \A f \in Escrow \ {e} : state'[f] = state[f] /\ settles'[f] = settles[f]
                                 /\ routes'[f] = routes[f]
        /\ state'[e] \in Released
        /\ routes'[e] = routes[e] \cup {job[c].via}
        /\ UNCHANGED <<dispute, reopened, reescalated>>
    BY <1>13, <2>1 DEF Settle
  <2>5. \A d \in Caller, f \in Escrow : /\ OfDispute(d, f)' => OfDispute(d, f)
                                        /\ Releasing(d, f)' => Releasing(d, f)
                                        /\ Filing(d, f)' => Filing(d, f)
    BY <1>13, <2>1 DEF Settle, Stop, Goto, Job
  <2>6. e \notin reopened => \A d \in Caller : ~Filing(d, e)
    <3> SUFFICES ASSUME e \notin reopened, NEW d \in Caller, Filing(d, e) PROVE FALSE
      OBVIOUS
    <3>1. dispute[e] = "none" /\ state[e] \notin Disputable
      BY <2>1
    <3>2. OfDispute(c, e)
      BY <1>13, <2>1, <2>3, <3>1 DEF Settle
    <3> QED
      BY <2>1, <3>1, <3>2
  <2>7. e \notin reopened \cup reescalated =>
          dispute[e] \in {"none", "resolved_merchant"} \/ job[c].via = "autoclose"
    <3>1. CASE job[c].via = "review"
      <4>1. Releasing(c, e)
        BY <1>13, <3>1 DEF Settle
      <4> QED
        BY <2>1, <4>1
    <3>2. CASE job[c].via \notin {"review", "autoclose"}
      BY <2>1, <2>3, <3>2
    <3> QED
      BY <3>1, <3>2
  <2> QED
    BY <2>1, <2>4, <2>5, <2>6, <2>7
<1>14. ASSUME NEW c \in Caller, SettleFails(c) PROVE Frozen'
  BY <1>14 DEF SettleFails, Stop
<1>15. ASSUME NEW c \in Caller, RefundJob(c) PROVE Frozen'
  BY <1>15, SMTT(20) DEF RefundJob, Refund, Refundable, Exists, Remaining, Stop, Goto
<1>16. ASSUME NEW c \in Caller, RefundJobFails(c) PROVE Frozen'
  BY <1>16 DEF RefundJobFails, Stop, Goto
<1>17. ASSUME NEW c \in Caller, FileDispute(c) PROVE Frozen'
  <2>1. PICK e \in Escrow : e = job[c].escrow /\ Filing(c, e)
    BY <1>17 DEF FileDispute, Job
  <2>2. \A d \in Caller, f \in Escrow : /\ OfDispute(d, f)' => OfDispute(d, f)
                                        /\ Releasing(d, f)' => Releasing(d, f)
                                        /\ Filing(d, f)' => Filing(d, f) /\ d # c
    BY <1>17 DEF FileDispute, Stop
  <2>3. /\ \A f \in Escrow \ {e} : dispute'[f] = dispute[f]
        /\ dispute[e] = "none" => dispute'[e] = "open"
        /\ UNCHANGED <<state, settles, routes, reopened, reescalated>>
    BY <1>17, <2>1 DEF FileDispute
  <2>4. ASSUME e \notin reopened, NEW d \in Caller PROVE ~OfDispute(d, e) /\ ~Filing(d, e)'
    <3>1. dispute[e] = "none" /\ (Filing(d, e) => d = c)
      BY <2>1, <2>4
    <3> QED
      BY <2>1, <2>2, <2>4, <3>1
  <2> QED
    BY <2>1, <2>2, <2>3, <2>4
<1>18. ASSUME NEW c \in Caller, Park(c) PROVE Frozen'
  BY <1>18 DEF Park, Stop
<1>19. ASSUME NEW c \in Caller, CloseDispute(c) PROVE Frozen'
  BY <1>19 DEF CloseDispute, Stop, Rule, ClaimFrom
<1>20. ASSUME NEW c \in Caller, Crash(c) PROVE Frozen'
  BY <1>20 DEF Crash, Stop
<1>21. ASSUME NEW e \in Escrow, NEW v \in BOOLEAN, CourierConfirm(e, v) PROVE Frozen'
  BY <1>21 DEF CourierConfirm
<1>22. ASSUME NEW e \in Escrow, BankSettlementConfirmed(e) PROVE Frozen'
  BY <1>22 DEF BankSettlementConfirmed
<1>23. ASSUME NEW e \in Escrow, InitiateRefund(e) PROVE Frozen'
  BY <1>23 DEF InitiateRefund, Refund, Refundable, Exists, Remaining
<1>24. ASSUME NEW e \in Escrow, PspFreeze(e) PROVE Frozen'
  BY <1>24 DEF PspFreeze
<1>25. ASSUME NEW e \in Escrow, MerchantRespond(e) PROVE Frozen'
  BY <1>25 DEF MerchantRespond
<1>26. ASSUME NEW e \in Escrow, Escalate(e) PROVE Frozen'
  BY <1>26 DEF Escalate
<1>27. ASSUME NEW e \in Escrow, SweepEscalate(e) PROVE Frozen'
  BY <1>27 DEF SweepEscalate
<1>28. ASSUME NEW m \in Switch, SetCustodyMode(m) PROVE Frozen'
  BY <1>28 DEF SetCustodyMode
<1>29. CASE UNCHANGED vars
  BY <1>29 DEF vars
<1> HIDE DEF TypeOK, Money, Frozen, OfDispute, Releasing, Filing, Idle, At, Disputable,
        Disputed, Released, Closed, OpenStatus, ResolvedStatus, row, money, rulings
<1> QED
  BY <1>1, <1>2, <1>3, <1>4, <1>5, <1>6, <1>7, <1>8, <1>9, <1>10, <1>11,
     <1>12, <1>13, <1>14, <1>15, <1>16, <1>17, <1>18, <1>19, <1>20, <1>21, <1>22,
     <1>23, <1>24, <1>25, <1>26, <1>27, <1>28, <1>29
  DEF Next, Begin, Continue, Single

-----------------------------------------------------------------------------
(* The wallet's books *)


\* The statements that rely on what their handler found or made: the crediting of
\* the hold it inserted, and the confirmation of the delivery it read.
Waiting(c) == job[c].at \in {"credit", "deliver"}

\* The escrow a handler waits on exists, and a hold is credited at most once, by
\* the one handler that created it.
Pending ==
  /\ \A e \in backed : state[e] # "none"
  /\ \A c \in Caller : Waiting(c) => state[job[c].escrow] # "none"
  /\ \A c \in Caller : job[c].at = "credit" =>
       /\ job[c].escrow \notin backed
       /\ \A d \in Caller : job[d].at = "credit" /\ job[d].escrow = job[c].escrow => d = c

\* The wallet's books: a hold is credited by one handler, once, only what is
\* credited is drawn on, and the balance is what the credited holds have left.
Booked ==
  /\ \A e \in Escrow : walletReturned[e] <= refunded[e]
  /\ \A e \in Escrow \ (backed \cup unbacked) : paid[e] = 0 /\ walletReturned[e] = 0
  /\ Pending
  /\ BalanceBacksHolds

\* What the wallet still holds for each escrow, if it was credited.
Left == [e \in Escrow |-> Amount[e] - paid[e] - walletReturned[e]]

\* The credited holds are finitely many of the escrows.
LEMMA BackedFinite == TypeOK => backed \in SUBSET Escrow /\ IsFiniteSet(backed)
  BY AmountAssumption, FS_Subset DEF TypeOK

\* The value of Left at an escrow, and the types of what it is computed from.
LEMMA LeftIs ==
  ASSUME TypeOK
  PROVE  /\ \A e \in Escrow : Left[e] = Amount[e] - paid[e] - walletReturned[e]
         /\ \A e \in Escrow : /\ Amount[e] \in Nat /\ refunded[e] \in Nat
                              /\ paid[e] \in Nat /\ walletReturned[e] \in Nat
  BY AmountAssumption DEF TypeOK, Left

\* It is a number, and without reopened escrows a natural one.
LEMMA LeftNat ==
  ASSUME TypeOK, Money, Booked
  PROVE  Left \in [Escrow -> Int] /\ (reopened = {} => Left \in [Escrow -> Nat])
  BY AmountAssumption DEF TypeOK, Money, Booked, Left

\* What is taken out of a credited hold leaves the sum, and the balance covers it.
LEMMA Withdrawn ==
  ASSUME TypeOK, Money, Booked, unbacked \cup reopened = {},
         NEW e \in backed, NEW n \in Nat, n <= Left[e],
         \A f \in Escrow : Left'[f] = IF f = e THEN Left[f] - n ELSE Left[f]
  PROVE  /\ SumFunctionOnSet(Left', backed) = escrowBalance - n
         /\ n <= escrowBalance
<1>1. Left \in [Escrow -> Nat] /\ Left \in [Escrow -> Int]
  BY LeftNat
<1>2. backed \in SUBSET Escrow /\ IsFiniteSet(backed)
  BY BackedFinite
<1>3. Left' \in [Escrow -> Int] /\ Left'[e] = Left[e] - n
      /\ \A f \in backed \ {e} : Left'[f] = Left[f]
  <2>1. Left' = [f \in Escrow |-> Left'[f]]
    BY DEF Left
  <2> HIDE DEF Left
  <2> QED
    BY <1>1, <1>2, <2>1
<1>4. escrowBalance = SumFunctionOnSet(Left, backed)
  BY DEF Booked, BalanceBacksHolds, Left
<1> QED
  BY <1>1, <1>2, <1>3, <1>4, SumTake

\* A step that starts none of these statements; all but two actions are such.
NoNewWait == \A c \in Caller : Waiting(c)' => job'[c] = job[c]

\* A handler that ends starts none.
LEMMA Stopping == ASSUME TypeOK, NEW c \in Caller, Stop(c) PROVE NoNewWait
  BY DEF Stop, NoNewWait, Waiting, Idle, TypeOK

\* The same of a handler that goes on to another statement.
LEMMA GoingOn ==
  ASSUME TypeOK, NEW c \in Caller, NEW l, l \notin {"credit", "deliver"}, Goto(c, l) PROVE NoNewWait
  BY DEF Goto, At, NoNewWait, Waiting, TypeOK

\* The same of a handler that starts with another statement than these.
LEMMA Starting ==
  ASSUME TypeOK, NEW c \in Caller, NEW l, l \notin {"credit", "deliver"}, NEW e, NEW v, NEW n,
         Start(c, l, e, v, n)
  PROVE  NoNewWait
  BY DEF Start, At, NoNewWait, Waiting, TypeOK

\* The waiting credits stay what they are when nothing is credited.
LEMMA PendingStays ==
  ASSUME TypeOK, Pending, NoNewWait, backed' = backed,
         \A e \in Escrow : state[e] # "none" => state'[e] # "none"
  PROVE  Pending'
<1>1. \A c \in Caller : Waiting(c) => job[c].escrow \in Escrow
  BY DEF Waiting, TypeOK, Idle, Job
<1>2. \A c \in Caller : Waiting(c)' => Waiting(c) /\ job'[c] = job[c]
  BY DEF NoNewWait, Waiting
<1> QED
  BY <1>1, <1>2 DEF Pending, Waiting, TypeOK

\* A step that moves no money and starts no such statement.
Quiet ==
  /\ UNCHANGED <<refunded, escrowBalance, paid, walletReturned, backed, unbacked>>
  /\ reopened \subseteq reopened'
  /\ \A e \in Escrow : state[e] # "none" => state'[e] # "none"
  /\ NoNewWait

\* Such a step keeps the books.
LEMMA QuietKeepsBooks ==
  ASSUME TypeOK, Booked, Quiet PROVE Booked'
<1>1. BalanceBacksHolds'
  BY DEF Quiet, Booked, BalanceBacksHolds
<1>2. Pending'
  BY PendingStays DEF Quiet, Booked
<1> QED
  BY <1>1, <1>2 DEF Quiet, Booked

\* A refund takes from the balance what it gives back, if the hold was credited.
LEMMA RefundKeepsBooks ==
  ASSUME TypeOK, Money, Booked, NEW e \in Escrow, NEW n, Refund(e, n),
         NoNewWait
  PROVE  Booked'
<1>1. /\ n \in Nat /\ n <= Amount[e] - refunded[e]
      /\ refunded' = [refunded EXCEPT ![e] = @ + n]
      /\ UNCHANGED <<paid, backed, reopened>>
      /\ \A f \in Escrow : state[f] # "none" => state'[f] # "none"
  BY AmountAssumption DEF Refund, Remaining, TypeOK
<1>2. state[e] \notin Released
  BY DEF Refund, Refundable, Closed
<1>4. Pending'
  BY <1>1, PendingStays DEF Booked
<1>5. CASE UNCHANGED <<escrowBalance, walletReturned, unbacked>>
  <2>1. BalanceBacksHolds'
    BY <1>1, <1>5 DEF Booked, BalanceBacksHolds
  <2>2. \A f \in Escrow : walletReturned'[f] <= refunded'[f]
    BY <1>1, <1>5 DEF Booked, TypeOK
  <2> QED
    BY <1>1, <1>4, <1>5, <2>1, <2>2 DEF Booked
<1>6. CASE /\ escrowBalance' = NotBelowZero(escrowBalance - n)
           /\ walletReturned' = [walletReturned EXCEPT ![e] = @ + n]
           /\ unbacked' = IF e \in backed THEN unbacked ELSE unbacked \cup {e}
  <2>1. BalanceBacksHolds'
    <3> SUFFICES ASSUME (unbacked \cup reopened)' = {}
                 PROVE  escrowBalance' = SumFunctionOnSet(Left', backed)
      BY <1>1 DEF BalanceBacksHolds, Left
    <3>1. e \in backed /\ unbacked \cup reopened = {}
      BY <1>1, <1>6
    <3>2. n <= Left[e]
      <4>1. paid[e] = 0 /\ walletReturned[e] <= refunded[e]
        BY <1>2, <3>1 DEF Money, Booked
      <4> QED
        BY <1>1, <4>1, LeftIs
    <3>3. \A f \in Escrow : Left'[f] = IF f = e THEN Left[f] - n ELSE Left[f]
      <4>1. \A f \in Escrow : Left'[f] = Amount[f] - paid'[f] - walletReturned'[f]
        BY DEF Left
      <4>2. \A f \in Escrow : walletReturned'[f] =
              IF f = e THEN walletReturned[f] + n ELSE walletReturned[f]
        BY <1>6 DEF TypeOK
      <4> QED
        BY <1>1, <4>1, <4>2, LeftIs
    <3>4. SumFunctionOnSet(Left', backed) = escrowBalance - n /\ n <= escrowBalance
      BY <1>1, <3>1, <3>2, <3>3, Withdrawn
    <3> QED
      BY <1>1, <1>6, <3>4 DEF NotBelowZero, TypeOK
  <2>2. \A f \in Escrow : walletReturned'[f] <= refunded'[f]
    BY <1>1, <1>6 DEF Booked, TypeOK
  <2>3. \A f \in Escrow \ (backed' \cup unbacked') : paid'[f] = 0 /\ walletReturned'[f] = 0
    BY <1>1, <1>6 DEF Booked, TypeOK
  <2> QED
    BY <1>4, <2>1, <2>2, <2>3 DEF Booked
<1> QED
  BY <1>5, <1>6 DEF Refund

\* Every step keeps the books.
LEMMA BookedStep == TypeOK /\ Money /\ Booked /\ [Next]_vars => Booked'
<1> SUFFICES ASSUME TypeOK, Money, Booked, [Next]_vars PROVE Booked'
  OBVIOUS
<1>1. ASSUME NEW c \in Caller, NEW e \in Escrow, CreateHold(c, e) PROVE Booked'
  <2>1. /\ state'[e] = "escrow_held" /\ state[e] = "none"
        /\ \A f \in Escrow \ {e} : state'[f] = state[f]
    BY <1>1 DEF CreateHold, Exists, TypeOK
  <2>2. /\ UNCHANGED <<refunded, escrowBalance, paid, walletReturned, backed, unbacked>>
        /\ UNCHANGED reopened
    BY <1>1 DEF CreateHold, wallet, money
  <2>3. /\ \A d \in Caller \ {c} : job'[d] = job[d]
        /\ job'[c] = job[c] \/ job'[c].escrow = e
    BY <1>1, Started DEF CreateHold, TypeOK
  <2>4. e \notin backed /\ \A d \in Caller : Waiting(d) => job[d].escrow # e
    BY <2>1 DEF Booked, Pending
  <2>5. \A d \in Caller : Waiting(d) => job[d].escrow \in Escrow
    BY DEF Waiting, TypeOK, Idle, Job
  <2>6. Pending'
    <3>1. \A f \in backed' : state'[f] # "none"
      BY <2>1, <2>2 DEF Booked, Pending, TypeOK
    <3>2. ASSUME NEW d \in Caller, Waiting(d)' PROVE state'[job'[d].escrow] # "none"
      BY <2>1, <2>3, <2>5, <3>2 DEF Booked, Pending, Waiting
    <3>3. ASSUME NEW d \in Caller, job'[d].at = "credit"
          PROVE  /\ job'[d].escrow \notin backed'
                 /\ \A b \in Caller :
                      job'[b].at = "credit" /\ job'[b].escrow = job'[d].escrow => b = d
      <4>1. CASE job'[d] = job[d]
        BY <2>2, <2>3, <2>4, <3>3, <4>1 DEF Booked, Pending, Waiting
      <4>2. CASE job'[d] # job[d]
        <5>1. d = c /\ job'[d].escrow = e
          BY <2>3, <4>2
        <5> QED
          BY <2>2, <2>3, <2>4, <5>1 DEF Waiting
      <4> QED
        BY <4>1, <4>2
    <3> QED
      BY <3>1, <3>2, <3>3 DEF Pending
  <2>7. BalanceBacksHolds'
    BY <2>2 DEF BalanceBacksHolds, Booked
  <2>8. \A f \in Escrow \ (backed' \cup unbacked') : paid'[f] = 0 /\ walletReturned'[f] = 0
    BY <2>2 DEF Booked
  <2> QED
    BY <2>2, <2>6, <2>7, <2>8 DEF Booked
<1>2. ASSUME NEW c \in Caller, NEW e \in Escrow, ReadForDelivery(c, e) PROVE Booked'
  <2>1. /\ UNCHANGED <<state, refunded, escrowBalance, paid, walletReturned, backed,
                       unbacked, reopened>>
        /\ state[e] # "none"
    BY <1>2 DEF ReadForDelivery, row, wallet, money
  <2>2. /\ job'[c].at = "deliver" /\ job'[c].escrow = e
        /\ \A d \in Caller \ {c} : job'[d] = job[d]
    BY <1>2, Started DEF ReadForDelivery
  <2>3. Pending'
    BY <2>1, <2>2 DEF Booked, Pending, Waiting, TypeOK
  <2>4. BalanceBacksHolds'
    BY <2>1 DEF Booked, BalanceBacksHolds
  <2> QED
    BY <2>1, <2>3, <2>4 DEF Booked
<1>3. ASSUME NEW c \in Caller, NEW e \in Escrow, BeginRelease(c, e) PROVE Booked'
  <2>1. NoNewWait
    BY <1>3, Starting DEF BeginRelease, Exists
  <2> QED
    BY <1>3, <2>1, QuietKeepsBooks DEF BeginRelease, Exists, Quiet, row, wallet,
       money, rulings
<1>4. ASSUME NEW c \in Caller, NEW e \in Escrow, ScanRow(c, e) PROVE Booked'
  <2>1. NoNewWait
    BY <1>4, Starting DEF ScanRow
  <2> QED
    BY <1>4, <2>1, QuietKeepsBooks DEF ScanRow, Quiet, row, wallet, money, rulings
<1>5. ASSUME NEW c \in Caller, NEW e \in Escrow, RaiseDispute(c, e) PROVE Booked'
  <2>1. NoNewWait
    BY <1>5, Starting DEF RaiseDispute
  <2> QED
    BY <1>5, <2>1, QuietKeepsBooks DEF RaiseDispute, Quiet, row, wallet, money,
       rulings
<1>6. ASSUME NEW c \in Caller, NEW e \in Escrow, ClaimReview(c, e) PROVE Booked'
  <2>1. NoNewWait
    BY <1>6, Starting DEF ClaimReview, Rule
  <2> QED
    BY <1>6, <2>1, QuietKeepsBooks DEF ClaimReview, Rule, Quiet, row, wallet, money,
       rulings
<1>7. ASSUME NEW c \in Caller, NEW e \in Escrow, BeginAutoResolve(c, e) PROVE Booked'
  <2>1. NoNewWait
    BY <1>7, Starting DEF BeginAutoResolve
  <2> QED
    BY <1>7, <2>1, QuietKeepsBooks DEF BeginAutoResolve, Quiet, row, wallet, money,
       rulings
<1>8. ASSUME NEW c \in Caller, NEW e \in Escrow, BeginAutoClose(c, e) PROVE Booked'
  <2>1. NoNewWait
    BY <1>8, Starting DEF BeginAutoClose
  <2> QED
    BY <1>8, <2>1, QuietKeepsBooks DEF BeginAutoClose, Quiet, row, wallet, money,
       rulings
<1>9. ASSUME NEW c \in Caller, CreditHold(c) PROVE Booked'
  <2> DEFINE e == job[c].escrow
  <2>1. e \in Escrow /\ e \notin backed /\ state[e] # "none"
    BY <1>9 DEF CreditHold, Booked, Pending, Waiting, TypeOK, Idle, Job
  <2>2. /\ backed' = backed \cup {e} /\ escrowBalance' = escrowBalance + Amount[e]
        /\ UNCHANGED <<state, refunded, paid, walletReturned, unbacked, reopened>>
    BY <1>9 DEF CreditHold, row
  <2>3. \A d \in Caller : Waiting(d)' => job'[d] = job[d]
    BY <1>9, Stopping DEF CreditHold, NoNewWait
  <2>4. \A d \in Caller : job'[d].at = "credit" => job[d].escrow # e
    BY <1>9 DEF CreditHold, Stop, Idle, Booked, Pending, TypeOK
  <2>5. Pending'
    BY <2>1, <2>2, <2>3, <2>4 DEF Booked, Pending, Waiting
  <2> HIDE DEF e
  <2>6. BalanceBacksHolds'
    <3> SUFFICES ASSUME unbacked \cup reopened = {}
                 PROVE  escrowBalance' = SumFunctionOnSet(Left', backed')
      BY <2>2, Zenon DEF BalanceBacksHolds, Left
    <3>1. Left' = Left /\ Left \in [Escrow -> Int]
      BY <2>2, LeftNat DEF Left
    <3>2. Left[e] = Amount[e]
      BY <2>1, AmountAssumption DEF Left, Booked
    <3>3. SumFunctionOnSet(Left, backed \cup {e}) = SumFunctionOnSet(Left, backed) + Left[e]
      BY <2>1, <3>1, BackedFinite, SumAdd
    <3>4. escrowBalance = SumFunctionOnSet(Left, backed)
      BY DEF Booked, BalanceBacksHolds, Left
    <3>5. backed' = backed \cup {e}
      BY <2>2
    <3> QED
      BY <2>2, <3>1, <3>2, <3>3, <3>4, <3>5
  <2> QED
    BY <2>2, <2>5, <2>6 DEF Booked
<1>10. ASSUME NEW c \in Caller, ConfirmDelivery(c) PROVE Booked'
  <2>1. NoNewWait
    BY <1>10, Stopping DEF ConfirmDelivery
  <2> QED
    BY <1>10, <2>1, QuietKeepsBooks DEF ConfirmDelivery, Quiet, row, wallet, money,
       rulings
<1>11. ASSUME NEW c \in Caller, VisitRow(c) PROVE Booked'
  <2>1. NoNewWait
    BY <1>11, Stopping, GoingOn DEF VisitRow
  <2> QED
    BY <1>11, <2>1, QuietKeepsBooks DEF VisitRow, Quiet, row, wallet, money, rulings
<1>12. ASSUME NEW c \in Caller, CheckReturns(c) PROVE Booked'
  <2>1. NoNewWait
    BY <1>12, Stopping, GoingOn DEF CheckReturns
  <2> QED
    BY <1>12, <2>1, QuietKeepsBooks DEF CheckReturns, Quiet, row, wallet, money,
       rulings
<1>13. ASSUME NEW c \in Caller, Settle(c) PROVE Booked'
  <2> DEFINE e == job[c].escrow
             due == FeeDue(e) + NetDue(e)
  <2>1. e \in Escrow /\ job[c].via \in Route
    BY <1>13 DEF Settle, Job, Idle, TypeOK
  <2>2. state[e] \in Disputable \cup Disputed
    BY <1>13, <2>1, AllowedStates DEF Settle, MayRelease
  <2>3. /\ FeeDue(e) \in Nat /\ NetDue(e) \in Nat
        /\ due <= Amount[e] - refunded[e]
    BY <2>1, DueBounds DEF Money, TypeOK
  <2>4. /\ UNCHANGED <<refunded, walletReturned, backed, reopened>>
        /\ state'[e] # "none" /\ \A f \in Escrow \ {e} : state'[f] = state[f]
    BY <1>13, <2>1 DEF Settle, TypeOK
  <2>5. NoNewWait
    BY <1>13, Stopping, GoingOn DEF Settle
  <2>6. Pending'
    BY <2>2, <2>4, <2>5, PendingStays DEF Booked
  <2>7. CASE UNCHANGED <<escrowBalance, paid, unbacked>>
    <3>1. BalanceBacksHolds'
      BY <2>4, <2>7 DEF Booked, BalanceBacksHolds
    <3> QED
      BY <2>4, <2>6, <2>7, <3>1 DEF Booked
  <2>8. CASE /\ escrowBalance' = NotBelowZero(NotBelowZero(escrowBalance - NetDue(e)) - FeeDue(e))
             /\ paid' = [paid EXCEPT ![e] = @ + due]
             /\ unbacked' = IF e \in backed THEN unbacked ELSE unbacked \cup {e}
    <3>1. BalanceBacksHolds'
      <4> SUFFICES ASSUME (unbacked \cup reopened)' = {}
                   PROVE  escrowBalance' = SumFunctionOnSet(Left', backed)
        BY <2>4 DEF BalanceBacksHolds, Left
      <4>1. e \in backed /\ unbacked \cup reopened = {}
        BY <2>4, <2>8
      <4>2. due <= Left[e] /\ due \in Nat
        <5>1. paid[e] = 0 /\ walletReturned[e] <= refunded[e]
          BY <2>1, <2>2, <4>1 DEF Money, Booked, Disputable, Disputed, Released
        <5>2. due \in Nat
          BY <2>3
        <5> HIDE DEF e, due
        <5> QED
          BY <2>1, <2>3, <5>1, <5>2, AmountAssumption DEF Left, TypeOK
      <4>3. \A f \in Escrow : Left'[f] = IF f = e THEN Left[f] - due ELSE Left[f]
        <5> HIDE DEF e, due
        <5> QED
          <6>1. \A f \in Escrow : Left'[f] = Amount[f] - paid'[f] - walletReturned'[f]
            BY DEF Left
          <6>2. \A f \in Escrow : paid'[f] = IF f = e THEN paid[f] + due ELSE paid[f]
            BY <2>1, <2>8 DEF TypeOK
          <6> QED
            BY <2>4, <4>2, <6>1, <6>2, LeftIs
      <4> HIDE DEF e, due
      <4>4. SumFunctionOnSet(Left', backed) = escrowBalance - due /\ due <= escrowBalance
        BY <4>1, <4>2, <4>3, Withdrawn
      <4> QED
        BY <2>3, <2>8, <4>4 DEF NotBelowZero, TypeOK, due
    <3>2. \A f \in Escrow \ (backed' \cup unbacked') : paid'[f] = 0 /\ walletReturned'[f] = 0
      BY <2>1, <2>4, <2>8 DEF Booked, TypeOK
    <3> QED
      BY <2>4, <2>6, <3>1, <3>2 DEF Booked
  <2> QED
    <3>1. \/ UNCHANGED <<escrowBalance, paid, unbacked>>
          \/ /\ escrowBalance' = NotBelowZero(NotBelowZero(escrowBalance - NetDue(e)) - FeeDue(e))
             /\ paid' = [paid EXCEPT ![e] = @ + due]
             /\ unbacked' = IF e \in backed THEN unbacked ELSE unbacked \cup {e}
      BY <1>13 DEF Settle, wallet
    <3> QED
      BY <2>7, <2>8, <3>1
<1>14. ASSUME NEW c \in Caller, SettleFails(c) PROVE Booked'
  <2>1. NoNewWait
    BY <1>14, Stopping DEF SettleFails
  <2> QED
    BY <1>14, <2>1, QuietKeepsBooks DEF SettleFails, Quiet, row, wallet, money,
       rulings
<1>15. ASSUME NEW c \in Caller, RefundJob(c) PROVE Booked'
  <2>1. job[c].escrow \in Escrow
    BY <1>15 DEF RefundJob, Job, Idle, TypeOK
  <2>2. NoNewWait
    BY <1>15, Stopping, GoingOn DEF RefundJob
  <2> QED
    BY <1>15, <2>1, <2>2, RefundKeepsBooks DEF RefundJob
<1>16. ASSUME NEW c \in Caller, RefundJobFails(c) PROVE Booked'
  <2>1. NoNewWait
    BY <1>16, Stopping, GoingOn DEF RefundJobFails
  <2> QED
    BY <1>16, <2>1, QuietKeepsBooks DEF RefundJobFails, Quiet, row, wallet, money,
       rulings
<1>17. ASSUME NEW c \in Caller, FileDispute(c) PROVE Booked'
  <2>1. NoNewWait
    BY <1>17, Stopping DEF FileDispute
  <2> QED
    BY <1>17, <2>1, QuietKeepsBooks DEF FileDispute, Quiet, row, wallet, money,
       rulings
<1>18. ASSUME NEW c \in Caller, Park(c) PROVE Booked'
  <2>1. NoNewWait
    BY <1>18, Stopping DEF Park
  <2> QED
    BY <1>18, <2>1, QuietKeepsBooks DEF Park, Quiet, row, wallet, money, rulings
<1>19. ASSUME NEW c \in Caller, CloseDispute(c) PROVE Booked'
  <2>1. NoNewWait
    BY <1>19, Stopping DEF CloseDispute, Rule
  <2> QED
    BY <1>19, <2>1, QuietKeepsBooks DEF CloseDispute, Rule, Quiet, row, wallet, money,
       rulings
<1>20. ASSUME NEW c \in Caller, Crash(c) PROVE Booked'
  <2>1. NoNewWait
    BY <1>20, Stopping DEF Crash
  <2> QED
    BY <1>20, <2>1, QuietKeepsBooks DEF Crash, Quiet, row, wallet, money, rulings
<1>21. ASSUME NEW e \in Escrow, NEW v \in BOOLEAN, CourierConfirm(e, v) PROVE Booked'
  BY <1>21, QuietKeepsBooks DEF CourierConfirm, Quiet, NoNewWait, row, wallet,
     money, rulings
<1>22. ASSUME NEW e \in Escrow, BankSettlementConfirmed(e) PROVE Booked'
  BY <1>22, QuietKeepsBooks DEF BankSettlementConfirmed, Quiet, NoNewWait, row,
     wallet, money, rulings
<1>23. ASSUME NEW e \in Escrow, InitiateRefund(e) PROVE Booked'
  <2>1. NoNewWait
    BY <1>23 DEF InitiateRefund, NoNewWait
  <2> QED
    BY <1>23, <2>1, RefundKeepsBooks DEF InitiateRefund
<1>24. ASSUME NEW e \in Escrow, PspFreeze(e) PROVE Booked'
  BY <1>24, QuietKeepsBooks DEF PspFreeze, Quiet, NoNewWait, row, wallet, money,
     rulings
<1>25. ASSUME NEW e \in Escrow, MerchantRespond(e) PROVE Booked'
  BY <1>25, QuietKeepsBooks DEF MerchantRespond, Quiet, NoNewWait, row, wallet,
     money, rulings
<1>26. ASSUME NEW e \in Escrow, Escalate(e) PROVE Booked'
  BY <1>26, QuietKeepsBooks DEF Escalate, Quiet, NoNewWait, row, wallet, money,
     rulings
<1>27. ASSUME NEW e \in Escrow, SweepEscalate(e) PROVE Booked'
  BY <1>27, QuietKeepsBooks DEF SweepEscalate, Quiet, NoNewWait, row, wallet, money,
     rulings
<1>28. ASSUME NEW m \in Switch, SetCustodyMode(m) PROVE Booked'
  BY <1>28, QuietKeepsBooks DEF SetCustodyMode, Quiet, NoNewWait, row, wallet,
     money, rulings
<1>29. CASE UNCHANGED vars
  BY <1>29, QuietKeepsBooks DEF Quiet, NoNewWait, vars, row, wallet, money, rulings
<1> QED
  BY <1>1, <1>2, <1>3, <1>4, <1>5, <1>6, <1>7, <1>8, <1>9, <1>10, <1>11, <1>12, <1>13,
     <1>14, <1>15, <1>16, <1>17, <1>18, <1>19, <1>20, <1>21, <1>22, <1>23, <1>24,
     <1>25, <1>26, <1>27, <1>28, <1>29
  DEF Next, Begin, Continue, Single

-----------------------------------------------------------------------------
(* The promise of Trust *)

\* What a release hands out is what refunds have left.
LEMMA DueIsRest ==
  ASSUME NEW e \in Escrow, refunded[e] \in Nat, refunded[e] <= Amount[e]
  PROVE  FeeDue(e) + NetDue(e) = Remaining(e)
  BY AmountAssumption DEF FeeDue, NetDue, Less, NotBelowZero, Remaining

\* A step that touches one escrow is one of Trust if it is one for that escrow.
LEMMA AtOne ==
  ASSUME NEW e \in Escrow,
         \A f \in Escrow \ {e} :
           /\ state'[f] = state[f] /\ settles'[f] = settles[f]
           /\ returned'[f] = returned[f] /\ paid'[f] = paid[f]
           /\ f \in reopened' <=> f \in reopened
  PROVE  /\ [f \in Escrow |-> Phase(f)]' = [[f \in Escrow |-> Phase(f)] EXCEPT ![e] = Phase(e)']
         /\ Kept(returned)' = [Kept(returned) EXCEPT ![e] = Kept(returned)'[e]]
         /\ Kept(paid)' = [Kept(paid) EXCEPT ![e] = Kept(paid)'[e]]
  BY DEF Phase, Exists, Kept

\* A step that neither makes, pays out, gives back nor reopens an escrow.
Unseen ==
  /\ UNCHANGED <<settles, returned, paid, reopened>>
  /\ \A e \in Escrow : /\ state'[e] = "none" <=> state[e] = "none"
                       /\ e \notin reopened => (state'[e] = "refunded" <=> state[e] = "refunded")

LEMMA UnseenStutters == Unseen => UNCHANGED TrustOfRows!vars
<1> SUFFICES ASSUME Unseen PROVE UNCHANGED TrustOfRows!vars
  OBVIOUS
<1>1. \A e \in Escrow : Phase(e)' = Phase(e)
  BY DEF Unseen, Phase, Exists
<1>2. Kept(returned)' = Kept(returned) /\ Kept(paid)' = Kept(paid)
  BY DEF Unseen, Kept
<1> QED
  BY <1>1, <1>2 DEF TrustOfRows!vars

\* A refund gives back part of a held escrow, or all that is left of it.
LEMMA RefundGivesBack ==
  ASSUME TypeOK, Money, NEW e \in Escrow, NEW n, Refund(e, n)
  PROVE  [TrustOfRows!Next]_(TrustOfRows!vars)
<1>1. /\ Exists(e) /\ state[e] \notin Closed
      /\ n \in 1 .. Remaining(e)
      /\ state' = [state EXCEPT ![e] = IF n = Remaining(e) THEN "refunded" ELSE @]
      /\ returned' = [returned EXCEPT ![e] = @ + n]
      /\ UNCHANGED <<settles, paid, reopened>>
  BY DEF Refund, Refundable
<1>2. /\ [f \in Escrow |-> Phase(f)]' = [[f \in Escrow |-> Phase(f)] EXCEPT ![e] = Phase(e)']
      /\ Kept(returned)' = [Kept(returned) EXCEPT ![e] = Kept(returned)'[e]]
      /\ Kept(paid)' = Kept(paid)
  BY <1>1, AtOne DEF TypeOK, Kept
<1>3. CASE e \in reopened
  <2>1. Phase(e)' = Phase(e) /\ Kept(returned)'[e] = Kept(returned)[e]
    BY <1>1, <1>3 DEF Phase, Kept
  <2> QED
    BY <1>2, <2>1 DEF TrustOfRows!vars, Kept
<1>4. CASE e \notin reopened
  <2>1. settles[e] = 0 /\ state[e] # "refunded" /\ returned[e] = refunded[e]
    BY <1>1, <1>4 DEF Money, Closed
  <2>2. Phase(e) = "held"
    BY <1>1, <1>4, <2>1 DEF Phase
  <2>3. TrustOfRows!Rest(e) = Remaining(e)
    BY <1>4, <2>1 DEF TrustOfRows!Rest, Kept, Remaining
  <2>4. Phase(e)' = IF n = Remaining(e) THEN "returned" ELSE Phase(e)
    BY <1>1, <1>4, <2>1, <2>2 DEF Phase, Exists, TypeOK
  <2>5. Kept(returned)'[e] = Kept(returned)[e] + n
    BY <1>1, <1>4 DEF Kept, TypeOK
  <2>6. TrustOfRows!GiveBack(e)
    BY <1>1, <1>2, <2>2, <2>3, <2>4, <2>5 DEF TrustOfRows!GiveBack
  <2> QED
    BY <2>6 DEF TrustOfRows!Next
<1> QED
  BY <1>3, <1>4

\* Each step is a step of Trust, or one nobody there sees.
LEMMA TrustStep ==
  TypeOK /\ Money /\ Pending /\ [Next]_vars => [TrustOfRows!Next]_(TrustOfRows!vars)
<1> DEFINE Step == [TrustOfRows!Next]_(TrustOfRows!vars)
<1> SUFFICES ASSUME TypeOK, Money, Pending, [Next]_vars PROVE Step
  OBVIOUS
<1>1. ASSUME NEW c \in Caller, NEW e \in Escrow, CreateHold(c, e) PROVE Step
  <2>1. /\ state[e] = "none" /\ state' = [state EXCEPT ![e] = "escrow_held"]
        /\ UNCHANGED <<settles, returned, paid, reopened>>
    BY <1>1 DEF CreateHold, Exists, money
  <2>2. [f \in Escrow |-> Phase(f)]' = [[f \in Escrow |-> Phase(f)] EXCEPT ![e] = Phase(e)']
    BY <2>1, AtOne DEF TypeOK
  <2>3. UNCHANGED <<Kept(returned), Kept(paid)>>
    BY <2>1 DEF Kept
  <2>4. CASE e \in reopened
    <3>1. Phase(e)' = Phase(e)
      BY <2>1, <2>4 DEF Phase
    <3> QED
      BY <2>2, <2>3, <3>1 DEF TrustOfRows!vars
  <2>5. CASE e \notin reopened
    <3>1. settles[e] = 0
      BY <2>1, <2>5 DEF Money, Released
    <3>2. Phase(e) = "none" /\ Phase(e)' = "held"
      BY <2>1, <2>5, <3>1 DEF Phase, Exists, TypeOK
    <3>3. TrustOfRows!Hold(e)
      BY <2>2, <2>3, <3>2 DEF TrustOfRows!Hold
    <3> QED
      BY <3>3 DEF TrustOfRows!Next
  <2> QED
    BY <2>4, <2>5
<1>2. ASSUME NEW c \in Caller, NEW e \in Escrow, ReadForDelivery(c, e) PROVE Step
  BY <1>2, UnseenStutters DEF ReadForDelivery, Unseen, row, money, TypeOK
<1>3. ASSUME NEW c \in Caller, NEW e \in Escrow, BeginRelease(c, e) PROVE Step
  BY <1>3, UnseenStutters DEF BeginRelease, Exists, Unseen, row, money, TypeOK
<1>4. ASSUME NEW c \in Caller, NEW e \in Escrow, ScanRow(c, e) PROVE Step
  BY <1>4, UnseenStutters DEF ScanRow, Unseen, row, money, TypeOK
<1>5. ASSUME NEW c \in Caller, NEW e \in Escrow, RaiseDispute(c, e) PROVE Step
  BY <1>5, UnseenStutters DEF RaiseDispute, Unseen, row, money, TypeOK, Disputable
<1>6. ASSUME NEW c \in Caller, NEW e \in Escrow, ClaimReview(c, e) PROVE Step
  BY <1>6, UnseenStutters DEF ClaimReview, Rule, Unseen, row, money, TypeOK
<1>7. ASSUME NEW c \in Caller, NEW e \in Escrow, BeginAutoResolve(c, e) PROVE Step
  BY <1>7, UnseenStutters DEF BeginAutoResolve, Unseen, row, money, TypeOK
<1>8. ASSUME NEW c \in Caller, NEW e \in Escrow, BeginAutoClose(c, e) PROVE Step
  BY <1>8, UnseenStutters DEF BeginAutoClose, Unseen, row, money, TypeOK
<1>9. ASSUME NEW c \in Caller, CreditHold(c) PROVE Step
  BY <1>9, UnseenStutters DEF CreditHold, Unseen, row, money, TypeOK
<1>10. ASSUME NEW c \in Caller, ConfirmDelivery(c) PROVE Step
  <2>1. PICK e \in Escrow : e = job[c].escrow /\ state[e] # "none"
    BY <1>10 DEF ConfirmDelivery, Pending, Waiting, TypeOK, Idle, Job
  <2>2. /\ state' = [state EXCEPT ![e] = "delivery_confirmed"]
        /\ reopened' = IF state[e] \in Disputable THEN reopened ELSE reopened \cup {e}
        /\ UNCHANGED <<settles, returned, paid>>
    BY <1>10, <2>1 DEF ConfirmDelivery, money
  <2>3. CASE e \in reopened' /\ e \notin reopened
    <3>1. /\ [f \in Escrow |-> Phase(f)]' = [[f \in Escrow |-> Phase(f)] EXCEPT ![e] = Phase(e)']
          /\ Kept(returned)' = [Kept(returned) EXCEPT ![e] = Kept(returned)'[e]]
          /\ Kept(paid)' = [Kept(paid) EXCEPT ![e] = Kept(paid)'[e]]
      BY <2>1, <2>2, AtOne DEF TypeOK
    <3>2. /\ Phase(e) \notin {"none", "void"} /\ Phase(e)' = "void"
          /\ Kept(returned)'[e] = 0 /\ Kept(paid)'[e] = 0
      BY <2>1, <2>3 DEF Phase, Exists, Kept
    <3>3. TrustOfRows!Void(e)
      BY <3>1, <3>2 DEF TrustOfRows!Void
    <3> QED
      BY <2>1, <3>3 DEF TrustOfRows!Next
  <2>4. CASE ~(e \in reopened' /\ e \notin reopened)
    <3>1. reopened' = reopened
      BY <2>2, <2>4
    <3>2. e \notin reopened => state[e] # "refunded"
      BY <2>2, <2>4 DEF Disputable
    <3>3. Unseen
      BY <2>1, <2>2, <3>1, <3>2 DEF Unseen, TypeOK
    <3> QED
      BY <3>3, UnseenStutters
  <2> QED
    BY <2>3, <2>4
<1>11. ASSUME NEW c \in Caller, VisitRow(c) PROVE Step
  BY <1>11, UnseenStutters DEF VisitRow, Unseen, row, money, TypeOK
<1>12. ASSUME NEW c \in Caller, CheckReturns(c) PROVE Step
  BY <1>12, UnseenStutters DEF CheckReturns, Unseen, row, money, TypeOK
<1>13. ASSUME NEW c \in Caller, Settle(c) PROVE Step
  <2>1. PICK e \in Escrow : e = job[c].escrow /\ job[c].via \in Route
    BY <1>13 DEF Settle, Job, Idle, TypeOK
  <2>2. state[e] \in Disputable \cup Disputed
    BY <1>13, <2>1, AllowedStates DEF Settle, MayRelease
  <2>3. /\ settles' = [settles EXCEPT ![e] = @ + 1]
        /\ \/ /\ state' = [state EXCEPT ![e] = "settled"]
              /\ paid' = [paid EXCEPT ![e] = @ + (FeeDue(e) + NetDue(e))]
           \/ /\ state' = [state EXCEPT ![e] = "release_instructed"]
              /\ paid' = paid
        /\ UNCHANGED <<returned, refunded, reopened>>
    BY <1>13, <2>1 DEF Settle
  <2>4. FeeDue(e) + NetDue(e) = Remaining(e)
    BY <2>1, DueIsRest DEF Money, TypeOK
  <2>5. /\ [f \in Escrow |-> Phase(f)]' = [[f \in Escrow |-> Phase(f)] EXCEPT ![e] = Phase(e)']
        /\ Kept(paid)' = [Kept(paid) EXCEPT ![e] = Kept(paid)'[e]]
        /\ Kept(returned)' = Kept(returned)
    BY <2>1, <2>3, AtOne DEF TypeOK, Kept
  <2>6. CASE e \in reopened
    <3>1. Phase(e)' = Phase(e) /\ Kept(paid)'[e] = Kept(paid)[e]
      BY <2>1, <2>3, <2>6 DEF Phase, Kept
    <3> QED
      BY <2>5, <3>1 DEF TrustOfRows!vars, Kept
  <2>7. CASE e \notin reopened
    <3>1. settles[e] = 0 /\ paid[e] = 0 /\ returned[e] = refunded[e]
      BY <2>1, <2>2, <2>7 DEF Money, Disputable, Disputed, Released
    <3>2. Phase(e) = "held"
      BY <2>2, <2>7, <3>1 DEF Phase, Exists, Disputable, Disputed
    <3>3. Phase(e)' = "released"
      BY <2>1, <2>3, <2>7, <3>1 DEF Phase, Exists, TypeOK
    <3>4. TrustOfRows!Rest(e) = Remaining(e)
      BY <2>1, <2>7, <3>1 DEF TrustOfRows!Rest, Kept, Remaining
    <3>5. paid'[e] \in {0, Remaining(e)}
      <4>1. Remaining(e) \in Int
        BY <2>1, AmountAssumption DEF Remaining, TypeOK
      <4> QED
        BY <2>1, <2>3, <2>4, <3>1, <4>1 DEF TypeOK
    <3>6. Kept(paid)'[e] \in {0, TrustOfRows!Rest(e)}
      BY <2>1, <2>3, <2>7, <3>4, <3>5 DEF Kept
    <3>7. TrustOfRows!Release(e)
      BY <2>5, <3>2, <3>3, <3>6 DEF TrustOfRows!Release
    <3> QED
      BY <2>1, <3>7 DEF TrustOfRows!Next
  <2> QED
    BY <2>6, <2>7
<1>14. ASSUME NEW c \in Caller, SettleFails(c) PROVE Step
  BY <1>14, UnseenStutters DEF SettleFails, Unseen, row, money, TypeOK
<1>15. ASSUME NEW c \in Caller, RefundJob(c) PROVE Step
  <2>1. job[c].escrow \in Escrow
    BY <1>15 DEF RefundJob, Job, Idle, TypeOK
  <2> QED
    BY <1>15, <2>1, RefundGivesBack DEF RefundJob
<1>16. ASSUME NEW c \in Caller, RefundJobFails(c) PROVE Step
  BY <1>16, UnseenStutters DEF RefundJobFails, Unseen, row, money, TypeOK
<1>17. ASSUME NEW c \in Caller, FileDispute(c) PROVE Step
  BY <1>17, UnseenStutters DEF FileDispute, Unseen, row, money, TypeOK
<1>18. ASSUME NEW c \in Caller, Park(c) PROVE Step
  BY <1>18, UnseenStutters DEF Park, Unseen, row, money, TypeOK
<1>19. ASSUME NEW c \in Caller, CloseDispute(c) PROVE Step
  BY <1>19, UnseenStutters DEF CloseDispute, Rule, Unseen, row, money, TypeOK
<1>20. ASSUME NEW c \in Caller, Crash(c) PROVE Step
  BY <1>20, UnseenStutters DEF Crash, Unseen, row, money, TypeOK
<1>21. ASSUME NEW e \in Escrow, NEW v \in BOOLEAN, CourierConfirm(e, v) PROVE Step
  BY <1>21, UnseenStutters DEF CourierConfirm, Unseen, row, money, TypeOK
<1>22. ASSUME NEW e \in Escrow, BankSettlementConfirmed(e) PROVE Step
  BY <1>22, UnseenStutters DEF BankSettlementConfirmed, Unseen, row, money, TypeOK
<1>23. ASSUME NEW e \in Escrow, InitiateRefund(e) PROVE Step
  BY <1>23, RefundGivesBack DEF InitiateRefund
<1>24. ASSUME NEW e \in Escrow, PspFreeze(e) PROVE Step
  BY <1>24, UnseenStutters DEF PspFreeze, Unseen, row, money, TypeOK, Disputable
<1>25. ASSUME NEW e \in Escrow, MerchantRespond(e) PROVE Step
  BY <1>25, UnseenStutters DEF MerchantRespond, Unseen, row, money, TypeOK
<1>26. ASSUME NEW e \in Escrow, Escalate(e) PROVE Step
  BY <1>26, UnseenStutters DEF Escalate, Unseen, row, money, TypeOK
<1>27. ASSUME NEW e \in Escrow, SweepEscalate(e) PROVE Step
  BY <1>27, UnseenStutters DEF SweepEscalate, Unseen, row, money, TypeOK
<1>28. ASSUME NEW m \in Switch, SetCustodyMode(m) PROVE Step
  BY <1>28, UnseenStutters DEF SetCustodyMode, Unseen, row, money, TypeOK
<1>29. CASE UNCHANGED vars
  BY <1>29, UnseenStutters DEF Unseen, vars, row, money
<1> QED
  BY <1>1, <1>2, <1>3, <1>4, <1>5, <1>6, <1>7, <1>8, <1>9, <1>10, <1>11, <1>12, <1>13,
     <1>14, <1>15, <1>16, <1>17, <1>18, <1>19, <1>20, <1>21, <1>22, <1>23, <1>24,
     <1>25, <1>26, <1>27, <1>28, <1>29
  DEF Next, Begin, Continue, Single

-----------------------------------------------------------------------------
\* The initial states satisfy every invariant.
LEMMA InitHolds == Init => TypeOK /\ Money /\ Decided /\ Frozen
  BY AmountAssumption
  DEF Init, TypeOK, Money, Decided, Frozen, OfDispute, Releasing, Filing, Idle, State,
      Mode, Disputable, Released

\* The variables keep their types, and with them the money facts the types of the
\* wallets rest on, in every reachable state.
THEOREM TypeCorrect == Spec => [](TypeOK /\ Money)
<1>1. TypeOK /\ Money /\ [Next]_vars => (TypeOK /\ Money)'
  BY TypeStep, MoneyStep
<1> QED
  BY InitHolds, <1>1, PTL DEF Spec

\* The books are kept in every reachable state.
LEMMA BooksKept == Spec => []Booked
<1>1. Init => Booked
  BY SumEmpty DEF Init, Booked, Pending, Waiting, BalanceBacksHolds, Idle
<1> QED
  BY TypeCorrect, BookedStep, <1>1, PTL DEF Spec

\* An escrow is released once and never pays out more than it holds.
THEOREM PaysOut == Spec => []PaysOutWhatItHolds
<1>1. TypeOK /\ Money => PaysOutWhatItHolds
  BY AmountAssumption DEF TypeOK, Money, PaysOutWhatItHolds
<1> QED
  BY TypeCorrect, <1>1, PTL

\* A dispute is decided once unless it is escalated after the decision.
THEOREM DecidesOnce == Spec => []DecidedOnce
<1>1. TypeOK /\ Money /\ Decided => DecidedOnce
  BY DEF Decided, DecidedOnce
<1> QED
  BY InitHolds, TypeCorrect, DecidedStep, <1>1, PTL DEF Spec

\* A disputed escrow reaches the merchant only through a ruling for the merchant.
THEOREM FreezesRelease == Spec => []DisputeFreezesRelease
<1>1. Frozen => DisputeFreezesRelease
  BY DEF Frozen, DisputeFreezesRelease
<1> QED
  BY InitHolds, TypeCorrect, FrozenStep, <1>1, PTL DEF Spec

\* The merchant's escrow balance is what its credited holds still have to give, for
\* any escrows and amounts: no shortfall is swallowed.
THEOREM BalanceIsBacked == Spec => []BalanceBacksHolds
<1>1. Booked => BalanceBacksHolds
  BY DEF Booked
<1> QED
  BY BooksKept, <1>1, PTL

\* Rows, wallets and handlers keep the promise of Trust: one release, of exactly
\* what refunds have left, and nothing after it.
THEOREM KeepsTrust == Spec => ImplementsTrust
<1>1. Init => TrustOfRows!Init
  BY DEF Init, TrustOfRows!Init, Phase, Exists, Kept
<1>2. Booked => Pending
  BY DEF Booked
<1> QED
  BY TypeCorrect, BooksKept, TrustStep, <1>1, <1>2, PTL
  DEF Spec, ImplementsTrust, TrustOfRows!Spec
===============================================================================
