--------------------------- MODULE WithdrawalProofs ---------------------------
(***************************************************************************)
(* Proofs of the safety properties of Withdrawal, for any number of         *)
(* requests, references, webhook deliveries, sweeps and rejections.         *)
(***************************************************************************)
EXTENDS Withdrawal, SumTheorems, TLAPS

\* A request between its debit and its end.
Started == {"debited", "verify", "unknown", "refund", "answered"}

\* Who owns a reference, and what nothing can have happened to before its debit.
Ownership ==
  /\ \A r \in Ref : debits[r] = IF Debited(r) THEN 1 ELSE 0
  /\ \A r \in Ref : Debited(r) => RefOf[owner[r]] = r
  /\ \A r \in Ref : ~Debited(r) => /\ payout[r] = "none" /\ status[r] = "none"
                                  /\ creditors[r] = {} /\ r \notin reopened
  /\ \A q \in Request : pc[q] \in Started => owner[RefOf[q]] = q
  /\ \A q \in Request : pc[q] \in {"idle", "checked"} => owner[RefOf[q]] # q
  /\ \A q \in Request : pc[q] = "debited" => payout[RefOf[q]] = "none"
  /\ \A w \in Worker : worker[w].pc # "idle" => Debited(worker[w].ref)
  /\ \A a \in Admin : admin[a].pc # "idle" => Debited(admin[a].ref)

\* Two ways to know that a transfer does not pay, each of which stays true.
Dead(r) == payout[r] \in {"failed", "reversed"}
Unpaid(r) == Stale(r) /\ payout[r] \notin Live

OnPaystack(r) == RailOf[owner[r]] = "paystack"

\* The evidence behind each refund that is issued or about to be.
Evidence ==
  /\ \A q \in Request : pc[q] = "refund" => payout[RefOf[q]] \notin Live
  /\ \A w \in Worker : worker[w].pc # "idle" =>
        /\ worker[w].source = "sweep" \/ worker[w].pc = "verify" => Stale(worker[w].ref)
        /\ worker[w].event = "failed" \/ worker[w].pc = "credit" =>
             /\ worker[w].source = "webhook" => Dead(worker[w].ref)
             /\ worker[w].source = "sweep" /\ OnPaystack(worker[w].ref) =>
                  Unpaid(worker[w].ref)
  /\ \A r \in Ref : /\ "request" \in creditors[r] => Unpaid(r)
                    /\ "webhook" \in creditors[r] => Dead(r)
                    /\ "sweep" \in creditors[r] /\ OnPaystack(r) => Unpaid(r)

\* A row no unguarded write reopened and nobody rejected.
Undisturbed(r) == r \notin reopened /\ "reject" \notin creditors[r]
Crediting(w, r) == worker[w].pc = "credit" /\ worker[w].ref = r

\* The claim on such a row is a lock: it is marked failed, uncredited, and one
\* finalizer at most is about to credit it.
ClaimExclusive ==
  \A r \in Ref :
    /\ credits[r] = 0 => creditors[r] = {}
    /\ status[r] = "rejected" => "reject" \in creditors[r]
    /\ Undisturbed(r) =>
         /\ credits[r] <= 1
         /\ status[r] # "failed" => credits[r] = 0
         /\ \A w \in Worker : Crediting(w, r) =>
              /\ status[r] = "failed" /\ credits[r] = 0
              /\ \A v \in Worker : Crediting(v, r) => v = w

\* The adapters report one of the outcomes a request records.
LEMMA ReportedOutcomes ==
  \A p : Reported(p) \subseteq {"pending", "processing", "otp", "success"}
  BY DEF Reported

\* Every step keeps the types.
LEMMA TypeStep == TypeOK /\ Ownership /\ [Next]_vars => TypeOK'
<1> SUFFICES ASSUME TypeOK, Ownership, [Next]_vars PROVE TypeOK'
  OBVIOUS
<1> USE RequestAssumption, WorkerAssumption
        DEF TypeOK, Job, Ruling, Started, wallet, row, history, Idle, Worker, Status,
        Terminal, Payout, Live, Source, PcLabel, Amount, Debited, Ownership
<1>1. ASSUME NEW q \in Request, FindExisting(q) PROVE TypeOK'
  BY <1>1 DEF FindExisting, Goto
<1>2. ASSUME NEW q \in Request, Debit(q) PROVE TypeOK'
  <2>1. RefOf[q] \in Ref /\ AmountOf[q] \in Nat
    OBVIOUS
  <2>2. /\ avail' \in Nat /\ withdrawn' \in Int
        /\ flagged' = flagged
    BY <1>2, <2>1 DEF Debit, Affordable
  <2>3. owner' \in [Ref -> Request \cup {NoRequest}]
    BY <1>2, <2>1 DEF Debit
  <2>4. status' \in [Ref -> Status]
    BY <1>2, <2>1 DEF Debit
  <2>5. debits' \in [Ref -> Nat] /\ pc' \in [Request -> PcLabel]
    BY <1>2, <2>1 DEF Debit, Goto
  <2> QED
    BY <1>2, <2>2, <2>3, <2>4, <2>5 DEF Debit
<1>3. ASSUME NEW q \in Request, CallRail(q) PROVE TypeOK'
  <2>1. payout' \in [Ref -> Payout] /\ pc' \in [Request -> PcLabel]
    BY <1>3 DEF CallRail, Goto, Accepts
  <2>2. seen' \in [Request -> {"pending", "processing", "otp", "success"}]
    BY <1>3, ReportedOutcomes DEF CallRail
  <2> QED
    BY <1>3, <2>1, <2>2 DEF CallRail
<1>4. ASSUME NEW q \in Request, VerifyRail(q) PROVE TypeOK'
  <2>1. pc' \in [Request -> PcLabel]
    BY <1>4 DEF VerifyRail, Goto
  <2>2. seen' \in [Request -> {"pending", "processing", "otp", "success"}]
    BY <1>4, ReportedOutcomes DEF VerifyRail
  <2> QED
    BY <1>4, <2>1, <2>2 DEF VerifyRail
<1>5. ASSUME NEW q \in Request, MarkUncertain(q) PROVE TypeOK'
  BY <1>5 DEF MarkUncertain, Goto, Overwrite
<1>6. ASSUME NEW q \in Request, RefundFailed(q) PROVE TypeOK'
  <2>1. Amount(RefOf[q]) \in Nat /\ AmountOf[q] \in Nat /\ RefOf[q] \in Ref
    BY <1>6 DEF RefundFailed
  <2> QED
    BY <1>6, <2>1, SMTT(20) DEF RefundFailed, Goto, Credit
<1>7. ASSUME NEW q \in Request, RecordOutcome(q) PROVE TypeOK'
  BY <1>7 DEF RecordOutcome, Goto, Overwrite
<1>8. ASSUME NEW q \in Request, CrashRequest(q) PROVE TypeOK'
  BY <1>8 DEF CrashRequest, Goto
<1>9. ASSUME NEW w \in Worker, VerifyStale(w) PROVE TypeOK'
  <2>1. worker[w].ref \in Ref
    BY <1>9 DEF VerifyStale
  <2>2. worker'[w] \in {Idle} \cup Job /\ worker' = [worker EXCEPT ![w] = worker'[w]]
    BY <1>9, <2>1 DEF VerifyStale, At
  <2> QED
    BY <1>9, <2>2 DEF VerifyStale
<1>10. ASSUME NEW w \in Worker, ReadRow(w) PROVE TypeOK'
  <2>1. flagged' \in [Ref -> BOOLEAN]
    <3>1. flagged' = flagged \/ \E b \in BOOLEAN : flagged' = [flagged EXCEPT ![worker[w].ref] = b]
      BY <1>10, Zenon DEF ReadRow
    <3> QED
      BY <3>1
  <2>2. worker[w].ref \in Ref /\ worker[w].event \in {"none", "success", "failed"}
        /\ worker[w].source \in {"webhook", "sweep", "otp"}
    BY <1>10 DEF ReadRow
  <2>3. worker' \in [Worker -> {Idle} \cup Job]
    BY <1>10, <2>2 DEF ReadRow
  <2> QED
    BY <1>10, <2>1, <2>3 DEF ReadRow
<1>11. ASSUME NEW w \in Worker, ClaimRow(w) PROVE TypeOK'
  BY <1>11, SMTT(20) DEF ClaimRow, Idle, Claimable
<1>12. ASSUME NEW w \in Worker, CreditWallet(w) PROVE TypeOK'
  BY <1>12 DEF CreditWallet, Credit, Idle
<1>13. ASSUME NEW w \in Worker, CrashWorker(w) PROVE TypeOK'
  BY <1>13 DEF CrashWorker, Idle
<1>14. ASSUME NEW h \in Hook, NEW r \in Ref, Deliver(h, r) PROVE TypeOK'
  BY <1>14 DEF Deliver, At, Events
<1>15. ASSUME NEW s \in Sweeper, NEW r \in Ref, ScanStale(s, r) PROVE TypeOK'
  BY <1>15 DEF ScanStale, At, Idle, Verifiable
<1>16. ASSUME NEW a \in Admin, NEW r \in Ref, ReadForReject(a, r) PROVE TypeOK'
  BY <1>16 DEF ReadForReject, Idle
<1>17. ASSUME NEW a \in Admin, Reject(a) PROVE TypeOK'
  <2>1. /\ admin[a].ref \in Ref /\ admin[a].withdrawn \in Int /\ admin[a].flagged \in BOOLEAN
        /\ Amount(admin[a].ref) \in Nat
    BY <1>17 DEF Reject
  <2>2. admin' \in [Admin -> {Idle} \cup Ruling]
    BY <1>17 DEF Reject
  <2>3. avail' \in Nat /\ withdrawn' \in Int
    BY <1>17, <2>1 DEF Reject, Credit
  <2>4. flagged' \in [Ref -> BOOLEAN] /\ status' \in [Ref -> Status]
    BY <1>17, <2>1 DEF Reject
  <2>5. credits' \in [Ref -> Nat] /\ creditors' \in [Ref -> SUBSET Source]
    BY <1>17, <2>1, SMTT(20) DEF Reject, Credit
  <2> QED
    BY <1>17, <2>2, <2>3, <2>4, <2>5 DEF Reject
<1>18. ASSUME NEW r \in Ref, Provider(r) PROVE TypeOK'
  BY <1>18 DEF Provider
<1>19. CASE UNCHANGED vars
  BY <1>19 DEF vars
<1> HIDE DEF TypeOK, Job, Ruling, Started, wallet, row, history, Idle, Worker, Status,
        Terminal, Payout, Live, Source, PcLabel, Amount, Debited, Ownership
<1> QED
  BY <1>1, <1>2, <1>3, <1>4, <1>5, <1>6, <1>7, <1>8, <1>9, <1>10, <1>11, <1>12, <1>13,
     <1>14, <1>15, <1>16, <1>17, <1>18, <1>19 DEF Next, RequestStep, WorkerStep

\* Every step keeps the facts about owners.
LEMMA OwnershipStep == TypeOK /\ Ownership /\ [Next]_vars => Ownership'
<1> SUFFICES ASSUME TypeOK, Ownership, [Next]_vars PROVE Ownership'
  OBVIOUS
<1> USE RequestAssumption, WorkerAssumption
        DEF TypeOK, Job, Ruling, Ownership, Started, wallet, row, history, Idle, Worker,
        Debited
<1>1. ASSUME NEW q \in Request, FindExisting(q) PROVE Ownership'
  BY <1>1 DEF FindExisting, Goto
<1>2. ASSUME NEW q \in Request, Debit(q) PROVE Ownership'
  BY <1>2 DEF Debit, Goto, Affordable, Taken
<1>3. ASSUME NEW q \in Request, CallRail(q) PROVE Ownership'
  <2>1. owner[RefOf[q]] = q /\ RefOf[q] \in Ref
    BY <1>3 DEF CallRail
  <2>2. /\ UNCHANGED <<owner, status, creditors, reopened, debits, worker, admin>>
        /\ pc'[q] \in {"answered", "verify"}
        /\ \A p \in Request \ {q} : pc'[p] = pc[p]
        /\ \A r \in Ref \ {RefOf[q]} : payout'[r] = payout[r]
    BY <1>3, <2>1 DEF CallRail, Goto
  <2> QED
    BY <2>1, <2>2
<1>4. ASSUME NEW q \in Request, VerifyRail(q) PROVE Ownership'
  BY <1>4 DEF VerifyRail, Goto, Reported, Refundable
<1>5. ASSUME NEW q \in Request, MarkUncertain(q) PROVE Ownership'
  BY <1>5 DEF MarkUncertain, Goto, Overwrite
<1>6. ASSUME NEW q \in Request, RefundFailed(q) PROVE Ownership'
  BY <1>6 DEF RefundFailed, Goto, Credit, Claimable
<1>7. ASSUME NEW q \in Request, RecordOutcome(q) PROVE Ownership'
  BY <1>7 DEF RecordOutcome, Goto, Overwrite
<1>8. ASSUME NEW q \in Request, CrashRequest(q) PROVE Ownership'
  BY <1>8 DEF CrashRequest, Goto
<1>9. ASSUME NEW w \in Worker, VerifyStale(w) PROVE Ownership'
  BY <1>9 DEF VerifyStale, At, Idle, Refundable, AtPaystack
<1>10. ASSUME NEW w \in Worker, ReadRow(w) PROVE Ownership'
  BY <1>10 DEF ReadRow, Idle
<1>11. ASSUME NEW w \in Worker, ClaimRow(w) PROVE Ownership'
  BY <1>11 DEF ClaimRow, Idle, Claimable
<1>12. ASSUME NEW w \in Worker, CreditWallet(w) PROVE Ownership'
  BY <1>12 DEF CreditWallet, Credit, Idle
<1>13. ASSUME NEW w \in Worker, CrashWorker(w) PROVE Ownership'
  BY <1>13 DEF CrashWorker, Idle
<1>14. ASSUME NEW h \in Hook, NEW r \in Ref, Deliver(h, r) PROVE Ownership'
  BY <1>14 DEF Deliver, At, Events
<1>15. ASSUME NEW s \in Sweeper, NEW r \in Ref, ScanStale(s, r) PROVE Ownership'
  BY <1>15, SMTT(20) DEF ScanStale, At, Idle, Verifiable
<1>16. ASSUME NEW a \in Admin, NEW r \in Ref, ReadForReject(a, r) PROVE Ownership'
  BY <1>16 DEF ReadForReject, Idle
<1>17. ASSUME NEW a \in Admin, Reject(a) PROVE Ownership'
  BY <1>17 DEF Reject, Idle, Credit
<1>18. ASSUME NEW r \in Ref, Provider(r) PROVE Ownership'
  BY <1>18 DEF Provider
<1>19. CASE UNCHANGED vars
  BY <1>19, SMTT(20) DEF vars
<1> HIDE DEF TypeOK, Job, Ruling, Ownership, Started, wallet, row, history, Idle,
        Worker, Debited
<1> QED
  BY <1>1, <1>2, <1>3, <1>4, <1>5, <1>6, <1>7, <1>8, <1>9, <1>10, <1>11, <1>12, <1>13,
     <1>14, <1>15, <1>16, <1>17, <1>18, <1>19 DEF Next, RequestStep, WorkerStep

\* Every step keeps the evidence for refunds.
LEMMA EvidenceStep == TypeOK /\ Ownership /\ Evidence /\ [Next]_vars => Evidence'
<1> SUFFICES ASSUME TypeOK, Ownership, Evidence, [Next]_vars PROVE Evidence'
  OBVIOUS
<1> USE RequestAssumption, WorkerAssumption
        DEF TypeOK, Job, Ruling, Ownership, Started, wallet, row, history, Idle, Worker,
        Debited, Evidence, Dead, Unpaid, Stale, OnPaystack, Live, Source
<1>1. ASSUME NEW q \in Request, FindExisting(q) PROVE Evidence'
  BY <1>1 DEF FindExisting, Goto
<1>2. ASSUME NEW q \in Request, Debit(q) PROVE Evidence'
  <2>1. \A x \in Ref : ~Debited(x) => creditors[x] = {}
    OBVIOUS
  <2> QED
    BY <1>2, <2>1, SMTT(20) DEF Debit, Goto, Taken
<1>3. ASSUME NEW q \in Request, CallRail(q) PROVE Evidence'
  <2>1. owner[RefOf[q]] = q /\ RefOf[q] \in Ref
    BY <1>3 DEF CallRail
  <2>2. /\ UNCHANGED <<owner, creditors, worker>>
        /\ pc'[q] \in {"answered", "verify"}
        /\ \A p \in Request \ {q} : pc'[p] = pc[p]
        /\ \A r \in Ref \ {RefOf[q]} : payout'[r] = payout[r]
    BY <1>3, <2>1 DEF CallRail, Goto
  <2>3. pc[q] = "debited" /\ payout[RefOf[q]] = "none"
    BY <1>3 DEF CallRail
  <2> QED
    BY <2>1, <2>2, <2>3
<1>4. ASSUME NEW q \in Request, VerifyRail(q) PROVE Evidence'
  BY <1>4 DEF VerifyRail, Goto, Reported, Refundable
<1>5. ASSUME NEW q \in Request, MarkUncertain(q) PROVE Evidence'
  BY <1>5 DEF MarkUncertain, Goto, Overwrite
<1>6. ASSUME NEW q \in Request, RefundFailed(q) PROVE Evidence'
  BY <1>6 DEF RefundFailed, Goto, Credit, Claimable
<1>7. ASSUME NEW q \in Request, RecordOutcome(q) PROVE Evidence'
  BY <1>7 DEF RecordOutcome, Goto, Overwrite
<1>8. ASSUME NEW q \in Request, CrashRequest(q) PROVE Evidence'
  BY <1>8 DEF CrashRequest, Goto
<1>9. ASSUME NEW w \in Worker, VerifyStale(w) PROVE Evidence'
  BY <1>9 DEF VerifyStale, At, Idle, Refundable, AtPaystack
<1>10. ASSUME NEW w \in Worker, ReadRow(w) PROVE Evidence'
  BY <1>10 DEF ReadRow, Idle
<1>11. ASSUME NEW w \in Worker, ClaimRow(w) PROVE Evidence'
  BY <1>11 DEF ClaimRow, Idle, Claimable
<1>12. ASSUME NEW w \in Worker, CreditWallet(w) PROVE Evidence'
  BY <1>12 DEF CreditWallet, Credit, Idle
<1>13. ASSUME NEW w \in Worker, CrashWorker(w) PROVE Evidence'
  BY <1>13 DEF CrashWorker, Idle
<1>14. ASSUME NEW h \in Hook, NEW r \in Ref, Deliver(h, r) PROVE Evidence'
  BY <1>14 DEF Deliver, At, Events
<1>15. ASSUME NEW s \in Sweeper, NEW r \in Ref, ScanStale(s, r) PROVE Evidence'
  BY <1>15, SMTT(20) DEF ScanStale, At, Idle, Verifiable
<1>16. ASSUME NEW a \in Admin, NEW r \in Ref, ReadForReject(a, r) PROVE Evidence'
  BY <1>16 DEF ReadForReject, Idle
<1>17. ASSUME NEW a \in Admin, Reject(a) PROVE Evidence'
  BY <1>17 DEF Reject, Idle, Credit
<1>18. ASSUME NEW r \in Ref, Provider(r) PROVE Evidence'
  BY <1>18 DEF Provider
<1>19. CASE UNCHANGED vars
  BY <1>19 DEF vars
<1> HIDE DEF TypeOK, Job, Ruling, Ownership, Started, wallet, row, history, Idle,
        Worker, Debited, Evidence, Dead, Unpaid, Stale, OnPaystack, Live, Source
<1> QED
  BY <1>1, <1>2, <1>3, <1>4, <1>5, <1>6, <1>7, <1>8, <1>9, <1>10, <1>11, <1>12, <1>13,
     <1>14, <1>15, <1>16, <1>17, <1>18, <1>19 DEF Next, RequestStep, WorkerStep

\* Every step keeps the claims exclusive.
LEMMA ClaimStep == TypeOK /\ Ownership /\ ClaimExclusive /\ [Next]_vars => ClaimExclusive'
<1> SUFFICES ASSUME TypeOK, Ownership, ClaimExclusive, [Next]_vars PROVE ClaimExclusive'
  OBVIOUS
<1> USE RequestAssumption, WorkerAssumption
        DEF TypeOK, Job, Ruling, Ownership, Started, wallet, row, history, Idle, Worker,
        Debited, ClaimExclusive, Undisturbed, Crediting, Terminal
<1>1. ASSUME NEW q \in Request, FindExisting(q) PROVE ClaimExclusive'
  BY <1>1 DEF FindExisting, Goto
<1>2. ASSUME NEW q \in Request, Debit(q) PROVE ClaimExclusive'
  BY <1>2 DEF Debit, Goto, Affordable, Taken
<1>3. ASSUME NEW q \in Request, CallRail(q) PROVE ClaimExclusive'
  BY <1>3 DEF CallRail, Goto, Accepts, Reported, Live
<1>4. ASSUME NEW q \in Request, VerifyRail(q) PROVE ClaimExclusive'
  BY <1>4 DEF VerifyRail, Goto, Reported, Refundable
<1>5. ASSUME NEW q \in Request, MarkUncertain(q) PROVE ClaimExclusive'
  BY <1>5 DEF MarkUncertain, Goto, Overwrite
<1>6. ASSUME NEW q \in Request, RefundFailed(q) PROVE ClaimExclusive'
  BY <1>6 DEF RefundFailed, Goto, Credit, Claimable
<1>7. ASSUME NEW q \in Request, RecordOutcome(q) PROVE ClaimExclusive'
  BY <1>7 DEF RecordOutcome, Goto, Overwrite
<1>8. ASSUME NEW q \in Request, CrashRequest(q) PROVE ClaimExclusive'
  BY <1>8 DEF CrashRequest, Goto
<1>9. ASSUME NEW w \in Worker, VerifyStale(w) PROVE ClaimExclusive'
  <2>1. \A v \in Worker, x \in Ref : Crediting(v, x)' => Crediting(v, x)
    BY <1>9, SMTT(20) DEF VerifyStale, At
  <2> QED
    BY <1>9, <2>1 DEF VerifyStale
<1>10. ASSUME NEW w \in Worker, ReadRow(w) PROVE ClaimExclusive'
  BY <1>10, SMTT(20) DEF ReadRow, Idle
<1>11. ASSUME NEW w \in Worker, ClaimRow(w) PROVE ClaimExclusive'
  BY <1>11, SMTT(20) DEF ClaimRow, Idle, Claimable
<1>12. ASSUME NEW w \in Worker, CreditWallet(w) PROVE ClaimExclusive'
  BY <1>12 DEF CreditWallet, Credit, Idle
<1>13. ASSUME NEW w \in Worker, CrashWorker(w) PROVE ClaimExclusive'
  BY <1>13 DEF CrashWorker, Idle
<1>14. ASSUME NEW h \in Hook, NEW r \in Ref, Deliver(h, r) PROVE ClaimExclusive'
  BY <1>14 DEF Deliver, At, Events
<1>15. ASSUME NEW s \in Sweeper, NEW r \in Ref, ScanStale(s, r) PROVE ClaimExclusive'
  <2>1. \A v \in Worker, x \in Ref : Crediting(v, x)' => Crediting(v, x)
    BY <1>15 DEF ScanStale, At
  <2> QED
    BY <1>15, <2>1 DEF ScanStale
<1>16. ASSUME NEW a \in Admin, NEW r \in Ref, ReadForReject(a, r) PROVE ClaimExclusive'
  BY <1>16 DEF ReadForReject, Idle
<1>17. ASSUME NEW a \in Admin, Reject(a) PROVE ClaimExclusive'
  BY <1>17 DEF Reject, Idle, Credit
<1>18. ASSUME NEW r \in Ref, Provider(r) PROVE ClaimExclusive'
  BY <1>18 DEF Provider
<1>19. CASE UNCHANGED vars
  BY <1>19 DEF vars
<1> HIDE DEF TypeOK, Job, Ruling, Ownership, Started, wallet, row, history, Idle,
        Worker, Debited, ClaimExclusive, Undisturbed, Crediting, Terminal
<1> QED
  BY <1>1, <1>2, <1>3, <1>4, <1>5, <1>6, <1>7, <1>8, <1>9, <1>10, <1>11, <1>12, <1>13,
     <1>14, <1>15, <1>16, <1>17, <1>18, <1>19 DEF Next, RequestStep, WorkerStep

\* Every step keeps failed rows refunded or about to be.
LEMMA RefundStep == TypeOK /\ Ownership /\ FailedIsRefunded /\ [Next]_vars => FailedIsRefunded'
<1> SUFFICES ASSUME TypeOK, Ownership, FailedIsRefunded, [Next]_vars PROVE FailedIsRefunded'
  OBVIOUS
<1> USE RequestAssumption, WorkerAssumption
        DEF TypeOK, Job, Ruling, Ownership, Started, wallet, row, history, Idle, Worker,
        Debited, FailedIsRefunded, Terminal
<1>1. ASSUME NEW q \in Request, FindExisting(q) PROVE FailedIsRefunded'
  BY <1>1 DEF FindExisting, Goto
<1>2. ASSUME NEW q \in Request, Debit(q) PROVE FailedIsRefunded'
  BY <1>2 DEF Debit, Goto, Affordable, Taken
<1>3. ASSUME NEW q \in Request, CallRail(q) PROVE FailedIsRefunded'
  BY <1>3 DEF CallRail, Goto, Accepts, Reported, Live
<1>4. ASSUME NEW q \in Request, VerifyRail(q) PROVE FailedIsRefunded'
  BY <1>4 DEF VerifyRail, Goto, Reported, Refundable
<1>5. ASSUME NEW q \in Request, MarkUncertain(q) PROVE FailedIsRefunded'
  BY <1>5 DEF MarkUncertain, Goto, Overwrite
<1>6. ASSUME NEW q \in Request, RefundFailed(q) PROVE FailedIsRefunded'
  BY <1>6 DEF RefundFailed, Goto, Credit, Claimable
<1>7. ASSUME NEW q \in Request, RecordOutcome(q) PROVE FailedIsRefunded'
  BY <1>7 DEF RecordOutcome, Goto, Overwrite
<1>8. ASSUME NEW q \in Request, CrashRequest(q) PROVE FailedIsRefunded'
  BY <1>8 DEF CrashRequest, Goto
<1>9. ASSUME NEW w \in Worker, VerifyStale(w) PROVE FailedIsRefunded'
  <2>1. worker[w].pc = "verify" /\ \A v \in Worker : v # w => worker'[v] = worker[v]
    BY <1>9 DEF VerifyStale
  <2> QED
    BY <1>9, <2>1 DEF VerifyStale
<1>10. ASSUME NEW w \in Worker, ReadRow(w) PROVE FailedIsRefunded'
  <2>1. worker[w].pc = "read" /\ \A v \in Worker : v # w => worker'[v] = worker[v]
    BY <1>10 DEF ReadRow
  <2> QED
    BY <1>10, <2>1 DEF ReadRow
<1>11. ASSUME NEW w \in Worker, ClaimRow(w) PROVE FailedIsRefunded'
  BY <1>11, SMTT(20) DEF ClaimRow, Idle, Claimable
<1>12. ASSUME NEW w \in Worker, CreditWallet(w) PROVE FailedIsRefunded'
  BY <1>12 DEF CreditWallet, Credit, Idle
<1>13. ASSUME NEW w \in Worker, CrashWorker(w) PROVE FailedIsRefunded'
  BY <1>13 DEF CrashWorker
<1>14. ASSUME NEW h \in Hook, NEW r \in Ref, Deliver(h, r) PROVE FailedIsRefunded'
  BY <1>14 DEF Deliver, At, Events
<1>15. ASSUME NEW s \in Sweeper, NEW r \in Ref, ScanStale(s, r) PROVE FailedIsRefunded'
  BY <1>15 DEF ScanStale, At, Idle, Verifiable
<1>16. ASSUME NEW a \in Admin, NEW r \in Ref, ReadForReject(a, r) PROVE FailedIsRefunded'
  BY <1>16 DEF ReadForReject, Idle
<1>17. ASSUME NEW a \in Admin, Reject(a) PROVE FailedIsRefunded'
  BY <1>17 DEF Reject, Idle, Credit
<1>18. ASSUME NEW r \in Ref, Provider(r) PROVE FailedIsRefunded'
  BY <1>18 DEF Provider
<1>19. CASE UNCHANGED vars
  BY <1>19 DEF vars
<1> HIDE DEF TypeOK, Job, Ruling, Ownership, Started, wallet, history, Idle, Worker,
        Debited, FailedIsRefunded, Terminal
<1> QED
  BY <1>1, <1>2, <1>3, <1>4, <1>5, <1>6, <1>7, <1>8, <1>9, <1>10, <1>11, <1>12, <1>13,
     <1>14, <1>15, <1>16, <1>17, <1>18, <1>19 DEF Next, RequestStep, WorkerStep

-----------------------------------------------------------------------------
(* The promise of Disbursement *)

\* A step on the row of one debited call changes the fate of no other.
LEMMA OneFate ==
  ASSUME TypeOK, NEW q \in Request, owner[RefOf[q]] = q, owner' = owner,
         \A s \in Ref \ {RefOf[q]} :
           /\ creditors'[s] = creditors[s]
           /\ payout'[s] = payout[s]
           /\ s \in reopened' <=> s \in reopened
  PROVE  [p \in Request |-> Fate(p)]' = [[p \in Request |-> Fate(p)] EXCEPT ![q] = Fate(q)']
<1>1. ASSUME NEW p \in Request, p # q PROVE Fate(p)' = Fate(p)
  <2>1. CASE RefOf[p] = RefOf[q]
    BY <1>1, <2>1 DEF Fate
  <2>2. CASE RefOf[p] # RefOf[q]
    <3>1. Excepted(RefOf[p])' <=> Excepted(RefOf[p])
      BY <2>2, RequestAssumption DEF Excepted
    <3> QED
      BY <2>2, <3>1, RequestAssumption DEF Fate
  <2> QED
    BY <2>1, <2>2
<1> QED
  BY <1>1

\* Nothing that came back can still be paid.
LEMMA NeverTwice == TypeOK /\ Evidence => \A q \in Request : Fate(q) # "twice"
  BY RequestAssumption
  DEF TypeOK, Evidence, Fate, Excepted, OnPaystack, Dead, Unpaid, Live, Source

\* Nor in the next state, when that is as sound.
LEMMA NorNext == (TypeOK /\ Evidence)' => (\A q \in Request : Fate(q) # "twice")'
  BY NeverTwice, PTL

\* A step that leaves the wallet and the rows' history alone, and moves at most the
\* transfer of one debited call.
LEMMA TransferMoves ==
  ASSUME TypeOK, TypeOK', Evidence, Evidence', NEW q \in Request, owner[RefOf[q]] = q,
         UNCHANGED <<avail, owner, creditors, reopened>>,
         \A s \in Ref \ {RefOf[q]} : payout'[s] = payout[s]
  PROVE  [DisbursementOfWallet!Next]_(DisbursementOfWallet!vars)
<1>1. [p \in Request |-> Fate(p)]' = [[p \in Request |-> Fate(p)] EXCEPT ![q] = Fate(q)']
  BY OneFate
<1>2. \/ Fate(q)' = Fate(q)
      \/ Fate(q) = "out" /\ Fate(q)' = "paid"
      \/ Fate(q) = "paid" /\ Fate(q)' = "out"
  <2>1. Fate(q) # "twice"
    BY NeverTwice
  <2>2. Fate(q)' # "twice"
    BY NorNext
  <2> QED
    BY <2>1, <2>2 DEF Fate, Excepted
<1>3. CASE Fate(q)' = Fate(q)
  BY <1>1, <1>3 DEF DisbursementOfWallet!vars
<1>4. CASE Fate(q) = "out" /\ Fate(q)' = "paid"
  <2>1. DisbursementOfWallet!Arrive(q)
    BY <1>1, <1>4 DEF DisbursementOfWallet!Arrive
  <2> QED
    BY <2>1 DEF DisbursementOfWallet!Next
<1>5. CASE Fate(q) = "paid" /\ Fate(q)' = "out"
  <2>1. DisbursementOfWallet!Bounce(q)
    BY <1>1, <1>5 DEF DisbursementOfWallet!Bounce
  <2> QED
    BY <2>1 DEF DisbursementOfWallet!Next
<1> QED
  BY <1>2, <1>3, <1>4, <1>5

\* A credit is the amount coming back, once and unpaid, or breaks the promise.
LEMMA CreditMoves ==
  ASSUME TypeOK, NEW q \in Request, owner[RefOf[q]] = q, NEW source,
         Credit(RefOf[q], source), UNCHANGED <<owner, payout, reopened>>,
         ~Excepted(RefOf[q])' => payout[RefOf[q]] \notin Live /\ creditors[RefOf[q]] = {}
  PROVE  [DisbursementOfWallet!Next]_(DisbursementOfWallet!vars)
<1> DEFINE r == RefOf[q]
<1>1. /\ r \in Ref /\ avail' = avail + AmountOf[q]
      /\ creditors'[r] = creditors[r] \cup {source}
      /\ \A s \in Ref \ {r} : creditors'[s] = creditors[s]
  BY RequestAssumption DEF Credit, Amount, TypeOK
<1>2. [p \in Request |-> Fate(p)]' = [[p \in Request |-> Fate(p)] EXCEPT ![q] = Fate(q)']
  BY <1>1, OneFate
<1>3. CASE Excepted(r)'
  <2>1. Fate(q) # "home" /\ Fate(q)' = "broken"
    BY <1>3 DEF Fate
  <2>2. DisbursementOfWallet!Break(q)
    BY <1>1, <1>2, <2>1 DEF DisbursementOfWallet!Break
  <2> QED
    BY <2>2 DEF DisbursementOfWallet!Next
<1>4. CASE ~Excepted(r)'
  <2>1. ~Excepted(r)
    BY <1>1, <1>4 DEF Excepted
  <2>2. Fate(q) = "out" /\ Fate(q)' = "back"
    BY <1>1, <1>4, <2>1 DEF Fate, Live
  <2>3. DisbursementOfWallet!ComeBack(q)
    BY <1>1, <1>2, <2>2 DEF DisbursementOfWallet!ComeBack
  <2> QED
    BY <2>3 DEF DisbursementOfWallet!Next
<1> QED
  BY <1>3, <1>4

\* An unguarded write of a status breaks the promise where it reopens a row.
LEMMA OverwriteMoves ==
  ASSUME TypeOK, NEW q \in Request, owner[RefOf[q]] = q, NEW s, Overwrite(RefOf[q], s),
         UNCHANGED <<avail, owner, payout, creditors>>
  PROVE  [DisbursementOfWallet!Next]_(DisbursementOfWallet!vars)
<1>1. [p \in Request |-> Fate(p)]' = [[p \in Request |-> Fate(p)] EXCEPT ![q] = Fate(q)']
  BY OneFate DEF Overwrite
<1>2. CASE RefOf[q] \in reopened'
  <2>1. Fate(q) # "home" /\ Fate(q)' = "broken"
    BY <1>2 DEF Fate, Excepted
  <2>2. DisbursementOfWallet!Break(q)
    BY <1>1, <2>1, RequestAssumption DEF DisbursementOfWallet!Break
  <2> QED
    BY <2>2 DEF DisbursementOfWallet!Next
<1>3. CASE RefOf[q] \notin reopened'
  <2>1. Fate(q)' = Fate(q)
    BY <1>3 DEF Fate, Excepted, Overwrite
  <2> QED
    BY <1>1, <2>1 DEF DisbursementOfWallet!vars
<1> QED
  BY <1>2, <1>3

\* A step that moves nothing the promise speaks of.
LEMMA NothingMoves ==
  UNCHANGED <<avail, owner, payout, creditors, reopened>>
    => UNCHANGED DisbursementOfWallet!vars
<1> SUFFICES ASSUME UNCHANGED <<avail, owner, payout, creditors, reopened>>
             PROVE  UNCHANGED DisbursementOfWallet!vars
  OBVIOUS
<1>1. \A p \in Request : Fate(p)' = Fate(p)
  BY DEF Fate, Excepted
<1> QED
  BY <1>1 DEF DisbursementOfWallet!vars

\* Each step is a step of Disbursement, or one the merchant does not see.
LEMMA DisbursementStep ==
  TypeOK /\ TypeOK' /\ Ownership /\ Evidence /\ Evidence' /\ ClaimExclusive /\ [Next]_vars =>
    [DisbursementOfWallet!Next]_(DisbursementOfWallet!vars)
<1> DEFINE Step == [DisbursementOfWallet!Next]_(DisbursementOfWallet!vars)
<1> SUFFICES ASSUME TypeOK, TypeOK', Ownership, Evidence, Evidence', ClaimExclusive,
                    [Next]_vars
             PROVE  Step
  OBVIOUS
<1>0. \A q \in Request : RefOf[q] \in Ref
  BY RequestAssumption
<1>1. ASSUME NEW q \in Request, FindExisting(q) PROVE Step
  BY <1>1, NothingMoves DEF FindExisting, wallet, row, history
<1>2. ASSUME NEW q \in Request, Debit(q) PROVE Step
  <2> DEFINE r == RefOf[q]
  <2>1. CASE Taken(q) \/ ~Affordable(q)
    BY <1>2, <2>1, NothingMoves DEF Debit, wallet, row
  <2>2. CASE ~Taken(q) /\ Affordable(q)
    <3>1. /\ ~Debited(r) /\ avail >= AmountOf[q] /\ avail' = avail - AmountOf[q]
          /\ owner' = [owner EXCEPT ![r] = q]
          /\ UNCHANGED <<payout, creditors, reopened>>
      BY <1>2, <2>2 DEF Debit, Taken, Affordable
    <3>2. payout[r] = "none" /\ creditors[r] = {} /\ r \notin reopened
      BY <1>0, <3>1 DEF Ownership
    <3>4. \A p \in Request : RefOf[p] = r => Fate(p) = "home"
      BY <3>1, RequestAssumption DEF Debited, Fate
    <3>5. Fate(q)' = "out"
      BY <1>0, <3>1, <3>2 DEF Fate, Excepted, TypeOK
    <3>6. ASSUME NEW p \in Request, p # q PROVE Fate(p)' = Fate(p)
      <4>1. CASE RefOf[p] = r
        BY <1>0, <3>1, <3>4, <3>6, <4>1 DEF Fate, TypeOK
      <4>2. CASE RefOf[p] # r
        BY <1>0, <3>1, <4>2 DEF Fate, Excepted, TypeOK
      <4> QED
        BY <4>1, <4>2
    <3>7. [p \in Request |-> Fate(p)]' = [[p \in Request |-> Fate(p)] EXCEPT ![q] = "out"]
      BY <3>5, <3>6
    <3>8. DisbursementOfWallet!Leave(q)
      BY <3>1, <3>4, <3>7 DEF DisbursementOfWallet!Leave
    <3> QED
      BY <3>8 DEF DisbursementOfWallet!Next
  <2> QED
    BY <2>1, <2>2
<1>3. ASSUME NEW q \in Request, CallRail(q) PROVE Step
  <2>1. owner[RefOf[q]] = q
    BY <1>3 DEF CallRail, Ownership, Started
  <2>2. \A s \in Ref \ {RefOf[q]} : payout'[s] = payout[s]
    BY <1>3 DEF CallRail, TypeOK
  <2> QED
    BY <1>3, <2>1, <2>2, TransferMoves DEF CallRail, wallet, row, history
<1>4. ASSUME NEW q \in Request, VerifyRail(q) PROVE Step
  BY <1>4, NothingMoves DEF VerifyRail, wallet, row, history
<1>5. ASSUME NEW q \in Request, MarkUncertain(q) PROVE Step
  <2>1. owner[RefOf[q]] = q
    BY <1>5 DEF MarkUncertain, Ownership, Started
  <2> QED
    BY <1>5, <2>1, OverwriteMoves DEF MarkUncertain, wallet
<1>6. ASSUME NEW q \in Request, RefundFailed(q) PROVE Step
  <2> DEFINE r == RefOf[q]
  <2>1. owner[r] = q /\ payout[r] \notin Live
    BY <1>6 DEF RefundFailed, Ownership, Started, Evidence
  <2>2. CASE ~Claimable(r)
    BY <1>6, <2>2, NothingMoves DEF RefundFailed, wallet
  <2>3. CASE Claimable(r)
    <3>1. Credit(r, "request") /\ UNCHANGED <<owner, payout, reopened>>
      BY <1>6, <2>3 DEF RefundFailed
    <3>2. ~Excepted(r)' => creditors[r] = {}
      <4>1. creditors[r] \subseteq creditors'[r]
        BY <1>0, <3>1 DEF Credit, TypeOK
      <4> QED
        BY <1>0, <2>3, <3>1, <4>1
        DEF Excepted, Undisturbed, ClaimExclusive, Claimable, Terminal
    <3> QED
      BY <2>1, <3>1, <3>2, CreditMoves
  <2> QED
    BY <2>2, <2>3
<1>7. ASSUME NEW q \in Request, RecordOutcome(q) PROVE Step
  <2>1. owner[RefOf[q]] = q
    BY <1>7 DEF RecordOutcome, Ownership, Started
  <2> QED
    BY <1>7, <2>1, OverwriteMoves DEF RecordOutcome, wallet
<1>8. ASSUME NEW q \in Request, CrashRequest(q) PROVE Step
  BY <1>8, NothingMoves DEF CrashRequest, wallet, row, history
<1>9. ASSUME NEW w \in Worker, VerifyStale(w) PROVE Step
  BY <1>9, NothingMoves DEF VerifyStale, wallet, row, history
<1>10. ASSUME NEW w \in Worker, ReadRow(w) PROVE Step
  BY <1>10, NothingMoves DEF ReadRow, wallet, row, history
<1>11. ASSUME NEW w \in Worker, ClaimRow(w) PROVE Step
  BY <1>11, NothingMoves DEF ClaimRow, wallet, row, history
<1>12. ASSUME NEW w \in Worker, CreditWallet(w) PROVE Step
  <2>1. PICK r \in Ref : r = worker[w].ref /\ Debited(r)
    BY <1>12 DEF CreditWallet, TypeOK, Idle, Job, Ownership
  <2>2. PICK q \in Request : owner[r] = q /\ RefOf[q] = r
    BY <2>1 DEF Ownership, Debited, TypeOK
  <2>3. /\ Credit(r, worker[w].source) /\ UNCHANGED <<owner, payout, reopened>>
        /\ worker[w].pc = "credit" /\ worker[w].source \in {"webhook", "sweep", "otp"}
    BY <1>12, <2>1 DEF CreditWallet, row, TypeOK, Idle, Job
  <2>4. creditors'[r] = creditors[r] \cup {worker[w].source}
    BY <2>1, <2>3 DEF Credit, TypeOK
  <2>5. ~Excepted(r)' => payout[r] \notin Live
    BY <2>1, <2>2, <2>3, <2>4
    DEF Excepted, Evidence, OnPaystack, Dead, Unpaid, Live
  <2>6. ~Excepted(r)' => creditors[r] = {}
    BY <2>1, <2>2, <2>3, <2>4 DEF Excepted, ClaimExclusive, Crediting, Undisturbed
  <2> QED
    BY <2>2, <2>3, <2>5, <2>6, CreditMoves
<1>13. ASSUME NEW w \in Worker, CrashWorker(w) PROVE Step
  BY <1>13, NothingMoves DEF CrashWorker, wallet, row, history
<1>14. ASSUME NEW h \in Hook, NEW r \in Ref, Deliver(h, r) PROVE Step
  BY <1>14, NothingMoves DEF Deliver, wallet, row, history
<1>15. ASSUME NEW s \in Sweeper, NEW r \in Ref, ScanStale(s, r) PROVE Step
  BY <1>15, NothingMoves DEF ScanStale, wallet, row, history
<1>16. ASSUME NEW a \in Admin, NEW r \in Ref, ReadForReject(a, r) PROVE Step
  BY <1>16, NothingMoves DEF ReadForReject, wallet, row, history
<1>17. ASSUME NEW a \in Admin, Reject(a) PROVE Step
  <2>1. PICK r \in Ref : r = admin[a].ref /\ Debited(r)
    BY <1>17 DEF Reject, TypeOK, Idle, Ruling, Ownership
  <2>2. PICK q \in Request : owner[r] = q /\ RefOf[q] = r
    BY <2>1 DEF Ownership, Debited, TypeOK
  <2>3. CASE UNCHANGED <<wallet, status, flagged, credits, creditors>>
    BY <1>17, <2>3, NothingMoves DEF Reject, wallet
  <2>4. CASE Credit(r, "reject")
    <3>1. Excepted(r)'
      BY <2>1, <2>4 DEF Credit, Excepted, TypeOK
    <3> QED
      BY <1>17, <2>2, <2>4, <3>1, CreditMoves DEF Reject
  <2> QED
    BY <1>17, <2>1, <2>3, <2>4 DEF Reject
<1>18. ASSUME NEW r \in Ref, Provider(r) PROVE Step
  <2>1. payout[r] # "none" /\ \A s \in Ref \ {r} : payout'[s] = payout[s]
    BY <1>18 DEF Provider, TypeOK
  <2>2. PICK q \in Request : owner[r] = q /\ RefOf[q] = r
    BY <2>1 DEF Ownership, Debited, TypeOK
  <2> QED
    BY <1>18, <2>1, <2>2, TransferMoves DEF Provider, wallet, row, history
<1>19. CASE UNCHANGED vars
  BY <1>19, NothingMoves DEF vars, wallet, row, history
<1> QED
  BY <1>1, <1>2, <1>3, <1>4, <1>5, <1>6, <1>7, <1>8, <1>9, <1>10, <1>11, <1>12, <1>13,
     <1>14, <1>15, <1>16, <1>17, <1>18, <1>19 DEF Next, RequestStep, WorkerStep

\* The calls whose amount is not in the wallet are finitely many, and their sum a
\* number that a call joining or leaving them changes by its amount.
LEMMA GoneSums ==
  LET S(G) == SumFunctionOnSet(AmountOf, G) IN
  /\ Gone \in SUBSET Request /\ S(Gone) \in Int
  /\ \A q \in Request \ Gone : S(Gone \cup {q}) = S(Gone) + AmountOf[q]
  /\ \A q \in Gone : S(Gone \ {q}) \in Int /\ S(Gone) = AmountOf[q] + S(Gone \ {q})
<1>1. AmountOf \in [Request -> Int]
  BY RequestAssumption
<1>2. Gone \in SUBSET Request /\ IsFiniteSet(Gone)
  BY RequestAssumption, FS_Subset DEF Gone
<1>3. \A q \in Gone : Gone \ {q} \in SUBSET Request /\ IsFiniteSet(Gone \ {q})
  BY <1>2, FS_Subset
<1>4. /\ SumFunctionOnSet(AmountOf, Gone) \in Int
      /\ \A q \in Gone : SumFunctionOnSet(AmountOf, Gone \ {q}) \in Int
  BY <1>1, <1>2, <1>3, SumInt
<1>5. \A q \in Request \ Gone :
        SumFunctionOnSet(AmountOf, Gone \cup {q}) = SumFunctionOnSet(AmountOf, Gone) + AmountOf[q]
  BY <1>1, <1>2, SumAdd
<1>6. \A q \in Gone :
        SumFunctionOnSet(AmountOf, Gone) = AmountOf[q] + SumFunctionOnSet(AmountOf, Gone \ {q})
  BY <1>1, <1>2, SumRemove
<1> QED
  BY <1>2, <1>4, <1>5, <1>6

\* A step of the promise keeps the wallet adding up.
LEMMA AddsUpStep ==
  TypeOK /\ TypeOK' /\ WalletAddsUp /\ [DisbursementOfWallet!Next]_(DisbursementOfWallet!vars)
    => WalletAddsUp'
<1> DEFINE S(G) == SumFunctionOnSet(AmountOf, G)
           Whole == \A q \in Request : Fate(q) # "broken"
<1> SUFFICES ASSUME TypeOK, TypeOK', WalletAddsUp,
                    [DisbursementOfWallet!Next]_(DisbursementOfWallet!vars)
             PROVE  WalletAddsUp'
  OBVIOUS
<1>1. /\ avail \in Int /\ avail' \in Int
      /\ \A q \in Request : AmountOf[q] \in Nat
  BY RequestAssumption DEF TypeOK
<1>2. /\ Gone \in SUBSET Request /\ S(Gone) \in Int
      /\ \A q \in Request \ Gone : S(Gone \cup {q}) = S(Gone) + AmountOf[q]
      /\ \A q \in Gone : S(Gone \ {q}) \in Int /\ S(Gone) = AmountOf[q] + S(Gone \ {q})
  BY GoneSums
<1>3. Gone = {q \in Request : Fate(q) \in {"out", "paid", "broken"}}
  BY DEF Gone
<1>4. Gone' = {q \in Request : Fate(q)' \in {"out", "paid", "broken"}}
  BY DEF Gone
<1>5. Funds \in Int /\ avail + S(Gone) >= Funds /\ (Whole => avail + S(Gone) = Funds)
  BY RequestAssumption DEF WalletAddsUp
<1> SUFFICES avail' + S(Gone') >= Funds /\ (Whole' => avail' + S(Gone') = Funds)
  BY DEF WalletAddsUp
<1> HIDE DEF S
<1>6. ASSUME NEW q \in Request, DisbursementOfWallet!Leave(q)
      PROVE  avail' + S(Gone') >= Funds /\ (Whole' => avail' + S(Gone') = Funds)
  <2>1. Fate(q) = "home" /\ Fate(q)' = "out" /\ avail' = avail - AmountOf[q]
        /\ \A p \in Request \ {q} : Fate(p)' = Fate(p)
    BY <1>6 DEF DisbursementOfWallet!Leave
  <2>2. q \notin Gone /\ Gone' = Gone \cup {q}
    BY <1>3, <1>4, <2>1
  <2>3. Whole' => Whole
    BY <2>1
  <2>4. S(Gone') = S(Gone) + AmountOf[q]
    BY <1>2, <2>2
  <2> QED
    BY <1>1, <1>2, <1>5, <2>1, <2>3, <2>4
<1>7. ASSUME NEW q \in Request, DisbursementOfWallet!Arrive(q) \/ DisbursementOfWallet!Bounce(q)
      PROVE  avail' + S(Gone') >= Funds /\ (Whole' => avail' + S(Gone') = Funds)
  <2>1. /\ Fate(q) \in {"out", "paid"} /\ Fate(q)' \in {"out", "paid"} /\ avail' = avail
        /\ \A p \in Request \ {q} : Fate(p)' = Fate(p)
    BY <1>7 DEF DisbursementOfWallet!Arrive, DisbursementOfWallet!Bounce
  <2>2. Gone' = Gone
    BY <1>3, <1>4, <2>1
  <2>3. Whole' => Whole
    BY <2>1
  <2> QED
    BY <1>5, <2>1, <2>2, <2>3
<1>8. ASSUME NEW q \in Request, DisbursementOfWallet!ComeBack(q)
      PROVE  avail' + S(Gone') >= Funds /\ (Whole' => avail' + S(Gone') = Funds)
  <2>1. Fate(q) = "out" /\ Fate(q)' = "back" /\ avail' = avail + AmountOf[q]
        /\ \A p \in Request \ {q} : Fate(p)' = Fate(p)
    BY <1>8 DEF DisbursementOfWallet!ComeBack
  <2>2. q \in Gone /\ Gone' = Gone \ {q}
    BY <1>3, <1>4, <2>1
  <2>3. Whole' => Whole
    BY <2>1
  <2>4. S(Gone) = AmountOf[q] + S(Gone') /\ S(Gone') \in Int
    BY <1>2, <2>2
  <2> QED
    BY <1>1, <1>2, <1>5, <2>1, <2>3, <2>4
<1>9. ASSUME NEW q \in Request, DisbursementOfWallet!Break(q)
      PROVE  avail' + S(Gone') >= Funds /\ (Whole' => avail' + S(Gone') = Funds)
  <2>1. /\ Fate(q)' = "broken"
        /\ \A p \in Request \ {q} : Fate(p)' = Fate(p)
        /\ avail' \in {avail, avail + AmountOf[q]}
    BY <1>9 DEF DisbursementOfWallet!Break
  <2>2. Gone' = Gone \cup {q}
    BY <1>3, <1>4, <2>1
  <2>3. S(Gone') >= S(Gone) /\ S(Gone') \in Int
    <3>1. CASE q \in Gone
      <4>1. Gone' = Gone
        BY <2>2, <3>1
      <4> QED
        BY <1>2, <4>1
    <3>2. CASE q \notin Gone
      <4>1. S(Gone') = S(Gone) + AmountOf[q]
        BY <1>2, <2>2, <3>2
      <4> QED
        BY <1>1, <1>2, <4>1
    <3> QED
      BY <3>1, <3>2
  <2>4. avail' >= avail
    BY <1>1, <2>1
  <2> QED
    BY <1>1, <1>2, <1>5, <2>1, <2>3, <2>4
<1>10. CASE UNCHANGED DisbursementOfWallet!vars
  <2>1. avail' = avail /\ \A q \in Request : Fate(q)' = Fate(q)
    BY <1>10 DEF DisbursementOfWallet!vars
  <2>2. Gone' = Gone
    BY <1>3, <1>4, <2>1
  <2> QED
    BY <1>5, <2>1, <2>2
<1> QED
  BY <1>6, <1>7, <1>8, <1>9, <1>10 DEF DisbursementOfWallet!Next

-----------------------------------------------------------------------------
(* The theorems *)

\* What the initial states satisfy.
LEMMA InitHolds ==
  Init => TypeOK /\ Ownership /\ Evidence /\ ClaimExclusive /\ FailedIsRefunded
  BY RequestAssumption
  DEF Init, TypeOK, Ownership, Evidence, ClaimExclusive, FailedIsRefunded, Worker, Status,
      Terminal, Payout, PcLabel, Idle, Debited, Started, Undisturbed, Crediting

\* Every variable keeps its type; that avail is a natural number means that
\* no interleaving of withdrawals overdraws a wallet.
THEOREM TypeCorrect == Spec => [](TypeOK /\ Ownership)
<1>1. Init => TypeOK /\ Ownership
  BY InitHolds
<1>2. TypeOK /\ Ownership /\ [Next]_vars => (TypeOK /\ Ownership)'
  BY TypeStep, OwnershipStep
<1> QED
  BY <1>1, <1>2, PTL DEF Spec

\* One reference debits the wallet once, whatever calls share it.
THEOREM OneDebit == Spec => []OneDebitPerReference
<1>1. TypeOK /\ Ownership => OneDebitPerReference
  BY DEF Ownership, OneDebitPerReference
<1> QED
  BY <1>1, TypeCorrect, PTL

\* Refunds rest on evidence that the transfer does not pay.
THEOREM RefundsProveNonPayment == Spec => []RefundProvesNonPayment
<1>1. Init => Evidence
  BY InitHolds
<1>2. TypeOK /\ Ownership /\ Evidence /\ [Next]_vars => Evidence'
  BY EvidenceStep
<1>3. TypeOK /\ Ownership /\ Evidence => RefundProvesNonPayment
  BY DEF TypeOK, Ownership, Evidence, RefundProvesNonPayment, Dead, Unpaid, OnPaystack,
         Live, Source
<1> QED
  BY <1>1, <1>2, <1>3, TypeCorrect, PTL DEF Spec

\* The claims let one credit through on a row nothing else disturbed.
THEOREM CreditsOnce == Spec => []CreditOnceUnlessReopened
<1>1. Init => ClaimExclusive
  BY InitHolds
<1>2. TypeOK /\ Ownership /\ ClaimExclusive /\ [Next]_vars => ClaimExclusive'
  BY ClaimStep
<1>3. TypeOK /\ ClaimExclusive => CreditOnceUnlessReopened
  BY DEF TypeOK, ClaimExclusive, CreditOnceUnlessReopened, Undisturbed
<1> QED
  BY <1>1, <1>2, <1>3, TypeCorrect, PTL DEF Spec

\* A row marked failed is credited, about to be, or was lost in a crash.
THEOREM FailedRowsAreRefunded == Spec => []FailedIsRefunded
<1>1. Init => FailedIsRefunded
  BY InitHolds
<1>2. TypeOK /\ Ownership /\ FailedIsRefunded /\ [Next]_vars => FailedIsRefunded'
  BY RefundStep
<1> QED
  BY <1>1, <1>2, TypeCorrect, PTL DEF Spec

\* Whatever interleaves, dies or is repeated, a payout's amount leaves once and is
\* paid or comes back, outside the named exceptions.
THEOREM RefinesDisbursement == Spec => ImplementsDisbursement
<1>1. Init => DisbursementOfWallet!Init
  BY RequestAssumption DEF Init, DisbursementOfWallet!Init, Fate
<1>2. Init => Evidence /\ ClaimExclusive
  BY InitHolds
<1>3. TypeOK /\ Ownership /\ Evidence /\ ClaimExclusive /\ [Next]_vars
        => (Evidence /\ ClaimExclusive)'
  BY EvidenceStep, ClaimStep
<1> QED
  BY <1>1, <1>2, <1>3, DisbursementStep, TypeCorrect, PTL
  DEF Spec, ImplementsDisbursement, DisbursementOfWallet!Spec

\* So the wallet and what has left it always add up to what there was, for any
\* amounts.
THEOREM MoneyAddsUp == Spec => []WalletAddsUp
<1>1. Init => WalletAddsUp
  <2> SUFFICES ASSUME Init PROVE WalletAddsUp
    OBVIOUS
  <2>1. Gone = {}
    BY RequestAssumption DEF Init, Fate, Gone
  <2> QED
    BY <2>1, SumEmpty, RequestAssumption
    DEF Init, WalletAddsUp
<1> QED
  BY <1>1, AddsUpStep, RefinesDisbursement, TypeCorrect, PTL
  DEF ImplementsDisbursement, DisbursementOfWallet!Spec, Spec
=============================================================================
