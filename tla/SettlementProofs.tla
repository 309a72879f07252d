--------------------------- MODULE SettlementProofs ---------------------------
(***************************************************************************)
(* Proofs of the safety properties of Settlement, for any number of orders, *)
(* attempts, workers and late requests.                                     *)
(***************************************************************************)
EXTENDS Settlement, TLAPS

\* What each kind of worker may be doing, and for whom.
JobShape ==
  /\ \A w \in Payer : job[w] # Idle => job[w].at \in {"insert", "reserve", "charge", "void"}
  /\ \A w \in Confirmer : job[w] # Idle => job[w].at \in {"claim", "commit", "void"}
  /\ \A w \in Settler : job[w] # Idle => job[w].at \in {"commit", "credit", "reverse"}
  /\ \A w \in Recon : job[w] # Idle => job[w].at = "void"
  /\ \A w \in Payer \cup Confirmer : job[w] # Idle =>
        job[w].attempt \in Attempt /\ job[w].order = OrderOf[job[w].attempt]

\* A worker waits for one request at a time.
CallShape == \A c, d \in calls : c.by # Nobody /\ c.by = d.by => c = d

\* A commit TigerBeetle has made travels from the bridge's request to the worker that
\* is told of it, and to the settlement that goes on with it.
Marking(c, o) == c.op = "commit" /\ c.at = "mark" /\ c.order = o
Holding(w, o) == /\ job[w] # Idle /\ job[w].order = o
                 /\ \/ job[w].at = "commit" /\ job[w].answer = "ok"
                    \/ job[w].at = "credit" /\ job[w].captured

\* It is there only when the transfer is posted, and it is in one place.
CommitShape ==
  /\ \A w \in Worker : job[w].at = "commit" => job[w].answer # "refused"
  /\ \A o \in Order :
       /\ \A c \in calls : Marking(c, o) =>
            /\ tb[o] = "posted"
            /\ \A d \in calls : Marking(d, o) => d = c
            /\ \A w \in Worker : ~Holding(w, o)
       /\ \A w \in Worker : Holding(w, o) =>
            tb[o] = "posted" /\ \A v \in Worker : Holding(v, o) => v = w

\* Where it no longer is, once it is being reversed or has settled the escrow.
Spent(o) == /\ tb[o] = "posted"
            /\ \A c \in calls : ~Marking(c, o)
            /\ \A w \in Worker : ~Holding(w, o)
UndoShape ==
  /\ \A o \in undone : Spent(o) /\ o \notin took
  /\ \A c \in calls : c.op = "reverse" => Spent(c.order) /\ c.order \notin took
  /\ \A w \in Worker : job[w].at = "reverse" =>
       Spent(job[w].order) /\ job[w].order \notin took
  /\ \A o \in took : Spent(o) /\ escrow[o] = "settled"

\* Where it can no longer be used: in the hands of a payment reported confirmed, whose
\* reversal nobody has asked for or will ask for.
ToldShape ==
  \A o \in Order : Told(o) =>
    /\ Spent(o) /\ o \notin took \cup undone
    /\ \A c \in calls : c.op = "reverse" => c.order # o
    /\ \A w \in Worker : job[w].at = "reverse" => job[w].order # o

\* What is known of a captured order whose compensation was not skipped, cut short
\* or answered with a 404.
Settles(w, o) == /\ job[w] # Idle /\ job[w].order = o
                 /\ \/ job[w].at = "reverse"
                    \/ job[w].at = "credit" /\ job[w].captured
Reversed(o) == rec[o] \in {"committed", "reversed"} => o \in undone
KnownShape ==
  /\ \A o \in Order : rec[o] = "reversed" => o \in undone
  /\ \A c \in calls : c.op = "reverse" /\ c.at = "mark" => c.order \in undone
  /\ \A w \in Settler :
       /\ job[w].at = "reverse" /\ job[w].answer \in {"ok", "refused"}
       /\ job[w].order \in known
       => Reversed(job[w].order)
  /\ \A o \in known : /\ tb[o] = "posted"
                      /\ \/ escrow[o] = "settled" \/ o \in undone \cup flagged
                         \/ \E w \in Settler : Settles(w, o)
                         \/ Reversed(o) /\ \A c \in calls : ~Marking(c, o)

\* The idempotency lock keeps one caller of payment.initiate at an order, at a row
\* that no buyer has been sent to.
LockShape ==
  /\ \A w \in Payer : job[w] # Idle =>
       /\ job[w].order \in locked /\ job[w].attempt \notin offered
       /\ \A v \in Payer : job[v] # Idle /\ job[v].order = job[w].order => v = w
       /\ job[w].at = "insert" =>
            /\ intent[job[w].attempt] = "none"
            /\ \A b \in job[w].old : OrderOf[b] = job[w].order /\ intent[b] # "none"
  /\ \A a \in offered : intent[a] # "none"
  /\ acked \subseteq offered

\* Every step keeps the shape of the jobs.
LEMMA JobStep == TypeOK /\ JobShape /\ [Next]_vars => JobShape'
<1> SUFFICES ASSUME TypeOK, JobShape, [Next]_vars PROVE JobShape'
  OBVIOUS
<1> USE WorkerAssumption, AttemptAssumption
        DEF Worker, Idle, Become, Stop, Ask, Waits, Has, Drop, Tell, Answer, Op,
        ledger, payment, release
<1> USE DEF TypeOK, JobShape, Job
<1>1. ASSUME NEW w \in Payer, InsertAttempt(w) PROVE JobShape'
  BY <1>1 DEF InsertAttempt, Rows
<1>2. ASSUME NEW w \in Payer, ReserveAnswered(w) PROVE JobShape'
  BY <1>2 DEF ReserveAnswered
<1>3. ASSUME NEW w \in Payer, Charge(w) PROVE JobShape'
  BY <1>3 DEF Charge
<1>4. ASSUME NEW w \in Payer, FailAttempt(w) PROVE JobShape'
  BY <1>4 DEF FailAttempt
<1>5. ASSUME NEW w \in Payer, NEW a \in Attempt, ReadAttempt(w, a) PROVE JobShape'
  BY <1>5 DEF ReadAttempt, Rows
<1>6. ASSUME NEW w \in Confirmer, ClaimIntent(w) PROVE JobShape'
  BY <1>6 DEF ClaimIntent, Unclaimed
<1>7. ASSUME NEW w \in Confirmer, CommitAnswered(w) PROVE JobShape'
  BY <1>7 DEF CommitAnswered, Committed
<1>8. ASSUME NEW w \in Confirmer, NEW a \in Attempt, NEW v \in {"completed", "failed"},
             ReadForConfirm(w, a, v)
      PROVE  JobShape'
  BY <1>8 DEF ReadForConfirm
<1>9. ASSUME NEW w \in Settler, CaptureAnswered(w) PROVE JobShape'
  BY <1>9 DEF CaptureAnswered, Captured
<1>10. ASSUME NEW w \in Settler, FinishSettle(w) PROVE JobShape'
  BY <1>10 DEF FinishSettle
<1>11. ASSUME NEW w \in Settler, FlagSettlement(w) PROVE JobShape'
  BY <1>11 DEF FlagSettlement, Unconfirmed
<1>12. ASSUME NEW w \in Settler, NEW o \in Order, BeginSettle(w, o) PROVE JobShape'
  BY <1>12 DEF BeginSettle, Origin, Rows, Settling
<1>13. ASSUME NEW w \in Recon, NEW a \in Attempt, VoidOrphan(w, a) PROVE JobShape'
  BY <1>13 DEF VoidOrphan
<1>14. ASSUME NEW w \in Confirmer \cup Recon, VoidAnswered(w) PROVE JobShape'
  BY <1>14 DEF VoidAnswered
<1>15. ASSUME NEW a \in Attempt, Webhook(a) PROVE JobShape'
  BY <1>15 DEF Webhook
<1>16. ASSUME NEW o \in Order, OpenHold(o) PROVE JobShape'
  BY <1>16 DEF OpenHold, Rows
<1>17. ASSUME NEW o \in Order, ExpireLock(o) PROVE JobShape'
  BY <1>17 DEF ExpireLock
<1>18. ASSUME NEW o \in Order, Expire(o) PROVE JobShape'
  BY <1>18 DEF Expire
<1>19. ASSUME NEW c \in calls, Reserve(c) PROVE JobShape'
  BY <1>19 DEF Reserve, Acted
<1>20. ASSUME NEW c \in calls, Finish(c) PROVE JobShape'
  BY <1>20 DEF Finish, Acted
<1>21. ASSUME NEW c \in calls, Reverse(c) PROVE JobShape'
  BY <1>21 DEF Reverse, Acted
<1>22. ASSUME NEW c \in calls, Unavailable(c) PROVE JobShape'
  BY <1>22 DEF Unavailable
<1>23. ASSUME NEW c \in calls, Mark(c) PROVE JobShape'
  BY <1>23 DEF Mark, Final
<1>24. ASSUME NEW c \in calls, Break(c) PROVE JobShape'
  BY <1>24 DEF Break
<1>25. ASSUME NEW w \in Worker, TimeOut(w) PROVE JobShape'
  BY <1>25 DEF TimeOut, GiveUp, Abandoned
<1>26. ASSUME NEW w \in Worker, Crash(w) PROVE JobShape'
  BY <1>26 DEF Crash, GiveUp, Abandoned
<1>27. CASE UNCHANGED vars
  BY <1>27 DEF vars
<1> HIDE DEF TypeOK, JobShape, Job, Worker, Idle, vars, ledger, payment, release
<1> QED
  BY <1>1, <1>2, <1>3, <1>4, <1>5, <1>6, <1>7, <1>8, <1>9, <1>10, <1>11, <1>12, <1>13,
     <1>14, <1>15, <1>16, <1>17, <1>18, <1>19, <1>20, <1>21, <1>22, <1>23, <1>24,
     <1>25, <1>26, <1>27 DEF Next, Initiating, Confirming, Releasing, Bridge

\* Every step keeps the requests apart.
LEMMA CallStep == TypeOK /\ JobShape /\ CallShape /\ [Next]_vars => CallShape'
<1> SUFFICES ASSUME TypeOK, JobShape, CallShape, [Next]_vars PROVE CallShape'
  OBVIOUS
<1> USE WorkerAssumption, AttemptAssumption
        DEF Worker, Idle, Become, Stop, Ask, Waits, Has, Drop, Tell, Answer, Op,
        ledger, payment, release
<1> USE DEF TypeOK, JobShape, Job, CallShape
<1>1. ASSUME NEW w \in Payer, InsertAttempt(w) PROVE CallShape'
  BY <1>1 DEF InsertAttempt, Rows
<1>2. ASSUME NEW w \in Payer, ReserveAnswered(w) PROVE CallShape'
  BY <1>2 DEF ReserveAnswered
<1>3. ASSUME NEW w \in Payer, Charge(w) PROVE CallShape'
  BY <1>3 DEF Charge
<1>4. ASSUME NEW w \in Payer, FailAttempt(w) PROVE CallShape'
  BY <1>4 DEF FailAttempt
<1>5. ASSUME NEW w \in Payer, NEW a \in Attempt, ReadAttempt(w, a) PROVE CallShape'
  BY <1>5 DEF ReadAttempt, Rows
<1>6. ASSUME NEW w \in Confirmer, ClaimIntent(w) PROVE CallShape'
  BY <1>6 DEF ClaimIntent, Unclaimed
<1>7. ASSUME NEW w \in Confirmer, CommitAnswered(w) PROVE CallShape'
  BY <1>7 DEF CommitAnswered, Committed
<1>8. ASSUME NEW w \in Confirmer, NEW a \in Attempt, NEW v \in {"completed", "failed"},
             ReadForConfirm(w, a, v)
      PROVE  CallShape'
  BY <1>8 DEF ReadForConfirm
<1>9. ASSUME NEW w \in Settler, CaptureAnswered(w) PROVE CallShape'
  BY <1>9 DEF CaptureAnswered, Captured
<1>10. ASSUME NEW w \in Settler, FinishSettle(w) PROVE CallShape'
  BY <1>10 DEF FinishSettle
<1>11. ASSUME NEW w \in Settler, FlagSettlement(w) PROVE CallShape'
  BY <1>11 DEF FlagSettlement, Unconfirmed
<1>12. ASSUME NEW w \in Settler, NEW o \in Order, BeginSettle(w, o) PROVE CallShape'
  BY <1>12 DEF BeginSettle, Origin, Rows, Settling
<1>13. ASSUME NEW w \in Recon, NEW a \in Attempt, VoidOrphan(w, a) PROVE CallShape'
  BY <1>13 DEF VoidOrphan
<1>14. ASSUME NEW w \in Confirmer \cup Recon, VoidAnswered(w) PROVE CallShape'
  BY <1>14 DEF VoidAnswered
<1>15. ASSUME NEW a \in Attempt, Webhook(a) PROVE CallShape'
  BY <1>15 DEF Webhook
<1>16. ASSUME NEW o \in Order, OpenHold(o) PROVE CallShape'
  BY <1>16 DEF OpenHold, Rows
<1>17. ASSUME NEW o \in Order, ExpireLock(o) PROVE CallShape'
  BY <1>17 DEF ExpireLock
<1>18. ASSUME NEW o \in Order, Expire(o) PROVE CallShape'
  BY <1>18 DEF Expire
<1>19. ASSUME NEW c \in calls, Reserve(c) PROVE CallShape'
  BY <1>19 DEF Reserve, Acted
<1>20. ASSUME NEW c \in calls, Finish(c) PROVE CallShape'
  BY <1>20 DEF Finish, Acted
<1>21. ASSUME NEW c \in calls, Reverse(c) PROVE CallShape'
  BY <1>21 DEF Reverse, Acted
<1>22. ASSUME NEW c \in calls, Unavailable(c) PROVE CallShape'
  BY <1>22 DEF Unavailable
<1>23. ASSUME NEW c \in calls, Mark(c) PROVE CallShape'
  BY <1>23 DEF Mark, Final
<1>24. ASSUME NEW c \in calls, Break(c) PROVE CallShape'
  BY <1>24 DEF Break
<1>25. ASSUME NEW w \in Worker, TimeOut(w) PROVE CallShape'
  BY <1>25 DEF TimeOut, GiveUp, Abandoned
<1>26. ASSUME NEW w \in Worker, Crash(w) PROVE CallShape'
  BY <1>26 DEF Crash, GiveUp, Abandoned
<1>27. CASE UNCHANGED vars
  BY <1>27 DEF vars
<1> HIDE DEF TypeOK, JobShape, Job, CallShape, Worker, Idle, vars, ledger, payment,
        release
<1> QED
  BY <1>1, <1>2, <1>3, <1>4, <1>5, <1>6, <1>7, <1>8, <1>9, <1>10, <1>11, <1>12, <1>13,
     <1>14, <1>15, <1>16, <1>17, <1>18, <1>19, <1>20, <1>21, <1>22, <1>23, <1>24,
     <1>25, <1>26, <1>27 DEF Next, Initiating, Confirming, Releasing, Bridge

\* Every step keeps the types.
LEMMA TypeStep == TypeOK /\ JobShape /\ CallShape /\ [Next]_vars => TypeOK'
<1> SUFFICES ASSUME TypeOK, JobShape, CallShape, [Next]_vars PROVE TypeOK'
  OBVIOUS
<1> USE WorkerAssumption, AttemptAssumption
        DEF Worker, Idle, Become, Stop, Ask, Waits, Has, Drop, Tell, Answer, Op,
        ledger, payment, release
<1> USE DEF TypeOK, JobShape, Job, CallShape
<1>1. ASSUME NEW w \in Payer, InsertAttempt(w) PROVE TypeOK'
  BY <1>1 DEF InsertAttempt, Rows
<1>2. ASSUME NEW w \in Payer, ReserveAnswered(w) PROVE TypeOK'
  BY <1>2, SMTT(20) DEF ReserveAnswered
<1>3. ASSUME NEW w \in Payer, Charge(w) PROVE TypeOK'
  BY <1>3 DEF Charge
<1>4. ASSUME NEW w \in Payer, FailAttempt(w) PROVE TypeOK'
  BY <1>4 DEF FailAttempt
<1>5. ASSUME NEW w \in Payer, NEW a \in Attempt, ReadAttempt(w, a) PROVE TypeOK'
  BY <1>5 DEF ReadAttempt, Rows
<1>6. ASSUME NEW w \in Confirmer, ClaimIntent(w) PROVE TypeOK'
  BY <1>6 DEF ClaimIntent, Unclaimed
<1>7. ASSUME NEW w \in Confirmer, CommitAnswered(w) PROVE TypeOK'
  BY <1>7 DEF CommitAnswered, Committed
<1>8. ASSUME NEW w \in Confirmer, NEW a \in Attempt, NEW v \in {"completed", "failed"},
             ReadForConfirm(w, a, v)
      PROVE  TypeOK'
  BY <1>8 DEF ReadForConfirm
<1>9. ASSUME NEW w \in Settler, CaptureAnswered(w) PROVE TypeOK'
  <2>1. w \in Worker /\ job[w].order \in Order /\ job[w] \in Job /\ \A c \in calls : c.by # w
    BY <1>9 DEF CaptureAnswered
  <2>2. CASE Captured(job[w].answer)
    <3>1. [at |-> "credit", order |-> job[w].order, captured |-> TRUE] \in Job
      BY <2>1
    <3>2. job' \in [Worker -> Job] /\ known' \subseteq Order
      <4>1. /\ job' = [job EXCEPT ![w] = [at |-> "credit", order |-> job[w].order,
                                        captured |-> TRUE]]
            /\ known' = known \cup {job[w].order}
        BY <1>9, <2>2 DEF CaptureAnswered
      <4> HIDE DEF Job
      <4> QED
        BY <2>1, <3>1, <4>1
    <3>3. \A c \in calls : c.by # Nobody => job'[c.by] = job[c.by]
      BY <1>9, <2>1, <2>2 DEF CaptureAnswered
    <3> QED
      BY <1>9, <3>2, <3>3 DEF CaptureAnswered
  <2>3. CASE ~Captured(job[w].answer)
    BY <1>9, <2>1, <2>3 DEF CaptureAnswered
  <2> QED
    BY <2>2, <2>3
<1>10. ASSUME NEW w \in Settler, FinishSettle(w) PROVE TypeOK'
  BY <1>10 DEF FinishSettle
<1>11. ASSUME NEW w \in Settler, FlagSettlement(w) PROVE TypeOK'
  BY <1>11 DEF FlagSettlement, Unconfirmed
<1>12. ASSUME NEW w \in Settler, NEW o \in Order, BeginSettle(w, o) PROVE TypeOK'
  <2>1. w \in Worker /\ \A c \in calls : c.by # w
    BY <1>12 DEF BeginSettle
  <2>2. CASE \E a \in Origin(o) : Ask(w, "commit", o, a)
    <3>1. PICK a \in Attempt : Ask(w, "commit", o, a)
      BY <2>2 DEF Origin, Rows
    <3> QED
      BY <1>12, <2>1, <3>1 DEF BeginSettle
  <2>3. CASE Become(w, [at |-> "credit", order |-> o, captured |-> FALSE]) /\ UNCHANGED calls
    BY <1>12, <2>1, <2>3 DEF BeginSettle
  <2> QED
    BY <1>12, <2>2, <2>3 DEF BeginSettle
<1>13. ASSUME NEW w \in Recon, NEW a \in Attempt, VoidOrphan(w, a) PROVE TypeOK'
  BY <1>13 DEF VoidOrphan
<1>14. ASSUME NEW w \in Confirmer \cup Recon, VoidAnswered(w) PROVE TypeOK'
  BY <1>14 DEF VoidAnswered
<1>15. ASSUME NEW a \in Attempt, Webhook(a) PROVE TypeOK'
  BY <1>15 DEF Webhook
<1>16. ASSUME NEW o \in Order, OpenHold(o) PROVE TypeOK'
  BY <1>16 DEF OpenHold, Rows
<1>17. ASSUME NEW o \in Order, ExpireLock(o) PROVE TypeOK'
  BY <1>17 DEF ExpireLock
<1>18. ASSUME NEW o \in Order, Expire(o) PROVE TypeOK'
  BY <1>18 DEF Expire
<1>19. ASSUME NEW c \in calls, Reserve(c) PROVE TypeOK'
  BY <1>19 DEF Reserve, Acted
<1>20. ASSUME NEW c \in calls, Finish(c) PROVE TypeOK'
  BY <1>20 DEF Finish, Acted
<1>21. ASSUME NEW c \in calls, Reverse(c) PROVE TypeOK'
  BY <1>21 DEF Reverse, Acted
<1>22. ASSUME NEW c \in calls, Unavailable(c) PROVE TypeOK'
  BY <1>22 DEF Unavailable
<1>23. ASSUME NEW c \in calls, Mark(c) PROVE TypeOK'
  BY <1>23 DEF Mark, Final
<1>24. ASSUME NEW c \in calls, Break(c) PROVE TypeOK'
  BY <1>24 DEF Break
<1>25. ASSUME NEW w \in Worker, TimeOut(w) PROVE TypeOK'
  BY <1>25 DEF TimeOut, GiveUp, Abandoned
<1>26. ASSUME NEW w \in Worker, Crash(w) PROVE TypeOK'
  BY <1>26 DEF Crash, GiveUp, Abandoned
<1>27. CASE UNCHANGED vars
  BY <1>27 DEF vars
<1> HIDE DEF TypeOK, JobShape, Job, CallShape, Worker, Idle, vars, ledger, payment,
        release
<1> QED
  BY <1>1, <1>2, <1>3, <1>4, <1>5, <1>6, <1>7, <1>8, <1>9, <1>10, <1>11, <1>12, <1>13,
     <1>14, <1>15, <1>16, <1>17, <1>18, <1>19, <1>20, <1>21, <1>22, <1>23, <1>24,
     <1>25, <1>26, <1>27 DEF Next, Initiating, Confirming, Releasing, Bridge

\* Every step keeps the commit in one place.
LEMMA CommitStep ==
  TypeOK /\ JobShape /\ CallShape /\ CommitShape /\ [Next]_vars
    => CommitShape'
<1> SUFFICES ASSUME TypeOK, JobShape, CallShape, CommitShape,
                    [Next]_vars
             PROVE  CommitShape'
  OBVIOUS
<1> USE WorkerAssumption, AttemptAssumption
        DEF Worker, Idle, Become, Stop, Ask, Waits, Has, Drop, Tell, Answer, Op,
        ledger, payment, release
<1> USE DEF TypeOK, JobShape, Job, CallShape, CommitShape, Marking, Holding
<1>1. ASSUME NEW w \in Payer, InsertAttempt(w) PROVE CommitShape'
  BY <1>1, SMTT(20) DEF InsertAttempt, Rows
<1>2. ASSUME NEW w \in Payer, ReserveAnswered(w) PROVE CommitShape'
  <2>1. /\ UNCHANGED <<tb, calls>> /\ job[w].at = "reserve" /\ w \in Worker
        /\ \A v \in Worker \ {w} : job'[v] = job[v]
    BY <1>2 DEF ReserveAnswered
  <2>2. job'[w].at \in {"charge", "idle"}
    <3>1. CASE job[w].answer = "ok"
      BY <1>2, <3>1 DEF ReserveAnswered
    <3>2. CASE job[w].answer # "ok"
      BY <1>2, <3>2 DEF ReserveAnswered
    <3> QED
      BY <3>1, <3>2
  <2>3. \A v \in Worker, o \in Order : Holding(v, o)' => Holding(v, o)
    BY <2>1, <2>2
  <2> QED
    BY <2>1, <2>2, <2>3, SMTT(20)
<1>3. ASSUME NEW w \in Payer, Charge(w) PROVE CommitShape'
  BY <1>3 DEF Charge
<1>4. ASSUME NEW w \in Payer, FailAttempt(w) PROVE CommitShape'
  BY <1>4 DEF FailAttempt
<1>5. ASSUME NEW w \in Payer, NEW a \in Attempt, ReadAttempt(w, a) PROVE CommitShape'
  BY <1>5 DEF ReadAttempt, Rows
<1>6. ASSUME NEW w \in Confirmer, ClaimIntent(w) PROVE CommitShape'
  BY <1>6, SMTT(20) DEF ClaimIntent, Unclaimed
<1>7. ASSUME NEW w \in Confirmer, CommitAnswered(w) PROVE CommitShape'
  BY <1>7 DEF CommitAnswered, Committed
<1>8. ASSUME NEW w \in Confirmer, NEW a \in Attempt, NEW v \in {"completed", "failed"},
             ReadForConfirm(w, a, v)
      PROVE  CommitShape'
  BY <1>8 DEF ReadForConfirm
<1>9. ASSUME NEW w \in Settler, CaptureAnswered(w) PROVE CommitShape'
  BY <1>9, SMTT(20) DEF CaptureAnswered, Captured
<1>10. ASSUME NEW w \in Settler, FinishSettle(w) PROVE CommitShape'
  BY <1>10, SMTT(20) DEF FinishSettle
<1>11. ASSUME NEW w \in Settler, FlagSettlement(w) PROVE CommitShape'
  BY <1>11 DEF FlagSettlement, Unconfirmed
<1>12. ASSUME NEW w \in Settler, NEW o \in Order, BeginSettle(w, o) PROVE CommitShape'
  BY <1>12, SMTT(20) DEF BeginSettle, Origin, Rows, Settling
<1>13. ASSUME NEW w \in Recon, NEW a \in Attempt, VoidOrphan(w, a) PROVE CommitShape'
  BY <1>13 DEF VoidOrphan
<1>14. ASSUME NEW w \in Confirmer \cup Recon, VoidAnswered(w) PROVE CommitShape'
  BY <1>14 DEF VoidAnswered
<1>15. ASSUME NEW a \in Attempt, Webhook(a) PROVE CommitShape'
  BY <1>15 DEF Webhook
<1>16. ASSUME NEW o \in Order, OpenHold(o) PROVE CommitShape'
  BY <1>16 DEF OpenHold, Rows
<1>17. ASSUME NEW o \in Order, ExpireLock(o) PROVE CommitShape'
  BY <1>17 DEF ExpireLock
<1>18. ASSUME NEW o \in Order, Expire(o) PROVE CommitShape'
  BY <1>18 DEF Expire
<1>19. ASSUME NEW c \in calls, Reserve(c) PROVE CommitShape'
  <2>1. CASE Answer(c, "ok") /\ UNCHANGED tb
    BY <1>19, <2>1 DEF Reserve
  <2>2. CASE /\ tb' = [tb EXCEPT ![c.order] = IF @ = "none" THEN "pending" ELSE @]
             /\ Acted(c)
    <3>1. \A o \in Order : tb[o] = "posted" => tb'[o] = "posted"
      BY <2>2
    <3>2. CASE Answer(c, "error")
      BY <1>19, <3>1, <3>2 DEF Reserve
    <3>3. CASE calls' = (calls \ {c}) \cup {[c EXCEPT !.at = "mark"]} /\ UNCHANGED job
      <4>1. \A d \in calls', o \in Order : Marking(d, o) => d \in calls
        BY <1>19, <3>3 DEF Reserve
      <4>2. \A v \in Worker, o \in Order : Holding(v, o)' <=> Holding(v, o)
        BY <3>3
      <4> HIDE DEF Marking, Holding
      <4> QED
        BY <3>1, <3>3, <4>1, <4>2
    <3> QED
      BY <2>2, <3>2, <3>3 DEF Acted
  <2> QED
    BY <1>19, <2>1, <2>2 DEF Reserve
<1>20. ASSUME NEW c \in calls, Finish(c) PROVE CommitShape'
  BY <1>20, SMTT(20) DEF Finish, Acted
<1>21. ASSUME NEW c \in calls, Reverse(c) PROVE CommitShape'
  <2>1. UNCHANGED tb /\ c.op = "reverse"
    BY <1>21 DEF Reverse
  <2>2. \A d \in calls' : d \in calls \/ d = [c EXCEPT !.at = "mark"]
    BY <1>21 DEF Reverse, Acted
  <2>3. \/ job' = job
        \/ /\ job[c.by].at = "reverse" /\ c.by \in Worker
           /\ \E x \in {"ok", "refused", "error"} :
                job' = [job EXCEPT ![c.by].answer = x]
    BY <1>21 DEF Reverse, Acted
  <2>4. \A v \in Worker : \/ job'[v] = job[v]
                         \/ /\ job[v].at = "reverse" /\ job'[v].at = "reverse"
                            /\ job'[v].order = job[v].order
    <3>1. CASE job' = job
      BY <3>1
    <3>2. CASE /\ job[c.by].at = "reverse" /\ c.by \in Worker
               /\ \E x \in {"ok", "refused", "error"} :
                    job' = [job EXCEPT ![c.by].answer = x]
      <4>1. \A v \in Worker \ {c.by} : job'[v] = job[v]
        BY <3>2
      <4>2. job'[c.by].at = "reverse" /\ job'[c.by].order = job[c.by].order
        BY <3>2
      <4> QED
        BY <3>2, <4>1, <4>2
    <3> QED
      BY <2>3, <3>1, <3>2
  <2>5. \A d \in calls', o \in Order : Marking(d, o) => d \in calls
    BY <2>1, <2>2
  <2>6. \A v \in Worker, o \in Order : Holding(v, o)' => Holding(v, o)
    BY <2>4
  <2>7. \A v \in Worker : job'[v].at = "commit" => job'[v].answer # "refused"
    BY <2>4
  <2> HIDE DEF Marking, Holding
  <2> QED
    BY <2>1, <2>5, <2>6, <2>7
<1>22. ASSUME NEW c \in calls, Unavailable(c) PROVE CommitShape'
  BY <1>22 DEF Unavailable
<1>23. ASSUME NEW c \in calls, Mark(c) PROVE CommitShape'
  BY <1>23 DEF Mark, Final
<1>24. ASSUME NEW c \in calls, Break(c) PROVE CommitShape'
  BY <1>24 DEF Break
<1>25. ASSUME NEW w \in Worker, TimeOut(w) PROVE CommitShape'
  BY <1>25 DEF TimeOut, GiveUp, Abandoned
<1>26. ASSUME NEW w \in Worker, Crash(w) PROVE CommitShape'
  BY <1>26 DEF Crash, GiveUp, Abandoned
<1>27. CASE UNCHANGED vars
  BY <1>27 DEF vars
<1> HIDE DEF TypeOK, JobShape, Job, CallShape, CommitShape, Marking, Holding, Worker,
        Idle, vars, ledger, payment, release
<1> QED
  BY <1>1, <1>2, <1>3, <1>4, <1>5, <1>6, <1>7, <1>8, <1>9, <1>10, <1>11, <1>12, <1>13,
     <1>14, <1>15, <1>16, <1>17, <1>18, <1>19, <1>20, <1>21, <1>22, <1>23, <1>24,
     <1>25, <1>26, <1>27 DEF Next, Initiating, Confirming, Releasing, Bridge

\* Every step keeps a reversed or settled commit spent.
LEMMA UndoStep ==
  TypeOK /\ JobShape /\ CallShape /\ CommitShape /\ UndoShape /\ [Next]_vars
    => UndoShape'
<1> SUFFICES ASSUME TypeOK, JobShape, CallShape, CommitShape, UndoShape,
                    [Next]_vars
             PROVE  UndoShape'
  OBVIOUS
<1> USE WorkerAssumption, AttemptAssumption
        DEF Worker, Idle, Become, Stop, Ask, Waits, Has, Drop, Tell, Answer, Op,
        ledger, payment, release
<1> USE DEF TypeOK, JobShape, Job, CallShape, CommitShape, UndoShape, Spent, Marking,
        Holding
<1>1. ASSUME NEW w \in Payer, InsertAttempt(w) PROVE UndoShape'
  <2>1. UNCHANGED <<tb, undone, took, escrow>> /\ \A v \in Worker \ {w} : job'[v] = job[v]
    BY <1>1 DEF InsertAttempt
  <2>2. job'[w].at \in {"reserve", "idle"} /\ \A c \in calls' : c \in calls \/ c.op = "reserve"
    <3>1. CASE Ask(w, "reserve", job[w].order, job[w].attempt)
      BY <1>1, <3>1 DEF InsertAttempt
    <3>2. CASE Stop(w) /\ UNCHANGED calls
      BY <1>1, <3>2 DEF InsertAttempt
    <3> QED
      BY <1>1, <3>1, <3>2 DEF InsertAttempt
  <2>3. \A v \in Worker, o \in Order : Holding(v, o)' => Holding(v, o)
    BY <2>1, <2>2
  <2>4. \A c \in calls', o \in Order : Marking(c, o) => c \in calls
    BY <2>2
  <2>5. \A o \in Order : Spent(o) => Spent(o)'
    BY <2>1, <2>3, <2>4
  <2> HIDE DEF Spent, Holding, Marking
  <2> QED
    BY <2>1, <2>2, <2>5
<1>2. ASSUME NEW w \in Payer, ReserveAnswered(w) PROVE UndoShape'
  BY <1>2, SMTT(20) DEF ReserveAnswered
<1>3. ASSUME NEW w \in Payer, Charge(w) PROVE UndoShape'
  BY <1>3, SMTT(20) DEF Charge
<1>4. ASSUME NEW w \in Payer, FailAttempt(w) PROVE UndoShape'
  BY <1>4 DEF FailAttempt
<1>5. ASSUME NEW w \in Payer, NEW a \in Attempt, ReadAttempt(w, a) PROVE UndoShape'
  BY <1>5 DEF ReadAttempt, Rows
<1>6. ASSUME NEW w \in Confirmer, ClaimIntent(w) PROVE UndoShape'
  BY <1>6, SMTT(20) DEF ClaimIntent, Unclaimed
<1>7. ASSUME NEW w \in Confirmer, CommitAnswered(w) PROVE UndoShape'
  BY <1>7 DEF CommitAnswered, Committed
<1>8. ASSUME NEW w \in Confirmer, NEW a \in Attempt, NEW v \in {"completed", "failed"},
             ReadForConfirm(w, a, v)
      PROVE  UndoShape'
  BY <1>8 DEF ReadForConfirm
<1>9. ASSUME NEW w \in Settler, CaptureAnswered(w) PROVE UndoShape'
  BY <1>9 DEF CaptureAnswered, Captured
<1>10. ASSUME NEW w \in Settler, FinishSettle(w) PROVE UndoShape'
  BY <1>10, SMTT(20) DEF FinishSettle
<1>11. ASSUME NEW w \in Settler, FlagSettlement(w) PROVE UndoShape'
  BY <1>11 DEF FlagSettlement, Unconfirmed
<1>12. ASSUME NEW w \in Settler, NEW o \in Order, BeginSettle(w, o) PROVE UndoShape'
  BY <1>12 DEF BeginSettle, Origin, Rows, Settling
<1>13. ASSUME NEW w \in Recon, NEW a \in Attempt, VoidOrphan(w, a) PROVE UndoShape'
  BY <1>13 DEF VoidOrphan
<1>14. ASSUME NEW w \in Confirmer \cup Recon, VoidAnswered(w) PROVE UndoShape'
  BY <1>14 DEF VoidAnswered
<1>15. ASSUME NEW a \in Attempt, Webhook(a) PROVE UndoShape'
  BY <1>15 DEF Webhook
<1>16. ASSUME NEW o \in Order, OpenHold(o) PROVE UndoShape'
  BY <1>16 DEF OpenHold, Rows
<1>17. ASSUME NEW o \in Order, ExpireLock(o) PROVE UndoShape'
  BY <1>17 DEF ExpireLock
<1>18. ASSUME NEW o \in Order, Expire(o) PROVE UndoShape'
  BY <1>18 DEF Expire
<1>19. ASSUME NEW c \in calls, Reserve(c) PROVE UndoShape'
  BY <1>19, SMTT(20) DEF Reserve, Acted
<1>20. ASSUME NEW c \in calls, Finish(c) PROVE UndoShape'
  BY <1>20, SMTT(20) DEF Finish, Acted
<1>21. ASSUME NEW c \in calls, Reverse(c) PROVE UndoShape'
  <2>1. UNCHANGED <<tb, took, escrow>> /\ c.order \in Order
    BY <1>21 DEF Reverse
  <2>2. \A v \in Worker, o \in Order : Holding(v, o)' => Holding(v, o)
    BY <1>21 DEF Reverse, Acted
  <2>3. \A d \in calls' : d \in calls \/ d = [c EXCEPT !.at = "mark"]
    BY <1>21 DEF Reverse, Acted
  <2>4. \A d \in calls', o \in Order : Marking(d, o) => d \in calls
    BY <1>21, <2>3 DEF Reverse
  <2>5. undone' \subseteq undone \cup {c.order} /\ Spent(c.order) /\ c.order \notin took
    BY <1>21 DEF Reverse
  <2>6. \A v \in Worker : job'[v].at = "reverse" =>
          (job[v].at = "reverse" /\ job'[v].order = job[v].order)
    <3>1. \/ job' = job
          \/ /\ job[c.by].at = "reverse" /\ c.by \in Worker
             /\ \E x \in {"ok", "refused", "error"} : job' = [job EXCEPT ![c.by].answer = x]
      BY <1>21 DEF Reverse, Acted
    <3> QED
      BY <3>1
  <2>7. \A o \in Order : Spent(o) => Spent(o)'
    BY <2>1, <2>2, <2>4
  <2>8. c.op = "reverse"
    BY <1>21 DEF Reverse
  <2> HIDE DEF Spent, Holding, Marking
  <2> QED
    BY <2>1, <2>3, <2>5, <2>6, <2>7, <2>8
<1>22. ASSUME NEW c \in calls, Unavailable(c) PROVE UndoShape'
  BY <1>22, SMTT(20) DEF Unavailable
<1>23. ASSUME NEW c \in calls, Mark(c) PROVE UndoShape'
  BY <1>23 DEF Mark, Final
<1>24. ASSUME NEW c \in calls, Break(c) PROVE UndoShape'
  BY <1>24 DEF Break
<1>25. ASSUME NEW w \in Worker, TimeOut(w) PROVE UndoShape'
  BY <1>25 DEF TimeOut, GiveUp, Abandoned
<1>26. ASSUME NEW w \in Worker, Crash(w) PROVE UndoShape'
  BY <1>26 DEF Crash, GiveUp, Abandoned
<1>27. CASE UNCHANGED vars
  BY <1>27 DEF vars
<1> HIDE DEF TypeOK, JobShape, Job, CallShape, CommitShape, UndoShape, Spent, Marking,
        Holding, Worker, Idle, vars, ledger, payment, release
<1> QED
  BY <1>1, <1>2, <1>3, <1>4, <1>5, <1>6, <1>7, <1>8, <1>9, <1>10, <1>11, <1>12, <1>13,
     <1>14, <1>15, <1>16, <1>17, <1>18, <1>19, <1>20, <1>21, <1>22, <1>23, <1>24,
     <1>25, <1>26, <1>27 DEF Next, Initiating, Confirming, Releasing, Bridge

\* Every step keeps the commit of a confirmed payment out of reach.
LEMMA ToldStep ==
  TypeOK /\ JobShape /\ CallShape /\ CommitShape /\ UndoShape /\ ToldShape /\
  [Next]_vars
    => ToldShape'
<1> SUFFICES ASSUME TypeOK, JobShape, CallShape, CommitShape, UndoShape,
                    ToldShape, [Next]_vars
             PROVE  ToldShape'
  OBVIOUS
<1> USE WorkerAssumption, AttemptAssumption
        DEF Worker, Idle, Become, Stop, Ask, Waits, Has, Drop, Tell, Answer, Op,
        ledger, payment, release
<1> USE DEF TypeOK, JobShape, Job, CallShape, CommitShape, UndoShape, ToldShape, Told,
        Spent, Marking, Holding
<1>1. ASSUME NEW w \in Payer, InsertAttempt(w) PROVE ToldShape'
  <2>1. UNCHANGED <<tb, undone, took, confirmed>> /\ \A v \in Worker \ {w} : job'[v] = job[v]
    BY <1>1 DEF InsertAttempt
  <2>2. job'[w].at \in {"reserve", "idle"} /\ \A c \in calls' : c \in calls \/ c.op = "reserve"
    <3>1. CASE Ask(w, "reserve", job[w].order, job[w].attempt)
      BY <1>1, <3>1 DEF InsertAttempt
    <3>2. CASE Stop(w) /\ UNCHANGED calls
      BY <1>1, <3>2 DEF InsertAttempt
    <3> QED
      BY <1>1, <3>1, <3>2 DEF InsertAttempt
  <2>3. \A v \in Worker, o \in Order : Holding(v, o)' => Holding(v, o)
    BY <2>1, <2>2
  <2>4. \A c \in calls', o \in Order : Marking(c, o) => c \in calls
    BY <2>2
  <2>5. \A o \in Order : Spent(o) => Spent(o)'
    BY <2>1, <2>3, <2>4
  <2>6. \A o \in Order : Told(o)' => Told(o)
    BY <2>1
  <2> HIDE DEF Spent, Told, Holding, Marking
  <2> QED
    BY <2>1, <2>2, <2>5, <2>6
<1>2. ASSUME NEW w \in Payer, ReserveAnswered(w) PROVE ToldShape'
  BY <1>2 DEF ReserveAnswered
<1>3. ASSUME NEW w \in Payer, Charge(w) PROVE ToldShape'
  BY <1>3 DEF Charge
<1>4. ASSUME NEW w \in Payer, FailAttempt(w) PROVE ToldShape'
  BY <1>4 DEF FailAttempt
<1>5. ASSUME NEW w \in Payer, NEW a \in Attempt, ReadAttempt(w, a) PROVE ToldShape'
  BY <1>5 DEF ReadAttempt, Rows
<1>6. ASSUME NEW w \in Confirmer, ClaimIntent(w) PROVE ToldShape'
  <2>1. UNCHANGED <<tb, undone, took, confirmed>> /\ \A v \in Worker \ {w} : job'[v] = job[v]
    BY <1>6 DEF ClaimIntent
  <2>2. /\ \/ job'[w].at = "idle"
           \/ job'[w].at \in {"commit", "void"} /\ job'[w].answer = "none"
        /\ \A c \in calls' : c \in calls \/ (c.op \in {"commit", "void"} /\ c.at = "sent")
    <3>1. CASE \E op \in {"commit", "void"} : Ask(w, op, job[w].order, job[w].attempt)
      <4>1. PICK op \in {"commit", "void"} : Ask(w, op, job[w].order, job[w].attempt)
        BY <3>1
      <4>2. job' = [job EXCEPT ![w] = [at |-> op, order |-> job[w].order,
                                       attempt |-> job[w].attempt, answer |-> "none"]]
        BY <4>1
      <4>3. job'[w].at = op /\ job'[w].answer = "none"
        BY <1>6, <4>2
      <4>4. \A c \in calls' : c \in calls \/ (c.op = op /\ c.at = "sent")
        BY <4>1
      <4> QED
        BY <4>3, <4>4
    <3>2. CASE Stop(w) /\ UNCHANGED calls
      <4>1. job'[w] = Idle
        BY <1>6, <3>2
      <4>2. job'[w].at = "idle"
        BY <4>1
      <4>3. calls' = calls
        BY <3>2
      <4> QED
        BY <4>2, <4>3
    <3> HIDE DEF Ask, Stop
    <3> QED
      BY <1>6, <3>1, <3>2 DEF ClaimIntent
  <2>3. \A v \in Worker, o \in Order : Holding(v, o)' => Holding(v, o)
    BY <2>1, <2>2
  <2>4. \A c \in calls', o \in Order : Marking(c, o) => c \in calls
    BY <2>2
  <2>5. \A o \in Order : Spent(o) => Spent(o)'
    BY <2>1, <2>3, <2>4
  <2>6. \A o \in Order : Told(o)' => Told(o)
    BY <2>1
  <2> HIDE DEF Spent, Told, Holding, Marking
  <2> QED
    BY <2>1, <2>2, <2>5, <2>6
<1>7. ASSUME NEW w \in Confirmer, CommitAnswered(w) PROVE ToldShape'
  BY <1>7 DEF CommitAnswered, Committed
<1>8. ASSUME NEW w \in Confirmer, NEW a \in Attempt, NEW v \in {"completed", "failed"},
             ReadForConfirm(w, a, v)
      PROVE  ToldShape'
  BY <1>8 DEF ReadForConfirm
<1>9. ASSUME NEW w \in Settler, CaptureAnswered(w) PROVE ToldShape'
  BY <1>9, SMTT(20) DEF CaptureAnswered, Captured
<1>10. ASSUME NEW w \in Settler, FinishSettle(w) PROVE ToldShape'
  BY <1>10 DEF FinishSettle
<1>11. ASSUME NEW w \in Settler, FlagSettlement(w) PROVE ToldShape'
  BY <1>11 DEF FlagSettlement, Unconfirmed
<1>12. ASSUME NEW w \in Settler, NEW o \in Order, BeginSettle(w, o) PROVE ToldShape'
  BY <1>12 DEF BeginSettle, Origin, Rows, Settling
<1>13. ASSUME NEW w \in Recon, NEW a \in Attempt, VoidOrphan(w, a) PROVE ToldShape'
  BY <1>13 DEF VoidOrphan
<1>14. ASSUME NEW w \in Confirmer \cup Recon, VoidAnswered(w) PROVE ToldShape'
  BY <1>14 DEF VoidAnswered
<1>15. ASSUME NEW a \in Attempt, Webhook(a) PROVE ToldShape'
  BY <1>15 DEF Webhook
<1>16. ASSUME NEW o \in Order, OpenHold(o) PROVE ToldShape'
  BY <1>16 DEF OpenHold, Rows
<1>17. ASSUME NEW o \in Order, ExpireLock(o) PROVE ToldShape'
  BY <1>17 DEF ExpireLock
<1>18. ASSUME NEW o \in Order, Expire(o) PROVE ToldShape'
  BY <1>18 DEF Expire
<1>19. ASSUME NEW c \in calls, Reserve(c) PROVE ToldShape'
  BY <1>19, SMTT(20) DEF Reserve, Acted
<1>20. ASSUME NEW c \in calls, Finish(c) PROVE ToldShape'
  BY <1>20, SMTT(20) DEF Finish, Acted
<1>21. ASSUME NEW c \in calls, Reverse(c) PROVE ToldShape'
  <2>1. UNCHANGED <<tb, took, confirmed>> /\ c.order \in Order
    BY <1>21 DEF Reverse
  <2>2. \A v \in Worker, o \in Order : Holding(v, o)' => Holding(v, o)
    BY <1>21, SMTT(20) DEF Reverse, Acted
  <2>3. \A d \in calls' : d \in calls \/ d = [c EXCEPT !.at = "mark"]
    BY <1>21 DEF Reverse, Acted
  <2>4. \A d \in calls', o \in Order : Marking(d, o) => d \in calls
    BY <1>21, <2>3 DEF Reverse
  <2>5. undone' \subseteq undone \cup {c.order} /\ Spent(c.order) /\ c.order \notin took
    BY <1>21 DEF Reverse
  <2>6. \A v \in Worker : job'[v].at = "reverse" =>
          (job[v].at = "reverse" /\ job'[v].order = job[v].order)
    <3>1. \/ job' = job
          \/ /\ job[c.by].at = "reverse" /\ c.by \in Worker
             /\ \E x \in {"ok", "refused", "error"} : job' = [job EXCEPT ![c.by].answer = x]
      BY <1>21 DEF Reverse, Acted
    <3> QED
      BY <3>1
  <2>7. \A o \in Order : Spent(o) => Spent(o)'
    BY <2>1, <2>2, <2>4
  <2>8. c.op = "reverse"
    BY <1>21 DEF Reverse
  <2>9. \A o \in Order : Told(o)' => Told(o)
    BY <2>1
  <2>10. ~Told(c.order)
    BY <1>21, <2>8
  <2> HIDE DEF Spent, Told, Holding, Marking
  <2> QED
    BY <2>1, <2>3, <2>5, <2>6, <2>7, <2>8, <2>9, <2>10
<1>22. ASSUME NEW c \in calls, Unavailable(c) PROVE ToldShape'
  BY <1>22 DEF Unavailable
<1>23. ASSUME NEW c \in calls, Mark(c) PROVE ToldShape'
  BY <1>23 DEF Mark, Final
<1>24. ASSUME NEW c \in calls, Break(c) PROVE ToldShape'
  BY <1>24 DEF Break
<1>25. ASSUME NEW w \in Worker, TimeOut(w) PROVE ToldShape'
  BY <1>25 DEF TimeOut, GiveUp, Abandoned
<1>26. ASSUME NEW w \in Worker, Crash(w) PROVE ToldShape'
  BY <1>26 DEF Crash, GiveUp, Abandoned
<1>27. CASE UNCHANGED vars
  BY <1>27 DEF vars
<1> HIDE DEF TypeOK, JobShape, Job, CallShape, CommitShape, UndoShape, ToldShape, Told,
        Spent, Marking, Holding, Worker, Idle, vars, ledger, payment, release
<1> QED
  BY <1>1, <1>2, <1>3, <1>4, <1>5, <1>6, <1>7, <1>8, <1>9, <1>10, <1>11, <1>12, <1>13,
     <1>14, <1>15, <1>16, <1>17, <1>18, <1>19, <1>20, <1>21, <1>22, <1>23, <1>24,
     <1>25, <1>26, <1>27 DEF Next, Initiating, Confirming, Releasing, Bridge

\* Every step keeps what is known of captured orders.
LEMMA KnownStep ==
  TypeOK /\ JobShape /\ CallShape /\ CommitShape /\ UndoShape /\ KnownShape /\ [Next]_vars
    => KnownShape'
<1> SUFFICES ASSUME TypeOK, JobShape, CallShape, CommitShape, UndoShape, KnownShape,
                    [Next]_vars
             PROVE  KnownShape'
  OBVIOUS
<1> USE WorkerAssumption, AttemptAssumption
        DEF Worker, Idle, Become, Stop, Ask, Waits, Has, Drop, Tell, Answer, Op,
        ledger, payment, release
<1> USE DEF TypeOK, JobShape, Job, CallShape, CommitShape, UndoShape, Spent, Marking,
        Holding, KnownShape, Settles, Reversed
<1>1. ASSUME NEW w \in Payer, InsertAttempt(w) PROVE KnownShape'
  <2>1. UNCHANGED <<tb, undone, rec, flagged, known, escrow>>
    BY <1>1 DEF InsertAttempt
  <2>2. \A v \in Worker \ {w} : job'[v] = job[v]
    BY <1>1 DEF InsertAttempt
  <2>3. w \notin Settler /\ \A c \in calls' : c \in calls \/ c.op = "reserve"
    <3>1. CASE Ask(w, "reserve", job[w].order, job[w].attempt)
      BY <1>1, <3>1 DEF InsertAttempt
    <3>2. CASE Stop(w) /\ UNCHANGED calls
      BY <1>1, <3>2 DEF InsertAttempt
    <3> QED
      BY <1>1, <3>1, <3>2 DEF InsertAttempt
  <2>4. \A c \in calls', o \in Order : Marking(c, o) => c \in calls
    BY <2>3
  <2>5. \A v \in Settler, o \in Order : Settles(v, o) => Settles(v, o)'
    BY <2>2, <2>3
  <2> HIDE DEF Settles, Marking
  <2> QED
    BY <2>1, <2>2, <2>3, <2>4, <2>5
<1>2. ASSUME NEW w \in Payer, ReserveAnswered(w) PROVE KnownShape'
  BY <1>2, SMTT(20) DEF ReserveAnswered
<1>3. ASSUME NEW w \in Payer, Charge(w) PROVE KnownShape'
  BY <1>3, SMTT(20) DEF Charge
<1>4. ASSUME NEW w \in Payer, FailAttempt(w) PROVE KnownShape'
  BY <1>4 DEF FailAttempt
<1>5. ASSUME NEW w \in Payer, NEW a \in Attempt, ReadAttempt(w, a) PROVE KnownShape'
  BY <1>5 DEF ReadAttempt, Rows
<1>6. ASSUME NEW w \in Confirmer, ClaimIntent(w) PROVE KnownShape'
  BY <1>6, SMTT(20) DEF ClaimIntent, Unclaimed
<1>7. ASSUME NEW w \in Confirmer, CommitAnswered(w) PROVE KnownShape'
  BY <1>7 DEF CommitAnswered, Committed
<1>8. ASSUME NEW w \in Confirmer, NEW a \in Attempt, NEW v \in {"completed", "failed"},
             ReadForConfirm(w, a, v)
      PROVE  KnownShape'
  BY <1>8 DEF ReadForConfirm
<1>9. ASSUME NEW w \in Settler, CaptureAnswered(w) PROVE KnownShape'
  BY <1>9, SMTT(20) DEF CaptureAnswered, Captured
<1>10. ASSUME NEW w \in Settler, FinishSettle(w) PROVE KnownShape'
  <2>1. /\ w \in Worker /\ w \notin Payer \cup Confirmer /\ job[w] # Idle
        /\ job[w].at = "credit" /\ job[w].order \in Order
        /\ UNCHANGED <<tb, undone, rec, flagged>> /\ known' \subseteq known
        /\ \A v \in Worker \ {w} : job'[v] = job[v]
        /\ \A o \in Order : escrow[o] = "settled" => escrow'[o] = "settled"
    BY <1>10 DEF FinishSettle
  <2>2. \A o \in Order \ {job[w].order}, v \in Worker : Settles(v, o) => Settles(v, o)'
    BY <2>1
  <2>3. CASE Ask(w, "reverse", job[w].order, "none")
    <3>1. job'[w] = [at |-> "reverse", order |-> job[w].order, attempt |-> "none",
                     answer |-> "none"]
      BY <2>1, <2>3
    <3>2. \A c \in calls' : c \in calls \/ (c.op = "reverse" /\ c.at = "sent")
      BY <2>3
    <3>3. \A o \in Order : o = job[w].order => Settles(w, o)'
      <4>1. job'[w].at = "reverse" /\ job'[w].order = job[w].order
        BY <3>1
      <4> QED
        BY <4>1
    <3>4. \A c \in calls', o \in Order : Marking(c, o) => c \in calls
      BY <3>2
    <3> HIDE DEF Settles, Marking
    <3> QED
      BY <2>1, <2>2, <3>1, <3>2, <3>3, <3>4
  <2>4. CASE Stop(w) /\ UNCHANGED calls /\ ~job[w].captured
    <3>1. \A o \in Order, v \in Worker : Settles(v, o) => Settles(v, o)'
      BY <2>1, <2>2, <2>4
    <3> HIDE DEF Settles, Marking
    <3> QED
      BY <2>1, <2>4, <3>1
  <2>5. CASE Stop(w) /\ UNCHANGED calls /\ escrow' = [escrow EXCEPT ![job[w].order] = "settled"]
    <3>1. escrow'[job[w].order] = "settled"
      BY <2>1, <2>5
    <3> HIDE DEF Settles, Marking
    <3> QED
      BY <2>1, <2>2, <2>5, <3>1
  <2>6. CASE /\ Stop(w) /\ UNCHANGED <<calls, escrow>>
             /\ known' = known \ {job[w].order}
    <3>1. \A o \in known' : o \in known /\ o # job[w].order
      BY <2>6
    <3> HIDE DEF Settles, Marking
    <3> QED
      BY <2>1, <2>2, <2>6, <3>1
  <2> QED
    BY <1>10, <2>3, <2>4, <2>5, <2>6 DEF FinishSettle
<1>11. ASSUME NEW w \in Settler, FlagSettlement(w) PROVE KnownShape'
  BY <1>11 DEF FlagSettlement, Unconfirmed
<1>12. ASSUME NEW w \in Settler, NEW o \in Order, BeginSettle(w, o) PROVE KnownShape'
  BY <1>12, SMTT(20) DEF BeginSettle, Origin, Rows, Settling
<1>13. ASSUME NEW w \in Recon, NEW a \in Attempt, VoidOrphan(w, a) PROVE KnownShape'
  BY <1>13 DEF VoidOrphan
<1>14. ASSUME NEW w \in Confirmer \cup Recon, VoidAnswered(w) PROVE KnownShape'
  BY <1>14 DEF VoidAnswered
<1>15. ASSUME NEW a \in Attempt, Webhook(a) PROVE KnownShape'
  BY <1>15 DEF Webhook
<1>16. ASSUME NEW o \in Order, OpenHold(o) PROVE KnownShape'
  BY <1>16 DEF OpenHold, Rows
<1>17. ASSUME NEW o \in Order, ExpireLock(o) PROVE KnownShape'
  BY <1>17 DEF ExpireLock
<1>18. ASSUME NEW o \in Order, Expire(o) PROVE KnownShape'
  BY <1>18 DEF Expire
<1>19. ASSUME NEW c \in calls, Reserve(c) PROVE KnownShape'
  <2>1. /\ UNCHANGED <<undone, rec, flagged, known, escrow>> /\ c.op = "reserve"
        /\ \A o \in Order : tb[o] = "posted" => tb'[o] = "posted"
    BY <1>19 DEF Reserve
  <2>2. \A d \in calls' : d \in calls \/ d = [c EXCEPT !.at = "mark"]
    BY <1>19 DEF Reserve, Acted
  <2>3. \/ job' = job
        \/ /\ job[c.by].at = "reserve" /\ c.by \in Worker
           /\ \E x \in {"ok", "error"} : job' = [job EXCEPT ![c.by].answer = x]
    BY <1>19 DEF Reserve, Acted
  <2>4. \A v \in Worker : job'[v] = job[v] \/ (job[v].at = "reserve" /\ job'[v].at = "reserve")
    <3>1. CASE job' = job
      BY <3>1
    <3>2. CASE /\ job[c.by].at = "reserve" /\ c.by \in Worker
               /\ \E x \in {"ok", "error"} : job' = [job EXCEPT ![c.by].answer = x]
      <4>1. \A v \in Worker \ {c.by} : job'[v] = job[v]
        BY <3>2
      <4>2. job'[c.by].at = "reserve"
        BY <3>2
      <4> QED
        BY <3>2, <4>1, <4>2
    <3> QED
      BY <2>3, <3>1, <3>2
  <2>5. \A v \in Worker, o \in Order : Settles(v, o) => Settles(v, o)'
    BY <2>4
  <2>6. \A d \in calls', o \in Order : Marking(d, o) => d \in calls
    BY <2>1, <2>2
  <2>7. \A d \in calls' : d.op = "reverse" => d \in calls
    BY <2>1, <2>2
  <2> HIDE DEF Settles, Marking
  <2> QED
    BY <2>1, <2>4, <2>5, <2>6, <2>7
<1>20. ASSUME NEW c \in calls, Finish(c) PROVE KnownShape'
  <2>1. /\ UNCHANGED <<undone, rec, flagged, known, escrow>> /\ c.op \in {"commit", "void"}
        /\ \A o \in known : o # c.order /\ tb'[o] = tb[o]
    BY <1>20 DEF Finish
  <2>2. \A d \in calls' : d \in calls \/ d = [c EXCEPT !.at = "mark"]
    BY <1>20 DEF Finish, Acted
  <2>3. \/ job' = job
        \/ /\ job[c.by].at \in {"commit", "void"} /\ c.by \in Worker
           /\ job' = [job EXCEPT ![c.by].answer = "error"]
    BY <1>20 DEF Finish, Acted
  <2>4. \A v \in Worker : \/ job'[v] = job[v]
                         \/ /\ job[v].at \in {"commit", "void"}
                            /\ job'[v].at \in {"commit", "void"}
    <3>1. CASE job' = job
      BY <3>1
    <3>2. CASE /\ job[c.by].at \in {"commit", "void"} /\ c.by \in Worker
               /\ job' = [job EXCEPT ![c.by].answer = "error"]
      <4>1. \A v \in Worker \ {c.by} : job'[v] = job[v]
        BY <3>2
      <4>2. job'[c.by].at \in {"commit", "void"}
        BY <3>2
      <4> QED
        BY <3>2, <4>1, <4>2
    <3> QED
      BY <2>3, <3>1, <3>2
  <2>5. \A v \in Worker, o \in Order : Settles(v, o) => Settles(v, o)'
    BY <2>4
  <2>6. \A d \in calls', o \in known : Marking(d, o) => d \in calls
    BY <2>1, <2>2
  <2>7. \A d \in calls' : d.op = "reverse" => d \in calls
    BY <2>1, <2>2
  <2> HIDE DEF Settles, Marking
  <2> QED
    BY <2>1, <2>4, <2>5, <2>6, <2>7
<1>21. ASSUME NEW c \in calls, Reverse(c) PROVE KnownShape'
  <2>1. /\ UNCHANGED <<tb, rec, flagged, escrow>> /\ c.op = "reverse"
        /\ undone \subseteq undone' /\ known' \subseteq known
    BY <1>21 DEF Reverse
  <2>2. \A d \in calls' : d \in calls \/ d = [c EXCEPT !.at = "mark"]
    BY <1>21 DEF Reverse, Acted
  <2>3. \/ job' = job
        \/ /\ job[c.by].at = "reverse" /\ c.by \in Worker
           /\ \E x \in {"ok", "refused", "error"} :
                job' = [job EXCEPT ![c.by].answer = x]
    BY <1>21 DEF Reverse, Acted
  <2>4. \A v \in Worker : \/ job'[v] = job[v]
                         \/ /\ job[v].at = "reverse" /\ job'[v].at = "reverse"
                            /\ job'[v].order = job[v].order
    <3>1. CASE job' = job
      BY <3>1
    <3>2. CASE /\ job[c.by].at = "reverse" /\ c.by \in Worker
               /\ \E x \in {"ok", "refused", "error"} :
                    job' = [job EXCEPT ![c.by].answer = x]
      <4>1. \A v \in Worker \ {c.by} : job'[v] = job[v]
        BY <3>2
      <4>2. job'[c.by].at = "reverse" /\ job'[c.by].order = job[c.by].order
        BY <3>2
      <4> QED
        BY <3>2, <4>1, <4>2
    <3> QED
      BY <2>3, <3>1, <3>2
  <2>5. \A d \in calls' : d.op = "reverse" /\ d.at = "mark" => d.order \in undone'
    BY <1>21 DEF Reverse, Acted
  <2>6. ASSUME NEW w \in Settler, job'[w].at = "reverse",
               job'[w].answer \in {"ok", "refused"}, job'[w].order \in known'
        PROVE  Reversed(job[w].order)'
    <3>1. CASE job'[w] = job[w]
      <4>1. Reversed(job[w].order)
        BY <2>1, <2>6, <3>1
      <4> HIDE DEF TypeOK, JobShape, CallShape, CommitShape, UndoShape, KnownShape
      <4> QED
        BY <2>1, <3>1, <4>1
    <3>2. CASE job'[w] # job[w]
      <4>0. c.by = w /\ job[w].order = c.order
        BY <2>3, <3>2
      <4>1. job'[w].order = c.order
        BY <2>4, <4>0
      <4>2. rec[c.order] # "committed"
        BY <1>21, <2>6, <3>2, <4>1 DEF Reverse, Acted
      <4>3. rec[c.order] = "reversed" => c.order \in undone'
        BY <2>1
      <4> HIDE DEF TypeOK, JobShape, CallShape, CommitShape, UndoShape, Spent, Marking,
                   Holding, KnownShape, Settles
      <4> QED
        BY <2>1, <4>1, <4>2, <4>3
    <3> QED
      BY <3>1, <3>2
  <2>7. \A v \in Worker, o \in Order : Settles(v, o) => Settles(v, o)'
    BY <2>4
  <2>8. \A d \in calls', o \in Order : Marking(d, o) => d \in calls
    BY <2>1, <2>2
  <2>9. ASSUME NEW o \in known'
        PROVE  \/ escrow'[o] = "settled" \/ o \in undone' \cup flagged'
               \/ \E w \in Settler : Settles(w, o)'
               \/ Reversed(o)' /\ \A d \in calls' : ~Marking(d, o)
    <3>1. o \in known /\ o \in Order
      BY <2>1
    <3>2. Reversed(o) => Reversed(o)'
      BY <2>1
    <3> HIDE DEF Settles, Marking, Reversed
    <3> QED
      BY <2>1, <2>7, <2>8, <3>1, <3>2
  <2>10. /\ \A o \in Order : rec'[o] = "reversed" => o \in undone'
         /\ \A o \in known' : tb'[o] = "posted"
    BY <2>1
  <2> HIDE DEF TypeOK, JobShape, CallShape, CommitShape, UndoShape, Spent, Marking,
               Holding, Settles, Reversed
  <2> QED
    BY <2>5, <2>6, <2>9, <2>10
<1>22. ASSUME NEW c \in calls, Unavailable(c) PROVE KnownShape'
  BY <1>22 DEF Unavailable
<1>23. ASSUME NEW c \in calls, Mark(c) PROVE KnownShape'
  BY <1>23 DEF Mark, Final
<1>24. ASSUME NEW c \in calls, Break(c) PROVE KnownShape'
  BY <1>24 DEF Break
<1>25. ASSUME NEW w \in Worker, TimeOut(w) PROVE KnownShape'
  BY <1>25 DEF TimeOut, GiveUp, Abandoned
<1>26. ASSUME NEW w \in Worker, Crash(w) PROVE KnownShape'
  BY <1>26 DEF Crash, GiveUp, Abandoned
<1>27. CASE UNCHANGED vars
  BY <1>27 DEF vars
<1> HIDE DEF TypeOK, JobShape, Job, CallShape, CommitShape, UndoShape, Spent, Marking,
        Holding, KnownShape, Settles, Reversed, Worker, Idle, vars, ledger, payment,
        release
<1> QED
  BY <1>1, <1>2, <1>3, <1>4, <1>5, <1>6, <1>7, <1>8, <1>9, <1>10, <1>11, <1>12, <1>13,
     <1>14, <1>15, <1>16, <1>17, <1>18, <1>19, <1>20, <1>21, <1>22, <1>23, <1>24,
     <1>25, <1>26, <1>27 DEF Next, Initiating, Confirming, Releasing, Bridge

\* Every step keeps the lock exclusive.
LEMMA LockStep ==
  TypeOK /\ JobShape /\ CallShape /\ LockShape /\ [Next]_vars
    => LockShape'
<1> SUFFICES ASSUME TypeOK, JobShape, CallShape, LockShape, [Next]_vars PROVE LockShape'
  OBVIOUS
<1> USE WorkerAssumption, AttemptAssumption
        DEF Worker, Idle, Become, Stop, Ask, Waits, Has, Drop, Tell, Answer, Op,
        ledger, payment, release
<1> USE DEF TypeOK, JobShape, Job, CallShape, LockShape
<1>1. ASSUME NEW w \in Payer, InsertAttempt(w) PROVE LockShape'
  BY <1>1 DEF InsertAttempt, Rows
<1>2. ASSUME NEW w \in Payer, ReserveAnswered(w) PROVE LockShape'
  BY <1>2 DEF ReserveAnswered
<1>3. ASSUME NEW w \in Payer, Charge(w) PROVE LockShape'
  BY <1>3 DEF Charge
<1>4. ASSUME NEW w \in Payer, FailAttempt(w) PROVE LockShape'
  BY <1>4 DEF FailAttempt
<1>5. ASSUME NEW w \in Payer, NEW a \in Attempt, ReadAttempt(w, a) PROVE LockShape'
  BY <1>5 DEF ReadAttempt, Rows
<1>6. ASSUME NEW w \in Confirmer, ClaimIntent(w) PROVE LockShape'
  <2>1. UNCHANGED <<offered, acked, locked>> /\ w \notin Payer /\ w \in Worker
    BY <1>6 DEF ClaimIntent
  <2>2. \A v \in Payer : job'[v] = job[v]
    BY <1>6 DEF ClaimIntent
  <2>3. \A b \in Attempt : intent[b] # "none" => intent'[b] # "none"
    BY <1>6 DEF ClaimIntent
  <2>4. \A v \in Payer : job[v] # Idle /\ job[v].at = "insert" =>
          intent'[job[v].attempt] = intent[job[v].attempt]
    <3>1. CASE Unclaimed(intent[job[w].attempt])
      BY <1>6, <3>1 DEF ClaimIntent, Unclaimed, Open
    <3>2. CASE ~Unclaimed(intent[job[w].attempt])
      BY <1>6, <3>2 DEF ClaimIntent
    <3> QED
      BY <3>1, <3>2
  <2> QED
    BY <2>1, <2>2, <2>3, <2>4
<1>7. ASSUME NEW w \in Confirmer, CommitAnswered(w) PROVE LockShape'
  BY <1>7 DEF CommitAnswered, Committed
<1>8. ASSUME NEW w \in Confirmer, NEW a \in Attempt, NEW v \in {"completed", "failed"},
             ReadForConfirm(w, a, v)
      PROVE  LockShape'
  BY <1>8 DEF ReadForConfirm
<1>9. ASSUME NEW w \in Settler, CaptureAnswered(w) PROVE LockShape'
  BY <1>9 DEF CaptureAnswered, Captured
<1>10. ASSUME NEW w \in Settler, FinishSettle(w) PROVE LockShape'
  BY <1>10 DEF FinishSettle
<1>11. ASSUME NEW w \in Settler, FlagSettlement(w) PROVE LockShape'
  BY <1>11 DEF FlagSettlement, Unconfirmed
<1>12. ASSUME NEW w \in Settler, NEW o \in Order, BeginSettle(w, o) PROVE LockShape'
  BY <1>12 DEF BeginSettle, Origin, Rows, Settling
<1>13. ASSUME NEW w \in Recon, NEW a \in Attempt, VoidOrphan(w, a) PROVE LockShape'
  BY <1>13 DEF VoidOrphan
<1>14. ASSUME NEW w \in Confirmer \cup Recon, VoidAnswered(w) PROVE LockShape'
  BY <1>14 DEF VoidAnswered
<1>15. ASSUME NEW a \in Attempt, Webhook(a) PROVE LockShape'
  BY <1>15 DEF Webhook
<1>16. ASSUME NEW o \in Order, OpenHold(o) PROVE LockShape'
  BY <1>16 DEF OpenHold, Rows
<1>17. ASSUME NEW o \in Order, ExpireLock(o) PROVE LockShape'
  BY <1>17 DEF ExpireLock
<1>18. ASSUME NEW o \in Order, Expire(o) PROVE LockShape'
  BY <1>18 DEF Expire
<1>19. ASSUME NEW c \in calls, Reserve(c) PROVE LockShape'
  BY <1>19 DEF Reserve, Acted
<1>20. ASSUME NEW c \in calls, Finish(c) PROVE LockShape'
  BY <1>20 DEF Finish, Acted
<1>21. ASSUME NEW c \in calls, Reverse(c) PROVE LockShape'
  BY <1>21 DEF Reverse, Acted
<1>22. ASSUME NEW c \in calls, Unavailable(c) PROVE LockShape'
  BY <1>22 DEF Unavailable
<1>23. ASSUME NEW c \in calls, Mark(c) PROVE LockShape'
  BY <1>23 DEF Mark, Final
<1>24. ASSUME NEW c \in calls, Break(c) PROVE LockShape'
  BY <1>24 DEF Break
<1>25. ASSUME NEW w \in Worker, TimeOut(w) PROVE LockShape'
  BY <1>25 DEF TimeOut, GiveUp, Abandoned
<1>26. ASSUME NEW w \in Worker, Crash(w) PROVE LockShape'
  BY <1>26 DEF Crash, GiveUp, Abandoned
<1>27. CASE UNCHANGED vars
  BY <1>27 DEF vars
<1> HIDE DEF TypeOK, JobShape, Job, CallShape, LockShape, Worker, Idle, vars, ledger,
        payment, release
<1> QED
  BY <1>1, <1>2, <1>3, <1>4, <1>5, <1>6, <1>7, <1>8, <1>9, <1>10, <1>11, <1>12, <1>13,
     <1>14, <1>15, <1>16, <1>17, <1>18, <1>19, <1>20, <1>21, <1>22, <1>23, <1>24,
     <1>25, <1>26, <1>27 DEF Next, Initiating, Confirming, Releasing, Bridge

\* Every step keeps an acknowledged payment completed.
LEMMA PaidStep ==
  TypeOK /\ JobShape /\ CallShape /\ LockShape /\ PaidStaysCompleted /\ [Next]_vars
    => PaidStaysCompleted'
<1> SUFFICES ASSUME TypeOK, JobShape, CallShape, LockShape, PaidStaysCompleted,
                    [Next]_vars
             PROVE  PaidStaysCompleted'
  OBVIOUS
<1> USE WorkerAssumption, AttemptAssumption
        DEF Worker, Idle, Become, Stop, Ask, Waits, Has, Drop, Tell, Answer, Op,
        ledger, payment, release
<1> USE DEF TypeOK, JobShape, Job, CallShape, LockShape, PaidStaysCompleted
<1>1. ASSUME NEW w \in Payer, InsertAttempt(w) PROVE PaidStaysCompleted'
  BY <1>1 DEF InsertAttempt, Rows
<1>2. ASSUME NEW w \in Payer, ReserveAnswered(w) PROVE PaidStaysCompleted'
  BY <1>2 DEF ReserveAnswered
<1>3. ASSUME NEW w \in Payer, Charge(w) PROVE PaidStaysCompleted'
  BY <1>3 DEF Charge
<1>4. ASSUME NEW w \in Payer, FailAttempt(w) PROVE PaidStaysCompleted'
  BY <1>4 DEF FailAttempt
<1>5. ASSUME NEW w \in Payer, NEW a \in Attempt, ReadAttempt(w, a)
      PROVE  PaidStaysCompleted'
  BY <1>5 DEF ReadAttempt, Rows
<1>6. ASSUME NEW w \in Confirmer, ClaimIntent(w) PROVE PaidStaysCompleted'
  <2>1. CASE Unclaimed(intent[job[w].attempt])
    BY <1>6, <2>1 DEF ClaimIntent, Unclaimed, Open
  <2>2. CASE ~Unclaimed(intent[job[w].attempt])
    BY <1>6, <2>2 DEF ClaimIntent
  <2> QED
    BY <2>1, <2>2
<1>7. ASSUME NEW w \in Confirmer, CommitAnswered(w) PROVE PaidStaysCompleted'
  BY <1>7 DEF CommitAnswered, Committed
<1>8. ASSUME NEW w \in Confirmer, NEW a \in Attempt, NEW v \in {"completed", "failed"},
             ReadForConfirm(w, a, v)
      PROVE  PaidStaysCompleted'
  BY <1>8 DEF ReadForConfirm
<1>9. ASSUME NEW w \in Settler, CaptureAnswered(w) PROVE PaidStaysCompleted'
  BY <1>9 DEF CaptureAnswered, Captured
<1>10. ASSUME NEW w \in Settler, FinishSettle(w) PROVE PaidStaysCompleted'
  BY <1>10 DEF FinishSettle
<1>11. ASSUME NEW w \in Settler, FlagSettlement(w) PROVE PaidStaysCompleted'
  BY <1>11 DEF FlagSettlement, Unconfirmed
<1>12. ASSUME NEW w \in Settler, NEW o \in Order, BeginSettle(w, o)
      PROVE  PaidStaysCompleted'
  BY <1>12 DEF BeginSettle, Origin, Rows, Settling
<1>13. ASSUME NEW w \in Recon, NEW a \in Attempt, VoidOrphan(w, a)
      PROVE  PaidStaysCompleted'
  BY <1>13 DEF VoidOrphan
<1>14. ASSUME NEW w \in Confirmer \cup Recon, VoidAnswered(w) PROVE PaidStaysCompleted'
  BY <1>14 DEF VoidAnswered
<1>15. ASSUME NEW a \in Attempt, Webhook(a) PROVE PaidStaysCompleted'
  BY <1>15 DEF Webhook
<1>16. ASSUME NEW o \in Order, OpenHold(o) PROVE PaidStaysCompleted'
  BY <1>16 DEF OpenHold, Rows
<1>17. ASSUME NEW o \in Order, ExpireLock(o) PROVE PaidStaysCompleted'
  BY <1>17 DEF ExpireLock
<1>18. ASSUME NEW o \in Order, Expire(o) PROVE PaidStaysCompleted'
  BY <1>18 DEF Expire
<1>19. ASSUME NEW c \in calls, Reserve(c) PROVE PaidStaysCompleted'
  BY <1>19 DEF Reserve, Acted
<1>20. ASSUME NEW c \in calls, Finish(c) PROVE PaidStaysCompleted'
  BY <1>20 DEF Finish, Acted
<1>21. ASSUME NEW c \in calls, Reverse(c) PROVE PaidStaysCompleted'
  BY <1>21 DEF Reverse, Acted
<1>22. ASSUME NEW c \in calls, Unavailable(c) PROVE PaidStaysCompleted'
  BY <1>22 DEF Unavailable
<1>23. ASSUME NEW c \in calls, Mark(c) PROVE PaidStaysCompleted'
  BY <1>23 DEF Mark, Final
<1>24. ASSUME NEW c \in calls, Break(c) PROVE PaidStaysCompleted'
  BY <1>24 DEF Break
<1>25. ASSUME NEW w \in Worker, TimeOut(w) PROVE PaidStaysCompleted'
  BY <1>25 DEF TimeOut, GiveUp, Abandoned
<1>26. ASSUME NEW w \in Worker, Crash(w) PROVE PaidStaysCompleted'
  BY <1>26 DEF Crash, GiveUp, Abandoned
<1>27. CASE UNCHANGED vars
  BY <1>27 DEF vars
<1> HIDE DEF TypeOK, JobShape, Job, CallShape, LockShape, PaidStaysCompleted, Worker,
        Idle, vars, ledger, payment, release
<1> QED
  BY <1>1, <1>2, <1>3, <1>4, <1>5, <1>6, <1>7, <1>8, <1>9, <1>10, <1>11, <1>12, <1>13,
     <1>14, <1>15, <1>16, <1>17, <1>18, <1>19, <1>20, <1>21, <1>22, <1>23, <1>24,
     <1>25, <1>26, <1>27 DEF Next, Initiating, Confirming, Releasing, Bridge

\* Every step keeps a confirmed payment committed.
LEMMA ConfirmedStep ==
  TypeOK /\ JobShape /\ CallShape /\ CommitShape /\ ConfirmedIsCommitted /\ [Next]_vars
    => ConfirmedIsCommitted'
<1> SUFFICES ASSUME TypeOK, JobShape, CallShape, CommitShape, ConfirmedIsCommitted,
                    [Next]_vars
             PROVE  ConfirmedIsCommitted'
  OBVIOUS
<1> USE WorkerAssumption, AttemptAssumption
        DEF Worker, Idle, Become, Stop, Ask, Waits, Has, Drop, Tell, Answer, Op,
        ledger, payment, release
<1> USE DEF TypeOK, JobShape, Job, CallShape, CommitShape, Marking, Holding,
        ConfirmedIsCommitted
<1>1. ASSUME NEW w \in Payer, InsertAttempt(w) PROVE ConfirmedIsCommitted'
  BY <1>1 DEF InsertAttempt, Rows
<1>2. ASSUME NEW w \in Payer, ReserveAnswered(w) PROVE ConfirmedIsCommitted'
  BY <1>2 DEF ReserveAnswered
<1>3. ASSUME NEW w \in Payer, Charge(w) PROVE ConfirmedIsCommitted'
  BY <1>3 DEF Charge
<1>4. ASSUME NEW w \in Payer, FailAttempt(w) PROVE ConfirmedIsCommitted'
  BY <1>4 DEF FailAttempt
<1>5. ASSUME NEW w \in Payer, NEW a \in Attempt, ReadAttempt(w, a)
      PROVE  ConfirmedIsCommitted'
  BY <1>5 DEF ReadAttempt, Rows
<1>6. ASSUME NEW w \in Confirmer, ClaimIntent(w) PROVE ConfirmedIsCommitted'
  BY <1>6 DEF ClaimIntent, Unclaimed
<1>7. ASSUME NEW w \in Confirmer, CommitAnswered(w) PROVE ConfirmedIsCommitted'
  BY <1>7 DEF CommitAnswered, Committed
<1>8. ASSUME NEW w \in Confirmer, NEW a \in Attempt, NEW v \in {"completed", "failed"},
             ReadForConfirm(w, a, v)
      PROVE  ConfirmedIsCommitted'
  BY <1>8 DEF ReadForConfirm
<1>9. ASSUME NEW w \in Settler, CaptureAnswered(w) PROVE ConfirmedIsCommitted'
  BY <1>9 DEF CaptureAnswered, Captured
<1>10. ASSUME NEW w \in Settler, FinishSettle(w) PROVE ConfirmedIsCommitted'
  BY <1>10 DEF FinishSettle
<1>11. ASSUME NEW w \in Settler, FlagSettlement(w) PROVE ConfirmedIsCommitted'
  BY <1>11 DEF FlagSettlement, Unconfirmed
<1>12. ASSUME NEW w \in Settler, NEW o \in Order, BeginSettle(w, o)
      PROVE  ConfirmedIsCommitted'
  BY <1>12 DEF BeginSettle, Origin, Rows, Settling
<1>13. ASSUME NEW w \in Recon, NEW a \in Attempt, VoidOrphan(w, a)
      PROVE  ConfirmedIsCommitted'
  BY <1>13 DEF VoidOrphan
<1>14. ASSUME NEW w \in Confirmer \cup Recon, VoidAnswered(w) PROVE ConfirmedIsCommitted'
  BY <1>14 DEF VoidAnswered
<1>15. ASSUME NEW a \in Attempt, Webhook(a) PROVE ConfirmedIsCommitted'
  BY <1>15 DEF Webhook
<1>16. ASSUME NEW o \in Order, OpenHold(o) PROVE ConfirmedIsCommitted'
  BY <1>16 DEF OpenHold, Rows
<1>17. ASSUME NEW o \in Order, ExpireLock(o) PROVE ConfirmedIsCommitted'
  BY <1>17 DEF ExpireLock
<1>18. ASSUME NEW o \in Order, Expire(o) PROVE ConfirmedIsCommitted'
  BY <1>18 DEF Expire
<1>19. ASSUME NEW c \in calls, Reserve(c) PROVE ConfirmedIsCommitted'
  BY <1>19 DEF Reserve, Acted
<1>20. ASSUME NEW c \in calls, Finish(c) PROVE ConfirmedIsCommitted'
  BY <1>20 DEF Finish, Acted
<1>21. ASSUME NEW c \in calls, Reverse(c) PROVE ConfirmedIsCommitted'
  BY <1>21 DEF Reverse, Acted
<1>22. ASSUME NEW c \in calls, Unavailable(c) PROVE ConfirmedIsCommitted'
  BY <1>22 DEF Unavailable
<1>23. ASSUME NEW c \in calls, Mark(c) PROVE ConfirmedIsCommitted'
  BY <1>23 DEF Mark, Final
<1>24. ASSUME NEW c \in calls, Break(c) PROVE ConfirmedIsCommitted'
  BY <1>24 DEF Break
<1>25. ASSUME NEW w \in Worker, TimeOut(w) PROVE ConfirmedIsCommitted'
  BY <1>25 DEF TimeOut, GiveUp, Abandoned
<1>26. ASSUME NEW w \in Worker, Crash(w) PROVE ConfirmedIsCommitted'
  BY <1>26 DEF Crash, GiveUp, Abandoned
<1>27. CASE UNCHANGED vars
  BY <1>27 DEF vars
<1> HIDE DEF TypeOK, JobShape, Job, CallShape, CommitShape, Marking, Holding,
        ConfirmedIsCommitted, Worker, Idle, vars, ledger, payment, release
<1> QED
  BY <1>1, <1>2, <1>3, <1>4, <1>5, <1>6, <1>7, <1>8, <1>9, <1>10, <1>11, <1>12, <1>13,
     <1>14, <1>15, <1>16, <1>17, <1>18, <1>19, <1>20, <1>21, <1>22, <1>23, <1>24,
     <1>25, <1>26, <1>27 DEF Next, Initiating, Confirming, Releasing, Bridge

-----------------------------------------------------------------------------
\* The inductive invariant.
IInv == /\ TypeOK /\ JobShape /\ CallShape /\ CommitShape /\ UndoShape /\ ToldShape
        /\ KnownShape /\ LockShape /\ PaidStaysCompleted /\ ConfirmedIsCommitted

\* The inductive invariant holds always.
LEMMA Inductive == Spec => []IInv
<1>1. Init => IInv
  BY WorkerAssumption, AttemptAssumption
     DEF Init, IInv, TypeOK, Job, JobShape, CallShape, CommitShape, UndoShape, ToldShape,
         Told, KnownShape, LockShape, PaidStaysCompleted, ConfirmedIsCommitted, Marking,
         Holding, Spent, Reversed, Idle, Worker
<1>2. IInv /\ [Next]_vars => IInv'
  BY TypeStep, JobStep, CallStep, CommitStep, UndoStep, ToldStep, KnownStep, LockStep,
     PaidStep, ConfirmedStep DEF IInv
<1> QED
  BY <1>1, <1>2, PTL DEF Spec

\* The variables keep their types; the bridge answers only who waits for it.
THEOREM TypeCorrect == Spec => []TypeOK
<1>1. IInv => TypeOK
  BY DEF IInv
<1> QED
  BY <1>1, Inductive, PTL

\* payment.confirm reports only what the ledger has committed.
THEOREM ConfirmationIsHonest == Spec => []ConfirmedIsCommitted
<1>1. IInv => ConfirmedIsCommitted
  BY DEF IInv
<1> QED
  BY <1>1, Inductive, PTL

\* An acknowledged payment stays completed.
THEOREM AcknowledgedStaysPaid == Spec => []PaidStaysCompleted
<1>1. IInv => PaidStaysCompleted
  BY DEF IInv
<1> QED
  BY <1>1, Inductive, PTL

\* The capture behind a settled escrow is never reversed.
THEOREM SettlementStands == Spec => []SettledIsCaptured
<1>1. IInv => SettledIsCaptured
  BY DEF IInv, UndoShape, Spent, SettledIsCaptured
<1> QED
  BY <1>1, Inductive, PTL

\* A capture whose settlement failed is reversed, being reversed, or flagged.
THEOREM FailureIsCompensated == Spec => []FailedCaptureIsUndone
<1>1. IInv => FailedCaptureIsUndone
  BY DEF IInv, KnownShape, Settles, Reversed, FailedCaptureIsUndone
<1> QED
  BY <1>1, Inductive, PTL

-----------------------------------------------------------------------------
\* TigerBeetle moves a transfer only when a request it has not acted on or its own clock
\* makes it; none leaves a final state.
LEMMA TransferMoves ==
  TypeOK /\ [Next]_vars =>
    \/ tb' = tb
    \/ \E o \in Order : \E s \in {"pending", "voided", "posted"} :
         /\ tb' = [tb EXCEPT ![o] = s]
         /\ tb[o] = IF s = "pending" THEN "none" ELSE "pending"
         /\ UNCHANGED <<undone, took, confirmed>>
<1> SUFFICES ASSUME TypeOK, [Next]_vars, tb' # tb
             PROVE  \E o \in Order : \E s \in {"pending", "voided", "posted"} :
                      /\ tb' = [tb EXCEPT ![o] = s]
                      /\ tb[o] = IF s = "pending" THEN "none" ELSE "pending"
                      /\ UNCHANGED <<undone, took, confirmed>>
  OBVIOUS
<1>1. CASE \E c \in calls : Reserve(c) \/ Finish(c)
  <2>1. PICK c \in calls : Reserve(c) \/ Finish(c)
    BY <1>1
  <2>2. c.order \in Order
    BY DEF TypeOK
  <2>3. CASE Reserve(c)
    BY <2>2, <2>3 DEF Reserve, TypeOK, payment, release
  <2>4. CASE Finish(c)
    BY <2>2, <2>4 DEF Finish, payment, release
  <2> QED
    BY <2>1, <2>3, <2>4
<1>2. CASE \E o \in Order : Expire(o)
  BY <1>2 DEF Expire, payment, release
<1>3. CASE ~\E c \in calls : Reserve(c) \/ Finish(c)
  BY <1>3, <1>2 DEF Next, vars, ledger, Initiating, Confirming, Releasing, Bridge, InsertAttempt,
     ReserveAnswered, Charge, FailAttempt, ReadAttempt, ClaimIntent, CommitAnswered,
     ReadForConfirm, CaptureAnswered, FinishSettle, FlagSettlement, BeginSettle,
     VoidOrphan, VoidAnswered, Webhook, OpenHold, ExpireLock, Reverse, Unavailable,
     Mark, Break, TimeOut, Crash
<1> QED
  BY <1>1, <1>3

\* A posted transfer is put to use, or returned.
PutToUse(o) ==
  /\ tb[o] = "posted" /\ o \notin took /\ ~Told(o)
  /\ \/ /\ \E a \in Attempt : OrderOf[a] = o /\ confirmed' = confirmed \cup {a}
        /\ o \notin undone /\ UNCHANGED <<undone, took>>
     \/ took' = took \cup {o} /\ o \notin undone /\ UNCHANGED <<undone, confirmed>>
     \/ undone' = undone \cup {o} /\ UNCHANGED <<took, confirmed>>

\* What TigerBeetle has posted is put to use by one step, which finds it neither settled
\* nor reported confirmed, and returned only by a reversal.
LEMMA UseMoves ==
  TypeOK /\ JobShape /\ CommitShape /\ UndoShape /\ ToldShape /\ [Next]_vars /\ tb' = tb =>
    \/ UNCHANGED <<undone, took, confirmed>>
    \/ \E o \in Order : PutToUse(o)
<1> SUFFICES ASSUME TypeOK, JobShape, CommitShape, UndoShape, ToldShape, [Next]_vars
             PROVE  UNCHANGED <<undone, took, confirmed>> \/ \E o \in Order : PutToUse(o)
  OBVIOUS
<1>1. \A w \in Worker, o \in Order : Holding(w, o) =>
        tb[o] = "posted" /\ o \notin took \cup undone /\ ~Told(o)
  BY DEF CommitShape, UndoShape, ToldShape, Spent
<1>2. ASSUME NEW w \in Confirmer, CommitAnswered(w)
      PROVE  UNCHANGED <<undone, took, confirmed>> \/ \E o \in Order : PutToUse(o)
  <2>1. CASE job[w].answer = "ok"
    <3>1. /\ w \in Worker /\ job[w].attempt \in Attempt
          /\ job[w].order = OrderOf[job[w].attempt] /\ job[w].order \in Order
          /\ Holding(w, job[w].order)
      BY <1>2, <2>1, AttemptAssumption
         DEF CommitAnswered, Has, JobShape, Holding, Worker, Idle
    <3>2. confirmed' = confirmed \cup {job[w].attempt} /\ UNCHANGED <<undone, took>>
      BY <1>2, <2>1 DEF CommitAnswered, Committed, ledger, release
    <3> QED
      BY <1>1, <3>1, <3>2 DEF PutToUse
  <2>2. CASE job[w].answer # "ok"
    BY <1>2, <2>2 DEF CommitAnswered, Committed, ledger, release
  <2> QED
    BY <2>1, <2>2
<1>3. ASSUME NEW w \in Settler, FinishSettle(w)
      PROVE  UNCHANGED <<undone, took, confirmed>> \/ \E o \in Order : PutToUse(o)
  <2>1. /\ UNCHANGED <<undone, confirmed>> /\ job[w].at = "credit"
        /\ took' = took \/ took' = (IF job[w].captured THEN took \cup {job[w].order} ELSE took)
    <3>1. UNCHANGED <<undone, confirmed>> /\ job[w].at = "credit"
      BY <1>3 DEF FinishSettle, ledger, payment
    <3>2. took' = took \/ took' = (IF job[w].captured THEN took \cup {job[w].order} ELSE took)
      BY <1>3, Zenon DEF FinishSettle
    <3> QED
      BY <3>1, <3>2
  <2>2. w \in Worker /\ job[w].order \in Order
    BY <2>1, WorkerAssumption DEF TypeOK, Job, Op, Worker, Idle
  <2>3. CASE took' = took
    BY <2>1, <2>3
  <2>4. CASE took' # took
    <3>1. took' = took \cup {job[w].order} /\ job[w].captured
      BY <2>1, <2>4
    <3>2. Holding(w, job[w].order)
      BY <2>1, <3>1 DEF Holding, Idle
    <3> QED
      BY <1>1, <2>1, <2>2, <3>1, <3>2 DEF PutToUse
  <2> QED
    BY <2>3, <2>4
<1>4. ASSUME NEW c \in calls, Reverse(c)
      PROVE  UNCHANGED <<undone, took, confirmed>> \/ \E o \in Order : PutToUse(o)
  <2>1. c.op = "reverse" /\ c.order \in Order
    BY <1>4 DEF Reverse, TypeOK
  <2>2. tb[c.order] = "posted" /\ c.order \notin took /\ ~Told(c.order)
    BY <2>1 DEF UndoShape, ToldShape, Spent
  <2>3. UNCHANGED <<took, confirmed>> /\ (undone' = undone \/ undone' = undone \cup {c.order})
    BY <1>4 DEF Reverse, payment, release
  <2> QED
    BY <2>1, <2>2, <2>3 DEF PutToUse
<1>5. CASE /\ ~\E w \in Confirmer : CommitAnswered(w)
           /\ ~\E w \in Settler : FinishSettle(w)
           /\ ~\E c \in calls : Reverse(c)
  BY <1>5 DEF Next, vars, ledger, payment, release, Initiating, Confirming, Releasing,
     Bridge, InsertAttempt, ReserveAnswered, Charge, FailAttempt, ReadAttempt,
     ClaimIntent, ReadForConfirm, CaptureAnswered, FlagSettlement, BeginSettle,
     VoidOrphan, VoidAnswered, Webhook, OpenHold, ExpireLock, Reserve, Finish,
     Unavailable, Mark, Break, Expire, TimeOut, Crash
<1> QED
  BY <1>2, <1>3, <1>4, <1>5

\* Every step moves one order's funds as the abstract specification says, or none.
LEMMA CaptureStep ==
  IInv /\ [Next]_vars => [CaptureOfLedger!Next]_([o \in Order |-> Funds(o)])
<1> SUFFICES ASSUME IInv, [Next]_vars
             PROVE  [CaptureOfLedger!Next]_([o \in Order |-> Funds(o)])
  OBVIOUS
<1>1. (\A o \in Order : Funds(o)' = Funds(o)) =>
        UNCHANGED [o \in Order |-> Funds(o)]
  OBVIOUS
<1>2. ASSUME NEW o \in Order, Funds(o)' \in CaptureOfLedger!After[Funds(o)],
             \A p \in Order \ {o} : Funds(p)' = Funds(p)
      PROVE  CaptureOfLedger!Move(o)
  BY <1>2 DEF CaptureOfLedger!Move
<1>3. CASE tb' = tb
  <2>1. CASE UNCHANGED <<undone, took, confirmed>>
    <3>1. \A o \in Order : Funds(o)' = Funds(o)
      BY <1>3, <2>1 DEF Funds, Told
    <3> QED
      BY <1>1, <3>1
  <2>2. CASE ~UNCHANGED <<undone, took, confirmed>>
    <3>1. PICK o \in Order : PutToUse(o)
      BY <1>3, <2>2, UseMoves DEF IInv
    <3>2. o \notin undone
      BY <2>2, <3>1 DEF PutToUse
    <3>3. \A p \in Order \ {o} : Funds(p)' = Funds(p)
      BY <1>3, <3>1 DEF PutToUse, Funds, Told
    <3>4. Funds(o) = "captured" /\ Funds(o)' \in {"confirmed", "settled", "returned"}
      BY <1>3, <3>1, <3>2 DEF PutToUse, Funds, Told
    <3>5. Funds(o)' \in CaptureOfLedger!After[Funds(o)]
      BY <3>4 DEF CaptureOfLedger!After, CaptureOfLedger!Uses
    <3> QED
      BY <1>2, <3>3, <3>5 DEF CaptureOfLedger!Next
  <2> QED
    BY <2>1, <2>2
<1>4. CASE tb' # tb
  <2>1. PICK o \in Order, s \in {"pending", "voided", "posted"} :
         /\ tb' = [tb EXCEPT ![o] = s]
         /\ tb[o] = IF s = "pending" THEN "none" ELSE "pending"
         /\ UNCHANGED <<undone, took, confirmed>>
    BY <1>4, TransferMoves DEF IInv
  <2>2. o \notin undone \cup took /\ ~Told(o)
    BY <2>1 DEF IInv, UndoShape, ToldShape, Spent
  <2>3. tb'[o] = s /\ \A p \in Order \ {o} : tb'[p] = tb[p]
    BY <2>1 DEF IInv, TypeOK
  <2>4. \A p \in Order \ {o} : Funds(p)' = Funds(p)
    BY <2>1, <2>3 DEF Funds, Told
  <2>5. Funds(o) = tb[o] /\ Funds(o)' = IF s = "posted" THEN "captured" ELSE s
    BY <2>1, <2>2, <2>3 DEF Funds, Told
  <2>6. Funds(o)' \in CaptureOfLedger!After[Funds(o)]
    BY <2>1, <2>5 DEF CaptureOfLedger!After, CaptureOfLedger!Uses
  <2> QED
    BY <1>2, <2>4, <2>6 DEF CaptureOfLedger!Next
<1> QED
  BY <1>3, <1>4

\* What TigerBeetle captures for an order is used once: it confirms a payment, settles
\* the escrow or is returned, whatever times out, dies or answers late.
THEOREM UsedOnce == Spec => ImplementsCapture
<1>1. Init => CaptureOfLedger!Init
  BY DEF Init, CaptureOfLedger!Init, Funds, Told
<1>2. IInv /\ [Next]_vars => [CaptureOfLedger!Next]_([o \in Order |-> Funds(o)])
  BY CaptureStep
<1> QED
  BY <1>1, <1>2, Inductive, PTL DEF Spec, ImplementsCapture, CaptureOfLedger!Spec
=============================================================================
