------------------------------ MODULE Settlement ------------------------------
(***************************************************************************)
(* The double-entry side of a payment: the two-phase transfer that          *)
(* payment.initiate reserves, payment.confirm commits or voids and          *)
(* settleEscrowAtomic captures, with its compensation (routers/payment.ts,  *)
(* routers/escrow.ts, services/ledgerBridge.ts), the ledger bridge that     *)
(* keeps a record of each transfer (rust/ledger-bridge) and the recon       *)
(* worker that voids what looks orphaned (rust/recon-worker).               *)
(*                                                                          *)
(* TigerBeetle is external.  A request to the bridge outlives the caller    *)
(* that gives up on it, and every answer may be lost.  An order has one     *)
(* idempotency key, so one transfer.  Custody is "psp"; the in-memory       *)
(* ledger of development is off.                                            *)
(***************************************************************************)
EXTENDS Integers, FiniteSets

CONSTANTS Order,
          Attempt, OrderOf,  \* rows of payment_intents, and each one's order
          Payer,             \* calls of payment.initiate
          Confirmer,         \* calls of payment.confirm
          Settler,           \* calls of settleEscrowAtomic
          Recon,             \* runs of the recon worker
          MaxLate            \* requests in flight that nobody waits for (a bound)

Worker == Payer \cup Confirmer \cup Settler \cup Recon
Nobody == "nobody"

ASSUME AttemptAssumption == OrderOf \in [Attempt -> Order]
ASSUME WorkerAssumption ==
  /\ MaxLate \in Nat
  /\ Nobody \notin Worker
  /\ Payer \cap (Confirmer \cup Settler \cup Recon) = {}
  /\ Confirmer \cap (Settler \cup Recon) = {} /\ Settler \cap Recon = {}

VARIABLES tb, undone,    \* TigerBeetle: each order's transfer; those reversed
          rec,           \* the bridge's record of the transfer
          calls,         \* requests the bridge has not answered
          intent,        \* payment_intents.status
          reserved,      \* attempts that carry a ledgerPendingId
          locked,        \* orders whose idempotency lock is taken
          escrow, flagged,  \* the escrow; settlementFailure.reconRequired
          job,           \* each worker: where it is and what it carries
          offered,       \* history: attempts whose checkout the buyer was given,
          acked,         \* reported paid by a webhook that was acknowledged, and
                         \* neither rolled back nor deleted since,
          confirmed,     \* that payment.confirm reported confirmed;
          known,         \* orders captured, whose compensation - if it comes to that -
                         \* was not skipped, cut short or answered with a 404,
          took           \* settled by the transaction that captured

ledger  == <<tb, undone, rec>>
payment == <<intent, reserved, locked, offered, acked, confirmed>>
release == <<escrow, flagged, known, took>>
vars    == <<ledger, calls, payment, release, job>>

Idle == [at |-> "idle"]
Become(w, j) == job' = [job EXCEPT ![w] = j]
Stop(w) == Become(w, Idle)

\* ledgerBridgeRequest: send, and wait for an answer or for the timeout.
Ask(w, op, o, a) ==
  /\ calls' = calls \cup {[by |-> w, op |-> op, order |-> o, at |-> "sent"]}
  /\ Become(w, [at |-> op, order |-> o, attempt |-> a, answer |-> "none"])
Waits(w, op) == job[w].at = op /\ job[w].answer = "none"
Has(w, op) == job[w].at = op /\ job[w].answer # "none"

Init == /\ tb = [o \in Order |-> "none"] /\ undone = {}
        /\ rec = [o \in Order |-> "none"]
        /\ calls = {}
        /\ intent = [a \in Attempt |-> "none"] /\ reserved = {}
        /\ locked = {}
        /\ escrow = [o \in Order |-> "none"] /\ flagged = {}
        /\ job = [w \in Worker |-> Idle]
        /\ offered = {} /\ acked = {} /\ confirmed = {}
        /\ known = {} /\ took = {}

-----------------------------------------------------------------------------
(* payment.initiate *)

Rows(o) == {a \in Attempt : OrderOf[a] = o /\ intent[a] \notin {"none", "gone"}}

\* Behind the lock: an initiated or completed row is replayed (no change here), any
\* other row will be replaced.
ReadAttempt(w, a) ==
  LET o == OrderOf[a] IN
  /\ job[w] = Idle /\ intent[a] = "none" /\ o \notin locked
  /\ \A b \in Rows(o) : intent[b] \notin {"initiated", "completed"}
  /\ locked' = locked \cup {o}
  /\ Become(w, [at |-> "insert", order |-> o, attempt |-> a, old |-> Rows(o)])
  /\ UNCHANGED <<ledger, calls, intent, reserved, offered, acked, confirmed,
                 release>>

\* The old row is deleted whatever it has become, the new one inserted; the fraud
\* screen may stop it, otherwise the funds are reserved.
InsertAttempt(w) ==
  LET o == job[w].order
      a == job[w].attempt
      Written(s) == [b \in Attempt |-> IF b = a THEN s
                                       ELSE IF b \in job[w].old THEN "gone" ELSE intent[b]] IN
  /\ job[w].at = "insert"
  /\ acked' = acked \ job[w].old
  /\ \/ /\ intent' = Written("pending")
        /\ Ask(w, "reserve", o, a)
        /\ UNCHANGED locked
     \/ /\ intent' = Written("failed")
        /\ locked' = locked \ {o}
        /\ Stop(w)
        /\ UNCHANGED calls
  /\ UNCHANGED <<ledger, reserved, offered, confirmed, release>>

\* The pending id is kept whatever status a replayed reservation has.
ReserveAnswered(w) ==
  LET a == job[w].attempt IN
  /\ Has(w, "reserve")
  /\ \/ /\ job[w].answer = "ok"
        /\ reserved' = reserved \cup {a}
        /\ job' = [job EXCEPT ![w].at = "charge", ![w].answer = "none"]
        /\ UNCHANGED <<intent, locked>>
     \/ /\ job[w].answer # "ok"
        /\ intent' = [intent EXCEPT ![a] = "failed"]
        /\ locked' = locked \ {job[w].order}
        /\ Stop(w)
        /\ UNCHANGED reserved
  /\ UNCHANGED <<ledger, calls, offered, acked, confirmed, release>>

\* The provider opens a checkout - the lock is left to expire - or none does.
Charge(w) ==
  LET a == job[w].attempt IN
  /\ job[w].at = "charge"
  /\ \/ /\ intent' = [intent EXCEPT ![a] = "initiated"]
        /\ offered' = offered \cup {a}
        /\ Stop(w)
        /\ UNCHANGED calls
     \/ /\ Ask(w, "void", job[w].order, a)
        /\ UNCHANGED <<intent, offered>>
  /\ UNCHANGED <<ledger, reserved, locked, acked, confirmed, release>>

\* Whatever the bridge said, the attempt has failed and the lock is given back.
FailAttempt(w) ==
  /\ w \in Payer /\ Has(w, "void")
  /\ intent' = [intent EXCEPT ![job[w].attempt] = "failed"]
  /\ locked' = locked \ {job[w].order}
  /\ Stop(w)
  /\ UNCHANGED <<ledger, calls, reserved, offered, acked, confirmed, release>>

\* The lock's time to live, far longer than a call.
ExpireLock(o) ==
  /\ o \in locked /\ ~\E w \in Payer : job[w] # Idle /\ job[w].order = o
  /\ locked' = locked \ {o}
  /\ UNCHANGED <<ledger, calls, intent, reserved, offered, acked, confirmed, release,
                 job>>

-----------------------------------------------------------------------------
(* payment.confirm, and the webhook that competes with it *)

Open == {"pending", "initiated"}

ReadForConfirm(w, a, verdict) ==
  /\ job[w] = Idle /\ a \in offered /\ intent[a] \in Open
  /\ Become(w, [at |-> "claim", order |-> OrderOf[a], attempt |-> a, verdict |-> verdict])
  /\ UNCHANGED <<ledger, calls, payment, release>>

Anything(s) == TRUE
Unclaimed(s) == s \in Open

\* The claim comes first; its holder commits or voids the reservation.
ClaimIntent(w) ==
  LET a == job[w].attempt IN
  /\ job[w].at = "claim"
  /\ \/ /\ Unclaimed(intent[a])
        /\ intent' = [intent EXCEPT ![a] = job[w].verdict]
        /\ Ask(w, IF job[w].verdict = "completed" THEN "commit" ELSE "void", job[w].order, a)
     \/ /\ ~Unclaimed(intent[a])
        /\ Stop(w)
        /\ UNCHANGED <<intent, calls>>
  /\ UNCHANGED <<ledger, reserved, locked, offered, acked, confirmed, release>>

Whatever(answer) == TRUE
Committed(answer) == answer = "ok"

\* A commit that failed, or whose answer is lost, gives the claim back.
CommitAnswered(w) ==
  LET a == job[w].attempt IN
  /\ w \in Confirmer /\ Has(w, "commit")
  /\ \/ /\ Committed(job[w].answer)
        /\ confirmed' = confirmed \cup {a}
        /\ UNCHANGED <<intent, acked>>
     \/ /\ ~Committed(job[w].answer)
        /\ intent' = [intent EXCEPT ![a] = IF @ \in {"completed", "failed"} THEN "pending" ELSE @]
        /\ acked' = acked \ {a}
        /\ UNCHANGED confirmed
  /\ Stop(w)
  /\ UNCHANGED <<ledger, calls, reserved, locked, offered, release>>

\* A failed void is left to the recon worker.
VoidAnswered(w) ==
  /\ w \notin Payer /\ Has(w, "void")
  /\ Stop(w)
  /\ UNCHANGED <<ledger, calls, payment, release>>

\* confirmProviderPayment completes any row that is not completed, and never
\* speaks to the ledger; a completed row is acknowledged as it is.
Webhook(a) ==
  /\ a \in offered /\ intent[a] # "gone"
  /\ intent' = [intent EXCEPT ![a] = "completed"]
  /\ acked' = acked \cup {a}
  /\ UNCHANGED <<ledger, calls, reserved, locked, offered, confirmed, release, job>>

OpenHold(o) ==
  /\ escrow[o] = "none" /\ \E a \in Rows(o) : intent[a] = "completed"
  /\ escrow' = [escrow EXCEPT ![o] = "held"]
  /\ UNCHANGED <<ledger, calls, payment, flagged, known, took, job>>

-----------------------------------------------------------------------------
(* settleEscrowAtomic and compensateEscrowSettlementFailure *)

\* The transaction's guarded UPDATE locks the escrow's row.
Settling(o) == \E v \in Settler : job[v].at \in {"commit", "credit"} /\ job[v].order = o
Origin(o) == {a \in Rows(o) \cap reserved : intent[a] = "completed"}

BeginSettle(w, o) ==
  /\ job[w] = Idle /\ escrow[o] = "held" /\ ~Settling(o)
  /\ \/ \E a \in Origin(o) : Ask(w, "commit", o, a)
     \/ /\ Origin(o) = {}
        /\ Become(w, [at |-> "credit", order |-> o, captured |-> FALSE])
        /\ UNCHANGED calls
  /\ UNCHANGED <<ledger, payment, release>>

AnyAnswer(answer) == answer # "none"
Captured(answer) == answer \in {"ok", "refused"}

\* A 400 counts as captured elsewhere; after an error of the server the transaction
\* rolls back, and nothing is compensated.
CaptureAnswered(w) ==
  LET o == job[w].order IN
  /\ w \in Settler /\ Has(w, "commit")
  /\ \/ /\ Captured(job[w].answer)
        /\ known' = known \cup {o}
        /\ Become(w, [at |-> "credit", order |-> o, captured |-> TRUE])
     \/ /\ ~Captured(job[w].answer)
        /\ Stop(w)
        /\ UNCHANGED known
  /\ UNCHANGED <<ledger, calls, payment, escrow, flagged, took>>

\* The wallet is credited and the transaction commits, or fails, or commits and the
\* answer is lost.  After a failure the caller has the capture reversed; the SLA scan,
\* which calls without a catch, does nothing.
FinishSettle(w) ==
  LET o == job[w].order
      settle == escrow' = [escrow EXCEPT ![o] = "settled"]
      undo == IF job[w].captured THEN Ask(w, "reverse", o, "none")
              ELSE Stop(w) /\ UNCHANGED calls IN
  /\ job[w].at = "credit"
  /\ \/ /\ settle /\ Stop(w)
        /\ took' = IF job[w].captured THEN took \cup {o} ELSE took
        /\ UNCHANGED <<calls, known>>
     \/ undo /\ UNCHANGED <<escrow, known, took>>
     \/ settle /\ undo /\ UNCHANGED <<known, took>>
     \/ /\ job[w].captured /\ Stop(w)
        /\ known' = known \ {o}
        /\ UNCHANGED <<calls, escrow, took>>
  /\ UNCHANGED <<ledger, payment, flagged>>

NeverWrong(answer) == FALSE
Unconfirmed(answer) == answer = "error"

\* A reversal the bridge did not confirm is flagged, unless the escrow is settled.
FlagSettlement(w) ==
  LET o == job[w].order IN
  /\ Has(w, "reverse")
  /\ flagged' = IF Unconfirmed(job[w].answer) /\ escrow[o] # "settled"
                THEN flagged \cup {o} ELSE flagged
  /\ Stop(w)
  /\ UNCHANGED <<ledger, calls, payment, escrow, known, took>>

-----------------------------------------------------------------------------
(* The recon worker: reservations of pending and failed payments are voided *)

\* The row is listed; its request may reach the bridge long after.
VoidOrphan(w, a) ==
  /\ job[w] = Idle /\ a \in reserved /\ intent[a] \in {"pending", "failed"}
  /\ Ask(w, "void", OrderOf[a], a)
  /\ UNCHANGED <<ledger, payment, release>>

-----------------------------------------------------------------------------
(* The ledger bridge *)

Drop(c) == calls' = calls \ {c}
Tell(c, answer) ==
  job' = IF c.by = Nobody THEN job ELSE [job EXCEPT ![c.by].answer = answer]
Answer(c, answer) == Drop(c) /\ Tell(c, answer)

\* After TigerBeetle has acted comes the record - or the bridge never hears.
Acted(c) == \/ /\ calls' = (calls \ {c}) \cup {[c EXCEPT !.at = "mark"]}
               /\ UNCHANGED job
            \/ Answer(c, "error")

\* A key that is on record is answered from it, unless the bridge's database cannot be
\* read; a transfer TigerBeetle already has is created once.
Reserve(c) ==
  LET o == c.order IN
  /\ c.op = "reserve" /\ c.at = "sent"
  /\ \/ rec[o] # "none" /\ Answer(c, "ok") /\ UNCHANGED tb
     \/ /\ tb' = [tb EXCEPT ![o] = IF @ = "none" THEN "pending" ELSE @]
        /\ Acted(c)
  /\ UNCHANGED <<undone, rec, payment, release>>

\* Post or void a transfer, which TigerBeetle does while it is pending.
Finish(c) ==
  LET o == c.order IN
  /\ c.op \in {"commit", "void"} /\ c.at = "sent" /\ tb[o] = "pending"
  /\ tb' = [tb EXCEPT ![o] = IF c.op = "commit" THEN "posted" ELSE "voided"]
  /\ Acted(c)
  /\ UNCHANGED <<undone, rec, payment, release>>

\* The compensating transfer, whose id is the same at every try.  A record that
\* cannot be read passes for none, and the 404 for nothing to reverse.
Reverse(c) ==
  LET o == c.order IN
  /\ c.op = "reverse" /\ c.at = "sent"
  /\ \/ rec[o] = "reversed" /\ Answer(c, "ok") /\ UNCHANGED <<undone, known>>
     \/ /\ rec[o] \in {"none", "pending", "voided"}
        /\ Answer(c, "refused")
        /\ UNCHANGED <<undone, known>>
     \/ /\ rec[o] = "committed"
        /\ undone' = undone \cup {o}
        /\ Acted(c)
        /\ UNCHANGED known
     \/ Answer(c, "refused") /\ known' = known \ {o} /\ UNCHANGED undone
  /\ UNCHANGED <<tb, rec, payment, escrow, flagged, took>>

\* TigerBeetle is down, or it refuses: a 503 either way.
Unavailable(c) ==
  /\ c.at = "sent"
  /\ Answer(c, "error")
  /\ UNCHANGED <<ledger, payment, release>>

Final == [reserve |-> "pending", commit |-> "committed", void |-> "voided",
          reverse |-> "reversed"]

\* The record is written; an error there is only logged.
Mark(c) ==
  /\ c.at = "mark"
  /\ \/ rec' = [rec EXCEPT ![c.order] = Final[c.op]]
     \/ UNCHANGED rec
  /\ Answer(c, "ok")
  /\ UNCHANGED <<tb, undone, payment, release>>

\* The bridge dies before it has written the record.
Break(c) ==
  /\ c.at = "mark"
  /\ Answer(c, "error")
  /\ UNCHANGED <<ledger, payment, release>>

\* TigerBeetle voids what stays pending for PENDING_TIMEOUT_SECS.
Expire(o) ==
  /\ tb[o] = "pending"
  /\ tb' = [tb EXCEPT ![o] = "voided"]
  /\ UNCHANGED <<undone, rec, calls, payment, release, job>>

-----------------------------------------------------------------------------
Kept(c) == c
Abandoned(c) == [c EXCEPT !.by = Nobody]
GiveUp(w) ==
  LET mine == {c \in calls : c.by = w} IN
  \/ calls' = calls \ mine
  \/ /\ mine # {} /\ Cardinality({c \in calls : c.by = Nobody}) < MaxLate
     /\ calls' = (calls \ mine) \cup {Abandoned(c) : c \in mine}

\* The caller's timeout: the request is lost, or the bridge goes on with it.
TimeOut(w) ==
  /\ \E c \in calls : c.by = w
  /\ GiveUp(w)
  /\ job' = [job EXCEPT ![w].answer = "error"]
  /\ UNCHANGED <<ledger, payment, release>>

\* The process dies, or the UPDATE it is at fails; an open transaction rolls back.
Crash(w) ==
  /\ job[w] # Idle
  /\ Stop(w)
  /\ GiveUp(w)
  /\ known' = IF job[w].at \in {"credit", "reverse"} THEN known \ {job[w].order} ELSE known
  /\ UNCHANGED <<ledger, payment, escrow, flagged, took>>

Initiating(w) == InsertAttempt(w) \/ ReserveAnswered(w) \/ Charge(w) \/ FailAttempt(w)
Confirming(w) == ClaimIntent(w) \/ CommitAnswered(w)
Releasing(w) == CaptureAnswered(w) \/ FinishSettle(w) \/ FlagSettlement(w)
Bridge(c) == Reserve(c) \/ Finish(c) \/ Reverse(c) \/ Unavailable(c) \/ Mark(c) \/ Break(c)

Next == \/ \E w \in Payer : Initiating(w) \/ \E a \in Attempt : ReadAttempt(w, a)
        \/ \E w \in Confirmer : \/ Confirming(w)
                                \/ \E a \in Attempt, v \in {"completed", "failed"} :
                                     ReadForConfirm(w, a, v)
        \/ \E w \in Settler : Releasing(w) \/ \E o \in Order : BeginSettle(w, o)
        \/ \E w \in Recon : \E a \in Attempt : VoidOrphan(w, a)
        \/ \E w \in Confirmer \cup Recon : VoidAnswered(w)
        \/ \E a \in Attempt : Webhook(a)
        \/ \E o \in Order : OpenHold(o) \/ ExpireLock(o) \/ Expire(o)
        \/ \E c \in calls : Bridge(c)
        \/ \E w \in Worker : TimeOut(w) \/ Crash(w)

Spec == Init /\ [][Next]_vars

-----------------------------------------------------------------------------
(* Properties *)

Op == {"reserve", "commit", "void", "reverse"}
Job == {Idle} \cup
  [at : {"insert"}, order : Order, attempt : Attempt, old : SUBSET Attempt] \cup
  [at : {"claim"}, order : Order, attempt : Attempt, verdict : {"completed", "failed"}] \cup
  [at : {"credit"}, order : Order, captured : BOOLEAN] \cup
  [at : Op \cup {"charge"}, order : Order, attempt : Attempt \cup {"none"},
   answer : {"none", "ok", "refused", "error"}]

\* The types of the variables, and that the bridge answers only who still waits
\* for that answer, whatever timed out before.
TypeOK ==
  /\ tb \in [Order -> {"none", "pending", "posted", "voided"}] /\ undone \subseteq Order
  /\ rec \in [Order -> {"none", "pending", "committed", "voided", "reversed"}]
  /\ calls \subseteq [by : Worker \cup {Nobody}, op : Op, order : Order, at : {"sent", "mark"}]
  /\ \A c \in calls : c.by # Nobody => Waits(c.by, c.op) /\ job[c.by].order = c.order
  /\ intent \in [Attempt -> {"none", "pending", "initiated", "completed", "failed", "gone"}]
  /\ reserved \subseteq Attempt /\ locked \subseteq Order
  /\ escrow \in [Order -> {"none", "held", "settled"}] /\ flagged \subseteq Order
  /\ job \in [Worker -> Job]
  /\ offered \subseteq Attempt /\ acked \subseteq Attempt /\ confirmed \subseteq Attempt
  /\ known \subseteq Order /\ took \subseteq Order

\* payment.confirm reports a payment confirmed only if the ledger has committed its
\* reservation, whatever was retried, timed out or voided meanwhile.
ConfirmedIsCommitted == \A a \in confirmed : tb[OrderOf[a]] = "posted"

\* The capture behind a settled escrow stands: it is committed, and no late
\* compensation of another settlement has reversed it - unless the COMMIT that
\* settled the escrow looked like a failure to its own caller.
SettledIsCaptured ==
  \A o \in took : escrow[o] = "settled" /\ tb[o] = "posted" /\ o \notin undone

\* A settlement that captures and then fails leaves no committed transfer behind: it
\* is being reversed, is reversed, or is flagged, whatever times out, is repeated or
\* answered late.  The code does not do so, and the property does not claim it, after
\* a failure of the SLA scan's settlement, when the bridge could not read its record
\* or had lost the commit from it (a 404 or 409 passes for nothing to reverse), and
\* when the process died or its flag could not be written.
FailedCaptureIsUndone ==
  \A o \in known :
    escrow[o] # "settled" /\ rec[o] \in {"committed", "reversed"} =>
      \/ o \in undone \cup flagged
      \/ \E w \in Settler : job[w].at \in {"credit", "reverse"} /\ job[w].order = o

\* A payment whose webhook was acknowledged stays completed, unless payment.confirm
\* had claimed it and rolled its claim back, or a retry of payment.initiate that
\* had read the row before deletes it.
PaidStaysCompleted ==
  \A a \in acked : intent[a] = "completed"

-----------------------------------------------------------------------------
(* What the transfer promises *)

\* Where an order's money is, and what a commit TigerBeetle made was used for.
Told(o)  == \E a \in confirmed : OrderOf[a] = o
Funds(o) == IF tb[o] # "posted" THEN tb[o]
            ELSE IF o \in undone THEN IF o \in took \/ Told(o) THEN "twice" ELSE "returned"
            ELSE IF o \in took THEN IF Told(o) THEN "twice" ELSE "settled"
            ELSE IF Told(o) THEN "confirmed" ELSE "captured"
CaptureOfLedger == INSTANCE Capture WITH funds <- [o \in Order |-> Funds(o)]

\* Confirmations, settlements with their compensations, and the recon worker share one
\* transfer and never use its capture twice, over calls that time out and go on, answers
\* that are lost and processes that die: what confirmed a payment or settled an escrow
\* is never returned, and what was returned confirms and settles nothing.
ImplementsCapture == CaptureOfLedger!Spec
=============================================================================
