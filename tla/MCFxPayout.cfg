\* Two outbox workers, two listeners and a dead process; safety, refinement and
\* liveness together.
SPECIFICATION FairSpec
CONSTANTS
  Quote = {q1}
  Gross <- MCGross
  Funds = 1
  Requester = {e1, e2}
  Worker = {w1, w2}
  Listener = {b1, b2}
  MaxAttempts = 2
  MaxCrash = 1
INVARIANTS
  TypeOK
  ClosedQuoteHoldsNothing
  OneDeliverer
  DeliveredReachedSwitch
  DeadWasTried
PROPERTIES
  ImplementsPayout
  PayoutEnds
CHECK_DEADLOCK FALSE
