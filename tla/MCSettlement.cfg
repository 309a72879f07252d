\* Two attempts under one idempotency key, a confirmation, two settlements and the
\* recon worker, over a bridge that may time out, answer late or die.
SPECIFICATION Spec
CONSTANTS
  o1 = o1
  Order = {o1}
  Attempt = {a1, a2}
  OrderOf <- MCOrderOf
  Payer = {p1}
  Confirmer = {c1}
  Settler = {s1, s2}
  Recon = {r1}
  MaxLate = 1
SYMMETRY Symmetry
INVARIANTS
  TypeOK
  ConfirmedIsCommitted
  SettledIsCaptured
  FailedCaptureIsUndone
  PaidStaysCompleted
PROPERTIES
  ImplementsCapture
CHECK_DEADLOCK FALSE
