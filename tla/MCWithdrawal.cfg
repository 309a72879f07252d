\* Safety: two webhook deliveries, one sweep and one rejection in flight.
SPECIFICATION Spec
CONSTANTS
  q1 = q1
  q2 = q2
  q3 = q3
  r1 = r1
  Request = {q1, q2, q3}
  Ref = {r1}
  Hook = {h1, h2}
  Sweeper = {s1}
  Admin = {a1}
  NoRequest = NoRequest
  Funds = 2
  RefOf <- MCRefOf
  AmountOf <- MCAmountOf
  RailOf <- MCRailOf
SYMMETRY Hooks
INVARIANTS
  TypeOK
  OneDebitPerReference
  RefundProvesNonPayment
  CreditOnceUnlessReopened
  FailedIsRefunded
  WalletAddsUp
PROPERTIES
  ImplementsDisbursement
CHECK_DEADLOCK FALSE
