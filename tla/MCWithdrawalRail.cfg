\* A Flutterwave payout under the sweep.
SPECIFICATION Spec
CONSTANTS
  q1 = q1
  q2 = q2
  q3 = q3
  r1 = r1
  Request = {q2}
  Ref = {r1}
  Hook = {h1}
  Sweeper = {s1}
  Admin = {}
  NoRequest = NoRequest
  Funds = 2
  RefOf <- MCRefOf
  AmountOf <- MCAmountOf
  RailOf <- MCRailOf
INVARIANT SweepRefundsNoLivePayout
CHECK_DEADLOCK FALSE
