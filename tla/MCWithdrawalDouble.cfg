\* A webhook that overtakes the request it finalizes.
SPECIFICATION Spec
CONSTANTS
  q1 = q1
  q2 = q2
  q3 = q3
  r1 = r1
  Request = {q1}
  Ref = {r1}
  Hook = {h1}
  Sweeper = {s1}
  Admin = {}
  NoRequest = NoRequest
  Funds = 2
  RefOf <- MCRefOf
  AmountOf <- MCAmountOf
  RailOf <- MCRailOf
INVARIANT NeverDoubleCredit
CHECK_DEADLOCK FALSE
