\* Liveness: one call of each rail, a webhook, the sweep and an admin.
SPECIFICATION FairSpec
CONSTANTS
  q1 = q1
  q2 = q2
  q3 = q3
  r1 = r1
  Request = {q1, q2}
  Ref = {r1}
  Hook = {h1}
  Sweeper = {s1}
  Admin = {a1}
  NoRequest = NoRequest
  Funds = 2
  RefOf <- MCRefOf
  AmountOf <- MCAmountOf
  RailOf <- MCRailOf
PROPERTY DebitResolves
CHECK_DEADLOCK FALSE
