CONSTANTS
  Session = {s1, s2}
  Call = {c1, c2}
  Null = Null
  MaxFail = 2
SPECIFICATION Spec
INVARIANTS
  TypeOK
  CountFollowsLedger
  OneLossPerFailure
PROPERTY CreditedUnlessFailure
CHECK_DEADLOCK FALSE
