CONSTANTS
  Session = {s1}
  Call = {c1, c2}
  Null = Null
  MaxFail = 0
SPECIFICATION Spec
INVARIANT CreditedOnce
CHECK_DEADLOCK FALSE
