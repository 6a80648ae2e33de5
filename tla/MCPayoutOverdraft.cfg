CONSTANTS
  e1 = e1
  e2 = e2
  Earning = {e1, e2}
  Payout = {p1, p2, p3}
  Call = {c1, c2}
  Ask = {1, 2}
  MaxClearFail = 0
  worth <- MCWorth
SPECIFICATION Spec
SYMMETRY MCSymmetry
INVARIANT NoOverdraft
CHECK_DEADLOCK FALSE
