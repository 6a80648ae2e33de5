CONSTANTS
  e1 = e1
  e2 = e2
  Earning = {e1, e2}
  Payout = {p1, p2, p3, p4}
  Call = {c1, c2}
  Ask = {1, 3}
  MaxClearFail = 1
  worth <- MCWorth
SPECIFICATION Spec
SYMMETRY MCSymmetry
INVARIANTS
  OverdraftNeedsRace
  EachPayoutCovered
  ExposureBounded
CHECK_DEADLOCK FALSE
