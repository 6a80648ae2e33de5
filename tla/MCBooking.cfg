CONSTANTS
  Companion = {p1}
  Request = {r1, r2}
  Call = {c1, c2}
  Null = Null
  Payable = {}
  Handler = {"verifyCustomer", "cancelSession"}
  Window <- MCWindow
  companionOf <- MCCompanionOf
SPECIFICATION Spec
SYMMETRY MCSymmetry
INVARIANTS
  TypeOK
  AcceptedHasSession
PROPERTIES
  ImplementsCalendar
  DecisionEdges
  HandledTermsFrozen
CHECK_DEADLOCK FALSE
