CONSTANTS
  Companion = {p1}
  Request = {r1, r2}
  Call = {c1}
  Null = Null
  Payable = {r1}
  Handler = {"markPreArrival", "checkIn", "verifyCustomer", "verifyBySelfie", "endEarly", "cancelSession", "reportNoShow", "completeSession", "completeSessionByBooking"}
  Window <- MCWindowSerial
  companionOf <- MCCompanionOf
SPECIFICATION Spec
INVARIANTS
  NoDoubleBooking
PROPERTIES
  ClosedStaysClosed
  DecidedStays
CHECK_DEADLOCK FALSE
