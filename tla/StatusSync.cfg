CONSTANTS
  Session = {s1, s2}
  Take = 2
  MaxOut = 1
  MaxRating = 1
  MaxCrash = 1
SPECIFICATION Spec
PROPERTY Converges
CHECK_DEADLOCK FALSE
