CONSTANTS
    Session = {s1, s2}
    Call = {c1}
    Job = {j1}
    Null = null
    MaxRating = 2
    MaxTimes = 2
    MaxFail = 1

SPECIFICATION Spec

INVARIANT TypeOK
INVARIANT MarkedIsStored
PROPERTY RatingArrives

CHECK_DEADLOCK FALSE
