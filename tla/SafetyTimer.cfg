CONSTANTS
    Companion = {p1, p2}
    Job = {j1, j2}
    Call = {c1}
    Null = null
    MaxFail = 1

SPECIFICATION Spec

INVARIANT TypeOK
INVARIANT NoAlertForgotten
PROPERTY FalseAlarmNeedsRace
PROPERTY AlarmRaised

CHECK_DEADLOCK FALSE
