SPECIFICATION Spec
CONSTANTS
    MaxClosures = 2
    Calls = {k1}
    GraceLength = 2
    Limit = 1
    Window = 2
    InactiveAfter = 9
    WarnBefore = {2, 6}
    HalfDay = 1
    MaxLate = 1
    AdmitsInactive = TRUE
    MaxFailures = 1
    MaxNow = 9
INVARIANTS SparedIsKept GraceHasItsToken NoLockout RefusalHasCause ClosedAfterAWarning
CHECK_DEADLOCK FALSE
