SPECIFICATION FairSpec
CONSTANTS
    NoDsar = NoDsar  NoUser = NoUser
    Dsars = {d1}
    Users = {u1}
    Kinds = {"access", "erasure"}
    Desks = {k1, k2}
    Sweepers = {s1}
    AckBusinessDays = 1
    ResolveDays = 2
    MaxNow = 2
    MaxFailures = 1
    MaxPatches = 2
INVARIANTS AckIsProof NoDeletionOracle AnnouncedOnce AckClockInBusinessDays NoEarlyAlarm
PROPERTY MissedClockAlarms
CHECK_DEADLOCK FALSE
