SPECIFICATION MCSpec
CONSTANTS
    Tombstone = Tombstone  NoAccount = NoAccount
    Accounts = {a1, a2}
    Identifiers = {i1}
    Retention = 1
    Executors = {e1}
    Cleaners = {c1}
    MaxNow = 2
    MaxFailures = 1
    MaxHolds = 1
    MaxForeign = 1
INVARIANTS MemoryLasts OneRowPerIdentifier NoFalseMemory
PROPERTY ExpiredIsForgotten
CHECK_DEADLOCK FALSE
