SPECIFICATION FairClosureSpec
CONSTANTS
    o1 = o1  o2 = o2  Account = account
    NoReq = NoReq  NoKey = NoKey  NoSubject = NoSubject
    NoUser = NoUser  NoClosure = NoClosure
    Owners <- MCOwners
    Requests = {r1}
    Keys = {}
    Subjects = {account}
    Registries <- MCSound
    Processors = {p1}
    Timeout <- MCPatient
    MaxNow = 1
    Workers = {e1, w1}
    Executors = {e1}
    Handlers = {h1}
    Sweepers = {s1}
    Users = {u1}
    Closures = {c1}
    GraceLength = 1
    MaxFailures = 1
    Holds = FALSE
    Retries = FALSE
    AllowErasureWithoutReceipts = FALSE
    Faults = FALSE
PROPERTY DeletingIsRetried
CHECK_DEADLOCK FALSE
