SPECIFICATION Spec
CONSTANTS
    o1 = o1  o2 = o2  r1 = r1  r2 = r2  k1 = k1  w1 = w1  w2 = w2  p1 = p1
    file = file  room = room
    NoReq = NoReq  NoKey = NoKey  NoSubject = NoSubject
    Owners <- MCOwners
    Requests = {r1}
    Keys = {}
    Subjects = {file}
    Registries <- MCFileOnly
    Processors = {p1}
    Timeout <- MCTimeout
    MaxNow = 1
    Workers = {w1, w2}
    Sweepers = {s1}
    AllowErasureWithoutReceipts = FALSE
    Faults = FALSE
PROPERTY DeletedIsFinal
