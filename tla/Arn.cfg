SPECIFICATION FairSpec
CONSTANTS
    r1 = r1
    r2 = r2
    a1 = a1
    a2 = a2
    u = u
    Host = Host
    NoLease = NoLease
    NoEntry = NoEntry
    RandomId = {}
    TaskId = {"task"}
    FileId = {}
    Account = {a1, a2}
    User = {u}
    Faults = {"crash"}
INVARIANTS DeletedStaysGone
PROPERTIES RequestsAnswered
