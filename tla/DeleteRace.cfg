SPECIFICATION Spec
CONSTANTS
    r1 = r1
    r2 = r2
    a1 = a1
    a2 = a2
    u = u
    Host = Host
    NoLease = NoLease
    NoEntry = NoEntry
    RandomId = {r1}
    TaskId = {}
    FileId = {}
    Account = {a1}
    User = {u}
    Faults = {}
INVARIANTS DeletedPathsDoNotExist
