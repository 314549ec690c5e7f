SPECIFICATION Spec
CONSTANTS
    r1 = r1
    r2 = r2
    a1 = a1
    a2 = a2
    u = u
    Host = Host
    NoLease = NoLease
    NoEntry = NoEntry
    RandomId = {r1}
    TaskId = {}
    FileId = {"credspec"}
    Account = {a1}
    User = {u}
    Faults = {"crash", "tgt_expiry"}
INVARIANTS GrantedIsComplete RenewsOnlyGranted LeaseInv
PROPERTIES TicketLostByOwnLease KeepsPromise RoundAdvances
