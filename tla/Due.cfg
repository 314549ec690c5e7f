SPECIFICATION RenewalSpec
CONSTANTS
    r1 = r1
    r2 = r2
    a1 = a1
    a2 = a2
    u = u
    Host = Host
    NoLease = NoLease
    NoEntry = NoEntry
    RandomId = {r1}
    TaskId = {}
    FileId = {}
    Account = {a1, a2}
    User = {u}
    Faults = {"crash", "tgt_expiry", "metadata_open"}
INVARIANTS FailedLeavesNoTicket FreshDirectory
PROPERTIES DueTicketRenewed RequestAdvances UndisturbedDeletion OnlyRemovalStopsRenewal
