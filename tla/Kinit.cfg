SPECIFICATION HostSpec
CONSTANTS
    Thread = {"grpc", "renewal"}
    User = {"user", "machine"}
    Machine = "machine"
    SecretUser = "user"
    Wrong = "wrong"
    NoPass = "none"
    Wiped = "wiped"
    Cache = {"c0", "c1", "c2", "c3"}
    DefaultCache = "c0"
    NoUser = "nobody"
    NoCache = "null"
    NoThread = "null"
    Faults = {"tool", "library"}
INVARIANTS PasswordWiped ErrctxIsOpen AloneIsServed
PROPERTIES InitializedCacheKept
