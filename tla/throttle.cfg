SPECIFICATION FairSpec
CONSTANTS
    Workers = {w1, w2}
    IPs = {i1}
    Mailboxes = {m1}
    Unknown = Unknown
    NoKey = NoKey
    Jobs = {"login", "forgot-password"}
    CrashOn = {"memory"}
    Backends = {"redis", "memory"}
    Window = 2
    MaxCount = 2
    PerAccount = 1
    PerAddress = 1
    PerGate = 1
    Keys <- MCKeys
    Limit <- MCLimit
INVARIANT TypeOK
INVARIANT GuessesBounded
INVARIANT GateHolds
INVARIANT NoImmortalCounter
PROPERTY LockoutEnds
