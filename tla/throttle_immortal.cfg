SPECIFICATION FairSpec
CONSTANTS
    Workers = {w1, w2}
    IPs = {i1}
    Mailboxes = {m1}
    Unknown = Unknown
    NoKey = NoKey
    Jobs = {"login"}
    CrashOn = {"redis"}
    Backends = {"redis"}
    Window = 2
    MaxCount = 4
    PerAccount = 2
    PerAddress = 0
    PerGate = 2
    Keys <- MCKeys
    Limit <- MCLimit
PROPERTY LockoutEnds
