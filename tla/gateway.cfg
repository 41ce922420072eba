SPECIFICATION FairSpec
CONSTANTS
    s1 = s1
    s2 = s2
    None = None
    Requests = {r1, r2}
    Sessions = {s1, s2}
    SignedIn = {s1}
    MaxPool = 1
    Configs <- AllConfigs
    Calls <- MCCalls
INVARIANT TypeOK
INVARIANT AnnouncedIsCaller
INVARIANT RevokedNotAnnounced
INVARIANT LiveCallerAnnounced
INVARIANT NoLeak
PROPERTY RequestEnds
