SPECIFICATION Spec
CONSTANTS
    s1 = s1
    s2 = s2
    None = None
    Requests = {r1, r2}
    Sessions = {s1, s2}
    SignedIn = {s1}
    MaxPool = 2
    Configs <- DevConfigs
    Calls <- MCCalls
INVARIANT AnnouncedIsCaller
