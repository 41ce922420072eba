SPECIFICATION Spec
CONSTANTS
    None = None
    Seed = Seed
    Requests = {r1, r2, r3}
    Ops = {"login", "refresh", "logout", "sign_out", "write"}
    AccessLife = 2
    RefreshLife = 4
    MaxDelay = 1
SYMMETRY Symmetry
INVARIANT TypeOK
INVARIANT CsrfCoversAuth
INVARIANT RefusedOnlyIfRotated
INVARIANT SignedOutStays
INVARIANT HeldIsLive
INVARIANT VisitorKept
