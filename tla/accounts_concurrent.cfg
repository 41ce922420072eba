SPECIFICATION Spec
CONSTANTS
    u1 = u1
    u2 = u2
    s1 = s1
    s2 = s2
    p1 = p1
    v1 = v1
    e1 = e1
    e2 = e2
    e3 = e3
    a = a
    b = b
    None = None
    Requests = {r1, r2, r3}
    SeedUsers = {u1, u2}
    SeedJtis = {s1, s2}
    SeedToks = {p1, v1}
    Emails = {e1, e2, e3}
    Passwords = {a, b}
    Moderators = {u1}
    Superusers = {}
    MaxInFlight = 2
    Faults = {}
    Ageing = {}
    Enabled = {"login", "refresh", "forgot_password", "reset_password", "verify_email", "update_me", "change_password", "revoke_others", "ban", "unban", "delete_me"}
    Address <- MCAddress
    Secret <- MCSecret
    Owner <- MCOwner
    Link <- MCLink
    Calls <- MCCalls
SYMMETRY Symmetry
INVARIANT TypeOK
 
INVARIANT SignOutComplete
INVARIANT OldLinksSpent
INVARIANT CredentialConsumed
PROPERTY SpentForever
PROPERTY PasswordNotClobbered
PROPERTY ReactivationExplained
PROPERTY UnsoundSessionExplained
PROPERTY UnprovenAddressExplained
PROPERTY StoreSpec
