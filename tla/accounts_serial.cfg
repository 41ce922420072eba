SPECIFICATION Spec
CONSTANTS
    u1 = u1
    u2 = u2
    s1 = s1
    s2 = s2
    p1 = p1
    v1 = v1
    e1 = e1
    e2 = e2
    e3 = e3
    a = a
    b = b
    None = None
    Requests = {r1, r2, r3}
    SeedUsers = {u1, u2}
    SeedJtis = {s1, s2}
    SeedToks = {p1, v1}
    Emails = {e1, e2, e3}
    Passwords = {a, b}
    Moderators = {u1}
    Superusers = {}
    MaxInFlight = 1
    Faults = {}
    Ageing = {s2}
    Enabled = {"register", "login", "refresh", "logout", "verify_email", "forgot_password",
        "reset_password", "me", "update_me", "change_password", "delete_me",
        "revoke_session", "revoke_all", "revoke_others", "ban", "unban"}
    Address <- MCAddress
    Secret <- MCSecret
    Owner <- MCOwner
    Link <- MCLink
    Calls <- MCCalls
SYMMETRY Symmetry
INVARIANT SessionsMatchPassword
INVARIANT InactiveSignedOut
INVARIANT LogoutRevokes
